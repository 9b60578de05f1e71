------------------------------- MODULE MCRtMem --------------------------------
(* Instance of RtMem for TLC; the constants are given in the .cfg file.      *)
EXTENDS RtMem
===============================================================================
