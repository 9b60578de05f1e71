----------------------------- MODULE MCAtReceive ------------------------------
(* Instance of AtReceive for TLC; the constants are given in the .cfg file.  *)
EXTENDS AtReceive
===============================================================================
