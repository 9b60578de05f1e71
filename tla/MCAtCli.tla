------------------------------- MODULE MCAtCli --------------------------------
(* Instances of AtCli for TLC.                                              *)
EXTENDS AtCli
===============================================================================
