----------------------------- MODULE MCSerialRx -------------------------------
(* Instances of SerialRx for TLC; the constants are given in the .cfg files. *)
EXTENDS SerialRx
===============================================================================
