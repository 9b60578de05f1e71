----------------------------- MODULE MCCommandPath ----------------------------
(* Instances of CommandPath for TLC: the queue has the sizes of the program *)
(* (two doubles in a pool of four).                                         *)
EXTENDS CommandPath

BothThreads == {parser, speedThread}
Nobody == {}
Packets == 1 .. MaxPackets

===============================================================================
