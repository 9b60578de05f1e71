--------------------------- MODULE MCRtMessageQueue ---------------------------
(* Instances of RtMessageQueue for TLC.                                     *)
EXTENDS RtMessageQueue

CONSTANTS t1, t2, t3, m1, m2

AllThreads == {t1, t2, t3}

\* t3 is an interrupt handler: it never waits.
TwoBlocking == {t1, t2}

TwoMsgs == {m1, m2}
OneMsg == {m1}

===============================================================================
