------------------------------ MODULE MCAtClient ------------------------------
(* Instances of AtClient for TLC.                                           *)
EXTENDS AtClient

CONSTANTS mainThread, shell

TwoCallers == {mainThread, shell}
OneCaller == {mainThread}

\* Commands that wait for OK, for one line, and for nothing.
AnyLineNum == {0, 1, NoResp}
ToTheEnd == {0}

===============================================================================
