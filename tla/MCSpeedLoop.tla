----------------------------- MODULE MCSpeedLoop ------------------------------
(* Instances of SpeedLoop for TLC.                                          *)
EXTENDS SpeedLoop

OneWheel == <<"left">>

\* Straight on, backwards and faster than the limit.
StraightCommands == {<<1, 0>>, <<-3, 0>>}

UninitValues == {NaN, 50}

===============================================================================
