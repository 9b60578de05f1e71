------------------------------ MODULE ByteStream ------------------------------
(***************************************************************************)
(* What the receive side of a serial device promises to the thread that     *)
(* reads it: the bytes come out in the order in which they came in, none is *)
(* left out and none comes twice.  Bytes are numbered from 1.               *)
(* A line that outpaces the device ends the promise.                        *)
(***************************************************************************)
EXTENDS Naturals

VARIABLES
  stored,   \* bytes that have arrived
  taken,    \* bytes that have been read
  last,     \* the byte read last, 0 before the first
  outpaced  \* the line was too fast

vars == <<stored, taken, last, outpaced>>

Init == stored = 0 /\ taken = 0 /\ last = 0 /\ outpaced = FALSE

Arrive == stored' = stored + 1 /\ UNCHANGED <<taken, last, outpaced>>

Deliver ==
  /\ taken < stored
  /\ taken' = taken + 1
  /\ last' = taken + 1
  /\ UNCHANGED <<stored, outpaced>>

\* Once the line has outpaced the device, anything may be read.
Outpace == outpaced' = TRUE

Next == Arrive \/ Deliver \/ Outpace

Spec == Init /\ [][Next]_vars
===============================================================================
