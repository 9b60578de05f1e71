----------------------------- MODULE BoundedDeque -----------------------------
(***************************************************************************)
(* What a message queue promises its callers: a bounded sequence of whole   *)
(* messages that change hands in one step.  A sender first reserves room,   *)
(* then publishes at the back (rt_mq_send) or at the front (rt_mq_urgent);  *)
(* a receiver takes the first message and keeps its room until it is done   *)
(* with it.  There are no blocks, no links and no words here.               *)
(***************************************************************************)
EXTENDS Naturals, Sequences, FiniteSets

CONSTANTS Callers, Message, Capacity

VARIABLES items,   \* the published messages, the next one to be taken first
          hold     \* what each caller is moving in or out

vars == <<items, hold>>

Nothing == [dir |-> "none", m |-> <<>>]

Busy == {c \in Callers : hold[c] # Nothing}

Init ==
  /\ items = <<>>
  /\ hold = [c \in Callers |-> Nothing]

Reserve(c, m, dir) ==
  /\ hold[c] = Nothing
  /\ Len(items) + Cardinality(Busy) < Capacity
  /\ hold' = [hold EXCEPT ![c] = [dir |-> dir, m |-> m]]
  /\ UNCHANGED items

Publish(c) ==
  /\ \/ /\ hold[c].dir = "back"
        /\ items' = Append(items, hold[c].m)
     \/ /\ hold[c].dir = "front"
        /\ items' = <<hold[c].m>> \o items
  /\ hold' = [hold EXCEPT ![c] = Nothing]

Take(c) ==
  /\ hold[c] = Nothing
  /\ items # <<>>
  /\ hold' = [hold EXCEPT ![c] = [dir |-> "out", m |-> Head(items)]]
  /\ items' = Tail(items)

Done(c) ==
  /\ hold[c].dir = "out"
  /\ hold' = [hold EXCEPT ![c] = Nothing]
  /\ UNCHANGED items

Flush ==
  /\ items' = <<>>
  /\ UNCHANGED hold

Next ==
  \/ Flush
  \/ \E c \in Callers :
       \/ \E m \in Message, dir \in {"back", "front"} : Reserve(c, m, dir)
       \/ Publish(c) \/ Take(c) \/ Done(c)

Spec == Init /\ [][Next]_vars

===============================================================================
