---------------------------- MODULE BlockAllocator ----------------------------
(***************************************************************************)
(* What a heap promises to the threads that share it: a block is aligned,   *)
(* large enough and its own, nobody else's call changes it, and a request   *)
(* is refused only when no gap between the blocks is large enough for it.   *)
(* Two exceptions are those of the small memory manager of RT-Thread: the   *)
(* gap before the end of the heap must be larger than the request, and a    *)
(* block that was made smaller may hide a gap.                              *)
(***************************************************************************)
EXTENDS Integers

CONSTANTS
  HeapEnd,   \* the heap is 0 .. HeapEnd - 1
  Header,    \* bytes a block needs beside its data
  Align      \* of the address of a block

VARIABLES
  blocks,    \* the blocks handed out: address, end, bytes asked for
  hidden,    \* a gap is hidden
  refused    \* the size the last call asked for in vain, 0 if it did not

vars == <<blocks, hidden, refused>>

Init == blocks = {} /\ hidden = FALSE /\ refused = 0

Holds(b) == b.end - b.addr >= Header + b.size

Grant ==
  /\ \E b \in blocks' :
       /\ b \notin blocks /\ blocks' = blocks \cup {b}
       /\ b.addr % Align = 0 /\ 0 <= b.addr /\ b.end <= HeapEnd /\ Holds(b)
       /\ \A c \in blocks : b.end <= c.addr \/ c.end <= b.addr
  /\ hidden' => hidden
  /\ refused' = 0

Release ==
  /\ \E b \in blocks : blocks' = blocks \ {b}
  /\ hidden' => hidden
  /\ refused' = 0

\* A block stays where it is and gives up its end.
Resize ==
  /\ \E b \in blocks, c \in blocks' :
       /\ c.addr = b.addr /\ c.end <= b.end /\ Holds(c)
       /\ blocks' = (blocks \ {b}) \cup {c}
  /\ refused' = 0

Gap(lo, hi) ==
  /\ lo < hi
  /\ \A b \in blocks : b.end <= lo \/ hi <= b.addr

Refuse ==
  /\ refused' > 0
  /\ \/ hidden
     \/ \A lo \in {0} \cup {b.end : b \in blocks} :
          /\ \A hi \in {b.addr : b \in blocks} : Gap(lo, hi) => hi - lo < Header + refused'
          /\ Gap(lo, HeapEnd) => HeapEnd - lo <= Header + refused'
  /\ UNCHANGED <<blocks, hidden>>

Next == Grant \/ Release \/ Resize \/ Refuse

Spec == Init /\ [][Next]_vars
===============================================================================
