----------------------------- MODULE AtCliProofs ------------------------------
(***************************************************************************)
(* The AT command line for every size of its ring, every number of bytes    *)
(* and of sessions: its invariants.                                         *)
(*                                                                         *)
(* The mirror bits make positions of 0 .. 2 * buffer_size - 1 out of the    *)
(* indices.  What the races of getchar with the puts leave of the ring is   *)
(* told by the position the read index will have when getchar is through    *)
(* (Target): the write position is never further ahead of it than notices   *)
(* remain, whatever the puts have done to the read index since.  What a put *)
(* of the UART handler leaves between two accesses is told by the ring as    *)
(* it will be when the put is through (Ring), which none of its accesses    *)
(* changes once it has begun.                                               *)
(***************************************************************************)
EXTENDS AtCli, WellFoundedInduction, TLAPS

\* The position of an index with its mirror bit, and the way from r to w.
At(m, i) == IF m = 0 THEN i ELSE buffer_size + i

Ahead(w, r) == IF w >= r THEN w - r ELSE w - r + 2 * buffer_size

After(p) == IF p = 2 * buffer_size - 1 THEN 0 ELSE p + 1

Rd(rb) == At(rb.read_mirror, rb.read_index)

Wr(rb) == At(rb.write_mirror, rb.write_index)

\* A getchar that has found a byte and not stored the read index for good.
ReadingStates ==
  {"copy", "compare", "inc", "inc_store", "flip", "flip_store", "zero", "zero_store"}

\* Where the read position of ring rb will be when getchar, which is at c and has
\* loaded h, is through.
Target(rb, c, h) ==
  CASE c \in {"copy", "compare", "inc"} -> After(Rd(rb))
    [] c = "inc_store" -> After(At(h.mirror, h.index))
    [] c = "flip" -> At(1 - rb.read_mirror, 0)
    [] c = "flip_store" -> At(1 - h.mirror, 0)
    [] c = "zero" -> At(rb.read_mirror, 0)
    [] c = "zero_store" -> At(h.mirror, 0)

\* Ring rb and o outstanding notices: what is in the ring has notices, also when
\* getchar is through.  Only an overflow (over) moves the read index under it.
RingOK(rb, o, c, h, over) ==
  /\ data_len(rb) <= o
  /\ c \notin ReadingStates => Ahead(Wr(rb), Rd(rb)) <= o
  /\ c \in ReadingStates => Ahead(Wr(rb), Target(rb, c, h)) < o
  /\ c = "flip" => rb.read_index = buffer_size - 1 \/ o > buffer_size
  /\ c = "flip_store" => h.index = buffer_size - 1 \/ o > buffer_size
  /\ c = "inc" => rb.read_index # buffer_size - 1 \/ over
  /\ c = "inc_store" => h.index # buffer_size - 1 \/ over

\* How far index i is behind the read index.
Off(i, r) == IF i >= r THEN i - r ELSE i - r + buffer_size

\* The bytes of ring rb are those after p, in order, and each has its notice.
Holds(rb, o, p) ==
  \A i \in 0 .. buffer_size - 1 :
    Off(i, rb.read_index) < o => rb.buffer[i] = p + 1 + Off(i, rb.read_index)

\* Nothing was lost: the notices are as many as the bytes.
Exact(rb, o, c, h) ==
  /\ o <= buffer_size
  /\ c \notin ReadingStates => Ahead(Wr(rb), Rd(rb)) = o
  /\ c \in ReadingStates => Ahead(Wr(rb), Target(rb, c, h)) = o - 1
  /\ c \in {"inc_store", "flip_store", "zero_store"} =>
       h = [mirror |-> rb.read_mirror, index |-> rb.read_index]
  /\ c \in {"flip", "flip_store", "zero", "zero_store"} => rb.read_index = buffer_size - 1
  /\ c \in {"inc", "inc_store"} => rb.read_index # buffer_size - 1

\* A put that moves the indices of ring rb, is at pc, has loaded h and found space
\* s: what the ring will be when it is through.  Any other pc leaves rb.
Made(rb, wm, wi, rm, ri) ==
  [buffer |-> rb.buffer, read_mirror |-> rm, read_index |-> ri,
   write_mirror |-> wm, write_index |-> wi]

Wraps(pc) == pc \in {"flip_store", "zero", "zero_store"}

Done(rb, pc, h, s) ==
  LET wm == CASE pc \in {"inc_store", "zero_store"} -> h.mirror
              [] pc = "flip_store" -> 1 - h.mirror
              [] OTHER -> rb.write_mirror
      wi == IF pc = "inc_store" THEN h.index + 1
            ELSE IF Wraps(pc) THEN 0 ELSE rb.write_index
      rm == CASE pc = "rflip" \/ (Wraps(pc) /\ s = 0) -> 1 - rb.read_mirror
              [] pc = "rflip_store" -> 1 - h.mirror
              [] pc = "follow_store" -> h.mirror
              [] OTHER -> rb.read_mirror
      ri == CASE pc \in {"rflip", "rflip_store", "follow"} -> rb.write_index
              [] (pc = "inc_store" \/ Wraps(pc)) /\ s = 0 -> wi
              [] pc = "follow_store" -> h.index
              [] OTHER -> rb.read_index
  IN  Made(rb, wm, wi, rm, ri)

\* The branch it is in is still the one for the write index it has loaded.
StraightAt(rb, pc, h) ==
  /\ pc = "inc_store" => h.index # buffer_size - 1
  /\ pc \in {"flip_store", "zero_store"} => h.index = buffer_size - 1
  /\ pc = "zero" => rb.write_index = buffer_size - 1

----------------------------------------------------------------------------
(* The inductive invariant                                                  *)

Rings == [buffer : [0 .. buffer_size - 1 -> Nat],
          read_mirror : {0, 1}, read_index : 0 .. buffer_size - 1,
          write_mirror : {0, 1}, write_index : 0 .. buffer_size - 1]

Halves == [mirror : {0, 1}, index : 0 .. buffer_size - 1]

CliStates == {"none", "created", "take", "waiting", "get", "print"} \cup ReadingStates

MovingStates ==
  {"inc_store", "flip_store", "zero", "zero_store", "rflip", "rflip_store", "follow",
   "follow_store"}

\* A put that has looked at the space, and one that has copied its byte.
Measured == {"test", "copy", "copy_wrap", "copy_rest", "inc", "flip"}

Copied == {"copy_rest", "inc", "flip"}

Holding == {"put", "mirrors", "order", "ahead", "behind"} \cup Measured

IsrStates == {"none", "read", "release"} \cup Holding \cup MovingStates

TypeInv ==
  /\ fifo \in Rings /\ half \in Halves /\ word \in Halves
  /\ rx_notice \in Nat /\ sessions \in Nat
  /\ came \in Nat /\ unread \in Nat /\ held \in Nat /\ space \in Nat
  /\ printed \in Nat /\ ch \in Nat
  /\ cli \in CliStates /\ isr \in IsrStates
  /\ overflowed \in BOOLEAN /\ nested \in BOOLEAN /\ torn \in BOOLEAN /\ failed \in BOOLEAN

\* What the client has when no session changes it.
HomeStatus == IF failed THEN "cli" ELSE "initialized"

HomeRxInd == IF failed THEN "cli" ELSE "at_client"

\* Where the shell is tells what has been backed up and what restored, and
\* whether the ring and the thread are there.
ShellInv ==
  /\ shell \in {"idle", "rx_ind", "sem", "fifo", "thread", "session", "restore", "delete", "destroy"}
  /\ shell \in {"idle", "restore", "delete", "destroy"} => status = HomeStatus
  /\ shell \notin {"idle", "restore", "delete", "destroy"} => status = "cli"
  /\ shell \in {"idle", "rx_ind", "delete", "destroy"} => rx_indicate = HomeRxInd
  /\ shell \notin {"idle", "rx_ind", "delete", "destroy"} => rx_indicate = "cli"
  /\ shell \in {"rx_ind", "sem", "fifo", "thread", "session"} => odev_status = HomeStatus
  /\ shell \in {"sem", "fifo", "thread", "session", "restore"} => odev_rx_ind = HomeRxInd
  /\ shell \in {"session", "restore", "delete"} <=> cli \notin {"none", "created"}
  /\ shell \in {"session", "restore", "delete", "destroy"} => fifo_state = "live"
  /\ shell = "thread" => fifo_state \in {"live", "null"}
  /\ cli = "created" => failed
  /\ isr # "none" => rx_indicate = "cli"
  /\ isr \notin {"none", "read"} => fifo_state = "live"

\* Only a session that was not the first finds a ring that was freed.
SessionInv ==
  /\ shell # "idle" => sessions > 0
  /\ fifo_state = "freed" => sessions > 1 \/ (sessions = 1 /\ shell = "idle" /\ ~failed)
  /\ failed => sessions > 0
  /\ sessions = 1 /\ failed => shell = "idle"
  /\ fifo_state \in {"live", "null", "freed"}
  /\ ~failed /\ shell \in {"idle", "rx_ind", "sem", "fifo"} => fifo_state # "live"

\* A ring that a session uses, or is about to.
InUse == fifo_state = "live" /\ shell \in {"thread", "session", "restore", "delete"}

\* The ring and its notices when the put of the UART handler is through.
Ring == Done(fifo, isr, word, space)

Count == IF Moving THEN Outstanding + 1 ELSE Outstanding

Straight == StraightAt(fifo, isr, word)

\* The branch that ringbuffer.c:114 chose is the right one as long as no handler
\* nests.
BranchInv ==
  /\ torn => nested
  /\ ~nested =>
       /\ isr \in {"copy", "inc"} => fifo.write_index # buffer_size - 1
       /\ isr \in {"copy_wrap", "copy_rest", "flip"} => fifo.write_index = buffer_size - 1
       /\ Straight

\* What a ring whose indices were not torn has notices for; a put that found no
\* space finds it full to the end.
RingPart ==
  /\ Straight => RingOK(Ring, Count, cli, half, overflowed)
  /\ isr \in Measured /\ space = 0 => is_full(fifo)
  /\ isr = "mirrors" => fifo.read_index = fifo.write_index
  /\ isr \in {"order", "ahead", "behind"} => fifo.read_index # fifo.write_index

RingInv == InUse /\ ~torn => RingPart

StopInv ==
  /\ stopped \in {"assert", "wild"} =>
       failed \/ shell \in {"sem", "fifo"} \/ (shell = "thread" /\ fifo_state = "null")
  /\ stopped = "wild" => sessions > 1
  /\ stopped = "outside" => overflowed \/ nested

Clean == ~overflowed /\ ~nested /\ ~failed

\* Bytes that the thread has in hand, and that the UART handler has.
InHand == IF cli = "print" THEN 1 ELSE 0

Pending == IF isr \in Holding THEN 1 ELSE 0

\* The UART handler has written over the oldest byte.
Overwrites == isr \in Copied /\ Count = buffer_size

\* As long as nothing was lost the ring holds the bytes that came and were not
\* printed, in order.
OrderPart ==
  /\ Exact(Ring, Count, cli, half)
  /\ came = printed + InHand + Count + Pending
  /\ ~Overwrites => Holds(Ring, Count, printed + InHand)
  /\ isr \in Holding => held = came
  /\ isr \in Measured /\ Count # buffer_size => space # 0
  /\ isr \in Copied /\ ~Overwrites => fifo.buffer[fifo.write_index] = held
  /\ cli \in {"print"} \cup (ReadingStates \ {"copy"}) => ch = printed + 1

OrderInv ==
  /\ shell = "fifo" /\ ~failed => rx_notice = 0
  /\ shell = "delete" /\ ~failed => cli = "waiting"
  /\ InUse /\ shell # "delete" /\ Clean => OrderPart

IInv ==
  /\ TypeInv /\ ShellInv /\ SessionInv /\ BranchInv /\ RingInv /\ StopInv /\ OrderInv

----------------------------------------------------------------------------
(* A put                                                                    *)

LEMMA Size == buffer_size \in Nat \ {0}
  <1>1. size \in Nat /\ RT_ALIGN_SIZE \in Nat \ {0} /\ buffer_size > 0
    BY RingAssumption
  <1>2. size % RT_ALIGN_SIZE \in Nat
    BY <1>1, SMT
  <1>3. buffer_size \in Int
    BY <1>1, <1>2 DEF buffer_size
  <1> QED  BY <1>1, <1>3

LEMMA RingFields ==
  ASSUME NEW rb \in Rings
  PROVE  /\ rb.buffer \in [0 .. buffer_size - 1 -> Nat]
         /\ rb.read_mirror \in {0, 1} /\ rb.write_mirror \in {0, 1}
         /\ rb.read_index \in Int /\ 0 <= rb.read_index /\ rb.read_index < buffer_size
         /\ rb.write_index \in Int /\ 0 <= rb.write_index /\ rb.write_index < buffer_size
  BY Size DEF Rings

\* The fields of ring q, which is rb after a put that found space s.
Advanced(q, rb, s) ==
  LET wraps == rb.write_index = buffer_size - 1
      w == IF wraps THEN 0 ELSE rb.write_index + 1
  IN  /\ q \in Rings /\ q.buffer = rb.buffer
      /\ q.write_index = w
      /\ q.write_mirror = IF wraps THEN 1 - rb.write_mirror ELSE rb.write_mirror
      /\ q.read_index = IF s = 0 THEN w ELSE rb.read_index
      /\ q.read_mirror = IF s = 0 /\ wraps THEN 1 - rb.read_mirror ELSE rb.read_mirror

LEMMA PutFields ==
  ASSUME NEW rb \in Rings, NEW s
  PROVE  Advanced(put_advance(rb, s), rb, s)
  <1> DEFINE wraps == rb.write_index = buffer_size - 1
             w == IF wraps THEN 0 ELSE rb.write_index + 1
             wm == IF wraps THEN 1 - rb.write_mirror ELSE rb.write_mirror
             ri == IF s = 0 THEN w ELSE rb.read_index
             rm == IF s = 0 /\ wraps THEN 1 - rb.read_mirror ELSE rb.read_mirror
  <1>1. /\ w \in 0 .. buffer_size - 1 /\ ri \in 0 .. buffer_size - 1
        /\ wm \in {0, 1} /\ rm \in {0, 1}
    BY RingFields, Size
  <1>2. rb = [buffer |-> rb.buffer, read_mirror |-> rb.read_mirror, read_index |-> rb.read_index,
              write_mirror |-> rb.write_mirror, write_index |-> rb.write_index]
    BY DEF Rings
  <1>3. put_advance(rb, s) = [buffer |-> rb.buffer, read_mirror |-> rm, read_index |-> ri,
                              write_mirror |-> wm, write_index |-> w]
    <2>1. put_advance(rb, s) = [rb EXCEPT !.write_index = w, !.write_mirror = wm,
                                          !.read_index = ri, !.read_mirror = rm]
      BY DEF put_advance
    <2> HIDE DEF w, wm, ri, rm
    <2> QED  BY <1>2, <2>1
  <1>4. put_advance(rb, s) \in Rings
    <2> HIDE DEF w, wm, ri, rm
    <2> QED  BY <1>1, <1>3, RingFields DEF Rings
  <1> QED  BY <1>3, <1>4 DEF Advanced

\* What data_len tells, and the distance of the positions.
LEMMA LenFacts ==
  ASSUME NEW rb \in Rings
  PROVE  /\ data_len(rb) \in 0 .. buffer_size
         /\ data_len(rb) = buffer_size <=> is_full(rb)
         /\ Ahead(Wr(rb), Rd(rb)) \in 0 .. 2 * buffer_size - 1
         /\ Ahead(Wr(rb), Rd(rb)) <= buffer_size => data_len(rb) = Ahead(Wr(rb), Rd(rb))
         /\ Ahead(Wr(rb), Rd(rb)) > buffer_size =>
              data_len(rb) = Ahead(Wr(rb), Rd(rb)) - buffer_size
         /\ is_full(rb) <=> Ahead(Wr(rb), Rd(rb)) = buffer_size
         /\ Wr(rb) \in 0 .. 2 * buffer_size - 1 /\ Rd(rb) \in 0 .. 2 * buffer_size - 1
  <1>1. PICK n, ri, wi : /\ n = buffer_size /\ ri = rb.read_index /\ wi = rb.write_index
                         /\ n \in Nat \ {0} /\ ri \in 0 .. n - 1 /\ wi \in 0 .. n - 1
    BY RingFields, Size
  <1>2. rb.read_mirror \in {0, 1} /\ rb.write_mirror \in {0, 1}
    BY RingFields
  <1>3. CASE rb.read_mirror = rb.write_mirror
    <2>1. data_len(rb) = IF ri = wi THEN 0 ELSE IF wi > ri THEN wi - ri ELSE n - (ri - wi)
      BY <1>1, <1>3 DEF data_len, is_empty, is_full
    <2>2. ~is_full(rb)
      BY <1>3 DEF is_full
    <2>3. CASE rb.read_mirror = 0
      BY <1>1, <1>3, <2>1, <2>2, <2>3 DEF Ahead, Wr, Rd, At
    <2>4. CASE rb.read_mirror = 1
      BY <1>1, <1>3, <2>1, <2>2, <2>4 DEF Ahead, Wr, Rd, At
    <2> QED  BY <1>2, <2>3, <2>4
  <1>4. CASE rb.read_mirror # rb.write_mirror
    <2>1. data_len(rb) = IF ri = wi THEN n ELSE IF wi > ri THEN wi - ri ELSE n - (ri - wi)
      BY <1>1, <1>4 DEF data_len, is_empty, is_full
    <2>2. is_full(rb) <=> ri = wi
      BY <1>1, <1>4 DEF is_full
    <2>3. CASE rb.read_mirror = 0 /\ rb.write_mirror = 1
      BY <1>1, <2>1, <2>2, <2>3 DEF Ahead, Wr, Rd, At
    <2>4. CASE rb.read_mirror = 1 /\ rb.write_mirror = 0
      BY <1>1, <2>1, <2>2, <2>4 DEF Ahead, Wr, Rd, At
    <2> QED  BY <1>2, <1>4, <2>3, <2>4
  <1> QED  BY <1>3, <1>4

\* The next index and its mirror are the next position.
LEMMA AtStep ==
  ASSUME NEW m \in {0, 1}, NEW i \in 0 .. buffer_size - 1
  PROVE  /\ At(m, i) \in 0 .. 2 * buffer_size - 1
         /\ At(IF i = buffer_size - 1 THEN 1 - m ELSE m,
               IF i = buffer_size - 1 THEN 0 ELSE i + 1) = After(At(m, i))
  <1>1. PICK n : n = buffer_size /\ n \in Nat \ {0}
    BY Size
  <1>2. CASE m = 0 /\ i = n - 1
    BY <1>1, <1>2 DEF At, After
  <1>3. CASE m = 0 /\ i # n - 1
    BY <1>1, <1>3 DEF At, After
  <1>4. CASE m = 1 /\ i = n - 1
    BY <1>1, <1>4 DEF At, After
  <1>5. CASE m = 1 /\ i # n - 1
    BY <1>1, <1>5 DEF At, After
  <1> QED  BY <1>2, <1>3, <1>4, <1>5

\* The write position moves on by one; the read position does too when the ring
\* is full and stays where it is otherwise.
LEMMA PutMoves ==
  ASSUME NEW rb \in Rings, NEW s \in Nat, NEW q, Advanced(q, rb, s),
         s = 0 => is_full(rb)
  PROVE  /\ Wr(q) = After(Wr(rb))
         /\ s # 0 => /\ q.read_index = rb.read_index /\ q.read_mirror = rb.read_mirror
                     /\ Rd(q) = Rd(rb)
         /\ s = 0 => /\ Rd(q) = After(Rd(rb)) /\ is_full(q)
                     /\ q.read_mirror = IF rb.read_index = buffer_size - 1
                                        THEN 1 - rb.read_mirror ELSE rb.read_mirror
                     /\ q.read_index = IF rb.read_index = buffer_size - 1
                                       THEN 0 ELSE rb.read_index + 1
  <1>1. /\ q.write_index = IF rb.write_index = buffer_size - 1 THEN 0 ELSE rb.write_index + 1
        /\ q.write_mirror = IF rb.write_index = buffer_size - 1
                            THEN 1 - rb.write_mirror ELSE rb.write_mirror
        /\ q.read_index = IF s = 0 THEN q.write_index ELSE rb.read_index
        /\ q.read_mirror = IF s = 0 /\ rb.write_index = buffer_size - 1
                           THEN 1 - rb.read_mirror ELSE rb.read_mirror
    BY DEF Advanced
  <1>2. Wr(q) = After(Wr(rb))
    BY <1>1, AtStep DEF Wr, Rings
  <1>3. CASE s # 0
    BY <1>1, <1>2, <1>3 DEF Rd
  <1>4. CASE s = 0
    <2>1. rb.read_index = rb.write_index /\ rb.read_mirror # rb.write_mirror
      BY <1>4 DEF is_full
    <2>2. /\ q.read_mirror = IF rb.read_index = buffer_size - 1
                             THEN 1 - rb.read_mirror ELSE rb.read_mirror
          /\ q.read_index = IF rb.read_index = buffer_size - 1 THEN 0 ELSE rb.read_index + 1
      BY <1>1, <1>4, <2>1
    <2>3. is_full(q)
      BY <1>1, <1>4, <2>1, RingFields DEF is_full
    <2>4. Rd(q) = After(Rd(rb))
      BY <2>2, AtStep DEF Rd, Rings
    <2> QED  BY <1>2, <1>4, <2>2, <2>3, <2>4
  <1> QED  BY <1>3, <1>4

\* A position that stays is one further behind, or zero behind.
LEMMA AheadAfter ==
  ASSUME NEW w \in 0 .. 2 * buffer_size - 1, NEW r \in 0 .. 2 * buffer_size - 1
  PROVE  /\ Ahead(After(w), r) = IF Ahead(w, r) = 2 * buffer_size - 1 THEN 0 ELSE Ahead(w, r) + 1
         /\ Ahead(w, After(r)) = IF Ahead(w, r) = 0 THEN 2 * buffer_size - 1 ELSE Ahead(w, r) - 1
         /\ Ahead(After(w), After(r)) = Ahead(w, r)
         /\ Ahead(w, r) \in 0 .. 2 * buffer_size - 1
         /\ After(w) \in 0 .. 2 * buffer_size - 1
  BY Size DEF Ahead, After

LEMMA AheadBounds ==
  ASSUME NEW w \in 0 .. 2 * buffer_size - 1, NEW r \in 0 .. 2 * buffer_size - 1
  PROVE  /\ Ahead(w, r) \in Nat /\ Ahead(After(w), r) \in Nat
         /\ Ahead(After(w), r) <= Ahead(w, r) + 1
         /\ Ahead(After(w), After(r)) = Ahead(w, r)
  BY Size DEF Ahead, After

\* Where getchar will leave the read position stays, or moves on with the write
\* position, or changes its mirror when the ring is full.
LEMMA TargetType ==
  ASSUME NEW rb \in Rings, NEW h \in Halves, NEW c \in ReadingStates
  PROVE  Target(rb, c, h) \in 0 .. 2 * buffer_size - 1
  <1>1. ASSUME NEW m \in {0, 1}
        PROVE  /\ At(m, 0) \in 0 .. 2 * buffer_size - 1
               /\ At(1 - m, 0) \in 0 .. 2 * buffer_size - 1
    BY Size DEF At
  <1>2. /\ Rd(rb) \in 0 .. 2 * buffer_size - 1
        /\ At(h.mirror, h.index) \in 0 .. 2 * buffer_size - 1
    BY AtStep DEF Rd, Rings, Halves
  <1>3. /\ After(Rd(rb)) \in 0 .. 2 * buffer_size - 1
        /\ After(At(h.mirror, h.index)) \in 0 .. 2 * buffer_size - 1
    BY <1>2, AheadAfter
  <1>4. rb.read_mirror \in {0, 1} /\ h.mirror \in {0, 1}
    BY DEF Rings, Halves
  <1>5. /\ At(1 - rb.read_mirror, 0) \in 0 .. 2 * buffer_size - 1
        /\ At(1 - h.mirror, 0) \in 0 .. 2 * buffer_size - 1
        /\ At(rb.read_mirror, 0) \in 0 .. 2 * buffer_size - 1
        /\ At(h.mirror, 0) \in 0 .. 2 * buffer_size - 1
    BY <1>1, <1>4
  <1>6. \/ Target(rb, c, h) = After(Rd(rb)) \/ Target(rb, c, h) = After(At(h.mirror, h.index))
        \/ Target(rb, c, h) = At(1 - rb.read_mirror, 0) \/ Target(rb, c, h) = At(1 - h.mirror, 0)
        \/ Target(rb, c, h) = At(rb.read_mirror, 0) \/ Target(rb, c, h) = At(h.mirror, 0)
    BY DEF Target, ReadingStates
  <1> QED  BY <1>3, <1>5, <1>6

LEMMA PutTarget ==
  ASSUME NEW rb \in Rings, NEW s \in Nat, NEW q, Advanced(q, rb, s), s = 0 => is_full(rb),
         NEW h \in Halves, NEW c \in ReadingStates, NEW o \in Nat,
         Ahead(Wr(rb), Target(rb, c, h)) < o
  PROVE  Ahead(Wr(q), Target(q, c, h)) < o + 1
  <1> DEFINE t == Target(rb, c, h)
             u == Target(q, c, h)
             w == Wr(rb)
  <1>1. /\ t \in 0 .. 2 * buffer_size - 1 /\ w \in 0 .. 2 * buffer_size - 1
        /\ Rd(rb) \in 0 .. 2 * buffer_size - 1
    BY TargetType, LenFacts
  <1>2. /\ Wr(q) = After(w)
        /\ s # 0 => /\ q.read_index = rb.read_index /\ q.read_mirror = rb.read_mirror
                    /\ Rd(q) = Rd(rb)
        /\ s = 0 => /\ Rd(q) = After(Rd(rb)) /\ is_full(q)
                    /\ q.read_mirror = IF rb.read_index = buffer_size - 1
                                       THEN 1 - rb.read_mirror ELSE rb.read_mirror
    BY PutMoves
  <1>3. ASSUME u = t PROVE Ahead(Wr(q), u) < o + 1
    <2> HIDE DEF t, u, w
    <2>1. Ahead(After(w), t) <= Ahead(w, t) + 1 /\ Ahead(w, t) \in Nat /\ Ahead(After(w), t) \in Nat
      BY <1>1, AheadBounds
    <2>2. Ahead(w, t) < o
      BY DEF t, w
    <2> QED  BY <1>2, <1>3, <2>1, <2>2
  <1>4. CASE s # 0 \/ c \in {"inc_store", "flip_store", "zero_store"}
    <2>1. u = t
      BY <1>2, <1>4 DEF Target, ReadingStates
    <2> QED  BY <1>3, <2>1
  <1>5. CASE s = 0 /\ c \in {"copy", "compare", "inc"}
    <2>1. t = After(Rd(rb)) /\ u = After(t)
      BY <1>2, <1>5 DEF Target
    <2> HIDE DEF t, u, w
    <2>2. Ahead(After(w), After(t)) = Ahead(w, t) /\ Ahead(w, t) \in Nat
      BY <1>1, AheadBounds
    <2>3. Ahead(w, t) < o
      BY DEF t, w
    <2>4. Ahead(Wr(q), u) < o + 1
      BY <1>2, <2>1, <2>2, <2>3
    <2> QED  BY <2>4 DEF u
  <1>6. CASE s = 0 /\ c \in {"flip", "zero"}
    <2>1. CASE rb.read_index # buffer_size - 1
      <3>1. q.read_mirror = rb.read_mirror
        BY <1>2, <1>6, <2>1
      <3>2. u = t
        BY <1>6, <3>1 DEF Target
      <3> QED  BY <1>3, <3>2
    <2>2. CASE rb.read_index = buffer_size - 1
      <3>1. rb.write_index = buffer_size - 1 /\ rb.write_mirror = 1 - rb.read_mirror
        BY <1>6, <2>2, RingFields DEF is_full
      <3>2. q.read_mirror = 1 - rb.read_mirror /\ rb.read_mirror \in {0, 1}
        BY <1>2, <1>6, <2>2, RingFields
      <3>3. PICK n : n = buffer_size /\ n \in Nat \ {0}
        BY Size
      <3>4. w = IF rb.read_mirror = 0 THEN 2 * n - 1 ELSE n - 1
        BY <3>1, <3>2, <3>3 DEF Wr, At
      <3>5. Wr(q) = IF rb.read_mirror = 0 THEN 0 ELSE n
        <4> HIDE DEF w
        <4> QED  BY <1>2, <3>2, <3>3, <3>4 DEF After
      <3>6. CASE c = "flip"
        <4>1. u = At(rb.read_mirror, 0)
          BY <3>2, <3>6 DEF Target
        <4>2. u = Wr(q)
          BY <3>2, <3>3, <3>5, <4>1 DEF At
        <4> HIDE DEF u
        <4>3. Wr(q) \in Int
          BY <3>3, <3>5
        <4>4. Ahead(Wr(q), u) = 0
          BY <4>2, <4>3 DEF Ahead
        <4> QED  BY <4>4 DEF u
      <3>7. CASE c = "zero"
        <4>1. t = At(rb.read_mirror, 0) /\ u = At(1 - rb.read_mirror, 0)
          BY <3>2, <3>7 DEF Target
        <4>2. /\ t = IF rb.read_mirror = 0 THEN 0 ELSE n
              /\ u = IF rb.read_mirror = 0 THEN n ELSE 0
          BY <3>2, <3>3, <4>1 DEF At
        <4> HIDE DEF t, u, w
        <4>3. Ahead(w, t) = 2 * n - 1
          BY <3>2, <3>3, <3>4, <4>2 DEF Ahead
        <4>4. Ahead(Wr(q), u) = n
          BY <3>2, <3>3, <3>5, <4>2 DEF Ahead
        <4>5. 2 * n - 1 < o
          BY <4>3 DEF t, w
        <4> QED  BY <3>3, <4>4, <4>5 DEF u
      <3> QED  BY <1>6, <3>6, <3>7
    <2> QED  BY <2>1, <2>2
  <1> QED  BY <1>4, <1>5, <1>6 DEF ReadingStates

\* A put adds a notice and at most a byte.
LEMMA PutKeeps ==
  ASSUME NEW rb \in Rings, NEW s \in Nat, NEW q, Advanced(q, rb, s), s = 0 => is_full(rb),
         NEW h \in Halves, NEW c \in CliStates, NEW o \in Nat, NEW over \in BOOLEAN,
         RingOK(rb, o, c, h, over)
  PROVE  RingOK(q, o + 1, c, h, over \/ o + 1 > buffer_size)
  <1>0. q \in Rings
    BY DEF Advanced
  <1>1. /\ data_len(rb) \in 0 .. buffer_size /\ data_len(q) \in 0 .. buffer_size
        /\ s = 0 => data_len(rb) = buffer_size
        /\ data_len(rb) <= o /\ buffer_size \in Nat
    BY <1>0, LenFacts, Size DEF RingOK
  <1>2. /\ Wr(q) = After(Wr(rb))
        /\ s # 0 => Rd(q) = Rd(rb) /\ q.read_index = rb.read_index
        /\ s = 0 => Rd(q) = After(Rd(rb))
    BY PutMoves
  <1>3. Ahead(Wr(q), Rd(q)) <= Ahead(Wr(rb), Rd(rb)) + 1
    <2>1. Wr(rb) \in 0 .. 2 * buffer_size - 1 /\ Rd(rb) \in 0 .. 2 * buffer_size - 1
      BY LenFacts
    <2>2. /\ Ahead(After(Wr(rb)), Rd(rb)) <= Ahead(Wr(rb), Rd(rb)) + 1
          /\ Ahead(After(Wr(rb)), After(Rd(rb))) = Ahead(Wr(rb), Rd(rb))
          /\ Ahead(Wr(rb), Rd(rb)) \in Nat
      BY <2>1, AheadBounds
    <2> QED  BY <1>2, <2>2
  <1>4. data_len(q) <= o + 1
    <2>1. CASE s = 0
      BY <1>1, <2>1
    <2>2. CASE s # 0
      <3>1. data_len(q) <= data_len(rb) + 1
        <4> DEFINE a == Ahead(Wr(rb), Rd(rb))
                   b == Ahead(Wr(q), Rd(q))
        <4>1. /\ a \in 0 .. 2 * buffer_size - 1
              /\ a <= buffer_size => data_len(rb) = a
              /\ a > buffer_size => data_len(rb) = a - buffer_size
          BY LenFacts
        <4>2. /\ b \in 0 .. 2 * buffer_size - 1
              /\ b <= buffer_size => data_len(q) = b
              /\ b > buffer_size => data_len(q) = b - buffer_size
          BY <1>0, LenFacts
        <4>3. b = IF a = 2 * buffer_size - 1 THEN 0 ELSE a + 1
          <5>1. Wr(rb) \in 0 .. 2 * buffer_size - 1 /\ Rd(rb) \in 0 .. 2 * buffer_size - 1
            BY LenFacts
          <5>2. Ahead(After(Wr(rb)), Rd(rb)) = IF a = 2 * buffer_size - 1 THEN 0 ELSE a + 1
            BY <5>1, AheadAfter
          <5> QED  BY <1>2, <2>2, <5>2
        <4> HIDE DEF a, b
        <4> QED  BY <1>1, <4>1, <4>2, <4>3
      <3> QED  BY <1>1, <3>1
    <2> QED  BY <2>1, <2>2
  <1>5. c \notin ReadingStates => Ahead(Wr(q), Rd(q)) <= o + 1
    <2> SUFFICES ASSUME c \notin ReadingStates PROVE Ahead(Wr(q), Rd(q)) <= o + 1
      OBVIOUS
    <2>1. Ahead(Wr(rb), Rd(rb)) <= o
      BY DEF RingOK
    <2>2. Ahead(Wr(rb), Rd(rb)) \in Int /\ Ahead(Wr(q), Rd(q)) \in Int
      BY <1>0, LenFacts, Size
    <2> QED  BY <1>3, <2>1, <2>2
  <1>6. c \in ReadingStates => Ahead(Wr(q), Target(q, c, h)) < o + 1
    BY PutTarget DEF RingOK
  <1>7. s = 0 => o + 1 > buffer_size
    BY <1>1
  <1>8. /\ c = "flip" => q.read_index = buffer_size - 1 \/ o + 1 > buffer_size
        /\ c = "flip_store" => h.index = buffer_size - 1 \/ o + 1 > buffer_size
    BY <1>1, <1>2, <1>7 DEF RingOK
  <1>9. /\ c = "inc" => q.read_index # buffer_size - 1 \/ (over \/ o + 1 > buffer_size)
        /\ c = "inc_store" => h.index # buffer_size - 1 \/ (over \/ o + 1 > buffer_size)
    BY <1>2, <1>7 DEF RingOK
  <1> QED  BY <1>4, <1>5, <1>6, <1>8, <1>9 DEF RingOK

----------------------------------------------------------------------------
(* Puts of bytes                                                            *)

\* Ring q has the indices of rb.
SameIndices(q, rb) ==
  /\ q.read_mirror = rb.read_mirror /\ q.read_index = rb.read_index
  /\ q.write_mirror = rb.write_mirror /\ q.write_index = rb.write_index

LEMMA SameRing ==
  ASSUME NEW rb, NEW q, SameIndices(q, rb), NEW o, NEW c, NEW h, NEW over
  PROVE  /\ data_len(q) = data_len(rb) /\ (is_full(q) <=> is_full(rb))
         /\ RingOK(rb, o, c, h, over) => RingOK(q, o, c, h, over)
         /\ Exact(rb, o, c, h) => Exact(q, o, c, h)
  <1>1. /\ is_full(q) <=> is_full(rb)
        /\ is_empty(q) <=> is_empty(rb)
        /\ Wr(q) = Wr(rb) /\ Rd(q) = Rd(rb)
    BY DEF SameIndices, is_full, is_empty, Wr, Rd
  <1>2. data_len(q) = data_len(rb)
    BY <1>1 DEF SameIndices, data_len
  <1>3. Target(q, c, h) = Target(rb, c, h)
    BY <1>1 DEF SameIndices, Target
  <1>4. RingOK(rb, o, c, h, over) => RingOK(q, o, c, h, over)
    BY <1>1, <1>2, <1>3 DEF RingOK, SameIndices
  <1>5. Exact(rb, o, c, h) => Exact(q, o, c, h)
    BY <1>1, <1>3 DEF Exact, SameIndices
  <1> QED  BY <1>1, <1>2, <1>4, <1>5

\* Ring q is rb after the copy of byte x to the write index.
Wrote(q, rb, x) ==
  /\ q \in Rings /\ SameIndices(q, rb)
  /\ q.buffer = [rb.buffer EXCEPT ![rb.write_index] = x]

LEMMA Written ==
  ASSUME NEW rb \in Rings, NEW x \in Nat
  PROVE  Wrote([rb EXCEPT !.buffer[rb.write_index] = x], rb, x)
  <1> DEFINE q == [rb EXCEPT !.buffer[rb.write_index] = x]
             b == [rb.buffer EXCEPT ![rb.write_index] = x]
  <1>1. b \in [0 .. buffer_size - 1 -> Nat]
    BY RingFields
  <1>2. rb = [buffer |-> rb.buffer, read_mirror |-> rb.read_mirror, read_index |-> rb.read_index,
              write_mirror |-> rb.write_mirror, write_index |-> rb.write_index]
    BY DEF Rings
  <1>3. q = [rb EXCEPT !.buffer = b]
    OBVIOUS
  <1> HIDE DEF b
  <1>4. [rb EXCEPT !.buffer = b]
          = [buffer |-> b, read_mirror |-> rb.read_mirror, read_index |-> rb.read_index,
             write_mirror |-> rb.write_mirror, write_index |-> rb.write_index]
    BY <1>2
  <1>5. q.buffer = b /\ SameIndices(q, rb)
    BY <1>3, <1>4 DEF SameIndices
  <1>6. q \in Rings
    <2>1. /\ rb.read_mirror \in {0, 1} /\ rb.write_mirror \in {0, 1}
          /\ rb.read_index \in 0 .. buffer_size - 1 /\ rb.write_index \in 0 .. buffer_size - 1
      BY DEF Rings
    <2>2. [rb EXCEPT !.buffer = b] \in Rings
      BY <1>1, <1>4, <2>1 DEF Rings
    <2> QED  BY <1>3, <2>2
  <1> QED  BY <1>5, <1>6 DEF b, Wrote

\* What an exact ring that is not full looks like.
LEMMA ExactFacts ==
  ASSUME NEW rb \in Rings, NEW h \in Halves, NEW c \in CliStates, NEW o \in Nat,
         Exact(rb, o, c, h), o < buffer_size
  PROVE  ~is_full(rb) /\ Off(rb.write_index, rb.read_index) = o
  <1>1. PICK n, ri, wi : /\ n = buffer_size /\ ri = rb.read_index /\ wi = rb.write_index
                         /\ n \in Nat \ {0} /\ ri \in 0 .. n - 1 /\ wi \in 0 .. n - 1
    BY RingFields, Size
  <1>2. rb.read_mirror \in {0, 1} /\ rb.write_mirror \in {0, 1}
    BY RingFields
  <1>3. ASSUME Ahead(Wr(rb), Rd(rb)) = o
        PROVE  ~is_full(rb) /\ Off(rb.write_index, rb.read_index) = o
    <2>1. ~is_full(rb)
      BY <1>1, <1>3, LenFacts
    <2>2. CASE rb.read_mirror = 0 /\ rb.write_mirror = 0
      BY <1>1, <1>3, <2>1, <2>2 DEF Ahead, Wr, Rd, At, Off
    <2>3. CASE rb.read_mirror = 0 /\ rb.write_mirror = 1
      BY <1>1, <1>3, <2>1, <2>3 DEF Ahead, Wr, Rd, At, Off
    <2>4. CASE rb.read_mirror = 1 /\ rb.write_mirror = 0
      BY <1>1, <1>3, <2>1, <2>4 DEF Ahead, Wr, Rd, At, Off
    <2>5. CASE rb.read_mirror = 1 /\ rb.write_mirror = 1
      BY <1>1, <1>3, <2>1, <2>5 DEF Ahead, Wr, Rd, At, Off
    <2> QED  BY <1>2, <2>2, <2>3, <2>4, <2>5
  <1>4. CASE c \notin ReadingStates
    BY <1>3, <1>4 DEF Exact
  <1>5. CASE c \in {"zero", "zero_store"}
    <2>1. rb.read_index = n - 1 /\ Target(rb, c, h) = At(rb.read_mirror, 0)
      BY <1>1, <1>5 DEF Exact, Target
    <2>2. Ahead(Wr(rb), At(rb.read_mirror, 0)) = o - 1
      BY <1>5, <2>1 DEF Exact, ReadingStates
    <2>3. CASE rb.read_mirror = 0 /\ rb.write_mirror = 0
      BY <1>1, <2>1, <2>2, <2>3 DEF Ahead, Wr, At, Off, is_full
    <2>4. CASE rb.read_mirror = 0 /\ rb.write_mirror = 1
      BY <1>1, <2>1, <2>2, <2>4 DEF Ahead, Wr, At, Off, is_full
    <2>5. CASE rb.read_mirror = 1 /\ rb.write_mirror = 0
      BY <1>1, <2>1, <2>2, <2>5 DEF Ahead, Wr, At, Off, is_full
    <2>6. CASE rb.read_mirror = 1 /\ rb.write_mirror = 1
      BY <1>1, <2>1, <2>2, <2>6 DEF Ahead, Wr, At, Off, is_full
    <2> QED  BY <1>2, <2>3, <2>4, <2>5, <2>6
  <1>6. CASE c \in ReadingStates \ {"zero", "zero_store"}
    <2>1. Target(rb, c, h) = After(Rd(rb))
      <3>1. rb.read_index = buffer_size - 1 => At(1 - rb.read_mirror, 0) = After(Rd(rb))
        BY AtStep DEF Rd, Rings
      <3>2. CASE c \in {"copy", "compare", "inc"}
        BY <3>2 DEF Target
      <3>3. CASE c = "inc_store"
        BY <3>3 DEF Target, Exact, Rd
      <3>4. CASE c = "flip"
        BY <3>1, <3>4 DEF Target, Exact
      <3>5. CASE c = "flip_store"
        BY <3>1, <3>5 DEF Target, Exact
      <3> QED  BY <1>6, <3>2, <3>3, <3>4, <3>5 DEF ReadingStates
    <2>2. Ahead(Wr(rb), After(Rd(rb))) = o - 1
      BY <1>6, <2>1 DEF Exact
    <2>3. Wr(rb) \in 0 .. 2 * n - 1 /\ Rd(rb) \in 0 .. 2 * n - 1
      BY <1>1, LenFacts
    <2>4. /\ Ahead(Wr(rb), After(Rd(rb)))
               = IF Ahead(Wr(rb), Rd(rb)) = 0 THEN 2 * n - 1 ELSE Ahead(Wr(rb), Rd(rb)) - 1
          /\ Ahead(Wr(rb), Rd(rb)) \in 0 .. 2 * n - 1
      BY <1>1, <2>3, AheadAfter
    <2>5. Ahead(Wr(rb), Rd(rb)) = o
      BY <1>1, <2>2, <2>4
    <2> QED  BY <1>3, <2>5
  <1> QED  BY <1>4, <1>5, <1>6

\* A put into a ring that is not full adds a byte and its notice.
LEMMA PutExact ==
  ASSUME NEW rb \in Rings, NEW h \in Halves, NEW c \in CliStates, NEW o \in Nat,
         Exact(rb, o, c, h), o < buffer_size,
         NEW s \in Nat \ {0}, NEW q, Advanced(q, rb, s)
  PROVE  Exact(q, o + 1, c, h)
  <1>1. /\ Wr(q) = After(Wr(rb)) /\ Rd(q) = Rd(rb)
        /\ q.read_index = rb.read_index /\ q.read_mirror = rb.read_mirror
    BY PutMoves
  <1>2. Target(q, c, h) = Target(rb, c, h)
    BY <1>1 DEF Target
  <1>3. PICK n : n = buffer_size /\ n \in Nat \ {0}
    BY Size
  <1>4. ASSUME NEW t \in 0 .. 2 * n - 1, Ahead(Wr(rb), t) <= o
        PROVE  Ahead(Wr(q), t) = Ahead(Wr(rb), t) + 1
    <2>1. Wr(rb) \in 0 .. 2 * buffer_size - 1 /\ t \in 0 .. 2 * buffer_size - 1
      BY <1>3, LenFacts
    <2>2. /\ Ahead(After(Wr(rb)), t)
               = IF Ahead(Wr(rb), t) = 2 * buffer_size - 1 THEN 0 ELSE Ahead(Wr(rb), t) + 1
          /\ Ahead(Wr(rb), t) \in 0 .. 2 * buffer_size - 1
      BY <2>1, AheadAfter
    <2> QED  BY <1>1, <1>3, <1>4, <2>2
  <1>5. c \notin ReadingStates => Ahead(Wr(q), Rd(q)) = o + 1
    <2>1. Rd(rb) \in 0 .. 2 * n - 1
      BY <1>3, LenFacts
    <2> QED  BY <1>1, <1>4, <2>1 DEF Exact
  <1>6. c \in ReadingStates => Ahead(Wr(q), Target(q, c, h)) = o + 1 - 1
    <2>1. c \in ReadingStates => Target(rb, c, h) \in 0 .. 2 * n - 1
      BY <1>3, TargetType
    <2>2. c \in ReadingStates => Ahead(Wr(rb), Target(rb, c, h)) = o - 1
      BY DEF Exact
    <2>3. c \in ReadingStates => Ahead(Wr(q), Target(rb, c, h)) = o - 1 + 1
      BY <1>4, <2>1, <2>2
    <2> QED  BY <1>2, <2>3
  <1>7. o + 1 <= buffer_size
    BY Size
  <1>8. /\ c \in {"inc_store", "flip_store", "zero_store"} =>
             h = [mirror |-> q.read_mirror, index |-> q.read_index]
        /\ c \in {"flip", "flip_store", "zero", "zero_store"} => q.read_index = buffer_size - 1
        /\ c \in {"inc", "inc_store"} => q.read_index # buffer_size - 1
    BY <1>1 DEF Exact
  <1> QED  BY <1>5, <1>6, <1>7, <1>8 DEF Exact

\* The copy leaves the bytes that are in the ring alone.
LEMMA CopyHolds ==
  ASSUME NEW rb \in Rings, NEW o \in Nat, NEW p \in Nat, NEW x \in Nat,
         Off(rb.write_index, rb.read_index) = o, Holds(rb, o, p),
         NEW q, Wrote(q, rb, x)
  PROVE  Holds(q, o, p) /\ q.buffer[q.write_index] = x
  <1>0. /\ q \in Rings /\ SameIndices(q, rb)
        /\ q.buffer = [rb.buffer EXCEPT ![rb.write_index] = x]
    BY DEF Wrote
  <1>1. rb.write_index \in 0 .. buffer_size - 1 /\ rb.buffer \in [0 .. buffer_size - 1 -> Nat]
    BY DEF Rings
  <1>2. q.buffer[q.write_index] = x
    BY <1>0, <1>1 DEF SameIndices
  <1>3. ASSUME NEW i \in 0 .. buffer_size - 1, Off(i, q.read_index) < o
        PROVE  q.buffer[i] = p + 1 + Off(i, q.read_index)
    <2>1. q.read_index = rb.read_index
      BY <1>0 DEF SameIndices
    <2>2. i # rb.write_index
      <3>1. o \in Nat
        OBVIOUS
      <3> QED  BY <1>3, <2>1, <3>1
    <2>3. q.buffer[i] = rb.buffer[i]
      BY <1>0, <1>1, <2>2
    <2> QED  BY <1>3, <2>1, <2>3 DEF Holds
  <1> QED  BY <1>2, <1>3 DEF Holds

\* When the indices follow, it is in the ring too.
LEMMA AdvanceHolds ==
  ASSUME NEW rb \in Rings, NEW o \in Nat, NEW p \in Nat,
         Off(rb.write_index, rb.read_index) = o, Holds(rb, o, p),
         rb.buffer[rb.write_index] = p + 1 + o,
         NEW s \in Nat \ {0}, NEW q, Advanced(q, rb, s)
  PROVE  Holds(q, o + 1, p)
  <1>1. q.read_index = rb.read_index /\ q.buffer = rb.buffer
    BY DEF Advanced
  <1>2. ASSUME NEW i \in 0 .. buffer_size - 1, Off(i, q.read_index) < o + 1
        PROVE  q.buffer[i] = p + 1 + Off(i, q.read_index)
    <2>0. /\ rb.read_index \in 0 .. buffer_size - 1 /\ rb.write_index \in 0 .. buffer_size - 1
          /\ buffer_size \in Nat \ {0}
      BY RingFields, Size
    <2>1. PICK n, r, w : /\ n = buffer_size /\ r = rb.read_index /\ w = rb.write_index
                         /\ n \in Nat \ {0} /\ r \in 0 .. n - 1 /\ w \in 0 .. n - 1
      BY <2>0, Zenon
    <2>2. i \in 0 .. n - 1 /\ Off(i, r) \in Int /\ Off(i, r) < o + 1
      BY <1>1, <1>2, <2>1 DEF Off
    <2>3. CASE Off(i, r) < o
      BY <1>1, <2>1, <2>3 DEF Holds
    <2>4. CASE Off(i, r) = o
      <3>1. i = w
        BY <2>1, <2>2, <2>4 DEF Off
      <3> QED  BY <1>1, <2>1, <2>4, <3>1
    <2> QED  BY <2>2, <2>3, <2>4
  <1> QED  BY <1>2 DEF Holds

\* rt_ringbuffer_put_force of one byte, with and without an overflow.
LEMMA PutForceKeeps ==
  ASSUME NEW rb \in Rings, NEW h \in Halves, NEW c \in CliStates, NEW o \in Nat,
         NEW over \in BOOLEAN, RingOK(rb, o, c, h, over), NEW x \in Nat
  PROVE  /\ put_force(rb, x) \in Rings
         /\ RingOK(put_force(rb, x), o + 1, c, h, over \/ o + 1 > buffer_size)
  <1> DEFINE b == [rb EXCEPT !.buffer[rb.write_index] = x]
             s == space_len(rb)
  <1>1. b \in Rings /\ SameIndices(b, rb)
    BY Written DEF Wrote
  <1>2. s \in Nat /\ (s = 0 => is_full(rb))
    <2>1. /\ data_len(rb) \in 0 .. buffer_size
          /\ data_len(rb) = buffer_size <=> is_full(rb)
      BY LenFacts
    <2> QED  BY <2>1, Size DEF space_len
  <1>3. put_force(rb, x) = put_advance(b, s)
    BY DEF put_force
  <1> HIDE DEF b, s
  <1>4. (is_full(b) <=> is_full(rb)) /\ RingOK(b, o, c, h, over)
    BY <1>1, SameRing
  <1>5. Advanced(put_advance(b, s), b, s)
    BY <1>1, PutFields
  <1>6. RingOK(put_advance(b, s), o + 1, c, h, over \/ o + 1 > buffer_size)
    BY <1>1, <1>2, <1>4, <1>5, PutKeeps
  <1> QED  BY <1>3, <1>5, <1>6 DEF Advanced

LEMMA PutForceExact ==
  ASSUME NEW rb \in Rings, NEW h \in Halves, NEW c \in CliStates, NEW o \in Nat,
         NEW p \in Nat, Exact(rb, o, c, h), Holds(rb, o, p), o < buffer_size
  PROVE  /\ Exact(put_force(rb, p + 1 + o), o + 1, c, h)
         /\ Holds(put_force(rb, p + 1 + o), o + 1, p)
  <1> DEFINE x == p + 1 + o
             b == [rb EXCEPT !.buffer[rb.write_index] = x]
             s == space_len(rb)
  <1>0. x \in Nat
    OBVIOUS
  <1>1. /\ b \in Rings /\ SameIndices(b, rb)
        /\ Wrote(b, rb, x)
    <2> HIDE DEF x
    <2>1. Wrote(b, rb, x)
      BY <1>0, Written
    <2> QED  BY <2>1 DEF Wrote
  <1>2. ~is_full(rb) /\ Off(rb.write_index, rb.read_index) = o
    BY ExactFacts
  <1>3. s \in Nat \ {0}
    <2>1. /\ data_len(rb) \in 0 .. buffer_size
          /\ data_len(rb) = buffer_size <=> is_full(rb)
      BY LenFacts
    <2> QED  BY <1>2, <2>1, Size DEF space_len
  <1>4. put_force(rb, x) = put_advance(b, s)
    BY DEF put_force
  <1> HIDE DEF b, s
  <1>5. Advanced(put_advance(b, s), b, s)
    BY <1>1, PutFields
  <1>6. Exact(b, o, c, h)
    BY <1>1, SameRing
  <1>7. Exact(put_advance(b, s), o + 1, c, h)
    BY <1>1, <1>3, <1>5, <1>6, PutExact
  <1>8. Holds(b, o, p) /\ b.buffer[b.write_index] = x
    <2> HIDE DEF x
    <2> QED  BY <1>0, <1>1, <1>2, CopyHolds
  <1>9. Off(b.write_index, b.read_index) = o
    BY <1>1, <1>2 DEF SameIndices
  <1>10. Holds(put_advance(b, s), o + 1, p)
    BY <1>1, <1>3, <1>5, <1>8, <1>9, AdvanceHolds
  <1> QED  BY <1>4, <1>7, <1>10

\* Every set of natural numbers has a least element.
LEMMA LeastNat ==
  ASSUME NEW T, T \subseteq Nat, T # {}
  PROVE  \E n \in T : \A m \in T : n <= m
  <1>1. PICK n \in T : \A m \in T : ~(<<m, n>> \in OpToRel(<, Nat))
    BY NatLessThanWellFounded, WFMin
  <1>2. n \in Nat /\ \A m \in T : m \in Nat /\ ~(m < n)
    BY <1>1 DEF OpToRel
  <1>3. \A m \in T : n <= m
    BY <1>2
  <1> QED  BY <1>3

\* f is the ring rb after each of n puts, of the bytes after c.
Puts(f, rb, c, n) ==
  f = [k \in 0 .. n |-> IF k = 0 THEN rb ELSE put_force(f[k - 1], c + k)]

LEMMA PutsExist ==
  ASSUME NEW rb, NEW c
  PROVE  \A n \in Nat : \E f : Puts(f, rb, c, n)
  <1> DEFINE Bad == {n \in Nat : ~\E f : Puts(f, rb, c, n)}
  <1> SUFFICES ASSUME Bad # {} PROVE FALSE
    OBVIOUS
  <1>1. PICK n \in Bad : \A m \in Bad : n <= m
    BY LeastNat
  <1>2. n \in Nat
    OBVIOUS
  <1>3. CASE n = 0
    <2> DEFINE f == [k \in 0 .. 0 |-> rb]
    <2>1. \A k \in 0 .. 0 : k = 0
      OBVIOUS
    <2>2. f = [k \in 0 .. 0 |-> IF k = 0 THEN rb ELSE put_force(f[k - 1], c + k)]
      BY <2>1
    <2> QED  BY <1>3, <2>2 DEF Puts
  <1>4. CASE n # 0
    <2>1. n - 1 \in Nat /\ n - 1 \notin Bad
      BY <1>1, <1>2, <1>4
    <2>2. PICK g : Puts(g, rb, c, n - 1)
      BY <2>1
    <2> DEFINE f == [k \in 0 .. n |-> IF k = 0 THEN rb ELSE put_force(g[k - 1], c + k)]
    <2>3. \A k \in 0 .. n : k # 0 => k - 1 \in 0 .. n - 1 /\ k - 1 \in 0 .. n
      BY <1>2
    <2>4. \A k \in 0 .. n - 1 : k \in 0 .. n
      BY <1>2
    <2>5. \A k \in 0 .. n - 1 : g[k] = IF k = 0 THEN rb ELSE put_force(g[k - 1], c + k)
      BY <2>2 DEF Puts
    <2>6. \A k \in 0 .. n - 1 : f[k] = g[k]
      BY <2>4, <2>5
    <2>7. \A k \in 0 .. n :
            (IF k = 0 THEN rb ELSE put_force(g[k - 1], c + k))
              = (IF k = 0 THEN rb ELSE put_force(f[k - 1], c + k))
      <3> HIDE DEF f
      <3> QED  BY <2>3, <2>6
    <2>8. f = [k \in 0 .. n |-> IF k = 0 THEN rb ELSE put_force(f[k - 1], c + k)]
      BY <2>7
    <2> HIDE DEF f
    <2>9. Puts(f, rb, c, n)
      BY <2>8 DEF Puts
    <2> QED  BY <2>9
  <1> QED  BY <1>3, <1>4

\* What each of the puts leaves.
LEMMA PutsKeep ==
  ASSUME NEW rb \in Rings, NEW h \in Halves, NEW c \in CliStates, NEW o \in Nat,
         NEW over \in BOOLEAN, RingOK(rb, o, c, h, over), NEW x \in Nat,
         NEW n \in Nat, NEW f, Puts(f, rb, x, n)
  PROVE  \A k \in 0 .. n :
           f[k] \in Rings /\ RingOK(f[k], o + k, c, h, over \/ o + k > buffer_size)
  <1> DEFINE Good(k) == f[k] \in Rings /\ RingOK(f[k], o + k, c, h, over \/ o + k > buffer_size)
             Bad == {k \in 0 .. n : ~Good(k)}
  <1> SUFFICES ASSUME Bad # {} PROVE FALSE
    OBVIOUS
  <1>0. \A k \in 0 .. n : f[k] = IF k = 0 THEN rb ELSE put_force(f[k - 1], x + k)
    BY DEF Puts
  <1>1. PICK k \in Bad : \A m \in Bad : k <= m
    <2>1. Bad \subseteq Nat
      OBVIOUS
    <2> HIDE DEF Bad
    <2> QED  BY <2>1, LeastNat
  <1>2. k \in 0 .. n /\ ~Good(k)
    OBVIOUS
  <1>3. CASE k = 0
    <2>1. f[k] = rb /\ o + k = o
      BY <1>0, <1>2, <1>3
    <2>2. RingOK(rb, o, c, h, over \/ o > buffer_size)
      BY DEF RingOK
    <2> QED  BY <1>2, <2>1, <2>2
  <1>4. CASE k # 0
    <2>1. k - 1 \in 0 .. n /\ k \in Nat
      BY <1>2, <1>4
    <2>2. Good(k - 1)
      BY <1>1, <2>1
    <2>3. PICK r, u, y : /\ r = f[k - 1] /\ u = o + (k - 1) /\ u \in Nat
                         /\ y = x + k /\ y \in Nat
      BY <2>1
    <2> DEFINE v == over \/ u > buffer_size
    <2>4. r \in Rings /\ RingOK(r, u, c, h, v) /\ v \in BOOLEAN
      BY <2>2, <2>3
    <2> HIDE DEF v
    <2>5. /\ put_force(r, y) \in Rings
          /\ RingOK(put_force(r, y), u + 1, c, h, v \/ u + 1 > buffer_size)
      BY <2>3, <2>4, PutForceKeeps
    <2>6. u + 1 = o + k /\ ((v \/ u + 1 > buffer_size) = (over \/ o + k > buffer_size))
      BY <2>1, <2>3, Size DEF v
    <2>7. f[k] = put_force(r, y)
      BY <1>0, <1>2, <1>4, <2>3
    <2> QED  BY <1>2, <2>5, <2>6, <2>7
  <1> QED  BY <1>3, <1>4

LEMMA PutsExact ==
  ASSUME NEW rb \in Rings, NEW h \in Halves, NEW c \in CliStates, NEW o \in Nat,
         NEW p \in Nat, Exact(rb, o, c, h), Holds(rb, o, p),
         NEW n \in Nat, o + n <= buffer_size, NEW f, Puts(f, rb, p + o, n),
         \A k \in 0 .. n : f[k] \in Rings
  PROVE  \A k \in 0 .. n : Exact(f[k], o + k, c, h) /\ Holds(f[k], o + k, p)
  <1> DEFINE Good(k) == Exact(f[k], o + k, c, h) /\ Holds(f[k], o + k, p)
             Bad == {k \in 0 .. n : ~Good(k)}
  <1> SUFFICES ASSUME Bad # {} PROVE FALSE
    OBVIOUS
  <1>0. \A k \in 0 .. n : f[k] = IF k = 0 THEN rb ELSE put_force(f[k - 1], p + o + k)
    BY DEF Puts
  <1>1. PICK k \in Bad : \A m \in Bad : k <= m
    <2>1. Bad \subseteq Nat
      OBVIOUS
    <2> HIDE DEF Bad
    <2> QED  BY <2>1, LeastNat
  <1>2. k \in 0 .. n /\ ~Good(k)
    OBVIOUS
  <1>3. CASE k = 0
    <2>1. f[k] = rb /\ o + k = o
      BY <1>0, <1>2, <1>3
    <2> QED  BY <1>2, <2>1
  <1>4. CASE k # 0
    <2>1. k - 1 \in 0 .. n /\ k \in Nat
      BY <1>2, <1>4
    <2>2. Good(k - 1)
      BY <1>1, <2>1
    <2>3. PICK r, u : r = f[k - 1] /\ u = o + (k - 1) /\ u \in Nat /\ r \in Rings
      BY <2>1
    <2>4. Exact(r, u, c, h) /\ Holds(r, u, p)
      BY <2>2, <2>3
    <2>5. u + 1 = o + k /\ u < buffer_size /\ p + 1 + u = p + o + k
      BY <1>2, <2>1, <2>3, Size
    <2>6. /\ Exact(put_force(r, p + 1 + u), u + 1, c, h)
          /\ Holds(put_force(r, p + 1 + u), u + 1, p)
      BY <2>3, <2>4, <2>5, PutForceExact
    <2>7. f[k] = put_force(r, p + 1 + u)
      BY <1>0, <1>2, <1>4, <2>3, <2>5
    <2> QED  BY <1>2, <2>5, <2>6, <2>7
  <1> QED  BY <1>3, <1>4

\* The puts of the DMA handler.
LEMMA PutAllIsPuts ==
  ASSUME NEW rb, NEW n \in Nat
  PROVE  \E f : Puts(f, rb, came, n) /\ PutAll(rb, n) = f[n]
  <1> DEFINE f == CHOOSE g : Puts(g, rb, came, n)
  <1>1. Puts(f, rb, came, n)
    BY PutsExist
  <1>2. PutAll(rb, n) = f[n]
    BY DEF PutAll, Puts
  <1> QED  BY <1>1, <1>2

LEMMA PutForceType ==
  ASSUME NEW rb \in Rings, NEW x \in Nat
  PROVE  put_force(rb, x) \in Rings
  <1>1. [rb EXCEPT !.buffer[rb.write_index] = x] \in Rings
    BY Written DEF Wrote
  <1> QED  BY <1>1, PutFields DEF put_force, Advanced

LEMMA PutAllType ==
  ASSUME NEW rb \in Rings, NEW n \in Nat, came \in Nat
  PROVE  PutAll(rb, n) \in Rings
  <1>1. PICK f : Puts(f, rb, came, n) /\ PutAll(rb, n) = f[n]
    BY PutAllIsPuts
  <1>2. \A k \in 0 .. n : f[k] = IF k = 0 THEN rb ELSE put_force(f[k - 1], came + k)
    BY <1>1 DEF Puts
  <1> DEFINE Bad == {k \in 0 .. n : f[k] \notin Rings}
  <1>3. ASSUME Bad # {} PROVE FALSE
    <2>1. Bad \subseteq Nat
      OBVIOUS
    <2>2. PICK k \in Bad : \A m \in Bad : k <= m
      <3> HIDE DEF Bad
      <3> QED  BY <1>3, <2>1, LeastNat
    <2>3. k \in 0 .. n /\ f[k] \notin Rings
      OBVIOUS
    <2>4. k # 0
      BY <1>2, <2>3
    <2>5. k - 1 \in 0 .. n /\ came + k \in Nat
      BY <2>3, <2>4
    <2>6. f[k - 1] \in Rings
      BY <2>2, <2>5
    <2>7. put_force(f[k - 1], came + k) \in Rings
      BY <2>5, <2>6, PutForceType
    <2> QED  BY <1>2, <2>3, <2>4, <2>7
  <1> QED  BY <1>1, <1>3

----------------------------------------------------------------------------
(* Types                                                                    *)

LEMMA InitRing ==
  ASSUME NEW b \in [0 .. buffer_size - 1 -> Nat]
  PROVE  init(b) \in Rings /\ NoHalf \in Halves
  BY Size DEF init, Rings, NoHalf, Halves

\* The stores of getchar.
Stored(q, rb, m, i) ==
  /\ q \in Rings /\ q.buffer = rb.buffer
  /\ q.read_mirror = m /\ q.read_index = i
  /\ q.write_mirror = rb.write_mirror /\ q.write_index = rb.write_index

LEMMA StoreFields ==
  ASSUME NEW rb \in Rings, NEW m \in {0, 1}, NEW i \in 0 .. buffer_size - 1
  PROVE  Stored([rb EXCEPT !.read_mirror = m, !.read_index = i], rb, m, i)
  <1> DEFINE q == [rb EXCEPT !.read_mirror = m, !.read_index = i]
  <1>1. PICK b, rm, ri, wm, wi :
          /\ rb = [buffer |-> b, read_mirror |-> rm, read_index |-> ri,
                   write_mirror |-> wm, write_index |-> wi]
          /\ b \in [0 .. buffer_size - 1 -> Nat]
          /\ wm \in {0, 1} /\ wi \in 0 .. buffer_size - 1
    BY DEF Rings
  <1>2. q = [buffer |-> b, read_mirror |-> m, read_index |-> i,
             write_mirror |-> wm, write_index |-> wi]
    <2>1. rb = [buffer |-> b, read_mirror |-> rm, read_index |-> ri,
                write_mirror |-> wm, write_index |-> wi]
      BY <1>1
    <2>2. PICK mm, ii : mm = m /\ ii = i
      OBVIOUS
    <2>3. q = [rb EXCEPT !.read_mirror = mm, !.read_index = ii]
      BY <2>2
    <2> HIDE DEF q
    <2> QED  BY <2>1, <2>2, <2>3
  <1>3. q \in Rings
    <2> HIDE DEF q
    <2> QED  BY <1>1, <1>2 DEF Rings
  <1>4. /\ q.buffer = b /\ q.read_mirror = m /\ q.read_index = i
        /\ q.write_mirror = wm /\ q.write_index = wi
    <2> HIDE DEF q
    <2> QED  BY <1>2
  <1>5. rb.buffer = b /\ rb.write_mirror = wm /\ rb.write_index = wi
    BY <1>1
  <1> HIDE DEF q
  <1>6. Stored(q, rb, m, i)
    BY <1>3, <1>4, <1>5 DEF Stored
  <1> QED  BY <1>6 DEF q

\* The stores of put_force to the write index.
Pushed(q, rb, m, i) ==
  /\ q \in Rings /\ q.buffer = rb.buffer
  /\ q.write_mirror = m /\ q.write_index = i
  /\ q.read_mirror = rb.read_mirror /\ q.read_index = rb.read_index

LEMMA PushFields ==
  ASSUME NEW rb \in Rings, NEW m \in {0, 1}, NEW i \in 0 .. buffer_size - 1
  PROVE  Pushed([rb EXCEPT !.write_mirror = m, !.write_index = i], rb, m, i)
  <1> DEFINE q == [rb EXCEPT !.write_mirror = m, !.write_index = i]
  <1>1. PICK b, rm, ri, wm, wi :
          /\ rb = [buffer |-> b, read_mirror |-> rm, read_index |-> ri,
                   write_mirror |-> wm, write_index |-> wi]
          /\ b \in [0 .. buffer_size - 1 -> Nat]
          /\ rm \in {0, 1} /\ ri \in 0 .. buffer_size - 1
    BY DEF Rings
  <1>2. q = [buffer |-> b, read_mirror |-> rm, read_index |-> ri,
             write_mirror |-> m, write_index |-> i]
    <2>1. rb = [buffer |-> b, read_mirror |-> rm, read_index |-> ri,
                write_mirror |-> wm, write_index |-> wi]
      BY <1>1
    <2>2. PICK mm, ii : mm = m /\ ii = i
      OBVIOUS
    <2>3. q = [rb EXCEPT !.write_mirror = mm, !.write_index = ii]
      BY <2>2
    <2> HIDE DEF q
    <2> QED  BY <2>1, <2>2, <2>3
  <1>3. q \in Rings
    <2> HIDE DEF q
    <2> QED  BY <1>1, <1>2 DEF Rings
  <1>4. /\ q.buffer = b /\ q.read_mirror = rm /\ q.read_index = ri
        /\ q.write_mirror = m /\ q.write_index = i
    <2> HIDE DEF q
    <2> QED  BY <1>2
  <1>5. rb.buffer = b /\ rb.read_mirror = rm /\ rb.read_index = ri
    BY <1>1
  <1> HIDE DEF q
  <1>6. Pushed(q, rb, m, i)
    BY <1>3, <1>4, <1>5 DEF Pushed
  <1> QED  BY <1>6 DEF q

\* A put that does not move the indices leaves the ring it has.
LEMMA RingMade ==
  ASSUME NEW rb \in Rings
  PROVE  rb = Made(rb, rb.write_mirror, rb.write_index, rb.read_mirror, rb.read_index)
  BY DEF Rings, Made

LEMMA DoneStill ==
  ASSUME NEW rb \in Rings, NEW pc, pc \notin MovingStates, NEW h, NEW s
  PROVE  Done(rb, pc, h, s) = rb /\ StraightAt(rb, pc, h)
  <1>1. Done(rb, pc, h, s)
          = Made(rb, rb.write_mirror, rb.write_index, rb.read_mirror, rb.read_index)
    BY DEF Done, MovingStates, Wraps
  <1> QED  BY <1>1, RingMade DEF StraightAt, MovingStates

LEMMA ShellTypes ==
  ASSUME TypeInv, Shell
  PROVE  TypeInv'
  <1> USE DEF shellVars, ringVars, cliVars, isrVars, histVars, ShellStep, TypeInv
  <1>1. CASE BackupStatus
    BY <1>1 DEF BackupStatus
  <1>2. CASE BackupRxInd \/ RestoreStatus \/ RestoreRxInd \/ FifoDestroy
    BY <1>2 DEF BackupRxInd, RestoreStatus, RestoreRxInd, FifoDestroy
  <1>3. CASE SemInit
    BY <1>3 DEF SemInit
  <1>4. CASE FifoCreate
    <2>1. fifo' \in Rings
      BY <1>4, InitRing, RingFields DEF FifoCreate
    <2> QED  BY <1>4, <2>1 DEF FifoCreate
  <1>5. CASE ThreadCreate
    BY <1>5 DEF ThreadCreate, CliStates
  <1>6. CASE ThreadDelete
    <2>1. NoHalf \in Halves
      BY Size DEF NoHalf, Halves
    <2> QED  BY <1>6, <2>1 DEF ThreadDelete, CliStates
  <1> QED  BY <1>1, <1>2, <1>3, <1>4, <1>5, <1>6 DEF Shell

LEMMA CliTypes ==
  ASSUME TypeInv, Cli
  PROVE  TypeInv'
  <1> USE DEF shellVars, ringVars, cliVars, isrVars, histVars, CliStep, TypeInv
  <1>0. NoHalf \in Halves
    BY Size DEF NoHalf, Halves
  <1>1. CASE SemTake
    BY <1>1 DEF SemTake, CliStates
  <1>2. CASE GetLen \/ GetCompare
    BY <1>2 DEF GetLen, GetCompare, CliStates, ReadingStates
  <1>3. CASE GetCopy
    <2>1. fifo.buffer[fifo.read_index] \in Nat
      BY DEF Rings
    <2> QED  BY <1>3, <2>1 DEF GetCopy, CliStates, ReadingStates
  <1>4. CASE GetLoad
    <2>1. [mirror |-> fifo.read_mirror, index |-> fifo.read_index] \in Halves
      BY DEF Rings, Halves
    <2> QED  BY <1>4, <2>1 DEF GetLoad, CliStates, ReadingStates
  <1>5. CASE GetStore
    <2>1. /\ half.mirror \in {0, 1} /\ 1 - half.mirror \in {0, 1}
          /\ half.index \in 0 .. buffer_size - 1 /\ 0 \in 0 .. buffer_size - 1
          /\ half.index + 1 < buffer_size => half.index + 1 \in 0 .. buffer_size - 1
      BY Size DEF Halves
    <2>2. fifo' \in Rings
      <3>1. PICK m \in {0, 1}, i \in 0 .. buffer_size - 1 :
              fifo' = [fifo EXCEPT !.read_mirror = m, !.read_index = i]
        BY <1>5, <2>1 DEF GetStore
      <3> QED  BY <3>1, StoreFields DEF Stored
    <2> QED  BY <1>0, <1>5, <2>2 DEF GetStore, CliStates, ReadingStates
  <1>6. CASE GetStoreOutside
    BY <1>6 DEF GetStoreOutside
  <1>7. CASE Kprintf
    BY <1>7 DEF Kprintf, CliStates
  <1> QED  BY <1>1, <1>2, <1>3, <1>4, <1>5, <1>6, <1>7 DEF Cli

\* Releases keep what they count.
LEMMA ReleaseFacts ==
  ASSUME NEW n \in Nat \ {0}, rx_notice \in Nat, cli \in CliStates, Release(n)
  PROVE  /\ rx_notice' \in Nat /\ cli' \in CliStates
         /\ cli' = IF cli = "waiting" THEN "get" ELSE cli
         /\ isr' = isr => Outstanding' = Outstanding + n
         /\ isr = "release" /\ isr' # "release" /\ n = 1 => Outstanding' = Outstanding
         /\ Outstanding \in Nat
  <1> DEFINE a == IF isr = "release" THEN 1 ELSE 0
             b == IF isr' = "release" THEN 1 ELSE 0
  <1>1. CASE cli = "waiting"
    <2>1. cli' = "get" /\ rx_notice' = rx_notice + n - 1
      BY <1>1 DEF Release
    <2>2. Outstanding = rx_notice + 0 + a /\ Outstanding' = rx_notice' + 1 + b
      BY <1>1, <2>1 DEF Outstanding, Getting
    <2> QED  BY <1>1, <2>1, <2>2 DEF CliStates
  <1>2. CASE cli # "waiting"
    <2>1. cli' = cli /\ rx_notice' = rx_notice + n
      BY <1>2 DEF Release
    <2>2. /\ Outstanding = rx_notice + (IF Getting THEN 1 ELSE 0) + a
          /\ Outstanding' = rx_notice' + (IF Getting THEN 1 ELSE 0) + b
      BY <2>1 DEF Outstanding, Getting
    <2> QED  BY <1>2, <2>1, <2>2
  <1> QED  BY <1>1, <1>2

\* What the steps of a put of the UART handler leave alone.
LEMMA PutLeaves ==
  ASSUME IdlePut
  PROVE  /\ UNCHANGED <<shellVars, rx_notice, cliVars, came, unread, held, printed, nested,
                        torn, failed>>
         /\ isr \notin {"none", "read", "release"} /\ isr' \notin {"none", "read"}
         /\ stopped = "no" /\ (~IdleOutside => stopped' = "no")
         /\ ~IdleBegin => UNCHANGED overflowed
  <1> USE DEF IdleStep, ringVars, cliVars, isrVars, histVars
  <1>1. CASE IdleSpace \/ IdleMirrors \/ IdleOrder \/ IdleLen \/ IdleTest
    BY <1>1 DEF IdleSpace, IdleMirrors, IdleOrder, IdleLen, IdleTest
  <1>2. CASE IdleCopy \/ IdleCopyRest
    BY <1>2 DEF IdleCopy, IdleCopyRest
  <1>3. CASE IdleBegin \/ IdleLoad
    BY <1>3 DEF IdleBegin, IdleLoad
  <1>4. CASE IdleStore
    BY <1>4 DEF IdleStore
  <1>5. CASE IdleOutside
    BY <1>5 DEF IdleOutside
  <1> QED  BY <1>1, <1>2, <1>3, <1>4, <1>5 DEF IdlePut

\* What rt_ringbuffer_space_len makes of two different indices.
LEMMA LenFound ==
  ASSUME fifo \in Rings, IdleLen
  PROVE  /\ space' \in Nat
         /\ fifo.read_index # fifo.write_index => space' # 0
  <1>1. PICK n, rd, wr :
          /\ n = buffer_size /\ rd = fifo.read_index /\ wr = fifo.write_index
          /\ n \in Nat \ {0} /\ n <= 32767 /\ rd \in 0 .. n - 1 /\ wr \in 0 .. n - 1
    BY RingFields, Size, RingAssumption
  <1>2. space' = n - (wr - rd) \/ space' = (rd - wr) % 65536
    BY <1>1 DEF IdleLen
  <1>3. n - (wr - rd) \in Nat \ {0}
    BY <1>1
  <1>4. /\ (rd - wr) % 65536 \in Nat
        /\ rd # wr => (rd - wr) % 65536 # 0
    BY <1>1
  <1> QED  BY <1>1, <1>2, <1>3, <1>4

LEMMA PutTypes ==
  ASSUME TypeInv, IdlePut
  PROVE  TypeInv'
  <1> USE DEF shellVars, ringVars, cliVars, isrVars, histVars, IdleStep
  <1>0. /\ fifo \in Rings /\ word \in Halves /\ space \in Nat /\ held \in Nat
        /\ isr \in IsrStates /\ overflowed \in BOOLEAN
    BY DEF TypeInv
  <1>1. ASSUME fifo' \in Rings, word' \in Halves, space' \in Nat, isr' \in IsrStates,
               overflowed' \in BOOLEAN
        PROVE  TypeInv'
    BY <1>1, PutLeaves DEF TypeInv
  <1> USE DEF IsrStates, Holding, Measured, MovingStates
  <1>2. CASE IdleLen
    <2>1. space' \in Nat
      BY <1>0, <1>2, LenFound
    <2> QED  BY <1>0, <1>1, <1>2, <2>1 DEF IdleLen
  <1>3. CASE IdleSpace \/ IdleMirrors \/ IdleOrder \/ IdleTest \/ IdleCopyRest \/ IdleOutside
    BY <1>0, <1>1, <1>3, Size DEF IdleSpace, IdleMirrors, IdleOrder, IdleTest, IdleCopyRest,
                                  IdleOutside
  <1>4. CASE IdleCopy
    <2>1. fifo' \in Rings
      BY <1>0, <1>4, Written DEF IdleCopy, Wrote
    <2> QED  BY <1>0, <1>1, <1>4, <2>1 DEF IdleCopy
  <1>5. CASE IdleBegin \/ IdleLoad
    <2>1. /\ [mirror |-> fifo.write_mirror, index |-> fifo.write_index] \in Halves
          /\ [mirror |-> fifo.read_mirror, index |-> fifo.read_index] \in Halves
          /\ [mirror |-> fifo.read_mirror, index |-> fifo.write_index] \in Halves
      BY <1>0 DEF Rings, Halves
    <2> QED  BY <1>0, <1>1, <1>5, <2>1 DEF IdleBegin, IdleLoad
  <1>6. CASE IdleStore
    <2>1. NoHalf \in Halves
      BY Size DEF NoHalf, Halves
    <2>2. /\ word.mirror \in {0, 1} /\ 1 - word.mirror \in {0, 1}
          /\ word.index \in 0 .. buffer_size - 1 /\ 0 \in 0 .. buffer_size - 1
          /\ word.index < buffer_size - 1 => word.index + 1 \in 0 .. buffer_size - 1
      BY <1>0, Size DEF Halves
    <2>3. PICK m \in {0, 1}, i \in 0 .. buffer_size - 1 :
            \/ fifo' = [fifo EXCEPT !.write_mirror = m, !.write_index = i]
            \/ fifo' = [fifo EXCEPT !.read_mirror = m, !.read_index = i]
      BY <1>6, <2>2 DEF IdleStore
    <2>4. fifo' \in Rings
      <3>1. /\ Pushed([fifo EXCEPT !.write_mirror = m, !.write_index = i], fifo, m, i)
            /\ Stored([fifo EXCEPT !.read_mirror = m, !.read_index = i], fifo, m, i)
        BY <1>0, PushFields, StoreFields
      <3> QED  BY <2>3, <3>1 DEF Pushed, Stored
    <2> QED  BY <1>0, <1>1, <1>6, <2>1, <2>4 DEF IdleStore
  <1> QED  BY <1>2, <1>3, <1>4, <1>5, <1>6 DEF IdlePut

LEMMA IsrTypes ==
  ASSUME TypeInv, DmaRxInd \/ IdleRxInd \/ IdleIsr \/ ClientRxInd
  PROVE  TypeInv'
  <1> USE DEF shellVars, ringVars, cliVars, isrVars, histVars
  <1>1. CASE DmaRxInd
    <2> USE DEF TypeInv
    <2>1. PICK n \in 1 .. MaxNew :
            /\ came' = came + unread + n /\ unread' = 0
            /\ \/ /\ BadRing /\ Stop
                  /\ UNCHANGED <<ringVars, cli, overflowed, nested, torn>>
               \/ /\ ~BadRing
                  /\ fifo' = PutAll(fifo, unread + n)
                  /\ Release(unread + n)
                  /\ overflowed' = (overflowed \/ Outstanding + unread + n > buffer_size)
                  /\ nested' = (nested \/ isr \notin {"none", "read"})
                  /\ torn' = (torn \/ Measuring \/ Moving)
                  /\ UNCHANGED stopped
      BY <1>1 DEF DmaRxInd
    <2>2. unread + n \in Nat \ {0} /\ came' \in Nat
      BY <2>1, CliAssumption
    <2>3. fifo' \in Rings /\ rx_notice' \in Nat /\ cli' \in CliStates
      BY <2>1, <2>2, PutAllType, ReleaseFacts
    <2>4. overflowed' \in BOOLEAN /\ nested' \in BOOLEAN /\ torn' \in BOOLEAN
      BY <2>1
    <2> QED  BY <1>1, <2>1, <2>2, <2>3, <2>4 DEF DmaRxInd
  <1>2. CASE IdleRxInd
    BY <1>2, CliAssumption DEF IdleRxInd, IsrStates, TypeInv
  <1>3. CASE IdleRead
    BY <1>3 DEF IdleRead, IsrStates, Holding, TypeInv
  <1>4. CASE IdleRelease
    <2>1. rx_notice' \in Nat /\ cli' \in CliStates
      BY <1>4, ReleaseFacts DEF IdleRelease, TypeInv
    <2> QED  BY <1>4, <2>1 DEF IdleRelease, IdleStep, IsrStates, TypeInv
  <1>5. CASE ClientRxInd
    BY <1>5 DEF ClientRxInd, TypeInv
  <1> QED  BY <1>1, <1>2, <1>3, <1>4, <1>5, PutTypes DEF IdleIsr

LEMMA TypesKept ==
  ASSUME TypeInv, [Next]_vars
  PROVE  TypeInv'
  <1>1. CASE UNCHANGED vars
    BY <1>1 DEF vars, shellVars, ringVars, cliVars, isrVars, histVars, TypeInv
  <1> QED  BY <1>1, ShellTypes, CliTypes, IsrTypes DEF Next

----------------------------------------------------------------------------
(* The shell                                                                *)

\* What a handler or the thread leaves of what the shell keeps.
LEMMA OthersKeepShell ==
  ASSUME TypeInv, ShellInv, Cli \/ DmaRxInd \/ IdleRxInd \/ IdleIsr \/ ClientRxInd
  PROVE  /\ UNCHANGED <<shell, sessions, status, odev_status, rx_indicate, odev_rx_ind,
                        fifo_state, started, failed>>
         /\ cli \in {"none", "created"} => cli' = cli
         /\ cli \notin {"none", "created"} => cli' \notin {"none", "created"}
         /\ isr' # "none" => rx_indicate = "cli"
         /\ isr' \notin {"none", "read"} => fifo_state = "live"
  <1> USE DEF shellVars, ringVars, cliVars, isrVars, histVars
  <1>1. CASE Cli
    <2>1. /\ UNCHANGED <<shell, sessions, status, odev_status, rx_indicate, odev_rx_ind,
                         fifo_state, started, failed>>
          /\ UNCHANGED isr
          /\ cli \notin {"none", "created"} /\ cli' \notin {"none", "created"}
      BY <1>1 DEF Cli, CliStep, SemTake, GetLen, GetCopy, GetCompare, GetLoad, GetStore,
                  GetStoreOutside, Kprintf
    <2> QED  BY <2>1 DEF ShellInv
  <1>2. CASE DmaRxInd
    <2>1. PICK n \in 1 .. MaxNew : UNCHANGED cli \/ Release(unread + n)
      BY <1>2 DEF DmaRxInd
    <2>2. unread + n \in Nat \ {0} /\ rx_notice \in Nat /\ cli \in CliStates
      BY CliAssumption DEF TypeInv
    <2>3. cli' = cli \/ cli' = IF cli = "waiting" THEN "get" ELSE cli
      BY <2>1, <2>2, ReleaseFacts
    <2>4. UNCHANGED <<shell, sessions, status, odev_status, rx_indicate, odev_rx_ind,
                      fifo_state, started, failed, isr>>
      BY <1>2 DEF DmaRxInd
    <2> QED  BY <2>3, <2>4 DEF ShellInv
  <1>3. CASE IdleRxInd \/ ClientRxInd
    BY <1>3 DEF IdleRxInd, ClientRxInd, ShellInv
  <1>4. CASE IdleRead
    BY <1>4 DEF IdleRead, BadRing, ShellInv
  <1>5. CASE IdlePut
    BY <1>5, PutLeaves DEF ShellInv
  <1>6. CASE IdleRelease
    BY <1>6 DEF IdleRelease, IdleStep, Release, ShellInv
  <1> QED  BY <1>1, <1>2, <1>3, <1>4, <1>5, <1>6 DEF IdleIsr

LEMMA ShellKept ==
  ASSUME TypeInv, ShellInv, SessionInv, [Next]_vars
  PROVE  ShellInv'
  <1> USE DEF shellVars, ringVars, cliVars, isrVars, histVars
  <1>1. CASE Cli \/ DmaRxInd \/ IdleRxInd \/ IdleIsr \/ ClientRxInd
    <2>1. /\ UNCHANGED <<shell, sessions, status, odev_status, rx_indicate, odev_rx_ind,
                         fifo_state, started, failed>>
          /\ cli \in {"none", "created"} => cli' = cli
          /\ cli \notin {"none", "created"} => cli' \notin {"none", "created"}
          /\ isr' # "none" => rx_indicate = "cli"
          /\ isr' \notin {"none", "read"} => fifo_state = "live"
      BY <1>1, OthersKeepShell
    <2> QED  BY <2>1 DEF ShellInv, HomeStatus, HomeRxInd
  <1> USE DEF ShellInv, HomeStatus, HomeRxInd, ShellStep, ShellRuns
  <1>2. CASE BackupStatus
    BY <1>2 DEF BackupStatus
  <1>3. CASE BackupRxInd
    BY <1>3 DEF BackupRxInd
  <1>4. CASE SemInit
    BY <1>4 DEF SemInit
  <1>5. CASE FifoCreate
    BY <1>5 DEF FifoCreate
  <1>6. CASE ThreadCreate
    BY <1>6 DEF ThreadCreate, TypeInv
  <1>7. CASE RestoreStatus
    BY <1>7 DEF RestoreStatus
  <1>8. CASE RestoreRxInd
    BY <1>8 DEF RestoreRxInd
  <1>9. CASE ThreadDelete
    BY <1>9 DEF ThreadDelete
  <1>10. CASE FifoDestroy
    BY <1>10 DEF FifoDestroy
  <1>11. CASE UNCHANGED vars
    BY <1>11 DEF vars
  <1> QED  BY <1>1, <1>2, <1>3, <1>4, <1>5, <1>6, <1>7, <1>8, <1>9, <1>10, <1>11
           DEF Next, Shell

LEMMA SessionKept ==
  ASSUME TypeInv, ShellInv, SessionInv, [Next]_vars
  PROVE  SessionInv'
  <1> USE DEF shellVars, ringVars, cliVars, isrVars, histVars
  <1>0. sessions \in Nat
    BY DEF TypeInv
  <1>1. CASE Cli \/ DmaRxInd \/ IdleRxInd \/ IdleIsr \/ ClientRxInd
    <2>1. UNCHANGED <<shell, sessions, status, odev_status, rx_indicate, odev_rx_ind,
                      fifo_state, started, failed>>
      BY <1>1, OthersKeepShell
    <2> QED  BY <2>1 DEF SessionInv
  <1>2. CASE BackupStatus
    BY <1>0, <1>2 DEF BackupStatus, ShellStep, SessionInv
  <1>3. CASE BackupRxInd \/ SemInit \/ RestoreStatus \/ RestoreRxInd \/ ThreadDelete
    BY <1>3 DEF BackupRxInd, SemInit, RestoreStatus, RestoreRxInd, ThreadDelete, ShellStep,
                SessionInv
  <1>4. CASE FifoCreate
    BY <1>4 DEF FifoCreate, ShellStep, SessionInv
  <1>5. CASE ThreadCreate
    BY <1>5 DEF ThreadCreate, SessionInv, ShellInv, TypeInv
  <1>6. CASE FifoDestroy
    BY <1>0, <1>6 DEF FifoDestroy, ShellStep, SessionInv
  <1>7. CASE UNCHANGED vars
    BY <1>7 DEF vars, SessionInv
  <1> QED  BY <1>1, <1>2, <1>3, <1>4, <1>5, <1>6, <1>7 DEF Next, Shell

----------------------------------------------------------------------------
(* Steps of getchar on the ring                                             *)

LEMMA IdleRingOK ==
  ASSUME NEW rb, NEW o, NEW over, NEW c, NEW h, NEW d, NEW g,
         c \notin ReadingStates, d \notin ReadingStates, RingOK(rb, o, c, h, over)
  PROVE  RingOK(rb, o, d, g, over)
  BY DEF RingOK, ReadingStates

LEMMA GetLenOK ==
  ASSUME NEW rb \in Rings, NEW h \in Halves, NEW o \in Nat \ {0}, NEW over,
         RingOK(rb, o, "get", h, over)
  PROVE  /\ data_len(rb) = 0 => RingOK(rb, o - 1, "print", h, over)
         /\ data_len(rb) # 0 => RingOK(rb, o, "copy", h, over)
  <1>1. PICK n, a : n = buffer_size /\ a = Ahead(Wr(rb), Rd(rb)) /\ n \in Nat \ {0}
    BY Size
  <1>2. /\ a \in 0 .. 2 * n - 1
        /\ a <= n => data_len(rb) = a
        /\ a > n => data_len(rb) = a - n
    BY <1>1, LenFacts
  <1>3. data_len(rb) <= o /\ a <= o
    BY <1>1 DEF RingOK, ReadingStates
  <1>4. CASE data_len(rb) = 0
    <2>1. a = 0
      BY <1>1, <1>2, <1>4
    <2>2. data_len(rb) <= o - 1 /\ a <= o - 1
      BY <1>4, <2>1
    <2> QED  BY <1>1, <1>4, <2>2 DEF RingOK, ReadingStates
  <1>5. CASE data_len(rb) # 0
    <2>1. a # 0
      BY <1>1, <1>2, <1>5
    <2>2. Wr(rb) \in 0 .. 2 * buffer_size - 1 /\ Rd(rb) \in 0 .. 2 * buffer_size - 1
      BY LenFacts
    <2>3. Ahead(Wr(rb), After(Rd(rb))) = IF a = 0 THEN 2 * buffer_size - 1 ELSE a - 1
      BY <1>1, <2>2, AheadAfter
    <2>4. Ahead(Wr(rb), Target(rb, "copy", h)) = a - 1
      BY <2>1, <2>3 DEF Target
    <2>5. a - 1 < o
      BY <1>1, <1>2, <1>3
    <2> QED  BY <1>3, <1>5, <2>4, <2>5 DEF RingOK, ReadingStates
  <1> QED  BY <1>4, <1>5

LEMMA GetCompareOK ==
  ASSUME NEW rb \in Rings, NEW h \in Halves, NEW o \in Nat, NEW over
  PROVE  /\ RingOK(rb, o, "copy", h, over) => RingOK(rb, o, "compare", h, over)
         /\ RingOK(rb, o, "compare", h, over) =>
              RingOK(rb, o, IF rb.read_index = buffer_size - 1 THEN "flip" ELSE "inc", h, over)
  <1>1. rb.read_index = buffer_size - 1 => At(1 - rb.read_mirror, 0) = After(Rd(rb))
    BY AtStep DEF Rd, Rings
  <1>2. /\ Target(rb, "copy", h) = After(Rd(rb)) /\ Target(rb, "compare", h) = After(Rd(rb))
        /\ Target(rb, "inc", h) = After(Rd(rb))
        /\ Target(rb, "flip", h) = At(1 - rb.read_mirror, 0)
    BY DEF Target
  <1>3. RingOK(rb, o, "copy", h, over) => RingOK(rb, o, "compare", h, over)
    BY <1>2 DEF RingOK, ReadingStates
  <1>4. CASE rb.read_index = buffer_size - 1
    BY <1>1, <1>2, <1>3, <1>4 DEF RingOK, ReadingStates
  <1>5. CASE rb.read_index # buffer_size - 1
    BY <1>2, <1>3, <1>5 DEF RingOK, ReadingStates
  <1> QED  BY <1>4, <1>5

LEMMA GetLoadOK ==
  ASSUME NEW rb \in Rings, NEW h \in Halves, NEW o \in Nat, NEW over, NEW g,
         g = [mirror |-> rb.read_mirror, index |-> rb.read_index]
  PROVE  /\ RingOK(rb, o, "flip", h, over) => RingOK(rb, o, "flip_store", g, over)
         /\ RingOK(rb, o, "zero", h, over) => RingOK(rb, o, "zero_store", g, over)
         /\ RingOK(rb, o, "inc", h, over) => RingOK(rb, o, "inc_store", g, over)
  <1>1. g.mirror = rb.read_mirror /\ g.index = rb.read_index
    OBVIOUS
  <1>2. /\ Target(rb, "flip_store", g) = Target(rb, "flip", h)
        /\ Target(rb, "zero_store", g) = Target(rb, "zero", h)
        /\ Target(rb, "inc_store", g) = Target(rb, "inc", h)
    BY <1>1 DEF Target, Rd
  <1> QED  BY <1>1, <1>2 DEF RingOK, ReadingStates

\* The last store makes the target the read position.
LEMMA LastStoreOK ==
  ASSUME NEW rb \in Rings, NEW h \in Halves, NEW o \in Nat, NEW over, NEW c \in ReadingStates,
         RingOK(rb, o, c, h, over),
         NEW q \in Rings, Wr(q) = Wr(rb), Rd(q) = Target(rb, c, h), NEW g
  PROVE  RingOK(q, o - 1, "print", g, over)
  <1>1. PICK n, a : n = buffer_size /\ a = Ahead(Wr(q), Rd(q)) /\ n \in Nat \ {0}
    BY Size
  <1>2. /\ a \in 0 .. 2 * n - 1
        /\ a <= n => data_len(q) = a
        /\ a > n => data_len(q) = a - n
    BY <1>1, LenFacts
  <1>3. a < o
    BY <1>1 DEF RingOK
  <1>4. data_len(q) <= o - 1 /\ a <= o - 1
    BY <1>1, <1>2, <1>3
  <1> QED  BY <1>1, <1>4 DEF RingOK, ReadingStates

LEMMA ZeroStoreOK ==
  ASSUME NEW rb \in Rings, NEW h \in Halves, NEW o \in Nat, NEW over, NEW g,
         RingOK(rb, o, "zero_store", h, over), NEW q, Stored(q, rb, h.mirror, 0)
  PROVE  RingOK(q, o - 1, "print", g, over)
  <1>1. q \in Rings /\ Wr(q) = Wr(rb) /\ Rd(q) = Target(rb, "zero_store", h)
    BY DEF Stored, Wr, Rd, Target
  <1>2. "zero_store" \in ReadingStates
    BY DEF ReadingStates
  <1> QED  BY <1>1, <1>2, LastStoreOK

LEMMA IncStoreOK ==
  ASSUME NEW rb \in Rings, NEW h \in Halves, NEW o \in Nat, NEW over, NEW g,
         RingOK(rb, o, "inc_store", h, over), h.index + 1 < buffer_size,
         NEW q, Stored(q, rb, h.mirror, h.index + 1)
  PROVE  RingOK(q, o - 1, "print", g, over)
  <1>1. h.mirror \in {0, 1} /\ h.index \in 0 .. buffer_size - 1
    BY DEF Halves
  <1>2. h.index # buffer_size - 1
    BY <1>1, Size
  <1>3. At(h.mirror, h.index + 1) = After(At(h.mirror, h.index))
    BY <1>1, <1>2, AtStep
  <1>4. q \in Rings /\ Wr(q) = Wr(rb) /\ Rd(q) = Target(rb, "inc_store", h)
    BY <1>3 DEF Stored, Wr, Rd, Target
  <1>5. "inc_store" \in ReadingStates
    BY DEF ReadingStates
  <1> QED  BY <1>4, <1>5, LastStoreOK

LEMMA FlipStoreOK ==
  ASSUME NEW rb \in Rings, NEW h \in Halves, NEW o \in Nat, NEW over, NEW g,
         RingOK(rb, o, "flip_store", h, over), NEW q, Stored(q, rb, 1 - h.mirror, h.index)
  PROVE  RingOK(q, o, "zero", g, over)
  <1>1. PICK n, m, w : /\ n = buffer_size /\ m = 1 - h.mirror /\ w = rb.write_index
                       /\ n \in Nat \ {0} /\ m \in {0, 1} /\ w \in 0 .. n - 1
    BY Size, RingFields DEF Halves
  <1>2. q \in Rings /\ Wr(q) = Wr(rb) /\ Target(q, "zero", g) = Target(rb, "flip_store", h)
    BY DEF Stored, Wr, Target
  <1>3. Ahead(Wr(rb), At(m, 0)) < o
    BY <1>1 DEF RingOK, ReadingStates, Target
  <1>4. data_len(q) <= o
    <2>1. data_len(q) \in 0 .. n
      BY <1>1, <1>2, LenFacts
    <2>2. CASE o > n
      BY <1>1, <2>1, <2>2
    <2>3. CASE h.index = n - 1 /\ o <= n
      <3>1. /\ q.read_mirror = m /\ q.read_index = n - 1 /\ q.write_index = w
            /\ q.write_mirror = rb.write_mirror /\ q.write_mirror \in {0, 1}
        BY <1>1, <2>3, RingFields DEF Stored
      <3>2. rb.write_mirror = m /\ w < o
        <4>1. CASE rb.write_mirror = 0
          BY <1>1, <1>3, <2>3, <4>1 DEF Ahead, Wr, At
        <4>2. CASE rb.write_mirror = 1
          BY <1>1, <1>3, <2>3, <4>2 DEF Ahead, Wr, At
        <4> QED  BY <3>1, <4>1, <4>2
      <3>3. data_len(q) = IF w = n - 1 THEN 0 ELSE n - (n - 1 - w)
        BY <1>1, <3>1, <3>2 DEF data_len, is_empty, is_full
      <3> QED  BY <1>1, <3>2, <3>3
    <2>4. h.index = n - 1 \/ o > n
      BY <1>1 DEF RingOK
    <2> QED  BY <1>1, <2>2, <2>3, <2>4
  <1>5. Ahead(Wr(q), Target(q, "zero", g)) < o
    BY <1>2 DEF RingOK, ReadingStates
  <1> QED  BY <1>4, <1>5 DEF RingOK, ReadingStates

----------------------------------------------------------------------------
(* The ring and its notices                                                 *)

LEMMA PutAllKeeps ==
  ASSUME NEW rb \in Rings, NEW h \in Halves, NEW c \in CliStates, NEW o \in Nat,
         NEW over \in BOOLEAN, RingOK(rb, o, c, h, over), came \in Nat, NEW n \in Nat
  PROVE  RingOK(PutAll(rb, n), o + n, c, h, over \/ o + n > buffer_size)
  <1>1. PICK f : Puts(f, rb, came, n) /\ PutAll(rb, n) = f[n]
    BY PutAllIsPuts
  <1>2. PICK x \in Nat : x = came
    OBVIOUS
  <1>3. Puts(f, rb, x, n)
    BY <1>1, <1>2
  <1>4. \A k \in 0 .. n :
           f[k] \in Rings /\ RingOK(f[k], o + k, c, h, over \/ o + k > buffer_size)
    BY <1>3, PutsKeep
  <1>5. n \in 0 .. n
    OBVIOUS
  <1> QED  BY <1>1, <1>4, <1>5

\* A full ring stays full.
LEMMA PutAllFull ==
  ASSUME NEW rb \in Rings, is_full(rb), came \in Nat, NEW n \in Nat
  PROVE  is_full(PutAll(rb, n))
  <1>1. PICK f : Puts(f, rb, came, n) /\ PutAll(rb, n) = f[n]
    BY PutAllIsPuts
  <1>2. \A k \in 0 .. n : f[k] = IF k = 0 THEN rb ELSE put_force(f[k - 1], came + k)
    BY <1>1 DEF Puts
  <1> DEFINE Good(k) == f[k] \in Rings /\ is_full(f[k])
             Bad == {k \in 0 .. n : ~Good(k)}
  <1>3. ASSUME Bad # {} PROVE FALSE
    <2>1. Bad \subseteq Nat
      OBVIOUS
    <2>2. PICK k \in Bad : \A m \in Bad : k <= m
      <3> HIDE DEF Bad
      <3> QED  BY <1>3, <2>1, LeastNat
    <2>3. k \in 0 .. n /\ ~Good(k)
      OBVIOUS
    <2>4. k # 0
      BY <1>2, <2>3
    <2>5. k - 1 \in 0 .. n /\ came + k \in Nat
      BY <2>3, <2>4
    <2>6. Good(k - 1)
      BY <2>2, <2>5
    <2>7. PICK r \in Rings, y \in Nat : r = f[k - 1] /\ y = came + k /\ is_full(r)
      BY <2>5, <2>6
    <2> DEFINE b == [r EXCEPT !.buffer[r.write_index] = y]
    <2>8. b \in Rings /\ SameIndices(b, r)
      BY <2>7, Written DEF Wrote
    <2>9. put_force(r, y) = put_advance(b, space_len(r))
      BY DEF put_force
    <2>10. space_len(r) = 0
      BY <2>7, LenFacts, Size DEF space_len
    <2> HIDE DEF b
    <2>11. is_full(b)
      BY <2>7, <2>8 DEF SameIndices, is_full
    <2>12. Advanced(put_advance(b, 0), b, 0)
      BY <2>8, PutFields
    <2>13. is_full(put_advance(b, 0)) /\ put_advance(b, 0) \in Rings
      BY <2>8, <2>11, <2>12, PutMoves DEF Advanced
    <2>14. Good(k)
      BY <1>2, <2>3, <2>4, <2>7, <2>9, <2>10, <2>13
    <2> QED  BY <2>3, <2>14
  <1> QED  BY <1>1, <1>3

LEMMA OutstandingFacts ==
  ASSUME rx_notice \in Nat
  PROVE  Outstanding \in Nat /\ Count \in Nat
  <1>1. Outstanding \in Nat
    BY DEF Outstanding
  <1> QED  BY <1>1 DEF Count

\* A put that does not move the indices.
LEMMA Still ==
  ASSUME fifo \in Rings, isr \notin MovingStates
  PROVE  Ring = fifo /\ Count = Outstanding /\ Straight /\ ~Moving
  BY DoneStill DEF Ring, Straight, Count, Moving, MovingStates

LEMMA StillNext ==
  ASSUME fifo' \in Rings, isr' \notin MovingStates
  PROVE  Ring' = fifo' /\ Count' = Outstanding' /\ Straight' /\ ~Moving'
  <1>1. /\ Done(fifo', isr', word', space') = fifo'
        /\ StraightAt(fifo', isr', word')
    BY DoneStill
  <1> QED  BY <1>1 DEF Ring, Straight, Count, Moving, MovingStates

\* A put that begins to move them in the branch for its index is as good as through.
LEMMA BeginRing ==
  ASSUME TypeInv, IdleBegin, Straight'
  PROVE  /\ Ring = fifo /\ Count = Outstanding /\ Outstanding \in Nat
         /\ Ring' = put_advance(fifo, space) /\ Count' = Outstanding + 1
  <1>0. fifo \in Rings /\ rx_notice \in Nat /\ Outstanding \in Nat
    BY OutstandingFacts DEF TypeInv
  <1>1. /\ UNCHANGED <<fifo, rx_notice, cli, space>>
        /\ word' = [mirror |-> fifo.write_mirror, index |-> fifo.write_index]
        /\ \/ isr = "inc" /\ isr' = "inc_store"
           \/ isr = "flip" /\ isr' = "flip_store"
    BY DEF IdleBegin, IdleStep, ringVars, cliVars
  <1>2. Ring = fifo /\ Count = Outstanding
    BY <1>0, <1>1, Still DEF MovingStates
  <1>3. Count' = Outstanding + 1
    <2>1. Outstanding' = Outstanding
      BY <1>1 DEF Outstanding, Getting
    <2> QED  BY <1>1, <2>1 DEF Count, Moving
  <1>4. PICK q : q = put_advance(fifo, space) /\ Advanced(q, fifo, space)
    BY <1>0, PutFields
  <1>5. q = Made(q, q.write_mirror, q.write_index, q.read_mirror, q.read_index)
    BY <1>4, RingMade DEF Advanced
  <1>6. StraightAt(fifo, isr', word')
    BY <1>1 DEF Straight
  <1>7. Ring' = Done(fifo, isr', word', space)
    BY <1>1 DEF Ring
  <1>8. CASE isr' = "inc_store"
    <2>1. fifo.write_index # buffer_size - 1
      BY <1>1, <1>6, <1>8 DEF StraightAt
    <2>2. /\ q.buffer = fifo.buffer /\ q.write_index = fifo.write_index + 1
          /\ q.write_mirror = fifo.write_mirror /\ q.read_mirror = fifo.read_mirror
          /\ q.read_index = IF space = 0 THEN fifo.write_index + 1 ELSE fifo.read_index
      BY <1>4, <2>1 DEF Advanced
    <2>3. Done(fifo, isr', word', space)
            = Made(fifo, fifo.write_mirror, fifo.write_index + 1, fifo.read_mirror,
                   IF space = 0 THEN fifo.write_index + 1 ELSE fifo.read_index)
      BY <1>1, <1>8 DEF Done, Wraps
    <2>4. Done(fifo, isr', word', space)
            = Made(fifo, q.write_mirror, q.write_index, q.read_mirror, q.read_index)
      BY <2>2, <2>3
    <2>5. q = Done(fifo, isr', word', space)
      BY <1>5, <2>2, <2>4 DEF Made
    <2> QED  BY <1>0, <1>2, <1>3, <1>4, <1>7, <2>5
  <1>9. CASE isr' = "flip_store"
    <2>1. fifo.write_index = buffer_size - 1
      BY <1>1, <1>6, <1>9 DEF StraightAt
    <2>2. /\ q.buffer = fifo.buffer /\ q.write_index = 0
          /\ q.write_mirror = 1 - fifo.write_mirror
          /\ q.read_mirror = IF space = 0 THEN 1 - fifo.read_mirror ELSE fifo.read_mirror
          /\ q.read_index = IF space = 0 THEN 0 ELSE fifo.read_index
      BY <1>4, <2>1 DEF Advanced
    <2>3. Done(fifo, isr', word', space)
            = Made(fifo, 1 - fifo.write_mirror, 0,
                   IF space = 0 THEN 1 - fifo.read_mirror ELSE fifo.read_mirror,
                   IF space = 0 THEN 0 ELSE fifo.read_index)
      BY <1>1, <1>9 DEF Done, Wraps
    <2>4. Done(fifo, isr', word', space)
            = Made(fifo, q.write_mirror, q.write_index, q.read_mirror, q.read_index)
      BY <2>2, <2>3
    <2>5. q = Done(fifo, isr', word', space)
      BY <1>5, <2>2, <2>4 DEF Made
    <2> QED  BY <1>0, <1>2, <1>3, <1>4, <1>7, <2>5
  <1> QED  BY <1>0, <1>1, <1>8, <1>9

\* From there on its loads and stores change nothing.
LEMMA MoveKeeps ==
  ASSUME TypeInv, IdleLoad \/ IdleStore
  PROVE  /\ Ring' = Ring /\ Count' = Count /\ (Straight' => Straight)
         /\ isr \in MovingStates /\ isr' \in MovingStates \cup {"release"}
  <1>0. fifo \in Rings /\ fifo' \in Rings /\ word \in Halves /\ rx_notice \in Nat
    BY PutTypes DEF TypeInv, IdlePut
  <1>1. UNCHANGED <<rx_notice, cli, space>>
    BY DEF IdleLoad, IdleStore, ringVars, cliVars
  <1>2. isr \in MovingStates /\ isr' \in MovingStates \cup {"release"}
    BY DEF IdleLoad, IdleStore, IdleStep, MovingStates
  <1>3. Count' = Count
    <2>1. /\ Count = rx_notice + (IF Getting THEN 1 ELSE 0) + 0 + 1
          /\ isr' = "release" =>
               Count' = rx_notice' + (IF Getting' THEN 1 ELSE 0) + 1
          /\ isr' # "release" =>
               Count' = rx_notice' + (IF Getting' THEN 1 ELSE 0) + 0 + 1
      BY <1>2 DEF Count, Outstanding, Moving, MovingStates
    <2>2. Getting' <=> Getting
      BY <1>1 DEF Getting
    <2> QED  BY <1>0, <1>1, <2>1, <2>2
  <1>4. PICK q, pc, g : q = fifo' /\ pc = isr' /\ g = word'
    OBVIOUS
  <1>5. Ring' = Done(q, pc, g, space) /\ (Straight' <=> StraightAt(q, pc, g))
    BY <1>1, <1>4 DEF Ring, Straight
  <1>6. ASSUME NEW wm, NEW wi, NEW rm, NEW ri,
               Done(fifo, isr, word, space) = Made(fifo, wm, wi, rm, ri),
               Done(q, pc, g, space) = Made(q, wm, wi, rm, ri), q.buffer = fifo.buffer
        PROVE  Ring' = Ring
    BY <1>5, <1>6 DEF Made, Ring
  <1>7. CASE IdleLoad
    <2>1. /\ q = fifo
          /\ \/ isr = "zero" /\ pc = "zero_store"
                /\ g = [mirror |-> fifo.write_mirror, index |-> fifo.write_index]
             \/ isr = "rflip" /\ pc = "rflip_store"
                /\ g = [mirror |-> fifo.read_mirror, index |-> fifo.read_index]
             \/ isr = "follow" /\ pc = "follow_store"
                /\ g = [mirror |-> fifo.read_mirror, index |-> fifo.write_index]
      BY <1>4, <1>7 DEF IdleLoad, IdleStep, ringVars
    <2>2. Straight' => Straight
      BY <1>5, <2>1 DEF StraightAt, Straight
    <2>3. Done(q, pc, g, space) = Done(fifo, isr, word, space)
      <3>1. CASE isr = "zero"
        BY <2>1, <3>1 DEF Done, Wraps
      <3>2. CASE isr = "rflip"
        BY <2>1, <3>2 DEF Done, Wraps
      <3>3. CASE isr = "follow"
        BY <2>1, <3>3 DEF Done, Wraps
      <3> QED  BY <2>1, <3>1, <3>2, <3>3
    <2> QED  BY <1>2, <1>3, <1>5, <2>2, <2>3 DEF Ring
  <1>8. CASE IdleStore
    <2>1. /\ word.mirror \in {0, 1} /\ 1 - word.mirror \in {0, 1}
          /\ word.index \in 0 .. buffer_size - 1 /\ 0 \in 0 .. buffer_size - 1
      BY <1>0, Size DEF Halves
    <2>2. CASE isr = "inc_store"
      <3>1. /\ pc = IF space = 0 THEN "follow" ELSE "release"
            /\ word.index < buffer_size - 1
            /\ q = [fifo EXCEPT !.write_mirror = word.mirror, !.write_index = word.index + 1]
        BY <1>4, <1>8, <2>2 DEF IdleStore, IdleStep
      <3>2. word.index + 1 \in 0 .. buffer_size - 1 /\ Straight
        BY <2>1, <2>2, <3>1, Size DEF Straight, StraightAt
      <3>3. Pushed(q, fifo, word.mirror, word.index + 1)
        BY <1>0, <2>1, <3>1, <3>2, PushFields
      <3>4. /\ q.buffer = fifo.buffer /\ q.write_mirror = word.mirror
            /\ q.write_index = word.index + 1
            /\ q.read_mirror = fifo.read_mirror /\ q.read_index = fifo.read_index
        BY <3>3 DEF Pushed
      <3>5. Done(fifo, isr, word, space)
              = Made(fifo, word.mirror, word.index + 1, fifo.read_mirror,
                     IF space = 0 THEN word.index + 1 ELSE fifo.read_index)
        BY <2>2 DEF Done, Wraps
      <3>6. Done(q, pc, g, space)
              = Made(q, word.mirror, word.index + 1, fifo.read_mirror,
                     IF space = 0 THEN word.index + 1 ELSE fifo.read_index)
        BY <3>1, <3>4 DEF Done, Wraps
      <3> QED  BY <1>2, <1>3, <1>6, <3>2, <3>4, <3>5, <3>6
    <2>3. CASE isr = "flip_store"
      <3>1. /\ pc = "zero"
            /\ q = [fifo EXCEPT !.write_mirror = 1 - word.mirror, !.write_index = word.index]
        BY <1>4, <1>8, <2>3 DEF IdleStore, IdleStep
      <3>2. Pushed(q, fifo, 1 - word.mirror, word.index)
        BY <1>0, <2>1, <3>1, PushFields
      <3>3. /\ q.buffer = fifo.buffer /\ q.write_mirror = 1 - word.mirror
            /\ q.write_index = word.index
            /\ q.read_mirror = fifo.read_mirror /\ q.read_index = fifo.read_index
        BY <3>2 DEF Pushed
      <3>4. Straight' => Straight
        BY <1>5, <2>3, <3>1, <3>3 DEF Straight, StraightAt
      <3>5. Done(fifo, isr, word, space)
              = Made(fifo, 1 - word.mirror, 0,
                     IF space = 0 THEN 1 - fifo.read_mirror ELSE fifo.read_mirror,
                     IF space = 0 THEN 0 ELSE fifo.read_index)
        BY <2>3 DEF Done, Wraps
      <3>6. Done(q, pc, g, space)
              = Made(q, 1 - word.mirror, 0,
                     IF space = 0 THEN 1 - fifo.read_mirror ELSE fifo.read_mirror,
                     IF space = 0 THEN 0 ELSE fifo.read_index)
        BY <3>1, <3>3 DEF Done, Wraps
      <3> QED  BY <1>2, <1>3, <1>6, <3>3, <3>4, <3>5, <3>6
    <2>4. CASE isr = "zero_store"
      <3>1. /\ pc = IF space = 0 THEN "rflip" ELSE "release"
            /\ word.index = buffer_size - 1
            /\ q = [fifo EXCEPT !.write_mirror = word.mirror, !.write_index = 0]
        BY <1>4, <1>8, <2>4 DEF IdleStore, IdleStep
      <3>2. Straight
        BY <2>4, <3>1 DEF Straight, StraightAt
      <3>3. Pushed(q, fifo, word.mirror, 0)
        BY <1>0, <2>1, <3>1, PushFields
      <3>4. /\ q.buffer = fifo.buffer /\ q.write_mirror = word.mirror /\ q.write_index = 0
            /\ q.read_mirror = fifo.read_mirror /\ q.read_index = fifo.read_index
        BY <3>3 DEF Pushed
      <3>5. Done(fifo, isr, word, space)
              = Made(fifo, word.mirror, 0,
                     IF space = 0 THEN 1 - fifo.read_mirror ELSE fifo.read_mirror,
                     IF space = 0 THEN 0 ELSE fifo.read_index)
        BY <2>4 DEF Done, Wraps
      <3>6. Done(q, pc, g, space)
              = Made(q, word.mirror, 0,
                     IF space = 0 THEN 1 - fifo.read_mirror ELSE fifo.read_mirror,
                     IF space = 0 THEN 0 ELSE fifo.read_index)
        BY <3>1, <3>4 DEF Done, Wraps
      <3> QED  BY <1>2, <1>3, <1>6, <3>2, <3>4, <3>5, <3>6
    <2>5. CASE isr = "rflip_store"
      <3>1. /\ pc = "follow"
            /\ q = [fifo EXCEPT !.read_mirror = 1 - word.mirror, !.read_index = word.index]
        BY <1>4, <1>8, <2>5 DEF IdleStore, IdleStep
      <3>2. Stored(q, fifo, 1 - word.mirror, word.index)
        BY <1>0, <2>1, <3>1, StoreFields
      <3>3. /\ q.buffer = fifo.buffer /\ q.write_mirror = fifo.write_mirror
            /\ q.write_index = fifo.write_index
            /\ q.read_mirror = 1 - word.mirror /\ q.read_index = word.index
        BY <3>2 DEF Stored
      <3>4. Straight
        BY <2>5 DEF Straight, StraightAt
      <3>5. Done(fifo, isr, word, space)
              = Made(fifo, fifo.write_mirror, fifo.write_index, 1 - word.mirror, fifo.write_index)
        BY <2>5 DEF Done, Wraps
      <3>6. Done(q, pc, g, space)
              = Made(q, fifo.write_mirror, fifo.write_index, 1 - word.mirror, fifo.write_index)
        BY <3>1, <3>3 DEF Done, Wraps
      <3> QED  BY <1>2, <1>3, <1>6, <3>3, <3>4, <3>5, <3>6
    <2>6. CASE isr = "follow_store"
      <3>1. /\ pc = "release"
            /\ q = [fifo EXCEPT !.read_mirror = word.mirror, !.read_index = word.index]
        BY <1>4, <1>8, <2>6 DEF IdleStore, IdleStep
      <3>2. Stored(q, fifo, word.mirror, word.index)
        BY <1>0, <2>1, <3>1, StoreFields
      <3>3. /\ q.buffer = fifo.buffer /\ q.write_mirror = fifo.write_mirror
            /\ q.write_index = fifo.write_index
            /\ q.read_mirror = word.mirror /\ q.read_index = word.index
        BY <3>2 DEF Stored
      <3>4. Straight
        BY <2>6 DEF Straight, StraightAt
      <3>5. Done(fifo, isr, word, space)
              = Made(fifo, fifo.write_mirror, fifo.write_index, word.mirror, word.index)
        BY <2>6 DEF Done, Wraps
      <3>6. Done(q, pc, g, space)
              = Made(q, fifo.write_mirror, fifo.write_index, word.mirror, word.index)
        BY <3>1, <3>3 DEF Done, Wraps
      <3> QED  BY <1>2, <1>3, <1>6, <3>3, <3>4, <3>5, <3>6
    <2> QED  BY <1>8, <2>2, <2>3, <2>4, <2>5, <2>6 DEF IdleStore, IdleStep
  <1> QED  BY <1>7, <1>8

\* The steps of the thread.
LEMMA CliRing ==
  ASSUME TypeInv, RingOK(fifo, Outstanding, cli, half, overflowed), Cli
  PROVE  RingOK(fifo', Outstanding', cli', half', overflowed')
  <1> USE DEF shellVars, ringVars, cliVars, isrVars, histVars
  <1>0. /\ fifo \in Rings /\ half \in Halves /\ rx_notice \in Nat
        /\ cli \in CliStates /\ overflowed \in BOOLEAN /\ isr = "none" /\ isr' = "none"
    BY DEF TypeInv, Cli, CliStep, CliRuns, SemTake, GetLen, GetCopy, GetCompare, GetLoad,
           GetStore, GetStoreOutside, Kprintf
  <1>1. PICK rb \in Rings, h \in Halves, o \in Nat, over \in BOOLEAN :
          rb = fifo /\ h = half /\ o = Outstanding /\ over = overflowed
    BY <1>0, OutstandingFacts
  <1>2. RingOK(rb, o, cli, h, over)
    BY <1>1
  <1>3. CASE SemTake
    <2>1. UNCHANGED <<fifo, half, overflowed>> /\ Outstanding' = Outstanding
      BY <1>0, <1>3 DEF SemTake, Outstanding, Getting
    <2>2. cli \notin ReadingStates /\ cli' \notin ReadingStates
      BY <1>3 DEF SemTake, ReadingStates
    <2>3. RingOK(rb, o, cli', h, over)
      BY <1>2, <2>2, IdleRingOK
    <2> QED  BY <1>1, <2>1, <2>3
  <1>4. CASE GetLen
    <2>1. /\ UNCHANGED <<fifo, half, overflowed, rx_notice>> /\ cli = "get"
          /\ cli' = IF data_len(rb) = 0 THEN "print" ELSE "copy"
      BY <1>1, <1>4 DEF GetLen, CliStep
    <2>2. o \in Nat \ {0} /\ Outstanding' = IF data_len(rb) = 0 THEN o - 1 ELSE o
      BY <1>0, <1>1, <2>1 DEF Outstanding, Getting
    <2>3. /\ data_len(rb) = 0 => RingOK(rb, o - 1, "print", h, over)
          /\ data_len(rb) # 0 => RingOK(rb, o, "copy", h, over)
      BY <1>2, <2>1, <2>2, GetLenOK
    <2>4. CASE data_len(rb) = 0
      BY <1>1, <2>1, <2>2, <2>3, <2>4
    <2>5. CASE data_len(rb) # 0
      BY <1>1, <2>1, <2>2, <2>3, <2>5
    <2> QED  BY <2>4, <2>5
  <1>5. CASE GetCopy
    <2>1. UNCHANGED <<fifo, half, overflowed, rx_notice>> /\ cli = "copy" /\ cli' = "compare"
      BY <1>5 DEF GetCopy, CliStep
    <2>2. Outstanding' = Outstanding
      BY <1>0, <2>1 DEF Outstanding, Getting
    <2>3. RingOK(rb, o, "compare", h, over)
      BY <1>2, <2>1, GetCompareOK
    <2> QED  BY <1>1, <2>1, <2>2, <2>3
  <1>6. CASE GetCompare
    <2>1. /\ UNCHANGED <<fifo, half, overflowed, rx_notice>> /\ cli = "compare"
          /\ cli' = IF rb.read_index = buffer_size - 1 THEN "flip" ELSE "inc"
      BY <1>1, <1>6 DEF GetCompare, CliStep
    <2>2. Outstanding' = Outstanding
      BY <1>0, <2>1 DEF Outstanding, Getting
    <2>3. RingOK(rb, o, IF rb.read_index = buffer_size - 1 THEN "flip" ELSE "inc", h, over)
      BY <1>2, <2>1, GetCompareOK
    <2> QED  BY <1>1, <2>1, <2>2, <2>3
  <1>7. CASE GetLoad
    <2>1. PICK g : g = half' /\ g = [mirror |-> rb.read_mirror, index |-> rb.read_index]
      <3>1. half' = [mirror |-> fifo.read_mirror, index |-> fifo.read_index]
        BY <1>7 DEF GetLoad
      <3> QED  BY <1>1, <3>1
    <2>2. /\ UNCHANGED <<fifo, overflowed, rx_notice>>
          /\ \/ cli = "flip" /\ cli' = "flip_store"
             \/ cli = "zero" /\ cli' = "zero_store"
             \/ cli = "inc" /\ cli' = "inc_store"
      BY <1>7 DEF GetLoad, CliStep
    <2>3. Outstanding' = Outstanding
      BY <1>0, <2>2 DEF Outstanding, Getting
    <2>4. /\ RingOK(rb, o, "flip", h, over) => RingOK(rb, o, "flip_store", g, over)
          /\ RingOK(rb, o, "zero", h, over) => RingOK(rb, o, "zero_store", g, over)
          /\ RingOK(rb, o, "inc", h, over) => RingOK(rb, o, "inc_store", g, over)
      BY <2>1, GetLoadOK
    <2>5. RingOK(rb, o, cli', g, over)
      BY <1>2, <2>2, <2>4
    <2> QED  BY <1>1, <2>1, <2>2, <2>3, <2>5
  <1>8. CASE GetStore
    <2>1. /\ h.mirror \in {0, 1} /\ 1 - h.mirror \in {0, 1} /\ h.index \in 0 .. buffer_size - 1
          /\ 0 \in 0 .. buffer_size - 1
          /\ h.index + 1 < buffer_size => h.index + 1 \in 0 .. buffer_size - 1
      BY Size DEF Halves
    <2>2. PICK q, g : q = fifo' /\ g = half'
      OBVIOUS
    <2>3. UNCHANGED <<overflowed, rx_notice>>
      BY <1>8 DEF GetStore
    <2>4. CASE cli = "flip_store"
      <3>1. cli' = "zero" /\ fifo' = [rb EXCEPT !.read_mirror = 1 - h.mirror, !.read_index = h.index]
        BY <1>1, <1>8, <2>4 DEF GetStore
      <3>2. Stored(q, rb, 1 - h.mirror, h.index)
        BY <2>1, <2>2, <3>1, StoreFields
      <3>3. RingOK(q, o, "zero", g, over)
        BY <1>2, <2>4, <3>2, FlipStoreOK
      <3>4. Outstanding' = Outstanding
        BY <1>0, <2>3, <2>4, <3>1 DEF Outstanding, Getting
      <3> QED  BY <1>1, <2>2, <2>3, <3>1, <3>3, <3>4
    <2>5. CASE cli = "zero_store"
      <3>1. cli' = "print" /\ fifo' = [rb EXCEPT !.read_mirror = h.mirror, !.read_index = 0]
        BY <1>1, <1>8, <2>5 DEF GetStore
      <3>2. Stored(q, rb, h.mirror, 0)
        BY <2>1, <2>2, <3>1, StoreFields
      <3>3. RingOK(q, o - 1, "print", g, over)
        BY <1>2, <2>5, <3>2, ZeroStoreOK
      <3>4. Outstanding' = o - 1
        BY <1>0, <1>1, <2>3, <2>5, <3>1 DEF Outstanding, Getting
      <3> QED  BY <1>1, <2>2, <2>3, <3>1, <3>3, <3>4
    <2>6. CASE cli = "inc_store"
      <3>1. /\ cli' = "print" /\ h.index + 1 < buffer_size
            /\ fifo' = [rb EXCEPT !.read_mirror = h.mirror, !.read_index = h.index + 1]
        BY <1>1, <1>8, <2>6 DEF GetStore
      <3>2. Stored(q, rb, h.mirror, h.index + 1)
        BY <2>1, <2>2, <3>1, StoreFields
      <3>3. RingOK(q, o - 1, "print", g, over)
        BY <1>2, <2>6, <3>1, <3>2, IncStoreOK
      <3>4. Outstanding' = o - 1
        BY <1>0, <1>1, <2>3, <2>6, <3>1 DEF Outstanding, Getting
      <3> QED  BY <1>1, <2>2, <2>3, <3>1, <3>3, <3>4
    <2> QED  BY <1>8, <2>4, <2>5, <2>6 DEF GetStore
  <1>9. CASE GetStoreOutside
    <2>1. UNCHANGED <<fifo, half, cli, overflowed, rx_notice>>
      BY <1>9 DEF GetStoreOutside
    <2>2. Outstanding' = Outstanding
      BY <1>0, <2>1 DEF Outstanding, Getting
    <2> QED  BY <1>1, <1>2, <2>1, <2>2
  <1>10. CASE Kprintf
    <2>1. UNCHANGED <<fifo, half, overflowed, rx_notice>> /\ cli = "print" /\ cli' = "take"
      BY <1>10 DEF Kprintf, CliStep
    <2>2. Outstanding' = Outstanding
      BY <1>0, <2>1 DEF Outstanding, Getting
    <2>3. RingOK(rb, o, "take", h, over)
      <3>1. "print" \notin ReadingStates /\ "take" \notin ReadingStates
        BY DEF ReadingStates
      <3> QED  BY <1>2, <2>1, <3>1, IdleRingOK
    <2> QED  BY <1>1, <2>1, <2>2, <2>3
  <1> QED  BY <1>3, <1>4, <1>5, <1>6, <1>7, <1>8, <1>9, <1>10 DEF Cli

\* A release moves a thread that waits, and that only.
LEMMA ReleaseOK ==
  ASSUME TypeInv, NEW n \in Nat \ {0}, Release(n), NEW q, NEW o, NEW over,
         RingOK(q, o, cli, half, over)
  PROVE  RingOK(q, o, cli', half, over)
  <1>1. cli' = IF cli = "waiting" THEN "get" ELSE cli
    BY ReleaseFacts DEF TypeInv
  <1>2. CASE cli = "waiting"
    <2>1. cli \notin ReadingStates /\ cli' \notin ReadingStates
      BY <1>1, <1>2 DEF ReadingStates
    <2> QED  BY <1>1, <2>1, IdleRingOK
  <1>3. CASE cli # "waiting"
    BY <1>1, <1>3
  <1> QED  BY <1>2, <1>3

\* The steps of the handlers, as long as none nests where it tears the indices.
LEMMA IsrRing ==
  ASSUME TypeInv, ShellInv, fifo_state = "live", RingPart, ~torn',
         DmaRxInd \/ IdleRxInd \/ IdleIsr \/ ClientRxInd
  PROVE  RingPart'
  <1> USE DEF shellVars, ringVars, cliVars, isrVars, histVars
  <1>0. /\ fifo \in Rings /\ half \in Halves /\ rx_notice \in Nat /\ Outstanding \in Nat
        /\ cli \in CliStates /\ overflowed \in BOOLEAN /\ came \in Nat /\ unread \in Nat
        /\ space \in Nat /\ held \in Nat /\ isr \in IsrStates
    BY OutstandingFacts DEF TypeInv
  <1>1. fifo' \in Rings
    BY IsrTypes DEF TypeInv
  <1>2. CASE DmaRxInd
    <2>1. PICK n \in 1 .. MaxNew :
            /\ fifo' = PutAll(fifo, unread + n)
            /\ Release(unread + n)
            /\ overflowed' = (overflowed \/ Outstanding + unread + n > buffer_size)
            /\ torn' = (torn \/ Measuring \/ Moving)
      BY <1>2 DEF DmaRxInd, BadRing
    <2>2. PICK k \in Nat \ {0} : k = unread + n /\ Outstanding + k = Outstanding + unread + n
      BY <1>0, CliAssumption
    <2>3. /\ isr \notin MovingStates \cup {"mirrors", "order", "ahead", "behind"}
          /\ isr' = isr
      BY <1>2, <2>1 DEF DmaRxInd, Measuring, Moving, MovingStates
    <2>4. RingOK(fifo, Outstanding, cli, half, overflowed)
      BY <1>0, <2>3, Still DEF RingPart
    <2>5. RingOK(PutAll(fifo, k), Outstanding + k, cli, half,
                 overflowed \/ Outstanding + k > buffer_size)
      BY <1>0, <2>4, PutAllKeeps
    <2>6. RingOK(PutAll(fifo, k), Outstanding + k, cli', half,
                 overflowed \/ Outstanding + k > buffer_size)
      BY <2>1, <2>2, <2>5, ReleaseOK
    <2>7. Outstanding' = Outstanding + k /\ Outstanding' \in Nat
      BY <1>0, <2>1, <2>2, <2>3, ReleaseFacts
    <2>8. fifo' = PutAll(fifo, k) /\ UNCHANGED <<half, space>>
      BY <1>2, <2>1, <2>2 DEF DmaRxInd
    <2>9. Ring' = fifo' /\ Count' = Outstanding'
      BY <1>1, <2>3, <2>7, StillNext
    <2>10. RingOK(Ring', Count', cli', half', overflowed')
      BY <2>1, <2>2, <2>6, <2>7, <2>8, <2>9
    <2>11. isr' \in Measured /\ space' = 0 => is_full(fifo')
      BY <1>0, <2>3, <2>8, PutAllFull DEF RingPart
    <2> QED  BY <2>3, <2>10, <2>11 DEF RingPart
  <1>3. ASSUME UNCHANGED <<rx_notice, cli, half, overflowed>>, SameIndices(fifo', fifo),
               isr \notin MovingStates \cup {"release"},
               isr' \notin MovingStates \cup {"release"}
        PROVE  RingOK(Ring', Count', cli', half', overflowed') /\ (is_full(fifo') <=> is_full(fifo))
    <2>1. Outstanding' = Outstanding
      BY <1>3 DEF Outstanding, Getting
    <2>2. RingOK(fifo, Outstanding, cli, half, overflowed)
      BY <1>0, <1>3, Still DEF RingPart
    <2>3. PICK q : q = fifo'
      OBVIOUS
    <2>4. RingOK(q, Outstanding, cli, half, overflowed) /\ (is_full(q) <=> is_full(fifo))
      BY <1>3, <2>2, <2>3, SameRing
    <2>5. Ring' = fifo' /\ Count' = Outstanding'
      BY <1>0, <1>1, <1>3, <2>1, StillNext
    <2> QED  BY <1>3, <2>1, <2>3, <2>4, <2>5
  <1>4. CASE IdleRxInd \/ IdleRead \/ ClientRxInd
    <2>1. UNCHANGED <<fifo, rx_notice, cli, half, overflowed>>
      BY <1>4 DEF IdleRxInd, IdleRead, ClientRxInd
    <2>2. isr \in {"none", "read"} /\ isr' \in {"none", "read", "put"}
      BY <1>4 DEF IdleRxInd, IdleRead, ClientRxInd
    <2>3. SameIndices(fifo', fifo)
      BY <2>1 DEF SameIndices
    <2>4. RingOK(Ring', Count', cli', half', overflowed')
      BY <1>3, <2>1, <2>2, <2>3 DEF MovingStates
    <2> QED  BY <2>2, <2>4 DEF RingPart, Measured
  <1>5. CASE IdleSpace \/ IdleMirrors \/ IdleOrder \/ IdleLen \/ IdleTest \/ IdleCopy \/ IdleCopyRest
    <2>1. UNCHANGED <<rx_notice, cli, half, overflowed>>
      BY <1>5, PutLeaves DEF IdlePut, IdleBegin, IdleStep, IdleSpace, IdleMirrors, IdleOrder,
                             IdleLen, IdleTest, IdleCopy, IdleCopyRest
    <2>2. SameIndices(fifo', fifo)
      <3>1. CASE IdleCopy
        BY <1>0, <3>1, Written DEF IdleCopy, Wrote
      <3>2. CASE ~IdleCopy
        BY <1>5, <3>2 DEF IdleSpace, IdleMirrors, IdleOrder, IdleLen, IdleTest, IdleCopyRest,
                          SameIndices
      <3> QED  BY <3>1, <3>2
    <2>3. /\ isr \notin MovingStates \cup {"release"}
          /\ isr' \notin MovingStates \cup {"release"}
      BY <1>5 DEF IdleStep, IdleSpace, IdleMirrors, IdleOrder, IdleLen, IdleTest, IdleCopy,
                  IdleCopyRest, MovingStates
    <2>4. RingOK(Ring', Count', cli', half', overflowed') /\ (is_full(fifo') <=> is_full(fifo))
      BY <1>3, <2>1, <2>2, <2>3
    <2>5. isr' \in Measured /\ space' = 0 => is_full(fifo)
      <3>1. CASE IdleSpace \/ IdleOrder \/ IdleLen
        <4>1. CASE IdleLen
          <5>1. isr \in {"ahead", "behind"}
            BY <4>1 DEF IdleLen, IdleStep
          <5> QED  BY <1>0, <4>1, <5>1, LenFound DEF RingPart
        <4> QED  BY <3>1, <4>1 DEF IdleSpace, IdleOrder, IdleStep, Measured
      <3>2. CASE IdleMirrors
        <4>1. fifo.read_index = fifo.write_index /\ space' # buffer_size => is_full(fifo)
          BY <3>2 DEF IdleMirrors, is_full
        <4> QED  BY <3>2, <4>1, Size DEF IdleMirrors, IdleStep, RingPart
      <3>3. CASE IdleTest \/ IdleCopy \/ IdleCopyRest
        BY <3>3 DEF IdleTest, IdleCopy, IdleCopyRest, IdleStep, RingPart, Measured
      <3> QED  BY <1>5, <3>1, <3>2, <3>3
    <2>6. /\ isr' = "mirrors" => fifo'.read_index = fifo'.write_index
          /\ isr' \in {"order", "ahead", "behind"} => fifo'.read_index # fifo'.write_index
      BY <1>5 DEF IdleStep, IdleSpace, IdleMirrors, IdleOrder, IdleLen, IdleTest, IdleCopy,
                  IdleCopyRest, RingPart
    <2> QED  BY <2>4, <2>5, <2>6 DEF RingPart
  <1>6. CASE IdleBegin
    <2>1. /\ overflowed' = (overflowed \/ Outstanding + 1 > buffer_size)
          /\ UNCHANGED <<half, cli>>
          /\ isr \in {"inc", "flip"} /\ isr' \in {"inc_store", "flip_store"}
      BY <1>6 DEF IdleBegin, IdleStep
    <2>2. ASSUME Straight' PROVE RingOK(Ring', Count', cli', half', overflowed')
      <3>1. /\ Ring = fifo /\ Count = Outstanding
            /\ Ring' = put_advance(fifo, space) /\ Count' = Outstanding + 1
        BY <1>6, <2>2, BeginRing
      <3>2. RingOK(fifo, Outstanding, cli, half, overflowed)
        BY <1>0, <2>1, <3>1, Still DEF RingPart, MovingStates
      <3>3. Advanced(put_advance(fifo, space), fifo, space)
        BY <1>0, PutFields
      <3>4. space = 0 => is_full(fifo)
        BY <2>1 DEF RingPart, Measured
      <3>5. RingOK(put_advance(fifo, space), Outstanding + 1, cli, half,
                   overflowed \/ Outstanding + 1 > buffer_size)
        BY <1>0, <3>2, <3>3, <3>4, PutKeeps
      <3> QED  BY <2>1, <3>1, <3>5
    <2> QED  BY <2>1, <2>2 DEF RingPart, Measured
  <1>7. CASE IdleLoad \/ IdleStore
    <2>1. /\ Ring' = Ring /\ Count' = Count /\ (Straight' => Straight)
          /\ isr' \in MovingStates \cup {"release"}
      BY <1>7, MoveKeeps
    <2>2. UNCHANGED <<cli, half, overflowed>>
      BY <1>7 DEF IdleLoad, IdleStore
    <2> QED  BY <2>1, <2>2 DEF RingPart, Measured, MovingStates
  <1>8. CASE IdleOutside
    <2>1. UNCHANGED <<Ring, Count, Straight, cli, half, overflowed, fifo, isr, space>>
      BY <1>8 DEF IdleOutside, Ring, Count, Straight, Outstanding, Getting, Moving
    <2> QED  BY <2>1 DEF RingPart
  <1>9. CASE IdleRelease
    <2>1. /\ isr = "release" /\ isr' = "read" /\ Release(1)
          /\ UNCHANGED <<fifo, half, overflowed>>
      BY <1>9 DEF IdleRelease, IdleStep
    <2>2. RingOK(fifo, Outstanding, cli, half, overflowed)
      BY <1>0, <2>1, Still DEF RingPart, MovingStates
    <2>3. RingOK(fifo, Outstanding, cli', half, overflowed)
      BY <2>1, <2>2, ReleaseOK
    <2>4. Outstanding' = Outstanding
      BY <1>0, <2>1, ReleaseFacts
    <2>5. Ring' = fifo' /\ Count' = Outstanding'
      BY <1>0, <1>1, <2>1, <2>4, StillNext DEF MovingStates
    <2> QED  BY <2>1, <2>3, <2>4, <2>5 DEF RingPart, Measured
  <1> QED  BY <1>2, <1>4, <1>5, <1>6, <1>7, <1>8, <1>9 DEF IdleIsr, IdlePut

LEMMA FreshRing ==
  ASSUME NEW b, NEW o \in Nat, NEW c, c \notin ReadingStates, NEW h, NEW over
  PROVE  RingOK(init(b), o, c, h, over)
  <1>1. /\ init(b).read_mirror = 0 /\ init(b).read_index = 0
        /\ init(b).write_mirror = 0 /\ init(b).write_index = 0
    BY DEF init
  <1>2. data_len(init(b)) = 0 /\ Ahead(Wr(init(b)), Rd(init(b))) = 0
    BY <1>1 DEF data_len, is_empty, Ahead, Wr, Rd, At
  <1> QED  BY <1>2 DEF RingOK, ReadingStates

LEMMA RingKept ==
  ASSUME TypeInv, ShellInv, RingInv, [Next]_vars
  PROVE  RingInv'
  <1> USE DEF shellVars, ringVars, cliVars, isrVars, histVars
  <1>0. InUse /\ ~torn => RingPart
    BY DEF RingInv
  <1> SUFFICES ASSUME InUse', ~torn' PROVE RingPart'
    BY DEF RingInv
  <1>1. rx_notice \in Nat /\ Outstanding \in Nat /\ fifo \in Rings /\ fifo' \in Rings
    BY TypesKept, OutstandingFacts DEF TypeInv
  <1>2. ASSUME isr = "none", isr' = "none",
               RingOK(fifo', Outstanding', cli', half', overflowed')
        PROVE  RingPart'
    <2>1. isr' \notin MovingStates
      BY <1>2 DEF MovingStates
    <2>2. Ring' = fifo' /\ Count' = Outstanding'
      BY <1>1, <2>1, StillNext
    <2> QED  BY <1>2, <2>2 DEF RingPart, Measured
  <1>3. CASE Cli \/ DmaRxInd \/ IdleRxInd \/ IdleIsr \/ ClientRxInd
    <2>1. InUse /\ fifo_state = "live"
      BY <1>3, OthersKeepShell DEF InUse
    <2>2. ~torn
      <3>1. CASE Cli
        BY <3>1 DEF Cli, CliStep, SemTake, GetLen, GetCopy, GetCompare, GetLoad, GetStore,
                    GetStoreOutside, Kprintf
      <3>2. CASE DmaRxInd \/ IdleRxInd \/ ClientRxInd \/ IdleRead \/ IdleRelease
        BY <3>2 DEF DmaRxInd, IdleRxInd, ClientRxInd, IdleRead, IdleRelease
      <3> QED  BY <1>3, <3>1, <3>2, PutLeaves DEF IdleIsr
    <2>3. RingPart
      BY <1>0, <2>1, <2>2
    <2>4. CASE Cli
      <3>1. isr = "none" /\ isr' = "none"
        BY <2>4 DEF Cli, CliStep, CliRuns, SemTake, GetLen, GetCopy, GetCompare, GetLoad,
                    GetStore, GetStoreOutside, Kprintf
      <3>2. RingOK(fifo, Outstanding, cli, half, overflowed)
        BY <1>1, <2>3, <3>1, Still DEF RingPart, MovingStates
      <3>3. RingOK(fifo', Outstanding', cli', half', overflowed')
        BY <2>4, <3>2, CliRing
      <3> QED  BY <1>2, <3>1, <3>3
    <2> QED  BY <1>3, <2>1, <2>3, <2>4, IsrRing
  <1>4. CASE FifoCreate
    <2>1. /\ fifo' = init(fifo.buffer) /\ UNCHANGED <<rx_notice, cli, half, overflowed, isr>>
          /\ isr = "none" /\ cli \notin ReadingStates
      BY <1>4 DEF FifoCreate, InUse, ShellStep, ShellRuns, ReadingStates
    <2>2. Outstanding' = Outstanding
      BY <2>1 DEF Outstanding, Getting
    <2>3. RingOK(init(fifo.buffer), Outstanding, cli, half, overflowed)
      BY <1>1, <2>1, FreshRing
    <2> QED  BY <1>1, <1>2, <2>1, <2>2, <2>3
  <1>5. CASE ThreadCreate
    <2>1. /\ UNCHANGED <<fifo, rx_notice, half, overflowed, isr, torn>> /\ isr = "none"
          /\ cli \in {"none", "created", "waiting"} /\ cli' \in {"none", "created", "take"}
          /\ InUse
      BY <1>5 DEF ThreadCreate, InUse, ShellRuns
    <2>2. Outstanding' = Outstanding
      BY <2>1 DEF Outstanding, Getting
    <2>3. cli \notin ReadingStates /\ cli' \notin ReadingStates
      BY <2>1 DEF ReadingStates
    <2>4. RingOK(fifo, Outstanding, cli, half, overflowed)
      BY <1>0, <1>1, <2>1, Still DEF RingPart, MovingStates
    <2>5. RingOK(fifo, Outstanding, cli', half, overflowed)
      BY <2>3, <2>4, IdleRingOK
    <2> QED  BY <1>1, <1>2, <2>1, <2>2, <2>5
  <1>6. CASE RestoreStatus \/ RestoreRxInd \/ UNCHANGED vars
    <2>1. /\ UNCHANGED <<fifo, rx_notice, cli, half, overflowed, isr, space, word, torn>>
          /\ InUse
      BY <1>6 DEF RestoreStatus, RestoreRxInd, vars, InUse, ShellStep
    <2>2. UNCHANGED <<Ring, Count, Straight>>
      BY <2>1 DEF Ring, Count, Straight, Outstanding, Getting, Moving
    <2> QED  BY <1>0, <2>1, <2>2 DEF RingPart
  <1>7. CASE BackupStatus \/ BackupRxInd \/ SemInit \/ ThreadDelete \/ FifoDestroy
    BY <1>7 DEF BackupStatus, BackupRxInd, SemInit, ThreadDelete, FifoDestroy, ShellStep, InUse
  <1> QED  BY <1>3, <1>4, <1>5, <1>6, <1>7 DEF Next, Shell

\* The branch of a put stays right until the DMA handler nests in it.
LEMMA BranchKept ==
  ASSUME TypeInv, ShellInv, BranchInv, [Next]_vars
  PROVE  BranchInv'
  <1> USE DEF shellVars, ringVars, cliVars, isrVars, histVars
  <1>0. fifo \in Rings /\ fifo' \in Rings
    BY TypesKept DEF TypeInv
  <1>1. ASSUME isr' \in {"none", "read", "put", "mirrors", "order", "ahead", "behind", "test",
                         "release"},
               torn' => nested'
        PROVE  BranchInv'
    <2>1. Straight'
      BY <1>0, <1>1, StillNext DEF MovingStates
    <2> QED  BY <1>1, <2>1 DEF BranchInv
  <1>2. CASE Shell
    <2> USE DEF ShellStep, ShellRuns
    <2>1. CASE BackupStatus \/ BackupRxInd \/ SemInit \/ RestoreStatus \/ RestoreRxInd
      <3>1. isr' = "none" /\ UNCHANGED <<torn, nested>>
        BY <2>1 DEF BackupStatus, BackupRxInd, SemInit, RestoreStatus, RestoreRxInd
      <3> QED  BY <1>1, <3>1 DEF BranchInv
    <2>2. CASE ThreadCreate \/ ThreadDelete \/ FifoDestroy
      <3>1. isr' = "none" /\ UNCHANGED <<torn, nested>>
        BY <2>2 DEF ThreadCreate, ThreadDelete, FifoDestroy
      <3> QED  BY <1>1, <3>1 DEF BranchInv
    <2>3. CASE FifoCreate
      <3>1. isr' = "none" /\ torn' = FALSE
        BY <2>3 DEF FifoCreate
      <3> QED  BY <1>1, <3>1
    <2> QED  BY <1>2, <2>1, <2>2, <2>3 DEF Shell
  <1>3. CASE Cli
    <2>1. isr' = "none" /\ UNCHANGED <<torn, nested>>
      BY <1>3 DEF Cli, CliStep, CliRuns, SemTake, GetLen, GetCopy, GetCompare, GetLoad,
                  GetStore, GetStoreOutside, Kprintf
    <2> QED  BY <1>1, <2>1 DEF BranchInv
  <1>4. CASE DmaRxInd
    <2>1. CASE BadRing
      <3>1. UNCHANGED <<torn, nested>> /\ isr \in {"none", "read"} /\ isr' = isr
        BY <1>4, <2>1 DEF DmaRxInd, BadRing, ShellInv
      <3> QED  BY <1>1, <3>1 DEF BranchInv
    <2>2. CASE ~BadRing
      <3>1. /\ nested' = (nested \/ isr \notin {"none", "read"})
            /\ torn' = (torn \/ Measuring \/ Moving) /\ isr' = isr
        BY <1>4, <2>2 DEF DmaRxInd
      <3>2. torn' => nested'
        BY <3>1 DEF BranchInv, Measuring, Moving
      <3>3. CASE isr \in {"none", "read"}
        BY <1>1, <3>1, <3>2, <3>3
      <3>4. CASE isr \notin {"none", "read"}
        BY <3>1, <3>4 DEF BranchInv
      <3> QED  BY <3>3, <3>4
    <2> QED  BY <2>1, <2>2
  <1>5. CASE IdleRxInd \/ ClientRxInd \/ IdleRead \/ IdleRelease
    <2>1. isr' \in {"none", "read", "put"} /\ UNCHANGED <<torn, nested>>
      BY <1>5 DEF IdleRxInd, ClientRxInd, IdleRead, IdleRelease, IdleStep
    <2> QED  BY <1>1, <2>1 DEF BranchInv
  <1>6. CASE IdlePut
    <2>0. UNCHANGED <<torn, nested>>
      BY <1>6, PutLeaves
    <2>1. CASE IdleSpace \/ IdleMirrors \/ IdleOrder \/ IdleLen
      <3>1. isr' \in {"mirrors", "order", "ahead", "behind", "test"}
        BY <2>1 DEF IdleSpace, IdleMirrors, IdleOrder, IdleLen, IdleStep
      <3> QED  BY <1>1, <2>0, <3>1 DEF BranchInv
    <2>2. CASE IdleTest
      <3>1. /\ isr' = IF buffer_size - fifo.write_index > 1 THEN "copy" ELSE "copy_wrap"
            /\ UNCHANGED fifo
        BY <2>2 DEF IdleTest, IdleStep
      <3>2. /\ isr' = "copy" => fifo'.write_index # buffer_size - 1
            /\ isr' = "copy_wrap" => fifo'.write_index = buffer_size - 1
        <4>1. PICK n, w : /\ n = buffer_size /\ w = fifo.write_index
                          /\ n \in Nat \ {0} /\ w \in 0 .. n - 1
          BY <1>0, RingFields, Size
        <4>2. n - w > 1 <=> w # n - 1
          BY <4>1
        <4> QED  BY <3>1, <4>1, <4>2
      <3>3. Straight'
        BY <1>0, <3>1, StillNext DEF MovingStates
      <3> QED  BY <2>0, <3>1, <3>2, <3>3 DEF BranchInv
    <2>3. CASE IdleCopy \/ IdleCopyRest
      <3>1. /\ \/ isr = "copy" /\ isr' = "inc" /\ IdleCopy
               \/ isr = "copy_wrap" /\ isr' = "copy_rest" /\ IdleCopy
               \/ isr = "copy_rest" /\ isr' = "flip" /\ ~IdleCopy
        BY <2>3 DEF IdleCopy, IdleCopyRest, IdleStep
      <3>2. fifo'.write_index = fifo.write_index
        <4>1. CASE IdleCopy
          <5>1. fifo' = [fifo EXCEPT !.buffer[fifo.write_index] = held] /\ held \in Nat
            BY <4>1 DEF IdleCopy, TypeInv
          <5> QED  BY <1>0, <5>1, Written DEF Wrote, SameIndices
        <4>2. CASE IdleCopyRest
          BY <4>2 DEF IdleCopyRest
        <4> QED  BY <2>3, <4>1, <4>2
      <3>3. Straight'
        BY <1>0, <3>1, StillNext DEF MovingStates
      <3> QED  BY <2>0, <3>1, <3>2, <3>3 DEF BranchInv
    <2>4. CASE IdleBegin
      <3>1. /\ word' = [mirror |-> fifo.write_mirror, index |-> fifo.write_index]
            /\ \/ isr = "inc" /\ isr' = "inc_store"
               \/ isr = "flip" /\ isr' = "flip_store"
            /\ UNCHANGED fifo
        BY <2>4 DEF IdleBegin, IdleStep
      <3>2. word'.index = fifo.write_index
        BY <3>1
      <3>3. ~nested => StraightAt(fifo', isr', word')
        BY <3>1, <3>2 DEF BranchInv, StraightAt
      <3> QED  BY <2>0, <3>1, <3>3 DEF BranchInv, Straight
    <2>5. CASE IdleLoad \/ IdleStore
      <3>1. isr \in MovingStates /\ isr' \in MovingStates \cup {"release"}
        BY <2>5, MoveKeeps
      <3>2. ~nested => Straight'
        <4>1. CASE isr = "zero" /\ IdleLoad
          <5>1. /\ isr' = "zero_store"
                /\ word' = [mirror |-> fifo.write_mirror, index |-> fifo.write_index]
            BY <4>1 DEF IdleLoad, IdleStep
          <5>2. word'.index = fifo.write_index
            BY <5>1
          <5> QED  BY <4>1, <5>1, <5>2 DEF BranchInv, Straight, StraightAt
        <4>2. CASE isr = "flip_store"
          <5>1. /\ isr' = "zero"
                /\ fifo' = [fifo EXCEPT !.write_mirror = 1 - word.mirror,
                                        !.write_index = word.index]
            BY <2>5, <4>2 DEF IdleLoad, IdleStore, IdleStep
          <5>2. fifo'.write_index = word.index
            <6>1. 1 - word.mirror \in {0, 1} /\ word.index \in 0 .. buffer_size - 1
              BY Size DEF TypeInv, Halves
            <6>2. Pushed(fifo', fifo, 1 - word.mirror, word.index)
              BY <1>0, <5>1, <6>1, PushFields
            <6> QED  BY <6>2 DEF Pushed
          <5> QED  BY <4>2, <5>1, <5>2 DEF BranchInv, Straight, StraightAt
        <4>3. CASE ~(isr = "zero" /\ IdleLoad) /\ isr # "flip_store"
          <5>1. isr' \notin {"inc_store", "flip_store", "zero", "zero_store"}
            BY <2>5, <4>3 DEF IdleLoad, IdleStore, IdleStep
          <5> QED  BY <5>1 DEF Straight, StraightAt
        <4> QED  BY <4>1, <4>2, <4>3
      <3>3. isr' \notin {"copy", "inc", "copy_wrap", "copy_rest", "flip"}
        BY <3>1 DEF MovingStates
      <3> QED  BY <2>0, <3>2, <3>3 DEF BranchInv
    <2>6. CASE IdleOutside
      <3>1. UNCHANGED <<isr, fifo, word>>
        BY <2>6 DEF IdleOutside
      <3> QED  BY <2>0, <3>1 DEF BranchInv, Straight
    <2> QED  BY <1>6, <2>1, <2>2, <2>3, <2>4, <2>5, <2>6 DEF IdlePut
  <1>7. CASE UNCHANGED vars
    BY <1>7 DEF vars, BranchInv, Straight
  <1> QED  BY <1>2, <1>3, <1>4, <1>5, <1>6, <1>7 DEF Next, IdleIsr

LEMMA StopKept ==
  ASSUME TypeInv, ShellInv, SessionInv, BranchInv, RingInv, StopInv, [Next]_vars
  PROVE  StopInv'
  <1> USE DEF shellVars, ringVars, cliVars, isrVars, histVars
  <1>1. CASE Shell
    <2>1. stopped = "no" /\ stopped' = "no"
      BY <1>1 DEF Shell, ShellStep, ShellRuns, BackupStatus, BackupRxInd, SemInit, FifoCreate,
                  ThreadCreate, RestoreStatus, RestoreRxInd, ThreadDelete, FifoDestroy
    <2> QED  BY <2>1 DEF StopInv
  <1>2. CASE GetStoreOutside
    <2>1. /\ cli = "inc_store" /\ half.index + 1 = buffer_size
          /\ stopped' = "outside" /\ UNCHANGED <<overflowed, nested>> /\ isr = "none"
      BY <1>2 DEF GetStoreOutside, CliRuns
    <2>2. half.index = buffer_size - 1
      BY <2>1, Size DEF TypeInv, Halves
    <2>3. InUse
      BY <2>1 DEF ShellInv, InUse
    <2>4. Straight
      BY <2>1 DEF Straight, StraightAt
    <2>5. torn \/ overflowed
      BY <2>1, <2>2, <2>3, <2>4 DEF RingInv, RingPart, RingOK
    <2> QED  BY <2>1, <2>5 DEF StopInv, BranchInv
  <1>3. CASE Cli /\ ~GetStoreOutside
    <2>1. stopped = "no" /\ stopped' = "no"
      BY <1>3 DEF Cli, CliStep, CliRuns, SemTake, GetLen, GetCopy, GetCompare, GetLoad,
                  GetStore, Kprintf
    <2> QED  BY <2>1 DEF StopInv
  <1>4. CASE DmaRxInd \/ IdleRead
    <2>1. \/ stopped' = "no"
          \/ BadRing /\ Stop
      BY <1>4 DEF DmaRxInd, IdleRead
    <2>2. UNCHANGED <<shell, sessions, fifo_state, failed>> /\ rx_indicate = "cli"
      BY <1>4, OthersKeepShell DEF DmaRxInd, IdleRead, IdleIsr, ShellInv
    <2>3. CASE BadRing /\ Stop
      <3>1. /\ fifo_state # "live"
            /\ stopped' = IF fifo_state = "null" THEN "assert" ELSE "wild"
        BY <2>3 DEF BadRing, Stop
      <3>2. failed \/ shell \in {"sem", "fifo"} \/ (shell = "thread" /\ fifo_state = "null")
        BY <2>2, <3>1 DEF ShellInv, HomeRxInd
      <3>3. fifo_state = "freed" => sessions > 1
        BY <2>2 DEF SessionInv, ShellInv, HomeRxInd
      <3> QED  BY <2>2, <3>1, <3>2, <3>3 DEF StopInv, SessionInv
    <2>4. CASE stopped' = "no"
      BY <2>4 DEF StopInv
    <2> QED  BY <2>1, <2>3, <2>4
  <1>5. CASE IdleOutside
    <2>1. /\ stopped' = "outside" /\ UNCHANGED nested
          /\ \/ isr \in {"copy_wrap", "copy_rest"} /\ fifo.write_index # buffer_size - 1
             \/ isr = "inc_store" /\ word.index = buffer_size - 1
             \/ isr = "zero_store" /\ word.index # buffer_size - 1
      BY <1>5 DEF IdleOutside
    <2>2. nested
      BY <2>1 DEF BranchInv, Straight, StraightAt
    <2> QED  BY <2>1, <2>2 DEF StopInv
  <1>6. CASE IdleRxInd \/ IdleRelease \/ ClientRxInd \/ (IdlePut /\ ~IdleOutside)
    <2>1. stopped' = "no"
      BY <1>6, PutLeaves DEF IdleRxInd, IdleRelease, IdleStep, ClientRxInd
    <2> QED  BY <2>1 DEF StopInv
  <1>7. CASE UNCHANGED vars
    BY <1>7 DEF vars, StopInv
  <1> QED  BY <1>1, <1>2, <1>3, <1>4, <1>5, <1>6, <1>7 DEF Next, Cli, IdleIsr, IdlePut

----------------------------------------------------------------------------
(* The bytes and their order                                                *)

LEMMA ExactIdle ==
  ASSUME NEW rb, NEW o, NEW c, NEW h, NEW d, NEW g,
         c \notin ReadingStates, d \notin ReadingStates, Exact(rb, o, c, h)
  PROVE  Exact(rb, o, d, g)
  BY DEF Exact, ReadingStates

\* getchar finds a byte for every notice.
LEMMA GetLenExact ==
  ASSUME NEW rb \in Rings, NEW h \in Halves, NEW o \in Nat \ {0}, Exact(rb, o, "get", h)
  PROVE  data_len(rb) # 0 /\ Exact(rb, o, "copy", h)
  <1>1. PICK n, a : n = buffer_size /\ a = Ahead(Wr(rb), Rd(rb)) /\ n \in Nat \ {0}
    BY Size
  <1>2. a = o /\ o <= n
    BY <1>1 DEF Exact, ReadingStates
  <1>3. data_len(rb) # 0
    BY <1>1, <1>2, LenFacts
  <1>4. Wr(rb) \in 0 .. 2 * buffer_size - 1 /\ Rd(rb) \in 0 .. 2 * buffer_size - 1
    BY LenFacts
  <1>5. Ahead(Wr(rb), After(Rd(rb))) = IF a = 0 THEN 2 * buffer_size - 1 ELSE a - 1
    BY <1>1, <1>4, AheadAfter
  <1>6. Ahead(Wr(rb), Target(rb, "copy", h)) = o - 1
    BY <1>2, <1>5 DEF Target
  <1> QED  BY <1>1, <1>2, <1>3, <1>6 DEF Exact, ReadingStates

LEMMA GetCompareExact ==
  ASSUME NEW rb \in Rings, NEW h \in Halves, NEW o \in Nat
  PROVE  /\ Exact(rb, o, "copy", h) => Exact(rb, o, "compare", h)
         /\ Exact(rb, o, "compare", h) =>
              Exact(rb, o, IF rb.read_index = buffer_size - 1 THEN "flip" ELSE "inc", h)
  <1>1. rb.read_index = buffer_size - 1 => At(1 - rb.read_mirror, 0) = After(Rd(rb))
    BY AtStep DEF Rd, Rings
  <1>2. /\ Target(rb, "copy", h) = After(Rd(rb)) /\ Target(rb, "compare", h) = After(Rd(rb))
        /\ Target(rb, "inc", h) = After(Rd(rb))
        /\ Target(rb, "flip", h) = At(1 - rb.read_mirror, 0)
    BY DEF Target
  <1>3. Exact(rb, o, "copy", h) => Exact(rb, o, "compare", h)
    BY <1>2 DEF Exact, ReadingStates
  <1>4. CASE rb.read_index = buffer_size - 1
    BY <1>1, <1>2, <1>3, <1>4 DEF Exact, ReadingStates
  <1>5. CASE rb.read_index # buffer_size - 1
    BY <1>2, <1>3, <1>5 DEF Exact, ReadingStates
  <1> QED  BY <1>4, <1>5

LEMMA GetLoadExact ==
  ASSUME NEW rb \in Rings, NEW h \in Halves, NEW o \in Nat, NEW g,
         g = [mirror |-> rb.read_mirror, index |-> rb.read_index]
  PROVE  /\ Exact(rb, o, "flip", h) => Exact(rb, o, "flip_store", g)
         /\ Exact(rb, o, "zero", h) => Exact(rb, o, "zero_store", g)
         /\ Exact(rb, o, "inc", h) => Exact(rb, o, "inc_store", g)
  <1>1. g.mirror = rb.read_mirror /\ g.index = rb.read_index
    OBVIOUS
  <1>2. /\ Target(rb, "flip_store", g) = Target(rb, "flip", h)
        /\ Target(rb, "zero_store", g) = Target(rb, "zero", h)
        /\ Target(rb, "inc_store", g) = Target(rb, "inc", h)
    BY <1>1 DEF Target, Rd
  <1> QED  BY <1>2 DEF Exact, ReadingStates

LEMMA FlipExact ==
  ASSUME NEW rb \in Rings, NEW h \in Halves, NEW o \in Nat, NEW g, NEW p,
         Exact(rb, o, "flip_store", h), Holds(rb, o, p),
         NEW q, Stored(q, rb, 1 - h.mirror, h.index)
  PROVE  Exact(q, o, "zero", g) /\ Holds(q, o, p)
  <1>1. h.index = rb.read_index
    BY DEF Exact
  <1>2. Wr(q) = Wr(rb) /\ Target(q, "zero", g) = Target(rb, "flip_store", h)
    BY DEF Stored, Wr, Target
  <1>3. q.read_index = rb.read_index /\ q.buffer = rb.buffer
    BY <1>1 DEF Stored
  <1> QED  BY <1>2, <1>3 DEF Exact, Holds, ReadingStates

\* The read index moves on by one: the byte before it is out of the ring.
LEMMA TakenOut ==
  ASSUME NEW rb \in Rings, NEW o \in Nat, NEW p \in Nat, o <= buffer_size, Holds(rb, o, p),
         NEW q, q.buffer = rb.buffer,
         q.read_index = IF rb.read_index = buffer_size - 1 THEN 0 ELSE rb.read_index + 1
  PROVE  Holds(q, o - 1, p + 1)
  <1>1. PICK n, r, s : /\ n = buffer_size /\ r = rb.read_index /\ s = q.read_index
                       /\ n \in Nat \ {0} /\ r \in 0 .. n - 1
                       /\ s = IF r = n - 1 THEN 0 ELSE r + 1
    BY RingFields, Size
  <1> SUFFICES ASSUME NEW i \in 0 .. n - 1, Off(i, s) < o - 1
               PROVE  rb.buffer[i] = p + 1 + 1 + Off(i, s)
    BY <1>1 DEF Holds
  <1>2. Off(i, r) = Off(i, s) + 1 /\ Off(i, r) \in Int /\ Off(i, s) \in Int
    BY <1>1 DEF Off
  <1>3. Off(i, r) < o
    BY <1>2
  <1>4. rb.buffer[i] = p + 1 + Off(i, r)
    BY <1>1, <1>3 DEF Holds
  <1> QED  BY <1>2, <1>4

LEMMA LastStoreExact ==
  ASSUME NEW rb \in Rings, NEW h \in Halves, NEW o \in Nat, NEW g, NEW p \in Nat,
         NEW c \in {"zero_store", "inc_store"}, Exact(rb, o, c, h), Holds(rb, o, p), NEW q,
         c = "zero_store" => Stored(q, rb, h.mirror, 0),
         c = "inc_store" => Stored(q, rb, h.mirror, h.index + 1)
  PROVE  Exact(q, o - 1, "print", g) /\ Holds(q, o - 1, p + 1)
  <1>1. /\ h.mirror = rb.read_mirror /\ h.index = rb.read_index
        /\ c = "zero_store" <=> rb.read_index = buffer_size - 1
        /\ o <= buffer_size /\ Ahead(Wr(rb), Target(rb, c, h)) = o - 1
    BY DEF Exact, ReadingStates
  <1>2. /\ q.buffer = rb.buffer /\ Wr(q) = Wr(rb)
        /\ q.read_index = IF rb.read_index = buffer_size - 1 THEN 0 ELSE rb.read_index + 1
    BY <1>1 DEF Stored, Wr
  <1>3. Rd(q) = Target(rb, c, h)
    <2>1. CASE c = "zero_store"
      BY <2>1 DEF Stored, Rd, Target
    <2>2. CASE c = "inc_store"
      <3>1. At(rb.read_mirror, rb.read_index + 1) = After(At(rb.read_mirror, rb.read_index))
        BY <1>1, <2>2, AtStep DEF Rings
      <3> QED  BY <1>1, <2>2, <3>1 DEF Stored, Rd, Target
    <2> QED  BY <2>1, <2>2
  <1>4. Holds(q, o - 1, p + 1)
    BY <1>1, <1>2, TakenOut
  <1>5. o - 1 <= buffer_size
    BY <1>1, Size
  <1> QED  BY <1>1, <1>2, <1>3, <1>4, <1>5 DEF Exact, ReadingStates

\* The byte that getchar copies is the one after those printed.
LEMMA HeadByte ==
  ASSUME NEW rb \in Rings, NEW o \in Nat \ {0}, NEW p \in Nat, Holds(rb, o, p)
  PROVE  rb.buffer[rb.read_index] = p + 1
  <1>1. rb.read_index \in 0 .. buffer_size - 1 /\ rb.read_index \in Int
    BY Size DEF Rings
  <1>2. Off(rb.read_index, rb.read_index) = 0
    BY <1>1 DEF Off
  <1> QED  BY <1>1, <1>2 DEF Holds

\* The steps of the thread, which runs when no handler does.
LEMMA CliOrder ==
  ASSUME TypeInv, OrderPart, Cli
  PROVE  OrderPart'
  <1> USE DEF shellVars, ringVars, cliVars, isrVars, histVars
  <1>0. /\ fifo \in Rings /\ half \in Halves /\ rx_notice \in Nat /\ cli \in CliStates
        /\ came \in Nat /\ printed \in Nat /\ Outstanding \in Nat
    BY OutstandingFacts DEF TypeInv
  <1>1. isr = "none" /\ isr' = "none" /\ came' = came
    BY DEF Cli, CliStep, CliRuns, SemTake, GetLen, GetCopy, GetCompare, GetLoad,
           GetStore, GetStoreOutside, Kprintf
  <1>2. PICK rb \in Rings, h \in Halves, o \in Nat, p \in Nat :
          rb = fifo /\ h = half /\ o = Outstanding /\ p = printed
    BY <1>0
  <1>3. /\ Exact(rb, o, cli, h) /\ came = p + InHand + o
        /\ Holds(rb, o, p + InHand)
        /\ cli \in {"print"} \cup (ReadingStates \ {"copy"}) => ch = p + 1
    <2>1. Ring = rb /\ Count = o
      BY <1>0, <1>1, <1>2, Still DEF MovingStates
    <2>2. Pending = 0 /\ ~Overwrites /\ InHand \in {0, 1}
      BY <1>1 DEF Pending, Overwrites, Holding, Measured, Copied, InHand
    <2>3. came = p + InHand + o + 0
      BY <1>2, <2>1, <2>2 DEF OrderPart
    <2> QED  BY <1>2, <2>1, <2>2, <2>3 DEF OrderPart
  <1>4. ASSUME NEW q, NEW d, NEW g, NEW u, NEW v, NEW w,
               q = fifo', d = cli', g = half', u = Outstanding', v = printed', w = ch',
               Exact(q, u, d, g), came = v + (IF d = "print" THEN 1 ELSE 0) + u, u \in Nat, v \in Nat,
               Holds(q, u, v + (IF d = "print" THEN 1 ELSE 0)),
               d \in {"print"} \cup (ReadingStates \ {"copy"}) => w = v + 1
        PROVE  OrderPart'
    <2>1. InHand' = IF d = "print" THEN 1 ELSE 0
      BY <1>4 DEF InHand
    <2>2. Pending' = 0 /\ ~Overwrites'
      BY <1>1 DEF Pending, Overwrites, Holding, Measured, Copied
    <2>3. Ring' = q /\ Count' = u
      <3>1. fifo' \in Rings
        BY CliTypes DEF TypeInv
      <3>2. isr' \notin MovingStates
        BY <1>1 DEF MovingStates
      <3>3. Ring' = fifo' /\ Count' = Outstanding'
        BY <3>1, <3>2, StillNext
      <3> QED  BY <1>4, <3>3
    <2>4. came' = printed' + InHand' + Count' + Pending'
      BY <1>1, <1>4, <2>1, <2>2, <2>3
    <2> QED  BY <1>1, <1>4, <2>1, <2>2, <2>3, <2>4 DEF OrderPart, Holding, Measured, Copied
  <1>5. CASE SemTake
    <2>1. /\ UNCHANGED <<fifo, half, printed, ch>> /\ Outstanding' = Outstanding
          /\ cli = "take" /\ cli' \in {"get", "waiting"}
      BY <1>1, <1>0, <1>5 DEF SemTake, Outstanding, Getting
    <2>2. "take" \notin ReadingStates /\ cli' \notin ReadingStates /\ cli' # "print"
      BY <2>1 DEF ReadingStates
    <2>3. Exact(rb, o, cli', h)
      BY <1>3, <2>1, <2>2, ExactIdle
    <2>4. InHand = 0
      BY <2>1 DEF InHand
    <2>5. Holds(rb, o, p) /\ came = p + o
      BY <1>3, <2>4
    <2> QED  BY <1>2, <1>4, <2>1, <2>2, <2>3, <2>5
  <1>6. CASE GetLen
    <2>1. /\ UNCHANGED <<fifo, half, printed, rx_notice>> /\ cli = "get"
          /\ cli' = IF data_len(rb) = 0 THEN "print" ELSE "copy"
      BY <1>2, <1>6 DEF GetLen, CliStep
    <2>2. o \in Nat \ {0} /\ InHand = 0
      BY <1>1, <1>0, <1>2, <2>1 DEF Outstanding, Getting, InHand
    <2>3. data_len(rb) # 0 /\ Exact(rb, o, "copy", h)
      BY <1>3, <2>1, <2>2, GetLenExact
    <2>4. Outstanding' = o /\ cli' = "copy"
      BY <1>1, <1>2, <2>1, <2>3 DEF Outstanding, Getting
    <2>5. Holds(rb, o, p) /\ came = p + o
      BY <1>3, <2>2
    <2> QED  BY <1>2, <1>4, <2>1, <2>3, <2>4, <2>5
  <1>7. CASE GetCopy
    <2>1. /\ UNCHANGED <<fifo, half, printed, rx_notice>> /\ cli = "copy" /\ cli' = "compare"
          /\ ch' = rb.buffer[rb.read_index]
      BY <1>2, <1>7 DEF GetCopy, CliStep
    <2>2. o \in Nat \ {0} /\ InHand = 0 /\ Outstanding' = o
      BY <1>1, <1>0, <1>2, <2>1 DEF Outstanding, Getting, InHand
    <2>3. Exact(rb, o, "compare", h)
      BY <1>3, <2>1, GetCompareExact
    <2>4. Holds(rb, o, p) /\ came = p + o
      BY <1>3, <2>2
    <2>5. ch' = p + 1
      BY <2>1, <2>2, <2>4, HeadByte
    <2> QED  BY <1>2, <1>4, <2>1, <2>2, <2>3, <2>4, <2>5
  <1>8. CASE GetCompare
    <2>1. /\ UNCHANGED <<fifo, half, printed, rx_notice, ch>> /\ cli = "compare"
          /\ cli' = IF rb.read_index = buffer_size - 1 THEN "flip" ELSE "inc"
      BY <1>2, <1>8 DEF GetCompare, CliStep
    <2>2. InHand = 0 /\ Outstanding' = o
      BY <1>1, <1>2, <2>1 DEF Outstanding, Getting, InHand
    <2>3. Exact(rb, o, IF rb.read_index = buffer_size - 1 THEN "flip" ELSE "inc", h)
      BY <1>3, <2>1, GetCompareExact
    <2>4. Holds(rb, o, p) /\ came = p + o
      BY <1>3, <2>2
    <2>5. ch = p + 1 /\ cli' # "print"
      BY <1>3, <2>1 DEF ReadingStates
    <2> QED  BY <1>2, <1>4, <2>1, <2>2, <2>3, <2>4, <2>5
  <1>9. CASE GetLoad
    <2>1. PICK g : g = half' /\ g = [mirror |-> rb.read_mirror, index |-> rb.read_index]
      <3>1. half' = [mirror |-> fifo.read_mirror, index |-> fifo.read_index]
        BY <1>9 DEF GetLoad
      <3> QED  BY <1>2, <3>1
    <2>2. /\ UNCHANGED <<fifo, printed, rx_notice, ch>>
          /\ \/ cli = "flip" /\ cli' = "flip_store"
             \/ cli = "zero" /\ cli' = "zero_store"
             \/ cli = "inc" /\ cli' = "inc_store"
      BY <1>9 DEF GetLoad, CliStep
    <2>3. InHand = 0 /\ Outstanding' = o
      BY <1>1, <1>2, <2>2 DEF Outstanding, Getting, InHand
    <2>4. /\ Exact(rb, o, "flip", h) => Exact(rb, o, "flip_store", g)
          /\ Exact(rb, o, "zero", h) => Exact(rb, o, "zero_store", g)
          /\ Exact(rb, o, "inc", h) => Exact(rb, o, "inc_store", g)
      BY <2>1, GetLoadExact
    <2>5. Exact(rb, o, cli', g)
      BY <1>3, <2>2, <2>4
    <2>6. Holds(rb, o, p) /\ came = p + o
      BY <1>3, <2>3
    <2>7. ch = p + 1 /\ cli' # "print"
      BY <1>3, <2>2 DEF ReadingStates
    <2> QED  BY <1>2, <1>4, <2>1, <2>2, <2>3, <2>5, <2>6, <2>7
  <1>10. CASE GetStore
    <2>1. /\ h.mirror \in {0, 1} /\ 1 - h.mirror \in {0, 1} /\ h.index \in 0 .. buffer_size - 1
          /\ 0 \in 0 .. buffer_size - 1
          /\ h.index + 1 < buffer_size => h.index + 1 \in 0 .. buffer_size - 1
      BY Size DEF Halves
    <2>2. PICK q, g : q = fifo' /\ g = half'
      OBVIOUS
    <2>3. UNCHANGED <<printed, rx_notice, ch>> /\ cli \in {"flip_store", "zero_store", "inc_store"}
      BY <1>10 DEF GetStore
    <2>4. /\ InHand = 0 /\ ch = p + 1
      BY <1>3, <2>3 DEF InHand, ReadingStates
    <2>5. Holds(rb, o, p) /\ came = p + o
      BY <1>3, <2>4
    <2>6. CASE cli = "flip_store"
      <3>1. cli' = "zero" /\ fifo' = [rb EXCEPT !.read_mirror = 1 - h.mirror, !.read_index = h.index]
        BY <1>2, <1>10, <2>6 DEF GetStore
      <3>2. Stored(q, rb, 1 - h.mirror, h.index)
        BY <2>1, <2>2, <3>1, StoreFields
      <3>3. Exact(q, o, "zero", g) /\ Holds(q, o, p)
        BY <1>3, <2>5, <2>6, <3>2, FlipExact
      <3>4. Outstanding' = o
        BY <1>1, <1>2, <2>3, <2>6, <3>1 DEF Outstanding, Getting
      <3> QED  BY <1>2, <1>4, <2>2, <2>3, <2>4, <2>5, <3>1, <3>3, <3>4
    <2>7. CASE cli # "flip_store"
      <3>1. /\ cli' = "print"
            /\ cli = "zero_store" =>
                 fifo' = [rb EXCEPT !.read_mirror = h.mirror, !.read_index = 0]
            /\ cli = "inc_store" =>
                 /\ h.index + 1 < buffer_size
                 /\ fifo' = [rb EXCEPT !.read_mirror = h.mirror, !.read_index = h.index + 1]
        BY <1>2, <1>10, <2>7 DEF GetStore
      <3>2. /\ cli = "zero_store" => Stored(q, rb, h.mirror, 0)
            /\ cli = "inc_store" => Stored(q, rb, h.mirror, h.index + 1)
        <4>1. CASE cli = "zero_store"
          <5>1. q = [rb EXCEPT !.read_mirror = h.mirror, !.read_index = 0]
            BY <2>2, <3>1, <4>1
          <5> QED  BY <2>1, <4>1, <5>1, StoreFields
        <4>2. CASE cli = "inc_store"
          <5>1. q = [rb EXCEPT !.read_mirror = h.mirror, !.read_index = h.index + 1]
            BY <2>2, <3>1, <4>2
          <5>2. h.mirror \in {0, 1} /\ h.index + 1 \in 0 .. buffer_size - 1
            BY <2>1, <3>1, <4>2, Size
          <5>3. Stored([rb EXCEPT !.read_mirror = h.mirror, !.read_index = h.index + 1],
                       rb, h.mirror, h.index + 1)
            BY <2>1, <5>2, StoreFields, Zenon
          <5> QED  BY <4>2, <5>1, <5>3, Zenon
        <4> QED  BY <4>1, <4>2
      <3>3. Exact(q, o - 1, "print", g) /\ Holds(q, o - 1, p + 1)
        BY <1>3, <2>3, <2>5, <2>7, <3>2, LastStoreExact
      <3>4. Outstanding' = o - 1 /\ o - 1 \in Nat
        BY <1>1, <1>0, <1>2, <2>3, <2>7, <3>1 DEF Outstanding, Getting
      <3>5. came = p + 1 + (o - 1)
        BY <1>0, <2>5
      <3> QED  BY <1>2, <1>4, <2>2, <2>3, <2>4, <3>1, <3>3, <3>4, <3>5
    <2> QED  BY <2>6, <2>7
  <1>11. CASE GetStoreOutside
    <2>1. UNCHANGED <<fifo, half, cli, printed, rx_notice, ch>>
      BY <1>11 DEF GetStoreOutside
    <2>2. Outstanding' = o
      BY <1>1, <1>2, <2>1 DEF Outstanding, Getting
    <2>3. InHand = IF cli = "print" THEN 1 ELSE 0
      BY DEF InHand
    <2> QED  BY <1>2, <1>3, <1>4, <2>1, <2>2, <2>3
  <1>12. CASE Kprintf
    <2>1. /\ UNCHANGED <<fifo, half, rx_notice>> /\ cli = "print" /\ cli' = "take"
          /\ printed' = IF ch = 0 THEN printed ELSE ch
      BY <1>12 DEF Kprintf, CliStep
    <2>2. printed' = p + 1 /\ InHand = 1
      BY <1>3, <2>1 DEF InHand
    <2>3. Outstanding' = o
      BY <1>1, <1>2, <2>1 DEF Outstanding, Getting
    <2>4. "print" \notin ReadingStates /\ "take" \notin ReadingStates
      BY DEF ReadingStates
    <2>5. Exact(rb, o, "take", h)
      BY <1>3, <2>1, <2>4, ExactIdle
    <2>6. Holds(rb, o, p + 1) /\ came = p + 1 + o
      BY <1>3, <2>2
    <2> QED  BY <1>2, <1>4, <2>1, <2>2, <2>3, <2>4, <2>5, <2>6
  <1> QED  BY <1>5, <1>6, <1>7, <1>8, <1>9, <1>10, <1>11, <1>12 DEF Cli

LEMMA PutAllExact ==
  ASSUME NEW rb \in Rings, NEW h \in Halves, NEW c \in CliStates, NEW o \in Nat, NEW p \in Nat,
         Exact(rb, o, c, h), Holds(rb, o, p), came = p + o, NEW n \in Nat,
         o + n <= buffer_size
  PROVE  Exact(PutAll(rb, n), o + n, c, h) /\ Holds(PutAll(rb, n), o + n, p)
  <1>1. PICK f : Puts(f, rb, came, n) /\ PutAll(rb, n) = f[n]
    BY PutAllIsPuts
  <1>2. Puts(f, rb, p + o, n)
    BY <1>1
  <1>3. \A k \in 0 .. n : f[k] = IF k = 0 THEN rb ELSE put_force(f[k - 1], p + o + k)
    BY <1>2 DEF Puts
  <1>4. \A k \in 0 .. n : f[k] \in Rings
    <2> DEFINE Bad == {k \in 0 .. n : f[k] \notin Rings}
    <2> SUFFICES ASSUME Bad # {} PROVE FALSE
      OBVIOUS
    <2>1. Bad \subseteq Nat
      OBVIOUS
    <2>2. PICK k \in Bad : \A m \in Bad : k <= m
      <3> HIDE DEF Bad
      <3> QED  BY <2>1, LeastNat
    <2>3. k \in 0 .. n /\ f[k] \notin Rings
      OBVIOUS
    <2>4. k # 0
      BY <1>3, <2>3
    <2>5. k - 1 \in 0 .. n /\ p + o + k \in Nat
      BY <2>3, <2>4
    <2>6. f[k - 1] \in Rings
      BY <2>2, <2>5
    <2>7. put_force(f[k - 1], p + o + k) \in Rings
      BY <2>5, <2>6, PutForceType
    <2> QED  BY <1>3, <2>3, <2>4, <2>7
  <1>5. \A k \in 0 .. n : Exact(f[k], o + k, c, h) /\ Holds(f[k], o + k, p)
    BY <1>2, <1>4, PutsExact
  <1>6. n \in 0 .. n
    OBVIOUS
  <1> QED  BY <1>1, <1>5, <1>6

\* A release changes neither what getchar has in hand nor what it is at.
LEMMA ReleaseOrder ==
  ASSUME TypeInv, NEW n \in Nat \ {0}, Release(n), NEW q, NEW o, Exact(q, o, cli, half)
  PROVE  /\ Exact(q, o, cli', half) /\ InHand' = InHand
         /\ cli' \in {"print"} \cup (ReadingStates \ {"copy"}) => cli' = cli
  <1>1. cli' = IF cli = "waiting" THEN "get" ELSE cli
    BY ReleaseFacts DEF TypeInv
  <1>2. CASE cli = "waiting"
    <2>1. cli \notin ReadingStates /\ cli' \notin ReadingStates
      BY <1>1, <1>2 DEF ReadingStates
    <2>2. Exact(q, o, cli', half)
      BY <2>1, ExactIdle
    <2> QED  BY <1>1, <1>2, <2>1, <2>2 DEF InHand
  <1>3. CASE cli # "waiting"
    BY <1>1, <1>3 DEF InHand
  <1> QED  BY <1>2, <1>3

LEMMA IsrOrder ==
  ASSUME TypeInv, BranchInv, BranchInv', RingPart, fifo_state = "live", OrderPart,
         DmaRxInd \/ IdleRxInd \/ IdleIsr, ~overflowed', ~nested, ~nested'
  PROVE  OrderPart'
  <1> USE DEF shellVars, ringVars, cliVars, isrVars, histVars
  <1>0. /\ fifo \in Rings /\ half \in Halves /\ rx_notice \in Nat /\ Outstanding \in Nat
        /\ cli \in CliStates /\ came \in Nat /\ unread \in Nat /\ printed \in Nat
        /\ space \in Nat /\ held \in Nat /\ InHand \in {0, 1} /\ buffer_size \in Nat \ {0}
        /\ Count \in Nat
    BY OutstandingFacts, Size DEF TypeInv, InHand
  <1>1. fifo' \in Rings
    BY IsrTypes DEF TypeInv
  <1>2. PICK o \in Nat, p \in Nat : o = Count /\ p = printed + InHand
    BY <1>0
  <1>3. /\ Exact(Ring, o, cli, half) /\ came = p + o + Pending
        /\ ~Overwrites => Holds(Ring, o, p)
        /\ isr \in Holding => held = came
        /\ isr \in Measured /\ o # buffer_size => space # 0
        /\ isr \in Copied /\ ~Overwrites => fifo.buffer[fifo.write_index] = held
        /\ cli \in {"print"} \cup (ReadingStates \ {"copy"}) => ch = printed + 1
    BY <1>0, <1>2 DEF OrderPart
  <1>4. isr \notin MovingStates => Ring = fifo /\ o = Outstanding
    BY <1>0, <1>2, Still
  <1>5. CASE DmaRxInd
    <2>1. PICK n \in 1 .. MaxNew :
            /\ came' = came + unread + n
            /\ fifo' = PutAll(fifo, unread + n)
            /\ Release(unread + n)
            /\ overflowed' = (overflowed \/ Outstanding + unread + n > buffer_size)
            /\ nested' = (nested \/ isr \notin {"none", "read"})
      BY <1>5 DEF DmaRxInd, BadRing
    <2>2. PICK k \in Nat \ {0} : k = unread + n
      BY <1>0, CliAssumption
    <2>3. UNCHANGED <<half, isr, printed, ch>> /\ isr \in {"none", "read"}
      BY <1>5, <2>1 DEF DmaRxInd
    <2>4. Ring = fifo /\ o = Outstanding
      BY <1>4, <2>3 DEF MovingStates
    <2>5. came = p + o /\ Holds(fifo, o, p)
      BY <1>0, <1>3, <2>3, <2>4 DEF Pending, Overwrites, Holding, Measured, Copied
    <2>6. o + k <= buffer_size
      <3>1. ~(Outstanding + unread + n > buffer_size)
        BY <2>1
      <3>2. n \in Nat
        BY CliAssumption
      <3> QED  BY <1>0, <2>2, <2>4, <3>1, <3>2
    <2>7. Exact(PutAll(fifo, k), o + k, cli, half) /\ Holds(PutAll(fifo, k), o + k, p)
      BY <1>0, <1>3, <2>4, <2>5, <2>6, PutAllExact
    <2>8. /\ Exact(PutAll(fifo, k), o + k, cli', half) /\ InHand' = InHand
          /\ cli' \in {"print"} \cup (ReadingStates \ {"copy"}) => cli' = cli
      BY <2>1, <2>2, <2>7, ReleaseOrder
    <2>9. Outstanding' = o + k
      BY <1>0, <2>1, <2>2, <2>3, <2>4, ReleaseFacts
    <2>10. Ring' = PutAll(fifo, k) /\ Count' = o + k
      BY <1>1, <2>1, <2>2, <2>3, <2>9, StillNext DEF MovingStates
    <2>11. Pending' = 0 /\ ~Overwrites' /\ isr' \notin Holding
      BY <2>3 DEF Pending, Overwrites, Holding, Measured, Copied
    <2>12. came' = printed' + InHand' + Count' + Pending'
      BY <1>0, <1>2, <2>1, <2>2, <2>3, <2>5, <2>8, <2>10, <2>11, CliAssumption
    <2>13. Exact(Ring', Count', cli', half') /\ Holds(Ring', Count', printed' + InHand')
      BY <1>2, <2>3, <2>7, <2>8, <2>10
    <2> QED  BY <1>3, <2>3, <2>8, <2>11, <2>12, <2>13 DEF OrderPart, Holding, Measured, Copied
  <1>6. CASE IdleRxInd \/ IdleRead
    <2>1. UNCHANGED <<fifo, rx_notice, cli, half, printed, ch>>
      BY <1>6 DEF IdleRxInd, IdleRead
    <2>2. isr \in {"none", "read"} /\ isr' \in {"none", "read", "put"}
      BY <1>6 DEF IdleRxInd, IdleRead, BadRing
    <2>3. Ring = fifo /\ o = Outstanding
      BY <1>4, <2>2 DEF MovingStates
    <2>4. Outstanding' = o /\ InHand' = InHand
      BY <2>1, <2>2, <2>3 DEF Outstanding, Getting, InHand
    <2>5. came = p + o /\ Holds(fifo, o, p)
      BY <1>0, <1>3, <2>2, <2>3 DEF Pending, Overwrites, Holding, Measured, Copied
    <2>6. came' = came + Pending' /\ (isr' \in Holding => held' = came')
      BY <1>0, <1>6, <2>2 DEF IdleRxInd, IdleRead, BadRing, Pending, Holding, Measured
    <2>7. Ring' = fifo /\ Count' = o
      BY <1>1, <2>1, <2>2, <2>4, StillNext DEF MovingStates
    <2>8. Pending' \in {0, 1}
      BY DEF Pending
    <2>9. came' = printed' + InHand' + Count' + Pending'
      BY <1>0, <1>2, <2>1, <2>4, <2>5, <2>6, <2>7, <2>8
    <2>10. ~Overwrites' /\ isr' \notin Measured /\ isr' \notin Copied
      BY <2>2 DEF Overwrites, Measured, Copied
    <2>11. Exact(Ring', Count', cli', half') /\ Holds(Ring', Count', printed' + InHand')
      BY <1>2, <1>3, <2>1, <2>3, <2>4, <2>5, <2>7
    <2> QED  BY <1>3, <2>1, <2>6, <2>9, <2>10, <2>11 DEF OrderPart
  \* The steps up to the copy, and after it to the first move.
  <1>7. ASSUME IdlePut, isr \in Holding, isr' \in Holding, SameIndices(fifo', fifo),
               ~Overwrites' => Holds(fifo', o, p),
               isr' \in Measured /\ o # buffer_size => space' # 0,
               isr' \in Copied /\ ~Overwrites' => fifo'.buffer[fifo'.write_index] = held
        PROVE  OrderPart'
    <2>1. /\ UNCHANGED <<rx_notice, cli, half, came, held, printed, ch>>
      BY <1>7, PutLeaves
    <2>2. isr \notin MovingStates \cup {"release"} /\ isr' \notin MovingStates \cup {"release"}
      BY <1>7 DEF Holding, Measured, MovingStates
    <2>3. Ring = fifo /\ o = Outstanding
      BY <1>4, <2>2
    <2>4. Outstanding' = o
      BY <2>1, <2>2, <2>3 DEF Outstanding, Getting
    <2>5. Ring' = fifo' /\ Count' = o
      BY <1>1, <2>2, <2>4, StillNext
    <2>6. InHand' = InHand /\ Pending' = Pending
      BY <1>7, <2>1 DEF InHand, Pending
    <2>7. PICK q : q = fifo'
      OBVIOUS
    <2>8. Exact(q, o, cli, half)
      BY <1>3, <1>7, <2>3, <2>7, SameRing
    <2>9. Exact(Ring', Count', cli', half')
      BY <2>1, <2>5, <2>7, <2>8
    <2>10. came' = printed' + InHand' + Count' + Pending'
      BY <1>2, <1>3, <2>1, <2>5, <2>6
    <2>11. ~Overwrites' => Holds(Ring', Count', printed' + InHand')
      BY <1>2, <1>7, <2>1, <2>5, <2>6
    <2> QED  BY <1>3, <1>7, <2>1, <2>5, <2>9, <2>10, <2>11 DEF OrderPart
  <1>8. CASE IdleSpace \/ IdleMirrors \/ IdleOrder \/ IdleLen \/ IdleTest \/ IdleCopyRest
    <2>1. UNCHANGED fifo
      BY <1>8 DEF IdleSpace, IdleMirrors, IdleOrder, IdleLen, IdleTest, IdleCopyRest
    <2>2. SameIndices(fifo', fifo) /\ IdlePut
      BY <1>8, <2>1 DEF SameIndices, IdlePut
    <2>3. /\ isr \in Holding /\ isr' \in Holding /\ isr \notin MovingStates \cup {"release"}
          /\ isr' \notin MovingStates \cup {"release"}
      BY <1>8 DEF IdleSpace, IdleMirrors, IdleOrder, IdleLen, IdleTest, IdleCopyRest, IdleStep,
                  Holding, Measured, MovingStates
    <2>4. isr' \in Copied <=> isr \in Copied
      BY <1>8 DEF IdleSpace, IdleMirrors, IdleOrder, IdleLen, IdleTest, IdleCopyRest, IdleStep, Copied
    <2>5. Ring = fifo /\ o = Outstanding
      BY <1>4, <2>3
    <2>6. UNCHANGED <<rx_notice, cli>>
      BY <2>2, PutLeaves
    <2>7. Outstanding' = o
      BY <2>3, <2>5, <2>6 DEF Outstanding, Getting
    <2>8. Overwrites' <=> Overwrites
      <3>1. Count' = o
        BY <1>1, <2>3, <2>7, StillNext
      <3> QED  BY <1>2, <2>4, <3>1 DEF Overwrites
    <2>9. isr' \in Measured /\ o # buffer_size => space' # 0
      <3> SUFFICES ASSUME isr' \in Measured, o # buffer_size PROVE space' # 0
        OBVIOUS
      <3>1. o < buffer_size
        BY <1>0, <1>3 DEF Exact
      <3>2. ~is_full(fifo)
        BY <1>0, <1>3, <2>5, <3>1, ExactFacts
      <3>3. CASE IdleSpace \/ IdleOrder
        BY <3>3 DEF IdleSpace, IdleOrder, IdleStep, Measured
      <3>4. CASE IdleLen
        <4>1. isr \in {"ahead", "behind"}
          BY <3>4 DEF IdleLen, IdleStep
        <4> QED  BY <1>0, <3>4, <4>1, LenFound DEF RingPart
      <3>5. CASE IdleMirrors
        <4>1. fifo.read_index = fifo.write_index
          BY <3>5 DEF IdleMirrors, IdleStep, RingPart
        <4>2. fifo.read_mirror = fifo.write_mirror
          BY <3>2, <4>1 DEF is_full
        <4> QED  BY <1>0, <3>5, <4>2 DEF IdleMirrors
      <3>6. CASE IdleTest \/ IdleCopyRest
        BY <1>3, <3>6 DEF IdleTest, IdleCopyRest, IdleStep, Measured
      <3> QED  BY <1>8, <3>3, <3>4, <3>5, <3>6
    <2>10. ~Overwrites' => Holds(fifo', o, p)
      BY <1>3, <2>1, <2>5, <2>8
    <2>11. isr' \in Copied /\ ~Overwrites' => fifo'.buffer[fifo'.write_index] = held
      BY <1>3, <2>1, <2>4, <2>8
    <2> QED  BY <1>7, <2>2, <2>3, <2>9, <2>10, <2>11
  <1>9. CASE IdleCopy
    <2>1. /\ fifo' = [fifo EXCEPT !.buffer[fifo.write_index] = held]
          /\ isr \in {"copy", "copy_wrap"} /\ isr' \in {"inc", "copy_rest"}
          /\ UNCHANGED <<rx_notice, cli, space>> /\ IdlePut
      BY <1>9 DEF IdleCopy, IdleStep, IdlePut
    <2>2. PICK q : q = fifo' /\ Wrote(q, fifo, held)
      BY <1>0, <2>1, Written
    <2>3. Ring = fifo /\ o = Outstanding
      BY <1>4, <2>1 DEF MovingStates
    <2>4. Outstanding' = o
      BY <2>1, <2>3 DEF Outstanding, Getting
    <2>5. Count' = o
      BY <1>1, <2>1, <2>4, StillNext DEF MovingStates
    <2>6. /\ isr' \in Copied /\ isr \notin Copied /\ isr \in Measured
          /\ isr \in Holding /\ isr' \in Holding
      BY <2>1 DEF Copied, Measured, Holding
    <2>7. Holds(fifo, o, p) /\ (Overwrites' <=> o = buffer_size)
      BY <1>3, <2>3, <2>5, <2>6 DEF Overwrites
    <2>8. ASSUME o # buffer_size
          PROVE  Holds(q, o, p) /\ q.buffer[q.write_index] = held /\ space' # 0
      <3>1. o < buffer_size
        BY <1>0, <1>3, <2>8 DEF Exact
      <3>2. Off(fifo.write_index, fifo.read_index) = o
        BY <1>0, <1>3, <2>3, <3>1, ExactFacts
      <3>3. Holds(q, o, p) /\ q.buffer[q.write_index] = held
        BY <1>0, <2>2, <2>7, <3>2, CopyHolds
      <3> QED  BY <1>3, <2>1, <2>6, <2>8, <3>3
    <2>9. SameIndices(fifo', fifo)
      BY <2>2 DEF Wrote
    <2> QED  BY <1>7, <2>1, <2>2, <2>6, <2>7, <2>8, <2>9
  <1>10. CASE IdleBegin
    <2>1. /\ overflowed' = (overflowed \/ Outstanding + 1 > buffer_size)
          /\ isr \in {"inc", "flip"} /\ isr' \in {"inc_store", "flip_store"}
          /\ UNCHANGED <<half, cli, came, printed, ch>>
      BY <1>10 DEF IdleBegin, IdleStep
    <2>2. Straight'
      BY DEF BranchInv
    <2>3. /\ Ring = fifo /\ o = Outstanding
          /\ Ring' = put_advance(fifo, space) /\ Count' = o + 1
      BY <1>2, <1>10, <2>2, BeginRing
    <2>4. o < buffer_size /\ ~Overwrites
      <3>1. ~(Outstanding + 1 > buffer_size)
        BY <2>1
      <3>2. o < buffer_size
        BY <1>0, <2>3, <3>1
      <3> QED  BY <1>0, <1>2, <3>2 DEF Overwrites
    <2>5. isr \in Copied /\ isr \in Measured /\ isr \in Holding
      BY <2>1 DEF Copied, Measured, Holding
    <2>6. /\ fifo.buffer[fifo.write_index] = held /\ held = came /\ space \in Nat \ {0}
          /\ Holds(fifo, o, p) /\ Pending = 1
      BY <1>0, <1>3, <2>3, <2>4, <2>5 DEF Pending
    <2>7. fifo.buffer[fifo.write_index] = p + 1 + o
      BY <1>0, <1>3, <2>6
    <2>8. Off(fifo.write_index, fifo.read_index) = o
      BY <1>0, <1>3, <2>3, <2>4, ExactFacts
    <2>9. PICK q : q = put_advance(fifo, space) /\ Advanced(q, fifo, space)
      BY <1>0, PutFields
    <2>10. Exact(q, o + 1, cli, half)
      BY <1>0, <1>3, <2>3, <2>4, <2>6, <2>9, PutExact
    <2>11. Holds(q, o + 1, p)
      BY <1>0, <2>6, <2>7, <2>8, <2>9, AdvanceHolds
    <2>12. InHand' = InHand
      BY <2>1 DEF InHand
    <2>13. Pending' = 0 /\ ~Overwrites' /\ isr' \notin Holding
      BY <2>1 DEF Pending, Overwrites, Holding, Measured, Copied
    <2>14. came' = printed' + InHand' + Count' + Pending'
      BY <1>0, <1>2, <1>3, <2>1, <2>3, <2>6, <2>12, <2>13
    <2>15. Exact(Ring', Count', cli', half') /\ Holds(Ring', Count', printed' + InHand')
      BY <1>2, <2>1, <2>3, <2>9, <2>10, <2>11, <2>12
    <2> QED  BY <1>3, <2>1, <2>13, <2>14, <2>15 DEF OrderPart, Holding, Measured, Copied
  <1>11. CASE IdleLoad \/ IdleStore
    <2>1. /\ Ring' = Ring /\ Count' = Count
          /\ isr \in MovingStates /\ isr' \in MovingStates \cup {"release"}
      BY <1>11, MoveKeeps
    <2>2. UNCHANGED <<cli, half, came, printed, ch>>
      BY <1>11 DEF IdleLoad, IdleStore
    <2>3. /\ isr \notin Holding /\ isr' \notin Holding /\ Pending = 0 /\ Pending' = 0
          /\ ~Overwrites /\ ~Overwrites'
      BY <2>1 DEF Pending, Overwrites, Holding, Measured, Copied, MovingStates
    <2>4. InHand' = InHand
      BY <2>2 DEF InHand
    <2>5. came' = printed' + InHand' + Count' + Pending'
      BY <1>0, <1>2, <1>3, <2>1, <2>2, <2>3, <2>4
    <2>6. Exact(Ring', Count', cli', half') /\ Holds(Ring', Count', printed' + InHand')
      BY <1>2, <1>3, <2>1, <2>2, <2>3, <2>4
    <2> QED  BY <1>3, <2>2, <2>3, <2>5, <2>6 DEF OrderPart, Holding, Measured, Copied
  <1>12. CASE IdleOutside
    <2>1. UNCHANGED <<fifo, isr, space, held, cli, half, came, printed, ch, Ring, Count, InHand,
                      Pending, Overwrites>>
      BY <1>12 DEF IdleOutside, Ring, Count, Outstanding, Getting, Moving, InHand, Pending,
                   Overwrites
    <2> QED  BY <2>1 DEF OrderPart
  <1>13. CASE IdleRelease
    <2>1. /\ isr = "release" /\ isr' = "read" /\ Release(1)
          /\ UNCHANGED <<fifo, half, came, printed, ch>>
      BY <1>13 DEF IdleRelease, IdleStep
    <2>2. Ring = fifo /\ o = Outstanding
      BY <1>4, <2>1 DEF MovingStates
    <2>3. Outstanding' = o
      BY <1>0, <2>1, <2>2, ReleaseFacts
    <2>4. Ring' = fifo /\ Count' = o
      BY <1>1, <2>1, <2>3, StillNext DEF MovingStates
    <2>5. /\ isr \notin Holding /\ isr' \notin Holding /\ Pending = 0 /\ Pending' = 0
          /\ ~Overwrites /\ ~Overwrites'
      BY <2>1 DEF Pending, Overwrites, Holding, Measured, Copied
    <2>6. /\ Exact(fifo, o, cli', half) /\ InHand' = InHand
          /\ cli' \in {"print"} \cup (ReadingStates \ {"copy"}) => cli' = cli
      BY <1>3, <2>1, <2>2, ReleaseOrder
    <2>7. came' = printed' + InHand' + Count' + Pending'
      BY <1>0, <1>2, <1>3, <2>1, <2>4, <2>5, <2>6
    <2>8. Exact(Ring', Count', cli', half') /\ Holds(Ring', Count', printed' + InHand')
      BY <1>2, <1>3, <2>1, <2>2, <2>4, <2>5, <2>6
    <2> QED  BY <1>3, <2>1, <2>5, <2>6, <2>7, <2>8 DEF OrderPart, Holding, Measured, Copied
  <1> QED  BY <1>5, <1>6, <1>8, <1>9, <1>10, <1>11, <1>12, <1>13 DEF IdleIsr, IdlePut

LEMMA OrderKept ==
  ASSUME TypeInv, ShellInv, SessionInv, BranchInv, RingInv, OrderInv, [Next]_vars
  PROVE  OrderInv'
  <1> USE DEF shellVars, ringVars, cliVars, isrVars, histVars
  <1>0. /\ rx_notice \in Nat /\ cli \in CliStates /\ failed \in BOOLEAN
        /\ came \in Nat /\ fifo \in Rings /\ fifo' \in Rings
    BY TypesKept DEF TypeInv
  <1>1. CASE Cli
    <2>1. UNCHANGED <<shell, fifo_state, failed, overflowed, nested, isr>> /\ isr = "none"
      BY <1>1 DEF Cli, CliStep, CliRuns, SemTake, GetLen, GetCopy, GetCompare, GetLoad,
                  GetStore, GetStoreOutside, Kprintf
    <2>2. cli \notin {"none", "created", "waiting"}
      BY <1>1 DEF Cli, CliStep, SemTake, GetLen, GetCopy, GetCompare, GetLoad,
                  GetStore, GetStoreOutside, Kprintf
    <2>3. shell # "fifo" /\ ~(shell = "delete" /\ ~failed)
      BY <2>2 DEF ShellInv, OrderInv
    <2>4. OrderPart => OrderPart'
      BY <1>1, CliOrder
    <2> QED  BY <2>1, <2>3, <2>4 DEF OrderInv, InUse, Clean
  <1>2. CASE DmaRxInd \/ IdleRxInd \/ IdleIsr \/ ClientRxInd
    <2>1. UNCHANGED <<shell, fifo_state, failed>>
      BY <1>2, OthersKeepShell
    <2>2. ~overflowed' => ~overflowed
      BY <1>2, PutLeaves DEF DmaRxInd, IdleRxInd, IdleIsr, IdleRead, IdleBegin, IdleRelease,
                             ClientRxInd
    <2>3. ~nested' => ~nested
      BY <1>2, PutLeaves DEF DmaRxInd, IdleRxInd, IdleIsr, IdleRead, IdleRelease, ClientRxInd
    <2>4. shell = "fifo" /\ ~failed => UNCHANGED rx_notice
      <3> SUFFICES ASSUME shell = "fifo", ~failed PROVE UNCHANGED rx_notice
        OBVIOUS
      <3>1. fifo_state # "live" /\ isr \in {"none", "read"}
        BY DEF SessionInv, ShellInv
      <3> QED  BY <1>2, <3>1, PutLeaves DEF DmaRxInd, BadRing, IdleRxInd, IdleIsr, IdleRead,
                                            IdleRelease, IdleStep, ClientRxInd
    <2>5. shell = "delete" /\ ~failed => UNCHANGED cli
      <3> SUFFICES ASSUME shell = "delete", ~failed PROVE UNCHANGED cli
        OBVIOUS
      <3>1. rx_indicate = "at_client" /\ isr = "none"
        BY <1>0 DEF ShellInv, HomeRxInd
      <3> QED  BY <1>2, <3>1, PutLeaves DEF DmaRxInd, IdleRxInd, IdleIsr, IdleRead, IdleRelease,
                                            IdleStep, ClientRxInd
    <2>6. ASSUME InUse', shell' # "delete", Clean' PROVE OrderPart'
      <3>1. OrderPart /\ fifo_state = "live" /\ rx_indicate = "cli" /\ InUse
        BY <2>1, <2>2, <2>3, <2>6 DEF OrderInv, InUse, Clean, ShellInv
      <3>2. ~ClientRxInd
        BY <3>1 DEF ClientRxInd
      <3>3. ~overflowed' /\ ~nested' /\ ~nested
        BY <2>3, <2>6 DEF Clean
      <3>4. RingPart /\ BranchInv'
        BY <3>1, <3>3, BranchKept DEF RingInv, BranchInv
      <3> QED  BY <1>2, <3>1, <3>2, <3>3, <3>4, IsrOrder
    <2> QED  BY <2>1, <2>4, <2>5, <2>6 DEF OrderInv
  <1>3. CASE FifoCreate
    <2>1. /\ shell = "fifo" /\ shell' = "thread" /\ isr = "none"
          /\ UNCHANGED <<failed, cli, half, rx_notice, came, isr, overflowed, nested>>
          /\ printed' = came
      BY <1>3 DEF FifoCreate, ShellStep, ShellRuns
    <2>2. ASSUME InUse', Clean' PROVE OrderPart'
      <3>1. fifo' = init(fifo.buffer)
        BY <1>3, <2>2 DEF FifoCreate, InUse
      <3>2. ~failed /\ rx_notice = 0 /\ cli = "none"
        BY <2>1, <2>2 DEF Clean, OrderInv, ShellInv
      <3>3. /\ Outstanding' = 0 /\ InHand' = 0 /\ Pending' = 0 /\ ~Overwrites'
            /\ isr' \notin Holding
        BY <2>1, <3>2 DEF Outstanding, Getting, InHand, Pending, Overwrites, Holding, Measured,
                          Copied
      <3>4. PICK q, h : q = init(fifo.buffer) /\ h = half'
        OBVIOUS
      <3>5. /\ q.read_mirror = 0 /\ q.read_index = 0 /\ q.write_mirror = 0 /\ q.write_index = 0
        BY <3>4 DEF init
      <3>6. Ahead(Wr(q), Rd(q)) = 0 /\ 0 <= buffer_size
        BY <3>5, Size DEF Ahead, Wr, Rd, At
      <3>7. Exact(q, 0, "none", h)
        BY <3>6 DEF Exact, ReadingStates
      <3>8. Holds(q, 0, came)
        BY <3>5, Size DEF Holds, Off
      <3>9. Ring' = fifo' /\ Count' = 0
        BY <1>0, <2>1, <3>3, StillNext DEF MovingStates
      <3>10. Exact(Ring', Count', cli', half') /\ Holds(Ring', Count', printed' + InHand')
        BY <1>0, <2>1, <3>1, <3>2, <3>3, <3>4, <3>7, <3>8, <3>9
      <3>11. came' = printed' + InHand' + Count' + Pending'
        BY <1>0, <2>1, <3>3, <3>9
      <3> QED  BY <2>1, <3>2, <3>3, <3>10, <3>11
               DEF OrderPart, ReadingStates, Holding, Measured, Copied
    <2> QED  BY <2>1, <2>2 DEF OrderInv
  <1>4. CASE ThreadCreate
    <2>1. /\ shell = "thread" /\ shell' \in {"session", "idle"}
          /\ UNCHANGED <<fifo_state, fifo, rx_notice, half, isr, came, printed, overflowed, nested>>
          /\ isr = "none" /\ (shell' = "session" => cli' = "take" /\ failed' = failed)
      BY <1>0, <1>4 DEF ThreadCreate, ShellRuns
    <2>2. ASSUME InUse', shell' # "delete", Clean' PROVE OrderPart'
      <3>1. shell' = "session" /\ cli' = "take" /\ ~failed
        BY <2>1, <2>2 DEF InUse, Clean
      <3>2. OrderPart
        BY <2>1, <2>2, <3>1 DEF InUse, Clean, OrderInv
      <3>3. cli \in {"none", "created"}
        BY <2>1 DEF ShellInv
      <3>4. Outstanding' = Outstanding /\ InHand' = InHand /\ Pending' = Pending
        BY <2>1, <3>1, <3>3 DEF Outstanding, Getting, InHand, Pending
      <3>5. /\ ~Overwrites /\ ~Overwrites' /\ isr' \notin Holding
            /\ isr' \notin Measured /\ isr' \notin Copied
        BY <2>1 DEF Overwrites, Holding, Measured, Copied
      <3>6. cli \notin ReadingStates /\ "take" \notin ReadingStates
        BY <3>3 DEF ReadingStates
      <3>7. Ring' = Ring /\ Count' = Count
        <4>1. Ring = fifo /\ Count = Outstanding
          BY <1>0, <2>1, Still DEF MovingStates
        <4>2. Ring' = fifo' /\ Count' = Outstanding'
          BY <1>0, <2>1, StillNext DEF MovingStates
        <4> QED  BY <2>1, <3>4, <4>1, <4>2
      <3>8. Exact(Ring, Count, "take", half)
        BY <3>2, <3>6, ExactIdle DEF OrderPart
      <3> QED  BY <2>1, <3>1, <3>2, <3>4, <3>5, <3>6, <3>7, <3>8 DEF OrderPart
    <2> QED  BY <2>1, <2>2 DEF OrderInv
  <1>5. CASE RestoreStatus \/ UNCHANGED vars
    <2>1. /\ UNCHANGED <<fifo, rx_notice, cli, half, overflowed, nested, failed, fifo_state, isr,
                         space, held, word, came, printed, ch>>
          /\ shell' = shell \/ (shell = "session" /\ shell' = "restore")
      BY <1>5 DEF RestoreStatus, vars, ShellStep
    <2>2. UNCHANGED <<Ring, Count, InHand, Pending>> /\ (Overwrites' <=> Overwrites)
      BY <2>1 DEF Ring, Count, Outstanding, Getting, Moving, InHand, Pending, Overwrites
    <2>3. OrderPart => OrderPart'
      BY <2>1, <2>2 DEF OrderPart
    <2>4. Clean' => Clean
      BY <2>1 DEF Clean
    <2> QED  BY <2>1, <2>3, <2>4 DEF OrderInv, InUse
  <1>6. CASE RestoreRxInd
    <2>1. /\ shell = "restore" /\ shell' = "delete"
          /\ cli \in {"none", "created", "waiting"} /\ UNCHANGED cli
      BY <1>6 DEF RestoreRxInd, ShellStep, ShellRuns
    <2>2. cli = "waiting"
      BY <2>1 DEF ShellInv
    <2> QED  BY <2>1, <2>2 DEF OrderInv
  <1>7. CASE SemInit
    BY <1>7 DEF SemInit, ShellStep, OrderInv, InUse
  <1>8. CASE BackupStatus \/ BackupRxInd \/ ThreadDelete \/ FifoDestroy
    BY <1>8 DEF BackupStatus, BackupRxInd, ThreadDelete, FifoDestroy, ShellStep, OrderInv, InUse
  <1> QED  BY <1>1, <1>2, <1>3, <1>4, <1>5, <1>6, <1>7, <1>8 DEF Next, Shell

----------------------------------------------------------------------------
(* Theorems                                                                 *)

LEMMA InitGood == Init => IInv
  <1> SUFFICES ASSUME Init PROVE IInv
    OBVIOUS
  <1>1. TypeInv
    <2>1. [i \in 0 .. buffer_size - 1 |-> 0] \in [0 .. buffer_size - 1 -> Nat]
      OBVIOUS
    <2>2. fifo \in Rings /\ half \in Halves /\ word \in Halves
      BY <2>1, InitRing DEF Init
    <2> QED  BY <2>2 DEF Init, TypeInv, CliStates, IsrStates
  <1>2. ShellInv /\ SessionInv
    BY DEF Init, ShellInv, SessionInv, HomeStatus, HomeRxInd
  <1>3. BranchInv /\ RingInv /\ StopInv /\ OrderInv
    BY DEF Init, BranchInv, Straight, StraightAt, RingInv, StopInv, OrderInv, InUse
  <1> QED  BY <1>1, <1>2, <1>3 DEF IInv

\* The inductive invariant of the command line.
LEMMA CliInductive == Spec => []IInv
  <1>1. IInv /\ [Next]_vars => IInv'
    BY TypesKept, ShellKept, SessionKept, BranchKept, RingKept, StopKept, OrderKept DEF IInv
  <1> QED  BY <1>1, InitGood, PTL DEF Spec

\* Every byte in the ring has a notice of its own, whatever the puts of either
\* handler do between the statements of rt_ringbuffer_getchar and wherever the DMA
\* handler nests in a put of the UART handler, but between two of its accesses to the
\* indices, for every size of the ring.
THEOREM CliNoticePerByte == Spec => []NoticePerByte
  <1>1. IInv => NoticePerByte
    <2> SUFFICES ASSUME IInv, shell = "session", ~torn, ~Moving
                 PROVE  data_len(fifo) <= Outstanding
      BY DEF NoticePerByte
    <2>1. RingPart
      BY DEF IInv, ShellInv, RingInv, InUse
    <2>2. fifo \in Rings /\ Outstanding \in Nat
      BY OutstandingFacts DEF IInv, TypeInv
    <2>3. Ring = fifo /\ Count = Outstanding /\ Straight
      BY <2>2, Still DEF Moving, MovingStates
    <2> QED  BY <2>1, <2>3 DEF RingPart, RingOK
  <1> QED  BY <1>1, CliInductive, PTL

\* As long as no byte was discarded, no handler nested and no session failed, what
\* at_client_entry prints is what came, in order and without gaps.
THEOREM CliPrintedInOrder == Spec => []PrintedInOrder
  <1>1. IInv => PrintedInOrder
    <2> SUFFICES ASSUME IInv, cli = "print", ~overflowed, ~nested, ~failed
                 PROVE  ch = printed + 1
      BY DEF PrintedInOrder
    <2>1. shell \in {"session", "restore", "delete"} /\ fifo_state = "live"
      BY DEF IInv, ShellInv
    <2>2. shell # "delete"
      BY DEF IInv, OrderInv
    <2>3. OrderPart
      BY <2>1, <2>2 DEF IInv, OrderInv, InUse, Clean
    <2> QED  BY <2>3 DEF OrderPart
  <1> QED  BY <1>1, CliInductive, PTL

\* Between sessions client_cli_parser has put the status and the rx indication of
\* the client back, or left them in CLI mode for good after one that found no memory.
THEOREM CliSessionLeavesNoTrace == Spec => []SessionLeavesNoTrace
  <1>1. IInv => SessionLeavesNoTrace
    BY DEF IInv, SessionLeavesNoTrace, ShellInv, TypeInv, HomeStatus, HomeRxInd
  <1> QED  BY <1>1, CliInductive, PTL

\* The program stops in the CLI only while a session begins, after a failed one, or,
\* by an index outside the buffer, after an overflow or a put that was nested in.
THEOREM CliStopHasCause == Spec => []StopHasCause
  <1>1. IInv => StopHasCause
    BY DEF IInv, StopInv, StopHasCause
  <1> QED  BY <1>1, CliInductive, PTL

===============================================================================
