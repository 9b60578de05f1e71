----------------------------- MODULE RtMemProofs ------------------------------
(***************************************************************************)
(* The heap keeps its chain of blocks for every size of heap, header and    *)
(* request, and for any number of threads: HeapTiled, HolesPlugged and      *)
(* StatsExact of RtMem are invariants, and RtMem implements BlockAllocator. *)
(*                                                                         *)
(* The argument follows the code: Split and Join keep a chain a chain;      *)
(* plug_holes, given a chain whose only pair of free neighbours is at the   *)
(* block it is called for, returns one without such a pair.                 *)
(***************************************************************************)
EXTENDS RtMem, FiniteSetTheorems, WellFoundedInduction, TLAPS

Headers == [next : Nat, prev : Nat, used : BOOLEAN]

\* The chain of HeapTiled, as a predicate of the headers alone.
Chain(m) ==
  /\ m \in [DOMAIN m -> Headers] /\ DOMAIN m \subseteq Nat
  /\ 0 \in DOMAIN m /\ heap_end \in DOMAIN m
  /\ m[heap_end].used /\ m[heap_end].next = heap_end
  /\ \A a \in DOMAIN m \ {heap_end} :
       /\ m[a].next \in DOMAIN m
       /\ m[a].next > a + SIZEOF_STRUCT_MEM
       /\ \A b \in DOMAIN m : b <= a \/ m[a].next <= b
       /\ a # 0 => m[a].prev \in DOMAIN m /\ m[m[a].prev].next = a
  /\ m[0].prev = 0

\* No two free blocks follow each other.
NoHoles(m) == \A b \in Free(m) : m[m[b].next].used

\* No two free blocks follow each other, unless one of them is a.
NoHolesBut(m, a) ==
  \A b \in Free(m) : m[m[b].next].used \/ m[b].next = a \/ b = a

\* No two free blocks follow each other, unless the second one is a.
NoHolesBefore(m, a) == \A b \in Free(m) : m[m[b].next].used \/ m[b].next = a

Lfree(m, l) == l \in Free(m) \cup {heap_end}

Used(m) == DOMAIN m \ Free(m)

LEMMA HeapEndNat == heap_end \in Nat /\ SIZEOF_STRUCT_MEM \in Nat /\ SIZEOF_STRUCT_MEM > 0 /\ heap_end > 0
  BY RtMemAssumption DEF heap_end

\* The fields of the blocks of j, which is m with n joined to a.
Joined(j, m, a, n) ==
  /\ DOMAIN j = DOMAIN m \ {n}
  /\ j \in [DOMAIN j -> Headers]
  /\ \A b \in DOMAIN j :
       /\ j[b].next = IF b = a THEN m[n].next ELSE m[b].next
       /\ b # heap_end => j[b].prev = IF b # a /\ b = m[n].next THEN a ELSE m[b].prev
       /\ j[b].used = m[b].used

\* The fields of the blocks after Join.
LEMMA JoinFields ==
  ASSUME NEW m, Chain(m), NEW a \in DOMAIN m \ {heap_end}, NEW n, n = m[a].next, n # heap_end,
         NEW j, j = Join(m, a, n)
  PROVE  Joined(j, m, a, n)
  <1>1. n \in DOMAIN m /\ a # n /\ m[n].next \in Nat /\ a \in Nat
    BY HeapEndNat DEF Chain, Headers
  <1>2. DOMAIN j = DOMAIN m \ {n}
    BY DEF Join
  <1>3. \A b \in DOMAIN j : m[b] \in Headers
    BY <1>2 DEF Chain
  <1>4. ASSUME NEW b \in DOMAIN j
        PROVE  /\ j[b] \in Headers
               /\ j[b].next = IF b = a THEN m[n].next ELSE m[b].next
               /\ b # heap_end => j[b].prev = IF b # a /\ b = m[n].next THEN a ELSE m[b].prev
               /\ j[b].used = m[b].used
    <2>1. CASE b = a
      <3>1. j[b] = [m[a] EXCEPT !.next = m[n].next]
        BY <1>2, <2>1 DEF Join
      <3> QED
        BY <1>1, <1>3, <2>1, <3>1 DEF Headers
    <2>2. CASE b # a /\ b = m[n].next
      <3>1. j[b] = [m[b] EXCEPT !.prev = a]
        BY <1>2, <2>2 DEF Join
      <3> QED
        BY <1>1, <1>3, <2>2, <3>1 DEF Headers
    <2>3. CASE b # a /\ b # m[n].next
      <3>1. j[b] = m[b]
        BY <1>2, <2>3 DEF Join
      <3> QED
        BY <1>3, <2>3, <3>1 DEF Headers
    <2> QED
      BY <2>1, <2>2, <2>3
  <1>5. j = [b \in DOMAIN j |-> j[b]]
    BY <1>2 DEF Join
  <1> QED
    BY <1>2, <1>4, <1>5 DEF Joined

\* Join keeps a chain a chain.
LEMMA JoinChain ==
  ASSUME NEW m, Chain(m), NEW a \in DOMAIN m \ {heap_end}, NEW n, n = m[a].next, n # heap_end,
         NEW j, j = Join(m, a, n)
  PROVE  Chain(j)
  <1>1. /\ n \in DOMAIN m /\ n > a /\ n # 0 /\ a \in Nat /\ n \in Nat
    BY HeapEndNat DEF Chain, Headers
  <1>2. /\ m[n].next \in DOMAIN m /\ m[n].next > n + SIZEOF_STRUCT_MEM /\ m[n].next \in Nat
        /\ \A b \in DOMAIN m : b <= n \/ m[n].next <= b
        /\ \A b \in DOMAIN m : b <= a \/ n <= b
    BY <1>1 DEF Chain, Headers
  <1>3. /\ DOMAIN j = DOMAIN m \ {n}
        /\ j \in [DOMAIN j -> Headers]
        /\ \A b \in DOMAIN j :
             /\ j[b].next = IF b = a THEN m[n].next ELSE m[b].next
             /\ b # heap_end => j[b].prev = IF b # a /\ b = m[n].next THEN a ELSE m[b].prev
             /\ j[b].used = m[b].used
    BY JoinFields DEF Joined
  <1>4. /\ DOMAIN j \subseteq Nat /\ 0 \in DOMAIN j /\ heap_end \in DOMAIN j
        /\ j[heap_end].used /\ j[heap_end].next = heap_end
    BY <1>1, <1>3 DEF Chain
  <1>5. ASSUME NEW b \in DOMAIN j \ {heap_end}
        PROVE  /\ j[b].next \in DOMAIN j
               /\ j[b].next > b + SIZEOF_STRUCT_MEM
               /\ \A c \in DOMAIN j : c <= b \/ j[b].next <= c
               /\ b # 0 => j[b].prev \in DOMAIN j /\ j[j[b].prev].next = b
    <2>0. b \in DOMAIN m \ {heap_end} /\ b # n /\ b \in Nat /\ m[b].next \in Nat
      BY <1>3 DEF Chain, Headers
    <2>1. CASE b = a
      <3>1. j[b].next = m[n].next
        BY <1>3, <2>1
      <3>2. m[n].next # n /\ m[n].next \in DOMAIN j
        BY <1>1, <1>2, <1>3, HeapEndNat
      <3>3. j[b].next > b + SIZEOF_STRUCT_MEM
        BY <1>1, <1>2, <2>1, <3>1, HeapEndNat
      <3>4. ASSUME NEW c \in DOMAIN j PROVE c <= b \/ j[b].next <= c
        BY <1>1, <1>2, <1>3, <1>4, <2>1, <3>1
      <3>5. ASSUME b # 0 PROVE j[b].prev \in DOMAIN j /\ j[j[b].prev].next = b
        <4>1. j[b].prev = m[b].prev
          BY <1>3, <2>1
        <4>2. m[b].prev \in DOMAIN m /\ m[m[b].prev].next = b
          BY <2>0, <3>5 DEF Chain
        <4>3. m[b].prev # n
          BY <1>1, <1>2, <2>1, <4>2, HeapEndNat
        <4>4. m[b].prev # a
          BY <1>1, <2>1, <4>2
        <4> QED
          BY <1>3, <2>1, <4>1, <4>2, <4>3, <4>4
      <3> QED
        BY <3>1, <3>2, <3>3, <3>4, <3>5
    <2>2. CASE b # a
      <3>1. j[b].next = m[b].next
        BY <1>3, <2>2
      <3>2. m[b].next # n
        BY <1>1, <1>2, <2>0, <2>2, HeapEndNat DEF Chain
      <3>3. j[b].next \in DOMAIN j /\ j[b].next > b + SIZEOF_STRUCT_MEM
        BY <1>3, <2>0, <3>1, <3>2 DEF Chain
      <3>4. ASSUME NEW c \in DOMAIN j PROVE c <= b \/ j[b].next <= c
        BY <1>3, <2>0, <3>1 DEF Chain
      <3>5. ASSUME b # 0 PROVE j[b].prev \in DOMAIN j /\ j[j[b].prev].next = b
        <4>1. m[b].prev \in DOMAIN m /\ m[m[b].prev].next = b
          BY <2>0, <3>5 DEF Chain
        <4>2. CASE b = m[n].next
          BY <1>1, <1>3, <2>0, <2>2, <4>2
        <4>3. CASE b # m[n].next
          <5>1. j[b].prev = m[b].prev
            BY <1>3, <2>0, <2>2, <4>3
          <5>2. m[b].prev # n
            BY <4>1, <4>3
          <5>3. m[b].prev # a
            BY <2>0, <4>1
          <5> QED
            BY <1>3, <4>1, <5>1, <5>2, <5>3
        <4> QED
          BY <4>2, <4>3
      <3> QED
        BY <3>3, <3>4, <3>5
    <2> QED
      BY <2>1, <2>2
  <1>6. j[0].prev = 0
    <2>1. m[n].next # 0
      BY <1>1, <1>2, HeapEndNat
    <2> QED
      BY <1>3, <1>4, <2>1, HeapEndNat DEF Chain
  <1> QED
    BY <1>3, <1>4, <1>5, <1>6 DEF Chain

\* The fields of the blocks of s, which is m with block a split at a2.
SplitInto(s, m, a, a2) ==
  /\ a2 \notin DOMAIN m
  /\ DOMAIN s = DOMAIN m \cup {a2}
  /\ s \in [DOMAIN s -> Headers]
  /\ s[a2] = [next |-> m[a].next, prev |-> a, used |-> FALSE]
  /\ \A b \in DOMAIN m :
       /\ s[b].next = IF b = a THEN a2 ELSE m[b].next
       /\ s[b].prev = IF b = m[a].next /\ b # heap_end THEN a2 ELSE m[b].prev
       /\ s[b].used = m[b].used

\* The fields of the blocks after Split.
LEMMA SplitFields ==
  ASSUME NEW m, Chain(m), NEW a \in DOMAIN m \ {heap_end}, NEW a2 \in Nat,
         a + SIZEOF_STRUCT_MEM < a2, a2 + SIZEOF_STRUCT_MEM < m[a].next,
         NEW s, s = Split(m, a, a2)
  PROVE  SplitInto(s, m, a, a2)
  <1>1. a \in Nat /\ m[a].next \in Nat /\ m[a].next # a
    BY HeapEndNat DEF Chain, Headers
  <1>2. a2 \notin DOMAIN m
    <2>1. SUFFICES ASSUME a2 \in DOMAIN m PROVE FALSE
      OBVIOUS
    <2>2. a2 <= a \/ m[a].next <= a2
      BY <2>1 DEF Chain
    <2> QED
      BY <1>1, <2>2, HeapEndNat
  <1>3. DOMAIN s = DOMAIN m \cup {a2}
    BY DEF Split
  <1>4. s[a2] = [next |-> m[a].next, prev |-> a, used |-> FALSE]
    BY <1>3 DEF Split
  <1>5. s[a2] \in Headers
    BY <1>1, <1>4 DEF Headers
  <1>6. ASSUME NEW b \in DOMAIN m
        PROVE  /\ s[b] \in Headers
               /\ s[b].next = IF b = a THEN a2 ELSE m[b].next
               /\ s[b].prev = IF b = m[a].next /\ b # heap_end THEN a2 ELSE m[b].prev
               /\ s[b].used = m[b].used
    <2>0. m[b] \in Headers /\ b # a2
      BY <1>2 DEF Chain
    <2>1. CASE b = a
      <3>1. s[b] = [m[a] EXCEPT !.next = a2]
        BY <1>3, <2>0, <2>1 DEF Split
      <3> QED
        BY <1>1, <2>0, <2>1, <3>1 DEF Headers
    <2>2. CASE b # a /\ b = m[a].next /\ b # heap_end
      <3>1. s[b] = [m[b] EXCEPT !.prev = a2]
        BY <1>3, <2>0, <2>2 DEF Split
      <3> QED
        BY <2>0, <2>2, <3>1 DEF Headers
    <2>3. CASE b # a /\ ~(b = m[a].next /\ b # heap_end)
      <3>1. s[b] = m[b]
        BY <1>3, <2>0, <2>3 DEF Split
      <3> QED
        BY <2>0, <2>3, <3>1 DEF Headers
    <2> QED
      BY <2>1, <2>2, <2>3
  <1>7. s = [b \in DOMAIN s |-> s[b]]
    BY <1>3 DEF Split
  <1>8. s \in [DOMAIN s -> Headers]
    BY <1>3, <1>5, <1>6, <1>7
  <1> QED
    BY <1>2, <1>3, <1>4, <1>6, <1>8 DEF SplitInto

\* Split keeps a chain a chain.
LEMMA SplitChain ==
  ASSUME NEW m, Chain(m), NEW a \in DOMAIN m \ {heap_end}, NEW a2 \in Nat,
         a + SIZEOF_STRUCT_MEM < a2, a2 + SIZEOF_STRUCT_MEM < m[a].next,
         NEW s, s = Split(m, a, a2)
  PROVE  Chain(s)
  <1>1. /\ a2 \notin DOMAIN m
        /\ DOMAIN s = DOMAIN m \cup {a2}
        /\ s \in [DOMAIN s -> Headers]
        /\ s[a2] = [next |-> m[a].next, prev |-> a, used |-> FALSE]
        /\ \A b \in DOMAIN m :
             /\ s[b].next = IF b = a THEN a2 ELSE m[b].next
             /\ s[b].prev = IF b = m[a].next /\ b # heap_end THEN a2 ELSE m[b].prev
             /\ s[b].used = m[b].used
    BY SplitFields DEF SplitInto
  <1>2. /\ a \in Nat /\ m[a].next \in Nat /\ m[a].next \in DOMAIN m
        /\ \A b \in DOMAIN m : b <= a \/ m[a].next <= b
    BY DEF Chain, Headers
  <1>3. /\ DOMAIN s \subseteq Nat /\ 0 \in DOMAIN s /\ heap_end \in DOMAIN s
        /\ s[heap_end].used /\ s[heap_end].next = heap_end
    BY <1>1 DEF Chain
  <1>4. /\ s[a2].next = m[a].next /\ s[a2].prev = a /\ s[a].next = a2
    BY <1>1
  <1>5. ASSUME NEW b \in DOMAIN s \ {heap_end}
        PROVE  /\ s[b].next \in DOMAIN s
               /\ s[b].next > b + SIZEOF_STRUCT_MEM
               /\ \A c \in DOMAIN s : c <= b \/ s[b].next <= c
               /\ b # 0 => s[b].prev \in DOMAIN s /\ s[s[b].prev].next = b
    <2>1. CASE b = a2
      <3>1. s[b].next \in DOMAIN s /\ s[b].next > b + SIZEOF_STRUCT_MEM
        BY <1>1, <1>2, <1>4, <2>1
      <3>2. ASSUME NEW c \in DOMAIN s PROVE c <= b \/ s[b].next <= c
        BY <1>1, <1>2, <1>3, <1>4, <2>1, HeapEndNat
      <3> QED
        BY <1>1, <1>4, <2>1, <3>1, <3>2
    <2>2. CASE b = a
      <3>1. s[b].next \in DOMAIN s /\ s[b].next > b + SIZEOF_STRUCT_MEM
        BY <1>1, <1>2, <1>4, <2>2, HeapEndNat
      <3>2. ASSUME NEW c \in DOMAIN s PROVE c <= b \/ s[b].next <= c
        BY <1>1, <1>2, <1>3, <1>4, <2>2, HeapEndNat
      <3>3. ASSUME b # 0 PROVE s[b].prev \in DOMAIN s /\ s[s[b].prev].next = b
        <4>1. m[b].prev \in DOMAIN m /\ m[m[b].prev].next = b
          BY <2>2, <3>3 DEF Chain
        <4>2. m[a].next # a
          BY <1>2, HeapEndNat DEF Chain
        <4>3. s[b].prev = m[b].prev /\ m[b].prev # a
          BY <1>1, <2>2, <4>1, <4>2
        <4> QED
          BY <1>1, <4>1, <4>3
      <3> QED
        BY <3>1, <3>2, <3>3
    <2>3. CASE b # a /\ b # a2
      <3>0. b \in DOMAIN m \ {heap_end} /\ b \in Nat /\ m[b].next \in Nat
        BY <1>1, <2>3 DEF Chain, Headers
      <3>1. s[b].next = m[b].next /\ m[b].next \in DOMAIN m
        BY <1>1, <2>3, <3>0 DEF Chain
      <3>2. s[b].next \in DOMAIN s /\ s[b].next > b + SIZEOF_STRUCT_MEM
        BY <1>1, <3>0, <3>1 DEF Chain
      <3>3. ASSUME NEW c \in DOMAIN s PROVE c <= b \/ s[b].next <= c
        <4>1. CASE c \in DOMAIN m
          BY <3>0, <3>1, <4>1 DEF Chain
        <4>2. CASE c = a2
          <5>1. a <= b \/ m[b].next <= a
            BY <2>3, <3>0 DEF Chain
          <5>2. b <= a \/ m[a].next <= b
            BY <3>0, <1>2
          <5> QED
            BY <1>2, <2>3, <3>0, <3>1, <4>2, <5>1, <5>2, HeapEndNat
        <4> QED
          BY <1>1, <4>1, <4>2
      <3>4. ASSUME b # 0 PROVE s[b].prev \in DOMAIN s /\ s[s[b].prev].next = b
        <4>1. m[b].prev \in DOMAIN m /\ m[m[b].prev].next = b
          BY <3>0, <3>4 DEF Chain
        <4>2. CASE b = m[a].next
          BY <1>1, <1>4, <3>0, <4>2
        <4>3. CASE b # m[a].next
          BY <1>1, <3>0, <4>1, <4>3
        <4> QED
          BY <4>2, <4>3
      <3> QED
        BY <3>2, <3>3, <3>4
    <2> QED
      BY <2>1, <2>2, <2>3
  <1>6. s[0].prev = 0
    <2>1. m[a].next # 0
      BY <1>2, HeapEndNat
    <2> QED
      BY <1>1, <2>1 DEF Chain
  <1> QED
    BY <1>1, <1>3, <1>5, <1>6 DEF Chain

----------------------------------------------------------------------------
(* plug_holes                                                               *)

\* Two blocks do not have the same block behind them.
LEMMA OneBefore ==
  ASSUME NEW m, Chain(m), NEW a \in DOMAIN m \ {heap_end}, NEW b \in DOMAIN m \ {heap_end},
         m[a].next = m[b].next
  PROVE  a = b
  <1>1. a \in Nat /\ b \in Nat /\ m[a].next > a /\ m[b].next > b /\ m[a].next \in Nat
    BY HeapEndNat DEF Chain, Headers
  <1>2. b <= a \/ m[a].next <= b
    BY DEF Chain
  <1>3. a <= b \/ m[b].next <= a
    BY DEF Chain
  <1> QED
    BY <1>1, <1>2, <1>3

\* What every user of plug_forward may count on.
LEMMA Forward ==
  ASSUME NEW m, Chain(m), NEW l, Lfree(m, l), NEW a \in Free(m), NoHolesBut(m, a),
         NEW h, h = plug_forward([mem |-> m, lfree |-> l], a)
  PROVE  /\ Chain(h.mem) /\ Lfree(h.mem, h.lfree) /\ a \in Free(h.mem)
         /\ NoHolesBefore(h.mem, a) /\ h.mem[h.mem[a].next].used
         /\ Used(h.mem) = Used(m)
  <1> DEFINE n == m[a].next
             j == Join(m, a, n)
  <1>0. /\ a \in DOMAIN m \ {heap_end} /\ n \in DOMAIN m /\ n # a /\ ~m[a].used
        /\ \A b \in DOMAIN m : m[b].used \in BOOLEAN
    BY HeapEndNat DEF Chain, Free, Headers
  <1>1. CASE ~m[n].used /\ n # heap_end
    <2>1. h = [mem |-> j, lfree |-> IF l = n THEN a ELSE l]
      BY <1>0, <1>1 DEF plug_forward
    <2>2. Chain(j)
      BY <1>0, <1>1, JoinChain
    <2>3. /\ DOMAIN j = DOMAIN m \ {n}
          /\ j \in [DOMAIN j -> Headers]
          /\ \A b \in DOMAIN j :
               /\ j[b].next = IF b = a THEN m[n].next ELSE m[b].next
               /\ b # heap_end => j[b].prev = IF b # a /\ b = m[n].next THEN a ELSE m[b].prev
               /\ j[b].used = m[b].used
      <3>1. Joined(j, m, a, n)
        BY <1>0, <1>1, JoinFields
      <3> QED
        BY <3>1 DEF Joined
    <2>4. Free(j) = Free(m) \ {n} /\ a \in Free(j)
      BY <1>0, <2>3 DEF Free
    <2>5. Used(j) = Used(m)
      BY <1>0, <1>1, <2>3, <2>4 DEF Used, Free
    <2>6. m[n].next \in DOMAIN m /\ m[n].next # a /\ m[n].next # n
      BY <1>0, <1>1, HeapEndNat DEF Chain, Headers
    <2>7. m[m[n].next].used
      BY <1>0, <1>1, <2>6 DEF NoHolesBut, Free
    <2>8. j[j[a].next].used
      BY <1>0, <2>3, <2>6, <2>7
    <2>9. NoHolesBefore(j, a)
      <3>1. SUFFICES ASSUME NEW b \in Free(j) PROVE j[j[b].next].used \/ j[b].next = a
        BY DEF NoHolesBefore
      <3>2. CASE b = a
        BY <2>8, <3>2
      <3>3. CASE b # a
        <4>1. b \in Free(m) /\ b \in DOMAIN j /\ j[b].next = m[b].next
          BY <2>3, <2>4, <3>3 DEF Free
        <4>2. b \in DOMAIN m \ {heap_end}
          BY <4>1 DEF Free, Chain
        <4>3. m[b].next # n /\ m[b].next \in DOMAIN m
          BY <1>0, <3>3, <4>2, OneBefore DEF Chain
        <4>4. m[m[b].next].used \/ m[b].next = a
          BY <3>3, <4>1 DEF NoHolesBut
        <4> QED
          BY <2>3, <4>1, <4>3, <4>4
      <3> QED
        BY <3>2, <3>3
    <2>10. Lfree(j, IF l = n THEN a ELSE l)
      BY <2>4 DEF Lfree
    <2> QED
      BY <2>1, <2>2, <2>4, <2>5, <2>8, <2>9, <2>10
  <1>2. CASE m[n].used \/ n = heap_end
    <2>1. m[n].used
      BY <1>2 DEF Chain
    <2>2. h = [mem |-> m, lfree |-> l]
      BY <1>0, <2>1 DEF plug_forward
    <2>3. NoHolesBefore(m, a)
      BY <2>1 DEF NoHolesBefore, NoHolesBut
    <2> QED
      BY <2>1, <2>2, <2>3
  <1> QED
    BY <1>0, <1>1, <1>2

\* plug_backward takes care of the only pair of free neighbours that is left.
LEMMA Backward ==
  ASSUME NEW m, Chain(m), NEW l, Lfree(m, l), NEW a \in Free(m),
         NoHolesBefore(m, a), m[m[a].next].used,
         NEW g, g = plug_backward([mem |-> m, lfree |-> l], a)
  PROVE  Chain(g.mem) /\ Lfree(g.mem, g.lfree) /\ NoHoles(g.mem) /\ Used(g.mem) = Used(m)
  <1> DEFINE p == m[a].prev
             j == Join(m, p, a)
  <1>0. /\ a \in DOMAIN m \ {heap_end} /\ ~m[a].used /\ m[a].next \in DOMAIN m
        /\ \A b \in DOMAIN m : m[b].used \in BOOLEAN
    BY DEF Chain, Free, Headers
  <1>1. CASE p # a /\ ~m[p].used
    <2>0. a # 0
      BY <1>1 DEF Chain
    <2>1. p \in DOMAIN m \ {heap_end} /\ m[p].next = a
      BY <1>0, <1>1, <2>0 DEF Chain
    <2>2. g = [mem |-> j, lfree |-> IF l = a THEN p ELSE l]
      BY <1>1 DEF plug_backward
    <2>3. Chain(j)
      BY <1>0, <2>1, JoinChain
    <2>4. /\ DOMAIN j = DOMAIN m \ {a}
          /\ j \in [DOMAIN j -> Headers]
          /\ \A b \in DOMAIN j :
               /\ j[b].next = IF b = p THEN m[a].next ELSE m[b].next
               /\ b # heap_end => j[b].prev = IF b # p /\ b = m[a].next THEN p ELSE m[b].prev
               /\ j[b].used = m[b].used
      <3>1. Joined(j, m, p, a)
        BY <1>0, <2>1, JoinFields
      <3> QED
        BY <3>1 DEF Joined
    <2>5. Free(j) = Free(m) \ {a} /\ p \in Free(j)
      BY <1>0, <1>1, <2>1, <2>4 DEF Free
    <2>6. Used(j) = Used(m)
      BY <1>0, <2>4, <2>5 DEF Used, Free
    <2>7. m[a].next # a /\ m[m[a].next].used
      BY <1>0
    <2>8. NoHoles(j)
      <3>1. SUFFICES ASSUME NEW b \in Free(j) PROVE j[j[b].next].used
        BY DEF NoHoles
      <3>2. CASE b = p
        BY <1>0, <2>1, <2>4, <2>7, <3>2 DEF Free
      <3>3. CASE b # p
        <4>1. b \in Free(m) /\ b \in DOMAIN j /\ j[b].next = m[b].next
          BY <2>4, <2>5, <3>3 DEF Free
        <4>2. b \in DOMAIN m \ {heap_end}
          BY <4>1 DEF Free, Chain
        <4>3. m[b].next # a /\ m[b].next \in DOMAIN m
          BY <2>1, <3>3, <4>2, OneBefore DEF Chain
        <4>4. m[m[b].next].used
          BY <4>1, <4>3 DEF NoHolesBefore
        <4> QED
          BY <2>4, <4>1, <4>3, <4>4
      <3> QED
        BY <3>2, <3>3
    <2>9. Lfree(j, IF l = a THEN p ELSE l)
      BY <2>5 DEF Lfree
    <2> QED
      BY <2>2, <2>3, <2>6, <2>8, <2>9
  <1>2. CASE p = a \/ m[p].used
    <2>1. g = [mem |-> m, lfree |-> l]
      BY <1>2 DEF plug_backward
    <2>2. NoHoles(m)
      <3>1. SUFFICES ASSUME NEW b \in Free(m), m[b].next = a PROVE FALSE
        BY DEF NoHoles, NoHolesBefore
      <3>2. b \in DOMAIN m \ {heap_end} /\ ~m[b].used /\ b \in Nat
        BY DEF Free, Chain
      <3>3. a # 0
        BY <3>1, <3>2, HeapEndNat DEF Chain
      <3>4. p \in DOMAIN m /\ m[p].next = a
        BY <1>0, <3>3 DEF Chain
      <3>5. CASE p = a
        BY <1>0, <3>4, <3>5, HeapEndNat DEF Chain, Headers
      <3>6. CASE m[p].used /\ p # heap_end
        BY <3>1, <3>2, <3>4, <3>6, OneBefore
      <3>7. CASE p = heap_end
        BY <1>0, <3>4, <3>7, HeapEndNat DEF Chain, Headers
      <3> QED
        BY <1>2, <3>5, <3>6, <3>7
    <2> QED
      BY <2>1, <2>2
  <1> QED
    BY <1>1, <1>2

\* plug_holes merges the free block a with its neighbours.
LEMMA PlugHoles ==
  ASSUME NEW m, Chain(m), NEW l, Lfree(m, l), NEW a \in Free(m), NoHolesBut(m, a),
         NEW g, g = plug_holes([mem |-> m, lfree |-> l], a)
  PROVE  Chain(g.mem) /\ Lfree(g.mem, g.lfree) /\ NoHoles(g.mem) /\ Used(g.mem) = Used(m)
  <1> DEFINE h == plug_forward([mem |-> m, lfree |-> l], a)
  <1> HIDE DEF h
  <1>1. /\ Chain(h.mem) /\ Lfree(h.mem, h.lfree) /\ a \in Free(h.mem)
        /\ NoHolesBefore(h.mem, a) /\ h.mem[h.mem[a].next].used
        /\ Used(h.mem) = Used(m)
    <2>1. h = plug_forward([mem |-> m, lfree |-> l], a)
      BY DEF h
    <2> QED
      BY <2>1, Forward
  <1>2. g = plug_backward([mem |-> h.mem, lfree |-> h.lfree], a)
    <2>1. h = [mem |-> h.mem, lfree |-> h.lfree]
      BY DEF h, plug_forward
    <2> QED
      BY <2>1 DEF h, plug_holes
  <1> QED
    BY <1>1, <1>2, Backward

----------------------------------------------------------------------------
(* What plug_holes does to the blocks in use                                *)

\* k has the blocks in use of m as they were, and free blocks of m only.
SameUsed(k, m) ==
  /\ DOMAIN k \subseteq DOMAIN m /\ Used(m) \subseteq DOMAIN k
  /\ \A b \in Used(m) : k[b].next = m[b].next

\* Joining a block to a free one before it leaves the blocks in use alone.
LEMMA JoinSameUsed ==
  ASSUME NEW m, Chain(m), NEW a \in DOMAIN m \ {heap_end}, ~m[a].used,
         m[a].next # heap_end, ~m[m[a].next].used
  PROVE  SameUsed(Join(m, a, m[a].next), m)
  <1> DEFINE n == m[a].next
             j == Join(m, a, n)
  <1>1. Joined(j, m, a, n)
    BY JoinFields
  <1>2. n \in DOMAIN m
    BY DEF Chain
  <1> HIDE DEF n, j
  <1>3. DOMAIN j = DOMAIN m \ {n}
    BY <1>1 DEF Joined
  <1>4. a \notin Used(m) /\ n \notin Used(m) /\ Used(m) \subseteq DOMAIN m
    BY <1>2 DEF Used, Free, n
  <1>5. \A b \in Used(m) : j[b].next = m[b].next
    BY <1>1, <1>3, <1>4 DEF Joined
  <1>6. SameUsed(j, m)
    BY <1>3, <1>4, <1>5 DEF SameUsed
  <1> QED  BY <1>6 DEF j, n

LEMMA ForwardSameUsed ==
  ASSUME NEW m, Chain(m), NEW l \in Nat, NEW a \in Free(m),
         NEW h, h = plug_forward([mem |-> m, lfree |-> l], a)
  PROVE  SameUsed(h.mem, m) /\ h.lfree \in Nat /\ h.lfree <= l
  <1> DEFINE n == m[a].next
  <1>0. /\ a \in DOMAIN m \ {heap_end} /\ ~m[a].used /\ a \in Nat /\ n \in Nat /\ a < n
    BY HeapEndNat DEF Chain, Free, Headers
  <1>1. CASE ~m[n].used /\ n # heap_end
    <2>1. h = [mem |-> Join(m, a, n), lfree |-> IF l = n THEN a ELSE l]
      BY <1>0, <1>1 DEF plug_forward
    <2>2. SameUsed(Join(m, a, n), m)
      BY <1>0, <1>1, JoinSameUsed
    <2>3. h.mem = Join(m, a, n) /\ h.lfree = IF l = n THEN a ELSE l
      BY <2>1
    <2> QED  BY <1>0, <2>2, <2>3
  <1>2. CASE m[n].used \/ n = heap_end
    <2>1. h = [mem |-> m, lfree |-> l]
      BY <1>2 DEF plug_forward
    <2> QED  BY <2>1 DEF SameUsed, Used
  <1> QED  BY <1>1, <1>2

LEMMA BackwardSameUsed ==
  ASSUME NEW m, Chain(m), NEW l \in Nat, NEW a \in Free(m),
         NEW g, g = plug_backward([mem |-> m, lfree |-> l], a)
  PROVE  SameUsed(g.mem, m) /\ g.lfree \in Nat /\ g.lfree <= l
  <1> DEFINE p == m[a].prev
  <1>0. a \in DOMAIN m \ {heap_end} /\ ~m[a].used /\ a \in Nat
    BY DEF Chain, Free
  <1>1. CASE p # a /\ ~m[p].used
    <2>1. g = [mem |-> Join(m, p, a), lfree |-> IF l = a THEN p ELSE l]
      BY <1>1 DEF plug_backward
    <2>2. p \in DOMAIN m \ {heap_end} /\ m[p].next = a
      BY <1>0, <1>1 DEF Chain
    <2>3. p \in Nat /\ p < a
      BY <1>0, <2>2, HeapEndNat DEF Chain
    <2>4. SameUsed(Join(m, p, a), m)
      BY <1>0, <1>1, <2>2, JoinSameUsed
    <2>5. g.mem = Join(m, p, a) /\ g.lfree = IF l = a THEN p ELSE l
      BY <2>1
    <2> QED  BY <1>0, <2>3, <2>4, <2>5
  <1>2. CASE p = a \/ m[p].used
    <2>1. g = [mem |-> m, lfree |-> l]
      BY <1>2 DEF plug_backward
    <2> QED  BY <2>1 DEF SameUsed, Used
  <1> QED  BY <1>1, <1>2

\* plug_holes leaves the blocks in use alone and never moves lfree up.
LEMMA PlugSameUsed ==
  ASSUME NEW m, Chain(m), NEW l, Lfree(m, l), NEW a \in Free(m), NoHolesBut(m, a),
         NEW g, g = plug_holes([mem |-> m, lfree |-> l], a)
  PROVE  SameUsed(g.mem, m) /\ Used(g.mem) = Used(m) /\ g.lfree <= l
  <1>0. l \in Nat
    BY HeapEndNat DEF Lfree, Free, Chain
  <1>1. PICK h : h = plug_forward([mem |-> m, lfree |-> l], a)
    OBVIOUS
  <1>2. Chain(h.mem) /\ a \in Free(h.mem) /\ Used(h.mem) = Used(m)
    BY <1>1, Forward
  <1>3. SameUsed(h.mem, m) /\ h.lfree \in Nat /\ h.lfree <= l
    BY <1>0, <1>1, ForwardSameUsed
  <1>4. g = plug_backward([mem |-> h.mem, lfree |-> h.lfree], a)
    <2>1. h = [mem |-> h.mem, lfree |-> h.lfree]
      BY <1>1 DEF plug_forward
    <2> QED
      BY <1>1, <2>1 DEF plug_holes
  <1>5. SameUsed(g.mem, h.mem) /\ g.lfree \in Nat /\ g.lfree <= h.lfree
    BY <1>2, <1>3, <1>4, BackwardSameUsed
  <1>6. SameUsed(g.mem, m)
    BY <1>2, <1>3, <1>5 DEF SameUsed
  <1>7. Used(g.mem) = Used(m)
    BY PlugHoles
  <1> QED  BY <1>0, <1>3, <1>5, <1>6, <1>7

----------------------------------------------------------------------------
(* The used flag and the rounding of sizes                                  *)

\* s is m but for the used flag of block a.
Marked(s, m, a, u) ==
  /\ Chain(s) /\ DOMAIN s = DOMAIN m
  /\ \A b \in DOMAIN m : s[b].next = m[b].next /\ (b # a => s[b].used = m[b].used)
  /\ s[a].used = u

\* A change of the used flag of a block leaves the chain as it is.
LEMMA SetUsed ==
  ASSUME NEW m, Chain(m), NEW a \in DOMAIN m \ {heap_end}, NEW u \in BOOLEAN,
         NEW s, s = [m EXCEPT ![a].used = u]
  PROVE  Marked(s, m, a, u)
  <1>1. DOMAIN s = DOMAIN m /\ m \in [DOMAIN m -> Headers]
    BY DEF Chain
  <1>2. ASSUME NEW b \in DOMAIN m
        PROVE  /\ s[b] \in Headers /\ s[b].next = m[b].next /\ s[b].prev = m[b].prev
               /\ b # a => s[b].used = m[b].used
    <2>1. m[b] \in Headers
      BY <1>1
    <2>2. CASE b = a
      BY <1>1, <2>1, <2>2 DEF Headers
    <2>3. CASE b # a
      BY <1>1, <2>1, <2>3 DEF Headers
    <2> QED
      BY <2>2, <2>3
  <1>3. s[a].used = u
    BY <1>1 DEF Headers
  <1>4. s \in [DOMAIN s -> Headers]
    BY <1>1, <1>2
  <1>5. Chain(s)
    BY <1>1, <1>2, <1>4 DEF Chain
  <1> QED
    BY <1>1, <1>2, <1>3, <1>5 DEF Marked

LEMMA DivTimes ==
  ASSUME NEW x \in Nat, NEW d \in Nat \ {0}
  PROVE  (x \div d) * d \in Nat /\ (x \div d) * d + d > x
  <1>1. x = d * (x \div d) + (x % d) /\ x % d < d /\ x \div d \in Nat /\ x % d \in Nat
    BY SMT
  <1> QED
    BY <1>1

LEMMA AlignUp ==
  ASSUME NEW n \in Nat
  PROVE  RT_ALIGN(n) \in Nat /\ RT_ALIGN(n) >= n
  <1> DEFINE x == n + RT_ALIGN_SIZE - 1
             y == (x \div RT_ALIGN_SIZE) * RT_ALIGN_SIZE
  <1>1. x \in Nat /\ RT_ALIGN_SIZE \in Nat \ {0}
    BY RtMemAssumption
  <1> HIDE DEF x
  <1>2. y \in Nat /\ y + RT_ALIGN_SIZE > x
    BY <1>1, DivTimes
  <1>3. RT_ALIGN(n) = y
    BY DEF RT_ALIGN, x
  <1> HIDE DEF y
  <1> QED
    BY <1>1, <1>2, <1>3 DEF x

\* A request needs some bytes.
LEMMA NeedPositive ==
  ASSUME NEW size \in Nat
  PROVE  Need(size) \in Nat \ {0} /\ MIN_SIZE_ALIGNED \in Nat \ {0}
  <1>1. MIN_SIZE_ALIGNED \in Nat \ {0}
    BY AlignUp, RtMemAssumption DEF MIN_SIZE_ALIGNED
  <1>2. RT_ALIGN(size) \in Nat
    BY AlignUp
  <1> QED
    BY <1>1, <1>2 DEF Need

----------------------------------------------------------------------------
(* The steps on the chain                                                   *)

\* The inductive part that concerns the chain.
HeapInv ==
  /\ Chain(mem) /\ NoHoles(mem) /\ Lfree(mem, lfree)
  /\ Used(mem) = DOMAIN held \cup {heap_end} /\ heap_end \notin DOMAIN held

\* s is the heap after block a, or its first need bytes, has been taken.
Taken(s, a, need) ==
  /\ DOMAIN s \subseteq DOMAIN mem \cup {a + SIZEOF_STRUCT_MEM + need}
  /\ \A b \in DOMAIN mem \ {a} : s[b].next = mem[b].next
  /\ s[a].next = a + SIZEOF_STRUCT_MEM + need \/ s[a].next = mem[a].next

\* A block may be taken whole or split.
LEMMA TakeStep ==
  ASSUME HeapInv, NEW a \in Free(mem), NEW need \in Nat \ {0}
  PROVE  /\ Chain(Take(a, need)) /\ NoHoles(Take(a, need))
         /\ Free(mem) \ {a} \subseteq Free(Take(a, need))
         /\ Used(Take(a, need)) = Used(mem) \cup {a}
         /\ Taken(Take(a, need), a, need)
  <1> DEFINE a2 == a + SIZEOF_STRUCT_MEM + need
             whole == ~(DataSize(mem, a) >= need + SIZEOF_STRUCT_MEM + MIN_SIZE_ALIGNED)
             m == IF whole THEN mem ELSE Split(mem, a, a2)
             s == [m EXCEPT ![a].used = TRUE]
  <1>0. Take(a, need) = s
    BY DEF Take
  <1>1. /\ a \in DOMAIN mem \ {heap_end} /\ Chain(mem) /\ NoHoles(mem) /\ ~mem[a].used
        /\ a \in Nat /\ mem[a].next \in Nat /\ mem[a].next \in DOMAIN mem
        /\ mem[a].next # a
    BY HeapEndNat DEF HeapInv, Free, Chain, Headers
  <1>2. CASE whole
    <2>1. m = mem
      BY <1>2
    <2>2. /\ Chain(s) /\ DOMAIN s = DOMAIN mem
          /\ \A b \in DOMAIN mem : s[b].next = mem[b].next /\ (b # a => s[b].used = mem[b].used)
          /\ s[a].used = TRUE
      <3> HIDE DEF m, s
      <3>1. s = [mem EXCEPT ![a].used = TRUE]
        BY <2>1 DEF s
      <3>2. Marked(s, mem, a, TRUE)
        BY <1>1, <3>1, SetUsed
      <3> QED
        BY <3>2 DEF Marked
    <2> HIDE DEF m, s
    <2>3. Free(s) = Free(mem) \ {a}
      BY <1>1, <2>2 DEF Free
    <2>4. NoHoles(s)
      <3>1. SUFFICES ASSUME NEW b \in Free(s) PROVE s[s[b].next].used
        BY DEF NoHoles
      <3>2. b \in Free(mem) /\ b \in DOMAIN mem \ {heap_end}
        BY <1>1, <2>3 DEF Free, Chain
      <3>3. s[b].next = mem[b].next /\ mem[b].next \in DOMAIN mem /\ mem[mem[b].next].used
        BY <1>1, <2>2, <3>2 DEF NoHoles, Chain
      <3> QED
        BY <2>2, <3>3
    <2>5. Used(s) = Used(mem) \cup {a}
      BY <1>1, <2>2, <2>3 DEF Used
    <2>6. Taken(s, a, need)
      BY <1>1, <2>2 DEF Taken
    <2> QED
      BY <1>0, <2>2, <2>3, <2>4, <2>5, <2>6
  <1>3. CASE ~whole
    <2>1. m = Split(mem, a, a2)
      BY <1>3
    <2>2. a2 \in Nat /\ a + SIZEOF_STRUCT_MEM < a2 /\ a2 + SIZEOF_STRUCT_MEM < mem[a].next
      <3>1. need \in Nat /\ need > 0 /\ MIN_SIZE_ALIGNED \in Nat /\ MIN_SIZE_ALIGNED > 0
        BY AlignUp, RtMemAssumption DEF MIN_SIZE_ALIGNED
      <3> QED
        BY <1>1, <1>3, <3>1, HeapEndNat DEF DataSize
    <2> HIDE DEF m, a2
    <2>3. Chain(m)
      BY <1>1, <2>1, <2>2, SplitChain
    <2>4. /\ a2 \notin DOMAIN mem
          /\ DOMAIN m = DOMAIN mem \cup {a2}
          /\ m[a2] = [next |-> mem[a].next, prev |-> a, used |-> FALSE]
          /\ \A b \in DOMAIN mem :
               /\ m[b].next = IF b = a THEN a2 ELSE mem[b].next
               /\ m[b].used = mem[b].used
      <3>1. SplitInto(m, mem, a, a2)
        BY <1>1, <2>1, <2>2, SplitFields
      <3> QED
        BY <3>1 DEF SplitInto
    <2>5. /\ Chain(s) /\ DOMAIN s = DOMAIN m
          /\ \A b \in DOMAIN m : s[b].next = m[b].next /\ (b # a => s[b].used = m[b].used)
          /\ s[a].used = TRUE
      <3> HIDE DEF s
      <3>1. s = [m EXCEPT ![a].used = TRUE] /\ a \in DOMAIN m \ {heap_end}
        BY <1>1, <2>4 DEF s
      <3>2. Marked(s, m, a, TRUE)
        BY <2>3, <3>1, SetUsed
      <3> QED
        BY <3>2 DEF Marked
    <2> HIDE DEF s
    <2>6. Free(s) = (Free(mem) \ {a}) \cup {a2}
      BY <1>1, <2>4, <2>5 DEF Free
    <2>7. NoHoles(s)
      <3>1. SUFFICES ASSUME NEW b \in Free(s) PROVE s[s[b].next].used
        BY DEF NoHoles
      <3>2. CASE b = a2
        <4>1. s[b].next = mem[a].next
          BY <2>4, <2>5, <3>2
        <4>2. mem[mem[a].next].used
          BY <1>1 DEF NoHoles
        <4> QED
          BY <1>1, <2>4, <2>5, <4>1, <4>2
      <3>3. CASE b # a2
        <4>1. b \in Free(mem) /\ b \in DOMAIN mem \ {heap_end} /\ b # a
          BY <1>1, <2>6, <3>3 DEF Free, Chain
        <4>2. /\ s[b].next = mem[b].next /\ mem[b].next \in DOMAIN mem
              /\ mem[mem[b].next].used
          BY <1>1, <2>4, <2>5, <4>1 DEF NoHoles, Chain
        <4> QED
          BY <2>4, <2>5, <4>2
      <3> QED
        BY <3>2, <3>3
    <2>8. Used(s) = Used(mem) \cup {a}
      BY <1>1, <2>4, <2>5, <2>6 DEF Used, Free
    <2>9. Taken(s, a, need)
      BY <1>1, <2>4, <2>5 DEF Taken, a2
    <2> QED
      BY <1>0, <2>5, <2>6, <2>7, <2>8, <2>9
  <1> QED
    BY <1>2, <1>3

\* Taking a block of the search keeps the chain, and lfree in it.
LEMMA MallocStep ==
  ASSUME HeapInv, NEW size \in Nat, Malloc(size)
  PROVE  HeapInv' /\ DOMAIN held \subseteq DOMAIN held'
  <1> DEFINE need == Need(size)
  <1>0. need \in Nat \ {0}
    BY NeedPositive
  <1> HIDE DEF need
  <1>1. PICK a \in Free(mem) :
          /\ mem' = Take(a, need) /\ lfree' \in NextFree(mem', a)
          /\ held' = [b \in DOMAIN held \cup {a} |-> IF b = a THEN size ELSE held[b]]
    BY DEF Malloc, Lowest, Fitting, need
  <1>2. /\ Chain(mem') /\ NoHoles(mem') /\ Free(mem) \ {a} \subseteq Free(mem')
        /\ Used(mem') = Used(mem) \cup {a}
    BY <1>0, <1>1, TakeStep
  <1>3. DOMAIN held' = DOMAIN held \cup {a}
    BY <1>1
  <1>4. a # heap_end
    BY DEF HeapInv, Chain, Free
  <1>5. Lfree(mem', lfree')
    <2>1. CASE a = lfree
      BY <1>1, <2>1 DEF NextFree, Lowest, Lfree
    <2>2. CASE a # lfree
      BY <1>1, <1>2, <2>2 DEF NextFree, Lfree, HeapInv
    <2> QED
      BY <2>1, <2>2
  <1>6. Used(mem') = DOMAIN held' \cup {heap_end} /\ heap_end \notin DOMAIN held'
    BY <1>2, <1>3, <1>4 DEF HeapInv
  <1> QED
    BY <1>2, <1>3, <1>5, <1>6 DEF HeapInv

\* Giving a block back keeps the chain: the pairs of free neighbours this makes
\* are the ones plug_holes looks at.
LEMMA ReleaseStep ==
  ASSUME HeapInv, NEW a \in DOMAIN held, Release(a)
  PROVE  /\ HeapInv' /\ DOMAIN held' = DOMAIN held \ {a}
         /\ DOMAIN mem' \subseteq DOMAIN mem
         /\ \A b \in DOMAIN held' : mem'[b].next = mem[b].next
         /\ Free(mem') \subseteq Free(mem) \cup {a}
         /\ lfree' <= IF a < lfree THEN a ELSE lfree
  <1> DEFINE s == [mem EXCEPT ![a].used = FALSE]
             l == IF a < lfree THEN a ELSE lfree
             g == plug_holes([mem |-> s, lfree |-> l], a)
  <1>1. /\ Chain(mem) /\ NoHoles(mem) /\ a \in DOMAIN mem \ {heap_end} /\ a \notin Free(mem)
    BY DEF HeapInv, Used, Free
  <1>2. mem' = g.mem /\ lfree' = g.lfree /\ DOMAIN held' = DOMAIN held \ {a}
    BY DEF Release, Freed
  <1>3. Marked(s, mem, a, FALSE)
    <2> HIDE DEF s
    <2>1. s = [mem EXCEPT ![a].used = FALSE]
      BY DEF s
    <2> QED
      BY <1>1, <2>1, SetUsed
  <1> HIDE DEF s
  <1>4. /\ Chain(s) /\ DOMAIN s = DOMAIN mem
        /\ \A b \in DOMAIN mem : s[b].next = mem[b].next /\ (b # a => s[b].used = mem[b].used)
        /\ s[a].used = FALSE
    BY <1>3 DEF Marked
  <1>5. Free(s) = Free(mem) \cup {a}
    BY <1>1, <1>4 DEF Free
  <1>6. NoHolesBut(s, a)
    <2>1. SUFFICES ASSUME NEW b \in Free(mem), b # a, mem[b].next # a
                   PROVE  s[s[b].next].used
      BY <1>4, <1>5 DEF NoHolesBut, Free
    <2>2. b \in DOMAIN mem \ {heap_end}
      BY <1>1 DEF Free, Chain
    <2>3. s[b].next = mem[b].next /\ mem[b].next \in DOMAIN mem /\ mem[mem[b].next].used
      BY <1>1, <1>4, <2>2 DEF NoHoles, Chain
    <2> QED
      BY <1>4, <2>1, <2>3
  <1>7. Lfree(s, l)
    BY <1>5 DEF Lfree, HeapInv
  <1> HIDE DEF l, g
  <1>8. /\ Chain(g.mem) /\ Lfree(g.mem, g.lfree) /\ NoHoles(g.mem) /\ Used(g.mem) = Used(s)
        /\ SameUsed(g.mem, s) /\ g.lfree <= l
    <2>1. g = plug_holes([mem |-> s, lfree |-> l], a) /\ a \in Free(s)
      BY <1>5 DEF g
    <2> QED
      BY <1>4, <1>6, <1>7, <2>1, PlugHoles, PlugSameUsed
  <1>9. Used(s) = Used(mem) \ {a}
    BY <1>1, <1>4, <1>5 DEF Used, Free
  <1>10. Used(mem') = DOMAIN held' \cup {heap_end} /\ heap_end \notin DOMAIN held'
    BY <1>1, <1>2, <1>8, <1>9 DEF HeapInv
  <1>11. HeapInv'
    BY <1>2, <1>8, <1>10 DEF HeapInv
  <1>12. DOMAIN mem' \subseteq DOMAIN mem /\ Free(mem') \subseteq Free(mem) \cup {a}
    <2>1. DOMAIN mem' \subseteq DOMAIN s /\ Used(mem') = Used(s)
      BY <1>2, <1>8 DEF SameUsed
    <2>2. Free(mem') \subseteq Free(s)
      BY <2>1 DEF Used, Free
    <2> QED  BY <1>4, <1>5, <2>1, <2>2
  <1>13. ASSUME NEW b \in DOMAIN held' PROVE mem'[b].next = mem[b].next
    <2>1. b \in Used(s) /\ b \in DOMAIN mem
      BY <1>2, <1>8, <1>10 DEF Used, SameUsed, HeapInv
    <2> QED  BY <1>2, <1>4, <1>8, <2>1 DEF SameUsed
  <1> QED
    BY <1>2, <1>8, <1>11, <1>12, <1>13 DEF l

\* Cutting the end off a block keeps the chain.
LEMMA ShrinkStep ==
  ASSUME HeapInv, NEW t \in Threads, NEW a \in DOMAIN held, NEW newsize \in Nat,
         ReallocShrink(t, a, newsize)
  PROVE  /\ HeapInv' /\ DOMAIN held' = DOMAIN held
         /\ DOMAIN mem' \subseteq DOMAIN mem \cup {a + SIZEOF_STRUCT_MEM + RT_ALIGN(newsize)}
         /\ \A b \in DOMAIN held \ {a} : mem'[b].next = mem[b].next
         /\ mem'[a].next = a + SIZEOF_STRUCT_MEM + RT_ALIGN(newsize)
         /\ mem'[a].next <= mem[a].next
  <1> DEFINE a2 == a + SIZEOF_STRUCT_MEM + RT_ALIGN(newsize)
             s == Split(mem, a, a2)
             g == plug_holes([mem |-> s, lfree |-> lfree], a2)
  <1>1. /\ Chain(mem) /\ NoHoles(mem) /\ a \in DOMAIN mem \ {heap_end} /\ a \notin Free(mem)
        /\ a \in Nat /\ mem[a].next \in Nat
    BY DEF HeapInv, Used, Free, Chain, Headers
  <1>2. mem' = g.mem /\ lfree' = g.lfree /\ DOMAIN held' = DOMAIN held
    BY DEF ReallocShrink
  <1>3. a2 \in Nat /\ a + SIZEOF_STRUCT_MEM < a2 /\ a2 + SIZEOF_STRUCT_MEM < mem[a].next
    <2>1. RT_ALIGN(newsize) \in Nat /\ RT_ALIGN(newsize) > 0
      BY AlignUp DEF ReallocShrink, InRange
    <2>2. RT_ALIGN(newsize) + SIZEOF_STRUCT_MEM + MIN_SIZE
            < mem[a].next - (a + SIZEOF_STRUCT_MEM)
      BY DEF ReallocShrink, Splits, DataSize
    <2> QED
      BY <1>1, <2>1, <2>2, HeapEndNat, RtMemAssumption
  <1> HIDE DEF a2
  <1>4. SplitInto(s, mem, a, a2) /\ Chain(s)
    <2> HIDE DEF s
    <2>1. s = Split(mem, a, a2)
      BY DEF s
    <2> QED
      BY <1>1, <1>3, <2>1, SplitFields, SplitChain
  <1> HIDE DEF s
  <1>5. /\ a2 \notin DOMAIN mem
        /\ DOMAIN s = DOMAIN mem \cup {a2}
        /\ s[a2] = [next |-> mem[a].next, prev |-> a, used |-> FALSE]
        /\ \A b \in DOMAIN mem :
             /\ s[b].next = IF b = a THEN a2 ELSE mem[b].next
             /\ s[b].used = mem[b].used
    BY <1>4 DEF SplitInto
  <1>6. Free(s) = Free(mem) \cup {a2}
    BY <1>5 DEF Free
  <1>7. NoHolesBut(s, a2)
    <2>1. SUFFICES ASSUME NEW b \in Free(mem) PROVE s[s[b].next].used
      BY <1>6 DEF NoHolesBut
    <2>2. b \in DOMAIN mem \ {heap_end} /\ b # a
      BY <1>1 DEF Free, Chain
    <2>3. s[b].next = mem[b].next /\ mem[b].next \in DOMAIN mem /\ mem[mem[b].next].used
      BY <1>1, <1>5, <2>2 DEF NoHoles, Chain
    <2> QED
      BY <1>5, <2>3
  <1>8. Lfree(s, lfree)
    BY <1>6 DEF Lfree, HeapInv
  <1> HIDE DEF g
  <1>9. /\ Chain(g.mem) /\ Lfree(g.mem, g.lfree) /\ NoHoles(g.mem) /\ Used(g.mem) = Used(s)
        /\ SameUsed(g.mem, s)
    <2>1. g = plug_holes([mem |-> s, lfree |-> lfree], a2) /\ a2 \in Free(s)
      BY <1>6 DEF g
    <2> QED
      BY <1>4, <1>7, <1>8, <2>1, PlugHoles, PlugSameUsed
  <1>10. Used(s) = Used(mem)
    BY <1>5, <1>6 DEF Used, Free
  <1>11. HeapInv'
    BY <1>2, <1>9, <1>10 DEF HeapInv
  <1>12. DOMAIN mem' \subseteq DOMAIN mem \cup {a2}
    BY <1>2, <1>5, <1>9 DEF SameUsed
  <1>13. \A b \in DOMAIN held : mem'[b].next = s[b].next /\ b \in DOMAIN mem
    BY <1>2, <1>9, <1>10 DEF SameUsed, HeapInv, Used
  <1>14. mem'[a].next = a2 /\ \A b \in DOMAIN held \ {a} : mem'[b].next = mem[b].next
    BY <1>5, <1>13
  <1>15. mem'[a].next <= mem[a].next
    BY <1>1, <1>3, <1>14, HeapEndNat
  <1> QED
    BY <1>2, <1>11, <1>12, <1>14, <1>15 DEF a2

----------------------------------------------------------------------------
(* The inductive invariant                                                  *)

Moves == [from : Nat, newsize : Nat, copied : BOOLEAN]

\* The block a thread is moving stays in use, and no other thread moves it.
MoveInv ==
  /\ moving \in [Threads -> Moves \cup {None}]
  /\ \A t \in Threads : ~Idle(t) => moving[t].from \in DOMAIN held
  /\ \A t, u \in Threads : ~Idle(t) /\ ~Idle(u) /\ t # u => moving[t].from # moving[u].from

IInv == HeapInv /\ MoveInv

LEMMA InitIInv == Init => IInv
  <1> SUFFICES ASSUME Init PROVE IInv
    OBVIOUS
  <1>1. DOMAIN mem = {0, heap_end} /\ DOMAIN held = {} /\ lfree = 0
    BY DEF Init
  <1>2. /\ mem[0] = [next |-> heap_end, prev |-> 0, used |-> FALSE]
        /\ mem[heap_end] = [next |-> heap_end, prev |-> heap_end, used |-> TRUE]
    <2>1. \A a \in {0, heap_end} : mem[a] = [next |-> heap_end, prev |-> a, used |-> a = heap_end]
      BY DEF Init
    <2>2. (0 = heap_end) = FALSE /\ (heap_end = heap_end) = TRUE
      BY HeapEndNat
    <2> QED
      BY <2>1, <2>2, Zenon
  <1>3. Free(mem) = {0}
    BY <1>1, <1>2 DEF Free
  <1>4. Chain(mem)
    <2>1. mem \in [DOMAIN mem -> Headers]
      BY <1>1, HeapEndNat DEF Init, Headers
    <2>2. heap_end > SIZEOF_STRUCT_MEM
      <3>1. mem_size_aligned > 0
        BY AlignUp, RtMemAssumption DEF MIN_SIZE_ALIGNED
      <3> QED
        BY <3>1, RtMemAssumption DEF heap_end
    <2> QED
      BY <1>1, <1>2, <2>1, <2>2, HeapEndNat DEF Chain
  <1>5. NoHoles(mem) /\ Lfree(mem, lfree)
    BY <1>1, <1>2, <1>3 DEF NoHoles, Lfree
  <1>6. Used(mem) = DOMAIN held \cup {heap_end} /\ heap_end \notin DOMAIN held
    BY <1>1, <1>3, HeapEndNat DEF Used
  <1>7. MoveInv
    BY DEF Init, MoveInv, Idle
  <1> QED
    BY <1>4, <1>5, <1>6, <1>7 DEF IInv, HeapInv

\* A call that gives back a block nobody moves leaves the moves as they are.
LEMMA ReleaseIInv ==
  ASSUME IInv, NEW a \in Passable, Release(a), UNCHANGED moving
  PROVE  IInv'
  <1>1. a \in DOMAIN held
    BY DEF Passable
  <1>2. HeapInv' /\ DOMAIN held' = DOMAIN held \ {a}
    BY <1>1, ReleaseStep DEF IInv
  <1>3. \A t \in Threads : ~Idle(t) => moving[t].from # a
    BY DEF Passable
  <1> QED
    BY <1>2, <1>3 DEF IInv, MoveInv, Idle

LEMMA MallocIInv ==
  ASSUME IInv, NEW t \in Threads, NEW size \in Nat, rt_malloc(t, size)
  PROVE  IInv'
  <1>1. CASE Malloc(size)
    <2>1. HeapInv' /\ DOMAIN held \subseteq DOMAIN held'
      BY <1>1, MallocStep DEF IInv
    <2> QED
      BY <2>1 DEF rt_malloc, IInv, MoveInv, Idle
  <1>2. CASE NoMemory(size)
    BY <1>2 DEF rt_malloc, NoMemory, IInv, HeapInv, MoveInv, Idle
  <1> QED
    BY <1>1, <1>2 DEF rt_malloc

LEMMA ReallocIInv ==
  ASSUME IInv, NEW t \in Threads, NEW a \in DOMAIN held, NEW newsize \in Nat,
         rt_realloc(t, a, newsize)
  PROVE  IInv'
  <1>1. CASE ReallocFree(t, a, newsize)
    BY <1>1, ReleaseIInv DEF ReallocFree
  <1>2. CASE ReallocTooLarge(t, a, newsize)
    BY <1>2 DEF ReallocTooLarge, IInv, HeapInv, MoveInv, Idle
  <1>3. CASE ReallocSame(t, a, newsize)
    <2>1. DOMAIN held' = DOMAIN held /\ UNCHANGED <<mem, lfree, moving>>
      BY <1>3 DEF ReallocSame
    <2> QED
      BY <2>1 DEF IInv, HeapInv, MoveInv, Idle
  <1>4. CASE ReallocShrink(t, a, newsize)
    <2>1. HeapInv' /\ DOMAIN held' = DOMAIN held
      BY <1>4, ShrinkStep DEF IInv
    <2>2. UNCHANGED moving
      BY <1>4 DEF ReallocShrink
    <2> QED
      BY <2>1, <2>2 DEF IInv, MoveInv, Idle
  <1>5. CASE ReallocMove(t, a, newsize)
    <2>1. /\ moving' = [moving EXCEPT ![t] = [from |-> a, newsize |-> RT_ALIGN(newsize),
                                             copied |-> FALSE]]
          /\ UNCHANGED <<mem, lfree, held>> /\ Idle(t) /\ a \in Passable
      BY <1>5 DEF ReallocMove
    <2>2. \A u \in Threads : ~Idle(u) => moving[u].from # a
      BY <2>1 DEF Passable
    <2>3. a \in Nat /\ RT_ALIGN(newsize) \in Nat
      BY AlignUp DEF IInv, HeapInv, Used, Chain
    <2>4. moving \in [Threads -> Moves \cup {None}]
      BY DEF IInv, MoveInv
    <2>5. moving' \in [Threads -> Moves \cup {None}]
      BY <2>1, <2>3, <2>4 DEF Moves
    <2>6. \A u \in Threads : moving'[u] = IF u = t THEN [from |-> a, newsize |-> RT_ALIGN(newsize),
                                                         copied |-> FALSE]
                                          ELSE moving[u]
      BY <2>1, <2>4
    <2>7. \A u \in Threads : ~Idle(u)' => moving'[u].from \in DOMAIN held'
      BY <2>1, <2>6 DEF IInv, MoveInv, Idle
    <2>8. \A u, v \in Threads : ~Idle(u)' /\ ~Idle(v)' /\ u # v => moving'[u].from # moving'[v].from
      BY <2>2, <2>6 DEF IInv, MoveInv, Idle
    <2> QED
      BY <2>1, <2>5, <2>7, <2>8 DEF IInv, HeapInv, MoveInv
  <1> QED
    BY <1>1, <1>2, <1>3, <1>4, <1>5 DEF rt_realloc

LEMMA MoveMallocIInv ==
  ASSUME IInv, NEW t \in Threads, MoveMalloc(t)
  PROVE  IInv'
  <1>1. /\ moving \in [Threads -> Moves \cup {None}] /\ moving[t] \in Moves
        /\ moving[t].newsize \in Nat
    BY DEF IInv, MoveInv, MoveMalloc, Idle, Moves
  <1>2. CASE /\ Malloc(moving[t].newsize)
             /\ moving' = [moving EXCEPT ![t].copied = TRUE]
    <2>1. HeapInv' /\ DOMAIN held \subseteq DOMAIN held'
      BY <1>1, <1>2, MallocStep DEF IInv
    <2>2. moving' \in [Threads -> Moves \cup {None}]
      BY <1>1, <1>2 DEF Moves
    <2>3. \A u \in Threads : moving'[u].from = moving[u].from /\ (~Idle(u)' => ~Idle(u))
      <3>1. ASSUME NEW u \in Threads
            PROVE  moving'[u].from = moving[u].from /\ (~Idle(u)' => ~Idle(u))
        <4>1. CASE u = t
          BY <1>1, <1>2, <4>1 DEF Moves, MoveMalloc, Idle
        <4>2. CASE u # t
          BY <1>1, <1>2, <4>2 DEF Idle
        <4> QED
          BY <4>1, <4>2
      <3> QED
        BY <3>1
    <2> QED
      BY <2>1, <2>2, <2>3 DEF IInv, MoveInv
  <1>3. CASE /\ NoMemory(moving[t].newsize)
             /\ moving' = [moving EXCEPT ![t] = None]
    <2>1. UNCHANGED <<mem, lfree, held>>
      BY <1>3 DEF NoMemory
    <2>2. \A u \in Threads : moving'[u] = IF u = t THEN None ELSE moving[u]
      BY <1>1, <1>3
    <2> QED
      BY <1>1, <1>3, <2>1, <2>2 DEF IInv, HeapInv, MoveInv, Idle
  <1> QED
    BY <1>2, <1>3 DEF MoveMalloc

LEMMA MoveFreeIInv ==
  ASSUME IInv, NEW t \in Threads, MoveFree(t)
  PROVE  IInv'
  <1> DEFINE a == moving[t].from
  <1>1. /\ moving \in [Threads -> Moves \cup {None}] /\ ~Idle(t) /\ a \in DOMAIN held
    BY DEF IInv, MoveInv, MoveFree
  <1>2. HeapInv' /\ DOMAIN held' = DOMAIN held \ {a}
    <2>1. Release(a)
      BY DEF MoveFree
    <2> HIDE DEF a
    <2> QED
      BY <1>1, <2>1, ReleaseStep DEF IInv
  <1>3. /\ moving' \in [Threads -> Moves \cup {None}]
        /\ \A u \in Threads : moving'[u] = IF u = t THEN None ELSE moving[u]
    BY <1>1 DEF MoveFree
  <1>4. \A u \in Threads : ~Idle(u)' => ~Idle(u) /\ u # t /\ moving'[u] = moving[u]
    BY <1>3 DEF Idle
  <1>5. \A u \in Threads : ~Idle(u)' => moving'[u].from \in DOMAIN held'
    BY <1>1, <1>2, <1>4 DEF IInv, MoveInv
  <1>6. \A u, v \in Threads : ~Idle(u)' /\ ~Idle(v)' /\ u # v => moving'[u].from # moving'[v].from
    BY <1>4 DEF IInv, MoveInv
  <1> QED
    BY <1>2, <1>3, <1>5, <1>6 DEF IInv, MoveInv

\* Every step keeps the inductive invariant.
LEMMA NextIInv == IInv /\ [Next]_vars => IInv'
  <1> SUFFICES ASSUME IInv, [Next]_vars PROVE IInv'
    OBVIOUS
  <1>1. CASE UNCHANGED vars
    BY <1>1 DEF vars, IInv, HeapInv, MoveInv, Idle
  <1>2. ASSUME NEW t \in Threads, NEW size \in Sizes, rt_malloc(t, size) PROVE IInv'
    BY <1>2, MallocIInv, RtMemAssumption
  <1>3. ASSUME NEW t \in Threads, NEW size \in Sizes, NEW count \in Counts,
               rt_calloc(t, count, size)
        PROVE  IInv'
    <2>1. count * size \in Nat
      BY RtMemAssumption
    <2> QED
      BY <1>3, <2>1, MallocIInv DEF rt_calloc
  <1>4. ASSUME NEW t \in Threads, NEW a \in DOMAIN held, rt_free(t, a) PROVE IInv'
    BY <1>4, ReleaseIInv DEF rt_free
  <1>5. ASSUME NEW t \in Threads, NEW a \in DOMAIN held, NEW size \in Sizes,
               rt_realloc(t, a, size)
        PROVE  IInv'
    BY <1>5, ReallocIInv, RtMemAssumption
  <1>6. ASSUME NEW t \in Threads, MoveMalloc(t) PROVE IInv'
    BY <1>6, MoveMallocIInv
  <1>7. ASSUME NEW t \in Threads, MoveFree(t) PROVE IInv'
    BY <1>7, MoveFreeIInv
  <1> QED
    BY <1>1, <1>2, <1>3, <1>4, <1>5, <1>6, <1>7 DEF Next

LEMMA IInvImpliesTiled == IInv => HeapTiled
  <1> SUFFICES ASSUME IInv PROVE HeapTiled
    OBVIOUS
  <1>1. Chain(mem) /\ Used(mem) = DOMAIN held \cup {heap_end}
    BY DEF IInv, HeapInv
  <1>2. ASSUME NEW a \in DOMAIN mem \ {heap_end} PROVE mem[a].used <=> a \in DOMAIN held
    <2>1. a \in Used(mem) <=> a \in DOMAIN held
      BY <1>1
    <2>2. mem[a].used \in BOOLEAN
      BY <1>1 DEF Chain, Headers
    <2> QED
      BY <2>1, <2>2 DEF Used, Free
  <1>3. DOMAIN held \subseteq DOMAIN mem
    BY <1>1 DEF Used
  <1> QED
    BY <1>1, <1>2, <1>3 DEF HeapTiled, Chain

\* Whatever the calls of any number of threads, rt_realloc that moves a block in
\* three steps included, the blocks follow each other without gap or overlap
\* from the start of the heap to heap_end, their links agree in both directions,
\* and a block is marked used exactly while the program has it.
THEOREM Tiled == Spec => []HeapTiled
  BY InitIInv, NextIInv, IInvImpliesTiled, PTL DEF Spec

\* Between two calls no two free blocks are neighbours, so that rt_malloc may take
\* a free block for all the free memory there, and lfree is the address of a
\* free block or of heap_end.
THEOREM Plugged == Spec => []HolesPlugged
  <1>1. IInv => HolesPlugged
    BY DEF IInv, HeapInv, HolesPlugged, NoHoles, Lfree
  <1> QED
    BY InitIInv, NextIInv, <1>1, PTL DEF Spec

----------------------------------------------------------------------------
(* The statistics: sums over the blocks the program has                     *)

Bytes(m, b) == m[b].next - b

Pick(s) == CHOOSE b \in s : TRUE

\* g is the sum of the blocks of m for each set of C, taken apart by Pick.
SumOn(g, m, C) ==
  g = [s \in C |-> IF s = {} THEN 0 ELSE Bytes(m, Pick(s)) + g[s \ {Pick(s)}]]

\* The sum of StatsExact.
Total(m, S) == (CHOOSE g : SumOn(g, m, SUBSET S))[S]

\* Every set of natural numbers has a least element: induction without an
\* operator as a parameter.
LEMMA LeastNat ==
  ASSUME NEW T, T \subseteq Nat, T # {}
  PROVE  \E n \in T : \A k \in T : n <= k
  <1>1. IsWellFoundedOn(OpToRel(<, Nat), Nat)
    BY NatLessThanWellFounded
  <1>2. PICK n \in T : \A k \in T : ~(<<k, n>> \in OpToRel(<, Nat))
    BY <1>1, WFMin
  <1>3. n \in Nat /\ \A k \in T : k \in Nat /\ ~(k < n)
    BY <1>2 DEF OpToRel
  <1>4. \A k \in T : n <= k
    BY <1>3
  <1> QED  BY <1>4

LEMMA PickFacts ==
  ASSUME NEW s, IsFiniteSet(s), s # {}
  PROVE  /\ Pick(s) \in s /\ IsFiniteSet(s \ {Pick(s)})
         /\ Cardinality(s) \in Nat \ {0}
         /\ Cardinality(s \ {Pick(s)}) = Cardinality(s) - 1
  <1>1. Pick(s) \in s
    BY DEF Pick
  <1>2. Cardinality(s) \in Nat /\ Cardinality(s) # 0
    BY FS_CardinalityType, FS_EmptySet
  <1>3. IsFiniteSet(s \ {Pick(s)}) /\ Cardinality(s \ {Pick(s)}) = Cardinality(s) - 1
    BY <1>1, FS_RemoveElement
  <1> QED  BY <1>1, <1>2, <1>3

\* The sets of at most n elements of S.
UpTo(S, n) == {s \in SUBSET S : Cardinality(s) <= n}

LEMMA SumExists ==
  ASSUME NEW S, IsFiniteSet(S), NEW m
  PROVE  \E g : SumOn(g, m, SUBSET S)
  <1>0. \A s \in SUBSET S : IsFiniteSet(s) /\ Cardinality(s) \in Nat
    BY FS_Subset, FS_CardinalityType
  <1> DEFINE Bad == {n \in Nat : ~\E g : SumOn(g, m, UpTo(S, n))}
  <1>1. ASSUME Bad # {} PROVE FALSE
    <2>1. PICK n \in Bad : \A k \in Bad : n <= k
      BY <1>1, LeastNat
    <2>2. n \in Nat
      OBVIOUS
    <2>3. CASE n = 0
      <3> DEFINE g == [s \in UpTo(S, 0) |-> 0]
      <3>1. \A s \in UpTo(S, 0) : s = {}
        <4> SUFFICES ASSUME NEW s \in UpTo(S, 0), s # {} PROVE FALSE
          OBVIOUS
        <4>1. IsFiniteSet(s) /\ Cardinality(s) <= 0
          BY <1>0 DEF UpTo
        <4>2. Cardinality(s) \in Nat \ {0}
          BY <4>1, PickFacts
        <4> QED  BY <4>1, <4>2
      <3>2. g = [s \in UpTo(S, 0) |-> IF s = {} THEN 0
                                      ELSE Bytes(m, Pick(s)) + g[s \ {Pick(s)}]]
        BY <3>1
      <3>3. SumOn(g, m, UpTo(S, 0))
        BY <3>2 DEF SumOn
      <3> QED  BY <2>3, <3>3
    <2>4. CASE n # 0
      <3>1. n - 1 \in Nat /\ n - 1 \notin Bad
        BY <2>1, <2>2, <2>4
      <3>2. PICK g : SumOn(g, m, UpTo(S, n - 1))
        BY <3>1
      <3> DEFINE h == [s \in UpTo(S, n) |-> IF s = {} THEN 0
                                            ELSE Bytes(m, Pick(s)) + g[s \ {Pick(s)}]]
      <3>3. ASSUME NEW s \in UpTo(S, n), s # {}
            PROVE  s \ {Pick(s)} \in UpTo(S, n - 1) /\ s \ {Pick(s)} \in UpTo(S, n)
        <4>1. s \in SUBSET S /\ Cardinality(s) <= n /\ IsFiniteSet(s)
          BY <1>0 DEF UpTo
        <4>2. /\ Pick(s) \in s /\ Cardinality(s) \in Nat
              /\ Cardinality(s \ {Pick(s)}) = Cardinality(s) - 1
          BY <3>3, <4>1, PickFacts
        <4>3. Cardinality(s \ {Pick(s)}) <= n - 1 /\ Cardinality(s \ {Pick(s)}) <= n
          BY <2>2, <4>1, <4>2
        <4> QED  BY <4>1, <4>3 DEF UpTo
      <3>4. ASSUME NEW s \in UpTo(S, n - 1), s \in UpTo(S, n)
            PROVE  h[s] = g[s]
        BY <3>2, <3>4 DEF SumOn
      <3>5. \A s \in UpTo(S, n) : s # {} => h[s \ {Pick(s)}] = g[s \ {Pick(s)}]
        BY <3>3, <3>4
      <3>6. h = [s \in UpTo(S, n) |-> IF s = {} THEN 0
                                      ELSE Bytes(m, Pick(s)) + h[s \ {Pick(s)}]]
        BY <3>5, Zenon
      <3>7. SumOn(h, m, UpTo(S, n))
        BY <3>6, Zenon DEF SumOn
      <3> HIDE DEF h
      <3> QED  BY <3>7
    <2> QED  BY <2>3, <2>4
  <1>2. Cardinality(S) \in Nat /\ UpTo(S, Cardinality(S)) = SUBSET S
    BY FS_Subset, FS_CardinalityType DEF UpTo
  <1>3. PICK g : SumOn(g, m, UpTo(S, Cardinality(S)))
    BY <1>1, <1>2
  <1> QED  BY <1>2, <1>3

\* What a sum is for one set.
SumFrom(g, m, s) ==
  g[s] = IF s = {} THEN 0 ELSE Bytes(m, Pick(s)) + g[s \ {Pick(s)}]

LEMMA SumAt ==
  ASSUME NEW g, NEW m, NEW S, SumOn(g, m, SUBSET S), NEW s \in SUBSET S
  PROVE  SumFrom(g, m, s)
  BY DEF SumOn, SumFrom

\* Two sums agree on the sets on which their blocks do.
LEMMA SumUnique ==
  ASSUME NEW S, NEW T, NEW m, NEW k, NEW g, NEW h,
         SumOn(g, m, SUBSET S), SumOn(h, k, SUBSET T),
         NEW R, IsFiniteSet(R), R \subseteq S, R \subseteq T,
         \A b \in R : Bytes(m, b) = Bytes(k, b)
  PROVE  g[R] = h[R]
  <1> DEFINE Bad == {n \in Nat : \E s \in SUBSET R : Cardinality(s) = n /\ g[s] # h[s]}
  <1>1. ASSUME Bad # {} PROVE FALSE
    <2>1. PICK n \in Bad : \A i \in Bad : n <= i
      BY <1>1, LeastNat
    <2>2. PICK s \in SUBSET R : Cardinality(s) = n /\ g[s] # h[s]
      BY <2>1
    <2>3. /\ s \in SUBSET S /\ s \in SUBSET T /\ IsFiniteSet(s)
      BY FS_Subset
    <2>4. /\ g[s] = IF s = {} THEN 0 ELSE Bytes(m, Pick(s)) + g[s \ {Pick(s)}]
          /\ h[s] = IF s = {} THEN 0 ELSE Bytes(k, Pick(s)) + h[s \ {Pick(s)}]
      <3>1. SumFrom(g, m, s) /\ SumFrom(h, k, s)
        BY <2>3, SumAt
      <3> QED  BY <3>1, Zenon DEF SumFrom
    <2>5. s # {}
      BY <2>2, <2>4
    <2>6. /\ Pick(s) \in s /\ Cardinality(s) \in Nat \ {0}
          /\ Cardinality(s \ {Pick(s)}) = Cardinality(s) - 1
      BY <2>3, <2>5, PickFacts
    <2>7. n - 1 \in Nat /\ n - 1 \notin Bad
      BY <2>1, <2>2, <2>6
    <2>8. g[s \ {Pick(s)}] = h[s \ {Pick(s)}]
      BY <2>2, <2>6, <2>7
    <2>9. Bytes(m, Pick(s)) = Bytes(k, Pick(s))
      BY <2>2, <2>6
    <2> QED  BY <2>2, <2>4, <2>5, <2>8, <2>9, Zenon
  <1>2. Cardinality(R) \in Nat
    BY FS_CardinalityType
  <1>3. Cardinality(R) \notin Bad
    BY <1>1
  <1> QED  BY <1>2, <1>3

\* A sum over a larger set of blocks holds the sum of a smaller one.
LEMMA SumIsTotal ==
  ASSUME NEW S, IsFiniteSet(S), NEW m, NEW g, SumOn(g, m, SUBSET S), NEW R \in SUBSET S
  PROVE  Total(m, R) = g[R]
  <1> DEFINE h == CHOOSE f : SumOn(f, m, SUBSET R)
  <1>1. IsFiniteSet(R)
    BY FS_Subset
  <1>2. SumOn(h, m, SUBSET R)
    BY <1>1, SumExists
  <1>3. Total(m, R) = h[R]
    BY DEF Total
  <1> HIDE DEF h
  <1>4. g[R] = h[R]
    BY <1>1, <1>2, SumUnique
  <1> QED  BY <1>3, <1>4

\* The sum depends on the blocks summed only.
LEMMA TotalSame ==
  ASSUME NEW S, IsFiniteSet(S), NEW m, NEW k, \A b \in S : Bytes(m, b) = Bytes(k, b)
  PROVE  Total(m, S) = Total(k, S)
  <1>1. PICK g : SumOn(g, m, SUBSET S)
    BY SumExists
  <1>2. PICK h : SumOn(h, k, SUBSET S)
    BY SumExists
  <1>3. Total(m, S) = g[S] /\ Total(k, S) = h[S]
    BY <1>1, <1>2, SumIsTotal
  <1>4. g[S] = h[S]
    BY <1>1, <1>2, SumUnique
  <1> QED  BY <1>3, <1>4

\* Any block may be taken out of a sum, not only the one Pick takes.
Removable(g, m, S) ==
  \A s \in SUBSET S : g[s] \in Int /\ \A x \in s : g[s] = Bytes(m, x) + g[s \ {x}]

LEMMA SumRemove ==
  ASSUME NEW S, IsFiniteSet(S), NEW m, \A b \in S : Bytes(m, b) \in Int,
         NEW g, SumOn(g, m, SUBSET S)
  PROVE  Removable(g, m, S)
  <1> DEFINE Good(s) == g[s] \in Int /\ \A x \in s : g[s] = Bytes(m, x) + g[s \ {x}]
             Bad == {n \in Nat : \E s \in SUBSET S : Cardinality(s) = n /\ ~Good(s)}
  <1>0. \A s \in SUBSET S : IsFiniteSet(s) /\ Cardinality(s) \in Nat
    BY FS_Subset, FS_CardinalityType
  <1>1. ASSUME Bad # {} PROVE FALSE
    <2>1. PICK n \in Bad : \A k \in Bad : n <= k
      BY <1>1, LeastNat
    <2>2. PICK s \in SUBSET S : Cardinality(s) = n /\ ~Good(s)
      BY <2>1
    <2>3. g[s] = IF s = {} THEN 0 ELSE Bytes(m, Pick(s)) + g[s \ {Pick(s)}]
      <3>1. SumFrom(g, m, s)
        BY SumAt
      <3> QED  BY <3>1, Zenon DEF SumFrom
    <2>4. s # {}
      <3> SUFFICES ASSUME s = {} PROVE Good(s)
        BY <2>2
      <3>1. g[s] = 0
        BY <2>3
      <3> QED  BY <3>1
    <2> DEFINE p == Pick(s)
    <2>5. /\ p \in s /\ Cardinality(s) \in Nat \ {0}
          /\ Cardinality(s \ {p}) = Cardinality(s) - 1
      BY <1>0, <2>4, PickFacts
    <2>6. n - 1 \in Nat /\ n - 1 \notin Bad
      BY <2>1, <2>2, <2>5
    <2>7. ASSUME NEW r \in SUBSET S, Cardinality(r) = n - 1 PROVE Good(r)
      BY <2>6, <2>7
    <2>8. g[s] = Bytes(m, p) + g[s \ {p}] /\ Bytes(m, p) \in Int
      BY <2>3, <2>4, <2>5
    <2> HIDE DEF p
    <2>9. Good(s \ {p})
      BY <2>2, <2>5, <2>7
    <2>10. g[s] \in Int /\ g[s \ {p}] \in Int
      BY <2>8, <2>9
    <2>11. ASSUME NEW x \in s PROVE g[s] = Bytes(m, x) + g[s \ {x}]
      <3>1. CASE x = p
        BY <2>8, <3>1
      <3>2. CASE x # p
        <4>1. Cardinality(s \ {x}) = n - 1
          BY <1>0, <2>2, FS_RemoveElement
        <4>2. Good(s \ {x})
          BY <2>7, <4>1
        <4>3. g[s \ {x}] = Bytes(m, p) + g[(s \ {x}) \ {p}]
          BY <2>5, <3>2, <4>2
        <4>4. g[s \ {p}] = Bytes(m, x) + g[(s \ {p}) \ {x}]
          BY <2>9, <3>2
        <4>5. (s \ {x}) \ {p} = (s \ {p}) \ {x}
          OBVIOUS
        <4> DEFINE r == g[(s \ {p}) \ {x}]
        <4>6. r \in Int /\ Bytes(m, x) \in Int
          <5>1. Cardinality((s \ {p}) \ {x}) = n - 2 /\ (s \ {p}) \ {x} \in SUBSET S
            <6>1. s \ {p} \in SUBSET S /\ x \in s \ {p}
              BY <3>2
            <6>2. IsFiniteSet(s \ {p}) /\ Cardinality(s \ {p}) = n - 1
              BY <1>0, <2>2, <2>5, <6>1
            <6>3. Cardinality((s \ {p}) \ {x}) = Cardinality(s \ {p}) - 1
              BY <6>1, <6>2, FS_RemoveElement
            <6> QED  BY <6>2, <6>3
          <5>2. Cardinality((s \ {p}) \ {x}) \in Nat
            BY <1>0, <5>1
          <5>3. n - 2 \notin Bad
            BY <2>1, <2>2
          <5>4. Good((s \ {p}) \ {x})
            BY <5>1, <5>2, <5>3
          <5> QED  BY <5>4
        <4> HIDE DEF r
        <4>7. g[s \ {x}] = Bytes(m, p) + r /\ g[s \ {p}] = Bytes(m, x) + r
          BY <4>3, <4>4, <4>5 DEF r
        <4> QED  BY <2>8, <4>6, <4>7
      <3> QED  BY <3>1, <3>2
    <2>12. Good(s)
      BY <2>10, <2>11
    <2> QED  BY <2>2, <2>12
  <1>2. ASSUME NEW s \in SUBSET S PROVE Good(s)
    <2>1. Cardinality(s) \notin Bad
      BY <1>1
    <2> QED  BY <1>0, <2>1
  <1> QED  BY <1>2 DEF Removable

\* A block added to a sum adds its bytes.
LEMMA TotalRemove ==
  ASSUME NEW S, IsFiniteSet(S), NEW m, \A b \in S : Bytes(m, b) \in Int
  PROVE  /\ Total(m, S) \in Int
         /\ \A x \in S : Total(m, S) = Bytes(m, x) + Total(m, S \ {x})
  <1>1. PICK g : SumOn(g, m, SUBSET S)
    BY SumExists
  <1>2. Removable(g, m, S)
    BY <1>1, SumRemove
  <1>3. Total(m, S) = g[S] /\ \A x \in S : Total(m, S \ {x}) = g[S \ {x}]
    BY <1>1, SumIsTotal
  <1> QED  BY <1>2, <1>3 DEF Removable

LEMMA TotalEmpty ==
  ASSUME NEW m
  PROVE  Total(m, {}) = 0
  <1>1. IsFiniteSet({})
    BY FS_EmptySet
  <1>2. PICK g : SumOn(g, m, SUBSET {})
    BY <1>1, SumExists
  <1>3. Total(m, {}) = g[{}]
    BY <1>1, <1>2, SumIsTotal
  <1>4. g[{}] = 0
    BY <1>2, SumAt DEF SumFrom
  <1> QED  BY <1>3, <1>4

LEMMA TotalIsStats ==
  MapThenSumSet(LAMBDA a : mem[a].next - a, DOMAIN held) = Total(mem, DOMAIN held)
  BY DEF MapThenSumSet, MapThenFoldSet, Total, SumOn, Pick, Bytes

----------------------------------------------------------------------------
(* The statistics are exact                                                 *)

\* A request of size bytes was granted at address a.
Granted(a, size) ==
  /\ a \in Free(mem) /\ a >= lfree /\ a \notin DOMAIN held
  /\ DOMAIN held' = DOMAIN held \cup {a}
  /\ held'[a] = size /\ \A b \in DOMAIN held : held'[b] = held[b]
  /\ Taken(mem', a, Need(size)) /\ a + SIZEOF_STRUCT_MEM + Need(size) <= mem[a].next
  /\ used_mem' = used_mem + mem'[a].next - a
  /\ lfree' \in NextFree(mem', a)

LEMMA MallocGrants ==
  ASSUME HeapInv, NEW size \in Nat, Malloc(size)
  PROVE  \E a \in DOMAIN mem : Granted(a, size)
  <1> DEFINE need == Need(size)
  <1>0. need \in Nat \ {0}
    BY NeedPositive
  <1> HIDE DEF need
  <1>1. PICK a \in Free(mem) :
          /\ mem' = Take(a, need) /\ lfree' \in NextFree(mem', a)
          /\ a >= lfree /\ DataSize(mem, a) >= need
          /\ used_mem' = used_mem + mem'[a].next - a
          /\ held' = [b \in DOMAIN held \cup {a} |-> IF b = a THEN size ELSE held[b]]
    BY DEF Malloc, Lowest, Fitting, need
  <1>2. Taken(mem', a, need)
    BY <1>0, <1>1, TakeStep
  <1>3. a \in DOMAIN mem /\ a \notin DOMAIN held
    BY DEF HeapInv, Used, Free
  <1>4. a \in Nat /\ mem[a].next \in Nat
    BY <1>3 DEF HeapInv, Chain, Headers
  <1>5. a + SIZEOF_STRUCT_MEM + need <= mem[a].next
    BY <1>0, <1>1, <1>4, HeapEndNat DEF DataSize
  <1>6. /\ DOMAIN held' = DOMAIN held \cup {a}
        /\ held'[a] = size /\ \A b \in DOMAIN held : held'[b] = held[b]
    BY <1>1, <1>3
  <1>7. Granted(a, size)
    BY <1>1, <1>2, <1>3, <1>5, <1>6 DEF Granted, need
  <1> QED  BY <1>3, <1>7

\* The blocks the program has are finitely many, and used_mem is their sum.
StatInv ==
  /\ IsFiniteSet(DOMAIN held)
  /\ used_mem = Total(mem, DOMAIN held)
  /\ max_mem \in Int /\ used_mem <= max_mem

\* The address and the bytes of the blocks of a chain.
LEMMA BlockBytes ==
  ASSUME NEW m, Chain(m)
  PROVE  \A b \in DOMAIN m \ {heap_end} : /\ b \in Nat /\ m[b].next \in Nat /\ m[b].next > b
                                          /\ Bytes(m, b) \in Int
  <1> SUFFICES ASSUME NEW b \in DOMAIN m \ {heap_end}
               PROVE  /\ b \in Nat /\ m[b].next \in Nat /\ m[b].next > b
                      /\ Bytes(m, b) \in Int
    OBVIOUS
  <1>1. b \in Nat /\ m[b].next \in Nat /\ m[b].next > b + SIZEOF_STRUCT_MEM
    BY DEF Chain, Headers
  <1> QED  BY <1>1, HeapEndNat DEF Bytes

\* The blocks the program has.
LEMMA HeldBytes ==
  ASSUME HeapInv
  PROVE  \A b \in DOMAIN held : /\ b \in DOMAIN mem \ {heap_end} /\ b \in Nat
                                /\ mem[b].next \in Nat /\ mem[b].next > b
                                /\ Bytes(mem, b) \in Int
  BY BlockBytes DEF HeapInv, Used

LEMMA MallocStats ==
  ASSUME HeapInv, StatInv, NEW size \in Nat, Malloc(size)
  PROVE  StatInv'
  <1>1. PICK a \in DOMAIN mem : Granted(a, size)
    BY MallocGrants
  <1>2. HeapInv'
    BY MallocStep
  <1>3. /\ DOMAIN held' = DOMAIN held \cup {a} /\ a \notin DOMAIN held
        /\ used_mem' = used_mem + mem'[a].next - a
        /\ \A b \in DOMAIN held : mem'[b].next = mem[b].next
    BY <1>1, HeldBytes DEF Granted, Taken
  <1>4. /\ \A b \in DOMAIN held' : Bytes(mem', b) \in Int
        /\ a \in Nat /\ mem'[a].next \in Nat
    <2>1. Chain(mem') /\ DOMAIN held' \subseteq DOMAIN mem' \ {heap_end}
      BY <1>2 DEF HeapInv, Used
    <2>2. \A b \in DOMAIN held' : b \in Nat /\ mem'[b].next \in Nat /\ Bytes(mem', b) \in Int
      BY <2>1, BlockBytes
    <2> QED  BY <1>3, <2>2
  <1>5. IsFiniteSet(DOMAIN held) /\ IsFiniteSet(DOMAIN held')
    BY <1>3, FS_AddElement DEF StatInv
  <1>6. Total(mem', DOMAIN held') = Bytes(mem', a) + Total(mem', DOMAIN held' \ {a})
    BY <1>3, <1>4, <1>5, TotalRemove
  <1>7. DOMAIN held' \ {a} = DOMAIN held
    BY <1>3
  <1>8. Total(mem', DOMAIN held) = Total(mem, DOMAIN held)
    BY <1>3, <1>5, TotalSame DEF Bytes
  <1>9. Total(mem, DOMAIN held) \in Int
    BY <1>5, HeldBytes, TotalRemove
  <1>10. used_mem \in Int /\ used_mem = Total(mem, DOMAIN held) /\ max_mem \in Int
         /\ used_mem <= max_mem
    BY <1>9 DEF StatInv
  <1>11. used_mem' = Total(mem', DOMAIN held')
    BY <1>3, <1>4, <1>6, <1>7, <1>8, <1>10 DEF Bytes
  <1>12. used_mem' \in Int
    BY <1>3, <1>4, <1>10
  <1>13. max_mem' = IF max_mem < used_mem' THEN used_mem' ELSE max_mem
    BY DEF Malloc
  <1>14. max_mem' \in Int /\ used_mem' <= max_mem'
    BY <1>10, <1>12, <1>13
  <1> QED  BY <1>5, <1>11, <1>14 DEF StatInv

LEMMA ReleaseStats ==
  ASSUME HeapInv, StatInv, NEW a \in DOMAIN held, Release(a)
  PROVE  StatInv'
  <1>1. /\ DOMAIN held' = DOMAIN held \ {a}
        /\ \A b \in DOMAIN held' : mem'[b].next = mem[b].next
    BY ReleaseStep
  <1>2. used_mem' = used_mem - (mem[a].next - a) /\ max_mem' = max_mem
    BY DEF Release
  <1>3. IsFiniteSet(DOMAIN held) /\ IsFiniteSet(DOMAIN held')
    BY <1>1, FS_RemoveElement DEF StatInv
  <1>4. /\ Total(mem, DOMAIN held) = Bytes(mem, a) + Total(mem, DOMAIN held \ {a})
        /\ Total(mem, DOMAIN held) \in Int
    BY <1>3, HeldBytes, TotalRemove
  <1>5. Total(mem', DOMAIN held') = Total(mem, DOMAIN held')
    BY <1>1, <1>3, TotalSame DEF Bytes
  <1>6. Total(mem, DOMAIN held') \in Int
    <2>1. \A b \in DOMAIN held' : Bytes(mem, b) \in Int
      BY <1>1, HeldBytes
    <2> QED  BY <1>3, <2>1, TotalRemove
  <1>7. a \in Nat /\ mem[a].next \in Nat /\ mem[a].next > a
    BY HeldBytes
  <1>8. used_mem = Bytes(mem, a) + Total(mem, DOMAIN held') /\ max_mem \in Int /\ used_mem <= max_mem
    BY <1>1, <1>4 DEF StatInv
  <1>9. used_mem' = Total(mem, DOMAIN held') /\ used_mem' <= max_mem
    BY <1>2, <1>6, <1>7, <1>8 DEF Bytes
  <1> QED  BY <1>2, <1>3, <1>5, <1>8, <1>9 DEF StatInv

LEMMA ShrinkStats ==
  ASSUME HeapInv, StatInv, NEW t \in Threads, NEW a \in DOMAIN held, NEW newsize \in Nat,
         ReallocShrink(t, a, newsize)
  PROVE  StatInv'
  <1>1. /\ HeapInv' /\ DOMAIN held' = DOMAIN held
        /\ \A b \in DOMAIN held \ {a} : mem'[b].next = mem[b].next
        /\ mem'[a].next = a + SIZEOF_STRUCT_MEM + RT_ALIGN(newsize)
        /\ mem'[a].next <= mem[a].next
    BY ShrinkStep
  <1>2. /\ used_mem' = used_mem - (DataSize(mem, a) - RT_ALIGN(newsize))
        /\ max_mem' = max_mem
    BY DEF ReallocShrink
  <1>3. IsFiniteSet(DOMAIN held) /\ IsFiniteSet(DOMAIN held')
    BY <1>1 DEF StatInv
  <1>4. Total(mem, DOMAIN held) = Bytes(mem, a) + Total(mem, DOMAIN held \ {a})
    BY <1>3, HeldBytes, TotalRemove
  <1>5. Total(mem', DOMAIN held) = Bytes(mem', a) + Total(mem', DOMAIN held \ {a})
    <2>1. Chain(mem') /\ DOMAIN held' \subseteq DOMAIN mem' \ {heap_end}
      BY <1>1 DEF HeapInv, Used
    <2>2. \A b \in DOMAIN held' : Bytes(mem', b) \in Int
      BY <2>1, BlockBytes
    <2> QED  BY <1>1, <1>3, <2>2, TotalRemove
  <1>6. IsFiniteSet(DOMAIN held \ {a})
    BY <1>3, FS_RemoveElement
  <1>7. Total(mem', DOMAIN held \ {a}) = Total(mem, DOMAIN held \ {a})
    BY <1>1, <1>6, TotalSame DEF Bytes
  <1>8. Total(mem, DOMAIN held \ {a}) \in Int
    BY <1>6, HeldBytes, TotalRemove
  <1>9. a \in Nat /\ mem[a].next \in Nat /\ RT_ALIGN(newsize) \in Nat
    BY AlignUp, HeldBytes
  <1>10. /\ used_mem = Bytes(mem, a) + Total(mem, DOMAIN held \ {a})
         /\ max_mem \in Int /\ used_mem <= max_mem
    BY <1>4 DEF StatInv
  <1> DEFINE rest == Total(mem, DOMAIN held \ {a})
  <1>11. Total(mem', DOMAIN held) = mem'[a].next - a + rest
    BY <1>5, <1>7 DEF Bytes
  <1> HIDE DEF rest
  <1>12. used_mem = mem[a].next - a + rest /\ rest \in Int
    BY <1>8, <1>10 DEF rest, Bytes
  <1>13. used_mem' = Total(mem', DOMAIN held) /\ used_mem' <= max_mem
    BY <1>1, <1>2, <1>9, <1>10, <1>11, <1>12, HeapEndNat DEF DataSize
  <1> QED  BY <1>1, <1>2, <1>3, <1>10, <1>13 DEF StatInv

LEMMA InitStats == Init => StatInv
  <1> SUFFICES ASSUME Init PROVE StatInv
    OBVIOUS
  <1>1. DOMAIN held = {} /\ used_mem = 0 /\ max_mem = 0
    BY DEF Init
  <1>2. Total(mem, {}) = 0 /\ IsFiniteSet({})
    BY TotalEmpty, FS_EmptySet
  <1> QED  BY <1>1, <1>2 DEF StatInv

LEMMA NextStats == IInv /\ StatInv /\ [Next]_vars => StatInv'
  <1> SUFFICES ASSUME IInv, StatInv, [Next]_vars PROVE StatInv'
    OBVIOUS
  <1>0. HeapInv
    BY DEF IInv
  <1>1. ASSUME UNCHANGED <<mem, used_mem, max_mem>>, DOMAIN held' = DOMAIN held PROVE StatInv'
    BY <1>1 DEF StatInv
  <1>2. CASE UNCHANGED vars
    BY <1>1, <1>2 DEF vars
  <1>3. ASSUME NEW size \in Nat, Malloc(size) \/ NoMemory(size) PROVE StatInv'
    BY <1>0, <1>1, <1>3, MallocStats DEF NoMemory
  <1>4. ASSUME NEW t \in Threads, NEW size \in Sizes, rt_malloc(t, size) PROVE StatInv'
    BY <1>3, <1>4, RtMemAssumption DEF rt_malloc
  <1>5. ASSUME NEW t \in Threads, NEW size \in Sizes, NEW count \in Counts,
               rt_calloc(t, count, size)
        PROVE  StatInv'
    <2>1. count * size \in Nat
      BY RtMemAssumption
    <2> QED  BY <1>3, <1>5, <2>1 DEF rt_calloc, rt_malloc
  <1>6. ASSUME NEW t \in Threads, NEW a \in DOMAIN held, rt_free(t, a) PROVE StatInv'
    BY <1>0, <1>6, ReleaseStats DEF rt_free
  <1>7. ASSUME NEW t \in Threads, NEW a \in DOMAIN held, NEW size \in Sizes,
               rt_realloc(t, a, size)
        PROVE  StatInv'
    <2>0. size \in Nat
      BY RtMemAssumption
    <2>1. CASE ReallocFree(t, a, size)
      BY <1>0, <2>1, ReleaseStats DEF ReallocFree
    <2>2. CASE ReallocTooLarge(t, a, size)
      BY <1>1, <2>2 DEF ReallocTooLarge
    <2>3. CASE ReallocSame(t, a, size)
      BY <1>1, <2>3 DEF ReallocSame
    <2>4. CASE ReallocShrink(t, a, size)
      BY <1>0, <2>0, <2>4, ShrinkStats
    <2>5. CASE ReallocMove(t, a, size)
      BY <1>1, <2>5 DEF ReallocMove
    <2> QED  BY <1>7, <2>1, <2>2, <2>3, <2>4, <2>5 DEF rt_realloc
  <1>8. ASSUME NEW t \in Threads, MoveMalloc(t) PROVE StatInv'
    <2>1. moving[t].newsize \in Nat
      BY <1>8 DEF IInv, MoveInv, MoveMalloc, Idle, Moves
    <2> QED  BY <1>3, <1>8, <2>1 DEF MoveMalloc
  <1>9. ASSUME NEW t \in Threads, MoveFree(t) PROVE StatInv'
    <2>1. moving[t].from \in DOMAIN held
      BY <1>9 DEF IInv, MoveInv, MoveFree
    <2> QED  BY <1>0, <1>9, <2>1, ReleaseStats DEF MoveFree
  <1> QED
    BY <1>2, <1>4, <1>5, <1>6, <1>7, <1>8, <1>9 DEF Next

\* used_mem, which list_mem prints, is the sum of the blocks in use with their
\* headers, and max_mem bounds it, through every split, merge and move, for any
\* number of threads and blocks.
THEOREM StatsAreExact == Spec => []StatsExact
  <1>1. StatInv => StatsExact
    BY TotalIsStats DEF StatInv, StatsExact
  <1> QED
    BY InitIInv, NextIInv, InitStats, NextStats, <1>1, PTL DEF Spec

----------------------------------------------------------------------------
(* The heap implements BlockAllocator                                       *)

Multiple(x) == \E q \in Int : x = q * RT_ALIGN_SIZE

LEMMA MultipleMod ==
  ASSUME NEW x \in Nat
  PROVE  Multiple(x) <=> x % RT_ALIGN_SIZE = 0
  <1> DEFINE d == RT_ALIGN_SIZE
  <1>0. d \in Nat \ {0}
    BY RtMemAssumption
  <1> HIDE DEF d
  <1>1. PICK k, r : /\ k = x \div d /\ r = x % d
                    /\ k \in Int /\ r \in 0 .. d - 1 /\ x = k * d + r
    <2>1. x \div d \in Int /\ x % d \in 0 .. d - 1 /\ x = (x \div d) * d + (x % d)
      BY <1>0, SMT
    <2> QED  BY <2>1
  <1>2. ASSUME x % d = 0 PROVE Multiple(x)
    <2>1. x = k * d
      BY <1>0, <1>1, <1>2
    <2> QED  BY <1>1, <2>1 DEF Multiple, d
  <1>3. ASSUME Multiple(x) PROVE x % d = 0
    <2>1. PICK q \in Int : x = q * d
      BY <1>3 DEF Multiple, d
    <2>2. (q - k) * d = r /\ q - k \in Int
      BY <1>0, <1>1, <2>1
    <2>3. CASE q - k >= 1
      <3>1. (q - k) * d >= d
        BY <1>0, <2>2, <2>3
      <3> QED  BY <1>0, <1>1, <2>2, <3>1
    <2>4. CASE q - k <= -1
      <3>1. (q - k) * d <= -d
        BY <1>0, <2>2, <2>4
      <3> QED  BY <1>0, <1>1, <2>2, <3>1
    <2>5. CASE q - k = 0
      BY <1>0, <1>1, <2>2, <2>5
    <2> QED  BY <2>2, <2>3, <2>4, <2>5
  <1> QED  BY <1>2, <1>3 DEF d

LEMMA MultipleSum ==
  ASSUME NEW x \in Nat, NEW y \in Nat, Multiple(x), Multiple(y)
  PROVE  Multiple(x + y)
  <1>1. PICK p \in Int : x = p * RT_ALIGN_SIZE
    BY DEF Multiple
  <1>2. PICK q \in Int : y = q * RT_ALIGN_SIZE
    BY DEF Multiple
  <1>3. x + y = (p + q) * RT_ALIGN_SIZE /\ p + q \in Int
    BY <1>1, <1>2, RtMemAssumption
  <1> QED  BY <1>3 DEF Multiple

\* Sizes, headers and the end of the heap are aligned.
LEMMA AlignedSizes ==
  ASSUME NEW n \in Nat
  PROVE  Multiple(RT_ALIGN(n)) /\ Multiple(Need(n)) /\ Multiple(SIZEOF_STRUCT_MEM)
         /\ Multiple(heap_end) /\ Multiple(0)
  <1>1. ASSUME NEW k \in Nat PROVE Multiple(RT_ALIGN(k))
    <2> DEFINE q == (k + RT_ALIGN_SIZE - 1) \div RT_ALIGN_SIZE
    <2>1. q \in Int
      BY RtMemAssumption
    <2>2. RT_ALIGN(k) = q * RT_ALIGN_SIZE
      BY DEF RT_ALIGN
    <2> HIDE DEF q
    <2> QED  BY <2>1, <2>2 DEF Multiple
  <1>2. Multiple(Need(n))
    BY <1>1, RtMemAssumption DEF Need, MIN_SIZE_ALIGNED
  <1>3. Multiple(SIZEOF_STRUCT_MEM) /\ Multiple(mem_size_aligned)
    BY MultipleMod, RtMemAssumption
  <1>4. Multiple(heap_end)
    BY <1>3, MultipleSum, RtMemAssumption DEF heap_end
  <1>5. Multiple(0)
    <2>1. 0 = 0 * RT_ALIGN_SIZE
      BY RtMemAssumption
    <2> QED  BY <2>1 DEF Multiple
  <1> QED  BY <1>1, <1>2, <1>3, <1>4, <1>5

\* The addresses of blocks are aligned and inside the heap.
AddrInv == \A a \in DOMAIN mem : a <= heap_end /\ Multiple(a)

\* A new block behind the header and the data of one keeps that.
LEMMA AddrAfter ==
  ASSUME HeapInv, AddrInv, NEW a \in DOMAIN mem \ {heap_end}, NEW n \in Nat, Multiple(n),
         a + SIZEOF_STRUCT_MEM + n <= mem[a].next
  PROVE  /\ a + SIZEOF_STRUCT_MEM + n \in Nat
         /\ a + SIZEOF_STRUCT_MEM + n <= heap_end
         /\ Multiple(a + SIZEOF_STRUCT_MEM + n)
  <1>1. a \in Nat /\ mem[a].next \in DOMAIN mem /\ mem[a].next \in Nat
    BY DEF HeapInv, Chain, Headers
  <1>2. mem[a].next <= heap_end /\ Multiple(a)
    BY <1>1 DEF AddrInv
  <1>3. Multiple(SIZEOF_STRUCT_MEM)
    BY AlignedSizes
  <1>4. Multiple(a + SIZEOF_STRUCT_MEM) /\ a + SIZEOF_STRUCT_MEM \in Nat
    BY <1>1, <1>2, <1>3, MultipleSum, HeapEndNat
  <1>5. Multiple(a + SIZEOF_STRUCT_MEM + n)
    BY <1>4, MultipleSum
  <1> QED  BY <1>1, <1>2, <1>4, <1>5, HeapEndNat

LEMMA MallocAddr ==
  ASSUME HeapInv, AddrInv, NEW size \in Nat, Malloc(size)
  PROVE  AddrInv'
  <1>1. PICK a \in DOMAIN mem : Granted(a, size)
    BY MallocGrants
  <1>2. Need(size) \in Nat /\ Multiple(Need(size))
    BY NeedPositive, AlignedSizes
  <1>3. /\ DOMAIN mem' \subseteq DOMAIN mem \cup {a + SIZEOF_STRUCT_MEM + Need(size)}
        /\ a + SIZEOF_STRUCT_MEM + Need(size) <= mem[a].next /\ a # heap_end
    BY <1>1 DEF Granted, Taken, Free, HeapInv, Chain
  <1>4. /\ a + SIZEOF_STRUCT_MEM + Need(size) <= heap_end
        /\ Multiple(a + SIZEOF_STRUCT_MEM + Need(size))
    BY <1>2, <1>3, AddrAfter
  <1> QED  BY <1>3, <1>4 DEF AddrInv

LEMMA ShrinkAddr ==
  ASSUME HeapInv, AddrInv, NEW t \in Threads, NEW a \in DOMAIN held, NEW newsize \in Nat,
         ReallocShrink(t, a, newsize)
  PROVE  AddrInv'
  <1> DEFINE n == RT_ALIGN(newsize)
  <1>1. n \in Nat /\ Multiple(n)
    BY AlignUp, AlignedSizes
  <1>2. /\ DOMAIN mem' \subseteq DOMAIN mem \cup {a + SIZEOF_STRUCT_MEM + n}
        /\ a + SIZEOF_STRUCT_MEM + n <= mem[a].next
    BY ShrinkStep
  <1>3. a \in DOMAIN mem \ {heap_end}
    BY HeldBytes
  <1> HIDE DEF n
  <1>4. a + SIZEOF_STRUCT_MEM + n <= heap_end /\ Multiple(a + SIZEOF_STRUCT_MEM + n)
    BY <1>1, <1>2, <1>3, AddrAfter
  <1> QED  BY <1>2, <1>4 DEF AddrInv

LEMMA InitAddr == Init => AddrInv
  <1> SUFFICES ASSUME Init PROVE AddrInv
    OBVIOUS
  <1>1. DOMAIN mem = {0, heap_end}
    BY DEF Init
  <1>2. Multiple(0) /\ Multiple(heap_end) /\ 0 <= heap_end /\ heap_end <= heap_end
    BY AlignedSizes, HeapEndNat
  <1> QED  BY <1>1, <1>2 DEF AddrInv

\* The block at a as the abstract specification sees it.
BlockAt(m, h, a) == [addr |-> a, end |-> m[a].next, size |-> h[a]]

LEMMA BlocksAre ==
  /\ Blocks = {BlockAt(mem, held, a) : a \in DOMAIN held}
  /\ Blocks' = {BlockAt(mem', held', a) : a \in DOMAIN held'}
  BY DEF Blocks, BlockAt

\* A block that is granted is aligned, large enough and disjoint from the others,
\* and no gap gets hidden.
LEMMA RefineGrant ==
  ASSUME HeapInv, AddrInv, NEW size \in Nat, Malloc(size)
  PROVE  Allocator!Grant
  <1>1. PICK a \in DOMAIN mem : Granted(a, size)
    BY MallocGrants
  <1> DEFINE need == Need(size)
             a2 == a + SIZEOF_STRUCT_MEM + need
             b == BlockAt(mem', held', a)
  <1>2. /\ need \in Nat \ {0} /\ need >= size
    BY NeedPositive, AlignUp DEF Need
  <1> HIDE DEF need
  <1>3. /\ a \in Free(mem) /\ a >= lfree /\ a \notin DOMAIN held
        /\ DOMAIN held' = DOMAIN held \cup {a}
        /\ held'[a] = size /\ \A c \in DOMAIN held : held'[c] = held[c]
        /\ Taken(mem', a, need) /\ a2 <= mem[a].next
        /\ lfree' \in NextFree(mem', a)
    BY <1>1 DEF Granted, need
  <1>4. /\ a \in DOMAIN mem \ {heap_end} /\ a \in Nat /\ mem[a].next \in Nat
        /\ mem[a].next \in DOMAIN mem /\ a2 \in Nat /\ lfree \in Nat /\ a < a2
        /\ \A c \in DOMAIN mem : c \in Nat /\ (c <= a \/ mem[a].next <= c)
    BY <1>2, <1>3, HeapEndNat DEF HeapInv, Chain, Headers, Free, Lfree
  <1>5. /\ \A c \in DOMAIN held : mem'[c].next = mem[c].next
        /\ mem'[a].next \in Nat /\ mem'[a].next >= a2 /\ mem'[a].next <= mem[a].next
    BY <1>3, <1>4, HeldBytes DEF Taken
  <1>6. b \notin Blocks /\ b \in Blocks'
    BY <1>3, BlocksAre DEF BlockAt
  <1>7. Blocks' = Blocks \cup {b}
    <2>1. \A c \in DOMAIN held : BlockAt(mem', held', c) = BlockAt(mem, held, c)
      BY <1>3, <1>5 DEF BlockAt
    <2> HIDE DEF b
    <2>2. Blocks' = {BlockAt(mem', held', c) : c \in DOMAIN held} \cup {b}
      BY <1>3, BlocksAre DEF b
    <2> QED  BY <2>1, <2>2, BlocksAre
  <1>8. /\ b.addr % RT_ALIGN_SIZE = 0 /\ 0 <= b.addr /\ b.end <= heap_end
        /\ b.end - b.addr >= SIZEOF_STRUCT_MEM + b.size
    <2>1. b.addr = a /\ b.end = mem'[a].next /\ b.size = size
      BY <1>3 DEF BlockAt
    <2>2. a % RT_ALIGN_SIZE = 0 /\ mem[a].next <= heap_end
      BY <1>4, MultipleMod DEF AddrInv
    <2> HIDE DEF b
    <2>3. mem'[a].next <= heap_end /\ mem'[a].next - a >= SIZEOF_STRUCT_MEM + size
      BY <1>2, <1>4, <1>5, <2>2, HeapEndNat
    <2> QED  BY <1>4, <2>1, <2>2, <2>3
  <1>9. ASSUME NEW c \in Blocks PROVE b.end <= c.addr \/ c.end <= b.addr
    <2>1. PICK x \in DOMAIN held : c = BlockAt(mem, held, x)
      BY BlocksAre
    <2>2. /\ x \in DOMAIN mem \ {heap_end} /\ x \in Nat /\ mem[x].next \in Nat /\ x # a
      BY <1>3, HeldBytes
    <2>3. a <= x \/ mem[x].next <= a
      BY <1>4, <2>2 DEF HeapInv, Chain
    <2>4. x <= a \/ mem[a].next <= x
      BY <1>4, <2>2
    <2>5. mem'[a].next <= x \/ mem[x].next <= a
      BY <1>4, <1>5, <2>2, <2>3, <2>4
    <2> QED  BY <2>1, <2>5 DEF BlockAt
  <1>10. Hidden' => Hidden
    <2> SUFFICES ASSUME NEW c \in Free(mem'), c < lfree' PROVE \E x \in Free(mem) : x < lfree
      BY DEF Hidden
    <2>1. c = a2 \/ c \in Free(mem)
      <3>1. /\ Used(mem') = Used(mem) \cup {a}
            /\ DOMAIN mem' \subseteq DOMAIN mem \cup {a2}
        <4>1. Used(mem') = DOMAIN held' \cup {heap_end}
          BY MallocStep DEF HeapInv
        <4>2. Used(mem) = DOMAIN held \cup {heap_end}
          BY DEF HeapInv
        <4> QED  BY <1>3, <4>1, <4>2 DEF Taken
      <3>2. c \in DOMAIN mem' /\ c \notin Used(mem')
        BY DEF Free, Used
      <3> QED  BY <3>1, <3>2 DEF Used
    <2>2. c \in Nat
      BY <1>4, <2>1 DEF Free
    <2>3. CASE a = lfree
      <3>1. lfree' \in Lowest({x \in Free(mem') : x >= lfree} \cup {heap_end})
        BY <1>3, <2>3 DEF NextFree
      <3>2. c >= lfree => lfree' <= c
        BY <3>1 DEF Lowest
      <3>3. lfree' \in Nat
        <4>1. lfree' \in Free(mem') \/ lfree' = heap_end
          BY <3>1 DEF Lowest
        <4>2. DOMAIN mem' \subseteq Nat
          BY MallocStep DEF HeapInv, Chain
        <4> QED  BY <4>1, <4>2, HeapEndNat DEF Free
      <3>4. c < lfree
        BY <1>4, <2>2, <3>2, <3>3
      <3>5. c # a2
        BY <1>4, <2>3, <3>4
      <3> QED  BY <2>1, <3>4, <3>5
    <2>4. CASE a # lfree
      <3>1. lfree' = lfree
        BY <1>3, <2>4 DEF NextFree
      <3>2. c # a2
        BY <1>3, <1>4, <3>1
      <3> QED  BY <2>1, <3>1, <3>2
    <2> QED  BY <2>3, <2>4
  <1>11. refused' = 0
    BY DEF Malloc
  <1> HIDE DEF b
  <1> QED
    BY <1>6, <1>7, <1>8, <1>9, <1>10, <1>11 DEF Allocator!Grant, Allocator!Holds

LEMMA RefineRelease ==
  ASSUME HeapInv, NEW a \in DOMAIN held, Release(a)
  PROVE  Allocator!Release
  <1>1. /\ HeapInv' /\ DOMAIN held' = DOMAIN held \ {a}
        /\ \A b \in DOMAIN held' : mem'[b].next = mem[b].next
        /\ Free(mem') \subseteq Free(mem) \cup {a}
        /\ lfree' <= IF a < lfree THEN a ELSE lfree
    BY ReleaseStep
  <1>2. /\ held' = [b \in DOMAIN held \ {a} |-> held[b]] /\ refused' = 0
    BY DEF Release
  <1>3. \A b \in DOMAIN held' : BlockAt(mem', held', b) = BlockAt(mem, held, b)
    BY <1>1, <1>2 DEF BlockAt
  <1>4. BlockAt(mem, held, a) \in Blocks
    BY BlocksAre
  <1>5. Blocks' = Blocks \ {BlockAt(mem, held, a)}
    <2>1. \A b \in DOMAIN held : b # a => BlockAt(mem, held, b) # BlockAt(mem, held, a)
      BY DEF BlockAt
    <2>2. Blocks' = {BlockAt(mem, held, b) : b \in DOMAIN held \ {a}}
      BY <1>1, <1>3, BlocksAre
    <2> QED  BY <2>1, <2>2, BlocksAre
  <1>6. Hidden' => Hidden
    <2> SUFFICES ASSUME NEW c \in Free(mem'), c < lfree' PROVE \E x \in Free(mem) : x < lfree
      BY DEF Hidden
    <2>1. a \in Nat /\ lfree \in Nat /\ lfree' \in Nat /\ c \in Nat
      <3>1. a \in Nat
        BY HeldBytes
      <3>2. lfree \in Nat
        BY HeapEndNat DEF HeapInv, Lfree, Free, Chain
      <3>3. DOMAIN mem' \subseteq Nat /\ lfree' \in Free(mem') \cup {heap_end}
        BY <1>1 DEF HeapInv, Chain, Lfree
      <3> QED  BY <3>1, <3>2, <3>3, HeapEndNat DEF Free
    <2>2. c < a /\ c < lfree
      BY <1>1, <2>1
    <2>3. c \in Free(mem)
      BY <1>1, <2>1, <2>2
    <2> QED  BY <2>2, <2>3
  <1> QED  BY <1>2, <1>4, <1>5, <1>6 DEF Allocator!Release

\* A block whose end is given up, or that keeps its bytes for a new size.
LEMMA RefineResize ==
  ASSUME HeapInv, NEW a \in DOMAIN held, NEW newsize \in Nat,
         held' = [held EXCEPT ![a] = newsize], refused' = 0,
         \A b \in DOMAIN held \ {a} : mem'[b].next = mem[b].next,
         mem'[a].next \in Nat, mem'[a].next <= mem[a].next,
         mem'[a].next - a >= SIZEOF_STRUCT_MEM + newsize
  PROVE  Allocator!Resize
  <1> DEFINE b == BlockAt(mem, held, a)
             c == BlockAt(mem', held', a)
  <1>1. DOMAIN held' = DOMAIN held /\ held'[a] = newsize
        /\ \A x \in DOMAIN held \ {a} : held'[x] = held[x]
    OBVIOUS
  <1>2. b \in Blocks /\ c \in Blocks'
    BY <1>1, BlocksAre
  <1>3. Blocks' = (Blocks \ {b}) \cup {c}
    <2>1. \A x \in DOMAIN held \ {a} : /\ BlockAt(mem', held', x) = BlockAt(mem, held, x)
                                       /\ BlockAt(mem, held, x) # b
      BY <1>1 DEF BlockAt
    <2> HIDE DEF b, c
    <2>2. Blocks' = {BlockAt(mem', held', x) : x \in DOMAIN held \ {a}} \cup {c}
      BY <1>1, BlocksAre DEF c
    <2>3. Blocks = {BlockAt(mem, held, x) : x \in DOMAIN held \ {a}} \cup {b}
      BY BlocksAre DEF b
    <2> QED  BY <2>1, <2>2, <2>3
  <1>4. c.addr = b.addr /\ c.end <= b.end /\ c.end - c.addr >= SIZEOF_STRUCT_MEM + c.size
    BY <1>1 DEF BlockAt
  <1> HIDE DEF b, c
  <1> QED  BY <1>2, <1>3, <1>4 DEF Allocator!Resize, Allocator!Holds

\* A gap between the blocks the program has is one free block.
LEMMA GapIsFree ==
  ASSUME HeapInv, AddrInv,
         NEW lo \in {0} \cup {b.end : b \in Blocks},
         NEW hi \in {b.addr : b \in Blocks} \cup {heap_end},
         Allocator!Gap(lo, hi)
  PROVE  lo \in Free(mem) /\ mem[lo].next = hi
  <1>1. lo < hi /\ \A x \in DOMAIN held : mem[x].next <= lo \/ hi <= x
    <2>1. lo < hi /\ \A b \in Blocks : b.end <= lo \/ hi <= b.addr
      BY DEF Allocator!Gap
    <2>2. ASSUME NEW x \in DOMAIN held PROVE mem[x].next <= lo \/ hi <= x
      <3>1. BlockAt(mem, held, x) \in Blocks
        BY BlocksAre
      <3>2. BlockAt(mem, held, x).end = mem[x].next /\ BlockAt(mem, held, x).addr = x
        BY DEF BlockAt
      <3> QED  BY <2>1, <3>1, <3>2
    <2> QED  BY <2>1, <2>2
  <1>2. Chain(mem) /\ NoHoles(mem) /\ Used(mem) = DOMAIN held \cup {heap_end}
    BY DEF HeapInv
  <1>3. lo \in DOMAIN mem
    <2>1. lo = 0 \/ \E x \in DOMAIN held : lo = mem[x].next
      BY BlocksAre DEF BlockAt
    <2> QED  BY <1>2, <2>1, HeldBytes DEF Chain
  <1>4. hi \in DOMAIN mem
    <2>1. hi = heap_end \/ hi \in DOMAIN held
      BY BlocksAre DEF BlockAt
    <2> QED  BY <1>2, <2>1, HeldBytes DEF Chain
  <1>5. lo \in Nat /\ hi \in Nat /\ hi <= heap_end /\ heap_end \in Nat
    BY <1>2, <1>3, <1>4, HeapEndNat DEF Chain, AddrInv
  <1>6. lo \in DOMAIN mem \ {heap_end}
    BY <1>1, <1>3, <1>5
  <1> DEFINE n == mem[lo].next
  <1>7. n \in DOMAIN mem /\ n \in Nat /\ n > lo /\ (hi <= lo \/ n <= hi)
    BY <1>2, <1>4, <1>5, <1>6, HeapEndNat DEF Chain, Headers
  <1>8. lo \in Free(mem)
    <2> SUFFICES ASSUME lo \notin Free(mem) PROVE FALSE
      OBVIOUS
    <2>1. lo \in DOMAIN held
      BY <1>2, <1>6 DEF Used
    <2>2. n <= lo \/ hi <= lo
      BY <1>1, <2>1
    <2> QED  BY <1>1, <1>5, <1>7, <2>2
  <1>9. n = hi
    <2> SUFFICES ASSUME n # hi PROVE FALSE
      OBVIOUS
    <2>1. n < hi
      BY <1>1, <1>5, <1>7
    <2>2. mem[n].used
      BY <1>2, <1>8 DEF NoHoles
    <2>3. n \in DOMAIN held
      BY <1>2, <1>5, <1>7, <2>1, <2>2 DEF Used, Free
    <2>4. mem[n].next <= lo \/ hi <= n
      BY <1>1, <2>3
    <2>5. mem[n].next \in Nat /\ mem[n].next > n
      BY <2>3, HeldBytes
    <2> HIDE DEF n
    <2> QED  BY <1>5, <1>7, <2>1, <2>4, <2>5
  <1> QED  BY <1>8, <1>9

\* A request is refused only when no gap is large enough, when the only one is
\* that before heap_end and fits exactly, or when a gap is hidden below lfree.
LEMMA RefineRefuse ==
  ASSUME HeapInv, AddrInv, NEW need \in Nat \ {0}, refused' = need,
         need > mem_size_aligned \/ Fitting(need) = {},
         UNCHANGED <<mem, lfree, held>>
  PROVE  Allocator!Refuse
  <1>1. Blocks' = Blocks /\ Hidden' = Hidden
    BY DEF Blocks, Hidden, Free
  <1>2. ASSUME ~Hidden, NEW lo \in {0} \cup {b.end : b \in Blocks},
               NEW hi \in {b.addr : b \in Blocks} \cup {heap_end}, Allocator!Gap(lo, hi)
        PROVE  /\ hi # heap_end => hi - lo < SIZEOF_STRUCT_MEM + need
               /\ hi - lo <= SIZEOF_STRUCT_MEM + need
    <2>1. lo \in Free(mem) /\ mem[lo].next = hi
      BY <1>2, GapIsFree
    <2>2. lo \in Nat /\ hi \in Nat /\ hi <= heap_end
      BY <2>1 DEF HeapInv, Chain, Free, Headers, AddrInv
    <2>3. lo >= lfree /\ lfree \in Nat
      <3>1. lfree \in Nat
        BY HeapEndNat DEF HeapInv, Chain, Free, Lfree
      <3>2. ~(lo < lfree)
        BY <1>2, <2>1 DEF Hidden
      <3> QED  BY <2>2, <3>1, <3>2
    <2>4. /\ heap_end = mem_size_aligned + SIZEOF_STRUCT_MEM /\ mem_size_aligned \in Nat
          /\ SIZEOF_STRUCT_MEM \in Nat
      BY RtMemAssumption DEF heap_end
    <2>5. CASE need > mem_size_aligned
      BY <2>2, <2>4, <2>5
    <2>6. CASE Fitting(need) = {}
      <3>1. lo >= mem_size_aligned - need \/ hi - (lo + SIZEOF_STRUCT_MEM) < need
        <4>1. lo \notin Fitting(need)
          BY <2>6
        <4>2. ~(lo < mem_size_aligned - need) \/ ~(DataSize(mem, lo) >= need)
          BY <2>1, <2>3, <4>1 DEF Fitting
        <4>3. DataSize(mem, lo) = hi - (lo + SIZEOF_STRUCT_MEM)
          BY <2>1 DEF DataSize
        <4> QED  BY <2>2, <2>4, <4>2, <4>3
      <3>2. hi # heap_end => hi < mem_size_aligned
        <4> SUFFICES ASSUME hi # heap_end PROVE hi < mem_size_aligned
          OBVIOUS
        <4>1. hi \in DOMAIN mem \ {heap_end}
          BY <2>1 DEF HeapInv, Chain, Free
        <4>2. /\ mem[hi].next \in DOMAIN mem /\ mem[hi].next \in Nat
              /\ mem[hi].next > hi + SIZEOF_STRUCT_MEM
          BY <4>1 DEF HeapInv, Chain, Headers
        <4>3. mem[hi].next <= heap_end
          BY <4>2 DEF AddrInv
        <4> QED  BY <2>2, <2>4, <4>2, <4>3
      <3> QED  BY <2>2, <2>4, <3>1, <3>2
    <2> QED  BY <2>5, <2>6
  <1>3. ASSUME ~Hidden, NEW lo \in {0} \cup {b.end : b \in Blocks}
        PROVE  /\ \A hi \in {b.addr : b \in Blocks} :
                    Allocator!Gap(lo, hi) => hi - lo < SIZEOF_STRUCT_MEM + refused'
               /\ Allocator!Gap(lo, heap_end) => heap_end - lo <= SIZEOF_STRUCT_MEM + refused'
    <2>1. \A hi \in {b.addr : b \in Blocks} : hi # heap_end
      <3>1. \A x \in DOMAIN held : x # heap_end
        BY HeldBytes
      <3> QED  BY <3>1, BlocksAre DEF BlockAt
    <2> QED  BY <1>2, <1>3, <2>1
  <1>4. refused' > 0
    OBVIOUS
  <1> QED  BY <1>1, <1>3, <1>4 DEF Allocator!Refuse

LEMMA RefineNoMemory ==
  ASSUME HeapInv, AddrInv, NEW size \in Nat, NoMemory(size)
  PROVE  Allocator!Refuse
  <1>1. Need(size) \in Nat \ {0} /\ MIN_SIZE_ALIGNED \in Nat /\ RT_ALIGN(size) \in Nat
    BY NeedPositive, AlignUp
  <1>2. /\ RT_ALIGN(size) <= mem_size_aligned => Fitting(Need(size)) = {}
        /\ refused' = Need(size) /\ UNCHANGED <<mem, lfree, held>>
    BY DEF NoMemory
  <1>3. RT_ALIGN(size) > mem_size_aligned => Need(size) > mem_size_aligned
    BY <1>1, RtMemAssumption DEF Need
  <1>4. Need(size) > mem_size_aligned \/ Fitting(Need(size)) = {}
    BY <1>1, <1>2, <1>3, RtMemAssumption
  <1> QED  BY <1>1, <1>2, <1>4, RefineRefuse

LEMMA RefineMalloc ==
  ASSUME HeapInv, AddrInv, NEW size \in Nat, Malloc(size) \/ NoMemory(size)
  PROVE  Allocator!Next /\ AddrInv'
  <1>1. CASE Malloc(size)
    BY <1>1, RefineGrant, MallocAddr DEF Allocator!Next
  <1>2. CASE NoMemory(size)
    <2>1. AddrInv'
      BY <1>2 DEF NoMemory, AddrInv
    <2> QED  BY <1>2, <2>1, RefineNoMemory DEF Allocator!Next
  <1> QED  BY <1>1, <1>2

LEMMA RefineFree ==
  ASSUME HeapInv, AddrInv, NEW a \in DOMAIN held, Release(a)
  PROVE  Allocator!Next /\ AddrInv'
  <1>1. AddrInv'
    BY ReleaseStep DEF AddrInv
  <1> QED  BY <1>1, RefineRelease DEF Allocator!Next

LEMMA RefineRealloc ==
  ASSUME HeapInv, AddrInv, NEW t \in Threads, NEW a \in DOMAIN held, NEW newsize \in Nat,
         rt_realloc(t, a, newsize)
  PROVE  [Allocator!Next]_(Allocator!vars) /\ AddrInv'
  <1>0. /\ RT_ALIGN(newsize) \in Nat /\ RT_ALIGN(newsize) >= newsize
        /\ a \in Nat /\ mem[a].next \in Nat /\ SIZEOF_STRUCT_MEM \in Nat
    BY AlignUp, HeldBytes, HeapEndNat
  <1>1. CASE ReallocFree(t, a, newsize)
    BY <1>1, RefineFree DEF ReallocFree
  <1>2. CASE ReallocTooLarge(t, a, newsize)
    <2>1. /\ RT_ALIGN(newsize) > mem_size_aligned /\ refused' = RT_ALIGN(newsize)
          /\ UNCHANGED <<mem, lfree, held>>
      BY <1>2 DEF ReallocTooLarge
    <2>2. RT_ALIGN(newsize) \in Nat \ {0}
      BY <1>0, <2>1, RtMemAssumption
    <2>3. Allocator!Refuse
      BY <2>1, <2>2, RefineRefuse
    <2> QED  BY <2>1, <2>3 DEF Allocator!Next, AddrInv
  <1>3. CASE ReallocSame(t, a, newsize)
    <2>1. /\ RT_ALIGN(newsize) = mem[a].next - (a + SIZEOF_STRUCT_MEM)
          /\ held' = [held EXCEPT ![a] = newsize] /\ refused' = 0 /\ mem' = mem
      BY <1>3 DEF ReallocSame, DataSize
    <2>2. mem[a].next - a >= SIZEOF_STRUCT_MEM + newsize
      BY <1>0, <2>1
    <2>3. /\ \A b \in DOMAIN held \ {a} : mem'[b].next = mem[b].next
          /\ mem'[a].next \in Nat /\ mem'[a].next <= mem[a].next
          /\ mem'[a].next - a >= SIZEOF_STRUCT_MEM + newsize
      BY <1>0, <2>1, <2>2
    <2>4. Allocator!Resize
      BY <2>1, <2>3, RefineResize
    <2> QED  BY <2>1, <2>4 DEF Allocator!Next, AddrInv
  <1>4. CASE ReallocShrink(t, a, newsize)
    <2>1. held' = [held EXCEPT ![a] = newsize] /\ refused' = 0
      BY <1>4 DEF ReallocShrink
    <2>2. /\ \A b \in DOMAIN held \ {a} : mem'[b].next = mem[b].next
          /\ mem'[a].next = a + SIZEOF_STRUCT_MEM + RT_ALIGN(newsize)
          /\ mem'[a].next <= mem[a].next
      BY <1>4, ShrinkStep
    <2>3. mem'[a].next \in Nat /\ mem'[a].next - a >= SIZEOF_STRUCT_MEM + newsize
      BY <1>0, <2>2
    <2>4. Allocator!Resize
      BY <2>1, <2>2, <2>3, RefineResize
    <2> QED  BY <1>4, <2>4, ShrinkAddr DEF Allocator!Next
  <1>5. CASE ReallocMove(t, a, newsize)
    <2>1. UNCHANGED <<mem, lfree, held, refused>>
      BY <1>5 DEF ReallocMove
    <2>2. Blocks' = Blocks /\ Hidden' = Hidden
      BY <2>1 DEF Blocks, Hidden, Free
    <2> QED  BY <2>1, <2>2 DEF Allocator!vars, AddrInv
  <1> QED
    BY <1>1, <1>2, <1>3, <1>4, <1>5 DEF rt_realloc

LEMMA RefineNext == IInv /\ AddrInv /\ [Next]_vars => [Allocator!Next]_(Allocator!vars) /\ AddrInv'
  <1> SUFFICES ASSUME IInv, AddrInv, [Next]_vars
               PROVE  [Allocator!Next]_(Allocator!vars) /\ AddrInv'
    OBVIOUS
  <1>0. HeapInv
    BY DEF IInv
  <1>1. CASE UNCHANGED vars
    <2>1. Blocks' = Blocks /\ Hidden' = Hidden /\ refused' = refused /\ mem' = mem
      BY <1>1 DEF vars, Blocks, Hidden, Free
    <2> QED  BY <2>1 DEF Allocator!vars, AddrInv
  <1>2. ASSUME NEW t \in Threads, NEW size \in Sizes, rt_malloc(t, size)
        PROVE  Allocator!Next /\ AddrInv'
    BY <1>0, <1>2, RefineMalloc, RtMemAssumption DEF rt_malloc
  <1>3. ASSUME NEW t \in Threads, NEW size \in Sizes, NEW count \in Counts,
               rt_calloc(t, count, size)
        PROVE  Allocator!Next /\ AddrInv'
    <2>1. count * size \in Nat
      BY RtMemAssumption
    <2> QED  BY <1>0, <1>3, <2>1, RefineMalloc DEF rt_calloc, rt_malloc
  <1>4. ASSUME NEW t \in Threads, NEW a \in DOMAIN held, rt_free(t, a)
        PROVE  Allocator!Next /\ AddrInv'
    BY <1>0, <1>4, RefineFree DEF rt_free
  <1>5. ASSUME NEW t \in Threads, NEW a \in DOMAIN held, NEW size \in Sizes,
               rt_realloc(t, a, size)
        PROVE  [Allocator!Next]_(Allocator!vars) /\ AddrInv'
    BY <1>0, <1>5, RefineRealloc, RtMemAssumption
  <1>6. ASSUME NEW t \in Threads, MoveMalloc(t) PROVE Allocator!Next /\ AddrInv'
    <2>1. moving[t].newsize \in Nat
      BY <1>6 DEF IInv, MoveInv, MoveMalloc, Idle, Moves
    <2> QED  BY <1>0, <1>6, <2>1, RefineMalloc DEF MoveMalloc
  <1>7. ASSUME NEW t \in Threads, MoveFree(t) PROVE Allocator!Next /\ AddrInv'
    <2>1. moving[t].from \in DOMAIN held
      BY <1>7 DEF IInv, MoveInv, MoveFree
    <2> QED  BY <1>0, <1>7, <2>1, RefineFree DEF MoveFree
  <1> QED
    BY <1>1, <1>2, <1>3, <1>4, <1>5, <1>6, <1>7 DEF Next

LEMMA RefineInit == Init => Allocator!Init
  <1> SUFFICES ASSUME Init PROVE Allocator!Init
    OBVIOUS
  <1>1. DOMAIN held = {} /\ lfree = 0 /\ refused = 0 /\ DOMAIN mem = {0, heap_end}
    BY DEF Init
  <1>2. Blocks = {}
    BY <1>1 DEF Blocks
  <1>3. Hidden = FALSE
    BY <1>1, HeapEndNat DEF Hidden, Free
  <1> QED  BY <1>1, <1>2, <1>3 DEF Allocator!Init

\* The heap implements BlockAllocator, for every size and any number of threads: a
\* block is aligned, large enough and its holder's alone from the moment it is
\* granted until it is given back, and a request is refused only when no gap is
\* large enough, when the last gap fits exactly, or when rt_realloc hid one.
THEOREM RefinesAllocator == Spec => ImplementsAllocator
  <1>1. Spec => []IInv
    BY InitIInv, NextIInv, PTL DEF Spec
  <1> QED
    BY <1>1, InitAddr, RefineInit, RefineNext, PTL DEF Spec, ImplementsAllocator, Allocator!Spec

===============================================================================
