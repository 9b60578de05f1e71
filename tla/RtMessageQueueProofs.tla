------------------------- MODULE RtMessageQueueProofs -------------------------
(* Proofs about RtMessageQueue for every pool, every set of callers and     *)
(* every set of messages.                                                   *)
EXTENDS RtMessageQueue, SequenceTheorems, FiniteSetTheorems, TLAPS

----------------------------------------------------------------------------
(* Sequences: what taking, pushing and appending do to their elements.      *)

LEMMA EmptyIff ==
  ASSUME NEW S, NEW seq \in Seq(S)
  PROVE  seq = <<>> <=> Len(seq) = 0
  OBVIOUS

LEMMA TailFacts ==
  ASSUME NEW S, NEW seq \in Seq(S), seq # <<>>
  PROVE  /\ Tail(seq) \in Seq(S)
         /\ Len(seq) \in Nat \ {0}
         /\ Len(Tail(seq)) = Len(seq) - 1
         /\ \A i \in 1 .. Len(seq) - 1 : Tail(seq)[i] = seq[i + 1]
         /\ seq[1] \in S
         /\ seq[1] \in Elems(seq)
         /\ Elems(Tail(seq)) \subseteq Elems(seq)
         /\ Elems(seq) = Elems(Tail(seq)) \cup {seq[1]}
  <1>1. /\ Tail(seq) \in Seq(S)
        /\ Len(seq) \in Nat \ {0}
        /\ Len(Tail(seq)) = Len(seq) - 1
        /\ \A i \in 1 .. Len(seq) - 1 : Tail(seq)[i] = seq[i + 1]
        /\ seq[1] \in S
    OBVIOUS
  <1>2. seq[1] \in Elems(seq)
    BY <1>1 DEF Elems
  <1>3. Elems(Tail(seq)) \subseteq Elems(seq)
    BY <1>1 DEF Elems
  <1>4. ASSUME NEW x \in Elems(seq), x # seq[1]
        PROVE  x \in Elems(Tail(seq))
    <2>1. PICK i \in 1 .. Len(seq) : x = seq[i]
      BY DEF Elems
    <2>2. i - 1 \in 1 .. Len(Tail(seq)) /\ Tail(seq)[i - 1] = x
      BY <1>1, <1>4, <2>1
    <2> QED  BY <2>2 DEF Elems
  <1> QED  BY <1>1, <1>2, <1>3, <1>4

LEMMA TailDistinct ==
  ASSUME NEW S, NEW seq \in Seq(S), seq # <<>>, Distinct(seq)
  PROVE  /\ Distinct(Tail(seq))
         /\ seq[1] \notin Elems(Tail(seq))
  <1>1. /\ Len(seq) \in Nat \ {0}
        /\ Len(Tail(seq)) = Len(seq) - 1
        /\ \A i \in 1 .. Len(seq) - 1 : Tail(seq)[i] = seq[i + 1]
    BY TailFacts
  <1>2. Distinct(Tail(seq))
    <2> SUFFICES ASSUME NEW i \in 1 .. Len(seq) - 1, NEW j \in 1 .. Len(seq) - 1,
                        Tail(seq)[i] = Tail(seq)[j]
                 PROVE  i = j
      BY <1>1 DEF Distinct
    <2>1. seq[i + 1] = seq[j + 1] /\ i + 1 \in 1 .. Len(seq) /\ j + 1 \in 1 .. Len(seq)
      BY <1>1
    <2> QED  BY <2>1 DEF Distinct
  <1>3. seq[1] \notin Elems(Tail(seq))
    <2> SUFFICES ASSUME NEW i \in 1 .. Len(seq) - 1, Tail(seq)[i] = seq[1]
                 PROVE  FALSE
      BY <1>1 DEF Elems
    <2>1. seq[i + 1] = seq[1] /\ i + 1 \in 1 .. Len(seq) /\ 1 \in 1 .. Len(seq) /\ i + 1 # 1
      BY <1>1
    <2> QED  BY <2>1 DEF Distinct
  <1> QED  BY <1>2, <1>3

LEMMA PushFacts ==
  ASSUME NEW S, NEW seq \in Seq(S), NEW x \in S
  PROVE  /\ <<x>> \o seq \in Seq(S)
         /\ <<x>> \o seq # <<>>
         /\ Len(<<x>> \o seq) = Len(seq) + 1
         /\ (<<x>> \o seq)[1] = x
         /\ \A i \in 1 .. Len(seq) : (<<x>> \o seq)[i + 1] = seq[i]
         /\ Elems(<<x>> \o seq) = Elems(seq) \cup {x}
         /\ Distinct(seq) /\ x \notin Elems(seq) => Distinct(<<x>> \o seq)
  <1> DEFINE new == <<x>> \o seq
  <1>1. /\ new \in Seq(S)
        /\ Len(new) = Len(seq) + 1
        /\ Len(seq) \in Nat
        /\ new[1] = x
        /\ \A i \in 1 .. Len(seq) : new[i + 1] = seq[i]
    OBVIOUS
  <1> HIDE DEF new
  <1>2. new # <<>>
    BY <1>1
  <1>3. ASSUME NEW i \in 1 .. Len(new), i # 1
        PROVE  i - 1 \in 1 .. Len(seq) /\ new[i] = seq[i - 1]
    <2>1. i - 1 \in 1 .. Len(seq)
      BY <1>1, <1>3
    <2>2. (i - 1) + 1 = i
      BY <1>1
    <2> QED  BY <1>1, <2>1, <2>2
  <1>4. Elems(new) = Elems(seq) \cup {x}
    <2>1. Elems(new) \subseteq Elems(seq) \cup {x}
      BY <1>1, <1>3 DEF Elems
    <2>2. ASSUME NEW i \in 1 .. Len(seq)
          PROVE  seq[i] \in Elems(new)
      <3>1. i + 1 \in 1 .. Len(new) /\ new[i + 1] = seq[i]
        BY <1>1
      <3> QED  BY <3>1 DEF Elems
    <2>3. x \in Elems(new)
      <3>1. 1 \in 1 .. Len(new)
        BY <1>1
      <3> QED  BY <1>1, <3>1 DEF Elems
    <2> QED  BY <2>1, <2>2, <2>3 DEF Elems
  <1>5. ASSUME Distinct(seq), x \notin Elems(seq)
        PROVE  Distinct(new)
    <2> SUFFICES ASSUME NEW i \in 1 .. Len(new), NEW j \in 1 .. Len(new),
                        new[i] = new[j], i # j
                 PROVE  FALSE
      BY DEF Distinct
    <2>1. CASE i = 1
      BY <1>1, <1>3, <1>5, <2>1 DEF Elems
    <2>2. CASE j = 1
      BY <1>1, <1>3, <1>5, <2>2 DEF Elems
    <2>3. CASE i # 1 /\ j # 1
      <3>1. /\ i - 1 \in 1 .. Len(seq) /\ j - 1 \in 1 .. Len(seq)
            /\ seq[i - 1] = seq[j - 1]
        BY <1>3, <2>3
      <3>2. i - 1 = j - 1
        BY <3>1, <1>5 DEF Distinct
      <3> QED  BY <3>2, <1>1
    <2> QED  BY <2>1, <2>2, <2>3
  <1> QED  BY <1>1, <1>2, <1>4, <1>5 DEF new

LEMMA AppendFacts ==
  ASSUME NEW S, NEW seq \in Seq(S), NEW x \in S
  PROVE  /\ Append(seq, x) \in Seq(S)
         /\ Append(seq, x) # <<>>
         /\ Len(Append(seq, x)) = Len(seq) + 1
         /\ Append(seq, x)[Len(seq) + 1] = x
         /\ \A i \in 1 .. Len(seq) : Append(seq, x)[i] = seq[i]
         /\ Elems(Append(seq, x)) = Elems(seq) \cup {x}
         /\ Distinct(seq) /\ x \notin Elems(seq) => Distinct(Append(seq, x))
  <1> DEFINE new == Append(seq, x)
  <1>1. /\ new \in Seq(S)
        /\ Len(new) = Len(seq) + 1
        /\ Len(seq) \in Nat
        /\ new[Len(seq) + 1] = x
        /\ \A i \in 1 .. Len(seq) : new[i] = seq[i]
    OBVIOUS
  <1> HIDE DEF new
  <1>2. new # <<>>
    BY <1>1
  <1>3. \A i \in 1 .. Len(new) : i # Len(seq) + 1 => i \in 1 .. Len(seq) /\ new[i] = seq[i]
    BY <1>1
  <1>4. Elems(new) = Elems(seq) \cup {x}
    <2>1. Elems(new) \subseteq Elems(seq) \cup {x}
      BY <1>1, <1>3 DEF Elems
    <2>2. \A i \in 1 .. Len(seq) : seq[i] \in Elems(new)
      BY <1>1 DEF Elems
    <2>3. x \in Elems(new)
      <3>1. Len(seq) + 1 \in 1 .. Len(new)
        BY <1>1
      <3> QED  BY <1>1, <3>1 DEF Elems
    <2> QED  BY <2>1, <2>2, <2>3 DEF Elems
  <1>5. ASSUME Distinct(seq), x \notin Elems(seq)
        PROVE  Distinct(new)
    BY <1>1, <1>3, <1>5 DEF Distinct, Elems
  <1> QED  BY <1>1, <1>2, <1>4, <1>5 DEF new

----------------------------------------------------------------------------
(* Linked lists: each list operation of the code, on a chain of links.      *)

LEMMA ChainEmpty ==
  ASSUME NEW nx
  PROVE  Chain(nx, RT_NULL, <<>>)
  BY DEF Chain

\* Writing the link of a block that is not on a list leaves the list alone.
LEMMA ChainFrame ==
  ASSUME NEW nx \in [Slots -> Pointers], NEW p, NEW seq \in Seq(Slots),
         NEW s \in Slots, NEW v, Chain(nx, p, seq), s \notin Elems(seq)
  PROVE  Chain([nx EXCEPT ![s] = v], p, seq)
  <1>1. \A i \in 1 .. Len(seq) : seq[i] \in Slots /\ seq[i] # s
    BY DEF Elems
  <1>2. seq # <<>> => Len(seq) \in 1 .. Len(seq)
    OBVIOUS
  <1>3. \A i \in 1 .. Len(seq) - 1 : i \in 1 .. Len(seq)
    OBVIOUS
  <1> QED  BY <1>1, <1>2, <1>3 DEF Chain

\* Following the first link drops the first block.
LEMMA ChainTail ==
  ASSUME NEW nx \in [Slots -> Pointers], NEW p, NEW seq \in Seq(Slots),
         Chain(nx, p, seq), p # RT_NULL
  PROVE  /\ seq # <<>>
         /\ p = seq[1]
         /\ p \in Slots
         /\ Chain(nx, nx[p], Tail(seq))
  <1>1. seq # <<>> /\ p = seq[1]
    BY DEF Chain
  <1>2. /\ Len(seq) \in Nat \ {0}
        /\ Tail(seq) \in Seq(Slots)
        /\ Len(Tail(seq)) = Len(seq) - 1
        /\ \A i \in 1 .. Len(seq) - 1 : Tail(seq)[i] = seq[i + 1]
        /\ seq[1] \in Slots
    BY <1>1, TailFacts
  <1>3. CASE Len(seq) = 1
    <2>1. Tail(seq) = <<>>
      <3>1. Len(Tail(seq)) = 0
        BY <1>2, <1>3
      <3> QED  BY <1>2, <3>1, EmptyIff, Zenon
    <2>2. nx[p] = RT_NULL
      BY <1>1, <1>3 DEF Chain
    <2> QED  BY <1>1, <1>2, <2>1, <2>2 DEF Chain
  <1>4. CASE Len(seq) # 1
    <2>1. Tail(seq) # <<>> /\ Len(Tail(seq)) \in 1 .. Len(seq) - 1
      <3>1. Len(Tail(seq)) # 0 /\ Len(Tail(seq)) \in 1 .. Len(seq) - 1
        BY <1>2, <1>4
      <3> QED  BY <1>2, <3>1, EmptyIff, Zenon
    <2>2. nx[p] = Tail(seq)[1]
      BY <1>1, <1>2, <1>4 DEF Chain
    <2>3. nx[Tail(seq)[Len(Tail(seq))]] = RT_NULL
      <3>1. Tail(seq)[Len(Tail(seq))] = seq[Len(seq)]
        BY <1>2, <2>1
      <3> QED  BY <1>1, <3>1 DEF Chain
    <2>4. \A i \in 1 .. Len(Tail(seq)) - 1 : nx[Tail(seq)[i]] = Tail(seq)[i + 1]
      <3> SUFFICES ASSUME NEW i \in 1 .. Len(Tail(seq)) - 1
                   PROVE  nx[Tail(seq)[i]] = Tail(seq)[i + 1]
        OBVIOUS
      <3>1. /\ i \in 1 .. Len(seq) - 1 /\ i + 1 \in 1 .. Len(seq) - 1
            /\ Tail(seq)[i] = seq[i + 1] /\ Tail(seq)[i + 1] = seq[(i + 1) + 1]
        BY <1>2
      <3> QED  BY <3>1 DEF Chain
    <2> QED  BY <1>1, <1>2, <2>1, <2>2, <2>3, <2>4 DEF Chain
  <1> QED  BY <1>3, <1>4

LastOf(seq) == IF seq = <<>> THEN RT_NULL ELSE seq[Len(seq)]

\* The tail pointer is cleared exactly when the last block is taken.
LEMMA LastOfTail ==
  ASSUME NEW seq \in Seq(Slots), seq # <<>>, Distinct(seq)
  PROVE  LastOf(Tail(seq)) = IF LastOf(seq) = seq[1] THEN RT_NULL ELSE LastOf(seq)
  <1>1. /\ Len(seq) \in Nat \ {0}
        /\ Tail(seq) \in Seq(Slots)
        /\ Len(Tail(seq)) = Len(seq) - 1
        /\ \A i \in 1 .. Len(seq) - 1 : Tail(seq)[i] = seq[i + 1]
    BY TailFacts
  <1>2. CASE Len(seq) = 1
    <2>1. Len(Tail(seq)) = 0
      BY <1>1, <1>2
    <2>2. Tail(seq) = <<>>
      BY <1>1, <2>1, EmptyIff, Zenon
    <2> QED  BY <1>2, <2>2 DEF LastOf
  <1>3. CASE Len(seq) # 1
    <2>1. /\ Len(Tail(seq)) # 0
          /\ Tail(seq)[Len(Tail(seq))] = seq[Len(seq)]
          /\ Len(seq) \in 1 .. Len(seq) /\ 1 \in 1 .. Len(seq)
      BY <1>1, <1>3
    <2>2. Tail(seq) # <<>>
      BY <1>1, <2>1, EmptyIff, Zenon
    <2>3. seq[Len(seq)] # seq[1]
      BY <1>3, <2>1 DEF Distinct
    <2> QED  BY <2>1, <2>2, <2>3 DEF LastOf
  <1> QED  BY <1>2, <1>3

\* Pushing a block on a list: its link gets the old first block.
LEMMA ChainPush ==
  ASSUME NEW nx \in [Slots -> Pointers], NEW p, NEW seq \in Seq(Slots),
         NEW s \in Slots, Chain(nx, p, seq), s \notin Elems(seq)
  PROVE  Chain([nx EXCEPT ![s] = p], s, <<s>> \o seq)
  <1> DEFINE new == <<s>> \o seq
             nw == [nx EXCEPT ![s] = p]
  <1>1. /\ new # <<>>
        /\ Len(new) = Len(seq) + 1
        /\ Len(seq) \in Nat
        /\ new[1] = s
        /\ \A i \in 1 .. Len(seq) : new[i + 1] = seq[i]
    BY PushFacts
  <1>2. Chain(nw, p, seq)
    BY ChainFrame
  <1>3. nw[s] = p
    OBVIOUS
  <1> HIDE DEF new, nw
  <1>4. ASSUME NEW i \in 1 .. Len(new) - 1
        PROVE  nw[new[i]] = new[i + 1]
    <2>1. CASE i = 1
      <3>1. seq # <<>> /\ new[2] = seq[1]
        BY <1>1, <2>1
      <3> QED  BY <1>1, <1>2, <1>3, <2>1, <3>1 DEF Chain
    <2>2. CASE i # 1
      <3>1. i - 1 \in 1 .. Len(seq) - 1 /\ i - 1 \in 1 .. Len(seq)
        BY <1>1, <2>2
      <3>2. new[i] = seq[i - 1] /\ new[i + 1] = seq[i]
        <4>1. (i - 1) + 1 = i /\ i \in 1 .. Len(seq)
          BY <1>1, <2>2
        <4> QED  BY <1>1, <3>1, <4>1
      <3>3. nw[seq[i - 1]] = seq[(i - 1) + 1] /\ (i - 1) + 1 = i
        BY <1>2, <3>1 DEF Chain
      <3> QED  BY <3>2, <3>3
    <2> QED  BY <2>1, <2>2
  <1>5. nw[new[Len(new)]] = RT_NULL
    <2>1. CASE seq = <<>>
      BY <1>1, <1>2, <1>3, <2>1 DEF Chain
    <2>2. CASE seq # <<>>
      <3>1. Len(seq) \in 1 .. Len(seq)
        BY <2>2
      <3>2. new[Len(new)] = seq[Len(seq)]
        BY <1>1, <3>1
      <3> QED  BY <1>2, <2>2, <3>2 DEF Chain
    <2> QED  BY <2>1, <2>2
  <1>6. Chain(nw, s, new)
    BY <1>1, <1>4, <1>5 DEF Chain
  <1> QED  BY <1>6 DEF new, nw

\* Linking a block behind the last one of a list that is not empty.
LEMMA ChainAppend ==
  ASSUME NEW nx \in [Slots -> Pointers], NEW p, NEW seq \in Seq(Slots),
         NEW s \in Slots, Chain(nx, p, seq), s \notin Elems(seq),
         Distinct(seq), seq # <<>>, nx[s] = RT_NULL
  PROVE  Chain([nx EXCEPT ![seq[Len(seq)]] = s], p, Append(seq, s))
  <1> DEFINE new == Append(seq, s)
             l == Len(seq)
             nw == [nx EXCEPT ![seq[l]] = s]
  <1>1. /\ new # <<>>
        /\ Len(new) = l + 1
        /\ l \in Nat \ {0}
        /\ new[l + 1] = s
        /\ \A i \in 1 .. l : new[i] = seq[i]
        /\ l \in 1 .. l
    BY AppendFacts
  <1>2. \A i \in 1 .. l : seq[i] \in Slots /\ seq[i] # s
    BY DEF Elems
  <1>3. \A i \in 1 .. l - 1 : seq[i] # seq[l]
    BY <1>1 DEF Distinct
  <1>4. /\ nw[seq[l]] = s
        /\ nw[s] = RT_NULL
        /\ \A i \in 1 .. l - 1 : nw[seq[i]] = nx[seq[i]]
    BY <1>1, <1>2, <1>3
  <1> HIDE DEF new, nw
  <1>5. \A i \in 1 .. Len(new) - 1 : nw[new[i]] = new[i + 1]
    <2> SUFFICES ASSUME NEW i \in 1 .. l
                 PROVE  nw[new[i]] = new[i + 1]
      BY <1>1
    <2>1. CASE i = l
      BY <1>1, <1>4, <2>1
    <2>2. CASE i # l
      <3>1. i \in 1 .. l - 1 /\ i + 1 \in 1 .. l
        BY <1>1, <2>2
      <3> QED  BY <1>1, <1>4, <3>1 DEF Chain
    <2> QED  BY <2>1, <2>2
  <1>6. nw[new[Len(new)]] = RT_NULL
    BY <1>1, <1>4
  <1>7. p = new[1]
    BY <1>1 DEF Chain
  <1>8. Chain(nw, p, new)
    BY <1>1, <1>5, <1>6, <1>7 DEF Chain
  <1> QED  BY <1>8 DEF new, nw

----------------------------------------------------------------------------
(* The pool                                                                 *)

LEMMA DivNat ==
  ASSUME NEW a \in Nat, NEW b \in Nat \ {0}
  PROVE  a \div b \in Nat
  OBVIOUS

LEMMA MulNat ==
  ASSUME NEW a \in Nat, NEW b \in Nat
  PROVE  a * b \in Nat
  OBVIOUS

LEMMA BlockSizeNat == BlockSize \in Nat \ {0}
  <1> DEFINE q == (MsgSize + AlignSize - 1) \div AlignSize
  <1>1. MsgSize + AlignSize - 1 \in Nat /\ AlignSize \in Nat \ {0}
    BY ConstantsAssumption
  <1>2. q \in Nat
    BY <1>1, DivNat
  <1> HIDE DEF q
  <1>3. q * AlignSize \in Nat
    BY <1>1, <1>2, MulNat
  <1>4. BlockSize = q * AlignSize + HdrSize
    BY DEF BlockSize, AlignUp, q
  <1> QED  BY <1>3, <1>4, ConstantsAssumption

LEMMA MaxMsgsNat == max_msgs \in Nat
  BY BlockSizeNat, ConstantsAssumption, DivNat DEF max_msgs

\* The blocks of rt_mq_init lie inside the memory it was given: block s covers
\* the bytes (s - 1) * BlockSize up to s * BlockSize - 1 of the pool.
THEOREM BlocksInsidePool == \A s \in Slots : s * BlockSize <= PoolSize
  <1> SUFFICES ASSUME NEW s \in Slots
               PROVE  s * BlockSize <= PoolSize
    OBVIOUS
  <1>1. s \in Nat /\ s <= max_msgs /\ BlockSize \in Nat \ {0} /\ PoolSize \in Nat
    BY MaxMsgsNat, BlockSizeNat, ConstantsAssumption DEF Slots
  <1>2. max_msgs * BlockSize <= PoolSize
    BY <1>1, MaxMsgsNat DEF max_msgs
  <1>3. s * BlockSize <= max_msgs * BlockSize
    BY <1>1, MaxMsgsNat
  <1> QED  BY <1>1, <1>2, <1>3, MulNat, MaxMsgsNat

----------------------------------------------------------------------------
(* The structure of the queue                                               *)

LEMMA SlotsFacts ==
  /\ max_msgs \in Nat
  /\ Slots \subseteq Nat
  /\ Slots \subseteq Pointers
  /\ RT_NULL \in Pointers
  /\ RT_NULL \notin Slots
  /\ \A p \in Pointers : p # RT_NULL => p \in Slots
  BY MaxMsgsNat DEF Slots, Pointers, RT_NULL

LEMMA InitFreed ==
  ASSUME Init
  PROVE  /\ freed \in Seq(Slots)
         /\ Len(freed) = max_msgs
         /\ \A i \in 1 .. max_msgs : freed[i] = max_msgs + 1 - i
  <1>1. max_msgs \in Nat
    BY MaxMsgsNat
  <1>2. freed = [i \in 1 .. max_msgs |-> max_msgs + 1 - i]
    BY DEF Init, Slots
  <1>3. \A i \in 1 .. max_msgs : max_msgs + 1 - i \in Slots
    BY <1>1 DEF Slots
  <1> HIDE DEF Slots
  <1>4. freed \in [1 .. max_msgs -> Slots]
    BY <1>2, <1>3
  <1>5. freed \in Seq(Slots)
    BY <1>1, <1>4
  <1>6. Len(freed) = max_msgs
    BY <1>1, <1>4, <1>5
  <1> QED  BY <1>2, <1>5, <1>6

LEMMA InitStruct == Init => StructInv
  <1> SUFFICES ASSUME Init PROVE StructInv
    OBVIOUS
  <1>1. /\ freed \in Seq(Slots)
        /\ Len(freed) = max_msgs
        /\ \A i \in 1 .. max_msgs : freed[i] = max_msgs + 1 - i
    BY InitFreed
  <1>2. max_msgs \in Nat
    BY MaxMsgsNat
  <1>3. Elems(freed) = Slots
    <2>1. Elems(freed) \subseteq Slots
      BY <1>1, <1>2 DEF Elems, Slots
    <2>2. ASSUME NEW s \in Slots PROVE s \in Elems(freed)
      <3>1. /\ max_msgs + 1 - s \in 1 .. max_msgs
            /\ max_msgs + 1 - (max_msgs + 1 - s) = s
        BY <1>2 DEF Slots
      <3>2. freed[max_msgs + 1 - s] = s
        BY <1>1, <3>1
      <3> QED  BY <1>1, <3>1, <3>2 DEF Elems
    <2> QED  BY <2>1, <2>2
  <1>4. Distinct(freed)
    BY <1>1, <1>2 DEF Distinct
  <1>5. queued = <<>> /\ Elems(queued) = {} /\ Distinct(queued)
    BY DEF Init, Elems, Distinct
  <1>6. Elems(recvList) = {} /\ Elems(sendList) = {}
        /\ Distinct(recvList) /\ Distinct(sendList)
    BY DEF Init, Elems, Distinct
  <1>7. Holders = {}
    BY DEF Init, Holders, HoldPCs
  <1>8. TypeOK
    <2>1. next \in [Slots -> Pointers]
      BY <1>2 DEF Init, Slots, Pointers
    <2>2. data \in [Slots -> Message] /\ buffer \in [Threads -> Message]
      BY DEF Init, Message, Word, Junk
    <2>3. head \in Pointers /\ tail \in Pointers /\ free \in Pointers
      BY <1>2 DEF Init, Pointers, RT_NULL
    <2>4. msg \in [Threads -> Pointers]
      BY <1>2 DEF Init, Pointers, RT_NULL
    <2>5. queued \in Seq(Slots) /\ recvList \in Seq(Threads) /\ sendList \in Seq(Threads)
      BY DEF Init
    <2> QED
      BY <1>1, <2>1, <2>2, <2>3, <2>4, <2>5
      DEF Init, TypeOK, PCs, Timeouts, Errors
  <1>9. HeldBlocks /\ PrivateLinks
    BY DEF Init, HeldBlocks, PrivateLinks, HoldPCs, Inbound
  <1>10. ResetExclusive
    BY NoThreadAssumption DEF Init, ResetExclusive, NoThread
  <1>11. WaitListsExact
    BY <1>6 DEF Init, WaitListsExact
  <1>12. BlocksPartitioned
    BY <1>3, <1>4, <1>5, <1>7 DEF BlocksPartitioned
  <1>13. Chain(next, free, freed)
    <2>1. CASE freed = <<>>
      <3>1. free = RT_NULL
        BY <1>1, <2>1 DEF Init, RT_NULL
      <3> QED  BY <2>1, <3>1, ChainEmpty
    <2>2. CASE freed # <<>>
      <3>1. max_msgs \in 1 .. max_msgs /\ 1 \in 1 .. max_msgs
        BY <1>1, <1>2, <2>2
      <3>2. free = freed[1]
        BY <1>1, <1>2, <3>1 DEF Init
      <3>3. next[freed[Len(freed)]] = RT_NULL
        BY <1>1, <1>2, <3>1 DEF Init, Slots, RT_NULL
      <3>4. \A i \in 1 .. Len(freed) - 1 : next[freed[i]] = freed[i + 1]
        BY <1>1, <1>2 DEF Init, Slots
      <3> QED  BY <2>2, <3>2, <3>3, <3>4 DEF Chain
    <2> QED  BY <2>1, <2>2
  <1>14. ListsWellFormed
    <2>1. Chain(next, head, queued)
      BY <1>5, ChainEmpty DEF Init
    <2>2. tail = RT_NULL /\ entry = Len(queued)
      BY <1>5 DEF Init
    <2> QED  BY <1>5, <1>13, <2>1, <2>2 DEF ListsWellFormed
  <1> QED  BY <1>8, <1>9, <1>10, <1>11, <1>12, <1>14 DEF StructInv

\* A step that moves no block and changes no link: only the holders matter.
LEMMA QuietStep ==
  ASSUME StructInv,
         UNCHANGED <<head, tail, free, next, entry, msg, urgent, queued, freed>>,
         irqOff' = irqOff \/ irqOff' # NoThread,
         \A t \in Threads : pc'[t] \in HoldPCs <=> pc[t] \in HoldPCs,
         \A t \in Threads : pc'[t] \in Inbound <=> pc[t] \in Inbound
  PROVE  HeldBlocks' /\ PrivateLinks' /\ BlocksPartitioned' /\ ListsWellFormed'
  <1>1. Holders' = Holders
    BY DEF Holders
  <1>2. HeldBlocks'
    BY DEF StructInv, HeldBlocks
  <1>3. PrivateLinks'
    BY DEF StructInv, PrivateLinks
  <1>4. BlocksPartitioned'
    BY <1>1 DEF StructInv, BlocksPartitioned
  <1>5. ListsWellFormed'
    BY DEF StructInv, ListsWellFormed
  <1> QED  BY <1>2, <1>3, <1>4, <1>5

\* A step that suspends and resumes nobody.
LEMMA WaitFrame ==
  ASSUME WaitListsExact, UNCHANGED listVars,
         \A t \in Threads : pc'[t] = "recvWait" <=> pc[t] = "recvWait",
         \A t \in Threads : pc'[t] = "sendWait" <=> pc[t] = "sendWait"
  PROVE  WaitListsExact'
  BY DEF WaitListsExact, listVars

\* rt_mq_recv takes the first message: its block goes from the queue to t.
LEMMA RecvPopStruct ==
  ASSUME StructInv, NEW t \in Threads, irqOff = NoThread,
         pc[t] \in {"idle", "recvReady"}, RecvPop(t)
  PROVE  StructInv'
  <1> USE SlotsFacts
  <1>0. /\ TypeOK /\ HeldBlocks /\ ResetExclusive /\ PrivateLinks
        /\ WaitListsExact /\ BlocksPartitioned /\ ListsWellFormed
    BY DEF StructInv
  <1>1. /\ entry = Len(queued) /\ Len(queued) # 0 /\ Chain(next, head, queued)
    BY <1>0 DEF ListsWellFormed, RecvPop
  <1>2. queued # <<>> /\ head # RT_NULL
    <2>1. queued # <<>>
      BY <1>1
    <2>2. queued \in Seq(Slots)
      BY <1>0 DEF TypeOK
    <2>3. queued[1] \in Slots /\ head = queued[1]
      BY <1>1, <2>1, <2>2, TailFacts DEF Chain
    <2> QED  BY <2>1, <2>3
  <1>3. /\ head = queued[1] /\ head \in Slots
        /\ Chain(next, next[head], Tail(queued))
    BY <1>0, <1>1, <1>2, ChainTail DEF TypeOK
  <1>4. /\ queued' \in Seq(Slots)
        /\ queued' = Tail(queued)
        /\ Len(queued') = Len(queued) - 1
        /\ \A i \in 1 .. Len(queued) - 1 : queued'[i] = queued[i + 1]
        /\ Elems(queued) = Elems(queued') \cup {head}
        /\ head \notin Elems(queued')
        /\ Distinct(queued')
    BY <1>0, <1>2, <1>3, TailFacts, TailDistinct
    DEF TypeOK, BlocksPartitioned, RecvPop
  <1>5. /\ t \notin Holders /\ Holders' = Holders \cup {t}
        /\ msg'[t] = head
        /\ \A u \in Threads : u # t => msg'[u] = msg[u]
    BY <1>0 DEF Holders, HoldPCs, RecvPop, TypeOK, PCs
  <1>6. TypeOK'
    <2>1. next[head] \in Pointers
      BY <1>0, <1>3 DEF TypeOK
    <2>2. entry' \in Nat
      BY <1>0, <1>1 DEF TypeOK, RecvPop
    <2>3. pc' \in [Threads -> PCs] /\ timeout' \in [Threads -> Timeouts]
      BY <1>0 DEF TypeOK, RecvPop, PCs, Timeouts
    <2> QED
      BY <1>0, <1>3, <1>4, <2>1, <2>2, <2>3 DEF TypeOK, RecvPop, listVars
  <1>7. HeldBlocks'
    BY <1>0, <1>3 DEF HeldBlocks, RecvPop, HoldPCs, TypeOK
  <1>8. ResetExclusive'
    BY <1>0 DEF ResetExclusive, RecvPop, TypeOK
  <1>9. PrivateLinks'
    BY <1>0 DEF PrivateLinks, RecvPop, TypeOK, Inbound
  <1>10. WaitListsExact'
    <2>1. \A u \in Threads : /\ pc'[u] = "recvWait" <=> pc[u] = "recvWait"
                             /\ pc'[u] = "sendWait" <=> pc[u] = "sendWait"
      BY <1>0 DEF RecvPop, TypeOK
    <2> QED  BY <1>0, <2>1, WaitFrame DEF RecvPop
  <1>11. BlocksPartitioned'
    <2>1. freed' = freed /\ Elems(freed') = Elems(freed) /\ Distinct(freed')
      BY <1>0 DEF RecvPop, BlocksPartitioned, Elems
    <2>2. \A u \in Holders : msg[u] # head
      BY <1>0, <1>4 DEF BlocksPartitioned
    <2>3. {msg'[u] : u \in Holders'} = {msg[u] : u \in Holders} \cup {head}
      BY <1>5 DEF Holders
    <2>4. \A u, v \in Holders' : msg'[u] = msg'[v] => u = v
      BY <1>0, <1>5, <2>2 DEF BlocksPartitioned, Holders
    <2>5. head \notin Elems(freed)
      BY <1>0, <1>4 DEF BlocksPartitioned
    <2>6. \A u \in Holders' : msg'[u] \notin Elems(queued') \cup Elems(freed')
      BY <1>0, <1>4, <1>5, <2>1, <2>5 DEF BlocksPartitioned, Holders
    <2>7. Elems(queued') \cap Elems(freed') = {}
      BY <1>0, <1>4, <2>1 DEF BlocksPartitioned
    <2>8. Slots = Elems(queued') \cup Elems(freed') \cup {msg'[u] : u \in Holders'}
      BY <1>0, <1>4, <2>1, <2>3 DEF BlocksPartitioned
    <2> QED
      BY <1>4, <2>1, <2>4, <2>6, <2>7, <2>8 DEF BlocksPartitioned
  <1>12. ListsWellFormed'
    <2>1. Chain(next', head', queued') /\ Chain(next', free', freed')
      BY <1>0, <1>3, <1>4 DEF RecvPop, ListsWellFormed
    <2>2. entry' = Len(queued')
      BY <1>1, <1>4 DEF RecvPop
    <2>3. tail' = IF queued' = <<>> THEN RT_NULL ELSE queued'[Len(queued')]
      <3>1. tail = LastOf(queued)
        BY <1>0 DEF ListsWellFormed, LastOf
      <3>2. tail' = LastOf(queued')
        BY <1>0, <1>2, <1>3, <1>4, <3>1, LastOfTail
        DEF RecvPop, TypeOK, BlocksPartitioned
      <3> QED  BY <3>2 DEF LastOf
    <2> QED  BY <2>1, <2>2, <2>3 DEF ListsWellFormed
  <1> QED
    BY <1>6, <1>7, <1>8, <1>9, <1>10, <1>11, <1>12 DEF StructInv

\* The caller of rt_mq_recv resumes the first waiting sender and returns.
LEMMA ResumeSender ==
  ASSUME TypeOK, WaitListsExact, NEW t \in Threads, pc[t] \in HoldPCs,
         ReturnAndResume(t, sendList, "sendReady"), sendList' = Rest(sendList), UNCHANGED recvList
  PROVE  /\ pc' \in [Threads -> PCs]
         /\ msg' \in [Threads -> Pointers]
         /\ urgent' \in [Threads -> BOOLEAN]
         /\ buffer' \in [Threads -> Message]
         /\ sendList' \in Seq(Threads)
         /\ WaitListsExact'
         /\ pc'[t] = "idle"
         /\ \A u \in Threads : u # t =>
              /\ pc'[u] = pc[u] \/ (pc[u] = "sendWait" /\ pc'[u] = "sendReady")
              /\ msg'[u] = msg[u] /\ urgent'[u] = urgent[u] /\ buffer'[u] = buffer[u]
  <1>1. /\ msg' \in [Threads -> Pointers] /\ urgent' \in [Threads -> BOOLEAN]
        /\ buffer' \in [Threads -> Message]
        /\ \A u \in Threads : u # t =>
              msg'[u] = msg[u] /\ urgent'[u] = urgent[u] /\ buffer'[u] = buffer[u]
    <2>1. Junk \in Message
      BY DEF Junk, Message, Word
    <2> QED  BY <2>1, SlotsFacts DEF TypeOK, ReturnAndResume
  <1>2. CASE sendList = <<>>
    <2>1. pc' = [pc EXCEPT ![t] = "idle"] /\ sendList' = sendList
      BY <1>2 DEF ReturnAndResume, Rest
    <2>2. /\ pc' \in [Threads -> PCs] /\ pc'[t] = "idle"
          /\ \A u \in Threads : u # t => pc'[u] = pc[u]
      BY <2>1 DEF TypeOK, PCs
    <2>3. \A u \in Threads : /\ pc'[u] = "recvWait" <=> pc[u] = "recvWait"
                             /\ pc'[u] = "sendWait" <=> pc[u] = "sendWait"
      BY <2>2 DEF HoldPCs
    <2>4. WaitListsExact'
      BY <2>1, <2>3, WaitFrame DEF listVars
    <2> QED  BY <1>1, <2>1, <2>2, <2>4 DEF TypeOK
  <1>3. CASE sendList # <<>>
    <2> DEFINE h == sendList[1]
    <2>1. /\ sendList' = Tail(sendList) /\ sendList' \in Seq(Threads)
          /\ h \in Threads /\ Head(sendList) = h
          /\ Elems(sendList) = Elems(sendList') \cup {h}
          /\ h \notin Elems(sendList') /\ Distinct(sendList')
      BY <1>3, TailFacts, TailDistinct DEF Rest, TypeOK, WaitListsExact
    <2> HIDE DEF h
    <2>2. pc[h] = "sendWait" /\ h # t
      BY <2>1 DEF WaitListsExact, HoldPCs
    <2>3. /\ pc' \in [Threads -> PCs] /\ pc'[t] = "idle" /\ pc'[h] = "sendReady"
          /\ \A u \in Threads : u # t /\ u # h => pc'[u] = pc[u]
      BY <1>3, <2>1, <2>2 DEF ReturnAndResume, TypeOK, PCs
    <2>4. {u \in Threads : pc'[u] = "sendWait"} = {u \in Threads : pc[u] = "sendWait"} \ {h}
      BY <2>2, <2>3 DEF HoldPCs
    <2>5. {u \in Threads : pc'[u] = "recvWait"} = {u \in Threads : pc[u] = "recvWait"}
      BY <2>2, <2>3 DEF HoldPCs
    <2>6. WaitListsExact'
      <3>1. Elems(sendList') = {u \in Threads : pc'[u] = "sendWait"}
        BY <2>1, <2>4 DEF WaitListsExact
      <3>2. Elems(recvList') = {u \in Threads : pc'[u] = "recvWait"} /\ Distinct(recvList')
        BY <2>5 DEF WaitListsExact, Elems, Distinct
      <3> QED  BY <2>1, <3>1, <3>2 DEF WaitListsExact
    <2> QED  BY <1>1, <2>1, <2>2, <2>3, <2>6
  <1> QED  BY <1>2, <1>3

\* The caller of rt_mq_send_wait or rt_mq_urgent resumes the first waiting receiver and returns.
LEMMA ResumeReceiver ==
  ASSUME TypeOK, WaitListsExact, NEW t \in Threads, pc[t] \in HoldPCs,
         ReturnAndResume(t, recvList, "recvReady"), recvList' = Rest(recvList), UNCHANGED sendList
  PROVE  /\ pc' \in [Threads -> PCs]
         /\ msg' \in [Threads -> Pointers]
         /\ urgent' \in [Threads -> BOOLEAN]
         /\ buffer' \in [Threads -> Message]
         /\ recvList' \in Seq(Threads)
         /\ WaitListsExact'
         /\ pc'[t] = "idle"
         /\ \A u \in Threads : u # t =>
              /\ pc'[u] = pc[u] \/ (pc[u] = "recvWait" /\ pc'[u] = "recvReady")
              /\ msg'[u] = msg[u] /\ urgent'[u] = urgent[u] /\ buffer'[u] = buffer[u]
  <1>1. /\ msg' \in [Threads -> Pointers] /\ urgent' \in [Threads -> BOOLEAN]
        /\ buffer' \in [Threads -> Message]
        /\ \A u \in Threads : u # t =>
              msg'[u] = msg[u] /\ urgent'[u] = urgent[u] /\ buffer'[u] = buffer[u]
    <2>1. Junk \in Message
      BY DEF Junk, Message, Word
    <2> QED  BY <2>1, SlotsFacts DEF TypeOK, ReturnAndResume
  <1>2. CASE recvList = <<>>
    <2>1. pc' = [pc EXCEPT ![t] = "idle"] /\ recvList' = recvList
      BY <1>2 DEF ReturnAndResume, Rest
    <2>2. /\ pc' \in [Threads -> PCs] /\ pc'[t] = "idle"
          /\ \A u \in Threads : u # t => pc'[u] = pc[u]
      BY <2>1 DEF TypeOK, PCs
    <2>3. \A u \in Threads : /\ pc'[u] = "recvWait" <=> pc[u] = "recvWait"
                             /\ pc'[u] = "sendWait" <=> pc[u] = "sendWait"
      BY <2>2 DEF HoldPCs
    <2>4. WaitListsExact'
      BY <2>1, <2>3, WaitFrame DEF listVars
    <2> QED  BY <1>1, <2>1, <2>2, <2>4 DEF TypeOK
  <1>3. CASE recvList # <<>>
    <2> DEFINE h == recvList[1]
    <2>1. /\ recvList' = Tail(recvList) /\ recvList' \in Seq(Threads)
          /\ h \in Threads /\ Head(recvList) = h
          /\ Elems(recvList) = Elems(recvList') \cup {h}
          /\ h \notin Elems(recvList') /\ Distinct(recvList')
      BY <1>3, TailFacts, TailDistinct DEF Rest, TypeOK, WaitListsExact
    <2> HIDE DEF h
    <2>2. pc[h] = "recvWait" /\ h # t
      BY <2>1 DEF WaitListsExact, HoldPCs
    <2>3. /\ pc' \in [Threads -> PCs] /\ pc'[t] = "idle" /\ pc'[h] = "recvReady"
          /\ \A u \in Threads : u # t /\ u # h => pc'[u] = pc[u]
      BY <1>3, <2>1, <2>2 DEF ReturnAndResume, TypeOK, PCs
    <2>4. {u \in Threads : pc'[u] = "recvWait"} = {u \in Threads : pc[u] = "recvWait"} \ {h}
      BY <2>2, <2>3 DEF HoldPCs
    <2>5. {u \in Threads : pc'[u] = "sendWait"} = {u \in Threads : pc[u] = "sendWait"}
      BY <2>2, <2>3 DEF HoldPCs
    <2>6. WaitListsExact'
      <3>1. Elems(recvList') = {u \in Threads : pc'[u] = "recvWait"}
        BY <2>1, <2>4 DEF WaitListsExact
      <3>2. Elems(sendList') = {u \in Threads : pc'[u] = "sendWait"} /\ Distinct(sendList')
        BY <2>5 DEF WaitListsExact, Elems, Distinct
      <3> QED  BY <2>1, <3>1, <3>2 DEF WaitListsExact
    <2> QED  BY <1>1, <2>1, <2>2, <2>3, <2>6
  <1> QED  BY <1>2, <1>3

\* rt_mq_recv gives its block back: from t to the free list.
LEMMA GiveBackStruct ==
  ASSUME StructInv, NEW t \in Threads, GiveBack(t)
  PROVE  StructInv'
  <1> USE SlotsFacts
  <1>0. /\ TypeOK /\ HeldBlocks /\ ResetExclusive /\ PrivateLinks
        /\ WaitListsExact /\ BlocksPartitioned /\ ListsWellFormed
    BY DEF StructInv
  <1> DEFINE s == msg[t]
  <1>1. pc[t] \in HoldPCs /\ pc[t] = "giveBack" /\ t \in Holders /\ s \in Slots
    BY <1>0 DEF GiveBack, HoldPCs, Holders, HeldBlocks
  <1>2. s \notin Elems(queued) /\ s \notin Elems(freed)
    BY <1>0, <1>1 DEF BlocksPartitioned
  <1>3. /\ freed' \in Seq(Slots)
        /\ Elems(freed') = Elems(freed) \cup {s}
        /\ Distinct(freed')
    BY <1>0, <1>1, <1>2, PushFacts DEF GiveBack, TypeOK, BlocksPartitioned
  <1>4. Chain(next', free', freed') /\ Chain(next', head', queued')
    BY <1>0, <1>1, <1>2, ChainPush, ChainFrame DEF GiveBack, ListsWellFormed, TypeOK
  <1>5. /\ pc' \in [Threads -> PCs]
        /\ msg' \in [Threads -> Pointers]
        /\ urgent' \in [Threads -> BOOLEAN]
        /\ buffer' \in [Threads -> Message]
        /\ sendList' \in Seq(Threads)
        /\ WaitListsExact'
        /\ pc'[t] = "idle"
        /\ \A u \in Threads : u # t =>
              /\ pc'[u] = pc[u] \/ (pc[u] = "sendWait" /\ pc'[u] = "sendReady")
              /\ msg'[u] = msg[u] /\ urgent'[u] = urgent[u] /\ buffer'[u] = buffer[u]
    BY <1>0, <1>1, ResumeSender DEF GiveBack
  <1>6. msg'[t] = RT_NULL
    BY <1>0 DEF GiveBack, ReturnAndResume, TypeOK
  <1>7. Holders' = Holders \ {t}
    BY <1>5 DEF Holders, HoldPCs
  <1>8. \A u \in Holders' : u # t /\ u \in Holders /\ msg'[u] = msg[u] /\ msg[u] # s
    BY <1>0, <1>1, <1>5, <1>7 DEF Holders, BlocksPartitioned
  <1>9. next' = [next EXCEPT ![s] = free] /\ next' \in [Slots -> Pointers]
    BY <1>0, <1>1 DEF GiveBack, TypeOK
  <1>10. TypeOK'
    BY <1>0, <1>1, <1>3, <1>5, <1>9 DEF TypeOK, GiveBack
  <1>11. HeldBlocks'
    BY <1>0, <1>5, <1>6 DEF HeldBlocks, HoldPCs
  <1>12. ResetExclusive'
    BY <1>0, <1>1, <1>5 DEF ResetExclusive, GiveBack
  <1>13. PrivateLinks'
    <2> SUFFICES ASSUME NEW u \in Threads, pc'[u] \in Inbound, ~urgent'[u]
                 PROVE  next'[msg'[u]] = RT_NULL
      BY DEF PrivateLinks
    <2>1. u # t /\ pc[u] \in Inbound /\ ~urgent[u] /\ msg'[u] = msg[u]
      BY <1>5 DEF Inbound
    <2>2. u \in Holders' /\ msg[u] # s /\ msg[u] \in Slots
      BY <1>0, <1>7, <1>8, <2>1 DEF Inbound, HoldPCs, Holders, HeldBlocks
    <2> QED  BY <1>0, <1>1, <1>9, <2>1, <2>2 DEF PrivateLinks, TypeOK
  <1>14. BlocksPartitioned'
    <2>1. queued' = queued /\ Elems(queued') = Elems(queued) /\ Distinct(queued')
      BY <1>0 DEF GiveBack, BlocksPartitioned, Elems
    <2>2. {msg'[u] : u \in Holders'} \cup {s} = {msg[u] : u \in Holders}
      BY <1>1, <1>7, <1>8
    <2>3. \A u, v \in Holders' : msg'[u] = msg'[v] => u = v
      BY <1>0, <1>8 DEF BlocksPartitioned
    <2>4. \A u \in Holders' : msg'[u] \notin Elems(queued') \cup Elems(freed')
      BY <1>0, <1>3, <1>8, <2>1 DEF BlocksPartitioned
    <2>5. Elems(queued') \cap Elems(freed') = {}
      BY <1>0, <1>2, <1>3, <2>1 DEF BlocksPartitioned
    <2>6. Slots = Elems(queued') \cup Elems(freed') \cup {msg'[u] : u \in Holders'}
      BY <1>0, <1>3, <2>1, <2>2 DEF BlocksPartitioned
    <2> QED
      BY <1>3, <2>1, <2>3, <2>4, <2>5, <2>6 DEF BlocksPartitioned
  <1>15. ListsWellFormed'
    BY <1>0, <1>4 DEF ListsWellFormed, GiveBack
  <1> QED
    BY <1>5, <1>10, <1>11, <1>12, <1>13, <1>14, <1>15 DEF StructInv

\* A send takes the first free block: from the free list to t.
LEMMA SendTakeStruct ==
  ASSUME StructInv, NEW t \in Threads, NEW urg \in BOOLEAN, irqOff = NoThread,
         pc[t] \in {"idle", "sendReady"}, SendTake(t, urg),
         buffer' \in [Threads -> Message]
  PROVE  StructInv'
  <1> USE SlotsFacts
  <1>0. /\ TypeOK /\ HeldBlocks /\ ResetExclusive /\ PrivateLinks
        /\ WaitListsExact /\ BlocksPartitioned /\ ListsWellFormed
    BY DEF StructInv
  <1>1. /\ freed # <<>> /\ free = freed[1] /\ free \in Slots
        /\ Chain(next, next[free], Tail(freed))
    BY <1>0, ChainTail DEF SendTake, ListsWellFormed, TypeOK
  <1>2. /\ freed' \in Seq(Slots)
        /\ freed' = Tail(freed)
        /\ Elems(freed) = Elems(freed') \cup {free}
        /\ free \notin Elems(freed')
        /\ Distinct(freed')
    BY <1>0, <1>1, TailFacts, TailDistinct DEF SendTake, TypeOK, BlocksPartitioned
  <1>3. free \notin Elems(queued)
    BY <1>0, <1>2 DEF BlocksPartitioned
  <1>4. /\ next' \in [Slots -> Pointers]
        /\ ~urg => next'[free] = RT_NULL
        /\ \A s \in Slots : s # free => next'[s] = next[s]
    BY <1>0, <1>1 DEF SendTake, TypeOK
  <1>5. Chain(next', free', freed') /\ Chain(next', head', queued')
    <2>1. CASE urg
      BY <1>0, <1>1, <1>2, <2>1 DEF SendTake, ListsWellFormed
    <2>2. CASE ~urg
      <3>1. next' = [next EXCEPT ![free] = RT_NULL] /\ free' = next[free]
            /\ head' = head /\ queued' = queued
        BY <2>2 DEF SendTake
      <3>2. Chain(next', free', freed')
        BY <1>0, <1>1, <1>2, <3>1, ChainFrame DEF TypeOK
      <3>3. Chain(next', head', queued')
        BY <1>0, <1>1, <1>3, <3>1, ChainFrame DEF TypeOK, ListsWellFormed
      <3> QED  BY <3>2, <3>3
    <2> QED  BY <2>1, <2>2
  <1>6. /\ t \notin Holders /\ Holders' = Holders \cup {t}
        /\ msg'[t] = free
        /\ \A u \in Threads : u # t =>
             msg'[u] = msg[u] /\ pc'[u] = pc[u] /\ urgent'[u] = urgent[u]
        /\ pc'[t] = "copyIn1" /\ urgent'[t] = urg
    BY <1>0 DEF Holders, HoldPCs, SendTake, TypeOK, PCs
  <1>7. \A u \in Holders : msg[u] # free
    BY <1>0, <1>2 DEF BlocksPartitioned
  <1>8. TypeOK'
    <2>1. next[free] \in Pointers
      BY <1>0, <1>1 DEF TypeOK
    <2>2. /\ pc' \in [Threads -> PCs] /\ timeout' \in [Threads -> Timeouts]
          /\ urgent' \in [Threads -> BOOLEAN]
      BY <1>0 DEF TypeOK, SendTake, PCs, Timeouts
    <2> QED
      BY <1>0, <1>1, <1>2, <1>4, <2>1, <2>2 DEF TypeOK, SendTake, listVars
  <1>9. HeldBlocks'
    BY <1>0, <1>1, <1>6 DEF HeldBlocks, HoldPCs
  <1>10. ResetExclusive'
    BY <1>0, <1>6 DEF ResetExclusive, SendTake
  <1>11. PrivateLinks'
    <2> SUFFICES ASSUME NEW u \in Threads, pc'[u] \in Inbound, ~urgent'[u]
                 PROVE  next'[msg'[u]] = RT_NULL
      BY DEF PrivateLinks
    <2>1. CASE u = t
      BY <1>4, <1>6, <2>1
    <2>2. CASE u # t
      <3>1. pc[u] \in Inbound /\ ~urgent[u] /\ msg'[u] = msg[u] /\ u \in Holders
        BY <1>6, <2>2 DEF Inbound, HoldPCs, Holders
      <3>2. msg[u] # free /\ msg[u] \in Slots
        BY <1>0, <1>7, <3>1 DEF HeldBlocks, Holders
      <3> QED  BY <1>0, <1>4, <3>1, <3>2 DEF PrivateLinks
    <2> QED  BY <2>1, <2>2
  <1>12. WaitListsExact'
    <2>1. \A u \in Threads : /\ pc'[u] = "recvWait" <=> pc[u] = "recvWait"
                             /\ pc'[u] = "sendWait" <=> pc[u] = "sendWait"
      BY <1>6
    <2> QED  BY <1>0, <2>1, WaitFrame DEF SendTake
  <1>13. BlocksPartitioned'
    <2>1. queued' = queued /\ Elems(queued') = Elems(queued) /\ Distinct(queued')
      BY <1>0 DEF SendTake, BlocksPartitioned, Elems
    <2>2. {msg'[u] : u \in Holders'} = {msg[u] : u \in Holders} \cup {free}
      BY <1>6 DEF Holders
    <2>3. \A u, v \in Holders' : msg'[u] = msg'[v] => u = v
      BY <1>0, <1>6, <1>7 DEF BlocksPartitioned, Holders
    <2>4. \A u \in Holders' : msg'[u] \notin Elems(queued') \cup Elems(freed')
      BY <1>0, <1>2, <1>3, <1>6, <2>1 DEF BlocksPartitioned, Holders
    <2>5. Elems(queued') \cap Elems(freed') = {}
      BY <1>0, <1>2, <2>1 DEF BlocksPartitioned
    <2>6. Slots = Elems(queued') \cup Elems(freed') \cup {msg'[u] : u \in Holders'}
      BY <1>0, <1>2, <2>1, <2>2 DEF BlocksPartitioned
    <2> QED
      BY <1>2, <2>1, <2>3, <2>4, <2>5, <2>6 DEF BlocksPartitioned
  <1>14. ListsWellFormed'
    BY <1>0, <1>5 DEF ListsWellFormed, SendTake
  <1> QED
    BY <1>8, <1>9, <1>10, <1>11, <1>12, <1>13, <1>14 DEF StructInv

\* What both ways of linking do to the queue.
LEMMA LinkLists ==
  ASSUME StructInv, NEW t \in Threads, Link(t)
  PROVE  /\ msg[t] \in Slots
         /\ head' \in Slots /\ tail' \in Slots
         /\ next' \in [Slots -> Pointers]
         /\ \A s \in Slots : s \notin Elems(queued) \cup {msg[t]} => next'[s] = next[s]
         /\ queued' \in Seq(Slots)
         /\ Len(queued') = Len(queued) + 1
         /\ Elems(queued') = Elems(queued) \cup {msg[t]}
         /\ Distinct(queued')
         /\ Chain(next', head', queued')
         /\ tail' = LastOf(queued')
         /\ Chain(next', free, freed)
  <1> USE SlotsFacts
  <1>0. /\ TypeOK /\ HeldBlocks /\ PrivateLinks /\ BlocksPartitioned
        /\ ListsWellFormed /\ Chain(next, head, queued) /\ Chain(next, free, freed)
        /\ tail = LastOf(queued) /\ queued \in Seq(Slots) /\ freed \in Seq(Slots)
        /\ next \in [Slots -> Pointers] /\ Distinct(queued)
    BY DEF StructInv, ListsWellFormed, LastOf, TypeOK, BlocksPartitioned
  <1> DEFINE s == msg[t]
  <1>1. s \in Slots /\ t \in Holders
    BY <1>0 DEF Link, HeldBlocks, HoldPCs, Holders
  <1>2. s \notin Elems(queued) /\ s \notin Elems(freed)
    BY <1>0, <1>1 DEF BlocksPartitioned
  <1>3. \A x \in Elems(queued) : x \notin Elems(freed)
    BY <1>0 DEF BlocksPartitioned
  <1>4. queued # <<>> => tail = queued[Len(queued)] /\ tail \in Elems(queued) /\ tail \in Slots
    BY <1>0 DEF LastOf, Elems
  <1>5. queued = <<>> => head = RT_NULL /\ tail = RT_NULL
    BY <1>0 DEF LastOf, Chain
  <1>6. queued # <<>> => head # RT_NULL /\ tail # RT_NULL /\ head \in Slots
    BY <1>0, <1>4, TailFacts DEF Chain
  <1>7. CASE LinkHead(t)
    <2>1. /\ next' = [next EXCEPT ![s] = head] /\ head' = s
          /\ queued' = <<s>> \o queued
          /\ tail' = IF tail = RT_NULL THEN s ELSE tail
      BY <1>7 DEF LinkHead
    <2>2. /\ queued' \in Seq(Slots) /\ Len(queued') = Len(queued) + 1
          /\ queued' # <<>> /\ queued'[1] = s
          /\ \A i \in 1 .. Len(queued) : queued'[i + 1] = queued[i]
          /\ Elems(queued') = Elems(queued) \cup {s}
          /\ Distinct(queued')
      BY <1>0, <1>1, <1>2, <2>1, PushFacts
    <2>3. Chain(next', head', queued') /\ Chain(next', free, freed)
      BY <1>0, <1>1, <1>2, <2>1, ChainPush, ChainFrame
    <2>4. tail' = LastOf(queued')
      <3>1. CASE queued = <<>>
        BY <1>5, <2>1, <2>2, <3>1 DEF LastOf
      <3>2. CASE queued # <<>>
        <4>1. Len(queued) \in 1 .. Len(queued)
          BY <1>0, <3>2
        <4>2. queued'[Len(queued')] = queued[Len(queued)]
          BY <2>2, <4>1
        <4> QED  BY <1>4, <1>6, <2>1, <2>2, <3>2, <4>2 DEF LastOf
      <3> QED  BY <3>1, <3>2
    <2>5. /\ next' \in [Slots -> Pointers] /\ head' \in Slots /\ tail' \in Slots
          /\ \A x \in Slots : x \notin Elems(queued) \cup {s} => next'[x] = next[x]
      BY <1>0, <1>1, <1>4, <1>5, <2>1 DEF TypeOK
    <2> QED  BY <1>1, <2>2, <2>3, <2>4, <2>5
  <1>8. CASE ~urgent[t] /\ LinkTail(t)
    <2>1. /\ next' = IF tail # RT_NULL THEN [next EXCEPT ![tail] = s] ELSE next
          /\ head' = (IF head = RT_NULL THEN s ELSE head)
          /\ queued' = Append(queued, s)
          /\ tail' = s
      BY <1>8 DEF LinkTail
    <2>2. /\ queued' \in Seq(Slots) /\ Len(queued') = Len(queued) + 1
          /\ queued' # <<>> /\ queued'[Len(queued) + 1] = s
          /\ Elems(queued') = Elems(queued) \cup {s}
          /\ Distinct(queued')
      BY <1>0, <1>1, <1>2, <2>1, AppendFacts
    <2>3. next[s] = RT_NULL
      BY <1>0, <1>8 DEF PrivateLinks, Link, Inbound
    <2>4. tail' = LastOf(queued')
      BY <2>1, <2>2 DEF LastOf
    <2>5. CASE queued = <<>>
      <3>1. next' = next /\ head' = s /\ Len(queued) = 0
        BY <1>5, <2>1, <2>5
      <3>2. Len(queued') = 1 /\ queued'[1] = s
        BY <2>2, <3>1
      <3>3. Chain(next', head', queued')
        BY <2>2, <2>3, <3>1, <3>2 DEF Chain
      <3> QED  BY <1>0, <1>1, <2>1, <2>2, <2>4, <3>1, <3>3
    <2>6. CASE queued # <<>>
      <3>1. next' = [next EXCEPT ![tail] = s] /\ head' = head
        BY <1>6, <2>1, <2>6
      <3>2. Chain(next', head', queued')
        <4>1. Chain([next EXCEPT ![queued[Len(queued)]] = s], head, Append(queued, s))
          BY <1>0, <1>1, <1>2, <2>3, <2>6, ChainAppend
        <4>2. next' = [next EXCEPT ![queued[Len(queued)]] = s]
          BY <1>4, <2>6, <3>1
        <4> QED  BY <2>1, <3>1, <4>1, <4>2
      <3>3. Chain(next', free, freed)
        BY <1>0, <1>3, <1>4, <2>6, <3>1, ChainFrame
      <3>4. /\ next' \in [Slots -> Pointers] /\ head' \in Slots
            /\ \A x \in Slots : x \notin Elems(queued) \cup {s} => next'[x] = next[x]
        BY <1>0, <1>1, <1>4, <1>6, <2>6, <3>1
      <3> QED  BY <1>1, <2>1, <2>2, <2>4, <3>2, <3>3, <3>4
    <2> QED  BY <2>5, <2>6
  <1> QED  BY <1>7, <1>8 DEF Link

\* A send links its block: from t to the queue.
LEMMA LinkStruct ==
  ASSUME StructInv, NEW t \in Threads, Link(t)
  PROVE  StructInv'
  <1> USE SlotsFacts
  <1>0. /\ TypeOK /\ HeldBlocks /\ ResetExclusive /\ PrivateLinks
        /\ WaitListsExact /\ BlocksPartitioned /\ ListsWellFormed
    BY DEF StructInv
  <1> DEFINE s == msg[t]
  <1>1. pc[t] \in HoldPCs /\ pc[t] = "link" /\ t \in Holders
    BY DEF Link, HoldPCs, Holders
  <1>2. /\ s \in Slots
        /\ head' \in Slots /\ tail' \in Slots
        /\ next' \in [Slots -> Pointers]
        /\ \A x \in Slots : x \notin Elems(queued) \cup {s} => next'[x] = next[x]
        /\ queued' \in Seq(Slots)
        /\ Len(queued') = Len(queued) + 1
        /\ Elems(queued') = Elems(queued) \cup {s}
        /\ Distinct(queued')
        /\ Chain(next', head', queued')
        /\ tail' = LastOf(queued')
        /\ Chain(next', free, freed)
    BY LinkLists
  <1>3. s \notin Elems(queued) /\ s \notin Elems(freed)
    BY <1>0, <1>1 DEF BlocksPartitioned
  <1>4. /\ free' = free /\ freed' = freed /\ entry' = entry + 1 /\ irqOff' = irqOff
        /\ data' = data /\ sendList' = sendList /\ timeout' = timeout
        /\ error' = error
    BY DEF Link
  <1>5. /\ pc' \in [Threads -> PCs]
        /\ msg' \in [Threads -> Pointers]
        /\ urgent' \in [Threads -> BOOLEAN]
        /\ buffer' \in [Threads -> Message]
        /\ recvList' \in Seq(Threads)
        /\ WaitListsExact'
        /\ pc'[t] = "idle"
        /\ \A u \in Threads : u # t =>
              /\ pc'[u] = pc[u] \/ (pc[u] = "recvWait" /\ pc'[u] = "recvReady")
              /\ msg'[u] = msg[u] /\ urgent'[u] = urgent[u] /\ buffer'[u] = buffer[u]
    BY <1>0, <1>1, ResumeReceiver DEF Link
  <1>6. msg'[t] = RT_NULL
    BY <1>0 DEF Link, ReturnAndResume, TypeOK
  <1>7. Holders' = Holders \ {t}
    BY <1>5 DEF Holders, HoldPCs
  <1>8. \A u \in Holders' : u # t /\ u \in Holders /\ msg'[u] = msg[u] /\ msg[u] # s
    BY <1>0, <1>1, <1>5, <1>7 DEF Holders, BlocksPartitioned
  <1>10. TypeOK'
    BY <1>0, <1>2, <1>4, <1>5 DEF TypeOK
  <1>11. HeldBlocks'
    BY <1>0, <1>5, <1>6 DEF HeldBlocks, HoldPCs
  <1>12. ResetExclusive'
    BY <1>0, <1>1, <1>4, <1>5 DEF ResetExclusive
  <1>13. PrivateLinks'
    <2> SUFFICES ASSUME NEW u \in Threads, pc'[u] \in Inbound, ~urgent'[u]
                 PROVE  next'[msg'[u]] = RT_NULL
      BY DEF PrivateLinks
    <2>1. u # t /\ pc[u] \in Inbound /\ ~urgent[u] /\ msg'[u] = msg[u]
      BY <1>5 DEF Inbound
    <2>2. u \in Holders' /\ u \in Holders /\ msg[u] # s /\ msg[u] \in Slots
      BY <1>0, <1>7, <1>8, <2>1 DEF Inbound, HoldPCs, Holders, HeldBlocks
    <2>3. msg[u] \notin Elems(queued)
      BY <1>0, <2>2 DEF BlocksPartitioned
    <2> QED  BY <1>0, <1>2, <2>1, <2>2, <2>3 DEF PrivateLinks
  <1>14. BlocksPartitioned'
    <2>1. Elems(freed') = Elems(freed) /\ Distinct(freed')
      BY <1>0, <1>4 DEF BlocksPartitioned, Elems
    <2>2. {msg'[u] : u \in Holders'} \cup {s} = {msg[u] : u \in Holders}
      BY <1>1, <1>7, <1>8
    <2>3. \A u, v \in Holders' : msg'[u] = msg'[v] => u = v
      BY <1>0, <1>8 DEF BlocksPartitioned
    <2>4. \A u \in Holders' : msg'[u] \notin Elems(queued') \cup Elems(freed')
      BY <1>0, <1>2, <1>8, <2>1 DEF BlocksPartitioned
    <2>5. Elems(queued') \cap Elems(freed') = {}
      BY <1>0, <1>2, <1>3, <2>1 DEF BlocksPartitioned
    <2>6. Slots = Elems(queued') \cup Elems(freed') \cup {msg'[u] : u \in Holders'}
      BY <1>0, <1>2, <2>1, <2>2 DEF BlocksPartitioned
    <2> QED
      BY <1>2, <2>1, <2>3, <2>4, <2>5, <2>6 DEF BlocksPartitioned
  <1>15. ListsWellFormed'
    <2>1. irqOff' = NoThread => entry' = Len(queued')
      BY <1>0, <1>2, <1>4 DEF ListsWellFormed
    <2> QED  BY <1>2, <1>4, <2>1 DEF ListsWellFormed, LastOf
  <1> QED
    BY <1>5, <1>10, <1>11, <1>12, <1>13, <1>14, <1>15 DEF StructInv

\* One turn of the loop of RT_IPC_CMD_RESET: from the queue to the free list.
LEMMA ResetMoveStruct ==
  ASSUME StructInv, NEW t \in Threads, ResetMove(t)
  PROVE  StructInv'
  <1> USE SlotsFacts
  <1>0. /\ TypeOK /\ HeldBlocks /\ ResetExclusive /\ PrivateLinks
        /\ WaitListsExact /\ BlocksPartitioned /\ ListsWellFormed
    BY DEF StructInv
  <1>1. /\ queued # <<>> /\ head = queued[1] /\ head \in Slots
        /\ Chain(next, next[head], Tail(queued))
    BY <1>0, ChainTail DEF ResetMove, ListsWellFormed, TypeOK
  <1>2. /\ queued' \in Seq(Slots)
        /\ queued' = Tail(queued)
        /\ Elems(queued) = Elems(queued') \cup {head}
        /\ head \notin Elems(queued')
        /\ Distinct(queued')
    BY <1>0, <1>1, TailFacts, TailDistinct DEF ResetMove, TypeOK, BlocksPartitioned
  <1>3. head \notin Elems(freed)
    BY <1>0, <1>2 DEF BlocksPartitioned
  <1>4. /\ freed' \in Seq(Slots)
        /\ Elems(freed') = Elems(freed) \cup {head}
        /\ Distinct(freed')
    BY <1>0, <1>1, <1>3, PushFacts DEF ResetMove, TypeOK, BlocksPartitioned
  <1>5. next' = [next EXCEPT ![head] = free] /\ next' \in [Slots -> Pointers]
    BY <1>0, <1>1 DEF ResetMove, TypeOK
  <1>6. Chain(next', free', freed')
    <2>1. /\ Chain(next, free, freed) /\ freed \in Seq(Slots)
          /\ next \in [Slots -> Pointers]
      BY <1>0 DEF ListsWellFormed, TypeOK
    <2>2. Chain([next EXCEPT ![head] = free], head, <<head>> \o freed)
      BY <1>1, <1>3, <2>1, ChainPush
    <2> QED  BY <1>5, <2>2 DEF ResetMove
  <1>7. Chain(next', head', queued')
    <2>1. next \in [Slots -> Pointers]
      BY <1>0 DEF TypeOK
    <2>2. Chain([next EXCEPT ![head] = free], next[head], queued')
      BY <1>1, <1>2, <2>1, ChainFrame
    <2> QED  BY <1>5, <2>2 DEF ResetMove
  <1>8. tail' = LastOf(queued')
    <2>1. tail = LastOf(queued)
      BY <1>0 DEF ListsWellFormed, LastOf
    <2> QED
      BY <1>0, <1>1, <1>2, <2>1, LastOfTail DEF ResetMove, TypeOK, BlocksPartitioned
  <1>9. /\ Holders' = Holders /\ UNCHANGED <<pc, msg, urgent, listVars, irqOff>>
        /\ irqOff = t
    BY <1>0 DEF ResetMove, Holders, callVars, listVars, ResetExclusive
  <1>10. \A u \in Holders : msg[u] # head /\ msg[u] \in Slots
    BY <1>0, <1>2 DEF BlocksPartitioned, HeldBlocks, Holders
  <1>11. TypeOK'
    <2>1. next[head] \in Pointers
      BY <1>0, <1>1 DEF TypeOK
    <2> QED
      BY <1>0, <1>1, <1>2, <1>4, <1>5, <2>1
      DEF TypeOK, ResetMove, listVars, callVars
  <1>12. HeldBlocks' /\ ResetExclusive' /\ WaitListsExact'
    BY <1>0, <1>9 DEF HeldBlocks, ResetExclusive, WaitListsExact, listVars
  <1>13. PrivateLinks'
    <2> SUFFICES ASSUME NEW u \in Threads, pc[u] \in Inbound, ~urgent[u]
                 PROVE  next'[msg[u]] = RT_NULL
      BY <1>9 DEF PrivateLinks
    <2>1. u \in Holders
      BY DEF Inbound, HoldPCs, Holders
    <2> QED  BY <1>0, <1>1, <1>5, <1>10, <2>1 DEF PrivateLinks, TypeOK
  <1>14. BlocksPartitioned'
    <2>1. \A u \in Holders : msg[u] \notin Elems(queued') \cup Elems(freed')
      BY <1>0, <1>2, <1>4, <1>10 DEF BlocksPartitioned
    <2>2. Elems(queued') \cap Elems(freed') = {}
      BY <1>0, <1>2, <1>4 DEF BlocksPartitioned
    <2>3. Slots = Elems(queued') \cup Elems(freed') \cup {msg[u] : u \in Holders}
      BY <1>0, <1>2, <1>4 DEF BlocksPartitioned
    <2> QED
      BY <1>0, <1>2, <1>4, <1>9, <2>1, <2>2, <2>3 DEF BlocksPartitioned
  <1>15. ListsWellFormed'
    <2>1. irqOff' # NoThread
      BY <1>9, NoThreadAssumption DEF NoThread
    <2> QED  BY <1>6, <1>7, <1>8, <2>1 DEF ListsWellFormed, LastOf
  <1> QED
    BY <1>11, <1>12, <1>13, <1>14, <1>15 DEF StructInv

\* The end of RT_IPC_CMD_RESET: the queue is empty and entry says so.
LEMMA ResetDoneStruct ==
  ASSUME StructInv, NEW t \in Threads, ResetDone(t)
  PROVE  StructInv'
  <1> USE SlotsFacts
  <1>0. /\ TypeOK /\ HeldBlocks /\ ResetExclusive /\ PrivateLinks
        /\ WaitListsExact /\ BlocksPartitioned /\ ListsWellFormed
    BY DEF StructInv
  <1>1. queued = <<>>
    <2>1. queued # <<>> => head \in Slots
      BY <1>0, TailFacts DEF ListsWellFormed, Chain, TypeOK
    <2> QED  BY <2>1 DEF ResetDone
  <1>2. /\ UNCHANGED <<head, tail, free, next, msg, urgent, queued, freed, listVars>>
        /\ entry' = 0 /\ irqOff' = NoThread /\ irqOff = t
        /\ pc[t] = "reset" /\ pc'[t] = "idle"
        /\ \A u \in Threads : u # t => pc'[u] = pc[u]
    BY <1>0 DEF ResetDone, Return, histVars, listVars, TypeOK, ResetExclusive
  <1>3. Holders' = Holders
    BY <1>2 DEF Holders, HoldPCs
  <1>4. TypeOK'
    BY <1>0 DEF TypeOK, ResetDone, Return, histVars, listVars, PCs, Timeouts,
                Junk, Message, Word
  <1>5. HeldBlocks'
    BY <1>0, <1>2 DEF HeldBlocks, HoldPCs
  <1>6. ResetExclusive'
    BY <1>0, <1>2, NoThreadAssumption DEF ResetExclusive, NoThread
  <1>7. PrivateLinks'
    BY <1>0, <1>2 DEF PrivateLinks, Inbound
  <1>8. WaitListsExact'
    <2>1. \A u \in Threads : /\ pc'[u] = "recvWait" <=> pc[u] = "recvWait"
                             /\ pc'[u] = "sendWait" <=> pc[u] = "sendWait"
      BY <1>2
    <2> QED  BY <1>0, <1>2, <2>1, WaitFrame
  <1>9. BlocksPartitioned'
    BY <1>0, <1>2, <1>3 DEF BlocksPartitioned
  <1>10. ListsWellFormed'
    BY <1>0, <1>1, <1>2 DEF ListsWellFormed
  <1> QED
    BY <1>4, <1>5, <1>6, <1>7, <1>8, <1>9, <1>10 DEF StructInv

\* A call that returns without having moved a block.
LEMMA ReturnStruct ==
  ASSUME StructInv, NEW t \in Threads,
         pc[t] \in {"idle", "recvReady", "sendReady"}, Return(t),
         error' \in [Threads -> Errors],
         UNCHANGED <<mqVars, listVars, irqOff, urgent, msg, histVars>>
  PROVE  StructInv'
  <1>0. /\ TypeOK /\ HeldBlocks /\ ResetExclusive /\ PrivateLinks
        /\ WaitListsExact /\ BlocksPartitioned /\ ListsWellFormed
    BY DEF StructInv
  <1>1. /\ pc'[t] = "idle"
        /\ \A u \in Threads : u # t => pc'[u] = pc[u]
    BY <1>0 DEF Return, TypeOK
  <1>2. TypeOK'
    BY <1>0 DEF TypeOK, Return, mqVars, listVars, histVars, PCs, Timeouts, Junk,
                Message, Word
  <1>3. HeldBlocks' /\ PrivateLinks' /\ BlocksPartitioned' /\ ListsWellFormed'
    <2>1. \A u \in Threads : /\ pc'[u] \in HoldPCs <=> pc[u] \in HoldPCs
                             /\ pc'[u] \in Inbound <=> pc[u] \in Inbound
      BY <1>1 DEF HoldPCs, Inbound
    <2> QED  BY <2>1, QuietStep DEF mqVars, histVars
  <1>4. ResetExclusive'
    BY <1>0, <1>1 DEF ResetExclusive
  <1>5. WaitListsExact'
    <2>1. \A u \in Threads : /\ pc'[u] = "recvWait" <=> pc[u] = "recvWait"
                             /\ pc'[u] = "sendWait" <=> pc[u] = "sendWait"
      BY <1>1
    <2> QED  BY <1>0, <2>1, WaitFrame
  <1> QED  BY <1>2, <1>3, <1>4, <1>5 DEF StructInv

\* A caller joins the end of a wait list.
LEMMA RecvSuspendStruct ==
  ASSUME StructInv, NEW t \in Threads, NEW tm \in Timeouts,
         pc[t] \in {"idle", "recvReady"}, RecvSuspend(t, tm)
  PROVE  StructInv'
  <1>0. /\ TypeOK /\ HeldBlocks /\ ResetExclusive /\ PrivateLinks
        /\ WaitListsExact /\ BlocksPartitioned /\ ListsWellFormed
    BY DEF StructInv
  <1>1. /\ pc'[t] = "recvWait"
        /\ \A u \in Threads : u # t => pc'[u] = pc[u]
    BY <1>0 DEF RecvSuspend, Suspend, TypeOK
  <1>2. t \notin Elems(recvList)
    BY <1>0 DEF WaitListsExact
  <1>3. /\ recvList' \in Seq(Threads) /\ Distinct(recvList')
        /\ Elems(recvList') = Elems(recvList) \cup {t}
    BY <1>0, <1>2, AppendFacts DEF RecvSuspend, TypeOK, WaitListsExact
  <1>4. TypeOK'
    BY <1>0, <1>3 DEF TypeOK, RecvSuspend, Suspend, mqVars, histVars, PCs, Errors
  <1>5. HeldBlocks' /\ PrivateLinks' /\ BlocksPartitioned' /\ ListsWellFormed'
    <2>1. \A u \in Threads : /\ pc'[u] \in HoldPCs <=> pc[u] \in HoldPCs
                             /\ pc'[u] \in Inbound <=> pc[u] \in Inbound
      BY <1>1 DEF HoldPCs, Inbound
    <2> QED  BY <2>1, QuietStep DEF RecvSuspend, mqVars, histVars
  <1>6. ResetExclusive'
    BY <1>0, <1>1 DEF ResetExclusive, RecvSuspend
  <1>7. WaitListsExact'
    <2>1. /\ {u \in Threads : pc'[u] = "recvWait"}
               = {u \in Threads : pc[u] = "recvWait"} \cup {t}
          /\ {u \in Threads : pc'[u] = "sendWait"} = {u \in Threads : pc[u] = "sendWait"}
      BY <1>1
    <2>2. sendList' = sendList
      BY DEF RecvSuspend
    <2> QED  BY <1>0, <1>3, <2>1, <2>2 DEF WaitListsExact
  <1> QED  BY <1>4, <1>5, <1>6, <1>7 DEF StructInv

LEMMA SendSuspendStruct ==
  ASSUME StructInv, NEW t \in Threads, NEW tm \in Timeouts,
         pc[t] \in {"idle", "sendReady"}, SendSuspend(t, tm),
         buffer' \in [Threads -> Message]
  PROVE  StructInv'
  <1>0. /\ TypeOK /\ HeldBlocks /\ ResetExclusive /\ PrivateLinks
        /\ WaitListsExact /\ BlocksPartitioned /\ ListsWellFormed
    BY DEF StructInv
  <1>1. /\ pc'[t] = "sendWait"
        /\ \A u \in Threads : u # t => pc'[u] = pc[u]
    BY <1>0 DEF SendSuspend, Suspend, TypeOK
  <1>2. t \notin Elems(sendList)
    BY <1>0 DEF WaitListsExact
  <1>3. /\ sendList' \in Seq(Threads) /\ Distinct(sendList')
        /\ Elems(sendList') = Elems(sendList) \cup {t}
    BY <1>0, <1>2, AppendFacts DEF SendSuspend, TypeOK, WaitListsExact
  <1>4. TypeOK'
    BY <1>0, <1>3 DEF TypeOK, SendSuspend, Suspend, mqVars, histVars, PCs, Errors
  <1>5. HeldBlocks' /\ PrivateLinks' /\ BlocksPartitioned' /\ ListsWellFormed'
    <2>1. \A u \in Threads : /\ pc'[u] \in HoldPCs <=> pc[u] \in HoldPCs
                             /\ pc'[u] \in Inbound <=> pc[u] \in Inbound
      BY <1>1 DEF HoldPCs, Inbound
    <2> QED  BY <2>1, QuietStep DEF SendSuspend, mqVars, histVars
  <1>6. ResetExclusive'
    BY <1>0, <1>1 DEF ResetExclusive, SendSuspend
  <1>7. WaitListsExact'
    <2>1. /\ {u \in Threads : pc'[u] = "sendWait"}
               = {u \in Threads : pc[u] = "sendWait"} \cup {t}
          /\ {u \in Threads : pc'[u] = "recvWait"} = {u \in Threads : pc[u] = "recvWait"}
      BY <1>1
    <2>2. recvList' = recvList
      BY DEF SendSuspend
    <2> QED  BY <1>0, <1>3, <2>1, <2>2 DEF WaitListsExact
  <1> QED  BY <1>4, <1>5, <1>6, <1>7 DEF StructInv

\* A word of a message is copied.
LEMMA CopyStruct ==
  ASSUME StructInv, NEW t \in Threads, CopyIn(t) \/ CopyOut(t)
  PROVE  StructInv'
  <1>0. /\ TypeOK /\ HeldBlocks /\ ResetExclusive /\ PrivateLinks
        /\ WaitListsExact /\ BlocksPartitioned /\ ListsWellFormed
    BY DEF StructInv
  <1>1. /\ UNCHANGED <<head, tail, free, next, entry, msg, urgent, queued, freed>>
        /\ UNCHANGED <<listVars, irqOff, timeout, error>>
    BY DEF CopyIn, CopyOut, mqVars, histVars, listVars
  <1>2. /\ pc' \in [Threads -> PCs]
        /\ \A u \in Threads : u # t => pc'[u] = pc[u]
        /\ \/ pc[t] = "copyIn1" /\ pc'[t] = "copyIn2"
           \/ pc[t] = "copyIn2" /\ pc'[t] = "link"
           \/ pc[t] = "copyOut1" /\ pc'[t] = "copyOut2"
           \/ pc[t] = "copyOut2" /\ pc'[t] = "giveBack"
    BY <1>0 DEF CopyIn, CopyOut, TypeOK, PCs
  <1>3. msg[t] \in Slots /\ data[msg[t]] \in Message /\ buffer[t] \in Message
    BY <1>0, <1>2 DEF HeldBlocks, HoldPCs, TypeOK
  <1>4. data' \in [Slots -> Message] /\ buffer' \in [Threads -> Message]
    <2>1. \A a, b \in Message : <<a[1], b[2]>> \in Message
      BY DEF Message
    <2>2. CASE CopyIn(t)
      <3>1. buffer' = buffer /\ \E v \in Message : data' = [data EXCEPT ![msg[t]] = v]
        BY <1>3, <2>1, <2>2 DEF CopyIn
      <3> QED  BY <1>0, <3>1 DEF TypeOK
    <2>3. CASE CopyOut(t)
      <3>1. data' = data /\ \E v \in Message : buffer' = [buffer EXCEPT ![t] = v]
        BY <1>3, <2>1, <2>3 DEF CopyOut, mqVars
      <3> QED  BY <1>0, <3>1 DEF TypeOK
    <2> QED  BY <2>2, <2>3
  <1>5. TypeOK'
    BY <1>0, <1>1, <1>2, <1>4 DEF TypeOK, listVars
  <1>6. HeldBlocks' /\ PrivateLinks' /\ BlocksPartitioned' /\ ListsWellFormed'
    <2>1. \A u \in Threads : /\ pc'[u] \in HoldPCs <=> pc[u] \in HoldPCs
                             /\ pc'[u] \in Inbound <=> pc[u] \in Inbound
      BY <1>2 DEF HoldPCs, Inbound
    <2> QED  BY <1>1, <2>1, QuietStep
  <1>7. ResetExclusive'
    BY <1>0, <1>1, <1>2 DEF ResetExclusive
  <1>8. WaitListsExact'
    <2>1. \A u \in Threads : /\ pc'[u] = "recvWait" <=> pc[u] = "recvWait"
                             /\ pc'[u] = "sendWait" <=> pc[u] = "sendWait"
      BY <1>2
    <2> QED  BY <1>0, <1>1, <2>1, WaitFrame
  <1> QED  BY <1>5, <1>6, <1>7, <1>8 DEF StructInv

\* Taking a waiter off a list wherever it is keeps the others, in order.
LEMMA RemoveFacts ==
  ASSUME NEW S, NEW seq \in Seq(S), Distinct(seq), NEW t \in Elems(seq)
  PROVE  /\ ListRemove(seq, t) \in Seq(S)
         /\ Distinct(ListRemove(seq, t))
         /\ Elems(ListRemove(seq, t)) = Elems(seq) \ {t}
  <1> DEFINE k == CHOOSE i \in 1 .. Len(seq) : seq[i] = t
             n == Len(seq) - 1
             new == [i \in 1 .. n |-> IF i < k THEN seq[i] ELSE seq[i + 1]]
  <1>1. k \in 1 .. Len(seq) /\ seq[k] = t
    BY DEF Elems
  <1> HIDE DEF k
  <1>2. n \in Nat /\ Len(seq) \in Nat
    BY <1>1
  <1>3. \A i \in 1 .. n : new[i] \in S
    BY <1>1, <1>2
  <1>4. new \in [1 .. n -> S]
    BY <1>3
  <1>5. new \in Seq(S) /\ Len(new) = n
    BY <1>2, <1>4
  <1>6. \A i \in 1 .. n : /\ i < k => new[i] = seq[i]
                          /\ ~(i < k) => new[i] = seq[i + 1]
    BY <1>2
  <1> HIDE DEF new
  <1>7. Distinct(new)
    <2> SUFFICES ASSUME NEW i \in 1 .. n, NEW j \in 1 .. n, new[i] = new[j]
                 PROVE  i = j
      BY <1>5 DEF Distinct
    <2> DEFINE pos(a) == IF a < k THEN a ELSE a + 1
    <2>1. /\ pos(i) \in 1 .. Len(seq) /\ pos(j) \in 1 .. Len(seq)
          /\ seq[pos(i)] = seq[pos(j)]
      BY <1>1, <1>2, <1>6
    <2>2. pos(i) = pos(j)
      BY <2>1 DEF Distinct
    <2> QED  BY <1>1, <1>2, <2>2
  <1>8. ASSUME NEW i \in 1 .. n
        PROVE  new[i] \in Elems(seq) /\ new[i] # t
    <2>1. CASE i < k
      <3>1. i \in 1 .. Len(seq) /\ i # k /\ new[i] = seq[i]
        BY <1>1, <1>2, <1>6, <2>1
      <3> QED  BY <1>1, <3>1 DEF Elems, Distinct
    <2>2. CASE ~(i < k)
      <3>1. i + 1 \in 1 .. Len(seq) /\ i + 1 # k /\ new[i] = seq[i + 1]
        BY <1>1, <1>2, <1>6, <2>2
      <3> QED  BY <1>1, <3>1 DEF Elems, Distinct
    <2> QED  BY <2>1, <2>2
  <1>9. ASSUME NEW x \in Elems(seq), x # t
        PROVE  x \in Elems(new)
    <2>1. PICK i \in 1 .. Len(seq) : seq[i] = x
      BY DEF Elems
    <2>2. i # k
      BY <1>1, <1>9, <2>1
    <2>3. CASE i < k
      <3>1. i \in 1 .. n /\ new[i] = x
        BY <1>1, <1>2, <1>6, <2>1, <2>3
      <3> QED  BY <1>5, <3>1 DEF Elems
    <2>4. CASE i > k
      <3>1. i - 1 \in 1 .. n /\ ~(i - 1 < k) /\ (i - 1) + 1 = i
        BY <1>1, <1>2, <2>4
      <3>2. new[i - 1] = x
        BY <1>6, <2>1, <3>1
      <3> QED  BY <1>5, <3>1, <3>2 DEF Elems
    <2> QED  BY <1>1, <2>1, <2>2, <2>3, <2>4
  <1>10. Elems(new) = Elems(seq) \ {t}
    <2>1. Elems(new) \subseteq Elems(seq) \ {t}
      BY <1>5, <1>8 DEF Elems
    <2> QED  BY <1>9, <2>1
  <1>11. ListRemove(seq, t) = new
    BY DEF ListRemove, new, k
  <1> QED  BY <1>5, <1>7, <1>10, <1>11

LEMMA TimeoutStruct ==
  ASSUME StructInv, NEW t \in Threads, Timeout(t)
  PROVE  StructInv'
  <1>0. /\ TypeOK /\ HeldBlocks /\ ResetExclusive /\ PrivateLinks
        /\ WaitListsExact /\ BlocksPartitioned /\ ListsWellFormed
    BY DEF StructInv
  <1>1. /\ pc[t] \in {"recvWait", "sendWait"}
        /\ pc[t] = "recvWait" => pc'[t] = "recvReady"
        /\ pc[t] = "sendWait" => pc'[t] = "sendReady"
        /\ \A u \in Threads : u # t => pc'[u] = pc[u]
        /\ pc' \in [Threads -> PCs]
    BY <1>0 DEF Timeout, Ready, TypeOK, PCs
  <1>2. /\ recvList' \in Seq(Threads) /\ sendList' \in Seq(Threads)
        /\ WaitListsExact'
    <2>1. CASE pc[t] = "recvWait"
      <3>1. t \in Elems(recvList)
        BY <1>0, <2>1 DEF WaitListsExact
      <3>2. recvList' = ListRemove(recvList, t) /\ sendList' = sendList
        BY <2>1 DEF Timeout
      <3>3. /\ recvList' \in Seq(Threads) /\ Distinct(recvList')
            /\ Elems(recvList') = Elems(recvList) \ {t}
        BY <1>0, <3>1, <3>2, RemoveFacts DEF TypeOK, WaitListsExact
      <3>4. /\ {u \in Threads : pc'[u] = "recvWait"}
                 = {u \in Threads : pc[u] = "recvWait"} \ {t}
            /\ {u \in Threads : pc'[u] = "sendWait"} = {u \in Threads : pc[u] = "sendWait"}
        BY <1>1, <2>1
      <3> QED  BY <1>0, <3>2, <3>3, <3>4 DEF WaitListsExact, TypeOK
    <2>2. CASE pc[t] = "sendWait"
      <3>1. t \in Elems(sendList)
        BY <1>0, <2>2 DEF WaitListsExact
      <3>2. sendList' = ListRemove(sendList, t) /\ recvList' = recvList
        BY <2>2 DEF Timeout
      <3>3. /\ sendList' \in Seq(Threads) /\ Distinct(sendList')
            /\ Elems(sendList') = Elems(sendList) \ {t}
        BY <1>0, <3>1, <3>2, RemoveFacts DEF TypeOK, WaitListsExact
      <3>4. /\ {u \in Threads : pc'[u] = "sendWait"}
                 = {u \in Threads : pc[u] = "sendWait"} \ {t}
            /\ {u \in Threads : pc'[u] = "recvWait"} = {u \in Threads : pc[u] = "recvWait"}
        BY <1>1, <2>2
      <3> QED  BY <1>0, <3>2, <3>3, <3>4 DEF WaitListsExact, TypeOK
    <2> QED  BY <1>1, <2>1, <2>2
  <1>3. TypeOK'
    BY <1>0, <1>1, <1>2 DEF TypeOK, Timeout, mqVars, histVars, Errors
  <1>4. HeldBlocks' /\ PrivateLinks' /\ BlocksPartitioned' /\ ListsWellFormed'
    <2>1. \A u \in Threads : /\ pc'[u] \in HoldPCs <=> pc[u] \in HoldPCs
                             /\ pc'[u] \in Inbound <=> pc[u] \in Inbound
      BY <1>1 DEF HoldPCs, Inbound
    <2> QED  BY <2>1, QuietStep DEF Timeout, mqVars, histVars
  <1>5. ResetExclusive'
    BY <1>0, <1>1 DEF ResetExclusive, Timeout
  <1> QED  BY <1>2, <1>3, <1>4, <1>5 DEF StructInv

\* RT_IPC_CMD_RESET begins: everybody who waits is made ready.
LEMMA ResetWakeStruct ==
  ASSUME StructInv, NEW t \in Threads, ResetWake(t)
  PROVE  StructInv'
  <1>0. /\ TypeOK /\ HeldBlocks /\ ResetExclusive /\ PrivateLinks
        /\ WaitListsExact /\ BlocksPartitioned /\ ListsWellFormed
    BY DEF StructInv
  <1> DEFINE woken == Elems(recvList) \cup Elems(sendList)
  <1>1. \A u \in Threads : u \in woken <=> pc[u] \in {"recvWait", "sendWait"}
    BY <1>0 DEF WaitListsExact
  <1>2. /\ pc' = [u \in Threads |->
                    IF u = t THEN "reset"
                    ELSE IF u \in woken THEN Ready(u) ELSE pc[u]]
        /\ error' = [u \in Threads |-> IF u \in woken THEN "ERROR" ELSE error[u]]
        /\ recvList' = <<>> /\ sendList' = <<>> /\ irqOff' = t
        /\ pc[t] = "idle" /\ irqOff = NoThread
        /\ UNCHANGED <<mqVars, urgent, timeout, msg, buffer, histVars>>
    BY DEF ResetWake
  <1>3. /\ pc' \in [Threads -> PCs] /\ pc'[t] = "reset"
        /\ \A u \in Threads : u # t =>
             \/ pc[u] \in {"recvWait", "sendWait"} /\ pc'[u] \in {"recvReady", "sendReady"}
             \/ pc[u] \notin {"recvWait", "sendWait"} /\ pc'[u] = pc[u]
    BY <1>0, <1>1, <1>2 DEF Ready, TypeOK, PCs
  <1>4. error' \in [Threads -> Errors]
    BY <1>0, <1>2 DEF TypeOK, Errors
  <1>5. TypeOK'
    BY <1>0, <1>2, <1>3, <1>4 DEF TypeOK, mqVars, histVars
  <1>6. HeldBlocks' /\ PrivateLinks' /\ BlocksPartitioned' /\ ListsWellFormed'
    <2>1. \A u \in Threads : /\ pc'[u] \in HoldPCs <=> pc[u] \in HoldPCs
                             /\ pc'[u] \in Inbound <=> pc[u] \in Inbound
      BY <1>2, <1>3 DEF HoldPCs, Inbound
    <2>2. irqOff' # NoThread
      BY <1>2, NoThreadAssumption DEF NoThread
    <2> QED  BY <1>2, <2>1, <2>2, QuietStep DEF mqVars, histVars
  <1>7. ResetExclusive'
    BY <1>0, <1>2, <1>3, NoThreadAssumption DEF ResetExclusive, NoThread
  <1>8. WaitListsExact'
    <2>1. \A u \in Threads : pc'[u] # "recvWait" /\ pc'[u] # "sendWait"
      BY <1>3
    <2>2. Elems(<<>>) = {} /\ Distinct(<<>>)
      BY DEF Elems, Distinct
    <2> QED  BY <1>2, <2>1, <2>2 DEF WaitListsExact
  <1> QED  BY <1>5, <1>6, <1>7, <1>8 DEF StructInv

LEMMA RecvRegionStruct ==
  ASSUME StructInv, NEW t \in Threads, NEW tm \in Timeouts, irqOff = NoThread,
         pc[t] \in {"idle", "recvReady"}, RecvRegion(t, tm)
  PROVE  StructInv'
  <1>1. CASE RecvEmpty(t, tm)
    BY <1>1, ReturnStruct DEF RecvEmpty, StructInv, TypeOK, Errors
  <1>2. CASE RecvSuspend(t, tm)
    BY <1>2, RecvSuspendStruct
  <1>3. CASE RecvPop(t)
    BY <1>3, RecvPopStruct
  <1> QED  BY <1>1, <1>2, <1>3 DEF RecvRegion

\* Every step keeps the structure of the queue.
LEMMA NextStruct == StructInv /\ [Next]_vars => StructInv'
  <1> SUFFICES ASSUME StructInv, [Next]_vars PROVE StructInv'
    OBVIOUS
  <1>0. \A u \in Threads : /\ TimeoutsOf(u) \subseteq Timeouts
                           /\ Remaining(timeout[u]) \subseteq Timeouts
    BY DEF TimeoutsOf, Timeouts, Remaining, StructInv, TypeOK
  <1>b. buffer \in [Threads -> Message] /\ \A m \in Msgs : Whole(m) \in Message
    BY DEF StructInv, TypeOK, Whole, Message, Word
  <1>1. CASE UNCHANGED vars
    BY <1>1 DEF vars, mqVars, listVars, callVars, histVars, StructInv, TypeOK,
                HeldBlocks, ResetExclusive, PrivateLinks, WaitListsExact,
                BlocksPartitioned, ListsWellFormed, Holders
  <1>2. ASSUME NEW t \in Threads, Call(t) \/ Proceed(t) \/ Timeout(t)
        PROVE  StructInv'
    <2>1. CASE RecvCall(t)
      BY <1>0, <2>1, RecvRegionStruct DEF RecvCall
    <2>2. CASE SendCall(t)
      <3>1. PICK m \in Msgs, tm \in TimeoutsOf(t) :
                \/ SendFull(t, tm)
                \/ /\ SendSuspend(t, tm) \/ SendTake(t, FALSE)
                   /\ buffer' = [buffer EXCEPT ![t] = Whole(m)]
        BY <2>2 DEF SendCall
      <3>2. irqOff = NoThread /\ pc[t] = "idle" /\ tm \in Timeouts
        BY <1>0, <2>2 DEF SendCall
      <3>3. CASE SendFull(t, tm)
        BY <3>2, <3>3, ReturnStruct DEF SendFull, StructInv, TypeOK
      <3>4. CASE /\ SendSuspend(t, tm) \/ SendTake(t, FALSE)
                 /\ buffer' = [buffer EXCEPT ![t] = Whole(m)]
        <4>1. buffer' \in [Threads -> Message]
          BY <1>b, <3>4
        <4> QED  BY <3>2, <3>4, <4>1, SendSuspendStruct, SendTakeStruct
      <3> QED  BY <3>1, <3>3, <3>4
    <2>3. CASE UrgentCall(t)
      <3>1. PICK m \in Msgs :
                \/ SendFull(t, "poll")
                \/ /\ SendTake(t, TRUE)
                   /\ buffer' = [buffer EXCEPT ![t] = Whole(m)]
        BY <2>3 DEF UrgentCall
      <3>2. irqOff = NoThread /\ pc[t] = "idle"
        BY <2>3 DEF UrgentCall
      <3>3. CASE SendFull(t, "poll")
        BY <3>2, <3>3, ReturnStruct DEF SendFull, StructInv, TypeOK
      <3>4. CASE SendTake(t, TRUE) /\ buffer' = [buffer EXCEPT ![t] = Whole(m)]
        <4>1. buffer' \in [Threads -> Message]
          BY <1>b, <3>4
        <4> QED  BY <3>2, <3>4, <4>1, SendTakeStruct
      <3> QED  BY <3>1, <3>3, <3>4
    <2>4. CASE ResetWake(t)
      BY <2>4, ResetWakeStruct
    <2>5. CASE RecvFail(t)
      BY <2>5, ReturnStruct DEF RecvFail, StructInv, TypeOK
    <2>6. CASE RecvRetry(t)
      BY <1>0, <2>6, RecvRegionStruct DEF RecvRetry
    <2>7. CASE CopyOut(t) \/ CopyIn(t)
      BY <2>7, CopyStruct
    <2>8. CASE GiveBack(t)
      BY <2>8, GiveBackStruct
    <2>9. CASE SendFail(t)
      BY <2>9, ReturnStruct DEF SendFail, StructInv, TypeOK
    <2>10. CASE SendRetry(t)
      <3>1. PICK tm \in Remaining(timeout[t]) :
                \/ SendFull(t, tm)
                \/ /\ SendSuspend(t, tm) \/ SendTake(t, FALSE)
                   /\ UNCHANGED buffer
        BY <2>10 DEF SendRetry
      <3>2. irqOff = NoThread /\ pc[t] = "sendReady" /\ tm \in Timeouts
        BY <1>0, <2>10 DEF SendRetry
      <3>3. CASE SendFull(t, tm)
        BY <3>2, <3>3, ReturnStruct DEF SendFull, StructInv, TypeOK
      <3>4. CASE (SendSuspend(t, tm) \/ SendTake(t, FALSE)) /\ UNCHANGED buffer
        BY <1>b, <3>2, <3>4, SendSuspendStruct, SendTakeStruct
      <3> QED  BY <3>1, <3>3, <3>4
    <2>11. CASE Link(t)
      BY <2>11, LinkStruct
    <2>12. CASE ResetMove(t)
      BY <2>12, ResetMoveStruct
    <2>13. CASE ResetDone(t)
      BY <2>13, ResetDoneStruct
    <2>14. CASE Timeout(t)
      BY <2>14, TimeoutStruct
    <2> QED
      BY <1>2, <2>1, <2>2, <2>3, <2>4, <2>5, <2>6, <2>7, <2>8, <2>9, <2>10,
         <2>11, <2>12, <2>13, <2>14
      DEF Call, Proceed
  <1> QED  BY <1>1, <1>2 DEF Next

\* The type invariant, for every pool, caller set and message set.
THEOREM MqTypeCorrect == Spec => []TypeOK
  <1>1. Spec => []StructInv
    BY InitStruct, NextStruct, PTL DEF Spec
  <1>2. StructInv => TypeOK
    BY DEF StructInv
  <1> QED  BY <1>1, <1>2, PTL

\* No block of the pool is lost or in two places at once, whatever the callers
\* of rt_mq_recv, rt_mq_send_wait, rt_mq_urgent and rt_mq_control are doing.
THEOREM MqBlocksPartitioned == Spec => []BlocksPartitioned
  <1>1. Spec => []StructInv
    BY InitStruct, NextStruct, PTL DEF Spec
  <1>2. StructInv => BlocksPartitioned
    BY DEF StructInv
  <1> QED  BY <1>1, <1>2, PTL

\* The two linked lists are well formed and entry counts the queued messages.
THEOREM MqListsWellFormed == Spec => []ListsWellFormed
  <1>1. Spec => []StructInv
    BY InitStruct, NextStruct, PTL DEF Spec
  <1>2. StructInv => ListsWellFormed
    BY DEF StructInv
  <1> QED  BY <1>1, <1>2, PTL

\* The wait lists hold exactly the suspended callers, each once.
THEOREM MqWaitListsExact == Spec => []WaitListsExact
  <1>1. Spec => []StructInv
    BY InitStruct, NextStruct, PTL DEF Spec
  <1>2. StructInv => WaitListsExact
    BY DEF StructInv
  <1> QED  BY <1>1, <1>2, PTL

----------------------------------------------------------------------------
(* The contents of the messages                                             *)

FreePCs == {"idle", "recvWait", "recvReady", "reset"}

\* Nothing is asked of a caller that has no message; one that keeps its place,
\* its block and its buffer keeps its promise as long as the block is not written.
LEMMA CopyFrame ==
  ASSUME NEW u \in Threads, CopySound(u),
         \/ pc'[u] \in FreePCs
         \/ /\ pc'[u] = pc[u] \/ (pc[u] = "sendWait" /\ pc'[u] = "sendReady")
            /\ msg'[u] = msg[u] /\ buffer'[u] = buffer[u]
            /\ pc[u] \in HoldPCs => data'[msg[u]] = data[msg[u]]
  PROVE  CopySound(u)'
  BY DEF CopySound, FreePCs, HoldPCs, IsWhole

\* A call that moves no block (a return, a wait, a time-out, a reset).
LEMMA QuietCopies ==
  ASSUME MqInv, UNCHANGED <<data, msg, queued>>,
         \A u \in Threads :
           \/ pc'[u] \in FreePCs
           \/ /\ pc'[u] = pc[u] \/ (pc[u] = "sendWait" /\ pc'[u] = "sendReady")
              /\ buffer'[u] = buffer[u]
  PROVE  CopiesSound'
  <1>1. \A u \in Threads : CopySound(u)
    BY DEF MqInv, CopiesSound
  <1>2. \A u \in Threads : CopySound(u)'
    BY <1>1, CopyFrame
  <1>3. \A s \in Elems(queued') : IsWhole(data'[s])
    BY DEF MqInv, CopiesSound
  <1> QED  BY <1>2, <1>3 DEF CopiesSound, IsWhole

\* A send that waits or takes a block has a whole message in its buffer.
LEMMA SendCopies ==
  ASSUME MqInv, NEW t \in Threads, UNCHANGED <<data, queued>>,
         pc'[t] \in {"sendWait", "copyIn1"}, IsWhole(buffer'[t]),
         \A u \in Threads : u # t =>
           pc'[u] = pc[u] /\ msg'[u] = msg[u] /\ buffer'[u] = buffer[u]
  PROVE  CopiesSound'
  <1>1. \A u \in Threads : CopySound(u)
    BY DEF MqInv, CopiesSound
  <1>2. \A u \in Threads : u # t => CopySound(u)'
    BY <1>1, CopyFrame
  <1>3. CopySound(t)'
    BY DEF CopySound, IsWhole
  <1>4. \A s \in Elems(queued') : IsWhole(data'[s])
    BY DEF MqInv, CopiesSound
  <1> QED  BY <1>2, <1>3, <1>4 DEF CopiesSound, IsWhole

LEMMA RecvPopCopies ==
  ASSUME MqInv, NEW t \in Threads, irqOff = NoThread, RecvPop(t)
  PROVE  CopiesSound'
  <1>1. /\ TypeOK /\ ListsWellFormed /\ \A u \in Threads : CopySound(u)
        /\ \A s \in Elems(queued) : IsWhole(data[s])
    BY DEF MqInv, StructInv, CopiesSound
  <1>2. queued # <<>> /\ queued \in Seq(Slots) /\ head = queued[1]
    BY <1>1 DEF RecvPop, ListsWellFormed, Chain, TypeOK
  <1>3. head \in Elems(queued) /\ Elems(queued') \subseteq Elems(queued)
    BY <1>2, TailFacts DEF RecvPop
  <1>4. /\ pc'[t] = "copyOut1" /\ msg'[t] = head /\ data' = data
        /\ \A u \in Threads : u # t =>
             pc'[u] = pc[u] /\ msg'[u] = msg[u] /\ buffer'[u] = buffer[u]
    BY <1>1 DEF RecvPop, TypeOK
  <1>5. \A u \in Threads : u # t => CopySound(u)'
    BY <1>1, <1>4, CopyFrame
  <1>6. CopySound(t)'
    BY <1>1, <1>3, <1>4 DEF CopySound, IsWhole
  <1>7. \A s \in Elems(queued') : IsWhole(data'[s])
    BY <1>1, <1>3, <1>4
  <1> QED  BY <1>5, <1>6, <1>7 DEF CopiesSound, IsWhole

LEMMA CopyOutCopies ==
  ASSUME MqInv, NEW t \in Threads, CopyOut(t)
  PROVE  CopiesSound'
  <1>1. /\ TypeOK /\ HeldBlocks /\ \A u \in Threads : CopySound(u)
        /\ \A s \in Elems(queued) : IsWhole(data[s])
    BY DEF MqInv, StructInv, CopiesSound
  <1>2. /\ UNCHANGED <<data, msg, queued>>
        /\ \A u \in Threads : u # t =>
             pc'[u] = pc[u] /\ msg'[u] = msg[u] /\ buffer'[u] = buffer[u]
    BY <1>1 DEF CopyOut, TypeOK, mqVars, histVars
  <1>3. \A u \in Threads : u # t => CopySound(u)'
    BY <1>1, <1>2, CopyFrame
  <1>4. CopySound(t)'
    <2> DEFINE d == data[msg[t]]
    <2>1. PICK m \in Msgs : d = <<m, m>>
      BY <1>1 DEF CopyOut, CopySound, IsWhole, Whole
    <2>2. CASE pc[t] = "copyOut1"
      <3>1. pc'[t] = "copyOut2" /\ buffer'[t] = <<d[1], buffer[t][2]>>
        BY <1>1, <2>2 DEF CopyOut, TypeOK
      <3>2. buffer'[t][1] = d[1]
        BY <3>1
      <3> QED  BY <1>2, <2>1, <3>1, <3>2 DEF CopySound, IsWhole, Whole
    <2>3. CASE pc[t] = "copyOut2"
      <3>1. pc'[t] = "giveBack" /\ buffer'[t] = <<buffer[t][1], d[2]>>
        BY <1>1, <2>3 DEF CopyOut, TypeOK
      <3>2. buffer[t][1] = d[1]
        BY <1>1, <2>3 DEF CopySound
      <3>3. buffer'[t] = <<m, m>>
        BY <2>1, <3>1, <3>2
      <3> QED  BY <3>1, <3>3 DEF CopySound, IsWhole, Whole
    <2> QED  BY <2>2, <2>3 DEF CopyOut
  <1>5. \A s \in Elems(queued') : IsWhole(data'[s])
    BY <1>1, <1>2
  <1> QED  BY <1>3, <1>4, <1>5 DEF CopiesSound, IsWhole

LEMMA CopyInCopies ==
  ASSUME MqInv, NEW t \in Threads, CopyIn(t)
  PROVE  CopiesSound'
  <1>1. /\ TypeOK /\ HeldBlocks /\ BlocksPartitioned
        /\ \A u \in Threads : CopySound(u)
        /\ \A s \in Elems(queued) : IsWhole(data[s])
    BY DEF MqInv, StructInv, CopiesSound
  <1>2. pc[t] \in HoldPCs /\ t \in Holders /\ msg[t] \in Slots
    BY <1>1 DEF CopyIn, HoldPCs, Holders, HeldBlocks
  <1>3. \A s \in Slots : s # msg[t] => data'[s] = data[s]
    BY <1>1, <1>2 DEF CopyIn, TypeOK
  <1>4. \A u \in Threads : u # t =>
          /\ pc'[u] = pc[u] /\ msg'[u] = msg[u] /\ buffer'[u] = buffer[u]
          /\ pc[u] \in HoldPCs => data'[msg[u]] = data[msg[u]]
    <2> SUFFICES ASSUME NEW u \in Threads, u # t
                 PROVE  /\ pc'[u] = pc[u] /\ msg'[u] = msg[u] /\ buffer'[u] = buffer[u]
                        /\ pc[u] \in HoldPCs => data'[msg[u]] = data[msg[u]]
      OBVIOUS
    <2>1. pc'[u] = pc[u] /\ msg'[u] = msg[u] /\ buffer'[u] = buffer[u]
      BY <1>1 DEF CopyIn, TypeOK
    <2>2. ASSUME pc[u] \in HoldPCs PROVE data'[msg[u]] = data[msg[u]]
      <3>1. u \in Holders /\ msg[u] # msg[t] /\ msg[u] \in Slots
        BY <1>1, <1>2, <2>2 DEF Holders, BlocksPartitioned, HeldBlocks
      <3> QED  BY <1>3, <3>1
    <2> QED  BY <2>1, <2>2
  <1>5. \A u \in Threads : u # t => CopySound(u)'
    BY <1>1, <1>4, CopyFrame
  <1>6. CopySound(t)'
    <2>1. PICK m \in Msgs : buffer[t] = <<m, m>>
      BY <1>1 DEF CopyIn, CopySound, IsWhole, Whole
    <2>2. buffer' = buffer /\ msg' = msg
      BY DEF CopyIn
    <2>3. CASE pc[t] = "copyIn1"
      <3>1. pc'[t] = "copyIn2" /\ data'[msg[t]] = <<buffer[t][1], data[msg[t]][2]>>
        BY <1>1, <1>2, <2>3 DEF CopyIn, TypeOK
      <3>2. data'[msg[t]][1] = buffer[t][1]
        BY <3>1
      <3> QED  BY <2>1, <2>2, <3>1, <3>2 DEF CopySound, IsWhole, Whole
    <2>4. CASE pc[t] = "copyIn2"
      <3>1. pc'[t] = "link" /\ data'[msg[t]] = <<data[msg[t]][1], buffer[t][2]>>
        BY <1>1, <1>2, <2>4 DEF CopyIn, TypeOK
      <3>2. data[msg[t]][1] = buffer[t][1]
        BY <1>1, <2>4 DEF CopySound
      <3>3. data'[msg[t]] = <<m, m>>
        BY <2>1, <3>1, <3>2
      <3> QED  BY <2>2, <3>1, <3>3 DEF CopySound, IsWhole, Whole
    <2> QED  BY <2>3, <2>4 DEF CopyIn
  <1>7. \A s \in Elems(queued') : IsWhole(data'[s])
    <2>1. queued' = queued /\ \A s \in Elems(queued) : s \in Slots /\ s # msg[t]
      BY <1>1, <1>2 DEF CopyIn, histVars, BlocksPartitioned
    <2> QED  BY <1>1, <1>3, <2>1
  <1> QED  BY <1>5, <1>6, <1>7 DEF CopiesSound, IsWhole

LEMMA GiveBackCopies ==
  ASSUME MqInv, NEW t \in Threads, GiveBack(t)
  PROVE  CopiesSound'
  <1>1. /\ TypeOK /\ WaitListsExact /\ \A u \in Threads : CopySound(u)
        /\ \A s \in Elems(queued) : IsWhole(data[s])
    BY DEF MqInv, StructInv, CopiesSound
  <1>2. /\ pc'[t] = "idle"
        /\ \A u \in Threads : u # t =>
              /\ pc'[u] = pc[u] \/ (pc[u] = "sendWait" /\ pc'[u] = "sendReady")
              /\ msg'[u] = msg[u] /\ buffer'[u] = buffer[u]
    BY <1>1, ResumeSender DEF GiveBack, HoldPCs
  <1>3. data' = data /\ queued' = queued
    BY DEF GiveBack
  <1>4. \A u \in Threads : CopySound(u)'
    BY <1>1, <1>2, <1>3, CopyFrame DEF FreePCs
  <1> QED  BY <1>1, <1>3, <1>4 DEF CopiesSound, IsWhole

LEMMA LinkCopies ==
  ASSUME MqInv, NEW t \in Threads, Link(t)
  PROVE  CopiesSound'
  <1>1. /\ StructInv /\ TypeOK /\ WaitListsExact /\ \A u \in Threads : CopySound(u)
        /\ \A s \in Elems(queued) : IsWhole(data[s])
    BY DEF MqInv, StructInv, CopiesSound
  <1>2. /\ pc'[t] = "idle"
        /\ \A u \in Threads : u # t =>
              /\ pc'[u] = pc[u] \/ (pc[u] = "recvWait" /\ pc'[u] = "recvReady")
              /\ msg'[u] = msg[u] /\ buffer'[u] = buffer[u]
    BY <1>1, ResumeReceiver DEF Link, HoldPCs
  <1>3. data' = data
    BY DEF Link
  <1>4. \A u \in Threads : CopySound(u)'
    BY <1>1, <1>2, <1>3, CopyFrame DEF FreePCs
  <1>5. Elems(queued') = Elems(queued) \cup {msg[t]}
    BY <1>1, LinkLists
  <1>6. IsWhole(data[msg[t]])
    BY <1>1 DEF Link, CopySound
  <1> QED  BY <1>1, <1>3, <1>4, <1>5, <1>6 DEF CopiesSound, IsWhole

LEMMA ResetMoveCopies ==
  ASSUME MqInv, NEW t \in Threads, ResetMove(t)
  PROVE  CopiesSound'
  <1>1. /\ TypeOK /\ ListsWellFormed /\ \A u \in Threads : CopySound(u)
        /\ \A s \in Elems(queued) : IsWhole(data[s])
    BY DEF MqInv, StructInv, CopiesSound
  <1>2. queued # <<>> /\ queued \in Seq(Slots)
    BY <1>1 DEF ResetMove, ListsWellFormed, Chain, TypeOK
  <1>3. Elems(queued') \subseteq Elems(queued)
    BY <1>2, TailFacts DEF ResetMove
  <1>4. UNCHANGED <<data, pc, msg, buffer>>
    BY DEF ResetMove, callVars
  <1>5. \A u \in Threads : CopySound(u)'
    BY <1>1, <1>4, CopyFrame
  <1> QED  BY <1>1, <1>3, <1>4, <1>5 DEF CopiesSound, IsWhole

LEMMA ReturnCopies ==
  ASSUME MqInv, NEW t \in Threads, Return(t), UNCHANGED <<data, msg, queued>>
  PROVE  CopiesSound'
  <1>1. TypeOK
    BY DEF MqInv, StructInv
  <1>2. /\ pc'[t] = "idle"
        /\ \A u \in Threads : u # t => pc'[u] = pc[u] /\ buffer'[u] = buffer[u]
    BY <1>1 DEF Return, TypeOK
  <1> QED  BY <1>2, QuietCopies DEF FreePCs

LEMMA RecvRegionCopies ==
  ASSUME MqInv, NEW t \in Threads, NEW tm, irqOff = NoThread, RecvRegion(t, tm)
  PROVE  CopiesSound'
  <1>1. CASE RecvEmpty(t, tm)
    BY <1>1, ReturnCopies DEF RecvEmpty, mqVars, histVars
  <1>2. CASE RecvSuspend(t, tm)
    <2>1. TypeOK
      BY DEF MqInv, StructInv
    <2>2. /\ pc'[t] = "recvWait" /\ UNCHANGED <<data, msg, queued, buffer>>
          /\ \A u \in Threads : u # t => pc'[u] = pc[u]
      BY <1>2, <2>1 DEF RecvSuspend, Suspend, TypeOK, mqVars, histVars
    <2> QED  BY <2>2, QuietCopies DEF FreePCs
  <1>3. CASE RecvPop(t)
    BY <1>3, RecvPopCopies
  <1> QED  BY <1>1, <1>2, <1>3 DEF RecvRegion

LEMMA SendRegionCopies ==
  ASSUME MqInv, NEW t \in Threads, NEW tm, NEW urg,
         SendSuspend(t, tm) \/ SendTake(t, urg), IsWhole(buffer'[t]),
         \A u \in Threads : u # t => buffer'[u] = buffer[u]
  PROVE  CopiesSound'
  <1>1. TypeOK
    BY DEF MqInv, StructInv
  <1>2. /\ pc'[t] \in {"sendWait", "copyIn1"} /\ UNCHANGED <<data, queued>>
        /\ \A u \in Threads : u # t => pc'[u] = pc[u] /\ msg'[u] = msg[u]
    BY <1>1 DEF SendSuspend, SendTake, Suspend, TypeOK, mqVars, histVars
  <1> QED  BY <1>2, SendCopies

\* Every step keeps the contents of the messages.
LEMMA NextCopies == MqInv /\ [Next]_vars => CopiesSound'
  <1> SUFFICES ASSUME MqInv, [Next]_vars PROVE CopiesSound'
    OBVIOUS
  <1>0. /\ TypeOK /\ WaitListsExact /\ \A u \in Threads : CopySound(u)
        /\ \A m \in Msgs : IsWhole(Whole(m))
    BY DEF MqInv, StructInv, CopiesSound, IsWhole
  <1>1. CASE UNCHANGED vars
    <2>1. UNCHANGED <<data, msg, queued, pc, buffer>>
      BY <1>1 DEF vars, mqVars, callVars, histVars
    <2> QED  BY <2>1, QuietCopies
  <1>2. ASSUME NEW t \in Threads, Call(t) \/ Proceed(t) \/ Timeout(t)
        PROVE  CopiesSound'
    <2>1. CASE RecvCall(t) \/ RecvRetry(t)
      BY <2>1, RecvRegionCopies DEF RecvCall, RecvRetry
    <2>2. CASE SendCall(t)
      <3>1. PICK m \in Msgs, tm \in TimeoutsOf(t) :
                \/ SendFull(t, tm)
                \/ /\ SendSuspend(t, tm) \/ SendTake(t, FALSE)
                   /\ buffer' = [buffer EXCEPT ![t] = Whole(m)]
        BY <2>2 DEF SendCall
      <3>2. CASE SendFull(t, tm)
        BY <3>2, ReturnCopies DEF SendFull, mqVars, histVars
      <3>3. CASE /\ SendSuspend(t, tm) \/ SendTake(t, FALSE)
                 /\ buffer' = [buffer EXCEPT ![t] = Whole(m)]
        <4>1. IsWhole(buffer'[t]) /\ \A u \in Threads : u # t => buffer'[u] = buffer[u]
          BY <1>0, <3>3 DEF TypeOK
        <4> QED  BY <3>3, <4>1, SendRegionCopies
      <3> QED  BY <3>1, <3>2, <3>3
    <2>3. CASE UrgentCall(t)
      <3>1. PICK m \in Msgs :
                \/ SendFull(t, "poll")
                \/ /\ SendTake(t, TRUE)
                   /\ buffer' = [buffer EXCEPT ![t] = Whole(m)]
        BY <2>3 DEF UrgentCall
      <3>2. CASE SendFull(t, "poll")
        BY <3>2, ReturnCopies DEF SendFull, mqVars, histVars
      <3>3. CASE SendTake(t, TRUE) /\ buffer' = [buffer EXCEPT ![t] = Whole(m)]
        <4>1. IsWhole(buffer'[t]) /\ \A u \in Threads : u # t => buffer'[u] = buffer[u]
          BY <1>0, <3>3 DEF TypeOK
        <4> QED  BY <3>3, <4>1, SendRegionCopies
      <3> QED  BY <3>1, <3>2, <3>3
    <2>4. CASE ResetWake(t)
      <3>1. /\ pc'[t] = "reset" /\ UNCHANGED <<data, msg, queued, buffer>>
            /\ \A u \in Threads : u # t =>
                 \/ pc'[u] = pc[u]
                 \/ pc[u] = "recvWait" /\ pc'[u] = "recvReady"
                 \/ pc[u] = "sendWait" /\ pc'[u] = "sendReady"
        <4>1. \A u \in Threads :
                u \in Elems(recvList) \cup Elems(sendList)
                  <=> pc[u] \in {"recvWait", "sendWait"}
          BY <1>0 DEF WaitListsExact
        <4> QED  BY <2>4, <4>1 DEF ResetWake, Ready, mqVars, histVars
      <3> QED  BY <3>1, QuietCopies DEF FreePCs
    <2>5. CASE RecvFail(t)
      BY <2>5, ReturnCopies DEF RecvFail, mqVars, histVars
    <2>6. CASE SendFail(t)
      BY <2>6, ReturnCopies DEF SendFail, mqVars, histVars
    <2>7. CASE SendRetry(t)
      <3>1. PICK tm \in Remaining(timeout[t]) :
                \/ SendFull(t, tm)
                \/ /\ SendSuspend(t, tm) \/ SendTake(t, FALSE)
                   /\ UNCHANGED buffer
        BY <2>7 DEF SendRetry
      <3>2. CASE SendFull(t, tm)
        BY <3>2, ReturnCopies DEF SendFull, mqVars, histVars
      <3>3. CASE (SendSuspend(t, tm) \/ SendTake(t, FALSE)) /\ UNCHANGED buffer
        <4>1. IsWhole(buffer[t])
          BY <1>0, <2>7 DEF SendRetry, CopySound
        <4> QED  BY <3>3, <4>1, SendRegionCopies DEF IsWhole
      <3> QED  BY <3>1, <3>2, <3>3
    <2>8. CASE CopyIn(t)
      BY <2>8, CopyInCopies
    <2>9. CASE CopyOut(t)
      BY <2>9, CopyOutCopies
    <2>10. CASE GiveBack(t)
      BY <2>10, GiveBackCopies
    <2>11. CASE Link(t)
      BY <2>11, LinkCopies
    <2>12. CASE ResetMove(t)
      BY <2>12, ResetMoveCopies
    <2>13. CASE ResetDone(t)
      BY <2>13, ReturnCopies DEF ResetDone, histVars
    <2>14. CASE Timeout(t)
      <3>1. /\ UNCHANGED <<data, msg, queued, buffer>>
            /\ pc[t] = "recvWait" => pc'[t] = "recvReady"
            /\ pc[t] = "sendWait" => pc'[t] = "sendReady"
            /\ pc[t] \in {"recvWait", "sendWait"}
            /\ \A u \in Threads : u # t => pc'[u] = pc[u]
        BY <1>0, <2>14 DEF Timeout, Ready, TypeOK, mqVars, histVars
      <3> QED  BY <3>1, QuietCopies DEF FreePCs
    <2> QED
      BY <1>2, <2>1, <2>2, <2>3, <2>4, <2>5, <2>6, <2>7, <2>8, <2>9, <2>10,
         <2>11, <2>12, <2>13, <2>14
      DEF Call, Proceed
  <1> QED  BY <1>1, <1>2 DEF Next

\* The inductive invariant of the queue holds for every pool, every set of
\* callers and every set of messages.
THEOREM MqInvariant == Spec => []MqInv
  <1>1. Init => MqInv
    <2>1. Init => CopiesSound
      BY DEF Init, CopiesSound, CopySound, Elems
    <2> QED  BY <2>1, InitStruct DEF MqInv
  <1>2. MqInv /\ [Next]_vars => MqInv'
    BY NextStruct, NextCopies DEF MqInv
  <1> QED  BY <1>1, <1>2, PTL DEF Spec

\* rt_mq_recv never hands out a message that is half written or half
\* overwritten, although both copies run with interrupts enabled.
THEOREM MqNoTornMessage == Spec => []NoTornMessage
  <1>1. MqInv => NoTornMessage
    BY DEF MqInv, CopiesSound, CopySound, NoTornMessage
  <1> QED  BY <1>1, MqInvariant, PTL

----------------------------------------------------------------------------
(* No lost wake-up                                                          *)

\* A suspended caller has no error: whoever gives it one takes it off its list.
WaitersClean ==
  \A t \in Threads : pc[t] \in {"recvWait", "sendWait"} => error[t] = "EOK"

\* While RT_IPC_CMD_RESET runs nobody waits.
NoWaiterInReset == irqOff # NoThread => recvList = <<>> /\ sendList = <<>>

\* The two halves of NoLostWakeup, which hold during RT_IPC_CMD_RESET too.
ReceiversPromised == recvList # <<>> => entry <= Cardinality(Resumed("recvReady"))
SendersPromised == sendList # <<>> => Len(freed) <= Cardinality(Resumed("sendReady"))

\* The inductive strengthening of NoLostWakeup, given StructInv.
WakeInv ==
  /\ WaitersClean
  /\ NoWaiterInReset
  /\ ReceiversPromised
  /\ SendersPromised

LEMMA CallersFinite ==
  ASSUME NEW S \in SUBSET Threads
  PROVE  IsFiniteSet(S) /\ Cardinality(S) \in Nat
  BY ConstantsAssumption, FS_Subset, FS_CardinalityType

LEMMA ResumedCount ==
  ASSUME NEW w
  PROVE  /\ IsFiniteSet(Resumed(w)) /\ Cardinality(Resumed(w)) \in Nat
         /\ IsFiniteSet(Resumed(w)') /\ Cardinality(Resumed(w)') \in Nat
  <1>1. Resumed(w) \in SUBSET Threads /\ Resumed(w)' \in SUBSET Threads
    BY DEF Resumed
  <1> QED  BY <1>1, CallersFinite

LEMMA OneLess ==
  ASSUME NEW S, NEW x, IsFiniteSet(S), Cardinality(S) \in Nat
  PROVE  Cardinality(S \ {x}) >= Cardinality(S) - 1
  <1>1. Cardinality(S \ {x}) = IF x \in S THEN Cardinality(S) - 1 ELSE Cardinality(S)
    BY FS_RemoveElement
  <1>2. CASE x \in S
    BY <1>1, <1>2
  <1>3. CASE x \notin S
    BY <1>1, <1>3
  <1> QED  BY <1>2, <1>3

\* The steps that resume nobody and take no promised message or block.
LEMMA ReceiversQuiet ==
  ASSUME ReceiversPromised, entry' = entry, recvList' # <<>> => recvList # <<>>,
         \A u \in Threads : pc'[u] = "recvReady" /\ error'[u] = "EOK"
                              <=> pc[u] = "recvReady" /\ error[u] = "EOK"
  PROVE  ReceiversPromised'
  <1>1. Resumed("recvReady")' = Resumed("recvReady")
    BY DEF Resumed
  <1> QED  BY <1>1 DEF ReceiversPromised

LEMMA SendersQuiet ==
  ASSUME SendersPromised, freed' = freed, sendList' # <<>> => sendList # <<>>,
         \A u \in Threads : pc'[u] = "sendReady" /\ error'[u] = "EOK"
                              <=> pc[u] = "sendReady" /\ error[u] = "EOK"
  PROVE  SendersPromised'
  <1>1. Resumed("sendReady")' = Resumed("sendReady")
    BY DEF Resumed
  <1> QED  BY <1>1 DEF SendersPromised

\* With nothing queued, or nothing free, nothing needs to be promised.
LEMMA NothingQueued ==
  ASSUME entry' = 0
  PROVE  ReceiversPromised'
  BY ResumedCount DEF ReceiversPromised

LEMMA NothingFree ==
  ASSUME freed' = <<>>
  PROVE  SendersPromised'
  BY ResumedCount DEF SendersPromised

LEMMA FreeNullEmpty ==
  ASSUME StructInv, free = RT_NULL
  PROVE  freed = <<>>
  <1>1. freed \in Seq(Slots) /\ Chain(next, free, freed)
    BY DEF StructInv, TypeOK, ListsWellFormed
  <1>2. CASE freed # <<>>
    <2>1. freed[1] \in Slots /\ free = freed[1]
      BY <1>1, <1>2, TailFacts DEF Chain
    <2> QED  BY <2>1, SlotsFacts DEF RT_NULL
  <1> QED  BY <1>2

\* rt_mq_recv takes a message: one promise less, and one message less.
LEMMA RecvPopWakes ==
  ASSUME StructInv, WakeInv, NEW t \in Threads, irqOff = NoThread,
         pc[t] \in {"idle", "recvReady"}, RecvPop(t)
  PROVE  WakeInv'
  <1>0. TypeOK
    BY DEF StructInv
  <1>1. /\ pc'[t] = "copyOut1" /\ \A u \in Threads : u # t => pc'[u] = pc[u]
        /\ entry' = entry - 1 /\ entry # 0 /\ freed' = freed
        /\ error' = error /\ recvList' = recvList /\ sendList' = sendList
        /\ irqOff' = irqOff
    BY <1>0 DEF RecvPop, TypeOK, listVars
  <1>2. WaitersClean' /\ NoWaiterInReset'
    BY <1>1 DEF WakeInv, WaitersClean, NoWaiterInReset
  <1>3. SendersPromised'
    BY <1>1, SendersQuiet DEF WakeInv
  <1>4. ReceiversPromised'
    <2>1. Resumed("recvReady")' = Resumed("recvReady") \ {t}
      BY <1>1 DEF Resumed
    <2>2. Cardinality(Resumed("recvReady") \ {t}) >= Cardinality(Resumed("recvReady")) - 1
      BY ResumedCount, OneLess
    <2>3. entry \in Nat
      BY <1>0 DEF TypeOK
    <2>4. recvList # <<>> => entry - 1 <= Cardinality(Resumed("recvReady") \ {t})
      <3> DEFINE c == Cardinality(Resumed("recvReady"))
                 d == Cardinality(Resumed("recvReady") \ {t})
      <3>1. c \in Nat /\ d \in Nat
        BY ResumedCount, <2>1
      <3>2. recvList # <<>> => entry <= c
        BY DEF WakeInv, ReceiversPromised
      <3> HIDE DEF c, d
      <3>3. d >= c - 1
        BY <2>2 DEF c, d
      <3>4. recvList # <<>> => entry - 1 <= d
        BY <2>3, <3>1, <3>2, <3>3
      <3> QED  BY <3>4 DEF d
    <2> QED  BY <1>1, <2>1, <2>4 DEF ReceiversPromised
  <1> QED  BY <1>2, <1>3, <1>4 DEF WakeInv

LEMMA SendTakeWakes ==
  ASSUME StructInv, WakeInv, NEW t \in Threads, NEW urg, irqOff = NoThread,
         pc[t] \in {"idle", "sendReady"}, SendTake(t, urg)
  PROVE  WakeInv'
  <1>0. TypeOK
    BY DEF StructInv
  <1>1. /\ pc'[t] = "copyIn1" /\ \A u \in Threads : u # t => pc'[u] = pc[u]
        /\ entry' = entry /\ freed' = Tail(freed) /\ free # RT_NULL
        /\ error' = error /\ recvList' = recvList /\ sendList' = sendList
        /\ irqOff' = irqOff
    BY <1>0 DEF SendTake, TypeOK, listVars
  <1>2. WaitersClean' /\ NoWaiterInReset'
    BY <1>1 DEF WakeInv, WaitersClean, NoWaiterInReset
  <1>3. ReceiversPromised'
    BY <1>1, ReceiversQuiet DEF WakeInv
  <1>4. SendersPromised'
    <2>1. Resumed("sendReady")' = Resumed("sendReady") \ {t}
      BY <1>1 DEF Resumed
    <2>2. Cardinality(Resumed("sendReady") \ {t}) >= Cardinality(Resumed("sendReady")) - 1
      BY ResumedCount, OneLess
    <2>3. Len(freed) \in Nat /\ Len(freed') = Len(freed) - 1
      <3>1. freed \in Seq(Slots) /\ Chain(next, free, freed)
        BY DEF StructInv, TypeOK, ListsWellFormed
      <3>2. freed # <<>>
        BY <1>1, <3>1 DEF Chain
      <3> QED  BY <1>1, <3>1, <3>2, TailFacts
    <2>4. sendList # <<>> => Len(freed) - 1 <= Cardinality(Resumed("sendReady") \ {t})
      <3> DEFINE c == Cardinality(Resumed("sendReady"))
                 d == Cardinality(Resumed("sendReady") \ {t})
                 n == Len(freed)
      <3>1. c \in Nat /\ d \in Nat
        BY ResumedCount, <2>1
      <3>2. sendList # <<>> => n <= c
        BY DEF WakeInv, SendersPromised
      <3> HIDE DEF c, d
      <3>3. d >= c - 1
        BY <2>2 DEF c, d
      <3>4. sendList # <<>> => n - 1 <= d
        BY <2>3, <3>1, <3>2, <3>3
      <3> QED  BY <3>4 DEF d
    <2> QED  BY <1>1, <2>1, <2>3, <2>4 DEF SendersPromised
  <1> QED  BY <1>2, <1>3, <1>4 DEF WakeInv

\* A send queues a message and promises it to the receiver that waited longest.
LEMMA LinkWakes ==
  ASSUME StructInv, WakeInv, NEW t \in Threads, Link(t)
  PROVE  WakeInv'
  <1>0. TypeOK /\ WaitListsExact
    BY DEF StructInv
  <1>1. /\ pc[t] = "link" /\ entry' = entry + 1 /\ freed' = freed
        /\ error' = error /\ sendList' = sendList /\ recvList' = Rest(recvList)
        /\ irqOff' = irqOff /\ irqOff = NoThread
        /\ ReturnAndResume(t, recvList, "recvReady")
    BY DEF Link
  <1>2. /\ pc'[t] = "idle"
        /\ \A u \in Threads : u # t =>
             pc'[u] = pc[u] \/ (pc[u] = "recvWait" /\ pc'[u] = "recvReady")
    BY <1>0, <1>1, ResumeReceiver DEF HoldPCs
  <1>3. WaitersClean' /\ NoWaiterInReset'
    BY <1>1, <1>2 DEF WakeInv, WaitersClean, NoWaiterInReset
  <1>4. SendersPromised'
    <2>1. \A u \in Threads : pc'[u] = "sendReady" <=> pc[u] = "sendReady"
      BY <1>1, <1>2
    <2> QED  BY <1>1, <2>1, SendersQuiet DEF WakeInv
  <1>5. CASE recvList = <<>>
    BY <1>1, <1>3, <1>4, <1>5 DEF WakeInv, ReceiversPromised, Rest
  <1>6. CASE recvList # <<>>
    <2> DEFINE h == recvList[1]
    <2>1. h \in Threads /\ h \in Elems(recvList) /\ Head(recvList) = h
      BY <1>0, <1>6, TailFacts DEF TypeOK
    <2> HIDE DEF h
    <2>2. pc[h] = "recvWait" /\ h # t /\ error[h] = "EOK"
      BY <1>0, <1>1, <2>1 DEF WaitListsExact, WakeInv, WaitersClean
    <2>3. pc'[h] = "recvReady" /\ \A u \in Threads : u # t /\ u # h => pc'[u] = pc[u]
      BY <1>0, <1>1, <1>6, <2>1, <2>2 DEF ReturnAndResume, TypeOK
    <2>4. Resumed("recvReady")' = Resumed("recvReady") \cup {h}
      BY <1>1, <1>2, <2>1, <2>2, <2>3 DEF Resumed
    <2>5. Cardinality(Resumed("recvReady")') = Cardinality(Resumed("recvReady")) + 1
      <3>1. h \notin Resumed("recvReady")
        BY <2>2 DEF Resumed
      <3> QED  BY <2>4, <3>1, ResumedCount, FS_AddElement
    <2>6. entry <= Cardinality(Resumed("recvReady"))
      BY <1>6 DEF WakeInv, ReceiversPromised
    <2>7. entry \in Nat
      BY <1>0 DEF TypeOK
    <2>8. entry' <= Cardinality(Resumed("recvReady")')
      BY <1>1, <2>5, <2>6, <2>7, ResumedCount
    <2> QED  BY <1>3, <1>4, <2>8 DEF WakeInv, ReceiversPromised
  <1> QED  BY <1>5, <1>6

LEMMA GiveBackWakes ==
  ASSUME StructInv, WakeInv, NEW t \in Threads, GiveBack(t)
  PROVE  WakeInv'
  <1>0. TypeOK /\ WaitListsExact /\ HeldBlocks
    BY DEF StructInv
  <1>1. /\ pc[t] = "giveBack" /\ entry' = entry /\ freed' = <<msg[t]>> \o freed
        /\ error' = error /\ recvList' = recvList /\ sendList' = Rest(sendList)
        /\ irqOff' = irqOff /\ irqOff = NoThread
        /\ ReturnAndResume(t, sendList, "sendReady")
    BY DEF GiveBack
  <1>2. /\ pc'[t] = "idle"
        /\ \A u \in Threads : u # t =>
             pc'[u] = pc[u] \/ (pc[u] = "sendWait" /\ pc'[u] = "sendReady")
    BY <1>0, <1>1, ResumeSender DEF HoldPCs
  <1>3. WaitersClean' /\ NoWaiterInReset'
    BY <1>1, <1>2 DEF WakeInv, WaitersClean, NoWaiterInReset
  <1>4. ReceiversPromised'
    <2>1. \A u \in Threads : pc'[u] = "recvReady" <=> pc[u] = "recvReady"
      BY <1>1, <1>2
    <2> QED  BY <1>1, <2>1, ReceiversQuiet DEF WakeInv
  <1>5. CASE sendList = <<>>
    BY <1>1, <1>3, <1>4, <1>5 DEF WakeInv, SendersPromised, Rest
  <1>6. CASE sendList # <<>>
    <2> DEFINE h == sendList[1]
    <2>1. h \in Threads /\ h \in Elems(sendList) /\ Head(sendList) = h
      BY <1>0, <1>6, TailFacts DEF TypeOK
    <2> HIDE DEF h
    <2>2. pc[h] = "sendWait" /\ h # t /\ error[h] = "EOK"
      BY <1>0, <1>1, <2>1 DEF WaitListsExact, WakeInv, WaitersClean
    <2>3. pc'[h] = "sendReady" /\ \A u \in Threads : u # t /\ u # h => pc'[u] = pc[u]
      BY <1>0, <1>1, <1>6, <2>1, <2>2 DEF ReturnAndResume, TypeOK
    <2>4. Resumed("sendReady")' = Resumed("sendReady") \cup {h}
      BY <1>1, <1>2, <2>1, <2>2, <2>3 DEF Resumed
    <2>5. Cardinality(Resumed("sendReady")') = Cardinality(Resumed("sendReady")) + 1
      <3>1. h \notin Resumed("sendReady")
        BY <2>2 DEF Resumed
      <3> QED  BY <2>4, <3>1, ResumedCount, FS_AddElement
    <2>6. Len(freed) <= Cardinality(Resumed("sendReady"))
      BY <1>6 DEF WakeInv, SendersPromised
    <2>7. Len(freed) \in Nat /\ Len(freed') = Len(freed) + 1
      <3>1. msg[t] \in Slots /\ freed \in Seq(Slots)
        BY <1>0, <1>1 DEF HeldBlocks, HoldPCs, TypeOK
      <3> QED  BY <1>1, <3>1, PushFacts
    <2>8. Len(freed') <= Cardinality(Resumed("sendReady")')
      BY <2>5, <2>6, <2>7, ResumedCount
    <2> QED  BY <1>3, <1>4, <2>8 DEF WakeInv, SendersPromised
  <1> QED  BY <1>5, <1>6

\* The tick takes a waiter off its list; its error keeps it out of the promise.
LEMMA TimeoutWakes ==
  ASSUME StructInv, WakeInv, NEW t \in Threads, Timeout(t)
  PROVE  WakeInv'
  <1>0. TypeOK /\ WaitListsExact
    BY DEF StructInv
  <1>1. /\ pc[t] \in {"recvWait", "sendWait"} /\ pc'[t] \in {"recvReady", "sendReady"}
        /\ error'[t] = "ETIMEOUT"
        /\ \A u \in Threads : u # t => pc'[u] = pc[u] /\ error'[u] = error[u]
        /\ entry' = entry /\ freed' = freed /\ irqOff' = irqOff /\ irqOff = NoThread
    BY <1>0 DEF Timeout, Ready, TypeOK, mqVars, histVars
  <1>2. (recvList' # <<>> => recvList # <<>>) /\ (sendList' # <<>> => sendList # <<>>)
    <2>1. CASE pc[t] = "recvWait"
      <3>1. sendList' = sendList /\ t \in Elems(recvList)
        BY <1>0, <2>1 DEF Timeout, WaitListsExact
      <3>2. recvList # <<>>
        BY <3>1 DEF Elems
      <3> QED  BY <3>1, <3>2
    <2>2. CASE pc[t] = "sendWait"
      <3>1. recvList' = recvList /\ t \in Elems(sendList)
        BY <1>0, <2>2 DEF Timeout, WaitListsExact
      <3>2. sendList # <<>>
        BY <3>1 DEF Elems
      <3> QED  BY <3>1, <3>2
    <2> QED  BY <1>1, <2>1, <2>2
  <1>3. WaitersClean' /\ NoWaiterInReset'
    BY <1>1 DEF WakeInv, WaitersClean, NoWaiterInReset
  <1>4. ReceiversPromised'
    BY <1>1, <1>2, ReceiversQuiet DEF WakeInv
  <1>5. SendersPromised'
    BY <1>1, <1>2, SendersQuiet DEF WakeInv
  <1> QED  BY <1>3, <1>4, <1>5 DEF WakeInv

\* A call that returns, or copies a word, outside any promise.
LEMMA AsideWakes ==
  ASSUME WakeInv, NEW t \in Threads, pc[t] \notin {"recvWait", "sendWait"},
         pc'[t] \notin {"recvWait", "sendWait", "recvReady", "sendReady"},
         pc[t] \in {"recvReady", "sendReady"} => error[t] # "EOK",
         \A u \in Threads : u # t => pc'[u] = pc[u] /\ error'[u] = error[u],
         UNCHANGED <<entry, freed, recvList, sendList, irqOff>>
  PROVE  WakeInv'
  <1>1. WaitersClean' /\ NoWaiterInReset'
    BY DEF WakeInv, WaitersClean, NoWaiterInReset
  <1>2. ReceiversPromised'
    BY ReceiversQuiet DEF WakeInv
  <1>3. SendersPromised'
    BY SendersQuiet DEF WakeInv
  <1> QED  BY <1>1, <1>2, <1>3 DEF WakeInv

LEMMA RecvRegionWakes ==
  ASSUME StructInv, WakeInv, NEW t \in Threads, NEW tm, irqOff = NoThread,
         pc[t] \in {"idle", "recvReady"}, RecvRegion(t, tm)
  PROVE  WakeInv'
  <1>0. TypeOK
    BY DEF StructInv
  <1>1. CASE RecvEmpty(t, tm) \/ RecvSuspend(t, tm)
    <2>1. /\ entry' = entry /\ entry = 0 /\ freed' = freed /\ sendList' = sendList
          /\ irqOff' = irqOff
          /\ \/ pc'[t] = "idle" /\ recvList' = recvList
             \/ pc'[t] = "recvWait" /\ error'[t] = "EOK"
          /\ \A u \in Threads : u # t => pc'[u] = pc[u] /\ error'[u] = error[u]
      BY <1>0, <1>1 DEF RecvEmpty, RecvSuspend, Suspend, Return, TypeOK, mqVars,
                        listVars, histVars
    <2>2. WaitersClean' /\ NoWaiterInReset'
      BY <2>1 DEF WakeInv, WaitersClean, NoWaiterInReset
    <2>3. ReceiversPromised'
      BY <2>1, NothingQueued
    <2>4. SendersPromised'
      BY <2>1, SendersQuiet DEF WakeInv
    <2> QED  BY <2>2, <2>3, <2>4 DEF WakeInv
  <1>2. CASE RecvPop(t)
    BY <1>2, RecvPopWakes
  <1> QED  BY <1>1, <1>2 DEF RecvRegion

LEMMA SendRegionWakes ==
  ASSUME StructInv, WakeInv, NEW t \in Threads, NEW tm, NEW urg, irqOff = NoThread,
         pc[t] \in {"idle", "sendReady"},
         SendFull(t, tm) \/ SendSuspend(t, tm) \/ SendTake(t, urg)
  PROVE  WakeInv'
  <1>0. TypeOK
    BY DEF StructInv
  <1>1. CASE SendFull(t, tm) \/ SendSuspend(t, tm)
    <2>1. /\ entry' = entry /\ freed' = freed /\ free = RT_NULL
          /\ recvList' = recvList /\ irqOff' = irqOff
          /\ \/ pc'[t] = "idle" /\ sendList' = sendList
             \/ pc'[t] = "sendWait" /\ error'[t] = "EOK"
          /\ \A u \in Threads : u # t => pc'[u] = pc[u] /\ error'[u] = error[u]
      BY <1>0, <1>1 DEF SendFull, SendSuspend, Suspend, Return, TypeOK, mqVars,
                        listVars, histVars
    <2>2. WaitersClean' /\ NoWaiterInReset'
      BY <2>1 DEF WakeInv, WaitersClean, NoWaiterInReset
    <2>3. SendersPromised'
      BY <2>1, FreeNullEmpty, NothingFree
    <2>4. ReceiversPromised'
      BY <2>1, ReceiversQuiet DEF WakeInv
    <2> QED  BY <2>2, <2>3, <2>4 DEF WakeInv
  <1>2. CASE SendTake(t, urg)
    BY <1>2, SendTakeWakes
  <1> QED  BY <1>1, <1>2

\* RT_IPC_CMD_RESET: nobody waits from its first step to its last.
LEMMA ResetWakes ==
  ASSUME StructInv, WakeInv, NEW t \in Threads,
         ResetWake(t) \/ ResetMove(t) \/ ResetDone(t)
  PROVE  WakeInv'
  <1>0. TypeOK /\ ResetExclusive /\ WaitListsExact /\ WaitersClean /\ NoWaiterInReset
    BY DEF StructInv, WakeInv
  <1>1. recvList' = <<>> /\ sendList' = <<>>
    <2>1. CASE ResetWake(t)
      BY <2>1 DEF ResetWake
    <2>2. CASE ResetMove(t) \/ ResetDone(t)
      <3>1. irqOff = t /\ irqOff # NoThread
        BY <1>0, <2>2, NoThreadAssumption DEF ResetMove, ResetDone, ResetExclusive, NoThread
      <3> QED  BY <1>0, <2>2, <3>1 DEF ResetMove, ResetDone, listVars, NoWaiterInReset
    <2> QED  BY <2>1, <2>2
  <1>2. WaitersClean'
    <2>1. StructInv'
      BY ResetWakeStruct, ResetMoveStruct, ResetDoneStruct
    <2>2. WaitListsExact' /\ Elems(<<>>) = {}
      BY <2>1 DEF StructInv, Elems
    <2> QED  BY <1>1, <2>2 DEF WaitListsExact, WaitersClean
  <1> QED  BY <1>1, <1>2 DEF WakeInv, NoWaiterInReset, ReceiversPromised, SendersPromised

\* Every step keeps the promises.
LEMMA NextWakes == StructInv /\ WakeInv /\ [Next]_vars => WakeInv'
  <1> SUFFICES ASSUME StructInv, WakeInv, [Next]_vars PROVE WakeInv'
    OBVIOUS
  <1>0. TypeOK
    BY DEF StructInv
  <1>1. CASE UNCHANGED vars
    <2>1. UNCHANGED <<pc, error, entry, freed, recvList, sendList, irqOff>>
      BY <1>1 DEF vars, mqVars, listVars, callVars, histVars
    <2>2. ReceiversPromised'
      BY <2>1, ReceiversQuiet DEF WakeInv
    <2>3. SendersPromised'
      BY <2>1, SendersQuiet DEF WakeInv
    <2> QED  BY <2>1, <2>2, <2>3 DEF WakeInv, WaitersClean, NoWaiterInReset
  <1>2. ASSUME NEW t \in Threads, Call(t) \/ Proceed(t) \/ Timeout(t)
        PROVE  WakeInv'
    <2>1. CASE RecvCall(t) \/ RecvRetry(t)
      BY <2>1, RecvRegionWakes DEF RecvCall, RecvRetry
    <2>2. CASE SendCall(t) \/ UrgentCall(t) \/ SendRetry(t)
      <3>1. /\ irqOff = NoThread /\ pc[t] \in {"idle", "sendReady"}
            /\ \E tm, urg : SendFull(t, tm) \/ SendSuspend(t, tm) \/ SendTake(t, urg)
        BY <2>2 DEF SendCall, UrgentCall, SendRetry
      <3> QED  BY <3>1, SendRegionWakes
    <2>3. CASE ResetWake(t) \/ ResetMove(t) \/ ResetDone(t)
      BY <2>3, ResetWakes
    <2>4. CASE RecvFail(t) \/ SendFail(t)
      <3>1. /\ pc[t] \in {"recvReady", "sendReady"} /\ error[t] # "EOK" /\ pc'[t] = "idle"
            /\ \A u \in Threads : u # t => pc'[u] = pc[u] /\ error'[u] = error[u]
            /\ UNCHANGED <<entry, freed, recvList, sendList, irqOff>>
        BY <1>0, <2>4 DEF RecvFail, SendFail, Return, TypeOK, mqVars, listVars, histVars
      <3> QED  BY <3>1, AsideWakes
    <2>5. CASE CopyIn(t) \/ CopyOut(t)
      <3>1. /\ pc[t] \in HoldPCs /\ pc'[t] \in HoldPCs
            /\ \A u \in Threads : u # t => pc'[u] = pc[u] /\ error'[u] = error[u]
            /\ UNCHANGED <<entry, freed, recvList, sendList, irqOff>>
        BY <1>0, <2>5 DEF CopyIn, CopyOut, TypeOK, mqVars, listVars, histVars, HoldPCs
      <3> QED  BY <3>1, AsideWakes DEF HoldPCs
    <2>6. CASE GiveBack(t)
      BY <2>6, GiveBackWakes
    <2>7. CASE Link(t)
      BY <2>7, LinkWakes
    <2>8. CASE Timeout(t)
      BY <2>8, TimeoutWakes
    <2> QED
      BY <1>2, <2>1, <2>2, <2>3, <2>4, <2>5, <2>6, <2>7, <2>8 DEF Call, Proceed
  <1> QED  BY <1>1, <1>2 DEF Next

\* Nobody sleeps in rt_mq_recv or rt_mq_send_wait beside a message or a block
\* that no resumed caller is on its way to take, whatever timeouts, resets and
\* polling callers come between the resume and the caller's next step.
THEOREM MqNoLostWakeup == Spec => []NoLostWakeup
  <1>1. Init => StructInv /\ WakeInv
    <2>1. Init => WakeInv
      BY DEF Init, WakeInv, WaitersClean, NoWaiterInReset, ReceiversPromised,
             SendersPromised
    <2> QED  BY <2>1, InitStruct
  <1>2. (StructInv /\ WakeInv) /\ [Next]_vars => (StructInv /\ WakeInv)'
    BY NextStruct, NextWakes
  <1>3. StructInv /\ WakeInv => NoLostWakeup
    BY DEF WakeInv, ReceiversPromised, SendersPromised, NoLostWakeup
  <1> QED  BY <1>1, <1>2, <1>3, PTL DEF Spec

----------------------------------------------------------------------------
(* The queue implements BoundedDeque                                        *)

\* The state of the abstract deque, as the instance in RtMessageQueue maps it.
Items ==
  IF irqOff = NoThread THEN [i \in 1 .. Len(queued) |-> data[queued[i]]] ELSE <<>>

Hold == [t \in Threads |-> HoldOf(t)]

Nil == [dir |-> "none", m |-> <<>>]

LEMMA HoldShape ==
  ASSUME NEW t \in Threads
  PROVE  /\ Hold[t] = HoldOf(t)
         /\ HoldOf(t) = Nil <=> pc[t] \notin HoldPCs
         /\ pc[t] \in HoldPCs \ Inbound => HoldOf(t) = [dir |-> "out", m |-> InHand(t)]
         /\ pc[t] \in Inbound /\ urgent[t] => HoldOf(t) = [dir |-> "front", m |-> InHand(t)]
         /\ pc[t] \in Inbound /\ ~urgent[t] => HoldOf(t) = [dir |-> "back", m |-> InHand(t)]
  <1>1. Hold[t] = HoldOf(t)
    BY DEF Hold
  <1>2. pc[t] \notin HoldPCs => HoldOf(t) = Nil
    BY DEF HoldOf, Nil
  <1>3. pc[t] \in HoldPCs \ Inbound => HoldOf(t) = [dir |-> "out", m |-> InHand(t)]
    BY DEF HoldOf
  <1>4. pc[t] \in Inbound /\ urgent[t] => HoldOf(t) = [dir |-> "front", m |-> InHand(t)]
    BY DEF HoldOf, Inbound, HoldPCs
  <1>5. pc[t] \in Inbound /\ ~urgent[t] => HoldOf(t) = [dir |-> "back", m |-> InHand(t)]
    BY DEF HoldOf, Inbound, HoldPCs
  <1>6. pc[t] \in HoldPCs => HoldOf(t).dir # "none"
    BY <1>3, <1>4, <1>5
  <1>7. Nil.dir = "none"
    BY DEF Nil
  <1> QED  BY <1>1, <1>2, <1>3, <1>4, <1>5, <1>6, <1>7

\* A caller that a step leaves alone, or that holds no block before and after it.
LEMMA HoldFrame ==
  ASSUME NEW u \in Threads,
         \/ pc[u] \notin HoldPCs /\ pc'[u] \notin HoldPCs
         \/ /\ pc'[u] = pc[u] /\ urgent'[u] = urgent[u] /\ buffer'[u] = buffer[u]
            /\ msg'[u] = msg[u] /\ data'[msg[u]] = data[msg[u]]
  PROVE  HoldOf(u)' = HoldOf(u)
  BY DEF HoldOf, InHand

LEMMA HoldSame ==
  ASSUME \A u \in Threads : HoldOf(u)' = HoldOf(u)
  PROVE  Hold' = Hold
  BY DEF Hold

LEMMA HoldChanged ==
  ASSUME NEW t \in Threads, \A u \in Threads : u # t => HoldOf(u)' = HoldOf(u)
  PROVE  Hold' = [Hold EXCEPT ![t] = HoldOf(t)']
  BY DEF Hold

LEMMA ItemsSame ==
  ASSUME queued' = queued, irqOff' = irqOff,
         \A s \in Elems(queued) : data'[s] = data[s]
  PROVE  Items' = Items
  BY DEF Items, Elems

\* A step that moves neither a block nor a word.
LEMMA RefineQuiet ==
  ASSUME NEW t \in Threads, UNCHANGED <<queued, irqOff, data>>,
         pc[t] \notin HoldPCs, pc'[t] \notin HoldPCs,
         \A u \in Threads : u # t =>
            /\ pc'[u] = pc[u] /\ urgent'[u] = urgent[u]
            /\ buffer'[u] = buffer[u] /\ msg'[u] = msg[u]
  PROVE  UNCHANGED Deque!vars
  <1>1. Items' = Items
    BY ItemsSame
  <1>2. \A u \in Threads : HoldOf(u)' = HoldOf(u)
    BY HoldFrame
  <1>3. Hold' = Hold
    BY <1>2, HoldSame
  <1> QED  BY <1>1, <1>3 DEF Deque!vars, Items, Hold

\* rt_mq_recv takes the first message: Take.
LEMMA RefineTake ==
  ASSUME StructInv, NEW t \in Threads, irqOff = NoThread,
         pc[t] \in {"idle", "recvReady"}, RecvPop(t)
  PROVE  Deque!Take(t)
  <1>0. /\ TypeOK /\ ListsWellFormed /\ queued \in Seq(Slots) /\ entry = Len(queued)
        /\ Chain(next, head, queued) /\ entry # 0
    BY DEF StructInv, TypeOK, ListsWellFormed, RecvPop
  <1>1. queued # <<>> /\ head = queued[1]
    BY <1>0 DEF Chain
  <1>2. /\ pc'[t] = "copyOut1" /\ msg'[t] = head
        /\ UNCHANGED <<data, irqOff>> /\ queued' = Tail(queued)
        /\ \A u \in Threads : u # t =>
             /\ pc'[u] = pc[u] /\ urgent'[u] = urgent[u]
             /\ buffer'[u] = buffer[u] /\ msg'[u] = msg[u]
    BY <1>0 DEF RecvPop, TypeOK
  <1>3. HoldOf(t)' = [dir |-> "out", m |-> data[queued[1]]]
    BY <1>1, <1>2 DEF HoldOf, InHand, HoldPCs, Inbound
  <1>4. Hold' = [Hold EXCEPT ![t] = [dir |-> "out", m |-> data[queued[1]]]]
    <2>1. \A u \in Threads : u # t => HoldOf(u)' = HoldOf(u)
      BY <1>2, HoldFrame
    <2> QED  BY <2>1, <1>3, HoldChanged
  <1>5. Hold[t] = Nil
    BY HoldShape DEF HoldPCs
  <1>6. /\ Items = [i \in 1 .. Len(queued) |-> data[queued[i]]]
        /\ Items' = [i \in 1 .. Len(queued') |-> data[queued'[i]]]
    BY <1>2 DEF Items
  <1>7. Items # <<>> /\ Head(Items) = data[queued[1]] /\ Items' = Tail(Items)
    <2>1. /\ Len(queued) \in Nat \ {0} /\ Len(queued') = Len(queued) - 1
          /\ \A i \in 1 .. Len(queued) - 1 : queued'[i] = queued[i + 1]
      BY <1>0, <1>1, <1>2, TailFacts
    <2>2. PICK n \in Nat : n = Len(queued) /\ n # 0
      BY <2>1
    <2>3. /\ Items = [i \in 1 .. n |-> data[queued[i]]]
          /\ Items' = [i \in 1 .. n - 1 |-> data[queued[i + 1]]]
      BY <1>6, <2>1, <2>2
    <2> QED  BY <2>2, <2>3
  <1> QED  BY <1>4, <1>5, <1>7 DEF Deque!Take, Deque!Nothing, Items, Hold, Nil

\* rt_mq_recv puts its block back: Done.
LEMMA RefineDone ==
  ASSUME StructInv, NEW t \in Threads, GiveBack(t)
  PROVE  Deque!Done(t)
  <1>0. TypeOK /\ WaitListsExact
    BY DEF StructInv
  <1>1. /\ pc[t] = "giveBack" /\ pc[t] \in HoldPCs \ Inbound
        /\ UNCHANGED <<data, irqOff, queued>>
        /\ ReturnAndResume(t, sendList, "sendReady") /\ sendList' = Rest(sendList)
        /\ UNCHANGED recvList
    BY DEF GiveBack, HoldPCs, Inbound
  <1>2. /\ pc'[t] = "idle"
        /\ \A u \in Threads : u # t =>
             /\ pc'[u] = pc[u] \/ (pc[u] = "sendWait" /\ pc'[u] = "sendReady")
             /\ msg'[u] = msg[u] /\ urgent'[u] = urgent[u] /\ buffer'[u] = buffer[u]
    BY <1>0, <1>1, ResumeSender
  <1>3. Hold' = [Hold EXCEPT ![t] = Nil]
    <2>1. \A u \in Threads : u # t => HoldOf(u)' = HoldOf(u)
      BY <1>1, <1>2, HoldFrame DEF HoldPCs
    <2>2. HoldOf(t)' = Nil
      BY <1>2 DEF HoldOf, HoldPCs, Nil
    <2> QED  BY <2>1, <2>2, HoldChanged
  <1>4. Hold[t].dir = "out"
    BY <1>1, HoldShape
  <1>5. Items' = Items
    BY <1>1, ItemsSame
  <1> QED  BY <1>3, <1>4, <1>5 DEF Deque!Done, Deque!Nothing, Items, Hold, Nil

\* The copy of a word moves no message: it is where it was, or just arrived whole.
LEMMA RefineCopyOut ==
  ASSUME MqInv, NEW t \in Threads, CopyOut(t)
  PROVE  UNCHANGED Deque!vars
  <1>0. TypeOK /\ HeldBlocks /\ CopySound(t)
    BY DEF MqInv, StructInv, CopiesSound
  <1>1. /\ UNCHANGED <<data, irqOff, queued, urgent, msg>>
        /\ pc[t] = "copyOut1" \/ pc[t] = "copyOut2"
        /\ pc[t] = "copyOut1" => pc'[t] = "copyOut2"
        /\ pc[t] = "copyOut2" =>
             pc'[t] = "giveBack" /\ buffer'[t] = <<buffer[t][1], data[msg[t]][2]>>
        /\ \A u \in Threads : u # t => pc'[u] = pc[u] /\ buffer'[u] = buffer[u]
    BY <1>0 DEF CopyOut, TypeOK, mqVars, histVars
  <1>2. InHand(t)' = InHand(t)
    <2>1. CASE pc[t] = "copyOut1"
      BY <1>1, <2>1 DEF InHand
    <2>2. CASE pc[t] = "copyOut2"
      <3>1. buffer[t][1] = data[msg[t]][1] /\ IsWhole(data[msg[t]])
        BY <1>0, <2>2 DEF CopySound
      <3>2. data[msg[t]] = <<data[msg[t]][1], data[msg[t]][2]>>
        BY <3>1 DEF IsWhole, Whole
      <3> QED  BY <1>1, <2>2, <3>1, <3>2 DEF InHand
    <2> QED  BY <1>1, <2>1, <2>2
  <1>3. HoldOf(t)' = HoldOf(t)
    <2>1. /\ pc[t] \in HoldPCs /\ pc[t] \notin Inbound
          /\ pc'[t] \in HoldPCs /\ pc'[t] \notin Inbound
      BY <1>1 DEF HoldPCs, Inbound
    <2> QED  BY <2>1, <1>2 DEF HoldOf
  <1>4. \A u \in Threads : HoldOf(u)' = HoldOf(u)
    BY <1>1, <1>3, HoldFrame
  <1>5. Hold' = Hold /\ Items' = Items
    BY <1>1, <1>4, HoldSame, ItemsSame
  <1> QED  BY <1>5 DEF Deque!vars, Items, Hold

LEMMA RefineCopyIn ==
  ASSUME MqInv, NEW t \in Threads, CopyIn(t)
  PROVE  UNCHANGED Deque!vars
  <1>0. TypeOK /\ HeldBlocks /\ CopySound(t) /\ BlocksPartitioned
    BY DEF MqInv, StructInv, CopiesSound
  <1>1. /\ UNCHANGED <<irqOff, queued, urgent, msg, buffer>>
        /\ pc[t] = "copyIn1" \/ pc[t] = "copyIn2"
        /\ pc[t] = "copyIn1" => pc'[t] = "copyIn2"
        /\ \A u \in Threads : u # t => pc'[u] = pc[u]
    BY <1>0 DEF CopyIn, TypeOK, listVars, histVars
  <1>2. pc[t] \in Inbound /\ pc'[t] \in Inbound /\ pc[t] \in HoldPCs /\ pc'[t] \in HoldPCs
    BY <1>0, <1>1 DEF CopyIn, TypeOK, HoldPCs, Inbound
  <1>3. /\ msg[t] \in Slots /\ t \in Holders
        /\ \A s \in Slots : s # msg[t] => data'[s] = data[s]
    BY <1>0, <1>2 DEF CopyIn, TypeOK, HeldBlocks, Holders
  <1>4. InHand(t)' = InHand(t)
    <2>1. CASE pc[t] = "copyIn1"
      BY <1>1, <2>1 DEF InHand
    <2>2. CASE pc[t] = "copyIn2"
      <3>1. data[msg[t]][1] = buffer[t][1] /\ IsWhole(buffer[t])
        BY <1>0, <2>2 DEF CopySound
      <3>2. buffer[t] = <<buffer[t][1], buffer[t][2]>>
        BY <3>1 DEF IsWhole, Whole
      <3>3. pc'[t] = "link" /\ data'[msg[t]] = <<data[msg[t]][1], buffer[t][2]>>
        BY <1>0, <1>3, <2>2 DEF CopyIn, TypeOK
      <3> QED  BY <1>1, <2>2, <3>1, <3>2, <3>3 DEF InHand
    <2> QED  BY <1>1, <2>1, <2>2
  <1>5. HoldOf(t)' = HoldOf(t)
    BY <1>1, <1>2, <1>4 DEF HoldOf
  <1>6. ASSUME NEW u \in Threads, u # t PROVE HoldOf(u)' = HoldOf(u)
    <2>1. CASE pc[u] \in HoldPCs
      <3>1. msg[u] \in Slots /\ u \in Holders
        BY <1>0, <2>1 DEF HeldBlocks, Holders
      <3>2. msg[u] # msg[t]
        BY <1>0, <1>3, <1>6, <3>1 DEF BlocksPartitioned
      <3> QED  BY <1>1, <1>3, <1>6, <3>1, <3>2, HoldFrame
    <2>2. CASE pc[u] \notin HoldPCs
      BY <1>1, <1>6, <2>2, HoldFrame
    <2> QED  BY <2>1, <2>2
  <1>7. Hold' = Hold
    BY <1>5, <1>6, HoldSame
  <1>8. Items' = Items
    <2>1. \A s \in Elems(queued) : s \in Slots /\ s # msg[t]
      BY <1>0, <1>3 DEF BlocksPartitioned
    <2> QED  BY <1>1, <1>3, <2>1, ItemsSame
  <1> QED  BY <1>7, <1>8 DEF Deque!vars, Items, Hold

\* The block is queued: Publish, at the back or at the front.
LEMMA RefinePublish ==
  ASSUME StructInv, NEW t \in Threads, Link(t)
  PROVE  Deque!Publish(t)
  <1>0. TypeOK /\ WaitListsExact /\ queued \in Seq(Slots) /\ Len(queued) \in Nat
    BY DEF StructInv, TypeOK
  <1>1. /\ pc[t] = "link" /\ pc[t] \in HoldPCs /\ pc[t] \in Inbound
        /\ UNCHANGED <<data, irqOff>> /\ irqOff = NoThread
        /\ ReturnAndResume(t, recvList, "recvReady") /\ recvList' = Rest(recvList)
        /\ UNCHANGED sendList
    BY DEF Link, HoldPCs, Inbound
  <1>2. /\ pc'[t] = "idle"
        /\ \A u \in Threads : u # t =>
             /\ pc'[u] = pc[u] \/ (pc[u] = "recvWait" /\ pc'[u] = "recvReady")
             /\ msg'[u] = msg[u] /\ urgent'[u] = urgent[u] /\ buffer'[u] = buffer[u]
    BY <1>0, <1>1, ResumeReceiver
  <1>3. Hold' = [Hold EXCEPT ![t] = Nil]
    <2>1. \A u \in Threads : u # t => HoldOf(u)' = HoldOf(u)
      BY <1>1, <1>2, HoldFrame DEF HoldPCs
    <2>2. HoldOf(t)' = Nil
      BY <1>2 DEF HoldOf, HoldPCs, Nil
    <2> QED  BY <2>1, <2>2, HoldChanged
  <1>4. InHand(t) = data[msg[t]]
    BY <1>1 DEF InHand
  <1>5. msg[t] \in Slots
    BY LinkLists
  <1>6. PICK n \in Nat : n = Len(queued)
    BY <1>0
  <1>7. Items = [i \in 1 .. n |-> data[queued[i]]]
    BY <1>1, <1>6 DEF Items
  <1>8. CASE urgent[t]
    <2>1. Hold[t].dir = "front" /\ Hold[t].m = data[msg[t]]
      BY <1>1, <1>4, <1>8, HoldShape
    <2>2. queued' = <<msg[t]>> \o queued
      BY <1>8 DEF Link, LinkHead
    <2>3. /\ Len(queued') = n + 1 /\ queued'[1] = msg[t]
          /\ \A i \in 1 .. n : queued'[i + 1] = queued[i]
      BY <1>0, <1>5, <1>6, <2>2, PushFacts
    <2>4. Items' = [i \in 1 .. n + 1 |-> data[queued'[i]]]
      BY <1>1, <2>3 DEF Items
    <2>5. Items' = <<data[msg[t]]>> \o Items
      <3>1. Len(Items') = n + 1 /\ Len(Items) = n
        BY <1>7, <2>4
      <3>2. Items'[1] = data[msg[t]] /\ \A i \in 1 .. n : Items'[i + 1] = Items[i]
        BY <1>7, <2>3, <2>4
      <3>3. \A i \in 2 .. n + 1 : Items'[i] = Items[i - 1]
        <4> TAKE i \in 2 .. n + 1
        <4>1. i - 1 \in 1 .. n /\ (i - 1) + 1 = i
          OBVIOUS
        <4> QED  BY <3>2, <4>1
      <3> QED  BY <1>7, <2>4, <3>1, <3>2, <3>3
    <2> QED  BY <1>3, <2>1, <2>5 DEF Deque!Publish, Deque!Nothing, Items, Hold, Nil
  <1>9. CASE ~urgent[t]
    <2>1. Hold[t].dir = "back" /\ Hold[t].m = data[msg[t]]
      BY <1>1, <1>4, <1>9, HoldShape
    <2>2. queued' = Append(queued, msg[t])
      BY <1>9 DEF Link, LinkTail
    <2>3. /\ Len(queued') = n + 1 /\ queued'[n + 1] = msg[t]
          /\ \A i \in 1 .. n : queued'[i] = queued[i]
      BY <1>0, <1>5, <1>6, <2>2, AppendFacts
    <2>4. Items' = [i \in 1 .. n + 1 |-> data[queued'[i]]]
      BY <1>1, <2>3 DEF Items
    <2>5. Items' = Append(Items, data[msg[t]])
      BY <1>7, <2>3, <2>4
    <2> QED  BY <1>3, <2>1, <2>5 DEF Deque!Publish, Deque!Nothing, Items, Hold, Nil
  <1> QED  BY <1>8, <1>9

\* RT_IPC_CMD_RESET drops everything at its first step, and the rest of it is hidden.
LEMMA RefineFlush ==
  ASSUME StructInv, NEW t \in Threads, ResetWake(t)
  PROVE  Deque!Flush
  <1>0. TypeOK /\ WaitListsExact
    BY DEF StructInv
  <1>1. /\ irqOff' # NoThread /\ UNCHANGED <<data, urgent, msg, buffer>>
        /\ pc[t] = "idle"
    BY NoThreadAssumption DEF ResetWake, mqVars, NoThread
  <1>2. \A u \in Threads : HoldOf(u)' = HoldOf(u)
    <2>1. ASSUME NEW u \in Threads
          PROVE  pc'[u] = pc[u] \/ (pc[u] \notin HoldPCs /\ pc'[u] \notin HoldPCs)
      <3>1. CASE u = t
        BY <1>0, <1>1, <3>1 DEF ResetWake, HoldPCs
      <3>2. CASE u # t /\ u \in Elems(recvList) \cup Elems(sendList)
        <4>1. pc[u] \in {"recvWait", "sendWait"}
          BY <1>0, <3>2 DEF WaitListsExact
        <4>2. pc'[u] = Ready(u)
          BY <3>2 DEF ResetWake
        <4> QED  BY <4>1, <4>2 DEF Ready, HoldPCs
      <3>3. CASE u # t /\ u \notin Elems(recvList) \cup Elems(sendList)
        BY <3>3 DEF ResetWake
      <3> QED  BY <3>1, <3>2, <3>3
    <2> QED  BY <1>1, <2>1, HoldFrame
  <1>3. Hold' = Hold
    BY <1>2, HoldSame
  <1>4. Items' = <<>>
    BY <1>1 DEF Items
  <1> QED  BY <1>3, <1>4 DEF Deque!Flush, Items, Hold

LEMMA RefineReset ==
  ASSUME StructInv, NEW t \in Threads, ResetMove(t) \/ ResetDone(t)
  PROVE  UNCHANGED Deque!vars
  <1>0. TypeOK /\ ListsWellFormed
    BY DEF StructInv
  <1>1. pc[t] = "reset" /\ irqOff = t /\ irqOff # NoThread
    BY NoThreadAssumption DEF StructInv, ResetExclusive, ResetMove, ResetDone, NoThread
  <1>2. Items = <<>>
    BY <1>1 DEF Items
  <1>3. CASE ResetMove(t)
    <2>1. UNCHANGED <<data, irqOff, pc, urgent, msg, buffer>>
      BY <1>3 DEF ResetMove, callVars
    <2>2. Items' = <<>>
      BY <1>1, <2>1 DEF Items
    <2>3. \A u \in Threads : HoldOf(u)' = HoldOf(u)
      BY <2>1, HoldFrame
    <2>4. Hold' = Hold
      BY <2>3, HoldSame
    <2> QED  BY <1>2, <2>2, <2>4 DEF Deque!vars, Items, Hold
  <1>4. CASE ResetDone(t)
    <2>1. /\ UNCHANGED <<data, urgent, msg, queued>> /\ pc'[t] = "idle"
          /\ \A u \in Threads : u # t => pc'[u] = pc[u] /\ buffer'[u] = buffer[u]
      BY <1>0, <1>4 DEF ResetDone, Return, TypeOK, histVars
    <2>2. queued = <<>>
      <3>1. queued \in Seq(Slots) /\ Chain(next, head, queued) /\ head = RT_NULL
        BY <1>0, <1>4 DEF TypeOK, ListsWellFormed, ResetDone
      <3>2. CASE queued # <<>>
        <4>1. queued[1] \in Slots /\ head = queued[1]
          BY <3>1, <3>2, TailFacts DEF Chain
        <4> QED  BY <3>1, <4>1, SlotsFacts
      <3> QED  BY <3>2
    <2>3. Items' = <<>>
      BY <2>1, <2>2 DEF Items
    <2>4. \A u \in Threads : HoldOf(u)' = HoldOf(u)
      BY <1>1, <2>1, HoldFrame DEF HoldPCs
    <2>5. Hold' = Hold
      BY <2>4, HoldSame
    <2> QED  BY <1>2, <2>3, <2>5 DEF Deque!vars, Items, Hold
  <1> QED  BY <1>3, <1>4

\* A list without repetition has as many elements as it is long.
LEMMA ElemsCount ==
  ASSUME NEW S, NEW seq \in Seq(S), Distinct(seq)
  PROVE  IsFiniteSet(Elems(seq)) /\ Cardinality(Elems(seq)) = Len(seq)
  <1>1. Len(seq) \in Nat
    OBVIOUS
  <1>2. IsFiniteSet(1 .. Len(seq)) /\ Cardinality(1 .. Len(seq)) = Len(seq)
    <2>1. PICK n \in Nat : n = Len(seq)
      BY <1>1
    <2>2. 1 \in Int /\ n \in Int
      OBVIOUS
    <2>3. /\ IsFiniteSet(1 .. n)
          /\ Cardinality(1 .. n) = IF 1 > n THEN 0 ELSE n - 1 + 1
      BY <2>2, FS_Interval, Zenon
    <2>4. Cardinality(1 .. n) = n
      BY <2>3
    <2> QED  BY <2>1, <2>3, <2>4
  <1> DEFINE f == [i \in 1 .. Len(seq) |-> seq[i]]
  <1>3. f \in Bijection(1 .. Len(seq), Elems(seq))
    <2>1. f \in [1 .. Len(seq) -> Elems(seq)]
      BY DEF Elems
    <2>2. \A i, j \in 1 .. Len(seq) : f[i] = f[j] => i = j
      BY DEF Distinct
    <2>3. \A x \in Elems(seq) : \E i \in 1 .. Len(seq) : f[i] = x
      BY DEF Elems
    <2> HIDE DEF f
    <2> QED  BY <2>1, <2>2, <2>3 DEF Bijection, Injection, Surjection, IsInjective
  <1>4. ExistsBijection(1 .. Len(seq), Elems(seq))
    BY <1>3 DEF ExistsBijection
  <1> QED  BY <1>2, <1>4, FS_Bijection

\* Callers that hold different blocks hold as many blocks as they are.
LEMMA HeldCount ==
  ASSUME BlocksPartitioned
  PROVE  LET B == {msg[t] : t \in Holders}
         IN  IsFiniteSet(B) /\ Cardinality(B) = Cardinality(Holders)
  <1>1. IsFiniteSet(Holders)
    BY CallersFinite DEF Holders
  <1> DEFINE B == {msg[t] : t \in Holders}
             f == [t \in Holders |-> msg[t]]
  <1>2. f \in Bijection(Holders, B)
    <2>1. f \in [Holders -> B]
      OBVIOUS
    <2>2. \A t, u \in Holders : f[t] = f[u] => t = u
      BY DEF BlocksPartitioned
    <2>3. \A x \in B : \E t \in Holders : f[t] = x
      OBVIOUS
    <2> HIDE DEF f, B
    <2> QED  BY <2>1, <2>2, <2>3 DEF Bijection, Injection, Surjection, IsInjective
  <1>3. ExistsBijection(Holders, B)
    BY <1>2 DEF ExistsBijection
  <1> QED  BY <1>1, <1>3, FS_Bijection

\* While a block is free, queued messages and messages on their way leave room.
LEMMA RoomLeft ==
  ASSUME StructInv, free # RT_NULL
  PROVE  /\ Len(queued) \in Nat /\ Cardinality(Holders) \in Nat
         /\ Len(queued) + Cardinality(Holders) < max_msgs
  <1>0. /\ BlocksPartitioned /\ queued \in Seq(Slots) /\ freed \in Seq(Slots)
        /\ Chain(next, free, freed)
    BY DEF StructInv, TypeOK, ListsWellFormed
  <1> DEFINE Q == Elems(queued)
             B == {msg[t] : t \in Holders}
  <1>1. free \in Elems(freed) /\ free \in Slots
    BY <1>0, TailFacts DEF Chain
  <1>2. free \notin Q /\ free \notin B /\ Q \cap B = {} /\ Q \cup B \subseteq Slots
    BY <1>0, <1>1 DEF BlocksPartitioned
  <1>3. IsFiniteSet(Q) /\ Cardinality(Q) = Len(queued) /\ Len(queued) \in Nat
    BY <1>0, ElemsCount DEF BlocksPartitioned
  <1>4. IsFiniteSet(B) /\ Cardinality(B) = Cardinality(Holders)
    BY <1>0, HeldCount
  <1>5. Cardinality(Holders) \in Nat
    BY CallersFinite DEF Holders
  <1> HIDE DEF Q, B
  <1>6. IsFiniteSet(Q \cup B) /\ Cardinality(Q \cup B) = Len(queued) + Cardinality(Holders)
    <2>1. /\ IsFiniteSet(Q \cup B)
          /\ Cardinality(Q \cup B) = Cardinality(Q) + Cardinality(B) - Cardinality(Q \cap B)
      BY <1>3, <1>4, FS_Union
    <2>2. Cardinality(Q \cap B) = 0
      BY <1>2, FS_EmptySet
    <2> QED  BY <1>3, <1>4, <1>5, <2>1, <2>2
  <1>7. IsFiniteSet(Slots) /\ Cardinality(Slots) = max_msgs
    <2>1. max_msgs \in Nat
      BY MaxMsgsNat
    <2> QED  BY <2>1, FS_Interval DEF Slots
  <1>8. /\ Cardinality(Q \cup B) <= Cardinality(Slots)
        /\ Cardinality(Slots) = Cardinality(Q \cup B) => Slots = Q \cup B
    BY <1>2, <1>7, FS_Subset
  <1>9. Slots # Q \cup B
    BY <1>1, <1>2
  <1> QED  BY <1>3, <1>5, <1>6, <1>7, <1>8, <1>9, MaxMsgsNat

\* The deque counts with the same operator.
LEMMA SameCount ==
  ASSUME NEW S
  PROVE  Deque!Cardinality(S) = Cardinality(S)
  BY DEF Deque!Cardinality, Cardinality

\* A sender takes a free block: Reserve, for the message in its buffer.
LEMMA RefineReserve ==
  ASSUME StructInv, NEW t \in Threads, NEW urg \in BOOLEAN, NEW m \in Msgs,
         irqOff = NoThread, pc[t] \in {"idle", "sendReady"}, SendTake(t, urg),
         buffer'[t] = Whole(m),
         \A u \in Threads : u # t => buffer'[u] = buffer[u]
  PROVE  Deque!Next
  <1> DEFINE side == IF urg THEN "front" ELSE "back"
  <1>0. TypeOK
    BY DEF StructInv
  <1>1. /\ pc'[t] = "copyIn1" /\ urgent'[t] = urg /\ UNCHANGED <<data, irqOff, queued>>
        /\ \A u \in Threads : u # t =>
             pc'[u] = pc[u] /\ urgent'[u] = urgent[u] /\ msg'[u] = msg[u]
    BY <1>0 DEF SendTake, TypeOK
  <1>2. HoldOf(t)' = [dir |-> side, m |-> Whole(m)]
    BY <1>1 DEF HoldOf, InHand, HoldPCs, Inbound
  <1>3. Hold' = [Hold EXCEPT ![t] = [dir |-> side, m |-> Whole(m)]]
    <2>1. \A u \in Threads : u # t => HoldOf(u)' = HoldOf(u)
      BY <1>1, HoldFrame
    <2> QED  BY <1>2, <2>1, HoldChanged
  <1>4. Hold[t] = Nil
    BY HoldShape DEF HoldPCs
  <1>5. Items' = Items
    BY <1>1, ItemsSame
  <1>6. Len(Items) + Cardinality(Holders) < max_msgs
    <2>1. Len(queued) \in Nat /\ Len(queued) + Cardinality(Holders) < max_msgs
      BY RoomLeft DEF SendTake
    <2>2. Len(Items) = Len(queued)
      BY <2>1 DEF Items
    <2> QED  BY <2>1, <2>2
  <1>7. Holders = {c \in Threads : Hold[c] # Nil}
    BY HoldShape DEF Holders
  <1>8. Deque!Reserve(t, Whole(m), side)
    <2>1. Len(Items) + Cardinality({c \in Threads : Hold[c] # Nil}) < max_msgs
      BY <1>6, <1>7
    <2> HIDE DEF side
    <2>2. Hold[t] = Deque!Nothing
      BY <1>4 DEF Deque!Nothing, Nil
    <2>3. Deque!Busy = {c \in Threads : Hold[c] # Nil}
      BY DEF Deque!Busy, Deque!Nothing, Hold, Nil
    <2>4. Len(Items) + Deque!Cardinality(Deque!Busy) < max_msgs
      BY <2>1, <2>3, SameCount
    <2> QED  BY <1>3, <1>5, <2>2, <2>4 DEF Deque!Reserve, Items, Hold
  <1>9. side \in {"back", "front"} /\ Whole(m) \in {Whole(x) : x \in Msgs}
    OBVIOUS
  <1> QED  BY <1>8, <1>9 DEF Deque!Next

\* Every step of the queue is a step of the deque, or leaves it as it is.
LEMMA DequeStep == MqInv /\ [Next]_vars => [Deque!Next]_(Deque!vars)
  <1> SUFFICES ASSUME MqInv, [Next]_vars PROVE Deque!Next \/ UNCHANGED Deque!vars
    OBVIOUS
  <1>0. StructInv /\ TypeOK /\ \A t \in Threads : CopySound(t)
    BY DEF MqInv, StructInv, CopiesSound
  <1>1. CASE UNCHANGED vars
    <2>1. UNCHANGED <<pc, urgent, msg, buffer, data, queued, irqOff>>
      BY <1>1 DEF vars, mqVars, callVars, histVars
    <2>2. \A u \in Threads : HoldOf(u)' = HoldOf(u)
      BY <2>1, HoldFrame
    <2>3. Hold' = Hold /\ Items' = Items
      BY <2>1, <2>2, HoldSame, ItemsSame
    <2> QED  BY <2>3 DEF Deque!vars, Items, Hold
  <1>2. ASSUME NEW t \in Threads, Call(t) \/ Proceed(t) \/ Timeout(t)
        PROVE  Deque!Next \/ UNCHANGED Deque!vars
    <2>1. CASE RecvCall(t) \/ RecvRetry(t)
      <3>1. PICK tm : /\ irqOff = NoThread /\ pc[t] \in {"idle", "recvReady"}
                      /\ RecvRegion(t, tm)
        BY <2>1 DEF RecvCall, RecvRetry
      <3>2. CASE RecvPop(t)
        BY <1>0, <3>1, <3>2, RefineTake DEF Deque!Next
      <3>3. CASE RecvEmpty(t, tm) \/ RecvSuspend(t, tm)
        <4>1. /\ UNCHANGED <<queued, irqOff, data>> /\ pc'[t] \in {"idle", "recvWait"}
              /\ \A u \in Threads : u # t =>
                   /\ pc'[u] = pc[u] /\ urgent'[u] = urgent[u]
                   /\ buffer'[u] = buffer[u] /\ msg'[u] = msg[u]
          BY <1>0, <3>3 DEF RecvEmpty, RecvSuspend, Suspend, Return, TypeOK, mqVars, histVars
        <4> QED  BY <3>1, <4>1, RefineQuiet DEF HoldPCs
      <3> QED  BY <3>1, <3>2, <3>3 DEF RecvRegion
    <2>2. CASE SendCall(t) \/ UrgentCall(t) \/ SendRetry(t)
      <3>1. PICK tm : /\ irqOff = NoThread /\ pc[t] \in {"idle", "sendReady"}
                      /\ \/ SendFull(t, tm)
                         \/ SendSuspend(t, tm) /\ \A u \in Threads : u # t => buffer'[u] = buffer[u]
                         \/ \E urg \in BOOLEAN, m \in Msgs :
                              /\ SendTake(t, urg) /\ buffer'[t] = Whole(m)
                              /\ \A u \in Threads : u # t => buffer'[u] = buffer[u]
        <4>1. CASE SendCall(t)
          BY <1>0, <4>1 DEF SendCall, TypeOK
        <4>2. CASE UrgentCall(t)
          BY <1>0, <4>2 DEF UrgentCall, TypeOK
        <4>3. CASE SendRetry(t)
          <5>1. IsWhole(buffer[t])
            BY <1>0, <4>3 DEF SendRetry, CopySound
          <5> QED  BY <1>0, <4>3, <5>1 DEF SendRetry, IsWhole
        <4> QED  BY <2>2, <4>1, <4>2, <4>3
      <3>2. ASSUME NEW urg \in BOOLEAN, NEW m \in Msgs, SendTake(t, urg),
                   buffer'[t] = Whole(m),
                   \A u \in Threads : u # t => buffer'[u] = buffer[u]
            PROVE  Deque!Next
        BY <1>0, <3>1, <3>2, RefineReserve
      <3>3. CASE \/ SendFull(t, tm)
                 \/ SendSuspend(t, tm) /\ \A u \in Threads : u # t => buffer'[u] = buffer[u]
        <4>1. /\ UNCHANGED <<queued, irqOff, data>> /\ pc'[t] \in {"idle", "sendWait"}
              /\ \A u \in Threads : u # t =>
                   /\ pc'[u] = pc[u] /\ urgent'[u] = urgent[u]
                   /\ buffer'[u] = buffer[u] /\ msg'[u] = msg[u]
          BY <1>0, <3>3 DEF SendFull, SendSuspend, Suspend, Return, TypeOK, mqVars, histVars
        <4> QED  BY <3>1, <4>1, RefineQuiet DEF HoldPCs
      <3> QED  BY <3>1, <3>2, <3>3
    <2>3. CASE ResetWake(t)
      BY <1>0, <2>3, RefineFlush DEF Deque!Next
    <2>4. CASE ResetMove(t) \/ ResetDone(t)
      BY <1>0, <2>4, RefineReset
    <2>5. CASE RecvFail(t) \/ SendFail(t) \/ Timeout(t)
      <3>1. /\ UNCHANGED <<queued, irqOff, data>>
            /\ pc[t] \in {"recvReady", "sendReady", "recvWait", "sendWait"}
            /\ pc'[t] \in {"idle", "recvReady", "sendReady"}
            /\ \A u \in Threads : u # t =>
                 /\ pc'[u] = pc[u] /\ urgent'[u] = urgent[u]
                 /\ buffer'[u] = buffer[u] /\ msg'[u] = msg[u]
        BY <1>0, <2>5 DEF RecvFail, SendFail, Timeout, Return, Ready, TypeOK, mqVars, histVars
      <3> QED  BY <3>1, RefineQuiet DEF HoldPCs
    <2>6. CASE CopyOut(t)
      BY <2>6, RefineCopyOut
    <2>7. CASE CopyIn(t)
      BY <2>7, RefineCopyIn
    <2>8. CASE GiveBack(t)
      BY <1>0, <2>8, RefineDone DEF Deque!Next
    <2>9. CASE Link(t)
      BY <1>0, <2>9, RefinePublish DEF Deque!Next
    <2> QED
      BY <1>2, <2>1, <2>2, <2>3, <2>4, <2>5, <2>6, <2>7, <2>8, <2>9 DEF Call, Proceed
  <1> QED  BY <1>1, <1>2 DEF Next

LEMMA DequeInit == Init => Deque!Init
  <1> SUFFICES ASSUME Init PROVE Deque!Init
    OBVIOUS
  <1>1. queued = <<>> /\ irqOff = NoThread /\ \A t \in Threads : pc[t] = "idle"
    BY DEF Init
  <1>2. Items = <<>>
    BY <1>1 DEF Items
  <1>3. Hold = [t \in Threads |-> Nil]
    BY <1>1 DEF Hold, HoldOf, HoldPCs, Nil
  <1> QED  BY <1>2, <1>3 DEF Deque!Init, Deque!Nothing, Items, Hold, Nil

\* The queue of ipc.c implements a bounded deque, for every pool and any callers:
\* although both copies run with interrupts enabled, messages are handed over
\* whole, once and in order, urgent ones in front, never more than fit, and
\* RT_IPC_CMD_RESET drops all of them at once.
THEOREM MqRefinesDeque == Spec => ImplementsDeque
  <1> QED
    BY MqInvariant, DequeInit, DequeStep, PTL DEF Spec, ImplementsDeque, Deque!Spec

===============================================================================
