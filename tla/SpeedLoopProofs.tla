--------------------------- MODULE SpeedLoopProofs ----------------------------
(***************************************************************************)
(* The speed loop for every width of the counters and of the tick, every    *)
(* window, gain and limit, and any number of ticks: its invariants.         *)
(*                                                                         *)
(* The library states induction with an operator as a parameter, which the  *)
(* provers cannot instantiate; the sum of the filter is taken apart with    *)
(* the least element of a set of counterexamples (LeastNat) instead.        *)
(***************************************************************************)
EXTENDS SpeedLoop, FiniteSetTheorems, WellFoundedInduction, TLAPS

----------------------------------------------------------------------------
(* Sums                                                                     *)

Pick(s) == CHOOSE x \in s : TRUE

\* g is a partial sum of a over the sets of C, each taken apart by Pick.
SumOn(g, a, C) ==
  g = [s \in C |-> IF s = {} THEN 0 ELSE a[Pick(s)] + g[s \ {Pick(s)}]]

\* What MapThenSumSet(LAMBDA i : a[i], S) stands for.
Total(a, S) == (CHOOSE g : SumOn(g, a, SUBSET S))[S]

\* Every set of natural numbers has a least element: induction without an
\* operator as a parameter.
LEMMA LeastNat ==
  ASSUME NEW T, T \subseteq Nat, T # {}
  PROVE  \E n \in T : \A m \in T : n <= m
  <1>1. IsWellFoundedOn(OpToRel(<, Nat), Nat)
    BY NatLessThanWellFounded
  <1>2. PICK n \in T : \A m \in T : ~(<<m, n>> \in OpToRel(<, Nat))
    BY <1>1, WFMin
  <1>3. n \in Nat /\ \A m \in T : m \in Nat /\ ~(m < n)
    BY <1>2 DEF OpToRel
  <1>4. \A m \in T : n <= m
    BY <1>3
  <1> QED  BY <1>4

\* The sets of at most n elements of S.
UpTo(S, n) == {s \in SUBSET S : Cardinality(s) <= n}

LEMMA PickFacts ==
  ASSUME NEW S, IsFiniteSet(S), NEW s \in SUBSET S, s # {}
  PROVE  /\ Pick(s) \in s /\ s \ {Pick(s)} \in SUBSET S
         /\ IsFiniteSet(s) /\ Cardinality(s) \in Nat \ {0}
         /\ Cardinality(s \ {Pick(s)}) = Cardinality(s) - 1
  <1>1. Pick(s) \in s
    BY DEF Pick
  <1>2. IsFiniteSet(s) /\ Cardinality(s) \in Nat
    BY FS_Subset, FS_CardinalityType
  <1>3. Cardinality(s) # 0
    BY <1>2, FS_EmptySet
  <1>4. Cardinality(s \ {Pick(s)}) = Cardinality(s) - 1
    BY <1>1, <1>2, FS_RemoveElement
  <1> QED  BY <1>1, <1>2, <1>3, <1>4

\* The sum exists on the sets of at most n elements, for every n.
LEMMA SumExistsUpTo ==
  ASSUME NEW S, IsFiniteSet(S), NEW a
  PROVE  \A n \in Nat : \E g : SumOn(g, a, UpTo(S, n))
  <1> DEFINE Bad == {n \in Nat : ~\E g : SumOn(g, a, UpTo(S, n))}
  <1> SUFFICES ASSUME Bad # {} PROVE FALSE
    OBVIOUS
  <1>1. PICK n \in Bad : \A m \in Bad : n <= m
    BY LeastNat
  <1>2. n \in Nat
    OBVIOUS
  <1>3. CASE n = 0
    <2> DEFINE g == [s \in UpTo(S, 0) |-> 0]
    <2>1. \A s \in UpTo(S, 0) : s = {}
      <3> SUFFICES ASSUME NEW s \in UpTo(S, 0), s # {} PROVE FALSE
        OBVIOUS
      <3>1. s \in SUBSET S /\ Cardinality(s) <= 0
        BY DEF UpTo
      <3>2. Cardinality(s) \in Nat \ {0}
        BY <3>1, PickFacts
      <3> QED  BY <3>1, <3>2
    <2>2. g = [s \in UpTo(S, 0) |-> IF s = {} THEN 0 ELSE a[Pick(s)] + g[s \ {Pick(s)}]]
      BY <2>1
    <2>3. SumOn(g, a, UpTo(S, 0))
      BY <2>2 DEF SumOn
    <2> QED  BY <1>3, <2>3
  <1>4. CASE n # 0
    <2>1. n - 1 \in Nat /\ n - 1 \notin Bad
      BY <1>1, <1>2, <1>4
    <2>2. PICK g : SumOn(g, a, UpTo(S, n - 1))
      BY <2>1
    <2> DEFINE h == [s \in UpTo(S, n) |->
                       IF s = {} THEN 0 ELSE a[Pick(s)] + g[s \ {Pick(s)}]]
    <2>3. ASSUME NEW s \in UpTo(S, n), s # {}
          PROVE  s \ {Pick(s)} \in UpTo(S, n - 1) /\ s \ {Pick(s)} \in UpTo(S, n)
      <3>1. s \in SUBSET S /\ Cardinality(s) <= n
        BY DEF UpTo
      <3>2. /\ s \ {Pick(s)} \in SUBSET S /\ Cardinality(s) \in Nat
            /\ Cardinality(s \ {Pick(s)}) = Cardinality(s) - 1
        BY <2>3, <3>1, PickFacts
      <3>3. Cardinality(s \ {Pick(s)}) <= n - 1 /\ Cardinality(s \ {Pick(s)}) <= n
        BY <1>2, <3>1, <3>2
      <3> QED  BY <3>2, <3>3 DEF UpTo
    <2>4. ASSUME NEW s \in UpTo(S, n - 1), s \in UpTo(S, n)
          PROVE  h[s] = g[s]
      BY <2>2, <2>4 DEF SumOn
    <2>5. \A s \in UpTo(S, n) : s # {} => h[s \ {Pick(s)}] = g[s \ {Pick(s)}]
      BY <2>3, <2>4
    <2>6. h = [s \in UpTo(S, n) |-> IF s = {} THEN 0 ELSE a[Pick(s)] + h[s \ {Pick(s)}]]
      BY <2>5, Zenon
    <2>7. SumOn(h, a, UpTo(S, n))
      BY <2>6, Zenon DEF SumOn
    <2> HIDE DEF h
    <2> QED  BY <2>7
  <1> QED  BY <1>3, <1>4

LEMMA SumExists ==
  ASSUME NEW S, IsFiniteSet(S), NEW a
  PROVE  \E g : SumOn(g, a, SUBSET S)
  <1>1. Cardinality(S) \in Nat
    BY FS_CardinalityType
  <1>2. UpTo(S, Cardinality(S)) = SUBSET S
    BY FS_Subset DEF UpTo
  <1>3. PICK g : SumOn(g, a, UpTo(S, Cardinality(S)))
    BY <1>1, SumExistsUpTo
  <1> QED  BY <1>2, <1>3

\* A sum of integers is an integer.
LEMMA SumIsInt ==
  ASSUME NEW S, IsFiniteSet(S), NEW a, \A i \in S : a[i] \in Int
  PROVE  Total(a, S) \in Int
  <1> DEFINE g == CHOOSE f : SumOn(f, a, SUBSET S)
  <1>1. SumOn(g, a, SUBSET S)
    BY SumExists
  <1>2. Total(a, S) = g[S]
    BY DEF Total
  <1> HIDE DEF g
  <1> DEFINE Bad == {n \in Nat : \E s \in SUBSET S : Cardinality(s) = n /\ g[s] \notin Int}
  <1>3. \A s \in SUBSET S : g[s] = IF s = {} THEN 0 ELSE a[Pick(s)] + g[s \ {Pick(s)}]
    BY <1>1 DEF SumOn
  <1>4. ASSUME Bad # {} PROVE FALSE
    <2>1. PICK n \in Bad : \A m \in Bad : n <= m
      BY <1>4, LeastNat
    <2>2. PICK s \in SUBSET S : Cardinality(s) = n /\ g[s] \notin Int
      BY <2>1
    <2>3. s # {}
      <3>1. g[{}] = 0
        BY <1>3
      <3> QED  BY <2>2, <3>1
    <2>4. /\ Pick(s) \in s /\ s \ {Pick(s)} \in SUBSET S
          /\ Cardinality(s) \in Nat \ {0}
          /\ Cardinality(s \ {Pick(s)}) = Cardinality(s) - 1
      BY <2>3, PickFacts
    <2>5. n - 1 \in Nat /\ n - 1 \notin Bad
      BY <2>1, <2>2, <2>4
    <2>6. g[s \ {Pick(s)}] \in Int
      BY <2>2, <2>4, <2>5
    <2>7. g[s] = a[Pick(s)] + g[s \ {Pick(s)}]
      BY <1>3, <2>3
    <2>8. a[Pick(s)] \in Int
      BY <2>4
    <2> QED  BY <2>2, <2>6, <2>7, <2>8
  <1>5. g[S] \in Int
    <2>1. Cardinality(S) \in Nat
      BY FS_CardinalityType
    <2>2. Cardinality(S) \notin Bad
      BY <1>4
    <2> QED  BY <2>1, <2>2
  <1> QED  BY <1>2, <1>5

\* The mean of a window of integers is an integer.
LEMMA FilterValueInt ==
  ASSUME NEW f, f.is_full \in BOOLEAN,
         f.is_full => \A i \in 1 .. WindowLen : f.static_array[i] \in Int
  PROVE  getFilterValue(f) \in Int
  <1>1. CASE ~f.is_full
    BY <1>1 DEF getFilterValue
  <1>2. CASE f.is_full
    <2>1. IsFiniteSet(1 .. WindowLen)
      BY WindowAssumption, FS_Interval
    <2>2. Total(f.static_array, 1 .. WindowLen) \in Int
      BY <1>2, <2>1, SumIsInt
    <2>3. getFilterValue(f) = Total(f.static_array, 1 .. WindowLen) \div WindowLen
      BY <1>2 DEF getFilterValue, MapThenSumSet, MapThenFoldSet, Total, SumOn, Pick
    <2> QED  BY <2>2, <2>3, WindowAssumption
  <1> QED  BY <1>1, <1>2

----------------------------------------------------------------------------
(* The counter and the tick                                                 *)

LEMMA DivMod ==
  ASSUME NEW x \in Int, NEW d \in Nat \ {0}
  PROVE  /\ x \div d \in Int /\ x % d \in 0 .. d - 1
         /\ x = (x \div d) * d + (x % d)
  BY SMT

LEMMA Division ==
  ASSUME NEW x \in Int, NEW d \in Nat \ {0}
  PROVE  \E q \in Int, u \in 0 .. d - 1 : u = x % d /\ x = q * d + u
  <1>1. /\ x \div d \in Int /\ x % d \in 0 .. d - 1
        /\ x % d = x % d /\ x = (x \div d) * d + (x % d)
    BY DivMod
  <1> WITNESS x \div d \in Int, x % d \in 0 .. d - 1
  <1> QED  BY <1>1

LEMMA ModUnique ==
  ASSUME NEW x \in Int, NEW d \in Nat \ {0}, NEW q \in Int, NEW r \in 0 .. d - 1,
         x = q * d + r
  PROVE  x % d = r
  <1>1. PICK k, m : /\ k = x \div d /\ m = x % d
                    /\ k \in Int /\ m \in 0 .. d - 1 /\ x = k * d + m
    <2>1. /\ x \div d \in Int /\ x % d \in 0 .. d - 1
          /\ x = (x \div d) * d + (x % d)
      BY DivMod, Zenon
    <2> QED  BY <2>1, Zenon
  <1>2. (q - k) * d = m - r
    <2>1. q * d = k * d + (m - r)
      BY <1>1
    <2>2. (q - k) * d = q * d - k * d
      BY <1>1
    <2>3. q * d \in Int /\ k * d \in Int
      BY <1>1
    <2> QED  BY <1>1, <2>1, <2>2, <2>3
  <1>3. q - k \in Int /\ m - r < d /\ m - r > -d
    BY <1>1
  <1>4. CASE q - k >= 1
    <2>1. (q - k) * d >= d
      BY <1>3, <1>4
    <2> QED  BY <1>1, <1>2, <1>3, <2>1
  <1>5. CASE q - k <= -1
    <2>1. (q - k) * d <= -d
      BY <1>3, <1>5
    <2> QED  BY <1>1, <1>2, <1>3, <2>1
  <1>6. CASE q - k = 0
    BY <1>1, <1>2, <1>6
  <1> QED  BY <1>3, <1>4, <1>5, <1>6

\* The value of a counter differs from the count by a multiple of its range.
LEMMA SignedRange ==
  ASSUME NEW x \in Int
  PROVE  /\ Signed(x) \in -CntHalf .. CntHalf - 1
         /\ \E q \in Int : x = q * (2 * CntHalf) + Signed(x)
  <1>1. CntHalf \in Nat \ {0} /\ 2 * CntHalf \in Nat \ {0}
    BY SpeedLoopAssumption
  <1>2. PICK q \in Int, u \in 0 .. 2 * CntHalf - 1 :
            u = x % (2 * CntHalf) /\ x = q * (2 * CntHalf) + u
    BY <1>1, Division
  <1>3. CASE u >= CntHalf
    <2>1. Signed(x) = u - 2 * CntHalf
      BY <1>2, <1>3 DEF Signed
    <2>2. q + 1 \in Int /\ (q + 1) * (2 * CntHalf) = q * (2 * CntHalf) + 2 * CntHalf
      BY <1>1, <1>2
    <2>3. x = (q + 1) * (2 * CntHalf) + Signed(x)
      BY <1>1, <1>2, <2>1, <2>2
    <2>4. Signed(x) \in -CntHalf .. CntHalf - 1
      BY <1>1, <1>2, <1>3, <2>1
    <2> QED  BY <2>2, <2>3, <2>4
  <1>4. CASE ~(u >= CntHalf)
    <2>1. Signed(x) = u
      BY <1>2, <1>4 DEF Signed
    <2> QED  BY <1>1, <1>2, <1>4, <2>1
  <1> QED  BY <1>3, <1>4

LEMMA SignedUnique ==
  ASSUME NEW x \in Int, NEW q \in Int, NEW d \in Int, -CntHalf <= d, d < CntHalf,
         x = q * (2 * CntHalf) + d
  PROVE  Signed(x) = d
  <1>1. CntHalf \in Nat \ {0} /\ 2 * CntHalf \in Nat \ {0}
    BY SpeedLoopAssumption
  <1>2. CASE d >= 0
    <2>1. d \in 0 .. 2 * CntHalf - 1
      BY <1>1, <1>2
    <2>2. x % (2 * CntHalf) = d
      BY <1>1, <2>1, ModUnique
    <2> QED  BY <1>1, <2>2 DEF Signed
  <1>3. CASE d < 0
    <2>1. d + 2 * CntHalf \in 0 .. 2 * CntHalf - 1 /\ q - 1 \in Int
      BY <1>1, <1>3
    <2>2. (q - 1) * (2 * CntHalf) = q * (2 * CntHalf) - 2 * CntHalf
      BY <1>1
    <2>3. q * (2 * CntHalf) \in Int
      BY <1>1
    <2>4. x = (q - 1) * (2 * CntHalf) + (d + 2 * CntHalf)
      BY <1>1, <2>2, <2>3
    <2>5. x % (2 * CntHalf) = d + 2 * CntHalf
      BY <1>1, <2>1, <2>4, ModUnique
    <2> QED  BY <1>1, <1>3, <2>5 DEF Signed
  <1> QED  BY <1>2, <1>3

\* The difference of two values of a counter, in its width, is the distance
\* the wheel turned, however often the counter ran over.
LEMMA SignedDifference ==
  ASSUME NEW a \in Int, NEW b \in Int, -CntHalf <= a - b, a - b < CntHalf
  PROVE  Signed(Signed(a) - Signed(b)) = a - b
  <1>0. CntHalf \in Nat \ {0}
    BY SpeedLoopAssumption
  <1>1. PICK q \in Int : a = q * (2 * CntHalf) + Signed(a)
    BY SignedRange
  <1>2. PICK p \in Int : b = p * (2 * CntHalf) + Signed(b)
    BY SignedRange
  <1>3. Signed(a) \in Int /\ Signed(b) \in Int
    BY SignedRange, <1>0
  <1>4. (p - q) * (2 * CntHalf) = p * (2 * CntHalf) - q * (2 * CntHalf)
    BY <1>0
  <1>5. p * (2 * CntHalf) \in Int /\ q * (2 * CntHalf) \in Int
    BY <1>0
  <1>6. Signed(a) - Signed(b) = (p - q) * (2 * CntHalf) + (a - b)
    BY <1>1, <1>2, <1>3, <1>4, <1>5
  <1>7. p - q \in Int /\ a - b \in Int /\ Signed(a) - Signed(b) \in Int
    BY <1>3
  <1> QED  BY <1>6, <1>7, SignedUnique

LEMMA TickDifference ==
  ASSUME NEW a \in Int, NEW b \in Int, 0 <= a - b, a - b < TickRange
  PROVE  ((a % TickRange) - (b % TickRange)) % TickRange = a - b
  <1>0. TickRange \in Nat \ {0}
    BY SpeedLoopAssumption
  <1>1. PICK q \in Int, u \in 0 .. TickRange - 1 :
            u = a % TickRange /\ a = q * TickRange + u
    BY <1>0, Division
  <1>2. PICK p \in Int, v \in 0 .. TickRange - 1 :
            v = b % TickRange /\ b = p * TickRange + v
    BY <1>0, Division
  <1>3. (p - q) * TickRange = p * TickRange - q * TickRange
    BY <1>0, <1>1, <1>2
  <1>4. p * TickRange \in Int /\ q * TickRange \in Int /\ p - q \in Int
    BY <1>0, <1>1, <1>2
  <1>5. u - v = (p - q) * TickRange + (a - b)
    BY <1>1, <1>2, <1>3, <1>4
  <1>6. a - b \in 0 .. TickRange - 1 /\ u - v \in Int
    BY <1>0, <1>1, <1>2
  <1>7. (u - v) % TickRange = a - b
    BY <1>0, <1>4, <1>5, <1>6, ModUnique
  <1> QED  BY <1>1, <1>2, <1>7

----------------------------------------------------------------------------
(* The inductive invariant                                                  *)

Elems(s) == {s[i] : i \in 1 .. Len(s)}

\* The wheel of the loop is between the read of its counter and that of the tick.
Sampling(w) == pc \in {"sample", "printSample"} /\ w = Head(rest)

\* CalcSpeed::calc has been called for the wheel and knows an earlier count.
Started(w) == ~first[w] /\ ~(pc = "first" /\ w = Head(rest))

\* The types of the filter and of the history, which TypeOK leaves out.
Windows ==
  [static_array : [1 .. WindowLen -> Int \cup {Garbage}], back : 1 .. WindowLen,
   is_full : BOOLEAN]

HistoryOK ==
  /\ read_pos \in [WheelSet -> Int] /\ last_pos \in [WheelSet -> Int]
  /\ read_time \in [WheelSet -> Int] /\ last_tick \in [WheelSet -> Int]
  /\ filter \in [WheelSet -> Windows]
  /\ samples \in [WheelSet -> Seq(Int)]

\* Every wheel has had its first call of calc before the output makes another.
FirstInv ==
  /\ pc \in {"print", "printRead", "printSample", "delay"} => \A w \in WheelSet : ~first[w]
  /\ pc \in {"read", "first", "sample", "drive", "release"}
       => \A w \in WheelSet : first[w] => w \in Elems(rest)
  /\ pc \in {"first", "sample", "drive", "release"} => ~first[Head(rest)]

\* How old the reads of the tick and of the counter are.
TimeInv(w) ==
  /\ read_time[w] <= now /\ now <= read_time[w] + MaxStall
  /\ last_tick[w] <= now
  /\ pc = "first" /\ w = Head(rest) => read_time[w] <= last_tick[w]
  /\ ~first[w] => last_time[w] = last_tick[w] % TickRange
  /\ Started(w) =>
       read_time[w] <= last_tick[w] + (IF Sampling(w) THEN 2 * MaxStall ELSE MaxStall)

Within(a, b, d) == a - b <= d /\ b - a <= d

\* The counts are those of the positions, and a wheel is not far from them.
CountInv(w) ==
  Started(w) =>
    /\ last_cnt[w] = Signed(last_pos[w])
    /\ IF Sampling(w)
       THEN /\ now_cnt = Signed(read_pos[w])
            /\ Within(read_pos[w], last_pos[w], MaxStep * MaxStall)
            /\ Within(pos[w], read_pos[w], MaxStep * (now - read_time[w]))
       ELSE Within(pos[w], last_pos[w], MaxStep * (now - read_time[w]))

----------------------------------------------------------------------------
(* The window                                                               *)

\* What FilterIsRecent says of the filter f of a wheel whose samples are s.
Recent(f, s) ==
  /\ f.is_full <=> Len(s) = WindowLen
  /\ f.back = (IF f.is_full THEN WindowLen ELSE Len(s) + 1)
  /\ \A i \in 1 .. Len(s) : f.static_array[i] = s[i]

Newest(s, v) == IF Len(s) < WindowLen THEN Append(s, v) ELSE Append(Tail(s), v)

LEMMA WindowFacts ==
  ASSUME NEW f \in Windows
  PROVE  /\ f.static_array \in [1 .. WindowLen -> Int \cup {Garbage}]
         /\ f.back \in 1 .. WindowLen /\ f.is_full \in BOOLEAN
  BY DEF Windows

LEMMA PushFilling ==
  ASSUME NEW f \in Windows, NEW s \in Seq(Int), Recent(f, s), NEW v \in Int, ~f.is_full
  PROVE  /\ push(f, v) \in Windows /\ Newest(s, v) \in Seq(Int)
         /\ Recent(push(f, v), Newest(s, v))
  <1>0. WindowLen \in Nat \ {0}
    BY WindowAssumption
  <1>1. /\ f.static_array \in [1 .. WindowLen -> Int \cup {Garbage}]
        /\ f.back \in 1 .. WindowLen
    BY WindowFacts
  <1>2. /\ Len(s) \in Nat /\ f.back = Len(s) + 1 /\ Len(s) < WindowLen
        /\ \A i \in 1 .. Len(s) : f.static_array[i] = s[i]
    BY <1>0, <1>1 DEF Recent
  <1>3. /\ Newest(s, v) = Append(s, v) /\ Newest(s, v) \in Seq(Int)
        /\ Len(Newest(s, v)) = Len(s) + 1
        /\ Newest(s, v)[Len(s) + 1] = v
        /\ \A i \in 1 .. Len(s) : Newest(s, v)[i] = s[i]
    BY <1>2 DEF Newest
  <1> DEFINE arr == [f.static_array EXCEPT ![f.back] = v]
             full == f.back + 1 > WindowLen
             new == [static_array |-> arr,
                     back |-> IF full THEN WindowLen ELSE f.back + 1,
                     is_full |-> full]
  <1>4. push(f, v) = new
    BY DEF push
  <1>5. /\ arr \in [1 .. WindowLen -> Int \cup {Garbage}]
        /\ arr[Len(s) + 1] = v
        /\ \A i \in 1 .. Len(s) : arr[i] = s[i]
    BY <1>0, <1>1, <1>2
  <1> HIDE DEF arr
  <1>6. new.static_array = arr /\ new.is_full = full
        /\ new.back = (IF full THEN WindowLen ELSE f.back + 1)
    OBVIOUS
  <1>7. full <=> Len(s) + 1 = WindowLen
    BY <1>0, <1>2
  <1>8. new \in Windows
    BY <1>0, <1>1, <1>5 DEF Windows
  <1>9. Recent(new, Newest(s, v))
    <2>1. \A i \in 1 .. Len(Newest(s, v)) : arr[i] = Newest(s, v)[i]
      BY <1>2, <1>3, <1>5
    <2>2. new.is_full <=> Len(Newest(s, v)) = WindowLen
      BY <1>3, <1>6, <1>7
    <2>3. new.back = (IF new.is_full THEN WindowLen ELSE Len(Newest(s, v)) + 1)
      BY <1>2, <1>3, <1>6
    <2> HIDE DEF new
    <2> QED  BY <1>6, <2>1, <2>2, <2>3 DEF Recent
  <1> QED  BY <1>3, <1>4, <1>8, <1>9

LEMMA PushShifting ==
  ASSUME NEW f \in Windows, NEW s \in Seq(Int), Recent(f, s), NEW v \in Int, f.is_full
  PROVE  /\ push(f, v) \in Windows /\ Newest(s, v) \in Seq(Int)
         /\ Recent(push(f, v), Newest(s, v))
  <1>0. WindowLen \in Nat \ {0}
    BY WindowAssumption
  <1>1. /\ f.static_array \in [1 .. WindowLen -> Int \cup {Garbage}]
        /\ f.back = WindowLen /\ Len(s) = WindowLen
        /\ \A i \in 1 .. WindowLen : f.static_array[i] = s[i]
    BY WindowFacts DEF Recent
  <1>2. s # <<>>
    BY <1>0, <1>1
  <1>3. /\ Tail(s) \in Seq(Int) /\ Len(Tail(s)) = WindowLen - 1
        /\ \A i \in 1 .. WindowLen - 1 : Tail(s)[i] = s[i + 1]
    BY <1>0, <1>1, <1>2
  <1>4. /\ Newest(s, v) = Append(Tail(s), v)
        /\ Newest(s, v) \in Seq(Int) /\ Len(Newest(s, v)) = WindowLen
        /\ Newest(s, v)[WindowLen] = v
        /\ \A i \in 1 .. WindowLen - 1 : Newest(s, v)[i] = s[i + 1]
    <2>1. Newest(s, v) = Append(Tail(s), v)
      BY <1>0, <1>1 DEF Newest
    <2>2. PICK r : r = Tail(s)
      OBVIOUS
    <2>3. r \in Seq(Int) /\ Len(r) = WindowLen - 1
      BY <1>3, <2>2
    <2>4. /\ Append(r, v) \in Seq(Int) /\ Len(Append(r, v)) = WindowLen
          /\ Append(r, v)[WindowLen] = v
          /\ \A i \in 1 .. WindowLen - 1 : Append(r, v)[i] = r[i]
      BY <1>0, <2>3
    <2> QED  BY <1>3, <2>1, <2>2, <2>4
  <1> DEFINE arr == [i \in 1 .. WindowLen |->
                       IF i = f.back THEN v ELSE f.static_array[i + 1]]
             new == [f EXCEPT !.static_array = arr]
  <1>5. push(f, v) = new
    BY DEF push
  <1>6. /\ arr[WindowLen] = v
        /\ \A i \in 1 .. WindowLen - 1 : arr[i] = s[i + 1]
        /\ arr \in [1 .. WindowLen -> Int \cup {Garbage}]
    <2>1. \A i \in 1 .. WindowLen - 1 : i + 1 \in 1 .. WindowLen /\ i # WindowLen
      BY <1>0
    <2>2. \A i \in 1 .. WindowLen : i = WindowLen \/ i \in 1 .. WindowLen - 1
      BY <1>0
    <2>3. arr[WindowLen] = v
      BY <1>0, <1>1
    <2>4. ASSUME NEW i \in 1 .. WindowLen - 1
          PROVE  arr[i] = s[i + 1] /\ arr[i] \in Int \cup {Garbage}
      BY <1>0, <1>1, <2>1
    <2>5. \A i \in 1 .. WindowLen : arr[i] \in Int \cup {Garbage}
      BY <2>2, <2>3, <2>4
    <2> QED  BY <2>3, <2>4, <2>5
  <1> HIDE DEF arr
  <1>7. /\ new \in Windows /\ new.static_array = arr
        /\ new.back = WindowLen /\ new.is_full
    BY <1>1, <1>6 DEF Windows
  <1> HIDE DEF new
  <1>8. \A i \in 1 .. WindowLen : arr[i] = Newest(s, v)[i]
    <2>1. \A i \in 1 .. WindowLen : i = WindowLen \/ i \in 1 .. WindowLen - 1
      BY <1>0
    <2> QED  BY <1>4, <1>6, <2>1
  <1>9. Recent(new, Newest(s, v))
    BY <1>4, <1>7, <1>8 DEF Recent
  <1> QED  BY <1>4, <1>5, <1>7, <1>9

----------------------------------------------------------------------------
(* Types                                                                    *)

TypeInv == TypeOK /\ HistoryOK /\ FilterIsRecent

\* The stages of the loop that serve a wheel.
Serving == {"read", "first", "sample", "drive", "release", "printRead", "printSample"}

LEMMA WheelFacts ==
  /\ Wheels \in Seq(WheelSet) /\ Wheels # <<>> /\ Elems(Wheels) = WheelSet
  /\ Reversed(Wheels) \in Seq(WheelSet) /\ Reversed(Wheels) # <<>>
  <1>1. Wheels \in Seq({"left", "right"}) /\ Wheels # <<>>
    BY SpeedLoopAssumption
  <1>2. Len(Wheels) \in Nat /\ Len(Wheels) # 0 /\ Wheels \in [1 .. Len(Wheels) -> {"left", "right"}]
    BY <1>1
  <1>3. \A i \in 1 .. Len(Wheels) : Wheels[i] \in WheelSet
    BY DEF WheelSet
  <1>4. Wheels \in Seq(WheelSet)
    BY <1>2, <1>3
  <1>5. \A i \in 1 .. Len(Wheels) : (Len(Wheels) + 1) - i \in 1 .. Len(Wheels)
    BY <1>2
  <1>6. Reversed(Wheels) \in [1 .. Len(Wheels) -> WheelSet]
    <2>1. \A i \in 1 .. Len(Wheels) : Reversed(Wheels)[i] = Wheels[(Len(Wheels) + 1) - i]
      BY <1>2 DEF Reversed
    <2>2. \A i \in 1 .. Len(Wheels) : Reversed(Wheels)[i] \in WheelSet
      BY <1>3, <1>5, <2>1
    <2> QED  BY <2>2 DEF Reversed
  <1>7. Reversed(Wheels) \in Seq(WheelSet) /\ Len(Reversed(Wheels)) = Len(Wheels)
    BY <1>2, <1>6
  <1>8. Reversed(Wheels) # <<>>
    BY <1>2, <1>7
  <1> QED  BY <1>1, <1>4, <1>7, <1>8 DEF Elems, WheelSet

LEMMA RestFacts ==
  ASSUME TypeOK, pc \in Serving
  PROVE  /\ Head(rest) \in WheelSet /\ Tail(rest) \in Seq(WheelSet) /\ rest # <<>>
         /\ Elems(rest) = Elems(Tail(rest)) \cup {Head(rest)}
  <1>1. rest \in Seq(WheelSet) /\ rest # <<>>
    BY DEF TypeOK, Serving
  <1>2. /\ Head(rest) = rest[1] /\ Len(rest) \in Nat \ {0} /\ Head(rest) \in WheelSet
        /\ Tail(rest) \in Seq(WheelSet) /\ Len(Tail(rest)) = Len(rest) - 1
        /\ \A i \in 1 .. Len(rest) - 1 : Tail(rest)[i] = rest[i + 1]
    BY <1>1
  <1>3. Elems(Tail(rest)) \cup {Head(rest)} \subseteq Elems(rest)
    BY <1>2 DEF Elems
  <1>4. ASSUME NEW x \in Elems(rest), x # Head(rest)
        PROVE  x \in Elems(Tail(rest))
    <2>1. PICK i \in 1 .. Len(rest) : x = rest[i]
      BY DEF Elems
    <2>2. i - 1 \in 1 .. Len(Tail(rest)) /\ Tail(rest)[i - 1] = x
      BY <1>2, <1>4, <2>1
    <2> QED  BY <2>2 DEF Elems
  <1> QED  BY <1>1, <1>2, <1>3, <1>4

LEMMA ClampType ==
  ASSUME NEW x \in Int, NEW m \in Nat
  PROVE  Clamp(x, m) \in -m .. m
  BY DEF Clamp

LEMMA CompareType ==
  ASSUME NEW x \in Int
  PROVE  Compare(x) \in 0 .. Period
  BY SpeedLoopAssumption DEF Compare

LEMMA CompareZero == Compare(0) <= MIN_PULSE
  BY SpeedLoopAssumption DEF Compare

LEMMA SignedType ==
  ASSUME NEW x \in Int
  PROVE  Signed(x) \in -CntHalf .. CntHalf - 1 /\ Signed(x) \in Int
  <1>1. Signed(x) \in -CntHalf .. CntHalf - 1
    BY SignedRange
  <1> QED  BY <1>1, SpeedLoopAssumption

LEMMA CounterType ==
  ASSUME TypeOK, NEW w \in WheelSet
  PROVE  getCounter(w) \in -CntHalf .. CntHalf - 1 /\ getCounter(w) \in Int
  <1>1. pos[w] \in Int
    BY DEF TypeOK
  <1> QED  BY <1>1, SignedType DEF getCounter

LEMMA TickType ==
  ASSUME TypeOK
  PROVE  rt_tick_get \in 0 .. TickRange - 1 /\ now \in Int
  <1>1. now \in Int
    BY SpeedLoopAssumption DEF TypeOK
  <1> QED  BY <1>1, DivMod, SpeedLoopAssumption DEF rt_tick_get

LEMMA RpmType ==
  ASSUME TypeOK, NEW w \in WheelSet
  PROVE  Rpm(w) \in Int
  <1>1. now_cnt \in Int /\ last_cnt[w] \in Int /\ last_time[w] \in Int
    BY SpeedLoopAssumption DEF TypeOK
  <1>2. diff_cnt(w) \in Int
    <2>1. now_cnt - last_cnt[w] \in Int
      BY <1>1
    <2> QED  BY <2>1, SignedType DEF diff_cnt
  <1>3. Elapsed(w) \in Nat \ {0}
    <2>1. rt_tick_get - last_time[w] \in Int /\ TickRange \in Nat \ {0}
      BY <1>1, TickType, SpeedLoopAssumption
    <2>2. (rt_tick_get - last_time[w]) % TickRange \in 0 .. TickRange - 1
      BY <2>1, DivMod
    <2> QED  BY <2>1, <2>2 DEF Elapsed
  <1>4. diff_cnt(w) * RpmScale \in Int
    BY <1>2, SpeedLoopAssumption
  <1>5. (diff_cnt(w) * RpmScale) \div Elapsed(w) \in Int
    BY <1>3, <1>4, DivMod
  <1> QED  BY <1>5 DEF Rpm

LEMMA WheelSpeedType ==
  ASSUME NEW w, NEW v \in Int \X Int
  PROVE  WheelSpeed(w, v) \in -RefMax .. RefMax
  <1>1. v[1] \in Int /\ v[2] \in Int
    OBVIOUS
  <1>2. /\ VxGain * v[1] \in Int /\ VwGain * v[2] \in Int /\ -VwGain \in Int
        /\ (-VwGain) * v[2] \in Int
    BY <1>1, SpeedLoopAssumption
  <1>3. VxGain * v[1] + (IF w = "left" THEN -VwGain ELSE VwGain) * v[2] \in Int
    BY <1>2
  <1> QED  BY <1>3, ClampType, SpeedLoopAssumption DEF WheelSpeed

LEMMA PidSumType ==
  ASSUME NEW s \in Int \cup {NaN}, NEW err \in Int
  PROVE  PidSum(s, err) \in Int \cup {NaN}
  <1>1. CASE s = NaN
    BY <1>1 DEF PidSum
  <1>2. CASE s \in Int
    <2>1. s # NaN /\ s + err \in Int /\ PidMax \in Nat
      BY <1>2, SpeedLoopAssumption
    <2>2. Clamp(s + err, PidMax) \in -PidMax .. PidMax
      BY <2>1, ClampType
    <2> QED  BY <2>1, <2>2 DEF PidSum
  <1> QED  BY <1>1, <1>2

LEMMA PidOutType ==
  ASSUME NEW err \in Int, NEW s \in Int \cup {NaN}, NEW pre \in Int \cup {NaN}
  PROVE  PidOut(err, s, pre) \in (-Period .. Period) \cup {NaN}
  <1>1. CASE NaN \in {s, pre}
    BY <1>1 DEF PidOut
  <1>2. CASE NaN \notin {s, pre}
    <2>1. s \in Int /\ pre \in Int
      BY <1>2
    <2>2. Kp * err \in Int /\ Ki * s \in Int /\ Kd * (pre - err) \in Int
      BY <2>1, SpeedLoopAssumption
    <2>3. Kp * err + Ki * s + Kd * (pre - err) \in Int
      BY <2>2
    <2>4. PidOut(err, s, pre) \in -PidMax .. PidMax
      BY <1>2, <2>3, ClampType, SpeedLoopAssumption DEF PidOut
    <2>5. PidMax \in Nat /\ Period \in Nat /\ PidMax <= Period
      BY SpeedLoopAssumption
    <2> QED  BY <2>4, <2>5
  <1> QED  BY <1>1, <1>2

\* CalcSpeed::calc, from the read of the tick on.
LEMMA SampleType ==
  ASSUME TypeInv, NEW w \in WheelSet, Sample(w)
  PROVE  /\ filter' \in [WheelSet -> Windows] /\ samples' \in [WheelSet -> Seq(Int)]
         /\ FilterIsRecent'
         /\ last_cnt' \in [WheelSet -> Int]
         /\ last_time' \in [WheelSet -> 0 .. TickRange - 1]
         /\ last_pos' \in [WheelSet -> Int] /\ last_tick' \in [WheelSet -> Int]
  <1>0. /\ TypeOK /\ HistoryOK
        /\ \A u \in WheelSet : filter[u] \in Windows /\ samples[u] \in Seq(Int)
        /\ \A u \in WheelSet : Recent(filter[u], samples[u])
    BY DEF TypeInv, FilterIsRecent, Recent, HistoryOK
  <1>1. Rpm(w) \in Int
    BY <1>0, RpmType
  <1>2. PICK v \in Int : v = Rpm(w)
    BY <1>1
  <1>3. /\ filter' = [filter EXCEPT ![w] = push(filter[w], v)]
        /\ samples' = [samples EXCEPT ![w] = Newest(samples[w], v)]
    BY <1>0, <1>2 DEF Sample, Newest, HistoryOK
  <1>4. /\ push(filter[w], v) \in Windows /\ Newest(samples[w], v) \in Seq(Int)
        /\ Recent(push(filter[w], v), Newest(samples[w], v))
    <2>1. filter[w].is_full \in BOOLEAN
      BY <1>0, WindowFacts
    <2>2. CASE filter[w].is_full
      BY <1>0, <2>2, PushShifting
    <2>3. CASE ~filter[w].is_full
      BY <1>0, <2>3, PushFilling
    <2> QED  BY <2>2, <2>3
  <1>5. filter' \in [WheelSet -> Windows] /\ samples' \in [WheelSet -> Seq(Int)]
    BY <1>0, <1>3, <1>4 DEF HistoryOK
  <1>6. \A u \in WheelSet : Recent(filter'[u], samples'[u])
    <2> SUFFICES ASSUME NEW u \in WheelSet PROVE Recent(filter'[u], samples'[u])
      OBVIOUS
    <2>1. CASE u = w
      <3>1. filter'[u] = push(filter[w], v) /\ samples'[u] = Newest(samples[w], v)
        BY <1>0, <1>3, <2>1 DEF HistoryOK
      <3> QED  BY <1>4, <3>1
    <2>2. CASE u # w
      <3>1. filter'[u] = filter[u] /\ samples'[u] = samples[u]
        BY <1>0, <1>3, <2>2 DEF HistoryOK
      <3> QED  BY <1>0, <3>1
    <2> QED  BY <2>1, <2>2
  <1>7. FilterIsRecent'
    BY <1>6 DEF FilterIsRecent, Recent
  <1>8. /\ last_cnt' \in [WheelSet -> Int]
        /\ last_time' \in [WheelSet -> 0 .. TickRange - 1]
        /\ last_pos' \in [WheelSet -> Int] /\ last_tick' \in [WheelSet -> Int]
    <2>1. rt_tick_get \in 0 .. TickRange - 1 /\ now \in Int
      BY <1>0, TickType
    <2>2. now_cnt \in Int /\ read_pos[w] \in Int
      BY <1>0, SpeedLoopAssumption DEF TypeOK, HistoryOK
    <2> QED  BY <1>0, <2>1, <2>2 DEF Sample, TypeOK, HistoryOK
  <1> QED  BY <1>5, <1>7, <1>8

\* Pid::calc on the mean of the new window.
LEMMA CalcType ==
  ASSUME TypeInv, NEW w \in WheelSet, Sample(w), Calc(w)
  PROVE  /\ sum' \in [WheelSet -> Int \cup {NaN}]
         /\ pre_err' \in [WheelSet -> Int \cup {NaN}]
         /\ out' \in (-Period .. Period) \cup {NaN}
  <1>0. TypeOK
    BY DEF TypeInv
  <1>1. filter'[w] \in Windows /\ samples'[w] \in Seq(Int) /\ Recent(filter'[w], samples'[w])
    <2>1. filter' \in [WheelSet -> Windows] /\ samples' \in [WheelSet -> Seq(Int)] /\ FilterIsRecent'
      BY SampleType
    <2> QED  BY <2>1 DEF FilterIsRecent, Recent
  <1>2. PICK f, s : f = filter'[w] /\ s = samples'[w]
    OBVIOUS
  <1>3. getFilterValue(f) \in Int
    <2>1. f \in Windows /\ s \in Seq(Int) /\ Recent(f, s)
      BY <1>1, <1>2
    <2>2. f.is_full \in BOOLEAN
      BY <2>1, WindowFacts
    <2>3. f.is_full => \A i \in 1 .. WindowLen : f.static_array[i] \in Int
      BY <2>1 DEF Recent
    <2> QED  BY <2>2, <2>3, FilterValueInt
  <1>4. PICK err \in Int : err = ref[w] - getFilterValue(filter'[w])
    <2>1. ref[w] \in Int
      BY <1>0, SpeedLoopAssumption DEF TypeOK
    <2> QED  BY <1>2, <1>3, <2>1
  <1>5. /\ sum' = [sum EXCEPT ![w] = PidSum(sum[w], err)]
        /\ out' = PidOut(err, sum'[w], pre_err[w])
        /\ pre_err' = [pre_err EXCEPT ![w] = err]
    BY <1>0, <1>4 DEF Calc, TypeOK
  <1>6. sum[w] \in Int \cup {NaN} /\ pre_err[w] \in Int \cup {NaN}
    BY <1>0 DEF TypeOK
  <1>7. PidSum(sum[w], err) \in Int \cup {NaN}
    BY <1>6, PidSumType
  <1>8. sum' \in [WheelSet -> Int \cup {NaN}] /\ sum'[w] = PidSum(sum[w], err)
    BY <1>0, <1>5, <1>7 DEF TypeOK
  <1>9. out' \in (-Period .. Period) \cup {NaN}
    BY <1>5, <1>6, <1>7, <1>8, PidOutType
  <1>10. pre_err' \in [WheelSet -> Int \cup {NaN}]
    BY <1>0, <1>5 DEF TypeOK
  <1> QED  BY <1>8, <1>9, <1>10

\* Steps that take no sample leave the filter and its history alone.
LEMMA SameFilter ==
  ASSUME FilterIsRecent, UNCHANGED <<filter, samples>>
  PROVE  FilterIsRecent'
  BY DEF FilterIsRecent

LEMMA RecvType == ASSUME TypeInv, Recv PROVE TypeInv'
  <1>0. TypeOK /\ HistoryOK /\ FilterIsRecent
    BY DEF TypeInv
  <1>1. speed' \in Commands \cup {<<0, 0>>} /\ speed' \in Int \X Int
    BY <1>0, SpeedLoopAssumption DEF Recv, TypeOK
  <1>2. ref' \in [WheelSet -> -RefMax .. RefMax]
    BY <1>1, WheelSpeedType DEF Recv
  <1>3. rest' \in Seq(WheelSet) /\ rest' # <<>> /\ pc' = "read"
    BY WheelFacts DEF Recv
  <1>4. TypeOK'
    BY <1>0, <1>1, <1>2, <1>3 DEF Recv, TypeOK, world, calcVars, PCs
  <1>5. HistoryOK' /\ FilterIsRecent'
    BY <1>0, SameFilter DEF Recv, HistoryOK, calcVars, histVars
  <1> QED  BY <1>4, <1>5 DEF TypeInv

LEMMA FirstTickType == ASSUME TypeInv, FirstTick PROVE TypeInv'
  <1>0. TypeOK /\ HistoryOK /\ FilterIsRecent
    BY DEF TypeInv
  <1>1. Head(rest) \in WheelSet /\ rt_tick_get \in 0 .. TickRange - 1 /\ now \in Int
    BY <1>0, RestFacts, TickType DEF FirstTick, Serving
  <1>2. /\ first' \in [WheelSet -> BOOLEAN]
        /\ last_time' \in [WheelSet -> 0 .. TickRange - 1]
        /\ last_tick' \in [WheelSet -> Int]
    BY <1>0, <1>1 DEF FirstTick, TypeOK, HistoryOK
  <1>3. TypeOK'
    BY <1>0, <1>2 DEF FirstTick, TypeOK, world, pidVars, PCs
  <1>4. HistoryOK' /\ FilterIsRecent'
    BY <1>0, <1>2, SameFilter DEF FirstTick, HistoryOK
  <1> QED  BY <1>3, <1>4 DEF TypeInv

LEMMA FirstCountType == ASSUME TypeInv, FirstCount PROVE TypeInv'
  <1>0. TypeOK /\ HistoryOK /\ FilterIsRecent
    BY DEF TypeInv
  <1>1. Head(rest) \in WheelSet /\ getCounter(Head(rest)) \in Int /\ now \in Int
    BY <1>0, RestFacts, TickType, CounterType DEF FirstCount, Serving
  <1>2. pos[Head(rest)] \in Int
    BY <1>0, <1>1 DEF TypeOK
  <1>3. /\ last_cnt' \in [WheelSet -> Int] /\ last_pos' \in [WheelSet -> Int]
        /\ read_time' \in [WheelSet -> Int]
    BY <1>0, <1>1, <1>2 DEF FirstCount, TypeOK, HistoryOK
  <1>4. TypeOK'
    BY <1>0, <1>3 DEF FirstCount, TypeOK, world, pidVars, PCs
  <1>5. HistoryOK' /\ FilterIsRecent'
    BY <1>0, <1>3, SameFilter DEF FirstCount, HistoryOK
  <1> QED  BY <1>4, <1>5 DEF TypeInv

LEMMA ReadType == ASSUME TypeInv, ControlRead \/ PrintRead PROVE TypeInv'
  <1>0. TypeOK /\ HistoryOK /\ FilterIsRecent
    BY DEF TypeInv
  <1>1. /\ pc \in Serving /\ ReadCounter(Head(rest)) /\ rest' = rest
        /\ pc' \in {"sample", "printSample"}
    BY DEF ControlRead, PrintRead, Serving
  <1>2. /\ Head(rest) \in WheelSet /\ getCounter(Head(rest)) \in -CntHalf .. CntHalf - 1
        /\ now \in Int /\ rest # <<>>
    BY <1>0, <1>1, RestFacts, TickType, CounterType
  <1>3. /\ now_cnt' \in -CntHalf .. CntHalf - 1
        /\ read_pos' \in [WheelSet -> Int] /\ read_time' \in [WheelSet -> Int]
    BY <1>0, <1>1, <1>2 DEF ReadCounter, TypeOK, HistoryOK
  <1>4. TypeOK'
    BY <1>0, <1>1, <1>2, <1>3 DEF ReadCounter, TypeOK, world, pidVars, PCs
  <1>5. HistoryOK' /\ FilterIsRecent'
    BY <1>0, <1>1, <1>3, SameFilter DEF ReadCounter, HistoryOK
  <1> QED  BY <1>4, <1>5 DEF TypeInv

LEMMA ControlSampleType == ASSUME TypeInv, ControlSample PROVE TypeInv'
  <1>0. TypeOK /\ HistoryOK
    BY DEF TypeInv
  <1>1. /\ pc = "sample" /\ Sample(Head(rest)) /\ Calc(Head(rest)) /\ pc' = "drive"
        /\ UNCHANGED <<rest, cnt, speed, ref, duty>>
    BY DEF ControlSample
  <1>2. Head(rest) \in WheelSet /\ rest # <<>>
    BY <1>0, <1>1, RestFacts DEF Serving
  <1>3. /\ filter' \in [WheelSet -> Windows] /\ samples' \in [WheelSet -> Seq(Int)]
        /\ FilterIsRecent'
        /\ last_cnt' \in [WheelSet -> Int]
        /\ last_time' \in [WheelSet -> 0 .. TickRange - 1]
        /\ last_pos' \in [WheelSet -> Int] /\ last_tick' \in [WheelSet -> Int]
    BY <1>1, <1>2, SampleType
  <1>4. /\ sum' \in [WheelSet -> Int \cup {NaN}]
        /\ pre_err' \in [WheelSet -> Int \cup {NaN}]
        /\ out' \in (-Period .. Period) \cup {NaN}
    BY <1>1, <1>2, CalcType
  <1>5. UNCHANGED <<now, pos, first, now_cnt, read_pos, read_time>>
    BY <1>1 DEF Sample, world
  <1>6. TypeOK'
    BY <1>0, <1>1, <1>2, <1>3, <1>4, <1>5 DEF TypeOK, PCs
  <1>7. HistoryOK'
    BY <1>0, <1>3, <1>5 DEF HistoryOK
  <1> QED  BY <1>3, <1>6, <1>7 DEF TypeInv

LEMMA PrintSampleType == ASSUME TypeInv, PrintSample PROVE TypeInv'
  <1>0. TypeOK /\ HistoryOK
    BY DEF TypeInv
  <1>1. /\ pc = "printSample" /\ Sample(Head(rest)) /\ rest' = Tail(rest)
        /\ pc' = IF rest' = <<>> THEN "delay" ELSE "printRead"
        /\ UNCHANGED <<cnt, speed, ref, sum, pre_err, out, duty>>
    BY DEF PrintSample, pidVars
  <1>2. Head(rest) \in WheelSet /\ rest' \in Seq(WheelSet)
    BY <1>0, <1>1, RestFacts DEF Serving
  <1>3. /\ filter' \in [WheelSet -> Windows] /\ samples' \in [WheelSet -> Seq(Int)]
        /\ FilterIsRecent'
        /\ last_cnt' \in [WheelSet -> Int]
        /\ last_time' \in [WheelSet -> 0 .. TickRange - 1]
        /\ last_pos' \in [WheelSet -> Int] /\ last_tick' \in [WheelSet -> Int]
    BY <1>1, <1>2, SampleType
  <1>4. UNCHANGED <<now, pos, first, now_cnt, read_pos, read_time>>
    BY <1>1 DEF Sample, world
  <1>5. TypeOK'
    BY <1>0, <1>1, <1>2, <1>3, <1>4 DEF TypeOK, PCs
  <1>6. HistoryOK'
    BY <1>0, <1>3, <1>4 DEF HistoryOK
  <1> QED  BY <1>3, <1>5, <1>6 DEF TypeInv

LEMMA PulseType == ASSUME TypeOK PROVE Pulse \in Int
  BY SpeedLoopAssumption DEF TypeOK, Pulse

\* What either call of rt_pwm_set does: one channel of the wheel being served.
LEMMA DriveChannels ==
  ASSUME TypeOK, Drive \/ Release
  PROVE  /\ pc \in Serving /\ UNCHANGED <<world, cnt, speed, calcVars, pidVars, histVars>>
         /\ \E ch \in {"cw", "ccw"}, v \in 0 .. Period :
               duty' = [duty EXCEPT ![Head(rest)][ch] = v]
         /\ \/ rest' = rest /\ pc' = "release"
            \/ rest' = Tail(rest) /\ pc' = IF rest' = <<>> THEN "print" ELSE "read"
  <1>1. Compare(Pulse) \in 0 .. Period /\ Compare(0) \in 0 .. Period
    BY PulseType, CompareType
  <1>2. CASE Drive
    <2>1. PICK ch \in {"cw", "ccw"} : ch = IF Forward THEN "cw" ELSE "ccw"
      OBVIOUS
    <2>2. duty' = [duty EXCEPT ![Head(rest)][ch] = Compare(Pulse)]
      BY <1>2, <2>1 DEF Drive
    <2>3. \E c \in {"cw", "ccw"}, v \in 0 .. Period :
             duty' = [duty EXCEPT ![Head(rest)][c] = v]
      BY <1>1, <2>2, Zenon
    <2> QED  BY <1>2, <2>3 DEF Drive, Serving
  <1>3. CASE Release
    <2>1. PICK ch \in {"cw", "ccw"} : ch = IF Forward THEN "ccw" ELSE "cw"
      OBVIOUS
    <2>2. duty' = [duty EXCEPT ![Head(rest)][ch] = Compare(0)]
      BY <1>3, <2>1 DEF Release
    <2>3. \E c \in {"cw", "ccw"}, v \in 0 .. Period :
             duty' = [duty EXCEPT ![Head(rest)][c] = v]
      BY <1>1, <2>2, Zenon
    <2> QED  BY <1>3, <2>3 DEF Release, Serving
  <1> QED  BY <1>2, <1>3

LEMMA DriveType == ASSUME TypeInv, Drive \/ Release PROVE TypeInv'
  <1>0. TypeOK /\ HistoryOK /\ FilterIsRecent
    BY DEF TypeInv
  <1>1. /\ pc \in Serving /\ UNCHANGED <<world, cnt, speed, calcVars, pidVars, histVars>>
        /\ \/ rest' = rest /\ pc' = "release"
           \/ rest' = Tail(rest) /\ pc' = IF rest' = <<>> THEN "print" ELSE "read"
    BY <1>0, DriveChannels
  <1>2. Head(rest) \in WheelSet /\ Tail(rest) \in Seq(WheelSet) /\ rest # <<>>
    BY <1>0, <1>1, RestFacts
  <1>3. PICK ch \in {"cw", "ccw"}, v \in 0 .. Period :
            duty' = [duty EXCEPT ![Head(rest)][ch] = v]
    BY <1>0, DriveChannels
  <1>4. duty' \in [WheelSet -> [{"cw", "ccw"} -> 0 .. Period]]
    BY <1>0, <1>2, <1>3 DEF TypeOK
  <1>5. TypeOK'
    BY <1>0, <1>1, <1>2, <1>4 DEF TypeOK, world, calcVars, pidVars, PCs
  <1>6. HistoryOK' /\ FilterIsRecent'
    BY <1>0, <1>1, SameFilter DEF HistoryOK, calcVars, histVars
  <1> QED  BY <1>5, <1>6 DEF TypeInv

LEMMA PrintLineType == ASSUME TypeInv, PrintLine PROVE TypeInv'
  <1>0. TypeOK /\ HistoryOK /\ FilterIsRecent
    BY DEF TypeInv
  <1>1. /\ cnt' \in 0 .. PrintEvery
        /\ rest' \in Seq(WheelSet) /\ pc' \in PCs
        /\ rest' = <<>> => pc' \in {"recv", "print", "delay"}
    <2>1. CASE cnt < PrintEvery
      <3>1. cnt' = cnt + 1 /\ rest' = rest /\ pc' = "delay"
        BY <1>0, <2>1, SpeedLoopAssumption DEF PrintLine, TypeOK
      <3> QED  BY <1>0, <2>1, <3>1, SpeedLoopAssumption DEF TypeOK, PCs
    <2>2. CASE cnt >= PrintEvery
      <3>1. cnt' = 0 /\ rest' \in {Wheels, Reversed(Wheels)} /\ pc' = "printRead"
        BY <1>0, <2>2, SpeedLoopAssumption DEF PrintLine, TypeOK
      <3> QED  BY <3>1, WheelFacts, SpeedLoopAssumption DEF PCs
    <2> QED  BY <1>0, <2>1, <2>2, SpeedLoopAssumption DEF TypeOK
  <1>2. TypeOK'
    BY <1>0, <1>1 DEF PrintLine, TypeOK, world, calcVars, pidVars
  <1>3. HistoryOK' /\ FilterIsRecent'
    BY <1>0, SameFilter DEF PrintLine, HistoryOK, calcVars, histVars
  <1> QED  BY <1>2, <1>3 DEF TypeInv

LEMMA TickTypes == ASSUME TypeInv, Tick PROVE TypeInv'
  <1>0. TypeOK /\ HistoryOK /\ FilterIsRecent
    BY DEF TypeInv
  <1>1. now' \in StartTick .. StartTick + MaxTicks
    BY <1>0, SpeedLoopAssumption DEF Tick, TypeOK
  <1>2. pos' \in [WheelSet -> Int]
    <2>1. PICK step \in [WheelSet -> -MaxStep .. MaxStep] :
              pos' = [w \in WheelSet |-> pos[w] + step[w]]
      BY DEF Tick
    <2>2. \A w \in WheelSet : step[w] \in Int /\ pos[w] \in Int
      BY <1>0, SpeedLoopAssumption DEF TypeOK
    <2> QED  BY <2>1, <2>2
  <1>3. pc' \in PCs /\ (rest' = <<>> => pc' \in {"recv", "print", "delay"})
    BY <1>0 DEF Tick, TypeOK, PCs
  <1>4. TypeOK'
    BY <1>0, <1>1, <1>2, <1>3 DEF Tick, TypeOK, calcVars, pidVars
  <1>5. HistoryOK' /\ FilterIsRecent'
    BY <1>0, SameFilter DEF Tick, HistoryOK, calcVars, histVars
  <1> QED  BY <1>4, <1>5 DEF TypeInv

LEMMA InitType == Init => TypeInv
  <1> SUFFICES ASSUME Init PROVE TypeInv
    OBVIOUS
  <1>1. WindowLen \in Nat \ {0}
    BY WindowAssumption
  <1>2. NewWindow \in Windows
    BY <1>1 DEF NewWindow, Windows
  <1>3. Recent(NewWindow, <<>>)
    BY <1>1 DEF Recent, NewWindow
  <1>4. TypeOK
    <2>1. 0 \in -CntHalf .. CntHalf - 1 /\ 0 \in 0 .. TickRange - 1
          /\ 0 \in -RefMax .. RefMax /\ 0 \in -Period .. Period /\ 0 \in 0 .. Period
          /\ 0 \in 0 .. PrintEvery /\ StartTick \in StartTick .. StartTick + MaxTicks
      BY SpeedLoopAssumption
    <2>2. sum \in [WheelSet -> Int \cup {NaN}] /\ pre_err \in [WheelSet -> Int \cup {NaN}]
      BY SpeedLoopAssumption DEF Init
    <2> QED  BY <2>1, <2>2, SpeedLoopAssumption DEF Init, TypeOK, PCs
  <1>5. HistoryOK
    BY <1>2, SpeedLoopAssumption DEF Init, HistoryOK
  <1>6. FilterIsRecent
    BY <1>3 DEF Init, FilterIsRecent, Recent
  <1> QED  BY <1>4, <1>5, <1>6 DEF TypeInv

LEMMA NextType == TypeInv /\ [Next]_vars => TypeInv'
  <1> SUFFICES ASSUME TypeInv, [Next]_vars PROVE TypeInv'
    OBVIOUS
  <1>1. CASE UNCHANGED vars
    BY <1>1 DEF vars, world, calcVars, pidVars, histVars, TypeInv, TypeOK, HistoryOK,
                FilterIsRecent
  <1>2. CASE Recv
    BY <1>2, RecvType
  <1>3. CASE FirstTick
    BY <1>3, FirstTickType
  <1>4. CASE FirstCount
    BY <1>4, FirstCountType
  <1>5. CASE ControlRead \/ PrintRead
    BY <1>5, ReadType
  <1>6. CASE ControlSample
    BY <1>6, ControlSampleType
  <1>7. CASE Drive \/ Release
    BY <1>7, DriveType
  <1>8. CASE PrintLine
    BY <1>8, PrintLineType
  <1>9. CASE PrintSample
    BY <1>9, PrintSampleType
  <1>10. CASE Tick
    BY <1>10, TickTypes
  <1> QED
    BY <1>1, <1>2, <1>3, <1>4, <1>5, <1>6, <1>7, <1>8, <1>9, <1>10 DEF Next, Turn

\* Every variable of the loop keeps its type; the drive never exceeds the period
\* of the Pwm, whatever the uninitialised _sum and _pre_err of Pid held.
THEOREM LoopTypeCorrect == Spec => []TypeOK
  <1>1. TypeInv => TypeOK
    BY DEF TypeInv
  <1> QED  BY <1>1, InitType, NextType, PTL DEF Spec

\* SlideWindow holds the newest samples in order and no unwritten cell counts,
\* for every length of the window.
THEOREM LoopFilterIsRecent == Spec => []FilterIsRecent
  <1>1. TypeInv => FilterIsRecent
    BY DEF TypeInv
  <1> QED  BY <1>1, InitType, NextType, PTL DEF Spec

----------------------------------------------------------------------------
(* The two channels                                                         *)

Both(w) == \A ch \in {"cw", "ccw"} : duty[w][ch] > MIN_PULSE

LEMMA ChannelsInit == Init => ChannelsExclusive
  <1> SUFFICES ASSUME Init, NEW w \in WheelSet PROVE ~Both(w)
    BY DEF ChannelsExclusive, Both
  <1>1. duty[w]["cw"] = 0
    BY DEF Init
  <1> QED  BY <1>1, SpeedLoopAssumption DEF Both

LEMMA ChannelsDrive ==
  ASSUME TypeInv, ChannelsExclusive, Drive PROVE ChannelsExclusive'
  <1>1. pc = "drive" /\ pc' = "release" /\ rest' = rest
        /\ \A w \in WheelSet : ~Both(w)
    BY DEF Drive, ChannelsExclusive, Both
  <1>2. \A w \in WheelSet : w # Head(rest) => duty'[w] = duty[w]
    BY DEF Drive, TypeInv, TypeOK
  <1>3. \A w \in WheelSet : w # Head(rest) => ~Both(w)'
    BY <1>1, <1>2 DEF Both
  <1>4. \A w \in WheelSet : Both(w)' => pc' = "release" /\ w = Head(rest')
    BY <1>1, <1>3
  <1> QED  BY <1>4 DEF ChannelsExclusive, Both

LEMMA ChannelsRelease ==
  ASSUME TypeInv, ChannelsExclusive, Release PROVE ChannelsExclusive'
  <1>1. TypeOK /\ pc = "release" /\ pc \in Serving
    BY DEF Release, TypeInv, Serving
  <1>2. PICK h \in WheelSet : h = Head(rest)
    BY <1>1, RestFacts
  <1>3. PICK ch \in {"cw", "ccw"} : ch = IF Forward THEN "ccw" ELSE "cw"
    OBVIOUS
  <1>4. duty' = [duty EXCEPT ![h][ch] = Compare(0)]
    BY <1>2, <1>3 DEF Release
  <1>5. duty \in [WheelSet -> [{"cw", "ccw"} -> 0 .. Period]]
    BY <1>1 DEF TypeOK
  <1>6. duty'[h][ch] = Compare(0)
    BY <1>2, <1>4, <1>5
  <1>7. ~(duty'[h][ch] > MIN_PULSE)
    <2>1. Compare(0) \in Int /\ Compare(0) <= MIN_PULSE /\ MIN_PULSE \in Int
      BY CompareType, CompareZero, SpeedLoopAssumption
    <2> QED  BY <1>6, <2>1
  <1>8. ~Both(h)'
    BY <1>7 DEF Both
  <1>9. \A w \in WheelSet : w # h => duty'[w] = duty[w] /\ ~Both(w)
    BY <1>1, <1>2, <1>4, <1>5 DEF ChannelsExclusive, Both
  <1>10. \A w \in WheelSet : ~Both(w)'
    BY <1>8, <1>9 DEF Both
  <1> QED  BY <1>10 DEF ChannelsExclusive, Both

LEMMA ChannelsNext == TypeInv /\ ChannelsExclusive /\ [Next]_vars => ChannelsExclusive'
  <1> SUFFICES ASSUME TypeInv, ChannelsExclusive, [Next]_vars PROVE ChannelsExclusive'
    OBVIOUS
  <1>1. CASE UNCHANGED vars
    BY <1>1 DEF vars, ChannelsExclusive
  <1>2. CASE Recv \/ FirstTick \/ FirstCount \/ ControlRead \/ ControlSample \/ PrintLine
             \/ PrintRead \/ PrintSample
    <2>1. duty' = duty /\ pc # "release"
      BY <1>2 DEF Recv, FirstTick, FirstCount, ControlRead, ReadCounter, ControlSample,
                  PrintLine, PrintRead, PrintSample
    <2> QED  BY <2>1 DEF ChannelsExclusive
  <1>3. CASE Drive
    BY <1>3, ChannelsDrive
  <1>4. CASE Release
    BY <1>4, ChannelsRelease
  <1>5. CASE Tick
    <2>1. duty' = duty /\ rest' = rest /\ (pc = "release" => pc' = "release")
      BY <1>5 DEF Tick
    <2> QED  BY <2>1 DEF ChannelsExclusive
  <1> QED  BY <1>1, <1>2, <1>3, <1>4, <1>5 DEF Next, Turn

\* setCW and setCCW never leave both channels of a wheel driving, whatever the
\* order of the wheels and however often the thread is preempted.
THEOREM LoopChannelsExclusive == Spec => []ChannelsExclusive
  <1>1. Init => TypeInv /\ ChannelsExclusive
    BY InitType, ChannelsInit
  <1>2. TypeInv /\ ChannelsExclusive /\ [Next]_vars => (TypeInv /\ ChannelsExclusive)'
    BY NextType, ChannelsNext
  <1> QED  BY <1>1, <1>2, PTL DEF Spec

----------------------------------------------------------------------------
(* The samples                                                              *)

\* The first call for the wheel has read the tick and not yet the counter.
Entering(w) == pc = "first" /\ w = Head(rest)

WheelInv(w) == TimeInv(w) /\ CountInv(w)

LoopInv == TypeInv /\ FirstInv /\ \A w \in WheelSet : WheelInv(w)

LEMMA FirstInvNext == TypeInv /\ FirstInv /\ [Next]_vars => FirstInv'
  <1> SUFFICES ASSUME TypeInv, FirstInv, [Next]_vars PROVE FirstInv'
    OBVIOUS
  <1>0. TypeOK /\ first \in [WheelSet -> BOOLEAN]
    BY DEF TypeInv, TypeOK
  <1>1. CASE UNCHANGED vars
    BY <1>1 DEF vars, calcVars, FirstInv, Elems
  <1>2. CASE Recv
    <2>1. pc' = "read" /\ rest' = Wheels
      BY <1>2 DEF Recv
    <2>2. \A w \in WheelSet : w \in Elems(rest')
      BY <2>1, WheelFacts
    <2> QED  BY <2>1, <2>2 DEF FirstInv
  <1>3. CASE FirstTick
    <2>1. /\ pc = "read" /\ pc' = "first" /\ rest' = rest
          /\ first' = [first EXCEPT ![Head(rest)] = FALSE]
      BY <1>3 DEF FirstTick
    <2>2. Head(rest) \in WheelSet
      BY <1>0, <2>1, RestFacts DEF Serving
    <2>3. ~first'[Head(rest)] /\ \A w \in WheelSet : first'[w] => first[w]
      BY <1>0, <2>1, <2>2
    <2> QED  BY <2>1, <2>3 DEF FirstInv, Elems
  <1>4. CASE FirstCount \/ ControlRead \/ ControlSample \/ Drive
    <2>1. /\ first' = first /\ rest' = rest
          /\ pc \in {"read", "first", "sample", "drive"}
          /\ \/ pc' = "read"
             \/ pc' \in {"first", "sample", "drive", "release"} /\ ~first[Head(rest)]
      BY <1>4 DEF FirstCount, ControlRead, ReadCounter, ControlSample, Sample, Drive,
                  FirstInv, calcVars
    <2> QED  BY <2>1 DEF FirstInv, Elems
  <1>5. CASE Release
    <2>1. /\ pc = "release" /\ pc' = (IF rest' = <<>> THEN "print" ELSE "read")
          /\ rest' = Tail(rest) /\ first' = first
      BY <1>5 DEF Release, calcVars
    <2>2. Elems(rest) = Elems(rest') \cup {Head(rest)}
      BY <1>0, <2>1, RestFacts DEF Serving
    <2>3. \A w \in WheelSet : first'[w] => w \in Elems(rest')
      BY <2>1, <2>2 DEF FirstInv
    <2>4. rest' = <<>> => Elems(rest') = {}
      BY DEF Elems
    <2> QED  BY <2>1, <2>3, <2>4 DEF FirstInv
  <1>6. CASE PrintLine \/ PrintRead \/ PrintSample
    <2>1. /\ first' = first /\ pc \in {"print", "printRead", "printSample", "delay"}
          /\ pc' \in {"print", "printRead", "printSample", "delay"}
      BY <1>6 DEF PrintLine, PrintRead, ReadCounter, PrintSample, Sample, calcVars
    <2> QED  BY <2>1 DEF FirstInv
  <1>7. CASE Tick
    <2>1. /\ first' = first /\ rest' = rest
          /\ pc' = IF pc = "delay" THEN "recv" ELSE pc
      BY <1>7 DEF Tick, calcVars
    <2> QED  BY <2>1 DEF FirstInv, Elems
  <1> QED  BY <1>1, <1>2, <1>3, <1>4, <1>5, <1>6, <1>7 DEF Next, Turn

\* The products of the distance a wheel may have turned.
LEMMA StepProduct ==
  ASSUME NEW d \in Nat
  PROVE  /\ MaxStep * d \in Nat /\ MaxStep * 0 = 0
         /\ MaxStep * (d + 1) = MaxStep * d + MaxStep
  BY SpeedLoopAssumption

LEMMA StallProduct ==
  ASSUME NEW d \in Nat, d <= MaxStall
  PROVE  MaxStep * d <= MaxStep * MaxStall
  <1>1. MaxStep \in Nat /\ MaxStall \in Nat
    BY SpeedLoopAssumption
  <1>2. PICK e \in Nat : e = MaxStall - d
    BY <1>1
  <1>3. MaxStep * MaxStall = MaxStep * d + MaxStep * e
    BY <1>1, <1>2
  <1>4. MaxStep * e \in Nat /\ MaxStep * d \in Nat /\ MaxStep * MaxStall \in Nat
    BY <1>1, <1>2
  <1> QED  BY <1>3, <1>4

\* The values of a wheel, as numbers.
LEMMA WheelTypes ==
  ASSUME TypeInv, NEW w \in WheelSet
  PROVE  /\ now \in Int /\ pos[w] \in Int /\ read_pos[w] \in Int /\ last_pos[w] \in Int
         /\ read_time[w] \in Int /\ last_tick[w] \in Int /\ now_cnt \in Int
         /\ last_cnt[w] \in Int /\ MaxStall \in Nat /\ MaxStep \in Nat
  <1>1. now \in Int /\ MaxStall \in Nat /\ MaxStep \in Nat /\ now_cnt \in Int
    BY SpeedLoopAssumption DEF TypeInv, TypeOK
  <1> QED  BY <1>1 DEF TypeInv, TypeOK, HistoryOK

\* A step that does not concern the wheel.
LEMMA QuietWheel ==
  ASSUME NEW w \in WheelSet, WheelInv(w),
         now' = now, pos'[w] = pos[w], first'[w] = first[w],
         last_cnt'[w] = last_cnt[w], last_time'[w] = last_time[w],
         read_pos'[w] = read_pos[w], last_pos'[w] = last_pos[w],
         read_time'[w] = read_time[w], last_tick'[w] = last_tick[w],
         Sampling(w)' <=> Sampling(w), Entering(w)' <=> Entering(w),
         Sampling(w) => now_cnt' = now_cnt
  PROVE  WheelInv(w)'
  <1>1. Started(w)' <=> Started(w)
    BY DEF Started, Entering
  <1>2. TimeInv(w)'
    <2>1. TimeInv(w)
      BY DEF WheelInv
    <2> QED  BY <1>1, <2>1 DEF TimeInv, Entering
  <1>3. CountInv(w)'
    <2>1. CountInv(w)
      BY DEF WheelInv
    <2>2. CASE Sampling(w)
      BY <1>1, <2>1, <2>2 DEF CountInv, Within
    <2>3. CASE ~Sampling(w)
      BY <1>1, <2>1, <2>3 DEF CountInv, Within
    <2> QED  BY <2>2, <2>3
  <1> QED  BY <1>2, <1>3 DEF WheelInv

LEMMA InitWheels == Init => FirstInv /\ \A w \in WheelSet : WheelInv(w)
  <1> SUFFICES ASSUME Init PROVE FirstInv /\ \A w \in WheelSet : WheelInv(w)
    OBVIOUS
  <1>1. FirstInv
    BY DEF Init, FirstInv
  <1>2. ASSUME NEW w \in WheelSet PROVE WheelInv(w)
    <2>1. /\ first[w] = TRUE /\ pc = "recv" /\ now = StartTick /\ read_time[w] = StartTick
          /\ last_tick[w] = StartTick
      BY DEF Init
    <2>2. ~Started(w)
      BY <2>1 DEF Started
    <2>3. StartTick \in Nat /\ MaxStall \in Nat
      BY SpeedLoopAssumption
    <2>4. TimeInv(w)
      BY <2>1, <2>2, <2>3 DEF TimeInv
    <2> QED  BY <2>2, <2>4 DEF WheelInv, CountInv
  <1> QED  BY <1>1, <1>2

\* The actions that read neither a counter nor the tick.
LEMMA QuietWheels ==
  ASSUME LoopInv, UNCHANGED vars \/ Recv \/ Drive \/ Release \/ PrintLine,
         NEW w \in WheelSet
  PROVE  WheelInv(w)'
  <1>1. UNCHANGED <<world, calcVars, histVars>>
    BY DEF vars, Recv, Drive, Release, PrintLine
  <1>2. \/ pc' = pc /\ rest' = rest
        \/ /\ pc \in {"recv", "drive", "release", "print"}
           /\ pc' \in {"read", "release", "print", "delay", "printRead"}
    BY DEF vars, Recv, Drive, Release, PrintLine
  <1>3. (Sampling(w)' <=> Sampling(w)) /\ (Entering(w)' <=> Entering(w))
    BY <1>2 DEF Sampling, Entering
  <1>4. WheelInv(w)
    BY DEF LoopInv
  <1> QED  BY <1>1, <1>3, <1>4, QuietWheel DEF world, calcVars, histVars

LEMMA FirstTickWheels ==
  ASSUME LoopInv, FirstTick, NEW w \in WheelSet PROVE WheelInv(w)'
  <1>1. TypeInv /\ TypeOK /\ HistoryOK /\ WheelInv(w)
    BY DEF LoopInv, TypeInv
  <1>2. /\ pc = "read" /\ pc' = "first" /\ rest' = rest
        /\ first' = [first EXCEPT ![Head(rest)] = FALSE]
        /\ last_time' = [last_time EXCEPT ![Head(rest)] = now % TickRange]
        /\ last_tick' = [last_tick EXCEPT ![Head(rest)] = now]
        /\ UNCHANGED <<now, pos, last_cnt, now_cnt, read_pos, last_pos, read_time>>
    BY DEF FirstTick, world, rt_tick_get
  <1>3. ~Sampling(w) /\ ~Sampling(w)' /\ ~Entering(w)
    BY <1>2 DEF Sampling, Entering
  <1>4. CASE w # Head(rest)
    <2>1. first'[w] = first[w] /\ last_time'[w] = last_time[w] /\ last_tick'[w] = last_tick[w]
      BY <1>1, <1>2, <1>4 DEF TypeOK, HistoryOK
    <2>2. ~Entering(w)'
      BY <1>2, <1>4 DEF Entering
    <2> QED  BY <1>1, <1>2, <1>3, <2>1, <2>2, QuietWheel
  <1>5. CASE w = Head(rest)
    <2>1. /\ last_time'[w] = now % TickRange /\ last_tick'[w] = now
      BY <1>1, <1>2, <1>5 DEF TypeOK, HistoryOK
    <2>2. ~Started(w)'
      BY <1>2, <1>5 DEF Started
    <2>3. read_time[w] <= now /\ now <= read_time[w] + MaxStall
      BY <1>1 DEF WheelInv, TimeInv
    <2>4. TimeInv(w)'
      BY <1>1, <1>2, <2>1, <2>2, <2>3, WheelTypes DEF TimeInv
    <2> QED  BY <2>2, <2>4 DEF WheelInv, CountInv
  <1> QED  BY <1>4, <1>5

LEMMA FirstCountWheels ==
  ASSUME LoopInv, FirstCount, NEW w \in WheelSet PROVE WheelInv(w)'
  <1>1. TypeInv /\ TypeOK /\ HistoryOK /\ WheelInv(w)
    BY DEF LoopInv, TypeInv
  <1>2. /\ pc = "first" /\ pc' = "read" /\ rest' = rest
        /\ last_cnt' = [last_cnt EXCEPT ![Head(rest)] = Signed(pos[Head(rest)])]
        /\ last_pos' = [last_pos EXCEPT ![Head(rest)] = pos[Head(rest)]]
        /\ read_time' = [read_time EXCEPT ![Head(rest)] = now]
        /\ UNCHANGED <<now, pos, first, last_time, now_cnt, read_pos, last_tick>>
    BY DEF FirstCount, world, getCounter
  <1>3. ~Sampling(w) /\ ~Sampling(w)' /\ ~Entering(w)'
    BY <1>2 DEF Sampling, Entering
  <1>4. CASE w # Head(rest)
    <2>1. last_cnt'[w] = last_cnt[w] /\ last_pos'[w] = last_pos[w] /\ read_time'[w] = read_time[w]
      BY <1>1, <1>2, <1>4 DEF TypeOK, HistoryOK
    <2>2. ~Entering(w)
      BY <1>2, <1>4 DEF Entering
    <2> QED  BY <1>1, <1>2, <1>3, <2>1, <2>2, QuietWheel
  <1>5. CASE w = Head(rest)
    <2>1. /\ last_cnt'[w] = Signed(pos[w]) /\ last_pos'[w] = pos[w] /\ read_time'[w] = now
      BY <1>1, <1>2, <1>5 DEF TypeOK, HistoryOK
    <2>2. ~first[w]
      BY <1>2, <1>5 DEF LoopInv, FirstInv
    <2>3. /\ read_time[w] <= last_tick[w] /\ now <= read_time[w] + MaxStall
          /\ last_tick[w] <= now /\ last_time[w] = last_tick[w] % TickRange
      BY <1>1, <1>2, <1>5, <2>2 DEF WheelInv, TimeInv
    <2>4. now <= last_tick[w] + MaxStall
      BY <1>1, <2>3, WheelTypes
    <2>5. TimeInv(w)'
      BY <1>1, <1>2, <1>3, <2>1, <2>3, <2>4, WheelTypes DEF TimeInv
    <2>6. MaxStep * (now - now) = 0
      BY <1>1, WheelTypes
    <2>7. Within(pos[w], pos[w], MaxStep * (now - now))
      BY <1>1, <2>6, WheelTypes DEF Within
    <2>8. CountInv(w)'
      BY <1>2, <1>3, <2>1, <2>7 DEF CountInv
    <2> QED  BY <2>5, <2>8 DEF WheelInv
  <1> QED  BY <1>4, <1>5

LEMMA ReadWheels ==
  ASSUME LoopInv, ControlRead \/ PrintRead, NEW w \in WheelSet PROVE WheelInv(w)'
  <1>1. TypeInv /\ TypeOK /\ HistoryOK /\ WheelInv(w)
    BY DEF LoopInv, TypeInv
  <1>2. /\ pc \in {"read", "printRead"} /\ pc' \in {"sample", "printSample"} /\ rest' = rest
        /\ ReadCounter(Head(rest))
    BY DEF ControlRead, PrintRead
  <1>3. /\ now_cnt' = Signed(pos[Head(rest)])
        /\ read_pos' = [read_pos EXCEPT ![Head(rest)] = pos[Head(rest)]]
        /\ read_time' = [read_time EXCEPT ![Head(rest)] = now]
        /\ UNCHANGED <<now, pos, first, last_cnt, last_time, last_pos, last_tick>>
    BY <1>2 DEF ReadCounter, world, getCounter
  <1>4. ~Sampling(w) /\ ~Entering(w) /\ ~Entering(w)'
    BY <1>2 DEF Sampling, Entering
  <1>5. CASE w # Head(rest)
    <2>1. read_pos'[w] = read_pos[w] /\ read_time'[w] = read_time[w]
      BY <1>1, <1>3, <1>5 DEF HistoryOK
    <2>2. ~Sampling(w)'
      BY <1>2, <1>5 DEF Sampling
    <2> QED  BY <1>1, <1>3, <1>4, <2>1, <2>2, QuietWheel
  <1>6. CASE w = Head(rest)
    <2>1. /\ now_cnt' = Signed(pos[w]) /\ read_pos'[w] = pos[w] /\ read_time'[w] = now
      BY <1>1, <1>3, <1>6 DEF HistoryOK
    <2>2. ~first[w]
      BY <1>6 DEF LoopInv, FirstInv, ControlRead, PrintRead
    <2>3. Started(w)
      BY <1>4, <2>2 DEF Started, Entering
    <2>4. Sampling(w)'
      BY <1>2, <1>6 DEF Sampling
    <2>5. /\ read_time[w] <= now /\ now <= read_time[w] + MaxStall
          /\ read_time[w] <= last_tick[w] + MaxStall
          /\ last_tick[w] <= now /\ last_time[w] = last_tick[w] % TickRange
      BY <1>1, <1>4, <2>2, <2>3 DEF WheelInv, TimeInv
    <2>6. now <= last_tick[w] + 2 * MaxStall
      BY <1>1, <2>5, WheelTypes
    <2>7. TimeInv(w)'
      <3>1. now <= now /\ now <= now + MaxStall
        BY <1>1, WheelTypes
      <3> QED  BY <1>3, <1>4, <2>1, <2>4, <2>5, <2>6, <3>1 DEF TimeInv, Entering
    <2>8. /\ last_cnt[w] = Signed(last_pos[w])
          /\ Within(pos[w], last_pos[w], MaxStep * (now - read_time[w]))
      BY <1>1, <1>4, <2>3 DEF WheelInv, CountInv
    <2>9. Within(pos[w], last_pos[w], MaxStep * MaxStall)
      <3>1. PICK d \in Nat : d = now - read_time[w] /\ d <= MaxStall
        BY <1>1, <2>5, WheelTypes
      <3>2. MaxStep * d <= MaxStep * MaxStall /\ MaxStep * d \in Int /\ MaxStep * MaxStall \in Int
        BY <3>1, StallProduct, SpeedLoopAssumption
      <3>3. pos[w] - last_pos[w] <= MaxStep * d /\ last_pos[w] - pos[w] <= MaxStep * d
        BY <2>8, <3>1 DEF Within
      <3>4. pos[w] - last_pos[w] <= MaxStep * MaxStall /\ last_pos[w] - pos[w] <= MaxStep * MaxStall
        BY <1>1, <3>2, <3>3, WheelTypes
      <3> QED  BY <3>4 DEF Within
    <2>10. MaxStep * (now - now) = 0
      BY <1>1, WheelTypes
    <2>11. Within(pos[w], pos[w], MaxStep * (now - now))
      BY <1>1, <2>10, WheelTypes DEF Within
    <2>12. CountInv(w)'
      BY <1>3, <2>1, <2>4, <2>8, <2>9, <2>11 DEF CountInv
    <2> QED  BY <2>7, <2>12 DEF WheelInv
  <1> QED  BY <1>5, <1>6

LEMMA SampleWheels ==
  ASSUME LoopInv, ControlSample \/ PrintSample, NEW w \in WheelSet PROVE WheelInv(w)'
  <1>1. TypeInv /\ TypeOK /\ HistoryOK /\ WheelInv(w)
    BY DEF LoopInv, TypeInv
  <1>2. /\ pc \in {"sample", "printSample"} /\ pc' \in {"drive", "delay", "printRead"}
        /\ Sample(Head(rest))
    BY DEF ControlSample, PrintSample
  <1>3. /\ last_cnt' = [last_cnt EXCEPT ![Head(rest)] = now_cnt]
        /\ last_time' = [last_time EXCEPT ![Head(rest)] = now % TickRange]
        /\ last_pos' = [last_pos EXCEPT ![Head(rest)] = read_pos[Head(rest)]]
        /\ last_tick' = [last_tick EXCEPT ![Head(rest)] = now]
        /\ UNCHANGED <<now, pos, first, now_cnt, read_pos, read_time>>
    BY <1>2 DEF Sample, world, rt_tick_get
  <1>4. ~Sampling(w)' /\ ~Entering(w) /\ ~Entering(w)'
    BY <1>2 DEF Sampling, Entering
  <1>5. CASE w # Head(rest)
    <2>1. /\ last_cnt'[w] = last_cnt[w] /\ last_time'[w] = last_time[w]
          /\ last_pos'[w] = last_pos[w] /\ last_tick'[w] = last_tick[w]
      BY <1>1, <1>3, <1>5 DEF TypeOK, HistoryOK
    <2>2. ~Sampling(w)
      BY <1>5 DEF Sampling
    <2> QED  BY <1>1, <1>3, <1>4, <2>1, <2>2, QuietWheel
  <1>6. CASE w = Head(rest)
    <2>1. /\ last_cnt'[w] = now_cnt /\ last_time'[w] = now % TickRange
          /\ last_pos'[w] = read_pos[w] /\ last_tick'[w] = now
      BY <1>1, <1>3, <1>6 DEF TypeOK, HistoryOK
    <2>2. ~first[w]
      BY <1>2, <1>6 DEF LoopInv, FirstInv
    <2>3. Started(w) /\ Sampling(w)
      BY <1>2, <1>4, <1>6, <2>2 DEF Started, Entering, Sampling
    <2>4. read_time[w] <= now /\ now <= read_time[w] + MaxStall
      BY <1>1 DEF WheelInv, TimeInv
    <2>5. TimeInv(w)'
      <3>1. now <= now /\ read_time[w] <= now + MaxStall
        BY <1>1, <2>4, WheelTypes
      <3> QED  BY <1>3, <1>4, <2>1, <2>4, <3>1 DEF TimeInv, Entering
    <2>6. CountInv(w)'
      <3>1. /\ now_cnt = Signed(read_pos[w])
            /\ Within(pos[w], read_pos[w], MaxStep * (now - read_time[w]))
        BY <1>1, <2>3 DEF WheelInv, CountInv
      <3> QED  BY <1>3, <1>4, <2>1, <3>1 DEF CountInv
    <2> QED  BY <2>5, <2>6 DEF WheelInv
  <1> QED  BY <1>5, <1>6

LEMMA TickWheels ==
  ASSUME LoopInv, Tick, NEW w \in WheelSet PROVE WheelInv(w)'
  <1>1. TypeInv /\ TypeOK /\ HistoryOK /\ TimeInv(w) /\ CountInv(w)
    BY DEF LoopInv, TypeInv, WheelInv
  <1>2. /\ now' = now + 1 /\ now - read_time[w] < MaxStall /\ rest' = rest
        /\ pc' = IF pc = "delay" THEN "recv" ELSE pc
        /\ UNCHANGED <<first, last_cnt, last_time, now_cnt>>
        /\ UNCHANGED <<read_pos, last_pos, read_time, last_tick>>
    BY DEF Tick, calcVars, histVars
  <1>3. /\ Sampling(w)' <=> Sampling(w)
        /\ Entering(w)' <=> Entering(w)
        /\ Started(w)' <=> Started(w)
    BY <1>2 DEF Sampling, Entering, Started
  <1>4. PICK s \in -MaxStep .. MaxStep : pos'[w] = pos[w] + s
    <2>1. PICK step \in [WheelSet -> -MaxStep .. MaxStep] :
              pos' = [u \in WheelSet |-> pos[u] + step[u]]
      BY DEF Tick
    <2>2. step[w] \in -MaxStep .. MaxStep /\ pos'[w] = pos[w] + step[w]
      BY <2>1
    <2> QED  BY <2>2
  <1>5. /\ read_time[w] <= now /\ now <= read_time[w] + MaxStall /\ last_tick[w] <= now
    BY <1>1 DEF TimeInv
  <1>6. TimeInv(w)'
    <2>1. read_time[w] <= now + 1 /\ now + 1 <= read_time[w] + MaxStall /\ last_tick[w] <= now + 1
      BY <1>1, <1>2, <1>5, WheelTypes
    <2> QED  BY <1>1, <1>2, <1>3, <2>1 DEF TimeInv, Entering
  <1>7. ASSUME NEW x \in Int, Within(pos[w], x, MaxStep * (now - read_time[w]))
        PROVE  Within(pos'[w], x, MaxStep * ((now + 1) - read_time[w]))
    <2>1. PICK d \in Nat : d = now - read_time[w]
      BY <1>1, <1>5, WheelTypes
    <2>2. (now + 1) - read_time[w] = d + 1
      BY <1>1, <2>1, WheelTypes
    <2>3. MaxStep * d \in Nat /\ MaxStep * (d + 1) = MaxStep * d + MaxStep
      BY StepProduct
    <2>4. pos[w] - x <= MaxStep * d /\ x - pos[w] <= MaxStep * d
      BY <1>7, <2>1 DEF Within
    <2>5. /\ (pos[w] + s) - x <= MaxStep * d + MaxStep
          /\ x - (pos[w] + s) <= MaxStep * d + MaxStep
      BY <1>1, <1>4, <2>3, <2>4, WheelTypes
    <2> QED  BY <1>4, <2>2, <2>3, <2>5 DEF Within
  <1>8. CountInv(w)'
    <2>1. read_pos[w] \in Int /\ last_pos[w] \in Int
      BY <1>1, WheelTypes
    <2>2. CASE Sampling(w)
      <3>1. Started(w) => Within(pos'[w], read_pos[w], MaxStep * ((now + 1) - read_time[w]))
        BY <1>1, <1>7, <2>1, <2>2 DEF CountInv
      <3> QED  BY <1>1, <1>2, <1>3, <2>2, <3>1 DEF CountInv
    <2>3. CASE ~Sampling(w)
      <3>1. Started(w) => Within(pos'[w], last_pos[w], MaxStep * ((now + 1) - read_time[w]))
        BY <1>1, <1>7, <2>1, <2>3 DEF CountInv
      <3> QED  BY <1>1, <1>2, <1>3, <2>3, <3>1 DEF CountInv
    <2> QED  BY <2>2, <2>3
  <1> QED  BY <1>6, <1>8 DEF WheelInv

LEMMA LoopInvNext == LoopInv /\ [Next]_vars => LoopInv'
  <1> SUFFICES ASSUME LoopInv, [Next]_vars PROVE LoopInv'
    OBVIOUS
  <1>1. TypeInv' /\ FirstInv'
    BY NextType, FirstInvNext DEF LoopInv
  <1>2. ASSUME NEW w \in WheelSet PROVE WheelInv(w)'
    <2>1. CASE UNCHANGED vars \/ Recv \/ Drive \/ Release \/ PrintLine
      BY <2>1, QuietWheels
    <2>2. CASE FirstTick
      BY <2>2, FirstTickWheels
    <2>3. CASE FirstCount
      BY <2>3, FirstCountWheels
    <2>4. CASE ControlRead \/ PrintRead
      BY <2>4, ReadWheels
    <2>5. CASE ControlSample \/ PrintSample
      BY <2>5, SampleWheels
    <2>6. CASE Tick
      BY <2>6, TickWheels
    <2> QED  BY <2>1, <2>2, <2>3, <2>4, <2>5, <2>6 DEF Next, Turn
  <1>3. (\A w \in WheelSet : WheelInv(w))'
    BY <1>2
  <1> QED  BY <1>1, <1>3 DEF LoopInv

LEMMA LoopInvSamples == LoopInv => SamplesAreTrue
  <1> SUFFICES ASSUME LoopInv, pc \in {"sample", "printSample"}
               PROVE  LET w == Head(rest)
                          dt == now - last_tick[w]
                      IN Rpm(w) = ((read_pos[w] - last_pos[w]) * RpmScale)
                                    \div (IF dt = 0 THEN 1 ELSE dt)
    BY DEF SamplesAreTrue
  <1>1. TypeInv /\ TypeOK
    BY DEF LoopInv, TypeInv
  <1>2. PICK w \in WheelSet : w = Head(rest)
    BY <1>1, RestFacts DEF Serving
  <1>3. TimeInv(w) /\ CountInv(w) /\ Sampling(w) /\ ~first[w]
    BY <1>2 DEF LoopInv, WheelInv, Sampling, FirstInv
  <1>4. Started(w)
    BY <1>3 DEF Started
  <1>5. /\ last_cnt[w] = Signed(last_pos[w]) /\ now_cnt = Signed(read_pos[w])
        /\ Within(read_pos[w], last_pos[w], MaxStep * MaxStall)
    BY <1>3, <1>4 DEF CountInv
  <1>6. diff_cnt(w) = read_pos[w] - last_pos[w]
    <2>1. MaxStep * MaxStall \in Int /\ CntHalf \in Int /\ MaxStep * MaxStall < CntHalf
      BY SpeedLoopAssumption
    <2>2. read_pos[w] \in Int /\ last_pos[w] \in Int
      BY <1>1, WheelTypes
    <2>3. -CntHalf <= read_pos[w] - last_pos[w] /\ read_pos[w] - last_pos[w] < CntHalf
      BY <1>5, <2>1, <2>2 DEF Within
    <2> QED  BY <1>5, <2>2, <2>3, SignedDifference DEF diff_cnt
  <1>7. Elapsed(w) = IF now - last_tick[w] = 0 THEN 1 ELSE now - last_tick[w]
    <2>1. /\ now <= read_time[w] + MaxStall /\ last_tick[w] <= now
          /\ read_time[w] <= last_tick[w] + 2 * MaxStall
          /\ last_time[w] = last_tick[w] % TickRange
      BY <1>3, <1>4 DEF TimeInv
    <2>2. 0 <= now - last_tick[w] /\ now - last_tick[w] < TickRange
      BY <1>1, <2>1, WheelTypes, SpeedLoopAssumption
    <2>3. ((now % TickRange) - last_time[w]) % TickRange = now - last_tick[w]
      BY <1>1, <2>1, <2>2, WheelTypes, TickDifference
    <2> QED  BY <2>3 DEF Elapsed, rt_tick_get
  <1> QED  BY <1>2, <1>6, <1>7 DEF Rpm

\* CalcSpeed::calc: the speed of every sample is the distance really turned over
\* the time that really passed, for every width of the counter and of the tick
\* and however often either runs over, as long as the wheel does not turn half
\* the counter's range between two reads.
THEOREM LoopSamplesAreTrue == Spec => []SamplesAreTrue
  <1>1. Init => LoopInv
    BY InitType, InitWheels DEF LoopInv
  <1> QED  BY <1>1, LoopInvNext, LoopInvSamples, PTL DEF Spec

===============================================================================
