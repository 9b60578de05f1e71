---------------------------- MODULE SerialRxProofs ----------------------------
(***************************************************************************)
(* Reception on uart2 for every size of the buffer, any number of bytes and *)
(* handlers that are late by any number of byte times: the invariants of    *)
(* SerialRx, and that it implements ByteStream.                             *)
(*                                                                         *)
(* All indices lie in 0 .. bufsz - 1, so that the remainders of the code    *)
(* become additions and subtractions of bufsz (Wrap, ModSucc); what is left *)
(* is linear arithmetic on put_index, get_index, last_index and the         *)
(* position of the DMA.                                                     *)
(***************************************************************************)
EXTENDS SerialRx, TLAPS

----------------------------------------------------------------------------
(* Remainders                                                               *)

LEMMA DivMod ==
  ASSUME NEW x \in Int, NEW d \in Nat \ {0}
  PROVE  /\ x \div d \in Int /\ x % d \in 0 .. d - 1
         /\ x = (x \div d) * d + (x % d)
  BY SMT

\* x is q times d with the rest r.
Divides(x, d, q, r) ==
  x \in Int /\ d \in Nat \ {0} /\ q \in Int /\ r \in 0 .. d - 1 /\ x = q * d + r

LEMMA ModUnique ==
  ASSUME NEW x, NEW d, NEW q, NEW r, Divides(x, d, q, r)
  PROVE  x % d = r
  <1> DEFINE k == x \div d
             m == x % d
  <1>0. x \in Int /\ d \in Nat \ {0} /\ q \in Int /\ r \in 0 .. d - 1 /\ x = q * d + r
    BY DEF Divides
  <1>1. k \in Int /\ m \in 0 .. d - 1 /\ x = k * d + m
    BY <1>0, DivMod
  <1> HIDE DEF k, m
  <1>2. (q - k) * d = m - r
    BY <1>0, <1>1
  <1>3. q - k \in Int /\ m - r < d /\ m - r > -d
    BY <1>0, <1>1
  <1>4. CASE q - k >= 1
    <2>1. (q - k) * d >= d
      BY <1>0, <1>3, <1>4
    <2> QED
      BY <1>0, <1>2, <1>3, <2>1
  <1>5. CASE q - k <= -1
    <2>1. (q - k) * d <= -d
      BY <1>0, <1>3, <1>5
    <2> QED
      BY <1>0, <1>2, <1>3, <2>1
  <1>6. CASE q - k = 0
    <2>1. m = r
      BY <1>0, <1>1, <1>2, <1>6
    <2> QED
      BY <2>1 DEF m
  <1> QED
    BY <1>0, <1>3, <1>4, <1>5, <1>6

\* The constants, for the provers.
LEMMA Sizes ==
  /\ bufsz \in Nat \ {0} /\ bufsz >= 2 /\ bufsz < IndexRange /\ IndexRange \in Nat \ {0}
  /\ bufsz \div 2 \in Nat /\ bufsz = 2 * (bufsz \div 2)
  <1>1. IndexRange \in Nat \ {0}
    BY SMT DEF IndexRange
  <1> QED
    BY <1>1, SerialRxAssumption, SMT

\* A buffer is at most half as large as the range of an index.
LEMMA HalfRange ==
  \E k \in Nat : k >= 2 /\ IndexRange = k * bufsz /\ 2 * bufsz <= IndexRange
  <1> DEFINE k == IndexRange \div bufsz
  <1>1. k \in Int /\ IndexRange = k * bufsz
    <2>1. IndexRange % bufsz = 0
      BY SerialRxAssumption
    <2>2. k \in Int /\ IndexRange = k * bufsz + (IndexRange % bufsz)
      BY Sizes, DivMod
    <2>3. k * bufsz \in Int
      BY <2>2, Sizes
    <2> HIDE DEF k
    <2> QED
      BY <2>1, <2>2, <2>3
  <1> HIDE DEF k
  <1>2. k # 1
    BY <1>1, Sizes
  <1>3. k > 0
    <2>1. SUFFICES ASSUME k <= 0 PROVE FALSE
      BY <1>1
    <2>2. k * bufsz <= 0
      BY <1>1, <2>1, Sizes
    <2> QED
      BY <1>1, <2>2, Sizes
  <1>4. k >= 2
    BY <1>1, <1>2, <1>3
  <1>5. 2 * bufsz <= k * bufsz
    BY <1>1, <1>4, Sizes
  <1> QED
    BY <1>1, <1>4, <1>5

\* What an index becomes when a length, which may be negative, is added to it.
LEMMA Wrap ==
  ASSUME NEW x \in Int, -bufsz <= x, x < 2 * bufsz
  PROVE  /\ x >= 0 => x % IndexRange = x
         /\ (x % IndexRange) % bufsz =
              IF x < 0 THEN x + bufsz ELSE IF x < bufsz THEN x ELSE x - bufsz
  <1>1. PICK k \in Nat : k >= 2 /\ IndexRange = k * bufsz /\ 2 * bufsz <= IndexRange
    BY HalfRange
  <1>2. CASE x < 0
    <2>1. x % IndexRange = x + IndexRange
      <3>1. Divides(x, IndexRange, -1, x + IndexRange)
        BY <1>1, <1>2, Sizes DEF Divides
      <3> QED
        BY <3>1, ModUnique
    <2>2. (x + IndexRange) % bufsz = x + bufsz
      <3>1. Divides(x + IndexRange, bufsz, k - 1, x + bufsz)
        BY <1>1, <1>2, Sizes DEF Divides
      <3> QED
        BY <3>1, ModUnique
    <2> QED
      BY <1>2, <2>1, <2>2
  <1>3. CASE x >= 0
    <2>1. x % IndexRange = x
      <3>1. Divides(x, IndexRange, 0, x)
        BY <1>1, <1>3, Sizes DEF Divides
      <3> QED
        BY <3>1, ModUnique
    <2>2. CASE x < bufsz
      <3>1. Divides(x, bufsz, 0, x)
        BY <1>3, <2>2, Sizes DEF Divides
      <3>2. x % bufsz = x
        BY <3>1, ModUnique
      <3> QED
        BY <1>3, <2>1, <2>2, <3>2
    <2>3. CASE x >= bufsz
      <3>1. Divides(x, bufsz, 1, x - bufsz)
        BY <1>3, <2>3, Sizes DEF Divides
      <3>2. x % bufsz = x - bufsz
        BY <3>1, ModUnique
      <3> QED
        BY <1>3, <2>1, <2>3, <3>2, Sizes
    <2> QED
      BY <2>2, <2>3, Sizes
  <1> QED
    BY <1>2, <1>3

\* The next position in the buffer.
LEMMA ModSucc ==
  ASSUME NEW x \in Nat
  PROVE  /\ x % bufsz \in 0 .. bufsz - 1
         /\ (x + 1) % bufsz = IF x % bufsz = bufsz - 1 THEN 0 ELSE (x % bufsz) + 1
  <1> DEFINE q == x \div bufsz
             r == x % bufsz
  <1>1. q \in Int /\ r \in 0 .. bufsz - 1 /\ x = q * bufsz + r
    BY DivMod, Sizes
  <1> HIDE DEF q, r
  <1>2. CASE r = bufsz - 1
    <2>1. Divides(x + 1, bufsz, q + 1, 0)
      BY <1>1, <1>2, Sizes DEF Divides
    <2>2. (x + 1) % bufsz = 0
      BY <2>1, ModUnique
    <2> QED
      BY <1>1, <1>2, <2>2 DEF r
  <1>3. CASE r # bufsz - 1
    <2>1. Divides(x + 1, bufsz, q, r + 1)
      BY <1>1, <1>3, Sizes DEF Divides
    <2>2. (x + 1) % bufsz = r + 1
      BY <2>1, ModUnique
    <2> QED
      BY <1>1, <1>3, <2>2 DEF r
  <1> QED
    BY <1>2, <1>3

\* Fewer than bufsz bytes have places of their own.
LEMMA ModDistinct ==
  ASSUME NEW i \in Int, NEW j \in Int, i < j, j - i < bufsz
  PROVE  i % bufsz # j % bufsz
  <1> DEFINE q == i \div bufsz
             r == i % bufsz
             p == j \div bufsz
             s == j % bufsz
  <1>1. q \in Int /\ r \in 0 .. bufsz - 1 /\ i = q * bufsz + r
    BY DivMod, Sizes
  <1>2. p \in Int /\ s \in 0 .. bufsz - 1 /\ j = p * bufsz + s
    BY DivMod, Sizes
  <1> HIDE DEF q, r, p, s
  <1>3. SUFFICES ASSUME r = s PROVE FALSE
    BY DEF r, s
  <1>4. j - i = (p - q) * bufsz
    BY <1>1, <1>2, <1>3, Sizes
  <1>5. CASE p - q <= 0
    <2>1. (p - q) * bufsz <= 0
      BY <1>1, <1>2, <1>5, Sizes
    <2> QED
      BY <1>4, <2>1
  <1>6. CASE p - q >= 1
    <2>1. (p - q) * bufsz >= bufsz
      BY <1>1, <1>2, <1>6, Sizes
    <2> QED
      BY <1>4, <2>1, Sizes
  <1> QED
    BY <1>1, <1>2, <1>5, <1>6

----------------------------------------------------------------------------
(* The invariant                                                            *)

\* Bytes the DMA has written and no handler has looked at, when there are fewer
\* than bufsz.
Pending ==
  IF last_index <= recv_total_index THEN recv_total_index - last_index
  ELSE recv_total_index - last_index + bufsz

\* The put index and the length in hand together follow last_index.
Follows == put_index + InHand - last_index \in {-bufsz, 0, bufsz}

\* Without a DMA interrupt the DMA has not left the half of the buffer that
\* last_index is in.
SameHalf ==
  ~dma_irq => /\ last_index <= recv_total_index
              /\ last_index < bufsz \div 2 => recv_total_index < bufsz \div 2

FullIsEqual == is_full => get_index = put_index

\* The thread that is about to sleep next to unread bytes has missed a notice.
Noticed ==
  /\ pc = "take" /\ rx_notice = 0 /\ Unread > 0 => missed
  /\ pc = "waiting" /\ Unread > 0 => missed

\* What holds until the line outpaces the code: where the thread reads next, how
\* many bytes are where, and what the handlers find.
InStep ==
  /\ count <= w /\ w - count <= bufsz
  /\ get_index = count % bufsz
  /\ isr = "indexed" => recv_len \in 1 .. bufsz - 1
  /\ Unread + InHand + Pending = w - count
  /\ isr = "masked" => ~dma_irq
  /\ ~(ht /\ tc)
  /\ dma_irq => last_index # recv_total_index
  /\ dma_irq /\ (w - count = bufsz \/ isr = "indexed") =>
       recv_total_index = 0 \/ last_index < recv_total_index

\* The bytes that are not read yet are in the buffer.
Stored == \A k \in count + 1 .. w : buffer[(k - 1) % bufsz] = k

IInv ==
  /\ TypeOK /\ Follows /\ SameHalf /\ FullIsEqual /\ Noticed
  /\ ~outpaced => InStep /\ Stored

\* The position of the DMA and the length of the unread bytes are in range.
LEMMA Ranges ==
  ASSUME TypeOK
  PROVE  /\ recv_total_index \in 0 .. bufsz - 1
         /\ w \in Nat /\ put_index \in 0 .. bufsz - 1 /\ get_index \in 0 .. bufsz - 1
         /\ last_index \in 0 .. bufsz - 1 /\ recv_len \in -bufsz .. bufsz
         /\ is_full \in BOOLEAN /\ outpaced \in BOOLEAN /\ ht \in BOOLEAN /\ tc \in BOOLEAN
         /\ Unread \in 0 .. bufsz /\ InHand \in -bufsz .. bufsz /\ count \in Nat
  <1>1. /\ w \in Nat /\ put_index \in 0 .. bufsz - 1 /\ get_index \in 0 .. bufsz - 1
        /\ last_index \in 0 .. bufsz - 1 /\ recv_len \in -bufsz .. bufsz
        /\ is_full \in BOOLEAN /\ outpaced \in BOOLEAN /\ ht \in BOOLEAN /\ tc \in BOOLEAN /\ count \in Nat
    BY SerialRxAssumption DEF TypeOK
  <1>2. recv_total_index \in 0 .. bufsz - 1
    BY <1>1, ModSucc DEF recv_total_index
  <1>3. Unread \in 0 .. bufsz
    BY <1>1, Sizes DEF Unread, calc_recved_len
  <1>4. InHand \in -bufsz .. bufsz
    BY <1>1, Sizes DEF InHand
  <1> QED
    BY <1>1, <1>2, <1>3, <1>4

LEMMA InitIInv == Init => IInv
  <1> SUFFICES ASSUME Init PROVE IInv
    OBVIOUS
  <1>0. recv_total_index = 0
    <2>1. Divides(0, bufsz, 0, 0)
      BY Sizes DEF Divides
    <2> QED
      BY <2>1, ModUnique DEF Init, recv_total_index
  <1>1. TypeOK
    <2>1. MaxBytes \in Nat /\ MaxLate \in Nat /\ 0 \in 0 .. MaxBytes /\ 0 \in 0 .. MaxLate
      BY SerialRxAssumption
    <2>2. 0 \in 0 .. bufsz - 1 /\ 0 \in -bufsz .. bufsz
      BY Sizes
    <2>3. buffer \in [0 .. bufsz - 1 -> 0 .. MaxBytes]
      BY <2>1 DEF Init
    <2> QED
      BY <2>1, <2>2, <2>3 DEF Init, TypeOK
  <1>2. Follows /\ SameHalf /\ FullIsEqual
    BY <1>0, Sizes DEF Init, Follows, InHand, SameHalf, FullIsEqual
  <1>3. Unread = 0 /\ Pending = 0 /\ InHand = 0
    BY <1>0 DEF Init, Unread, calc_recved_len, Pending, InHand
  <1>4. Noticed
    BY <1>3 DEF Noticed
  <1>5. InStep
    BY <1>0, <1>3, Sizes DEF Init, InStep, recv_total_index, dma_irq
  <1>6. Stored
    BY DEF Init, Stored
  <1> QED
    BY <1>1, <1>2, <1>4, <1>5, <1>6 DEF IInv

----------------------------------------------------------------------------
(* The device: a length is added to the put index                           *)

\* The put index after update_put_index, whatever the length.
LEMMA PutIndex ==
  ASSUME TypeOK, NEW len \in Int, -bufsz <= put_index + len, len <= bufsz,
         update_put_index(len)
  PROVE  /\ put_index' = IF put_index + len < 0 THEN put_index + len + bufsz
                         ELSE IF put_index + len < bufsz THEN put_index + len
                         ELSE put_index + len - bufsz
         /\ put_index' \in 0 .. bufsz - 1
  <1> DEFINE x == put_index + len
  <1>1. x \in Int /\ -bufsz <= x /\ x < 2 * bufsz
    BY Ranges, Sizes
  <1>2. put_index' = (x % IndexRange) % bufsz
    BY DEF update_put_index
  <1>3. put_index' = IF x < 0 THEN x + bufsz ELSE IF x < bufsz THEN x ELSE x - bufsz
    <2> HIDE DEF x
    <2> QED
      BY <1>1, <1>2, Wrap
  <1> HIDE DEF x
  <1>4. put_index' \in 0 .. bufsz - 1
    BY <1>1, <1>3, Sizes
  <1> QED
    BY <1>3, <1>4, Ranges, Sizes DEF x

\* A full buffer has its get index at its put index.
LEMMA PutFull ==
  ASSUME TypeOK, NEW len, put_index' \in 0 .. bufsz - 1, update_put_index(len)
  PROVE  get_index' \in 0 .. bufsz - 1 /\ is_full' \in BOOLEAN /\ FullIsEqual'
  <1> DEFINE x == put_index + len
  <1>5. is_full' \in BOOLEAN
    <2> DEFINE c1 == /\ get_index <= put_index
                     /\ x % IndexRange >= bufsz /\ (x % IndexRange) % bufsz >= get_index
               c2 == get_index > put_index /\ x % IndexRange >= get_index
    <2>1. is_full' = (is_full \/ c1 \/ c2)
      BY DEF update_put_index
    <2> HIDE DEF c1, c2
    <2> QED
      BY <2>1, Zenon
  <1>6. get_index' = IF is_full' THEN put_index' ELSE get_index
    BY DEF update_put_index
  <1>7. get_index' \in 0 .. bufsz - 1
    BY <1>6, Ranges
  <1>8. FullIsEqual'
    BY <1>6 DEF FullIsEqual
  <1> QED
    BY <1>5, <1>7, <1>8

\* New bytes that fit are added to the unread ones and the get index stays.
LEMMA PutMore ==
  ASSUME TypeOK, FullIsEqual, NEW len \in 1 .. bufsz, Unread + len <= bufsz,
         update_put_index(len)
  PROVE  Unread' = Unread + len /\ get_index' = get_index
  <1> DEFINE x == put_index + len
  <1>1. /\ put_index' = IF x < bufsz THEN x ELSE x - bufsz
        /\ put_index' \in 0 .. bufsz - 1 /\ is_full' \in BOOLEAN
    <2>1. len \in Int /\ -bufsz <= put_index + len /\ len <= bufsz /\ put_index + len >= 0
      BY Ranges, Sizes
    <2>2. put_index' = IF put_index + len < 0 THEN put_index + len + bufsz
                       ELSE IF put_index + len < bufsz THEN put_index + len
                       ELSE put_index + len - bufsz
      BY <2>1, PutIndex
    <2>3. put_index' \in 0 .. bufsz - 1
      BY <2>1, PutIndex
    <2>4. put_index' = IF x < bufsz THEN x ELSE x - bufsz
      BY <2>1, <2>2, Ranges, Sizes
    <2>5. is_full' \in BOOLEAN
      BY <2>3, PutFull
    <2> QED
      BY <2>3, <2>4, <2>5
  <1>2. x % IndexRange = x /\ (x % IndexRange) % bufsz = put_index'
    <2>1. x \in Int /\ -bufsz <= x /\ x < 2 * bufsz /\ x >= 0
      BY Ranges, Sizes
    <2> HIDE DEF x
    <2>2. x % IndexRange = x
      BY <2>1, Wrap
    <2> QED
      BY <2>2 DEF update_put_index, x
  <1>3. ~is_full
    BY Ranges, Sizes DEF Unread, calc_recved_len, FullIsEqual
  <1>4. is_full' <=> \/ get_index <= put_index /\ x >= bufsz /\ put_index' >= get_index
                     \/ get_index > put_index /\ x >= get_index
    BY <1>2, <1>3 DEF update_put_index
  <1>5. get_index' = IF is_full' THEN put_index' ELSE get_index
    BY DEF update_put_index
  <1>6. Unread' = IF put_index' = get_index' THEN IF is_full' THEN bufsz ELSE 0
                  ELSE IF put_index' > get_index' THEN put_index' - get_index'
                  ELSE bufsz - (get_index' - put_index')
    BY DEF Unread, calc_recved_len
  <1>7. Unread = IF put_index = get_index THEN 0
                 ELSE IF put_index > get_index THEN put_index - get_index
                 ELSE bufsz - (get_index - put_index)
    BY <1>3 DEF Unread, calc_recved_len
  <1> HIDE DEF x
  <1>8. x = put_index + len
    BY DEF x
  <1>9. CASE is_full'
    BY <1>1, <1>4, <1>5, <1>6, <1>7, <1>8, <1>9, Ranges, Sizes, SMTT(30)
  <1>10. CASE ~is_full'
    BY <1>1, <1>4, <1>5, <1>6, <1>7, <1>8, <1>10, Ranges, Sizes, SMTT(30)
  <1> QED
    BY <1>9, <1>10

\* The device has been told of unread bytes, or there are none.
LEMMA DoneNotices ==
  ASSUME TypeOK, Noticed, NEW len, dma_done(len)
  PROVE  /\ Noticed' /\ rx_notice' \in Nat /\ missed' \in BOOLEAN
         /\ pc' \in {"read", "reset", "take", "waiting", "failed"}
         /\ UNCHANGED <<timed, count, ch>>
         /\ update_put_index(len)
  <1>1. CASE Unread' > 0 /\ Release
    <2>0. rx_notice \in Nat /\ UNCHANGED <<timed, count, ch>> /\ update_put_index(len)
      BY DEF TypeOK, dma_done
    <2>1. CASE pc = "waiting"
      BY <1>1, <2>0, <2>1 DEF Release, Noticed
    <2>2. CASE pc # "waiting"
      <3>1. rx_notice' = rx_notice + 1 /\ pc' = pc /\ missed' = missed
        BY <1>1, <2>2 DEF Release
      <3>2. rx_notice' \in Nat /\ rx_notice' # 0
        BY <2>0, <3>1
      <3>3. missed' \in BOOLEAN /\ pc' \in {"read", "reset", "take", "waiting", "failed"}
        BY <3>1 DEF TypeOK
      <3>4. Noticed'
        BY <2>2, <3>1, <3>2 DEF Noticed
      <3> QED
        BY <2>0, <3>2, <3>3, <3>4
    <2> QED
      BY <2>1, <2>2
  <1>2. CASE ~(Unread' > 0) /\ UNCHANGED <<rx_notice, pc, missed>>
    BY <1>2 DEF Noticed, TypeOK, dma_done
  <1> QED
    BY <1>1, <1>2 DEF dma_done, Unread

----------------------------------------------------------------------------
(* The line                                                                 *)

LEMMA ReceiveIInv == ASSUME IInv, Receive PROVE IInv'
  <1> DEFINE t == recv_total_index
  <1>0. TypeOK /\ Follows /\ SameHalf /\ FullIsEqual /\ Noticed
    BY DEF IInv
  <1>1. /\ UNCHANGED <<last_index, recv_len, isr, put_index, get_index, is_full, idle>>
        /\ UNCHANGED <<rx_notice, pc, timed, count, ch, missed>>
        /\ w' = w + 1 /\ busy' = TRUE /\ w < MaxBytes
    BY DEF Receive, driverVars, fifoVars, readerVars
  <1>2. /\ t \in 0 .. bufsz - 1
        /\ t' = IF t = bufsz - 1 THEN 0 ELSE t + 1
    <2>1. w \in Nat
      BY <1>0, Ranges
    <2> QED
      BY <1>1, <2>1, ModSucc DEF recv_total_index
  <1> HIDE DEF t
  <1>3. Unread' = Unread /\ InHand' = InHand
    BY <1>1 DEF Unread, InHand
  <1>4. dma_irq' <=> dma_irq \/ t' \in {0, bufsz \div 2}
    BY <1>1 DEF Receive, t, recv_total_index, dma_irq
  <1>5. outpaced' <=> outpaced \/ TooFast
    BY DEF Receive
  <1>6. TypeOK'
    <2>1. w' \in 0 .. MaxBytes /\ w + 1 \in 0 .. MaxBytes
      BY <1>0, <1>1, SerialRxAssumption DEF TypeOK
    <2>2. buffer' \in [0 .. bufsz - 1 -> 0 .. MaxBytes]
      BY <1>0, <2>1 DEF Receive, TypeOK
    <2>3. late' \in 0 .. MaxLate
      <3>1. late \in 0 .. MaxLate /\ MaxLate \in Nat
        BY <1>0, SerialRxAssumption DEF TypeOK
      <3>2. CASE Interrupting
        BY <3>1, <3>2 DEF Receive, ByteTime
      <3>3. CASE ~Interrupting
        BY <3>1, <3>3 DEF Receive, ByteTime
      <3> QED
        BY <3>2, <3>3
    <2>4. /\ ht' \in BOOLEAN /\ tc' \in BOOLEAN
          /\ outpaced' \in BOOLEAN /\ busy' \in BOOLEAN
      <3>1. /\ ht' = (ht \/ (w + 1) % bufsz = bufsz \div 2)
            /\ tc' = (tc \/ (w + 1) % bufsz = 0)
        BY DEF Receive
      <3>2. outpaced' = (outpaced \/ TooFast)
        BY DEF Receive
      <3> QED
        BY <1>1, <3>1, <3>2, Zenon
    <2> QED
      BY <1>0, <1>1, <2>1, <2>2, <2>3, <2>4 DEF TypeOK
  <1>7. Follows' /\ FullIsEqual'
    BY <1>0, <1>1, <1>3 DEF Follows, FullIsEqual
  <1>8. Noticed'
    BY <1>0, <1>1, <1>3 DEF Noticed
  <1>9. SameHalf'
    <2> SUFFICES ASSUME ~dma_irq'
                 PROVE  last_index <= t' /\ (last_index < bufsz \div 2 => t' < bufsz \div 2)
      BY <1>1 DEF SameHalf, t
    <2>1. last_index <= t /\ (last_index < bufsz \div 2 => t < bufsz \div 2)
      BY <1>0, <1>4 DEF SameHalf, t
    <2> QED
      BY <1>0, <1>2, <1>4, <2>1, Ranges, Sizes
  <1>10. ASSUME ~outpaced' PROVE InStep' /\ Stored'
    <2>1. InStep /\ Stored /\ ~TooFast
      BY <1>5, <1>10 DEF IInv
    <2>2. /\ isr # "masked" /\ (isr = "indexed" => ~dma_irq)
          /\ w - count < bufsz
          /\ dma_irq => w - count < bufsz - 1
      <3>1. isr # "masked" /\ ~(isr = "indexed" /\ dma_irq)
        BY <2>1 DEF TooFast
      <3>2. ~(w - count >= IF Interrupting THEN bufsz - 1 ELSE bufsz)
        BY <2>1 DEF TooFast
      <3>3. w - count \in Int
        BY <1>0, Ranges
      <3>4. dma_irq => Interrupting
        BY DEF Interrupting
      <3> QED
        BY <3>1, <3>2, <3>3, <3>4, Sizes
    <2>3. ~dma_irq => last_index <= t /\ (last_index < bufsz \div 2 => t < bufsz \div 2)
      BY <1>0 DEF SameHalf, t
    <2>4. Pending = IF last_index <= t THEN t - last_index ELSE t - last_index + bufsz
      BY DEF Pending, t
    <2>5. Pending' = IF last_index <= t' THEN t' - last_index ELSE t' - last_index + bufsz
      BY <1>1 DEF Pending, t
    <2>6. /\ Unread + InHand + Pending = w - count
          /\ InHand >= 0 /\ InHand \in Int /\ Unread \in Nat
      BY <1>0, <2>1, Ranges DEF InStep, InHand
    <2>7. last_index \in 0 .. bufsz - 1 /\ count \in Nat /\ w \in Nat
      BY <1>0, Ranges
    <2>8. Pending < bufsz - 1 /\ Pending \in Nat
      <3>1. CASE dma_irq
        BY <1>2, <2>2, <2>4, <2>6, <2>7, <3>1, Sizes
      <3>2. CASE ~dma_irq
        BY <1>2, <2>3, <2>4, <2>7, <3>2, Sizes
      <3> QED
        BY <3>1, <3>2
    <2>9. Pending' = Pending + 1
      BY <1>2, <2>4, <2>5, <2>7, <2>8, Sizes
    <2>10. InStep'
      <3>1. /\ count' <= w' /\ w' - count' <= bufsz
            /\ Unread' + InHand' + Pending' = w' - count'
        BY <1>1, <1>3, <2>1, <2>2, <2>6, <2>7, <2>8, <2>9, Sizes DEF InStep
      <3>2. get_index' = count' % bufsz /\ (isr' = "indexed" => recv_len' \in 1 .. bufsz - 1)
        BY <1>1, <2>1 DEF InStep
      <3>3. isr' # "masked"
        BY <1>1, <2>2
      <3>4. last_index' # t'
        BY <1>1, <1>2, <2>5, <2>7, <2>8, <2>9, Sizes
      <3>5. w' - count' = bufsz \/ isr' = "indexed" => t' = 0 \/ last_index' < t'
        <4>1. w' - count' = bufsz \/ isr' = "indexed" => ~dma_irq
          BY <1>1, <2>2, <2>7, Sizes
        <4> QED
          BY <1>1, <1>2, <2>3, <2>7, <4>1, Sizes
      <3>6. ~(ht' /\ tc')
        <4>1. CASE t' \in {0, bufsz \div 2}
          <5>1. ~dma_irq
            BY <1>1, <2>1, <4>1 DEF TooFast, t, recv_total_index
          <5>2. bufsz \div 2 # 0
            BY Sizes
          <5> QED
            BY <1>1, <5>1, <5>2 DEF Receive, dma_irq
        <4>2. CASE t' \notin {0, bufsz \div 2}
          BY <1>1, <2>1, <4>2 DEF Receive, InStep, t, recv_total_index
        <4> QED
          BY <4>1, <4>2
      <3> QED
        BY <3>1, <3>2, <3>3, <3>4, <3>5, <3>6 DEF InStep, t
    <2>11. Stored'
      <3> SUFFICES ASSUME NEW k \in count + 1 .. w + 1
                   PROVE  buffer'[(k - 1) % bufsz] = k
        BY <1>1 DEF Stored
      <3>1. k \in Int /\ count + 1 <= k /\ k <= w + 1
        BY <2>7
      <3>2. /\ buffer' = [buffer EXCEPT ![w % bufsz] = w + 1]
            /\ buffer \in [0 .. bufsz - 1 -> 0 .. MaxBytes]
            /\ w % bufsz \in 0 .. bufsz - 1
        BY <1>0, <2>7, ModSucc DEF Receive, TypeOK
      <3>3. CASE k = w + 1
        <4>1. k - 1 = w
          BY <2>7, <3>3
        <4> QED
          BY <3>2, <3>3, <4>1
      <3>4. CASE k <= w
        <4>1. (k - 1) % bufsz # w % bufsz
          <5>1. k - 1 \in Int /\ w \in Int /\ k - 1 < w /\ w - (k - 1) < bufsz
            BY <2>2, <2>7, <3>1, <3>4, Sizes
          <5> QED
            BY <5>1, ModDistinct
        <4>2. k - 1 \in Nat /\ k \in count + 1 .. w
          BY <2>7, <3>1, <3>4
        <4>3. buffer[(k - 1) % bufsz] = k
          BY <2>1, <4>2 DEF Stored
        <4>4. (k - 1) % bufsz \in 0 .. bufsz - 1
          BY <4>2, ModSucc
        <4> QED
          BY <3>2, <4>1, <4>3, <4>4
      <3> QED
        BY <2>7, <3>1, <3>3, <3>4
    <2> QED
      BY <2>10, <2>11
  <1> QED
    BY <1>6, <1>7, <1>8, <1>9, <1>10 DEF IInv

LEMMA LineIdleIInv == ASSUME IInv, LineIdle PROVE IInv'
  <1>1. /\ UNCHANGED <<w, buffer, ht, tc, last_index, recv_len, isr, put_index, get_index,
                       is_full>>
        /\ UNCHANGED <<rx_notice, pc, timed, count, ch, missed>>
        /\ busy' = FALSE /\ idle' = TRUE
    BY DEF LineIdle, driverVars, fifoVars, readerVars
  <1>2. outpaced' \in BOOLEAN /\ (outpaced => outpaced')
    <2>1. outpaced' = (outpaced \/ isr \in {"indexed", "clear"})
      BY DEF LineIdle
    <2> QED
      BY <2>1, Zenon
  <1>3. late' \in 0 .. MaxLate
    <2>1. late \in 0 .. MaxLate /\ MaxLate \in Nat
      BY SerialRxAssumption DEF TypeOK, IInv
    <2>2. CASE Interrupting
      BY <2>1, <2>2 DEF LineIdle, ByteTime
    <2>3. CASE ~Interrupting
      BY <2>1, <2>3 DEF LineIdle, ByteTime
    <2> QED
      BY <2>2, <2>3
  <1>4. TypeOK'
    BY <1>1, <1>2, <1>3 DEF IInv, TypeOK
  <1>5. /\ Unread' = Unread /\ InHand' = InHand /\ Pending' = Pending
        /\ recv_total_index' = recv_total_index
    BY <1>1 DEF Unread, InHand, Pending, recv_total_index
  <1>6. Follows' /\ SameHalf' /\ FullIsEqual' /\ Noticed'
    BY <1>1, <1>5 DEF IInv, Follows, SameHalf, FullIsEqual, Noticed, dma_irq
  <1>7. ~outpaced' => InStep' /\ Stored'
    BY <1>1, <1>2, <1>5 DEF IInv, InStep, Stored, dma_irq
  <1> QED
    BY <1>4, <1>6, <1>7 DEF IInv

----------------------------------------------------------------------------
(* The handlers                                                             *)

\* The clock of the late interrupts stays in range.
LEMMA ServedLate == ASSUME TypeOK, Served PROVE late' \in 0 .. MaxLate
  <1>1. late \in 0 .. MaxLate /\ 0 \in 0 .. MaxLate
    BY SerialRxAssumption DEF TypeOK
  <1> QED
    BY <1>1 DEF Served

\* The DMA handler gives its length to the device; a length that is negative,
\* because the handler came after the wrap of the DMA and the byte behind it,
\* takes the put index straight to the position of the DMA.
LEMMA DmaPut ==
  ASSUME IInv, dma_irq, isr # "masked", dma_recv_len # 0, update_put_index(dma_recv_len)
  PROVE  /\ put_index' \in 0 .. bufsz - 1
         /\ put_index' + InHand - recv_total_index \in {-bufsz, 0, bufsz}
         /\ ~outpaced => Unread' = Unread + Pending /\ get_index' = get_index
  <1> DEFINE t == recv_total_index
             len == dma_recv_len
  <1>0. TypeOK /\ Follows /\ FullIsEqual
    BY DEF IInv
  <1>1. /\ t \in 0 .. bufsz - 1 /\ put_index \in 0 .. bufsz - 1
        /\ last_index \in 0 .. bufsz - 1 /\ get_index \in 0 .. bufsz - 1
        /\ InHand \in -bufsz .. bufsz /\ Unread \in 0 .. bufsz /\ is_full \in BOOLEAN
        /\ w \in Nat /\ count \in Nat
    BY <1>0, Ranges
  <1>2. len = IF t = 0 THEN bufsz - last_index ELSE t - last_index
    BY DEF dma_recv_len
  <1>3. Pending = IF last_index <= t THEN t - last_index ELSE t - last_index + bufsz
    BY DEF Pending
  <1>4. update_put_index(len)
    OBVIOUS
  <1>5. put_index + InHand - last_index \in {-bufsz, 0, bufsz}
    BY <1>0 DEF Follows
  <1> HIDE DEF t, len
  <1>6. len \in Int /\ -bufsz <= put_index + len /\ len <= bufsz
    BY <1>1, <1>2, Sizes
  <1>7. /\ put_index' = IF put_index + len < 0 THEN put_index + len + bufsz
                        ELSE IF put_index + len < bufsz THEN put_index + len
                        ELSE put_index + len - bufsz
        /\ put_index' \in 0 .. bufsz - 1
    BY <1>0, <1>4, <1>6, PutIndex
  <1>8. put_index' + InHand - t \in {-bufsz, 0, bufsz}
    <2>1. len = t - last_index \/ len = t - last_index + bufsz
      BY <1>1, <1>2, Sizes
    <2>2. \/ put_index' = put_index + len + bufsz \/ put_index' = put_index + len
          \/ put_index' = put_index + len - bufsz
      BY <1>7
    <2> QED
      BY <1>1, <1>5, <1>6, <1>7, <2>1, <2>2, Sizes
  <1>9. ASSUME ~outpaced PROVE Unread' = Unread + Pending /\ get_index' = get_index
    <2>1. /\ w - count <= bufsz /\ Unread + InHand + Pending = w - count
          /\ InHand >= 0 /\ last_index # t
          /\ w - count = bufsz \/ isr = "indexed" => t = 0 \/ last_index < t
      BY <1>1, <1>9 DEF IInv, InStep, InHand, t
    <2>2. CASE t = 0 \/ last_index < t
      <3>1. len = Pending /\ len \in 1 .. bufsz /\ Unread + len <= bufsz
        BY <1>1, <1>2, <1>3, <2>1, <2>2, Sizes
      <3>2. Unread' = Unread + len /\ get_index' = get_index
        BY <1>0, <1>4, <3>1, PutMore
      <3> QED
        BY <3>1, <3>2
    <2>3. CASE ~(t = 0 \/ last_index < t)
      <3>1. isr # "indexed" /\ InHand = 0 /\ w - count < bufsz
        BY <1>1, <2>1, <2>3, Sizes DEF InHand
      <3>2. put_index = last_index /\ put_index + len = t
        BY <1>1, <1>2, <1>5, <2>3, <3>1, Sizes
      <3>3. put_index' = t /\ t < last_index /\ t \in Int /\ t < bufsz
        BY <1>1, <1>7, <2>1, <2>3, <3>2, Sizes
      <3>4. t % IndexRange = t
        <4>1. t >= 0 /\ -bufsz <= t /\ t < 2 * bufsz
          BY <1>1, Sizes
        <4> QED
          BY <3>3, <4>1, Wrap
      <3>5. ~is_full
        BY <1>0, <1>1, <1>3, <2>1, <3>1, <3>3, Sizes DEF Unread, calc_recved_len, FullIsEqual
      <3>6. is_full' <=> \/ get_index <= put_index /\ t >= bufsz /\ put_index' >= get_index
                         \/ get_index > put_index /\ t >= get_index
        BY <1>4, <3>2, <3>4, <3>5 DEF update_put_index
      <3>7. ~is_full'
        BY <1>1, <3>2, <3>3, <3>6, Sizes
      <3>8. get_index' = get_index
        BY <1>4, <3>7 DEF update_put_index
      <3>9. Unread = IF put_index = get_index THEN 0
                     ELSE IF put_index > get_index THEN put_index - get_index
                     ELSE bufsz - (get_index - put_index)
        BY <3>5 DEF Unread, calc_recved_len
      <3>10. Unread' = IF put_index' = get_index THEN 0
                       ELSE IF put_index' > get_index THEN put_index' - get_index
                       ELSE bufsz - (get_index - put_index')
        BY <3>7, <3>8 DEF Unread, calc_recved_len
      <3> QED
        BY <1>1, <1>3, <2>1, <3>1, <3>2, <3>3, <3>8, <3>9, <3>10, Sizes
    <2> QED
      BY <2>2, <2>3
  <1> QED
    BY <1>7, <1>8, <1>9 DEF t, len

LEMMA DmaIsrIInv == ASSUME IInv, dma_isr PROVE IInv'
  <1>0. TypeOK /\ Follows /\ FullIsEqual /\ Noticed
    BY DEF IInv
  <1>1. /\ dma_irq /\ isr # "masked" /\ last_index' = recv_total_index
        /\ UNCHANGED <<w, buffer, busy, idle, outpaced, recv_len, isr>> /\ Served
        /\ ht' = FALSE /\ tc' = (ht /\ tc)
    BY DEF dma_isr, HAL_DMA_IRQHandler
  <1>2. recv_total_index' = recv_total_index /\ InHand' = InHand
    BY <1>1 DEF recv_total_index, InHand
  <1>3. recv_total_index \in 0 .. bufsz - 1 /\ last_index \in 0 .. bufsz - 1
    BY <1>0, Ranges
  <1>4. Pending' = 0
    BY <1>1, <1>2, <1>3 DEF Pending
  <1>5. SameHalf'
    BY <1>1, <1>2, <1>3, Sizes DEF SameHalf
  <1>6. late' \in 0 .. MaxLate
    BY <1>0, <1>1, ServedLate
  \* What is left to show of the device and the thread.
  <1>7. SUFFICES /\ put_index' \in 0 .. bufsz - 1 /\ get_index' \in 0 .. bufsz - 1
                 /\ is_full' \in BOOLEAN /\ FullIsEqual'
                 /\ rx_notice' \in Nat /\ missed' \in BOOLEAN
                 /\ pc' \in {"read", "reset", "take", "waiting", "failed"}
                 /\ UNCHANGED <<timed, count, ch>> /\ Noticed'
                 /\ put_index' + InHand - recv_total_index \in {-bufsz, 0, bufsz}
                 /\ ~outpaced => Unread' = Unread + Pending /\ get_index' = get_index
    <2> SUFFICES ASSUME /\ put_index' \in 0 .. bufsz - 1 /\ get_index' \in 0 .. bufsz - 1
                        /\ is_full' \in BOOLEAN /\ FullIsEqual'
                        /\ rx_notice' \in Nat /\ missed' \in BOOLEAN
                        /\ pc' \in {"read", "reset", "take", "waiting", "failed"}
                        /\ UNCHANGED <<timed, count, ch>> /\ Noticed'
                        /\ put_index' + InHand - recv_total_index \in {-bufsz, 0, bufsz}
                        /\ ~outpaced => Unread' = Unread + Pending /\ get_index' = get_index
                 PROVE  IInv'
      OBVIOUS
    <2>1. TypeOK'
      <3>1. ht' \in BOOLEAN /\ tc' \in BOOLEAN
        BY <1>1, Zenon
      <3> QED
        BY <1>0, <1>1, <1>3, <1>6, <3>1 DEF TypeOK
    <2>2. Follows'
      BY <1>1, <1>2 DEF Follows
    <2>3. ASSUME ~outpaced' PROVE InStep' /\ Stored'
      <3>1. InStep /\ Stored /\ ~outpaced
        BY <1>1, <2>3 DEF IInv
      <3>2. Unread' + InHand' + Pending' = Unread + InHand + Pending
        <4>1. Unread \in Int /\ InHand \in Int
          BY <1>0, Ranges
        <4>2. Pending \in Int
          BY <1>3, Sizes DEF Pending
        <4> QED
          BY <1>2, <1>4, <3>1, <4>1, <4>2
      <3>3. InStep'
        <4>1. ~dma_irq' /\ ~(ht' /\ tc')
          BY <1>1, <3>1, Zenon DEF InStep, dma_irq
        <4> QED
          BY <1>1, <3>1, <3>2, <4>1 DEF InStep
      <3>4. Stored'
        BY <1>1, <3>1 DEF Stored
      <3> QED
        BY <3>3, <3>4
    <2> QED
      BY <1>5, <2>1, <2>2, <2>3 DEF IInv
  <1>8. CASE dma_recv_len # 0
    <2>1. dma_done(dma_recv_len)
      BY <1>8 DEF dma_isr
    <2>2. /\ Noticed' /\ rx_notice' \in Nat /\ missed' \in BOOLEAN
          /\ pc' \in {"read", "reset", "take", "waiting", "failed"}
          /\ UNCHANGED <<timed, count, ch>> /\ update_put_index(dma_recv_len)
      BY <1>0, <2>1, DoneNotices
    <2>3. /\ put_index' \in 0 .. bufsz - 1
          /\ put_index' + InHand - recv_total_index \in {-bufsz, 0, bufsz}
          /\ ~outpaced => Unread' = Unread + Pending /\ get_index' = get_index
      BY <1>1, <1>8, <2>2, DmaPut
    <2>4. get_index' \in 0 .. bufsz - 1 /\ is_full' \in BOOLEAN /\ FullIsEqual'
      BY <1>0, <2>2, <2>3, PutFull
    <2> QED
      BY <2>2, <2>3, <2>4
  <1>9. CASE dma_recv_len = 0
    <2>1. /\ UNCHANGED <<put_index, get_index, is_full>>
          /\ UNCHANGED <<rx_notice, pc, timed, count, ch, missed>>
      BY <1>9 DEF dma_isr, fifoVars, readerVars
    <2>2. recv_total_index = last_index /\ Pending = 0
      BY <1>3, <1>9, Sizes DEF dma_recv_len, Pending
    <2>3. Unread' = Unread /\ Unread \in Int
      BY <1>0, <2>1, Ranges DEF Unread
    <2>4. FullIsEqual' /\ Noticed'
      BY <1>0, <2>1, <2>3 DEF FullIsEqual, Noticed
    <2>5. put_index' + InHand - recv_total_index \in {-bufsz, 0, bufsz}
      BY <1>0, <2>1, <2>2 DEF Follows
    <2>6. Unread' = Unread + Pending /\ get_index' = get_index
      BY <2>1, <2>2, <2>3
    <2> QED
      BY <1>0, <2>1, <2>4, <2>5, <2>6 DEF TypeOK
  <1> QED
    BY <1>8, <1>9

LEMMA IdleEnterIInv == ASSUME IInv, IdleEnter PROVE IInv'
  <1>1. /\ UNCHANGED <<w, buffer, busy, idle, ht, tc, late, outpaced, last_index, recv_len>>
        /\ UNCHANGED <<put_index, get_index, is_full, rx_notice, pc, timed, count, ch, missed>>
        /\ isr = "none" /\ isr' = "masked" /\ ~dma_irq
    BY DEF IdleEnter, lineVars, fifoVars, readerVars
  <1>2. TypeOK'
    BY <1>1 DEF IInv, TypeOK
  <1>3. /\ Unread' = Unread /\ InHand' = InHand /\ Pending' = Pending
        /\ recv_total_index' = recv_total_index
    BY <1>1 DEF Unread, InHand, Pending, recv_total_index
  <1>4. Follows' /\ SameHalf' /\ FullIsEqual' /\ Noticed'
    BY <1>1, <1>3 DEF IInv, Follows, SameHalf, FullIsEqual, Noticed
  <1>5. ~outpaced' => InStep' /\ Stored'
    BY <1>1, <1>3 DEF IInv, InStep, Stored, dma_irq
  <1> QED
    BY <1>2, <1>4, <1>5 DEF IInv

LEMMA IdleIndexIInv == ASSUME IInv, IdleIndex PROVE IInv'
  <1>0. TypeOK /\ Follows /\ SameHalf /\ FullIsEqual /\ Noticed
    BY DEF IInv
  <1>1. /\ UNCHANGED <<w, buffer, busy, idle, ht, tc, late, outpaced>>
        /\ UNCHANGED <<put_index, get_index, is_full, rx_notice, pc, timed, count, ch, missed>>
        /\ isr = "masked" /\ recv_len' = recv_total_index - last_index
        /\ last_index' = recv_total_index
        /\ isr' = IF recv_len' # 0 THEN "indexed" ELSE "clear"
    BY DEF IdleIndex, lineVars, fifoVars, readerVars
  <1>2. recv_total_index \in 0 .. bufsz - 1 /\ last_index \in 0 .. bufsz - 1
        /\ put_index \in 0 .. bufsz - 1
    BY <1>0, Ranges
  <1>3. TypeOK'
    <2>1. recv_len' \in -bufsz .. bufsz
      BY <1>1, <1>2, Sizes
    <2> QED
      BY <1>0, <1>1, <1>2, <2>1 DEF TypeOK
  <1>4. /\ Unread' = Unread /\ recv_total_index' = recv_total_index
        /\ InHand = 0 /\ InHand' = recv_total_index - last_index /\ Pending' = 0
    <2>1. Unread' = Unread /\ recv_total_index' = recv_total_index /\ InHand = 0
      BY <1>1 DEF Unread, recv_total_index, InHand
    <2>2. InHand' = recv_total_index - last_index
      BY <1>1, <1>2 DEF InHand
    <2>3. Pending' = 0
      BY <1>1, <1>2, <2>1 DEF Pending
    <2> QED
      BY <2>1, <2>2, <2>3
  <1>5. Follows'
    <2>1. put_index = last_index
      BY <1>0, <1>2, <1>4, Sizes DEF Follows
    <2> QED
      BY <1>1, <1>2, <1>4, <2>1, Sizes DEF Follows
  <1>6. SameHalf' /\ FullIsEqual' /\ Noticed'
    BY <1>0, <1>1, <1>2, <1>4, Sizes DEF SameHalf, FullIsEqual, Noticed
  <1>7. ASSUME ~outpaced' PROVE InStep' /\ Stored'
    <2>1. InStep /\ Stored
      BY <1>1, <1>7 DEF IInv
    <2>2. ~dma_irq /\ last_index <= recv_total_index
      BY <1>0, <1>1, <2>1 DEF InStep, SameHalf
    <2>3. Pending = recv_total_index - last_index
      BY <2>2 DEF Pending
    <2>4. Unread' + InHand' + Pending' = Unread + InHand + Pending
      <3>1. Unread \in Int
        BY <1>0, Ranges
      <3> QED
        BY <1>2, <1>4, <2>3, <3>1
    <2>5. isr' # "masked" /\ (isr' = "indexed" => recv_len' \in 1 .. bufsz - 1)
      BY <1>1, <1>2, <2>2, Sizes
    <2>6. InStep'
      BY <1>1, <2>1, <2>2, <2>4, <2>5 DEF InStep, dma_irq
    <2> QED
      BY <1>1, <2>1, <2>6 DEF Stored
  <1> QED
    BY <1>3, <1>5, <1>6, <1>7 DEF IInv

LEMMA IdleDoneIInv == ASSUME IInv, IdleDone PROVE IInv'
  <1>0. TypeOK /\ Follows /\ SameHalf /\ FullIsEqual /\ Noticed
    BY DEF IInv
  <1>1. /\ UNCHANGED <<w, buffer, busy, idle, ht, tc, late, outpaced, last_index>>
        /\ isr = "indexed" /\ isr' = "clear" /\ recv_len' = 0 /\ dma_done(recv_len)
    BY DEF IdleDone, lineVars
  <1>2. /\ Noticed' /\ rx_notice' \in Nat /\ missed' \in BOOLEAN
        /\ pc' \in {"read", "reset", "take", "waiting", "failed"}
        /\ UNCHANGED <<timed, count, ch>> /\ update_put_index(recv_len)
    BY <1>0, <1>1, DoneNotices
  <1>3. /\ last_index \in 0 .. bufsz - 1 /\ put_index \in 0 .. bufsz - 1
        /\ recv_len \in Int /\ recv_len >= -bufsz /\ recv_len <= bufsz
        /\ Unread \in 0 .. bufsz /\ recv_total_index \in 0 .. bufsz - 1
        /\ w \in Nat /\ count \in Nat
    BY <1>0, Ranges, Sizes
  <1>4. /\ put_index' = IF put_index + recv_len < 0 THEN put_index + recv_len + bufsz
                        ELSE IF put_index + recv_len < bufsz THEN put_index + recv_len
                        ELSE put_index + recv_len - bufsz
        /\ put_index' \in 0 .. bufsz - 1
    <2>1. -bufsz <= put_index + recv_len
      BY <1>3, Sizes
    <2> QED
      BY <1>0, <1>2, <1>3, <2>1, PutIndex
  <1>5. get_index' \in 0 .. bufsz - 1 /\ is_full' \in BOOLEAN /\ FullIsEqual'
    BY <1>0, <1>2, <1>4, PutFull
  <1>6. TypeOK'
    <2>1. recv_len' \in -bufsz .. bufsz
      BY <1>1, Sizes
    <2> QED
      BY <1>0, <1>1, <1>2, <1>4, <1>5, <2>1 DEF TypeOK
  <1>7. /\ recv_total_index' = recv_total_index /\ Pending' = Pending
        /\ InHand = recv_len /\ InHand' = 0
    BY <1>1 DEF recv_total_index, Pending, InHand
  <1>8. Follows'
    <2>1. put_index + recv_len - last_index \in {-bufsz, 0, bufsz}
      BY <1>0, <1>7 DEF Follows
    <2>2. put_index' - last_index \in {-bufsz, 0, bufsz}
      BY <1>3, <1>4, <2>1, Sizes
    <2> QED
      BY <1>1, <1>3, <1>4, <1>7, <2>2 DEF Follows
  <1>9. SameHalf'
    BY <1>0, <1>1, <1>7 DEF SameHalf, dma_irq
  <1>10. ASSUME ~outpaced' PROVE InStep' /\ Stored'
    <2>1. InStep /\ Stored
      BY <1>1, <1>10 DEF IInv
    <2>2. Pending \in Nat
      BY <1>3, Sizes DEF Pending
    <2>3. /\ recv_len > 0 /\ w - count <= bufsz
          /\ Unread + recv_len + Pending = w - count
      BY <1>1, <1>7, <2>1 DEF InStep
    <2>4. recv_len \in 1 .. bufsz /\ Unread + recv_len <= bufsz
      BY <1>3, <2>2, <2>3, Sizes
    <2>5. Unread' = Unread + recv_len /\ get_index' = get_index
      BY <1>0, <1>2, <2>4, PutMore
    <2>6. Unread' + InHand' + Pending' = w - count
      BY <1>3, <1>7, <2>2, <2>3, <2>5
    <2>7. InStep'
      BY <1>1, <1>2, <1>7, <2>1, <2>5, <2>6 DEF InStep, dma_irq
    <2> QED
      BY <1>1, <1>2, <2>1, <2>7 DEF Stored
  <1> QED
    BY <1>2, <1>5, <1>6, <1>8, <1>9, <1>10 DEF IInv

LEMMA IdleClearIInv == ASSUME IInv, IdleClear PROVE IInv'
  <1>1. /\ UNCHANGED <<w, buffer, busy, ht, tc, outpaced, last_index, recv_len>>
        /\ UNCHANGED <<put_index, get_index, is_full, rx_notice, pc, timed, count, ch, missed>>
        /\ isr = "clear" /\ isr' = "none" /\ idle' = FALSE /\ Served
    BY DEF IdleClear, fifoVars, readerVars
  <1>2. late' \in 0 .. MaxLate
    BY <1>1, ServedLate DEF IInv
  <1>3. TypeOK'
    BY <1>1, <1>2 DEF IInv, TypeOK
  <1>4. /\ Unread' = Unread /\ InHand' = InHand /\ Pending' = Pending
        /\ recv_total_index' = recv_total_index
    BY <1>1 DEF Unread, InHand, Pending, recv_total_index
  <1>5. Follows' /\ SameHalf' /\ FullIsEqual' /\ Noticed'
    BY <1>1, <1>4 DEF IInv, Follows, SameHalf, FullIsEqual, Noticed, dma_irq
  <1>6. ~outpaced' => InStep' /\ Stored'
    BY <1>1, <1>4 DEF IInv, InStep, Stored, dma_irq
  <1> QED
    BY <1>3, <1>5, <1>6 DEF IInv

----------------------------------------------------------------------------
(* The thread                                                               *)

\* A step that only moves the thread on.
LEMMA WaiterIInv ==
  ASSUME IInv, UNCHANGED <<lineVars, driverVars, fifoVars, count, ch>>,
         rx_notice' \in Nat, timed' \in BOOLEAN, missed' \in BOOLEAN, Noticed',
         pc' \in {"read", "reset", "take", "waiting", "failed"}
  PROVE  IInv'
  <1>1. /\ UNCHANGED <<w, buffer, busy, idle, ht, tc, late, outpaced, last_index, recv_len, isr>>
        /\ UNCHANGED <<put_index, get_index, is_full, count, ch>>
    BY DEF lineVars, driverVars, fifoVars
  <1>2. TypeOK'
    BY <1>1 DEF IInv, TypeOK
  <1>3. /\ Unread' = Unread /\ InHand' = InHand /\ Pending' = Pending
        /\ recv_total_index' = recv_total_index
    BY <1>1 DEF Unread, InHand, Pending, recv_total_index
  <1>4. Follows' /\ SameHalf' /\ FullIsEqual'
    BY <1>1, <1>3 DEF IInv, Follows, SameHalf, FullIsEqual, dma_irq
  <1>5. ~outpaced' => InStep' /\ Stored'
    BY <1>1, <1>3 DEF IInv, InStep, Stored, dma_irq
  <1> QED
    BY <1>2, <1>4, <1>5 DEF IInv

\* The number of unread bytes depends on the indices only.
LEMMA UnreadSame == ASSUME UNCHANGED fifoVars PROVE Unread' = Unread
  BY DEF fifoVars, Unread

LEMMA ResetIInv == ASSUME IInv, Reset PROVE IInv'
  <1>1. UNCHANGED <<lineVars, driverVars, fifoVars, count, ch>> /\ timed' = timed
    BY DEF Reset
  <1>2. Unread' = Unread
    BY <1>1, UnreadSame
  <1>3. missed' \in BOOLEAN /\ (Unread > 0 => missed')
    <2> DEFINE u == Unread > 0
    <2>1. missed' = u
      BY DEF Reset
    <2>2. u \in BOOLEAN
      OBVIOUS
    <2> HIDE DEF u
    <2>3. missed' \in BOOLEAN /\ (u => missed')
      BY <2>1, <2>2
    <2> QED
      BY <2>3 DEF u
  <1>4. Noticed'
    BY <1>2, <1>3 DEF Reset, Noticed
  <1>5. rx_notice' \in Nat /\ pc' = "take" /\ timed' \in BOOLEAN
    BY <1>1 DEF Reset, IInv, TypeOK
  <1> QED
    BY <1>1, <1>3, <1>4, <1>5, WaiterIInv

LEMMA TakeIInv == ASSUME IInv, Take PROVE IInv'
  <1>1. UNCHANGED <<lineVars, driverVars, fifoVars, count, ch>> /\ timed' = timed
    BY DEF Take
  <1>2. Unread' = Unread
    BY <1>1, UnreadSame
  <1>3. rx_notice \in Nat /\ timed' \in BOOLEAN /\ missed \in BOOLEAN /\ Noticed
    BY <1>1 DEF IInv, TypeOK
  <1>4. CASE rx_notice > 0
    <2>1. rx_notice' = rx_notice - 1 /\ pc' = "read" /\ missed' = FALSE
      BY <1>4 DEF Take
    <2>2. Noticed'
      BY <2>1 DEF Noticed
    <2>3. rx_notice' \in Nat
      BY <1>3, <1>4, <2>1
    <2> QED
      BY <1>1, <1>3, <2>1, <2>2, <2>3, WaiterIInv
  <1>5. CASE ~(rx_notice > 0)
    <2>1. pc = "take" /\ pc' = "waiting" /\ rx_notice' = rx_notice /\ missed' = missed
      BY <1>5 DEF Take
    <2>2. rx_notice = 0
      BY <1>3, <1>5
    <2>3. Noticed'
      BY <1>2, <1>3, <2>1, <2>2 DEF Noticed
    <2> QED
      BY <1>1, <1>3, <2>1, <2>3, WaiterIInv
  <1> QED
    BY <1>4, <1>5

LEMMA ExpireIInv == ASSUME IInv, Expire PROVE IInv'
  <1>1. UNCHANGED <<lineVars, driverVars, fifoVars, count, ch>>
    BY DEF Expire
  <1>2. /\ rx_notice' \in Nat /\ timed' \in BOOLEAN /\ missed' \in BOOLEAN /\ pc' = "failed"
    BY DEF Expire, IInv, TypeOK
  <1>3. Noticed'
    BY <1>2 DEF Noticed
  <1> QED
    BY <1>1, <1>2, <1>3, WaiterIInv

LEMMA FailedIInv == ASSUME IInv, Failed PROVE IInv'
  <1>1. UNCHANGED <<lineVars, driverVars, fifoVars, count, ch>>
    BY DEF Failed
  <1>2. /\ rx_notice' \in Nat /\ timed' \in BOOLEAN /\ missed' \in BOOLEAN /\ pc' = "read"
    BY DEF Failed, IInv, TypeOK
  <1>3. Noticed'
    BY <1>2 DEF Noticed
  <1> QED
    BY <1>1, <1>2, <1>3, WaiterIInv

\* One byte less is unread.
LEMMA ReadOne ==
  ASSUME TypeOK, FullIsEqual, Unread > 0, get_index' = (get_index + 1) % bufsz,
         is_full' = FALSE, put_index' = put_index
  PROVE  /\ get_index' \in 0 .. bufsz - 1
         /\ Unread' = Unread - 1
         /\ get_index = count % bufsz => get_index' = (count + 1) % bufsz
  <1>1. /\ get_index \in 0 .. bufsz - 1 /\ put_index \in 0 .. bufsz - 1 /\ count \in Nat
        /\ is_full \in BOOLEAN
    BY Ranges
  <1>2. get_index' = IF get_index = bufsz - 1 THEN 0 ELSE get_index + 1
    <2>1. get_index \in Nat
      BY <1>1
    <2>2. Divides(get_index, bufsz, 0, get_index)
      BY <1>1, Sizes DEF Divides
    <2>3. get_index % bufsz = get_index
      BY <2>2, ModUnique
    <2> QED
      BY <2>1, <2>3, ModSucc
  <1>3. (count + 1) % bufsz = IF count % bufsz = bufsz - 1 THEN 0 ELSE (count % bufsz) + 1
    BY <1>1, ModSucc
  <1>4. get_index' \in 0 .. bufsz - 1
    BY <1>1, <1>2, Sizes
  <1>5. Unread' = Unread - 1
    <2>1. Unread' = IF put_index = get_index' THEN 0
                    ELSE IF put_index > get_index' THEN put_index - get_index'
                    ELSE bufsz - (get_index' - put_index)
      BY DEF Unread, calc_recved_len
    <2>2. Unread = IF put_index = get_index THEN bufsz
                   ELSE IF put_index > get_index THEN put_index - get_index
                   ELSE bufsz - (get_index - put_index)
      BY DEF Unread, calc_recved_len
    <2> QED
      BY <1>1, <1>2, <1>4, <2>1, <2>2, Sizes
  <1> QED
    BY <1>2, <1>3, <1>4, <1>5

LEMMA ReadIInv == ASSUME IInv, Read PROVE IInv'
  <1>0. TypeOK /\ Follows /\ SameHalf /\ FullIsEqual /\ Noticed
    BY DEF IInv
  <1>1. /\ UNCHANGED <<w, buffer, busy, idle, ht, tc, late, outpaced, last_index, recv_len, isr>>
        /\ UNCHANGED <<put_index, rx_notice, missed>> /\ isr = "none" /\ pc = "read"
    BY DEF Read, lineVars, driverVars
  <1>2. CASE Unread > 0
    <2>1. /\ ch' = buffer[get_index] /\ get_index' = (get_index + 1) % bufsz
          /\ is_full' = FALSE /\ count' = count + 1 /\ timed' \in BOOLEAN /\ pc' = pc
      BY <1>2 DEF Read
    <2>2. /\ get_index' \in 0 .. bufsz - 1
          /\ Unread' = Unread - 1
          /\ get_index = count % bufsz => get_index' = (count + 1) % bufsz
      BY <1>0, <1>1, <1>2, <2>1, ReadOne
    <2>3. TypeOK'
      <3>1. ch' \in 0 .. MaxBytes /\ count' \in Nat
        BY <1>0, <2>1 DEF TypeOK
      <3> QED
        BY <1>0, <1>1, <2>1, <2>2, <3>1 DEF TypeOK
    <2>4. InHand' = InHand /\ Pending' = Pending /\ recv_total_index' = recv_total_index
      BY <1>1 DEF InHand, Pending, recv_total_index
    <2>5. Follows' /\ SameHalf'
      BY <1>0, <1>1, <2>4 DEF Follows, SameHalf, dma_irq
    <2>6. FullIsEqual' /\ Noticed'
      BY <1>1, <2>1 DEF FullIsEqual, Noticed
    <2>7. ASSUME ~outpaced' PROVE InStep' /\ Stored'
      <3>1. InStep /\ Stored
        BY <1>1, <2>7 DEF IInv
      <3>2. /\ w \in Nat /\ count \in Nat /\ Unread \in Int /\ InHand \in Int
            /\ InHand = 0 /\ Pending \in Nat
        BY <1>0, <1>1, Ranges, Sizes DEF InHand, Pending
      <3>3. /\ count' <= w' /\ w' - count' < bufsz
            /\ Unread' + InHand' + Pending' = w' - count'
        <4>1. Unread + InHand + Pending = w - count /\ w - count <= bufsz
          BY <3>1 DEF InStep
        <4> QED
          BY <1>1, <1>2, <2>1, <2>2, <2>4, <3>2, <4>1, Sizes
      <3>4. InStep'
        <4>1. get_index' = count' % bufsz
          BY <2>1, <2>2, <3>1 DEF InStep
        <4>2. w' - count' # bufsz /\ w' - count' <= bufsz
          BY <1>1, <2>1, <3>2, <3>3, Sizes
        <4> QED
          BY <1>1, <2>4, <3>1, <3>3, <4>1, <4>2 DEF InStep, dma_irq
      <3>5. Stored'
        BY <1>1, <2>1, <3>1, <3>2 DEF Stored
      <3> QED
        BY <3>4, <3>5
    <2> QED
      BY <2>3, <2>5, <2>6, <2>7 DEF IInv
  <1>3. CASE ~(Unread > 0)
    <2>1. pc' = "reset" /\ UNCHANGED <<get_index, is_full, timed, count, ch>>
      BY <1>3 DEF Read
    <2>2. UNCHANGED <<lineVars, driverVars, fifoVars, count, ch>>
      BY <1>1, <2>1 DEF lineVars, driverVars, fifoVars
    <2>3. Noticed' /\ rx_notice' \in Nat /\ timed' \in BOOLEAN /\ missed' \in BOOLEAN
      BY <1>0, <1>1, <2>1 DEF Noticed, TypeOK
    <2> QED
      BY <2>1, <2>2, <2>3, WaiterIInv
  <1> QED
    BY <1>2, <1>3

----------------------------------------------------------------------------
(* The theorems                                                             *)

LEMMA NextIInv == IInv /\ [Next]_vars => IInv'
  <1> SUFFICES ASSUME IInv, [Next]_vars PROVE IInv'
    OBVIOUS
  <1>1. CASE Receive
    BY <1>1, ReceiveIInv
  <1>2. CASE LineIdle
    BY <1>2, LineIdleIInv
  <1>3. CASE dma_isr
    BY <1>3, DmaIsrIInv
  <1>4. CASE IdleIsr
    BY <1>4, IdleEnterIInv, IdleIndexIInv, IdleDoneIInv, IdleClearIInv DEF IdleIsr
  <1>5. CASE Thread
    BY <1>5, ReadIInv, ResetIInv, TakeIInv, FailedIInv DEF Thread
  <1>6. CASE Expire
    BY <1>6, ExpireIInv
  <1>7. CASE UNCHANGED vars
    <2>1. /\ UNCHANGED <<lineVars, driverVars, fifoVars, count, ch>>
          /\ UNCHANGED <<rx_notice, pc, timed, missed>>
      BY <1>7 DEF vars, readerVars
    <2>2. Unread' = Unread
      BY <2>1, UnreadSame
    <2>0. TypeOK /\ Noticed
      BY DEF IInv
    <2>3. /\ rx_notice' \in Nat /\ timed' \in BOOLEAN /\ missed' \in BOOLEAN
          /\ pc' \in {"read", "reset", "take", "waiting", "failed"}
      BY <2>0, <2>1 DEF TypeOK
    <2>4. Noticed'
      BY <2>0, <2>1, <2>2 DEF Noticed
    <2> QED
      BY <2>1, <2>3, <2>4, WaiterIInv
  <1> QED
    BY <1>1, <1>2, <1>3, <1>4, <1>5, <1>6, <1>7 DEF Next

\* The invariant holds in every state the program reaches.
THEOREM Inductive == Spec => []IInv
  BY InitIInv, NextIInv, PTL DEF Spec

\* Every variable of the driver, the device and the reader keeps its range.
THEOREM TypeCorrect == Spec => []TypeOK
  <1>1. IInv => TypeOK
    BY DEF IInv
  <1> QED
    BY <1>1, Inductive, PTL

\* The device and the DMA agree on the position of the next byte, however late the
\* handlers are and whatever the order of their reports: the put index, the length
\* the IDLE handler has in hand and last_index differ by whole laps of the buffer.
THEOREM PutIndexKeepsUp == Spec => []PutIndexFollowsDma
  <1>1. IInv => PutIndexFollowsDma
    <2> SUFFICES ASSUME IInv PROVE PutIndexFollowsDma
      OBVIOUS
    <2> DEFINE x == put_index + InHand - last_index
    <2>1. x \in {-bufsz, 0, bufsz}
      BY DEF IInv, Follows
    <2> HIDE DEF x
    <2>2. Divides(x, bufsz, -1, 0) \/ Divides(x, bufsz, 0, 0) \/ Divides(x, bufsz, 1, 0)
      BY <2>1, Sizes DEF Divides
    <2>3. x % bufsz = 0
      BY <2>2, ModUnique
    <2> QED
      BY <2>3 DEF PutIndexFollowsDma, x
  <1> QED
    BY <1>1, Inductive, PTL

\* While the code keeps up with the line no byte is forgotten and none is counted
\* twice between the DMA, the two handlers and the fifo of the device.
THEOREM NoByteForgotten == Spec => []BytesAccounted
  <1>1. IInv => BytesAccounted
    <2> SUFFICES ASSUME IInv, ~outpaced
                 PROVE  Unread + (InHand % bufsz) + ((w - last_index) % bufsz) = w - count
      BY DEF BytesAccounted
    <2>1. TypeOK /\ InStep
      BY DEF IInv
    <2>2. /\ InHand \in Int /\ Unread \in Nat /\ w \in Nat /\ count \in Nat
          /\ last_index \in 0 .. bufsz - 1 /\ put_index \in 0 .. bufsz - 1
          /\ recv_total_index \in 0 .. bufsz - 1
      BY <2>1, Ranges
    <2>3. /\ Unread + InHand + Pending = w - count /\ w - count <= bufsz /\ InHand >= 0
      BY <2>1, <2>2 DEF InStep, InHand
    <2>4. Pending \in 0 .. bufsz - 1
      BY <2>2, Sizes DEF Pending
    <2>5. (w - last_index) % bufsz = Pending
      <3> DEFINE q == w \div bufsz
                 t == w % bufsz
      <3>1. q \in Int /\ w = q * bufsz + t /\ t \in 0 .. bufsz - 1
        BY <2>2, DivMod, Sizes
      <3>2. Pending = IF last_index <= t THEN t - last_index ELSE t - last_index + bufsz
        BY DEF Pending, recv_total_index
      <3> HIDE DEF q, t
      <3>3. \/ Divides(w - last_index, bufsz, q, Pending)
            \/ Divides(w - last_index, bufsz, q - 1, Pending)
        <4>1. CASE last_index <= t
          BY <2>2, <2>4, <3>1, <3>2, <4>1, Sizes DEF Divides
        <4>2. CASE ~(last_index <= t)
          BY <2>2, <2>4, <3>1, <3>2, <4>2, Sizes DEF Divides
        <4> QED
          BY <4>1, <4>2
      <3> QED
        BY <3>3, ModUnique
    <2>6. InHand % bufsz = InHand
      <3>1. InHand < bufsz
        BY <2>1, Sizes DEF InStep, InHand
      <3>2. Divides(InHand, bufsz, 0, InHand)
        BY <2>2, <2>3, <3>1, Sizes DEF Divides
      <3> QED
        BY <3>2, ModUnique
    <2> QED
      BY <2>2, <2>3, <2>4, <2>5, <2>6
  <1> QED
    BY <1>1, Inductive, PTL

\* The thread sleeps next to unread bytes only when the reset of rx_notice threw a
\* notice away.
THEOREM SleepsOnlyAfterReset == Spec => []AsleepOnlyAfterReset
  <1>1. IInv => AsleepOnlyAfterReset
    BY DEF IInv, Noticed, AsleepOnlyAfterReset
  <1> QED
    BY <1>1, Inductive, PTL

\* Reading a byte delivers the next one of the stream.
LEMMA ReadDelivers ==
  ASSUME IInv, Read
  PROVE  [Stream!Next]_(Stream!vars)
  <1>1. UNCHANGED <<w, outpaced, buffer>>
    BY DEF Read, lineVars
  <1>2. CASE outpaced
    BY <1>1, <1>2 DEF Stream!Next, Stream!Outpace
  <1>3. CASE ~outpaced /\ Unread > 0
    <2>1. InStep /\ Stored /\ TypeOK
      BY <1>3 DEF IInv
    <2>2. /\ w \in Nat /\ count \in Nat /\ Unread \in Nat /\ InHand \in Int
          /\ last_index \in 0 .. bufsz - 1 /\ recv_total_index \in 0 .. bufsz - 1
      BY <2>1, Ranges
    <2>3. InHand = 0 /\ Pending \in Nat
      BY <2>2, Sizes DEF Read, InHand, Pending
    <2>4. count < w
      BY <1>3, <2>1, <2>2, <2>3 DEF InStep
    <2>5. buffer[count % bufsz] = count + 1
      <3>1. count + 1 \in count + 1 .. w /\ (count + 1) - 1 = count
        BY <2>2, <2>4
      <3>2. buffer[((count + 1) - 1) % bufsz] = count + 1
        BY <2>1, <3>1 DEF Stored
      <3> QED
        BY <3>1, <3>2
    <2>6. ch' = count + 1 /\ count' = count + 1
      BY <1>3, <2>1, <2>5 DEF Read, InStep
    <2> QED
      BY <1>1, <2>4, <2>6 DEF Stream!Next, Stream!Deliver
  <1>4. CASE ~(Unread > 0)
    BY <1>1, <1>4 DEF Read, Stream!vars
  <1> QED
    BY <1>2, <1>3, <1>4

\* The UART, its DMA channel, the two handlers, the device and the reading thread
\* together implement the stream of bytes: in order, none lost, none twice.
THEOREM RefinesStream == Spec => ImplementsStream
  <1>1. Init => Stream!Init
    BY DEF Init, Stream!Init
  <1>2. IInv /\ [Next]_vars => [Stream!Next]_(Stream!vars)
    <2> SUFFICES ASSUME IInv, [Next]_vars PROVE [Stream!Next]_(Stream!vars)
      OBVIOUS
    <2>0. outpaced \in BOOLEAN
      BY DEF IInv, TypeOK
    <2>1. CASE Receive
      <3>1. w' = w + 1 /\ UNCHANGED <<count, ch>> /\ outpaced' = (outpaced \/ TooFast)
        BY <2>1 DEF Receive, readerVars
      <3>2. CASE outpaced \/ TooFast
        BY <3>1, <3>2 DEF Stream!Next, Stream!Outpace
      <3>3. CASE ~(outpaced \/ TooFast)
        <4>1. outpaced' = outpaced
          BY <2>0, <3>1, <3>3
        <4> QED
          BY <3>1, <4>1 DEF Stream!Next, Stream!Arrive
      <3> QED
        BY <3>2, <3>3
    <2>2. CASE LineIdle
      <3> DEFINE late_look == isr \in {"indexed", "clear"}
      <3>1. UNCHANGED <<w, count, ch>> /\ outpaced' = (outpaced \/ late_look)
        BY <2>2 DEF LineIdle, readerVars
      <3> HIDE DEF late_look
      <3>2. CASE outpaced \/ late_look
        BY <3>1, <3>2 DEF Stream!Next, Stream!Outpace
      <3>3. CASE ~(outpaced \/ late_look)
        <4>1. outpaced' = outpaced
          BY <2>0, <3>1, <3>3
        <4> QED
          BY <3>1, <4>1 DEF Stream!vars
      <3> QED
        BY <3>2, <3>3
    <2>3. CASE dma_isr
      <3>1. UNCHANGED <<count, ch>>
        <4>1. CASE dma_recv_len # 0
          BY <2>3, <4>1 DEF dma_isr, dma_done
        <4>2. CASE dma_recv_len = 0
          BY <2>3, <4>2 DEF dma_isr, readerVars
        <4> QED
          BY <4>1, <4>2
      <3> QED
        BY <2>3, <3>1 DEF dma_isr, Stream!vars
    <2>4. CASE IdleIsr
      <3>1. CASE IdleEnter
        BY <3>1 DEF IdleEnter, lineVars, readerVars, Stream!vars
      <3>2. CASE IdleIndex
        BY <3>2 DEF IdleIndex, lineVars, readerVars, Stream!vars
      <3>3. CASE IdleDone
        BY <3>3 DEF IdleDone, dma_done, lineVars, Stream!vars
      <3>4. CASE IdleClear
        BY <3>4 DEF IdleClear, readerVars, Stream!vars
      <3> QED
        BY <2>4, <3>1, <3>2, <3>3, <3>4 DEF IdleIsr
    <2>5. CASE Read
      BY <2>5, ReadDelivers
    <2>6. CASE Reset
      BY <2>6 DEF Reset, lineVars, Stream!vars
    <2>7. CASE Take
      BY <2>7 DEF Take, lineVars, Stream!vars
    <2>8. CASE Failed
      BY <2>8 DEF Failed, lineVars, Stream!vars
    <2>9. CASE Expire
      BY <2>9 DEF Expire, lineVars, Stream!vars
    <2>10. CASE UNCHANGED vars
      BY <2>10 DEF vars, lineVars, readerVars, Stream!vars
    <2> QED
      BY <2>1, <2>2, <2>3, <2>4, <2>5, <2>6, <2>7, <2>8, <2>9, <2>10 DEF Next, Thread
  <1> QED
    BY <1>1, <1>2, Inductive, PTL DEF Spec, ImplementsStream, Stream!Spec

===============================================================================
