---------------------------- MODULE AtClientProofs ----------------------------
(* The inductive invariant of the AT client, for any callers and bounds.    *)
EXTENDS AtClient, TLAPS

(* Sequences as the lock uses them: a thread joins at the end, the owner    *)
(* leaves at the front.                                                     *)

LEMMA AppendFacts ==
  ASSUME NEW S, NEW q \in Seq(S), NEW e \in S
  PROVE  /\ Append(q, e) \in Seq(S)
         /\ Append(q, e) # <<>>
         /\ Len(Append(q, e)) = Len(q) + 1
         /\ Append(q, e)[Len(q) + 1] = e
         /\ \A i \in 1 .. Len(q) : Append(q, e)[i] = q[i]
  OBVIOUS

LEMMA TailFacts ==
  ASSUME NEW S, NEW q \in Seq(S), q # <<>>
  PROVE  /\ Tail(q) \in Seq(S)
         /\ Head(q) = q[1] /\ Head(q) \in S
         /\ Len(q) >= 1
         /\ Len(Tail(q)) = Len(q) - 1
         /\ \A i \in 1 .. Len(q) - 1 : Tail(q)[i] = q[i + 1]
  OBVIOUS

LEMMA LenFacts ==
  ASSUME NEW S, NEW q \in Seq(S)
  PROVE  /\ Len(q) \in Nat
         /\ q = <<>> <=> Len(q) = 0
         /\ \A i \in 1 .. Len(q) : q[i] \in S
  OBVIOUS

\* The initial state satisfies the invariant.
LEMMA InitAtInv == Init => AtInv
  <1> SUFFICES ASSUME Init PROVE AtInv
    OBVIOUS
  <1> USE AtClientAssumption DEF Init
  <1>1. TypeOK
    BY DEF TypeOK, PCs, Kinds, RT_NULL
  <1>2. LockDiscipline
    BY DEF LockDiscipline, Inside
  <1>3. NoticeAccounted
    BY DEF NoticeAccounted
  <1> QED
    BY <1>1, <1>2, <1>3 DEF AtInv

----------------------------------------------------------------------------
(* The lock.                                                                *)

\* A thread past rt_mutex_take is the owner of the lock.
LEMMA OwnerIsFirst ==
  ASSUME TypeOK, LockDiscipline, NEW c \in Callers, pc[c] \in Inside, pc[c] # "lock"
  PROVE  lockQueue # <<>> /\ lockQueue[1] = c /\ Len(lockQueue) >= 1
  <1>1. lockQueue \in Seq(Callers) /\ Len(lockQueue) \in Nat
    BY LenFacts DEF TypeOK
  <1>2. PICK i \in 1 .. Len(lockQueue) : lockQueue[i] = c
    BY DEF LockDiscipline
  <1>3. i = 1
    BY <1>1, <1>2 DEF LockDiscipline
  <1> QED
    BY <1>1, <1>2, <1>3, LenFacts

\* A step inside or outside of at_obj_exec_cmd that leaves the queue alone.
LEMMA MoveKeepsLock ==
  ASSUME TypeOK, LockDiscipline, NEW c \in Callers, NEW where \in PCs,
         pc' = [pc EXCEPT ![c] = where], lockQueue' = lockQueue,
         pc[c] \in Inside <=> where \in Inside,
         pc[c] \in Inside => lockQueue # <<>> /\ lockQueue[1] = c
  PROVE  LockDiscipline'
  <1>1. lockQueue \in Seq(Callers) /\ Len(lockQueue) \in Nat
        /\ \A i \in 1 .. Len(lockQueue) : lockQueue[i] \in Callers
    BY LenFacts DEF TypeOK
  <1>2. \A d \in Callers : pc'[d] = IF d = c THEN where ELSE pc[d]
    BY DEF TypeOK
  <1>3. \A i \in 1 .. Len(lockQueue) : pc'[lockQueue[i]] \in Inside
    BY <1>1, <1>2 DEF LockDiscipline
  <1>4. \A i \in 2 .. Len(lockQueue) : pc'[lockQueue[i]] = "lock"
    <2> TAKE i \in 2 .. Len(lockQueue)
    <2>1. i \in 1 .. Len(lockQueue) /\ 1 \in 1 .. Len(lockQueue) /\ i # 1
      BY <1>1
    <2>2. pc[lockQueue[i]] = "lock" /\ pc[lockQueue[i]] \in Inside
      BY <2>1 DEF LockDiscipline
    <2>3. lockQueue[i] # c
      BY <2>1, <2>2, <1>1 DEF LockDiscipline
    <2> QED
      BY <2>1, <2>2, <2>3, <1>1, <1>2
  <1>5. \A d \in Callers : pc'[d] \in Inside
          => \E i \in 1 .. Len(lockQueue) : lockQueue[i] = d
    BY <1>2 DEF LockDiscipline
  <1> QED
    BY <1>3, <1>4, <1>5 DEF LockDiscipline

\* A step that leaves the lock, the response and the semaphore alone.
LEMMA FrameKeepsInv ==
  ASSUME AtInv, UNCHANGED <<lockQueue, pc, resp, resp_notice, line_num>>
  PROVE  LockDiscipline' /\ NoticeAccounted'
  BY DEF AtInv, LockDiscipline, NoticeAccounted, NoticeAt

\* The first of the queue is inside at_obj_exec_cmd.
LEMMA FirstIsInside ==
  ASSUME TypeOK, LockDiscipline, lockQueue # <<>>
  PROVE  lockQueue[1] \in Callers /\ pc[lockQueue[1]] \in Inside
  <1>1. 1 \in 1 .. Len(lockQueue)
    BY LenFacts DEF TypeOK
  <1> QED
    BY <1>1, LenFacts DEF TypeOK, LockDiscipline

\* A thread that is outside and stays outside.
LEMMA OutsideKeepsNotice ==
  ASSUME AtInv, NEW c \in Callers, pc[c] \notin Inside,
         NEW where \in {"none", "idle"}, pc' = [pc EXCEPT ![c] = where],
         UNCHANGED <<lockQueue, resp, resp_notice>>,
         NEW n, line_num' = [line_num EXCEPT ![c] = n]
  PROVE  NoticeAccounted'
  <1> USE DEF AtInv
  <1>1. lockQueue # <<>> => lockQueue[1] # c /\ lockQueue[1] \in Callers
    BY FirstIsInside
  <1>2. \A d \in Callers : d # c => pc'[d] = pc[d] /\ line_num'[d] = line_num[d]
    BY DEF TypeOK
  <1>3. lockQueue # <<>> => NoticeAt(lockQueue[1])'
    BY <1>1, <1>2 DEF NoticeAccounted, NoticeAt
  <1>4. pc'[c] = where
    BY DEF TypeOK
  <1>5. \A d \in Callers : pc'[d] \in {"clear1", "clear2", "take", "waiting", "woken"}
          => line_num'[d] # NoResp
    BY <1>2, <1>4 DEF NoticeAccounted
  <1> QED
    BY <1>1, <1>2, <1>3, <1>5 DEF NoticeAccounted

\* A step of the owner of the lock that leaves the queue alone.
LEMMA OwnerKeepsNotice ==
  ASSUME AtInv, NEW c \in Callers, lockQueue # <<>>, lockQueue[1] = c,
         NEW where, pc' = [pc EXCEPT ![c] = where],
         UNCHANGED <<lockQueue, line_num>>,
         where \in {"clear1", "clear2", "take", "waiting", "woken"}
           => line_num[c] # NoResp,
         resp' # RT_NULL => resp' = c /\ line_num[c] # NoResp,
         NoticeAt(c)'
  PROVE  NoticeAccounted'
  <1>1. \A d \in Callers : pc'[d] = IF d = c THEN where ELSE pc[d]
    BY DEF AtInv, TypeOK
  <1>2. \A d \in Callers : pc'[d] \in {"clear1", "clear2", "take", "waiting", "woken"}
          => line_num'[d] # NoResp
    BY <1>1 DEF AtInv, NoticeAccounted
  <1> QED
    BY <1>2 DEF NoticeAccounted

----------------------------------------------------------------------------
(* One lemma per action.                                                    *)

LEMMA CreateRespAtInv ==
  ASSUME AtInv, NEW c \in Callers, CreateResp(c) PROVE AtInv'
  <1>1. TypeOK'
    BY DEF AtInv, TypeOK, CreateResp, Goto, PCs, clientVars, moduleVars, histVars
  <1>2. LockDiscipline'
    BY MoveKeepsLock DEF AtInv, CreateResp, Goto, PCs, clientVars, Inside
  <1>3. line_num' = [line_num EXCEPT ![c] = line_num[c]]
    BY DEF CreateResp, AtInv, TypeOK
  <1>4. NoticeAccounted'
    BY <1>3, OutsideKeepsNotice DEF CreateResp, Goto, clientVars, Inside
  <1> QED
    BY <1>1, <1>2, <1>4 DEF AtInv

LEMMA DeleteRespAtInv ==
  ASSUME AtInv, NEW c \in Callers, DeleteResp(c) PROVE AtInv'
  <1>1. TypeOK'
    BY AtClientAssumption, SMTT(30)
    DEF AtInv, TypeOK, DeleteResp, Goto, PCs, clientVars, moduleVars, histVars
  <1>2. LockDiscipline'
    BY MoveKeepsLock DEF AtInv, DeleteResp, Goto, PCs, clientVars, Inside
  <1>3. NoticeAccounted'
    BY OutsideKeepsNotice DEF DeleteResp, Goto, clientVars, Inside
  <1> QED
    BY <1>1, <1>2, <1>3 DEF AtInv

\* Joining the queue of the lock.
LEMMA ExecCallAtInv ==
  ASSUME AtInv, NEW c \in Callers, ExecCall(c) PROVE AtInv'
  <1> USE DEF AtInv
  <1>1. CASE UNCHANGED <<lockQueue, pc, line_num>> /\ result' = [result EXCEPT ![c] = "EBUSY"]
    <2>1. TypeOK'
      BY <1>1 DEF TypeOK, ExecCall, moduleVars, histVars
    <2> QED
      BY <2>1, <1>1, FrameKeepsInv DEF ExecCall
  <1>2. ASSUME NEW n \in LineNums, Goto(c, "lock"), lockQueue' = Append(lockQueue, c),
               line_num' = [line_num EXCEPT ![c] = n],
               result' = [result EXCEPT ![c] = "none"]
        PROVE  AtInv'
    <2> DEFINE L == Len(lockQueue)
    <2>1. /\ lockQueue \in Seq(Callers) /\ L \in Nat /\ (lockQueue = <<>> <=> L = 0)
          /\ \A i \in 1 .. L : lockQueue[i] \in Callers
      BY LenFacts DEF TypeOK
    <2>2. /\ lockQueue' \in Seq(Callers) /\ lockQueue' # <<>> /\ Len(lockQueue') = L + 1
          /\ lockQueue'[L + 1] = c
          /\ \A i \in 1 .. L : lockQueue'[i] = lockQueue[i]
      BY <1>2, <2>1, AppendFacts
    <2>3. TypeOK'
      BY <1>2, <2>2 DEF TypeOK, ExecCall, Goto, PCs, moduleVars, histVars
    <2>4. \A d \in Callers : pc'[d] = IF d = c THEN "lock" ELSE pc[d]
      BY <1>2 DEF TypeOK, Goto
    <2>5. \A i \in 1 .. L : lockQueue[i] # c
      BY <2>1 DEF LockDiscipline, ExecCall, Inside
    <2>6. LockDiscipline'
      <3>1. \A i, j \in 1 .. L + 1 : lockQueue'[i] = lockQueue'[j] => i = j
        <4> SUFFICES ASSUME NEW i \in 1 .. L + 1, NEW j \in 1 .. L + 1,
                            lockQueue'[i] = lockQueue'[j]
                     PROVE  i = j
          OBVIOUS
        <4>1. CASE i \in 1 .. L /\ j \in 1 .. L
          BY <4>1, <2>2 DEF LockDiscipline
        <4>2. CASE i = L + 1 \/ j = L + 1
          BY <4>2, <2>1, <2>2, <2>5
        <4> QED
          BY <4>1, <4>2, <2>1
      <3>2. \A i \in 1 .. L + 1 : pc'[lockQueue'[i]] \in Inside
        <4> TAKE i \in 1 .. L + 1
        <4>1. CASE i = L + 1
          BY <4>1, <2>2, <2>4 DEF Inside
        <4>2. CASE i \in 1 .. L
          BY <4>2, <2>1, <2>2, <2>4 DEF LockDiscipline, Inside
        <4> QED
          BY <4>1, <4>2, <2>1
      <3>3. \A i \in 2 .. L + 1 : pc'[lockQueue'[i]] = "lock"
        <4> TAKE i \in 2 .. L + 1
        <4>1. CASE i = L + 1
          BY <4>1, <2>2, <2>4
        <4>2. CASE i # L + 1
          <5>1. i \in 1 .. L /\ i \in 2 .. L
            BY <4>2, <2>1
          <5> QED
            BY <5>1, <2>1, <2>2, <2>4, <2>5 DEF LockDiscipline
        <4> QED
          BY <4>1, <4>2
      <3>4. \A d \in Callers : pc'[d] \in Inside
              => \E i \in 1 .. L + 1 : lockQueue'[i] = d
        <4> SUFFICES ASSUME NEW d \in Callers, pc'[d] \in Inside
                     PROVE  \E i \in 1 .. L + 1 : lockQueue'[i] = d
          OBVIOUS
        <4>1. CASE d = c
          BY <4>1, <2>1, <2>2
        <4>2. CASE d # c
          <5>1. PICK i \in 1 .. L : lockQueue[i] = d
            BY <4>2, <2>4 DEF LockDiscipline
          <5>2. i \in 1 .. L + 1 /\ lockQueue'[i] = d
            BY <5>1, <2>1, <2>2
          <5> QED
            BY <5>2
        <4> QED
          BY <4>1, <4>2
      <3> QED
        BY <3>1, <3>2, <3>3, <3>4, <2>2 DEF LockDiscipline
    <2>7. NoticeAccounted'
      <3>1. resp' = resp /\ resp_notice' = resp_notice
        BY DEF ExecCall
      <3>2. \A d \in Callers : d # c => line_num'[d] = line_num[d]
        BY <1>2 DEF TypeOK
      <3>3. \A d \in Callers : pc'[d] \in {"clear1", "clear2", "take", "waiting", "woken"}
              => line_num'[d] # NoResp
        BY <2>4, <3>2 DEF NoticeAccounted
      <3>4. CASE lockQueue = <<>>
        <4>1. lockQueue'[1] = c /\ pc'[c] = "lock"
          BY <3>4, <2>1, <2>2, <2>4
        <4>2. NoticeAt(c)'
          BY <4>1, <3>1, <3>4 DEF NoticeAccounted, NoticeAt, BeforeTake, AfterTake
        <4> QED
          BY <4>1, <4>2, <3>1, <3>3, <3>4, <2>2 DEF NoticeAccounted
      <3>5. CASE lockQueue # <<>>
        <4>1. 1 \in 1 .. L
          BY <3>5, <2>1
        <4>2. lockQueue'[1] = lockQueue[1] /\ lockQueue[1] # c /\ lockQueue[1] \in Callers
          BY <4>1, <2>1, <2>2, <2>5
        <4>3. NoticeAt(lockQueue[1])'
          BY <4>2, <3>1, <3>2, <3>5, <2>4 DEF NoticeAccounted, NoticeAt
        <4> QED
          BY <4>2, <4>3, <3>1, <3>2, <3>3, <3>5, <2>2 DEF NoticeAccounted
      <3> QED
        BY <3>4, <3>5
    <2> QED
      BY <2>3, <2>6, <2>7
  <1> QED
    BY <1>1, <1>2 DEF ExecCall


LEMMA TimedOutAtInv ==
  ASSUME AtInv, NEW c \in Callers, TimedOut(c) PROVE AtInv'
  <1> USE DEF AtInv
  <1>1. lockQueue # <<>> /\ lockQueue[1] = c
    BY OwnerIsFirst DEF TimedOut, Inside
  <1>2. TypeOK'
    BY DEF TypeOK, TimedOut, Goto, PCs, moduleVars, histVars
  <1>3. LockDiscipline'
    BY <1>1, MoveKeepsLock DEF TimedOut, Goto, PCs, clientVars, Inside
  <1>4. NoticeAt(c)'
    BY <1>1 DEF TypeOK, TimedOut, Goto, clientVars, NoticeAccounted, NoticeAt, BeforeTake, AfterTake
  <1>5. NoticeAccounted'
    BY <1>1, <1>4, OwnerKeepsNotice DEF TimedOut, Goto, clientVars, NoticeAccounted
  <1> QED
    BY <1>2, <1>3, <1>5

LEMMA CheckStatusAtInv ==
  ASSUME AtInv, NEW c \in Callers, CheckStatus(c) PROVE AtInv'
  <1> USE DEF AtInv
  <1>1. lockQueue # <<>> /\ lockQueue[1] = c
    BY OwnerIsFirst DEF CheckStatus, Inside
  <1>2. TypeOK'
    BY DEF TypeOK, CheckStatus, Goto, PCs, clientVars, moduleVars, histVars
  <1>3. LockDiscipline'
    BY <1>1, MoveKeepsLock DEF CheckStatus, Goto, PCs, clientVars, Inside
  <1>4. NoticeAt(c)'
    BY <1>1 DEF TypeOK, CheckStatus, Goto, clientVars, NoticeAccounted, NoticeAt, BeforeTake, AfterTake
  <1>5. NoticeAccounted'
    BY <1>1, <1>4, OwnerKeepsNotice DEF CheckStatus, Goto, clientVars, NoticeAccounted
  <1> QED
    BY <1>2, <1>3, <1>5

LEMMA ExitAtInv ==
  ASSUME AtInv, NEW c \in Callers, Exit(c) PROVE AtInv'
  <1> USE DEF AtInv
  <1>1. lockQueue # <<>> /\ lockQueue[1] = c
    BY OwnerIsFirst DEF Exit, Inside
  <1>2. TypeOK'
    BY DEF TypeOK, Exit, Goto, PCs, moduleVars, histVars
  <1>3. LockDiscipline'
    BY <1>1, MoveKeepsLock DEF Exit, Goto, PCs, clientVars, Inside
  <1>4. NoticeAt(c)'
    BY <1>1 DEF TypeOK, Exit, Goto, clientVars, NoticeAccounted, NoticeAt, BeforeTake, AfterTake
  <1>5. NoticeAccounted'
    BY <1>1, <1>4, OwnerKeepsNotice DEF Exit, Goto, clientVars, NoticeAccounted
  <1> QED
    BY <1>2, <1>3, <1>5

LEMMA ExpireAtInv ==
  ASSUME AtInv, NEW c \in Callers, Expire(c) PROVE AtInv'
  <1> USE DEF AtInv
  <1>1. lockQueue # <<>> /\ lockQueue[1] = c
    BY OwnerIsFirst DEF Expire, Inside
  <1>2. TypeOK'
    BY DEF TypeOK, Expire, Goto, PCs, clientVars, moduleVars
  <1>3. LockDiscipline'
    BY <1>1, MoveKeepsLock DEF Expire, Goto, PCs, clientVars, Inside
  <1>4. NoticeAt(c)'
    BY <1>1 DEF TypeOK, Expire, Goto, clientVars, NoticeAccounted, NoticeAt, BeforeTake, AfterTake
  <1>5. NoticeAccounted'
    BY <1>1, <1>4, OwnerKeepsNotice DEF Expire, Goto, clientVars, NoticeAccounted
  <1> QED
    BY <1>2, <1>3, <1>5

LEMMA SetRespAtInv ==
  ASSUME AtInv, NEW c \in Callers, SetResp(c) PROVE AtInv'
  <1> USE DEF AtInv
  <1> DEFINE where == IF line_num[c] = NoResp THEN "send" ELSE "clear1"
  <1>1. lockQueue # <<>> /\ lockQueue[1] = c
    <2>1. PICK i \in 1 .. Len(lockQueue) : lockQueue[i] = c
      BY DEF SetResp, LockDiscipline, Inside
    <2> QED
      BY <2>1, TailFacts, LenFacts DEF SetResp, TypeOK
  <1>2. pc' = [pc EXCEPT ![c] = where] /\ where \in PCs /\ where \in Inside
    BY DEF SetResp, Goto, PCs, Inside
  <1>3. TypeOK'
    BY <1>2 DEF TypeOK, SetResp, moduleVars
  <1>4. LockDiscipline'
    BY <1>1, <1>2, MoveKeepsLock DEF SetResp, Inside
  <1>5. pc'[c] = where /\ resp = RT_NULL /\ resp_notice <= 1
    BY <1>1, <1>2 DEF TypeOK, SetResp, NoticeAccounted, NoticeAt
  <1>6. c # RT_NULL
    BY AtClientAssumption
  <1>7. NoticeAt(c)'
    BY <1>5, <1>6 DEF TypeOK, SetResp, NoticeAt, BeforeTake, AfterTake
  <1>8. NoticeAccounted'
    BY <1>1, <1>2, <1>6, <1>7, OwnerKeepsNotice DEF SetResp
  <1> QED
    BY <1>3, <1>4, <1>8

LEMMA ClearAtInv ==
  ASSUME AtInv, NEW c \in Callers, Clear(c) PROVE AtInv'
  <1> USE DEF AtInv
  <1> DEFINE where == IF pc[c] = "clear1" THEN "clear2" ELSE "send"
  <1>1. lockQueue # <<>> /\ lockQueue[1] = c
    BY OwnerIsFirst DEF Clear, Inside
  <1>2. pc' = [pc EXCEPT ![c] = where] /\ where \in PCs /\ where \in Inside
    BY DEF Clear, Goto, PCs, Inside
  <1>3. TypeOK'
    <2>1. buf_len' \in [Callers -> 0 .. BufLines]
      <3>1. 0 \in 0 .. BufLines
        BY AtClientAssumption
      <3>2. buf_len \in [Callers -> 0 .. BufLines]
        BY DEF TypeOK
      <3>3. buf_len' = [buf_len EXCEPT ![c] = 0] \/ buf_len' = buf_len
        BY DEF Clear
      <3> HIDE DEF AtInv
      <3> QED
        BY <3>1, <3>2, <3>3
    <2>2. line_counts' \in [Callers -> Nat]
      <3>1. line_counts \in [Callers -> Nat]
        BY DEF TypeOK
      <3>2. line_counts' = [line_counts EXCEPT ![c] = 0] \/ line_counts' = line_counts
        BY DEF Clear
      <3> HIDE DEF AtInv
      <3> QED
        BY <3>1, <3>2
    <2>3. pc' \in [Callers -> PCs]
      BY <1>2 DEF TypeOK
    <2> QED
      BY <2>1, <2>2, <2>3 DEF TypeOK, Clear, clientVars, moduleVars, histVars
  <1>4. LockDiscipline'
    BY <1>1, <1>2, MoveKeepsLock DEF Clear, clientVars, Inside
  <1>5. NoticeAt(c)'
    BY <1>1, <1>2 DEF TypeOK, Clear, clientVars, NoticeAccounted, NoticeAt, BeforeTake, AfterTake
  <1>6. NoticeAccounted'
    BY <1>1, <1>2, <1>5, OwnerKeepsNotice DEF Clear, clientVars, NoticeAccounted
  <1> QED
    BY <1>3, <1>4, <1>6

LEMMA SendAtInv ==
  ASSUME AtInv, NEW c \in Callers, Send(c) PROVE AtInv'
  <1> USE DEF AtInv
  <1> DEFINE where == IF line_num[c] = NoResp THEN "exit" ELSE "take"
  <1>1. lockQueue # <<>> /\ lockQueue[1] = c
    BY OwnerIsFirst DEF Send, Inside
  <1>2. pc' = [pc EXCEPT ![c] = where] /\ where \in PCs /\ where \in Inside
    BY DEF Send, Goto, PCs, Inside
  <1>3. TypeOK'
    <2>1. todo' \in Seq(Nat) /\ sent' \in Nat
      BY AppendFacts DEF TypeOK, Send
    <2> QED
      BY <1>2, <2>1 DEF TypeOK, Send, clientVars
  <1>4. LockDiscipline'
    BY <1>1, <1>2, MoveKeepsLock DEF Send, clientVars, Inside
  <1>5. NoticeAt(c)'
    BY <1>1, <1>2 DEF TypeOK, Send, clientVars, NoticeAccounted, NoticeAt, BeforeTake, AfterTake
  <1>6. NoticeAccounted'
    BY <1>1, <1>2, <1>5, OwnerKeepsNotice DEF Send, clientVars, NoticeAccounted
  <1> QED
    BY <1>3, <1>4, <1>6

LEMMA TakeAtInv ==
  ASSUME AtInv, NEW c \in Callers, Take(c) PROVE AtInv'
  <1> USE DEF AtInv
  <1> DEFINE where == IF resp_notice > 0 THEN "woken" ELSE "waiting"
  <1>1. lockQueue # <<>> /\ lockQueue[1] = c
    BY OwnerIsFirst DEF Take, Inside
  <1>2. pc' = [pc EXCEPT ![c] = where] /\ where \in PCs /\ where \in Inside
    BY DEF Take, Goto, PCs, Inside
  <1>3. TypeOK'
    <2>1. resp_notice' \in Nat
      BY DEF TypeOK, Take
    <2>2. pc' \in [Callers -> PCs]
      BY <1>2 DEF TypeOK
    <2>3. UNCHANGED <<status, lockQueue, resp, resp_status, line_num, buf_len,
                      line_counts, result, moduleVars, histVars>>
      BY DEF Take
    <2> QED
      BY <2>1, <2>2, <2>3 DEF TypeOK, moduleVars, histVars
  <1>4. LockDiscipline'
    BY <1>1, <1>2, MoveKeepsLock DEF Take, Inside
  <1>5. line_num[c] # NoResp
    BY DEF Take, NoticeAccounted
  <1>6. NoticeAt(c)'
    <2>1. pc'[c] = where
      BY <1>2 DEF TypeOK
    <2>2. resp_notice \in Nat /\ pc[c] = "take" /\ resp' = resp
      BY DEF TypeOK, Take
    <2>3. /\ resp_notice <= IF resp = RT_NULL THEN 2 ELSE 1
          /\ resp = RT_NULL => resp_notice >= 1
          /\ resp # RT_NULL => resp = c
      BY <1>1, <1>5, <2>2 DEF NoticeAccounted, NoticeAt, BeforeTake
    <2>4. CASE resp_notice > 0
      <3>1. pc'[c] = "woken" /\ resp_notice' = resp_notice - 1
        BY <2>1, <2>4 DEF Take
      <3>2. resp_notice' <= IF resp' = RT_NULL THEN 1 ELSE 0
        BY <2>2, <2>3, <3>1
      <3> QED  BY <3>1, <3>2 DEF NoticeAt, BeforeTake
    <2>5. CASE resp_notice = 0
      <3>1. pc'[c] = "waiting" /\ resp_notice' = 0
        BY <2>1, <2>5 DEF Take
      <3>2. resp' = c
        BY <2>2, <2>3, <2>5
      <3> QED  BY <3>1, <3>2 DEF NoticeAt, BeforeTake, AfterTake
    <2> QED  BY <2>2, <2>4, <2>5
  <1>7. NoticeAccounted'
    BY <1>1, <1>2, <1>5, <1>6, OwnerKeepsNotice DEF Take, NoticeAccounted
  <1> QED
    BY <1>3, <1>4, <1>7

\* The owner leaves the queue of the lock; the next one becomes the owner.
LEMMA UnlockAtInv ==
  ASSUME AtInv, NEW c \in Callers, Unlock(c) PROVE AtInv'
  <1> USE DEF AtInv
  <1> DEFINE L == Len(lockQueue)
  <1>1. lockQueue # <<>> /\ lockQueue[1] = c
    BY OwnerIsFirst DEF Unlock, Inside
  <1>2. /\ lockQueue \in Seq(Callers) /\ L \in Nat
        /\ \A i \in 1 .. L : lockQueue[i] \in Callers
    BY LenFacts DEF TypeOK
  <1>3. /\ lockQueue' \in Seq(Callers) /\ L >= 1 /\ Len(lockQueue') = L - 1
        /\ \A i \in 1 .. L - 1 : lockQueue'[i] = lockQueue[i + 1]
    BY <1>1, <1>2, TailFacts DEF Unlock
  <1>4. TypeOK'
    BY <1>3 DEF TypeOK, Unlock, Goto, PCs, moduleVars, histVars
  <1>5. \A d \in Callers : pc'[d] = IF d = c THEN "idle" ELSE pc[d]
    BY DEF TypeOK, Unlock, Goto
  <1>6. \A i \in 1 .. L - 1 :
          /\ i + 1 \in 2 .. L /\ i + 1 \in 1 .. L
          /\ lockQueue[i + 1] # c /\ lockQueue[i + 1] \in Callers
    <2> TAKE i \in 1 .. L - 1
    <2>1. i + 1 \in 2 .. L /\ i + 1 \in 1 .. L /\ 1 \in 1 .. L /\ i + 1 # 1
      BY <1>2, <1>3
    <2> QED
      BY <2>1, <1>1, <1>2 DEF LockDiscipline
  <1>7. \A i \in 1 .. L - 1 : pc'[lockQueue'[i]] = "lock"
    BY <1>3, <1>5, <1>6 DEF LockDiscipline
  <1>8. LockDiscipline'
    <2>1. \A i, j \in 1 .. L - 1 : lockQueue'[i] = lockQueue'[j] => i = j
      <3> SUFFICES ASSUME NEW i \in 1 .. L - 1, NEW j \in 1 .. L - 1,
                          lockQueue'[i] = lockQueue'[j]
                   PROVE  i = j
        OBVIOUS
      <3>1. lockQueue[i + 1] = lockQueue[j + 1]
        BY <1>3
      <3>2. i + 1 = j + 1
        BY <3>1, <1>6 DEF LockDiscipline
      <3> QED
        BY <3>2
    <2>2. \A i \in 1 .. L - 1 : pc'[lockQueue'[i]] \in Inside
      BY <1>7 DEF Inside
    <2>3. \A i \in 2 .. L - 1 : pc'[lockQueue'[i]] = "lock"
      BY <1>2, <1>7
    <2>4. \A d \in Callers : pc'[d] \in Inside
            => \E i \in 1 .. L - 1 : lockQueue'[i] = d
      <3> SUFFICES ASSUME NEW d \in Callers, pc'[d] \in Inside
                   PROVE  \E i \in 1 .. L - 1 : lockQueue'[i] = d
        OBVIOUS
      <3>1. d # c /\ pc[d] \in Inside
        BY <1>5 DEF Inside
      <3>2. PICK k \in 1 .. L : lockQueue[k] = d
        BY <3>1 DEF LockDiscipline
      <3>3. k # 1 /\ k - 1 \in 1 .. L - 1 /\ (k - 1) + 1 = k
        BY <1>1, <1>2, <3>1, <3>2
      <3>4. lockQueue'[k - 1] = d
        BY <3>2, <3>3, <1>3
      <3> QED
        BY <3>3, <3>4
    <2> QED
      BY <2>1, <2>2, <2>3, <2>4, <1>3 DEF LockDiscipline
  <1>9. resp = RT_NULL /\ resp_notice <= 1 /\ resp' = resp /\ resp_notice' = resp_notice
        /\ line_num' = line_num
    BY <1>1 DEF TypeOK, Unlock, NoticeAccounted, NoticeAt, AfterTake
  <1>10. NoticeAccounted'
    <2>1. \A d \in Callers : pc'[d] \in {"clear1", "clear2", "take", "waiting", "woken"}
            => line_num'[d] # NoResp
      BY <1>5, <1>9 DEF NoticeAccounted
    <2>2. lockQueue' # <<>> => pc'[lockQueue'[1]] = "lock"
      <3>1. lockQueue' # <<>> => 1 \in 1 .. L - 1
        BY <1>2, <1>3, LenFacts
      <3> QED
        BY <3>1, <1>7
    <2>3. lockQueue' # <<>> => NoticeAt(lockQueue[1])'
      BY <2>2, <1>9 DEF NoticeAt, BeforeTake, AfterTake
    <2> QED
      BY <2>1, <2>3, <1>9 DEF NoticeAccounted
  <1> QED
    BY <1>4, <1>8, <1>10

----------------------------------------------------------------------------
(* The parser.                                                              *)

\* A line of the response is stored or dropped.
LEMMA StoreTypes ==
  ASSUME TypeOK, resp \in Callers, Store
  PROVE  /\ buf_len' \in [Callers -> 0 .. BufLines]
         /\ line_counts' \in [Callers -> Nat]
  <1>1. CASE Fits
    <2>1. buf_len[resp] + 1 \in 0 .. BufLines
      BY <1>1, AtClientAssumption DEF TypeOK, Fits
    <2>2. line_counts[resp] + 1 \in Nat
      BY DEF TypeOK
    <2> QED
      BY <1>1, <2>1, <2>2 DEF TypeOK, Store
  <1>2. CASE ~Fits
    BY <1>2 DEF TypeOK, Store
  <1> QED
    BY <1>1, <1>2

LEMMA MoreLineAtInv ==
  ASSUME AtInv, MoreLine PROVE AtInv'
  <1> USE DEF AtInv
  <1>1. resp \in Callers
    BY DEF TypeOK, MoreLine
  <1>2. wire' \in Seq([kind : Kinds, cmd : Nat])
    BY TailFacts DEF TypeOK, MoreLine
  <1>3. TypeOK'
    BY <1>1, <1>2, StoreTypes DEF TypeOK, MoreLine
  <1> QED
    BY <1>3, FrameKeepsInv DEF MoreLine

\* The response leaves the parser; its owner is woken, or finds a notice.
LEMMA LastLineAtInv ==
  ASSUME AtInv, LastLine PROVE AtInv'
  <1> USE DEF AtInv
  <1> DEFINE h == lockQueue[1]
  <1>1. resp = h /\ h \in Callers /\ lockQueue # <<>> /\ line_num[h] # NoResp
    BY DEF TypeOK, LastLine, NoticeAccounted
  <1>2. \A c \in Callers : pc[c] = "waiting" => c = h
    BY OwnerIsFirst DEF Inside
  <1>3. resp' = RT_NULL /\ UNCHANGED <<lockQueue, line_num>>
    BY DEF LastLine
  <1>4. /\ wire' \in Seq([kind : Kinds, cmd : Nat])
        /\ Head(wire) \in [kind : Kinds, cmd : Nat]
    BY TailFacts DEF TypeOK, LastLine
  <1>5. pc[h] \in Inside /\ pc[h] \notin {"lock", "unlock"}
    BY <1>1, FirstIsInside, AtClientAssumption DEF NoticeAccounted, NoticeAt, LastLine
  <1>6. \/ /\ pc[h] = "waiting" /\ pc' = [pc EXCEPT ![h] = "woken"]
           /\ resp_notice' = resp_notice
        \/ /\ pc[h] # "waiting" /\ pc' = [pc EXCEPT ![h] = pc[h]]
           /\ resp_notice' = resp_notice + 1
    <2>1. CASE pc[h] = "waiting"
      <3>1. Waiter = {h}
        BY <2>1, <1>1, <1>2 DEF Waiter
      <3>2. pc' = [c \in Callers |-> IF c \in Waiter THEN "woken" ELSE pc[c]]
            /\ resp_notice' = resp_notice
        BY <3>1 DEF LastLine, ReleaseNotice
      <3>3. pc' = [pc EXCEPT ![h] = "woken"]
        BY <3>1, <3>2 DEF TypeOK
      <3> QED
        BY <2>1, <3>2, <3>3
    <2>2. CASE pc[h] # "waiting"
      <3>1. Waiter = {}
        BY <2>2, <1>2 DEF Waiter
      <3>2. resp_notice' = resp_notice + 1 /\ pc' = pc
        BY <3>1 DEF LastLine, ReleaseNotice
      <3>3. pc' = [pc EXCEPT ![h] = pc[h]]
        BY <3>2 DEF TypeOK
      <3> QED
        BY <2>2, <3>2, <3>3
    <2> QED
      BY <2>1, <2>2
  <1> DEFINE where == IF pc[h] = "waiting" THEN "woken" ELSE pc[h]
  <1>7. pc' = [pc EXCEPT ![h] = where] /\ where \in PCs /\ where \in Inside
    BY <1>1, <1>5, <1>6 DEF TypeOK, PCs, Inside
  <1>8. resp_status' \in {"OK", "ERROR"}
    BY DEF LastLine, Verdict
  <1>9. TypeOK'
    <2>1. pc' \in [Callers -> PCs] /\ resp_notice' \in Nat
      <3>1. pc \in [Callers -> PCs] /\ resp_notice \in Nat
        BY DEF TypeOK
      <3>2. pc' \in [Callers -> PCs]
        BY <3>1, <1>7
      <3> QED
        BY <3>1, <3>2, <1>6
    <2>2. answer' \in [Callers -> Nat]
      BY <1>1, <1>4 DEF TypeOK, LastLine
    <2>3. /\ buf_len' \in [Callers -> 0 .. BufLines]
          /\ line_counts' \in [Callers -> Nat]
      BY <1>1, StoreTypes DEF LastLine
    <2> QED
      BY <1>3, <1>4, <1>8, <2>1, <2>2, <2>3 DEF TypeOK, LastLine
  <1>10. LockDiscipline'
    BY <1>1, <1>3, <1>5, <1>7, MoveKeepsLock
  <1>11. pc'[h] = where
    BY <1>1, <1>7 DEF TypeOK
  <1>12. h # RT_NULL /\ NoticeAt(h)
    BY <1>1, AtClientAssumption DEF NoticeAccounted
  <1>13. resp_notice \in Nat
    BY DEF TypeOK
  <1>14. NoticeAt(h)'
    BY <1>1, <1>3, <1>5, <1>6, <1>11, <1>12, <1>13
    DEF NoticeAt, BeforeTake, AfterTake, Inside
  <1>15. NoticeAccounted'
    BY <1>1, <1>3, <1>7, <1>14, OwnerKeepsNotice DEF NoticeAccounted
  <1> QED
    BY <1>9, <1>10, <1>15

----------------------------------------------------------------------------
(* The steps that touch neither the lock nor the response.                  *)

LEMMA OtherStepsAtInv ==
  ASSUME AtInv,
         \/ SkipLine \/ CliEnter \/ CliLine \/ CliLeave
         \/ ModuleText \/ ModuleEnd \/ ModuleUrc
  PROVE  AtInv'
  <1> USE DEF AtInv
  <1>1. UNCHANGED <<lockQueue, pc, resp, resp_notice, line_num>>
    BY DEF SkipLine, CliEnter, CliLine, CliLeave, ModuleText, ModuleEnd, ModuleUrc,
       clientVars, callerVars
  <1>2. CASE SkipLine \/ CliLine
    <2>1. wire' \in Seq([kind : Kinds, cmd : Nat])
      <3>1. wire # <<>> /\ wire' = Tail(wire)
        BY <1>2 DEF SkipLine, CliLine
      <3> QED
        BY <3>1, TailFacts DEF TypeOK
    <2>2. TypeOK'
      BY <1>2, <2>1 DEF TypeOK, SkipLine, CliLine, clientVars, callerVars, histVars
    <2> QED
      BY <1>1, <2>2, FrameKeepsInv
  <1>3. CASE CliEnter \/ CliLeave
    <2>1. TypeOK'
      BY <1>3 DEF TypeOK, CliEnter, CliLeave, callerVars, moduleVars, histVars
    <2> QED
      BY <1>1, <2>1, FrameKeepsInv
  <1>4. ASSUME NEW kind \in Kinds, NEW k \in Nat, Emit(kind, k)
        PROVE  wire' \in Seq([kind : Kinds, cmd : Nat])
    BY <1>4, AppendFacts DEF TypeOK, Emit
  <1>5. todo # <<>> => Head(todo) \in Nat /\ Tail(todo) \in Seq(Nat)
    BY TailFacts DEF TypeOK
  <1>6. CASE ModuleText
    <2>1. wire' \in Seq([kind : Kinds, cmd : Nat])
      BY <1>4, <1>5, <1>6 DEF ModuleText, Kinds
    <2>2. texts' \in Nat
      BY <1>6 DEF TypeOK, ModuleText
    <2>3. TypeOK'
      BY <1>6, <2>1, <2>2 DEF TypeOK, ModuleText, clientVars, callerVars, histVars
    <2> QED
      BY <1>1, <2>3, FrameKeepsInv
  <1>7. CASE ModuleEnd
    <2>1. TypeOK'
      BY <1>4, <1>5, <1>7 DEF TypeOK, ModuleEnd, clientVars, callerVars, histVars, Kinds
    <2> QED
      BY <1>1, <2>1, FrameKeepsInv
  <1>8. CASE ModuleUrc
    <2>1. TypeOK'
      BY <1>4, <1>8 DEF TypeOK, ModuleUrc, clientVars, callerVars, histVars, Kinds
    <2> QED
      BY <1>1, <2>1, FrameKeepsInv
  <1> QED
    BY <1>2, <1>3, <1>6, <1>7, <1>8

----------------------------------------------------------------------------
(* The theorems.                                                            *)

LEMMA StepAtInv == AtInv /\ [Next]_vars => AtInv'
  <1> SUFFICES ASSUME AtInv, [Next]_vars PROVE AtInv'
    OBVIOUS
  <1>1. CASE UNCHANGED vars
    <2>1. TypeOK'
      BY <1>1 DEF AtInv, TypeOK, vars, clientVars, callerVars, moduleVars, histVars
    <2> QED
      BY <1>1, <2>1, FrameKeepsInv DEF AtInv, vars, clientVars, callerVars
  <1>2. ASSUME NEW c \in Callers, CreateResp(c) \/ DeleteResp(c) \/ ExecCall(c)
        PROVE  AtInv'
    BY <1>2, CreateRespAtInv, DeleteRespAtInv, ExecCallAtInv
  <1>3. ASSUME NEW c \in Callers, CallerStep(c) \/ Expire(c) PROVE AtInv'
    BY <1>3, SetRespAtInv, ClearAtInv, SendAtInv, TakeAtInv, TimedOutAtInv,
       CheckStatusAtInv, ExitAtInv, UnlockAtInv, ExpireAtInv DEF CallerStep
  <1>4. CASE ParserStep
    BY <1>4, MoreLineAtInv, LastLineAtInv, OtherStepsAtInv DEF ParserStep
  <1> QED
    BY <1>1, <1>2, <1>3, <1>4, OtherStepsAtInv DEF Next

\* The inductive invariant of the AT client holds in every state, for any set of
\* callers, any buffers and however the answers are delayed.
THEOREM AtInvariant == Spec => []AtInv
  <1> QED
    BY InitAtInv, StepAtInv, PTL DEF Spec

\* Type correctness; a response never holds more lines than its buffer.
THEOREM AtTypeCorrect == Spec => []TypeOK
  <1>1. AtInv => TypeOK
    BY DEF AtInv
  <1> QED
    BY <1>1, AtInvariant, PTL

\* client_parser only ever writes to the response of the thread that holds the
\* lock of the client and is inside at_obj_exec_cmd.
THEOREM AtRespOwned == Spec => []RespOwnedByCaller
  <1>1. AtInv => RespOwnedByCaller
    <2> SUFFICES ASSUME AtInv, resp # RT_NULL
                 PROVE  /\ lockQueue # <<>> /\ Head(lockQueue) = resp
                        /\ pc[resp] \notin {"none", "idle", "lock", "unlock"}
      BY DEF RespOwnedByCaller
    <2>1. lockQueue # <<>> /\ lockQueue[1] = resp /\ NoticeAt(resp)
      BY DEF AtInv, NoticeAccounted
    <2>2. Head(lockQueue) = lockQueue[1]
      BY <2>1, TailFacts DEF AtInv, TypeOK
    <2>3. pc[resp] \in Inside
      BY <2>1, FirstIsInside DEF AtInv
    <2> QED
      BY <2>1, <2>2, <2>3 DEF NoticeAt, Inside
  <1> QED
    BY <1>1, AtInvariant, PTL

\* Late answers never pile up in the semaphore resp_notice.
THEOREM AtNoticeBounded == Spec => []NoticeBounded
  <1>1. AtInv => NoticeBounded
    <2> SUFFICES ASSUME AtInv PROVE NoticeBounded
      OBVIOUS
    <2>1. resp_notice \in Nat
      BY DEF AtInv, TypeOK
    <2>2. CASE lockQueue = <<>>
      BY <2>1, <2>2 DEF AtInv, NoticeAccounted, NoticeBounded
    <2>3. CASE lockQueue # <<>>
      <3>1. pc[lockQueue[1]] \in Inside /\ NoticeAt(lockQueue[1])
        BY <2>3, FirstIsInside DEF AtInv, NoticeAccounted
      <3> QED
        BY <3>1, <2>1, <2>3 DEF NoticeAt, NoticeBounded, Inside, BeforeTake, AfterTake
    <2> QED
      BY <2>2, <2>3
  <1> QED
    BY <1>1, AtInvariant, PTL

----------------------------------------------------------------------------
(* Every counted line is stored, and answers match.                         *)

\* buf_len is cleared before line_counts: only between the two may a response
\* count more lines than it holds.
CountsStored ==
  \A c \in Callers : pc[c] # "clear2" => line_counts[c] <= buf_len[c]

\* The parser has the response of a command that was sent.
Answering == resp # RT_NULL /\ pc[resp] \in {"take", "waiting"}

\* The module owes no answer and none is under way.
Silent == todo = <<>> /\ \A i \in 1 .. Len(wire) : wire[i].kind = "urc"

\* What is owed or under way is the answer to the command k: lines of text, then
\* one OK or ERROR and nothing behind it.
OneAnswer(k) ==
  /\ todo = <<>> \/ todo = <<k>>
  /\ \A i \in 1 .. Len(wire) : wire[i].kind # "urc" => wire[i].cmd = k
  /\ \A i \in 1 .. Len(wire) : wire[i].kind \in {"OK", "ERROR"} =>
       /\ todo = <<>>
       /\ \A j \in 1 .. Len(wire) : j > i => wire[j].kind = "urc"

\* Where each thread is as long as no wait has timed out.
InTime(c) ==
  /\ pc[c] # "timedout"
  /\ pc[c] \in {"clear1", "clear2", "send"} /\ line_num[c] # NoResp => resp = c
  /\ pc[c] \in {"take", "waiting", "woken"} => line_num[c] = 0
  /\ pc[c] = "take" /\ resp = RT_NULL => resp_notice = 1 /\ answer[c] = cmd[c]
  /\ pc[c] = "woken" => resp = RT_NULL /\ answer[c] = cmd[c]
  /\ result[c] \in {"EOK", "ERROR"} /\ pc[c] \in {"none", "idle", "exit", "unlock"}
       => answer[c] = cmd[c]

CleanInv ==
  /\ \A c \in Callers : InTime(c)
  /\ resp_notice > 0 => resp = RT_NULL /\ \E c \in Callers : pc[c] = "take"
  /\ IF Answering THEN OneAnswer(cmd[resp]) ELSE Silent

AnswerInv == clean => CleanInv

\* Nothing is counted that is not stored, whatever the step.
LEMMA StepCountsStored ==
  ASSUME AtInv, CountsStored, [Next]_vars PROVE CountsStored'
  <1>1. /\ pc \in [Callers -> PCs] /\ resp \in Callers \cup {RT_NULL}
        /\ buf_len \in [Callers -> 0 .. BufLines] /\ line_counts \in [Callers -> Nat]
        /\ BufLines \in Nat
    BY AtClientAssumption DEF AtInv, TypeOK
  <1>2. CASE UNCHANGED <<line_counts, buf_len, pc>>
    BY <1>2 DEF CountsStored
  <1>3. ASSUME NEW c \in Callers, NEW where \in PCs \ {"clear2"}, pc[c] # "clear2",
               pc' = [pc EXCEPT ![c] = where], UNCHANGED <<line_counts, buf_len>>
        PROVE  CountsStored'
    BY <1>1, <1>3 DEF CountsStored
  <1>4. ASSUME NEW c \in Callers, DeleteResp(c) PROVE CountsStored'
    BY <1>1, <1>4 DEF CountsStored, DeleteResp, Goto
  <1>5. ASSUME NEW c \in Callers, Clear(c) PROVE CountsStored'
    <2>1. CASE pc[c] = "clear1"
      BY <1>1, <1>5, <2>1 DEF CountsStored, Clear, Goto
    <2>2. CASE pc[c] = "clear2"
      BY <1>1, <1>5, <2>2 DEF CountsStored, Clear, Goto
    <2> QED
      BY <1>5, <2>1, <2>2 DEF Clear
  <1>6. ASSUME NEW c \in Callers, CreateResp(c) \/ ExecCall(c) \/ Expire(c) PROVE CountsStored'
    <2>1. UNCHANGED <<line_counts, buf_len>> /\ pc[c] \in {"none", "idle", "waiting"}
      BY <1>6 DEF CreateResp, ExecCall, Expire
    <2>2. \/ pc' = pc \/ pc' = [pc EXCEPT ![c] = "idle"]
          \/ pc' = [pc EXCEPT ![c] = "lock"] \/ pc' = [pc EXCEPT ![c] = "timedout"]
      BY <1>6 DEF CreateResp, ExecCall, Expire, Goto
    <2> QED
      BY <1>2, <1>3, <2>1, <2>2 DEF PCs
  <1>7. ASSUME NEW c \in Callers, CallerStep(c), ~Clear(c) PROVE CountsStored'
    <2>1. UNCHANGED <<line_counts, buf_len>> /\ pc[c] # "clear2"
      BY <1>7 DEF CallerStep, SetResp, Send, Take, TimedOut, CheckStatus, Exit, Unlock
    <2>2. \E where \in {"send", "clear1", "exit", "take", "woken", "waiting", "unlock", "idle"} :
            pc' = [pc EXCEPT ![c] = where]
      <3>1. CASE SetResp(c) \/ Send(c) \/ Take(c)
        BY <3>1 DEF SetResp, Send, Take, Goto
      <3>2. CASE TimedOut(c) \/ CheckStatus(c) \/ Exit(c) \/ Unlock(c)
        BY <3>2 DEF TimedOut, CheckStatus, Exit, Unlock, Goto
      <3> QED
        BY <1>7, <3>1, <3>2 DEF CallerStep
    <2> QED
      BY <1>3, <2>1, <2>2 DEF PCs
  <1>8. ASSUME resp \in Callers, Store,
               \A c \in Callers : pc'[c] # "clear2" => pc[c] # "clear2"
        PROVE  CountsStored'
    BY <1>1, <1>8 DEF CountsStored, Store
  <1>9. CASE MoreLine
    BY <1>1, <1>8, <1>9 DEF MoreLine
  <1>10. CASE LastLine
    <2>1. \A c \in Callers : pc'[c] # "clear2" => pc[c] # "clear2"
      BY <1>1, <1>10 DEF LastLine, ReleaseNotice, Waiter
    <2> QED
      BY <1>1, <1>8, <1>10, <2>1 DEF LastLine
  <1>11. CASE SkipLine \/ CliEnter \/ CliLine \/ CliLeave \/ ModuleText \/ ModuleEnd \/ ModuleUrc
    BY <1>2, <1>11
    DEF SkipLine, CliEnter, CliLine, CliLeave, ModuleText, ModuleEnd, ModuleUrc, callerVars
  <1>12. CASE UNCHANGED vars
    BY <1>2, <1>12 DEF vars, callerVars
  <1> QED
    BY <1>4, <1>5, <1>6, <1>7, <1>9, <1>10, <1>11, <1>12 DEF Next, ParserStep

\* After a return of at_obj_exec_cmd, each line the caller may ask for with
\* at_resp_get_line is in the buffer.
THEOREM AtCountedStored == Spec => []CountedLinesStored
  <1>1. Init => CountsStored
    BY DEF Init, CountsStored
  <1>2. AtInv /\ CountsStored /\ [Next]_vars => CountsStored'
    BY StepCountsStored
  <1>3. CountsStored => CountedLinesStored
    BY DEF CountsStored, CountedLinesStored
  <1> QED
    BY <1>1, <1>2, <1>3, AtInvariant, PTL DEF Spec

----------------------------------------------------------------------------
(* Answers match while no wait has timed out.                               *)

\* The owner of the lock is alone inside.
LEMMA Alone ==
  ASSUME AtInv, NEW c \in Callers, lockQueue # <<>>, lockQueue[1] = c
  PROVE  /\ resp \in {c, RT_NULL} /\ NoticeAt(c) /\ c # RT_NULL
         /\ \A d \in Callers : d # c => pc[d] \in {"none", "idle", "lock"}
  <1>1. resp \in {c, RT_NULL} /\ NoticeAt(c) /\ c # RT_NULL
    BY AtClientAssumption DEF AtInv, NoticeAccounted
  <1>2. ASSUME NEW d \in Callers, d # c PROVE pc[d] \in {"none", "idle", "lock"}
    <2>1. pc[d] \notin Inside \/ pc[d] = "lock"
      BY <1>2, OwnerIsFirst DEF AtInv
    <2>2. pc[d] \in PCs
      BY DEF AtInv, TypeOK
    <2> QED
      BY <2>1, <2>2 DEF PCs, Inside
  <1> QED
    BY <1>1, <1>2

\* A thread outside has no response with the parser.
LEMMA OutsideNoResp ==
  ASSUME AtInv, NEW c \in Callers, pc[c] \notin Inside
  PROVE  resp # c
  BY FirstIsInside, AtClientAssumption DEF AtInv, NoticeAccounted

\* A step of c leaves the other threads alone.
OthersSame(c) ==
  \A d \in Callers : d # c =>
    /\ pc'[d] = pc[d] /\ line_num'[d] = line_num[d] /\ result'[d] = result[d]
    /\ cmd'[d] = cmd[d] /\ answer'[d] = answer[d]

\* A step of the owner of the lock: the others are outside.
LEMMA OwnerInTime ==
  ASSUME AtInv, CleanInv, NEW c \in Callers, lockQueue # <<>>, lockQueue[1] = c,
         OthersSame(c), InTime(c)'
  PROVE  \A d \in Callers : InTime(d)'
  <1> SUFFICES ASSUME NEW d \in Callers, d # c PROVE InTime(d)'
    OBVIOUS
  <1>1. pc[d] \in {"none", "idle", "lock"}
    BY Alone
  <1>2. InTime(d)
    BY DEF CleanInv
  <1>3. /\ pc'[d] = pc[d] /\ result'[d] = result[d]
        /\ cmd'[d] = cmd[d] /\ answer'[d] = answer[d]
    BY DEF OthersSame
  <1> QED
    BY <1>1, <1>2, <1>3 DEF InTime

\* The semaphore is empty unless the owner of the lock is about to take it.
LEMMA EmptyNotice ==
  ASSUME AtInv, CleanInv, NEW c \in Callers, lockQueue # <<>>, lockQueue[1] = c,
         pc[c] # "take" \/ resp # RT_NULL
  PROVE  resp_notice = 0
  <1>1. resp_notice \in Nat
    BY DEF AtInv, TypeOK
  <1>2. ~(resp_notice > 0)
    <2> SUFFICES ASSUME resp_notice > 0 PROVE FALSE
      OBVIOUS
    <2>1. resp = RT_NULL
      BY DEF CleanInv
    <2>2. PICK d \in Callers : pc[d] = "take"
      BY DEF CleanInv
    <2>3. d = c
      BY <2>2, Alone
    <2> QED
      BY <2>1, <2>2, <2>3
  <1> QED
    BY <1>1, <1>2

\* The first line is taken off.
LEMMA TailAnswer ==
  ASSUME TypeOK, wire # <<>>, wire' = Tail(wire), todo' = todo
  PROVE  /\ Silent => Silent'
         /\ \A k : OneAnswer(k) => OneAnswer(k)'
  <1> DEFINE L == Len(wire)
  <1>1. /\ L \in Nat /\ Len(wire') = L - 1
        /\ \A i \in 1 .. L - 1 : wire'[i] = wire[i + 1]
    BY TailFacts, LenFacts DEF TypeOK
  <1>2. \A i \in 1 .. L - 1 : i + 1 \in 1 .. L
    BY <1>1
  <1> HIDE DEF L
  <1>3. Silent => Silent'
    <2> SUFFICES ASSUME Silent PROVE Silent'
      OBVIOUS
    <2>1. \A i \in 1 .. L : wire[i].kind = "urc"
      BY DEF Silent, L
    <2>2. \A i \in 1 .. L - 1 : wire'[i].kind = "urc"
      BY <1>1, <1>2, <2>1
    <2> QED
      BY <1>1, <2>2 DEF Silent
  <1>4. ASSUME NEW k, OneAnswer(k) PROVE OneAnswer(k)'
    <2>1. \A i \in 1 .. L - 1 : wire'[i].kind # "urc" => wire'[i].cmd = k
      <3> TAKE i \in 1 .. L - 1
      <3> QED
        BY <1>1, <1>2, <1>4 DEF OneAnswer, L
    <2>2. ASSUME NEW i \in 1 .. L - 1, wire'[i].kind \in {"OK", "ERROR"}
          PROVE  todo = <<>> /\ \A j \in 1 .. L - 1 : j > i => wire'[j].kind = "urc"
      <3>1. i + 1 \in 1 .. L /\ wire[i + 1].kind \in {"OK", "ERROR"}
        BY <1>1, <1>2, <2>2
      <3>2. todo = <<>> /\ \A j \in 1 .. L : j > i + 1 => wire[j].kind = "urc"
        BY <1>4, <3>1 DEF OneAnswer, L
      <3>3. ASSUME NEW j \in 1 .. L - 1, j > i PROVE wire'[j].kind = "urc"
        <4>1. j + 1 \in 1 .. L /\ j + 1 > i + 1
          BY <1>1, <3>3
        <4> QED
          BY <1>1, <3>2, <4>1
      <3> QED
        BY <3>2, <3>3
    <2> QED
      BY <1>1, <1>4, <2>1, <2>2 DEF OneAnswer
  <1> QED
    BY <1>3, <1>4

\* A step that leaves the wire alone and does not end or begin a wait for lines.
LEMMA SameAnswer ==
  ASSUME CleanInv, UNCHANGED <<wire, todo>>, Answering' <=> Answering,
         Answering => cmd'[resp'] = cmd[resp]
  PROVE  IF Answering' THEN OneAnswer(cmd[resp])' ELSE Silent'
  BY DEF CleanInv, OneAnswer, Silent

\* A thread outside of at_obj_exec_cmd stays there or joins the queue.
LEMMA OutsideClean ==
  ASSUME AtInv, CleanInv, NEW c \in Callers, CreateResp(c) \/ DeleteResp(c) \/ ExecCall(c)
  PROVE  CleanInv'
  <1>1. pc[c] \in {"none", "idle"} /\ UNCHANGED <<resp, resp_notice, wire, todo>>
    BY DEF CreateResp, DeleteResp, ExecCall, clientVars, moduleVars
  <1>2. resp # c
    BY <1>1, OutsideNoResp DEF Inside
  <1>3. OthersSame(c)
    <2>1. CASE CreateResp(c)
      BY <2>1 DEF OthersSame, CreateResp, Goto, histVars, AtInv, TypeOK
    <2>2. CASE DeleteResp(c)
      BY <2>2 DEF OthersSame, DeleteResp, Goto, AtInv, TypeOK
    <2>3. CASE ExecCall(c)
      BY <2>3 DEF OthersSame, ExecCall, Goto, histVars, AtInv, TypeOK
    <2> QED
      BY <2>1, <2>2, <2>3
  <1>4. pc'[c] \in {"none", "idle", "lock"}
    BY DEF CreateResp, DeleteResp, ExecCall, Goto, AtInv, TypeOK
  <1>5. InTime(c)'
    <2>1. InTime(c)
      BY DEF CleanInv
    <2>2. \/ result'[c] = result[c] /\ answer'[c] = answer[c] /\ cmd'[c] = cmd[c]
          \/ result'[c] \in {"none", "EBUSY"}
      BY DEF CreateResp, DeleteResp, ExecCall, histVars, AtInv, TypeOK
    <2> QED
      BY <1>1, <1>4, <2>1, <2>2 DEF InTime
  <1>6. \A d \in Callers : InTime(d)'
    <2> SUFFICES ASSUME NEW d \in Callers, d # c PROVE InTime(d)'
      BY <1>5
    <2>1. InTime(d)
      BY DEF CleanInv
    <2> QED
      BY <1>1, <1>3, <2>1 DEF InTime, OthersSame
  <1>7. resp_notice' > 0 => resp' = RT_NULL /\ \E d \in Callers : pc'[d] = "take"
    <2> SUFFICES ASSUME resp_notice > 0
                 PROVE  resp = RT_NULL /\ \E d \in Callers : pc'[d] = "take"
      BY <1>1
    <2>1. resp = RT_NULL
      BY DEF CleanInv
    <2>2. PICK d \in Callers : pc[d] = "take"
      BY DEF CleanInv
    <2>3. d # c
      BY <1>1, <2>2
    <2> QED
      BY <1>3, <2>1, <2>2, <2>3 DEF OthersSame
  <1>8. resp \in Callers \cup {RT_NULL}
    BY DEF AtInv, TypeOK
  <1>9. (Answering' <=> Answering) /\ (Answering => cmd'[resp'] = cmd[resp])
    BY <1>1, <1>2, <1>3, <1>8 DEF Answering, OthersSame
  <1>10. IF Answering' THEN OneAnswer(cmd[resp])' ELSE Silent'
    BY <1>1, <1>9, SameAnswer
  <1> QED
    BY <1>6, <1>7, <1>10 DEF CleanInv

\* Steps of the owner of the lock during which nothing is owed by the module.
LEMMA QuietClean ==
  ASSUME AtInv, CleanInv, NEW c \in Callers,
         SetResp(c) \/ Clear(c) \/ CheckStatus(c) \/ Exit(c) \/ Unlock(c)
  PROVE  CleanInv'
  <1>1. lockQueue # <<>> /\ lockQueue[1] = c
    <2>1. CASE SetResp(c)
      <3>1. PICK i \in 1 .. Len(lockQueue) : lockQueue[i] = c
        BY <2>1 DEF SetResp, AtInv, LockDiscipline, Inside
      <3> QED
        BY <2>1, <3>1, TailFacts, LenFacts DEF SetResp, AtInv, TypeOK
    <2>2. CASE Clear(c) \/ CheckStatus(c) \/ Exit(c) \/ Unlock(c)
      BY <2>2, OwnerIsFirst DEF AtInv, Inside, Clear, CheckStatus, Exit, Unlock
    <2> QED
      BY <2>1, <2>2
  <1>2. resp \in {c, RT_NULL} /\ NoticeAt(c) /\ c # RT_NULL /\ InTime(c)
    BY <1>1, Alone DEF CleanInv
  <1>3. pc[c] \in {"lock", "clear1", "clear2", "woken", "exit", "unlock"}
    BY DEF SetResp, Clear, CheckStatus, Exit, Unlock
  <1>4. Silent
    <2>1. ~Answering
      BY <1>2, <1>3 DEF Answering
    <2> QED
      BY <2>1 DEF CleanInv
  <1>5. resp_notice = 0
    BY <1>1, <1>3, EmptyNotice
  <1>6. UNCHANGED <<wire, todo, resp_notice, cmd, line_num>>
    BY DEF SetResp, Clear, CheckStatus, Exit, Unlock, clientVars, moduleVars, histVars
  <1>7. OthersSame(c) /\ pc'[c] \in {"clear1", "clear2", "send", "exit", "unlock", "idle"}
    <2>1. CASE SetResp(c)
      BY <2>1 DEF OthersSame, SetResp, Goto, AtInv, TypeOK
    <2>2. CASE Clear(c)
      BY <2>2 DEF OthersSame, Clear, Goto, histVars, AtInv, TypeOK
    <2>3. CASE CheckStatus(c)
      BY <2>3 DEF OthersSame, CheckStatus, Goto, histVars, AtInv, TypeOK
    <2>4. CASE Exit(c) \/ Unlock(c)
      BY <2>4 DEF OthersSame, Exit, Unlock, Goto, histVars, AtInv, TypeOK
    <2> QED
      BY <2>1, <2>2, <2>3, <2>4
  <1>8. resp' \in {c, RT_NULL}
    BY <1>2 DEF SetResp, Clear, CheckStatus, Exit, Unlock, clientVars
  <1>9. InTime(c)'
    <2>0. pc \in [Callers -> PCs] /\ result \in [Callers -> {"none", "EOK", "ERROR", "ETIMEOUT", "EBUSY"}]
      BY DEF AtInv, TypeOK
    <2>1. CASE SetResp(c)
      <3>1. line_num[c] # NoResp => resp' = c /\ pc'[c] = "clear1"
        BY <2>0, <2>1 DEF SetResp, Goto
      <3>2. pc'[c] \in {"clear1", "send"}
        BY <2>0, <2>1 DEF SetResp, Goto
      <3> QED
        BY <1>6, <3>1, <3>2 DEF InTime
    <2>2. CASE Clear(c)
      <3>1. pc'[c] \in {"clear2", "send"} /\ resp' = resp /\ pc[c] \in {"clear1", "clear2"}
        BY <2>0, <2>2 DEF Clear, Goto, clientVars
      <3> QED
        BY <1>2, <1>6, <3>1 DEF InTime
    <2>3. CASE CheckStatus(c)
      <3>1. pc[c] = "woken" /\ pc'[c] = "exit" /\ answer' = answer
        BY <2>0, <2>3 DEF CheckStatus, Goto, histVars
      <3> QED
        BY <1>2, <1>6, <3>1 DEF InTime
    <2>4. CASE Exit(c) \/ Unlock(c)
      <3>1. /\ pc[c] \in {"exit", "unlock"} /\ pc'[c] \in {"unlock", "idle"}
            /\ answer' = answer /\ result' = result
        BY <2>0, <2>4 DEF Exit, Unlock, Goto, histVars
      <3> QED
        BY <1>2, <1>6, <3>1 DEF InTime
    <2> QED
      BY <2>1, <2>2, <2>3, <2>4
  <1>10. \A d \in Callers : InTime(d)'
    BY <1>1, <1>7, <1>9, OwnerInTime
  <1>11. ~Answering' /\ Silent'
    BY <1>4, <1>6, <1>7, <1>8 DEF Answering, Silent
  <1>12. ~(resp_notice' > 0)
    BY <1>5, <1>6
  <1> QED
    BY <1>10, <1>11, <1>12 DEF CleanInv

\* The command goes out; its answer is the only one under way.
LEMMA SendClean ==
  ASSUME AtInv, CleanInv, NEW c \in Callers, Send(c), clean' PROVE CleanInv'
  <1>1. lockQueue # <<>> /\ lockQueue[1] = c
    BY OwnerIsFirst DEF AtInv, Inside, Send
  <1>2. line_num[c] = 0 /\ line_num[c] # NoResp
    <2>1. clean' = (clean /\ line_num[c] = 0)
      BY DEF Send
    <2>2. line_num[c] = 0
      BY <2>1, Zenon
    <2> QED
      BY <2>2 DEF NoResp
  <1>3. resp = c /\ c # RT_NULL /\ InTime(c)
    BY <1>1, <1>2, Alone DEF CleanInv, InTime, Send
  <1>4. Silent /\ resp_notice = 0
    <2>1. ~Answering
      BY <1>3 DEF Answering, Send
    <2>2. resp_notice = 0
      BY <1>1, EmptyNotice DEF Send
    <2> QED
      BY <2>1, <2>2 DEF CleanInv
  <1>5. /\ UNCHANGED <<resp, resp_notice, line_num, wire, answer>> /\ pc' = [pc EXCEPT ![c] = "take"]
        /\ todo' = Append(todo, sent + 1) /\ cmd' = [cmd EXCEPT ![c] = sent + 1]
        /\ result' = [result EXCEPT ![c] = "EOK"]
    BY <1>2 DEF Send, Goto, clientVars
  <1>6. OthersSame(c) /\ pc'[c] = "take" /\ cmd'[c] = sent + 1
    BY <1>5 DEF OthersSame, AtInv, TypeOK
  <1>7. InTime(c)'
    BY <1>2, <1>3, <1>5, <1>6 DEF InTime
  <1>8. \A d \in Callers : InTime(d)'
    BY <1>1, <1>6, <1>7, OwnerInTime
  <1>9. Answering'
    BY <1>3, <1>5, <1>6 DEF Answering
  <1>10. todo' = <<cmd'[c]>>
    BY <1>4, <1>5, <1>6 DEF Silent
  <1>11. \A i \in 1 .. Len(wire') : wire'[i].kind = "urc"
    BY <1>4, <1>5 DEF Silent
  <1>12. OneAnswer(cmd[resp])'
    <2>1. cmd'[resp'] = cmd'[c]
      BY <1>3, <1>5
    <2> QED
      BY <1>10, <1>11, <2>1 DEF OneAnswer
  <1>13. ~(resp_notice' > 0)
    BY <1>4, <1>5
  <1> QED
    BY <1>8, <1>9, <1>12, <1>13 DEF CleanInv

\* The caller finds the notice of its own answer, or waits for it.
LEMMA TakeClean ==
  ASSUME AtInv, CleanInv, NEW c \in Callers, Take(c) PROVE CleanInv'
  <1>1. lockQueue # <<>> /\ lockQueue[1] = c
    BY OwnerIsFirst DEF AtInv, Inside, Take
  <1>2. /\ resp \in {c, RT_NULL} /\ c # RT_NULL /\ NoticeAt(c) /\ InTime(c) /\ pc[c] = "take"
        /\ line_num[c] # NoResp /\ resp_notice \in Nat
    BY <1>1, Alone DEF CleanInv, Take, AtInv, NoticeAccounted, TypeOK
  <1>3. UNCHANGED <<resp, line_num, wire, todo, answer, cmd, result>>
    BY DEF Take, moduleVars, histVars
  <1>4. CASE resp_notice > 0
    <2>1. resp = RT_NULL /\ resp_notice = 1 /\ answer[c] = cmd[c]
      BY <1>2, <1>4 DEF CleanInv, InTime
    <2>2. resp_notice' = 0 /\ pc' = [pc EXCEPT ![c] = "woken"]
      BY <1>4, <2>1 DEF Take, Goto
    <2>3. OthersSame(c) /\ pc'[c] = "woken"
      BY <1>3, <2>2 DEF OthersSame, AtInv, TypeOK
    <2>4. InTime(c)'
      BY <1>2, <1>3, <2>1, <2>3 DEF InTime
    <2>5. \A d \in Callers : InTime(d)'
      BY <1>1, <2>3, <2>4, OwnerInTime
    <2>6. ~Answering /\ ~Answering'
      BY <1>3, <2>1 DEF Answering
    <2>7. Silent'
      BY <1>3, <2>6 DEF CleanInv, Silent
    <2> QED
      BY <2>2, <2>5, <2>6, <2>7 DEF CleanInv
  <1>5. CASE ~(resp_notice > 0)
    <2>1. resp_notice' = resp_notice /\ resp_notice = 0 /\ pc' = [pc EXCEPT ![c] = "waiting"]
      BY <1>2, <1>5 DEF Take, Goto
    <2>2. resp = c
      BY <1>2, <2>1 DEF NoticeAt, BeforeTake
    <2>3. OthersSame(c) /\ pc'[c] = "waiting"
      BY <1>3, <2>1 DEF OthersSame, AtInv, TypeOK
    <2>4. InTime(c)'
      BY <1>2, <1>3, <2>3 DEF InTime
    <2>5. \A d \in Callers : InTime(d)'
      BY <1>1, <2>3, <2>4, OwnerInTime
    <2>6. Answering /\ Answering' /\ cmd'[resp'] = cmd[resp]
      BY <1>2, <1>3, <2>2, <2>3 DEF Answering
    <2>7. IF Answering' THEN OneAnswer(cmd[resp])' ELSE Silent'
      BY <1>3, <2>6, SameAnswer
    <2>8. ~(resp_notice' > 0)
      BY <2>1
    <2> QED
      BY <2>5, <2>7, <2>8 DEF CleanInv
  <1> QED
    BY <1>4, <1>5

\* The parser, the shell and the module change no thread but the one that is woken.
LEMMA FrameClean ==
  ASSUME CleanInv,
         UNCHANGED <<pc, resp, resp_notice, line_num, result, cmd, answer>>,
         Silent => Silent' \/ Answering,
         \A k : Answering /\ OneAnswer(k) => OneAnswer(k)'
  PROVE  CleanInv'
  <1>1. \A d \in Callers : InTime(d)'
    <2> SUFFICES ASSUME NEW d \in Callers PROVE InTime(d)'
      OBVIOUS
    <2>1. InTime(d)
      BY DEF CleanInv
    <2> QED
      BY <2>1 DEF InTime
  <1>2. Answering' <=> Answering
    BY DEF Answering
  <1>3. PICK k : k = cmd[resp]
    OBVIOUS
  <1>4. k = cmd'[resp']
    BY <1>3
  <1>5. CASE Answering
    <2>1. OneAnswer(k)
      BY <1>3, <1>5 DEF CleanInv
    <2>2. OneAnswer(k)'
      BY <1>5, <2>1
    <2>3. OneAnswer(cmd[resp])'
      BY <1>4, <2>2 DEF OneAnswer
    <2> QED
      BY <1>1, <1>2, <1>5, <2>3 DEF CleanInv
  <1>6. CASE ~Answering
    BY <1>1, <1>2, <1>6 DEF CleanInv
  <1> QED
    BY <1>5, <1>6

\* A line is added behind the others.
LEMMA EmitAnswer ==
  ASSUME TypeOK, NEW kind \in Kinds, NEW k \in Nat, Emit(kind, k)
  PROVE  /\ Len(wire') = Len(wire) + 1 /\ Len(wire) \in Nat
         /\ wire'[Len(wire) + 1].kind = kind /\ wire'[Len(wire) + 1].cmd = k
         /\ \A i \in 1 .. Len(wire) : wire'[i] = wire[i]
  <1> DEFINE e == [kind |-> kind, cmd |-> k]
  <1>1. e \in [kind : Kinds, cmd : Nat] /\ e.kind = kind /\ e.cmd = k
    OBVIOUS
  <1>2. wire \in Seq([kind : Kinds, cmd : Nat]) /\ wire' = Append(wire, e)
    BY DEF TypeOK, Emit
  <1> HIDE DEF e
  <1>3. /\ Len(wire') = Len(wire) + 1 /\ wire'[Len(wire) + 1] = e
        /\ \A i \in 1 .. Len(wire) : wire'[i] = wire[i]
    BY <1>1, <1>2, AppendFacts
  <1>4. Len(wire) \in Nat
    BY <1>2, LenFacts
  <1> QED
    BY <1>1, <1>3, <1>4

\* The module goes on with the answer it owes.
LEMMA ModuleClean ==
  ASSUME AtInv, CleanInv, ModuleText \/ ModuleEnd \/ ModuleUrc PROVE CleanInv'
  <1> DEFINE L == Len(wire)
  <1>0. TypeOK /\ todo \in Seq(Nat)
    BY DEF AtInv, TypeOK
  <1>1. UNCHANGED <<pc, resp, resp_notice, line_num, result, cmd, answer>>
    BY DEF ModuleText, ModuleEnd, ModuleUrc, clientVars, callerVars, histVars
  <1>2. CASE ModuleUrc
    <2>1. Emit("urc", 0) /\ todo' = todo
      BY <1>2 DEF ModuleUrc
    <2>2. /\ Len(wire') = L + 1 /\ L \in Nat /\ wire'[L + 1].kind = "urc"
          /\ \A i \in 1 .. L : wire'[i] = wire[i]
      BY <1>0, <2>1, EmitAnswer DEF Kinds
    <2> HIDE DEF L
    <2>3. \A i \in 1 .. L + 1 : i \in 1 .. L \/ i = L + 1
      BY <2>2
    <2>4. Silent => Silent'
      BY <2>1, <2>2, <2>3 DEF Silent, L
    <2>5. ASSUME NEW k, OneAnswer(k) PROVE OneAnswer(k)'
      <3>1. \A i \in 1 .. L + 1 : wire'[i].kind # "urc" => wire'[i].cmd = k
        BY <2>2, <2>3, <2>5 DEF OneAnswer, L
      <3>2. ASSUME NEW i \in 1 .. L + 1, wire'[i].kind \in {"OK", "ERROR"}
            PROVE  todo = <<>> /\ \A j \in 1 .. L + 1 : j > i => wire'[j].kind = "urc"
        <4>1. i \in 1 .. L /\ wire[i].kind \in {"OK", "ERROR"}
          BY <2>2, <2>3, <3>2
        <4>2. todo = <<>> /\ \A j \in 1 .. L : j > i => wire[j].kind = "urc"
          BY <2>5, <4>1 DEF OneAnswer, L
        <4> QED
          BY <2>2, <2>3, <4>2
      <3> QED
        BY <2>1, <2>2, <2>5, <3>1, <3>2 DEF OneAnswer
    <2> QED
      BY <1>1, <2>4, <2>5, FrameClean
  <1>3. CASE ModuleText \/ ModuleEnd
    <2>1. todo # <<>> /\ Head(todo) \in Nat
      BY <1>0, <1>3, TailFacts DEF ModuleText, ModuleEnd
    <2>2. ~Silent
      BY <2>1 DEF Silent
    <2>3. PICK kind \in {"text", "OK", "ERROR"} :
            /\ Emit(kind, Head(todo))
            /\ IF kind = "text" THEN todo' = todo ELSE todo' = Tail(todo)
      BY <1>3 DEF ModuleText, ModuleEnd
    <2>4. PICK k \in Nat : k = Head(todo)
      BY <2>1
    <2>5. /\ Len(wire') = L + 1 /\ L \in Nat /\ wire'[L + 1].kind = kind
          /\ wire'[L + 1].cmd = k
          /\ \A i \in 1 .. L : wire'[i] = wire[i]
      BY <1>0, <2>3, <2>4, EmitAnswer DEF Kinds
    <2> HIDE DEF L
    <2>6. \A i \in 1 .. L + 1 : i \in 1 .. L \/ i = L + 1
      BY <2>5
    <2>7. ASSUME NEW n, OneAnswer(n) PROVE OneAnswer(n)'
      <3>1. todo = <<n>> /\ n = k
        BY <2>1, <2>4, <2>7 DEF OneAnswer
      <3>2. kind # "text" => todo' = <<>>
        BY <2>3, <3>1
      <3>3. todo' = <<>> \/ todo' = <<n>>
        BY <2>3, <3>1, <3>2
      <3>4. \A i \in 1 .. L : wire[i].kind \notin {"OK", "ERROR"}
        BY <2>1, <2>7 DEF OneAnswer, L
      <3>5. \A i \in 1 .. L + 1 : wire'[i].kind # "urc" => wire'[i].cmd = n
        BY <2>5, <2>6, <2>7, <3>1 DEF OneAnswer, L
      <3>6. ASSUME NEW i \in 1 .. L + 1, wire'[i].kind \in {"OK", "ERROR"}
            PROVE  todo' = <<>> /\ \A j \in 1 .. L + 1 : j > i => wire'[j].kind = "urc"
        <4>1. i = L + 1 /\ kind # "text"
          BY <2>5, <2>6, <3>4, <3>6
        <4> QED
          BY <2>5, <3>2, <4>1
      <3> QED
        BY <2>5, <3>3, <3>5, <3>6 DEF OneAnswer
    <2> QED
      BY <1>1, <2>2, <2>7, FrameClean
  <1> QED
    BY <1>2, <1>3

\* Lines are taken off the wire, by the parser or the shell.
LEMMA LinesClean ==
  ASSUME AtInv, CleanInv, SkipLine \/ MoreLine \/ CliLine \/ CliEnter \/ CliLeave
  PROVE  CleanInv'
  <1>1. UNCHANGED <<pc, resp, resp_notice, line_num, result, cmd, answer>>
    BY DEF SkipLine, MoreLine, CliLine, CliEnter, CliLeave, clientVars, callerVars, histVars
  <1>2. CASE SkipLine \/ MoreLine \/ CliLine
    <2>1. wire # <<>> /\ wire' = Tail(wire) /\ todo' = todo
      BY <1>2 DEF SkipLine, MoreLine, CliLine
    <2>2. (Silent => Silent') /\ \A k : OneAnswer(k) => OneAnswer(k)'
      BY <2>1, TailAnswer DEF AtInv
    <2> QED
      BY <1>1, <2>2, FrameClean
  <1>3. CASE CliEnter \/ CliLeave
    <2>1. UNCHANGED <<wire, todo>>
      BY <1>3 DEF CliEnter, CliLeave, moduleVars
    <2>2. (Silent => Silent') /\ \A k : OneAnswer(k) => OneAnswer(k)'
      BY <2>1 DEF Silent, OneAnswer
    <2> QED
      BY <1>1, <2>2, FrameClean
  <1> QED
    BY <1>2, <1>3

\* The OK or ERROR of the answer: it is the last line under way, and its own.
LEMMA LastLineClean ==
  ASSUME AtInv, CleanInv, LastLine PROVE CleanInv'
  <1> DEFINE c == resp
             L == Len(wire)
  <1>0. /\ TypeOK /\ wire # <<>> /\ resp # RT_NULL /\ Head(wire).kind # "urc"
        /\ wire' = Tail(wire) /\ todo' = todo /\ resp' = RT_NULL
    BY DEF AtInv, LastLine
  <1>1. c \in Callers /\ lockQueue # <<>> /\ lockQueue[1] = c
    BY <1>0 DEF AtInv, TypeOK, NoticeAccounted
  <1>2. /\ L \in Nat /\ L >= 1 /\ Head(wire) = wire[1] /\ 1 \in 1 .. L
        /\ Len(wire') = L - 1 /\ \A i \in 1 .. L - 1 : wire'[i] = wire[i + 1]
    <2>1. /\ L \in Nat /\ L >= 1 /\ Head(wire) = wire[1]
          /\ Len(wire') = L - 1 /\ \A i \in 1 .. L - 1 : wire'[i] = wire[i + 1]
      BY <1>0, TailFacts, LenFacts DEF TypeOK
    <2> HIDE DEF L
    <2> QED
      BY <2>1
  <1>3. Answering
    <2> SUFFICES ASSUME ~Answering PROVE FALSE
      OBVIOUS
    <2>1. Silent
      BY DEF CleanInv
    <2> QED
      BY <1>0, <1>2, <2>1 DEF Silent
  <1>4. pc[c] \in {"take", "waiting"} /\ OneAnswer(cmd[c]) /\ InTime(c)
    BY <1>1, <1>3 DEF Answering, CleanInv
  <1>5. line_num[c] = 0
    BY <1>4 DEF InTime
  <1>6. wire[1].kind \in {"OK", "ERROR"} /\ wire[1].cmd = cmd[c]
    <2>1. wire[1].kind \in {"OK", "ERROR"}
      BY <1>2, <1>5 DEF LastLine, Verdict
    <2> QED
      BY <1>0, <1>2, <1>4, <2>1 DEF OneAnswer
  <1>7. Silent'
    <2>1. todo = <<>> /\ \A j \in 1 .. L : j > 1 => wire[j].kind = "urc"
      BY <1>2, <1>4, <1>6 DEF OneAnswer
    <2> HIDE DEF L
    <2>2. \A i \in 1 .. L - 1 : i + 1 \in 1 .. L /\ i + 1 > 1
      BY <1>2
    <2>3. \A i \in 1 .. L - 1 : wire'[i].kind = "urc"
      BY <1>2, <2>1, <2>2
    <2> QED
      BY <1>0, <1>2, <2>1, <2>3 DEF Silent
  <1>8. ~Answering'
    BY <1>0 DEF Answering
  <1>9. resp_notice = 0
    BY <1>0, <1>1, EmptyNotice
  <1>10. \A d \in Callers : d # c => pc[d] \in {"none", "idle", "lock"}
    BY <1>1, Alone
  <1>11. /\ UNCHANGED <<line_num, result, cmd>>
         /\ answer' = [answer EXCEPT ![c] = cmd[c]]
    BY <1>2, <1>6 DEF LastLine
  <1>12. answer'[c] = cmd[c] /\ \A d \in Callers : d # c => answer'[d] = answer[d]
    BY <1>1, <1>11 DEF AtInv, TypeOK
  <1>13. pc \in [Callers -> PCs]
    BY DEF AtInv, TypeOK
  <1>14. \/ pc[c] = "waiting" /\ pc'[c] = "woken" /\ resp_notice' = 0
         \/ pc[c] = "take" /\ pc'[c] = "take" /\ resp_notice' = 1
    <2>1. CASE pc[c] = "waiting"
      <3>1. c \in Waiter
        BY <1>1, <2>1 DEF Waiter
      <3> QED
        BY <1>1, <1>9, <2>1, <3>1 DEF LastLine, ReleaseNotice
    <2>2. CASE pc[c] = "take"
      <3>1. Waiter = {}
        BY <1>10, <2>2 DEF Waiter
      <3> QED
        BY <1>9, <2>2, <3>1 DEF LastLine, ReleaseNotice
    <2> QED
      BY <1>4, <2>1, <2>2
  <1>15. \A d \in Callers : d # c => pc'[d] = pc[d]
    BY <1>10, <1>13 DEF LastLine, ReleaseNotice, Waiter
  <1>16. \A d \in Callers : InTime(d)'
    <2> SUFFICES ASSUME NEW d \in Callers PROVE InTime(d)'
      OBVIOUS
    <2>1. CASE d = c
      BY <1>0, <1>5, <1>11, <1>12, <1>14, <2>1 DEF InTime
    <2>2. CASE d # c
      <3>1. InTime(d)
        BY DEF CleanInv
      <3>2. pc'[d] = pc[d] /\ pc[d] \in {"none", "idle", "lock"} /\ answer'[d] = answer[d]
        BY <1>10, <1>12, <1>15, <2>2
      <3> QED
        BY <1>11, <3>1, <3>2 DEF InTime
    <2> QED
      BY <2>1, <2>2
  <1>17. resp_notice' > 0 => \E d \in Callers : pc'[d] = "take"
    BY <1>1, <1>14
  <1> QED
    BY <1>0, <1>7, <1>8, <1>16, <1>17 DEF CleanInv

\* No step makes clean true again.
LEMMA StaysUnclean == ASSUME [Next]_vars, clean', TypeOK PROVE clean
  <1>1. ASSUME NEW c \in Callers, Send(c) PROVE clean
    <2>1. clean' = (clean /\ line_num[c] = 0)
      BY <1>1 DEF Send
    <2> QED
      BY <2>1, Zenon
  <1>2. ASSUME NEW c \in Callers, Expire(c) PROVE clean
    BY <1>2 DEF Expire
  <1>3. ASSUME NEW c \in Callers, CreateResp(c) \/ DeleteResp(c) \/ ExecCall(c) PROVE clean
    BY <1>3 DEF CreateResp, DeleteResp, ExecCall, histVars
  <1>4. ASSUME NEW c \in Callers, CallerStep(c), ~Send(c) PROVE clean
    BY <1>4 DEF CallerStep, SetResp, Clear, Take, TimedOut, CheckStatus, Exit, Unlock, histVars
  <1>5. CASE ParserStep
    BY <1>5 DEF ParserStep, SkipLine, MoreLine, LastLine, histVars
  <1>6. CASE CliEnter \/ CliLine \/ CliLeave
    BY <1>6 DEF CliEnter, CliLine, CliLeave, histVars
  <1>7. CASE ModuleText \/ ModuleEnd \/ ModuleUrc
    BY <1>7 DEF ModuleText, ModuleEnd, ModuleUrc, histVars
  <1>8. CASE UNCHANGED vars
    BY <1>8 DEF vars, histVars
  <1> QED
    BY <1>1, <1>2, <1>3, <1>4, <1>5, <1>6, <1>7, <1>8 DEF Next

LEMMA StepAnswerInv == ASSUME AtInv, AnswerInv, [Next]_vars PROVE AnswerInv'
  <1> SUFFICES ASSUME clean' PROVE CleanInv'
    BY DEF AnswerInv
  <1>0. clean /\ CleanInv
    BY StaysUnclean DEF AnswerInv, AtInv
  <1>1. ASSUME NEW c \in Callers, CallerStep(c) PROVE CleanInv'
    <2>1. CASE TimedOut(c)
      BY <1>0, <2>1 DEF TimedOut, CleanInv, InTime
    <2> QED
      BY <1>0, <1>1, <2>1, QuietClean, SendClean, TakeClean DEF CallerStep
  <1>2. ASSUME NEW c \in Callers, CreateResp(c) \/ DeleteResp(c) \/ ExecCall(c) PROVE CleanInv'
    BY <1>0, <1>2, OutsideClean
  <1>3. ASSUME NEW c \in Callers, Expire(c) PROVE CleanInv'
    BY <1>3 DEF Expire
  <1>4. CASE ParserStep \/ CliEnter \/ CliLine \/ CliLeave
    BY <1>0, <1>4, LinesClean, LastLineClean DEF ParserStep
  <1>5. CASE ModuleText \/ ModuleEnd \/ ModuleUrc
    BY <1>0, <1>5, ModuleClean
  <1>6. CASE UNCHANGED vars
    <2>1. /\ UNCHANGED <<pc, resp, resp_notice, line_num, result, cmd, answer>>
          /\ UNCHANGED <<wire, todo>>
      BY <1>6 DEF vars, clientVars, callerVars, moduleVars, histVars
    <2>2. (Silent => Silent') /\ \A k : OneAnswer(k) => OneAnswer(k)'
      BY <2>1 DEF Silent, OneAnswer
    <2> QED
      BY <1>0, <2>1, <2>2, FrameClean
  <1> QED
    BY <1>1, <1>2, <1>3, <1>4, <1>5, <1>6 DEF Next

\* Until a wait times out, at_obj_exec_cmd is ended by the answer to its own
\* command: the lock keeps the answers of the threads apart.
THEOREM AtAnswersMatch == Spec => []AnswersMatchUntilTimeout
  <1>1. Init => AnswerInv
    BY DEF Init, AnswerInv, CleanInv, InTime, Answering, Silent
  <1>2. AtInv /\ AnswerInv /\ [Next]_vars => AnswerInv'
    BY StepAnswerInv
  <1>3. AnswerInv => AnswersMatchUntilTimeout
    BY DEF AnswerInv, CleanInv, InTime, AnswersMatchUntilTimeout
  <1> QED
    BY <1>1, <1>2, <1>3, AtInvariant, PTL DEF Spec

===============================================================================
