---------------------------- MODULE RtMessageQueue ----------------------------
(***************************************************************************)
(* The message queue of the RT-Thread kernel (rt-thread/src/ipc.c), which   *)
(* carries the velocity commands of the car from the thread of the AT       *)
(* client to the speed thread.                                              *)
(*                                                                         *)
(* The queue is a pool of message blocks threaded on two linked lists: the  *)
(* queued messages (msg_queue_head .. msg_queue_tail) and the free blocks   *)
(* (msg_queue_free).  One step of the model is one region that the code     *)
(* runs with interrupts disabled, or the copy of one word of a message,     *)
(* which the code does with interrupts enabled: between any two steps       *)
(* another thread or an interrupt handler may use the queue.  The only      *)
(* region of more than one step is the loop of RT_IPC_CMD_RESET; irqOff     *)
(* holds its caller and keeps everybody else from moving.                   *)
(*                                                                         *)
(* A message is two words long (the two doubles vx, vw of a command), so    *)
(* that a block that is written while it is read shows as a torn message.   *)
(***************************************************************************)
EXTENDS Integers, Sequences, FiniteSets

CONSTANTS
  Threads,    \* the callers: threads, and interrupt handlers that may only poll
  Blocking,   \* the callers that may wait (RT_DEBUG_IN_THREAD_CONTEXT)
  Msgs,       \* the messages callers send
  JunkWord,   \* what a word of the pool or a buffer holds before it is written
  PoolSize,   \* bytes of the memory given to rt_mq_init
  MsgSize,    \* bytes of a message, as given to rt_mq_init
  HdrSize,    \* sizeof(struct rt_mq_message)
  AlignSize   \* RT_ALIGN_SIZE

ASSUME ConstantsAssumption ==
  /\ Blocking \subseteq Threads
  /\ IsFiniteSet(Threads)
  /\ Msgs # {}
  /\ JunkWord \notin Msgs
  /\ PoolSize \in Nat
  /\ MsgSize \in Nat \ {0}
  /\ HdrSize \in Nat \ {0}
  /\ AlignSize \in Nat \ {0}

ASSUME NoThreadAssumption == 0 \notin Threads

----------------------------------------------------------------------------
(* rt_mq_init: the geometry of the pool.                                    *)

AlignUp(n) == ((n + AlignSize - 1) \div AlignSize) * AlignSize

BlockSize == AlignUp(MsgSize) + HdrSize

\* Mutant: the header in front of each message is forgotten.
MaxMsgsWithoutHeader == PoolSize \div AlignUp(MsgSize)

max_msgs == PoolSize \div BlockSize

\* The block at offset (s - 1) * BlockSize of the pool has number s; RT_NULL is 0.
RT_NULL == 0
Slots == 1 .. max_msgs
Pointers == 0 .. max_msgs

NoThread == 0

Word == Msgs \cup {JunkWord}
Message == Word \X Word
Whole(m) == <<m, m>>                \* the two words of a sent message
Junk == <<JunkWord, JunkWord>>

Timeouts == {"poll", "ticks", "forever"}    \* timeout == 0, > 0, RT_WAITING_FOREVER
Errors == {"EOK", "ETIMEOUT", "ERROR", "EFULL"}

VARIABLES
  head,      \* mq->msg_queue_head
  tail,      \* mq->msg_queue_tail
  free,      \* mq->msg_queue_free
  next,      \* next[s]: the link of block s
  data,      \* data[s]: the two words of block s
  entry,     \* mq->entry
  recvList,  \* mq->parent.suspend_thread, first waiter first
  sendList,  \* mq->suspend_sender_thread
  irqOff,    \* the thread inside RT_IPC_CMD_RESET, NoThread otherwise
  pc,        \* where each caller is
  urgent,    \* the send under way is rt_mq_urgent
  timeout,   \* the timeout left to each caller
  error,     \* thread->error
  msg,       \* the block a caller holds outside the two lists
  buffer     \* the caller's buffer

(* History: the two lists as sequences of blocks, maintained apart from the *)
(* pointers; no action reads them.                                          *)
VARIABLES queued, freed

mqVars == <<head, tail, free, next, data, entry>>
listVars == <<recvList, sendList>>
callVars == <<pc, urgent, timeout, error, msg, buffer>>
histVars == <<queued, freed>>
vars == <<mqVars, listVars, irqOff, callVars, histVars>>

PCs == {"idle",
        "recvWait", "recvReady", "copyOut1", "copyOut2", "giveBack",
        "sendWait", "sendReady", "copyIn1", "copyIn2", "link",
        "reset"}

\* Callers that hold a block: taken off one list, not yet put on the other.
HoldPCs == {"copyOut1", "copyOut2", "giveBack", "copyIn1", "copyIn2", "link"}

\* Those that are filling their block.
Inbound == {"copyIn1", "copyIn2", "link"}

Init ==
  /\ head = RT_NULL
  /\ tail = RT_NULL
  \* the loop of rt_mq_init pushes block 1, 2, ... on the free list
  /\ free = max_msgs
  /\ next = [s \in Slots |-> s - 1]
  /\ data = [s \in Slots |-> Junk]
  /\ entry = 0
  /\ recvList = <<>>
  /\ sendList = <<>>
  /\ irqOff = NoThread
  /\ pc = [t \in Threads |-> "idle"]
  /\ urgent = [t \in Threads |-> FALSE]
  /\ timeout = [t \in Threads |-> "poll"]
  /\ error = [t \in Threads |-> "EOK"]
  /\ msg = [t \in Threads |-> RT_NULL]
  /\ buffer = [t \in Threads |-> Junk]
  /\ queued = <<>>
  /\ freed = [i \in Slots |-> max_msgs + 1 - i]

----------------------------------------------------------------------------
(* Helpers of the kernel.                                                   *)

\* rt_list_remove of the node of t, wherever it is in the list.
ListRemove(list, t) ==
  LET k == CHOOSE i \in 1 .. Len(list) : list[i] = t
  IN [i \in 1 .. Len(list) - 1 |-> IF i < k THEN list[i] ELSE list[i + 1]]

Ready(t) == IF pc[t] = "recvWait" THEN "recvReady" ELSE "sendReady"

Elems(list) == {list[i] : i \in 1 .. Len(list)}

\* The timeout after a wait: ticks that have passed are subtracted, not below 0.
Remaining(tm) == IF tm = "ticks" THEN {"ticks", "poll"} ELSE {tm}

TimeoutsOf(t) == IF t \in Blocking THEN Timeouts ELSE {"poll"}

\* Where a caller leaves a call, its local variables and the contents of its
\* buffer are forgotten: they are reset to their first values.
Return(t) ==
  /\ pc' = [pc EXCEPT ![t] = "idle"]
  /\ timeout' = [timeout EXCEPT ![t] = "poll"]
  /\ buffer' = [buffer EXCEPT ![t] = Junk]

\* rt_ipc_list_resume of the first waiter of the list, if it has one, by a
\* caller that then returns.
ReturnAndResume(t, list, ready) ==
  /\ pc' = IF list = <<>>
           THEN [pc EXCEPT ![t] = "idle"]
           ELSE [pc EXCEPT ![t] = "idle", ![Head(list)] = ready]
  /\ msg' = [msg EXCEPT ![t] = RT_NULL]
  /\ urgent' = [urgent EXCEPT ![t] = FALSE]
  /\ buffer' = [buffer EXCEPT ![t] = Junk]

Rest(list) == IF list = <<>> THEN list ELSE Tail(list)

\* Mutant: the error of an earlier wait is left in thread->error.
SuspendKeepsError(t, where, tm) ==
  /\ UNCHANGED error
  /\ pc' = [pc EXCEPT ![t] = where]
  /\ timeout' = [timeout EXCEPT ![t] = tm]

\* rt_ipc_list_suspend for RT_IPC_FLAG_FIFO, after thread->error = RT_EOK.
Suspend(t, where, tm) ==
  /\ error' = [error EXCEPT ![t] = "EOK"]
  /\ pc' = [pc EXCEPT ![t] = where]
  /\ timeout' = [timeout EXCEPT ![t] = tm]

----------------------------------------------------------------------------
(* rt_mq_recv                                                               *)

\* The first interrupt-free region, entered at the call and after each wait.
RecvEmpty(t, tm) ==
  /\ entry = 0
  /\ tm = "poll"
  /\ Return(t)
  /\ error' = IF pc[t] = "idle" THEN error ELSE [error EXCEPT ![t] = "ETIMEOUT"]
  /\ UNCHANGED <<mqVars, listVars, irqOff, urgent, msg, histVars>>

RecvSuspend(t, tm) ==
  /\ entry = 0
  /\ tm # "poll"
  /\ Suspend(t, "recvWait", tm)
  /\ recvList' = Append(recvList, t)
  /\ UNCHANGED <<mqVars, sendList, irqOff, urgent, msg, buffer, histVars>>

\* Mutant: the block is put back on the free list before it is copied.
RecvPopFreesEarly(t) ==
  /\ entry # 0
  /\ msg' = [msg EXCEPT ![t] = head]
  /\ head' = next[head]
  /\ tail' = IF tail = head THEN RT_NULL ELSE tail
  /\ next' = [next EXCEPT ![head] = free]
  /\ free' = head
  /\ entry' = entry - 1
  /\ pc' = [pc EXCEPT ![t] = "copyOut1"]
  /\ timeout' = [timeout EXCEPT ![t] = "poll"]
  /\ queued' = Tail(queued)
  /\ freed' = <<head>> \o freed
  /\ UNCHANGED <<data, listVars, irqOff, urgent, error, buffer>>

RecvPop(t) ==
  /\ entry # 0
  /\ msg' = [msg EXCEPT ![t] = head]
  /\ head' = next[head]
  /\ tail' = IF tail = head THEN RT_NULL ELSE tail
  /\ entry' = entry - 1
  /\ pc' = [pc EXCEPT ![t] = "copyOut1"]
  /\ timeout' = [timeout EXCEPT ![t] = "poll"]
  /\ queued' = Tail(queued)
  /\ UNCHANGED <<free, next, data, listVars, irqOff, urgent, error, buffer,
                 freed>>

RecvRegion(t, tm) == RecvEmpty(t, tm) \/ RecvSuspend(t, tm) \/ RecvPop(t)

RecvCall(t) ==
  /\ irqOff = NoThread
  /\ pc[t] = "idle"
  /\ \E tm \in TimeoutsOf(t) : RecvRegion(t, tm)

\* Scheduled again after a wait: fail, or look at the queue once more.
RecvFail(t) ==
  /\ irqOff = NoThread
  /\ pc[t] = "recvReady"
  /\ error[t] # "EOK"
  /\ Return(t)
  /\ UNCHANGED <<mqVars, listVars, irqOff, urgent, error, msg, histVars>>

RecvRetry(t) ==
  /\ irqOff = NoThread
  /\ pc[t] = "recvReady"
  /\ error[t] = "EOK"
  /\ \E tm \in Remaining(timeout[t]) : RecvRegion(t, tm)

\* rt_memcpy(buffer, msg + 1, ...), word by word.
CopyOut(t) ==
  /\ irqOff = NoThread
  /\ \/ /\ pc[t] = "copyOut1"
        /\ pc' = [pc EXCEPT ![t] = "copyOut2"]
        /\ buffer' = [buffer EXCEPT ![t] = <<data[msg[t]][1], @[2]>>]
     \/ /\ pc[t] = "copyOut2"
        /\ pc' = [pc EXCEPT ![t] = "giveBack"]
        /\ buffer' = [buffer EXCEPT ![t] = <<@[1], data[msg[t]][2]>>]
  /\ UNCHANGED <<mqVars, listVars, irqOff, urgent, timeout, error, msg,
                 histVars>>

\* Mutant: the receiver returns without giving its block back.
GiveBackForgotten(t) ==
  /\ irqOff = NoThread
  /\ pc[t] = "giveBack"
  /\ ReturnAndResume(t, sendList, "sendReady")
  /\ sendList' = Rest(sendList)
  /\ UNCHANGED <<mqVars, recvList, irqOff, timeout, error, histVars>>

\* The second region: the block goes to the free list, one sender is resumed.
GiveBack(t) ==
  /\ irqOff = NoThread
  /\ pc[t] = "giveBack"
  /\ next' = [next EXCEPT ![msg[t]] = free]
  /\ free' = msg[t]
  /\ freed' = <<msg[t]>> \o freed
  /\ ReturnAndResume(t, sendList, "sendReady")
  /\ sendList' = Rest(sendList)
  /\ UNCHANGED <<head, tail, data, entry, recvList, irqOff, timeout, error,
                 queued>>

----------------------------------------------------------------------------
(* rt_mq_send_wait, rt_mq_send (timeout 0) and rt_mq_urgent                 *)

SendFull(t, tm) ==
  /\ free = RT_NULL
  /\ tm = "poll"
  /\ Return(t)
  /\ UNCHANGED <<mqVars, listVars, irqOff, urgent, error, msg, histVars>>

SendSuspend(t, tm) ==
  /\ free = RT_NULL
  /\ tm # "poll"
  /\ Suspend(t, "sendWait", tm)
  /\ sendList' = Append(sendList, t)
  /\ UNCHANGED <<mqVars, recvList, irqOff, urgent, msg, histVars>>

\* Takes the first free block.  rt_mq_send_wait clears its link at once (the
\* block is private by then), rt_mq_urgent leaves it as it is until it links.
SendTake(t, urg) ==
  /\ free # RT_NULL
  /\ msg' = [msg EXCEPT ![t] = free]
  /\ free' = next[free]
  /\ next' = IF urg THEN next ELSE [next EXCEPT ![free] = RT_NULL]
  /\ urgent' = [urgent EXCEPT ![t] = urg]
  /\ pc' = [pc EXCEPT ![t] = "copyIn1"]
  /\ timeout' = [timeout EXCEPT ![t] = "poll"]
  /\ freed' = Tail(freed)
  /\ UNCHANGED <<head, tail, data, entry, listVars, irqOff, error, queued>>

\* The buffer of the caller holds m.
SendCall(t) ==
  /\ irqOff = NoThread
  /\ pc[t] = "idle"
  /\ \E m \in Msgs, tm \in TimeoutsOf(t) :
       \/ SendFull(t, tm)
       \/ /\ SendSuspend(t, tm) \/ SendTake(t, FALSE)
          /\ buffer' = [buffer EXCEPT ![t] = Whole(m)]

UrgentCall(t) ==
  /\ irqOff = NoThread
  /\ pc[t] = "idle"
  /\ \E m \in Msgs :
       \/ SendFull(t, "poll")
       \/ /\ SendTake(t, TRUE)
          /\ buffer' = [buffer EXCEPT ![t] = Whole(m)]

SendFail(t) ==
  /\ irqOff = NoThread
  /\ pc[t] = "sendReady"
  /\ error[t] # "EOK"
  /\ Return(t)
  /\ UNCHANGED <<mqVars, listVars, irqOff, urgent, error, msg, histVars>>

SendRetry(t) ==
  /\ irqOff = NoThread
  /\ pc[t] = "sendReady"
  /\ error[t] = "EOK"
  /\ \E tm \in Remaining(timeout[t]) :
       \/ SendFull(t, tm)
       \/ /\ SendSuspend(t, tm) \/ SendTake(t, FALSE)
          /\ UNCHANGED buffer

\* rt_memcpy(msg + 1, buffer, size), word by word.
CopyIn(t) ==
  /\ irqOff = NoThread
  /\ \/ /\ pc[t] = "copyIn1"
        /\ pc' = [pc EXCEPT ![t] = "copyIn2"]
        /\ data' = [data EXCEPT ![msg[t]] = <<buffer[t][1], @[2]>>]
     \/ /\ pc[t] = "copyIn2"
        /\ pc' = [pc EXCEPT ![t] = "link"]
        /\ data' = [data EXCEPT ![msg[t]] = <<@[1], buffer[t][2]>>]
  /\ UNCHANGED <<head, tail, free, next, entry, listVars, irqOff, urgent,
                 timeout, error, msg, buffer, histVars>>

LinkTail(t) ==
  /\ next' = IF tail # RT_NULL THEN [next EXCEPT ![tail] = msg[t]] ELSE next
  /\ tail' = msg[t]
  /\ head' = IF head = RT_NULL THEN msg[t] ELSE head
  /\ queued' = Append(queued, msg[t])

\* Mutant: an urgent message for an empty queue does not become its tail.
LinkHeadKeepsTail(t) ==
  /\ next' = [next EXCEPT ![msg[t]] = head]
  /\ head' = msg[t]
  /\ queued' = <<msg[t]>> \o queued
  /\ UNCHANGED tail

\* Mutant: an urgent message is queued like any other.
LinkHeadAtTail(t) ==
  /\ next' = [s \in Slots |-> IF s = msg[t] THEN RT_NULL
                              ELSE IF s = tail THEN msg[t] ELSE next[s]]
  /\ tail' = msg[t]
  /\ head' = IF head = RT_NULL THEN msg[t] ELSE head
  /\ queued' = Append(queued, msg[t])

LinkHead(t) ==
  /\ next' = [next EXCEPT ![msg[t]] = head]
  /\ head' = msg[t]
  /\ tail' = IF tail = RT_NULL THEN msg[t] ELSE tail
  /\ queued' = <<msg[t]>> \o queued

\* Mutant: a waiting receiver is not resumed.
LinkWithoutResume(t) ==
  /\ irqOff = NoThread
  /\ pc[t] = "link"
  /\ \/ urgent[t] /\ LinkHead(t)
     \/ ~urgent[t] /\ LinkTail(t)
  /\ entry' = entry + 1
  /\ ReturnAndResume(t, <<>>, "recvReady")
  /\ UNCHANGED <<free, data, listVars, irqOff, timeout, error, freed>>

\* The second region of a send: the block is queued, one receiver is resumed.
Link(t) ==
  /\ irqOff = NoThread
  /\ pc[t] = "link"
  /\ \/ urgent[t] /\ LinkHead(t)
     \/ ~urgent[t] /\ LinkTail(t)
  /\ entry' = entry + 1
  /\ ReturnAndResume(t, recvList, "recvReady")
  /\ recvList' = Rest(recvList)
  /\ UNCHANGED <<free, data, sendList, irqOff, timeout, error, freed>>

----------------------------------------------------------------------------
(* rt_thread_timeout, run by the timer interrupt for a waiting thread.      *)

\* Mutant: the thread is made ready but stays on the suspend list.
TimeoutStaysListed(t) ==
  /\ irqOff = NoThread
  /\ pc[t] \in {"recvWait", "sendWait"}
  /\ timeout[t] = "ticks"
  /\ error' = [error EXCEPT ![t] = "ETIMEOUT"]
  /\ pc' = [pc EXCEPT ![t] = Ready(t)]
  /\ UNCHANGED <<mqVars, listVars, irqOff, urgent, timeout, msg, buffer, histVars>>

Timeout(t) ==
  /\ irqOff = NoThread
  /\ pc[t] \in {"recvWait", "sendWait"}
  /\ timeout[t] = "ticks"
  /\ error' = [error EXCEPT ![t] = "ETIMEOUT"]
  /\ pc' = [pc EXCEPT ![t] = Ready(t)]
  /\ IF pc[t] = "recvWait"
     THEN recvList' = ListRemove(recvList, t) /\ UNCHANGED sendList
     ELSE sendList' = ListRemove(sendList, t) /\ UNCHANGED recvList
  /\ UNCHANGED <<mqVars, irqOff, urgent, timeout, msg, buffer, histVars>>

----------------------------------------------------------------------------
(* rt_mq_control(RT_IPC_CMD_RESET)                                          *)

\* rt_ipc_list_resume_all on both lists.
ResetWake(t) ==
  /\ irqOff = NoThread
  /\ t \in Blocking
  /\ pc[t] = "idle"
  /\ irqOff' = t
  /\ LET woken == Elems(recvList) \cup Elems(sendList)
     IN /\ pc' = [u \in Threads |->
                    IF u = t THEN "reset"
                    ELSE IF u \in woken THEN Ready(u) ELSE pc[u]]
        /\ error' = [u \in Threads |-> IF u \in woken THEN "ERROR" ELSE error[u]]
  /\ recvList' = <<>>
  /\ sendList' = <<>>
  /\ UNCHANGED <<mqVars, urgent, timeout, msg, buffer, histVars>>

\* One turn of the loop that moves the queued blocks to the free list.
ResetMove(t) ==
  /\ pc[t] = "reset"
  /\ head # RT_NULL
  /\ head' = next[head]
  /\ tail' = IF tail = head THEN RT_NULL ELSE tail
  /\ next' = [next EXCEPT ![head] = free]
  /\ free' = head
  /\ queued' = Tail(queued)
  /\ freed' = <<head>> \o freed
  /\ UNCHANGED <<data, entry, listVars, irqOff, callVars>>

ResetDone(t) ==
  /\ pc[t] = "reset"
  /\ head = RT_NULL
  /\ entry' = 0
  /\ irqOff' = NoThread
  /\ Return(t)
  /\ UNCHANGED <<head, tail, free, next, data, listVars, urgent, error, msg,
                 histVars>>

----------------------------------------------------------------------------

\* The steps a caller takes on its own once it is inside a call.
Proceed(t) ==
  \/ RecvFail(t) \/ RecvRetry(t) \/ CopyOut(t) \/ GiveBack(t)
  \/ SendFail(t) \/ SendRetry(t) \/ CopyIn(t) \/ Link(t)
  \/ ResetMove(t) \/ ResetDone(t)

Call(t) ==
  RecvCall(t) \/ SendCall(t) \/ UrgentCall(t) \/ ResetWake(t)

Next == \E t \in Threads : Call(t) \/ Proceed(t) \/ Timeout(t)

Spec == Init /\ [][Next]_vars

\* The scheduler runs every ready thread in the end, and the tick goes on.
FairSpec ==
  Spec /\ \A t \in Threads : WF_vars(Proceed(t)) /\ WF_vars(Timeout(t))

----------------------------------------------------------------------------
(* Properties                                                               *)

\* Every variable has its type; the lists hold callers, the pointers blocks.
TypeOK ==
  /\ head \in Pointers /\ tail \in Pointers /\ free \in Pointers
  /\ next \in [Slots -> Pointers]
  /\ data \in [Slots -> Message]
  /\ entry \in Nat
  /\ recvList \in Seq(Threads) /\ sendList \in Seq(Threads)
  /\ irqOff \in Threads \cup {NoThread}
  /\ pc \in [Threads -> PCs]
  /\ urgent \in [Threads -> BOOLEAN]
  /\ timeout \in [Threads -> Timeouts]
  /\ error \in [Threads -> Errors]
  /\ msg \in [Threads -> Pointers]
  /\ buffer \in [Threads -> Message]
  /\ queued \in Seq(Slots) /\ freed \in Seq(Slots)

Holders == {t \in Threads : pc[t] \in HoldPCs}

\* From p the links nx run through exactly the blocks of seq, in order.
Chain(nx, p, seq) ==
  /\ p = IF seq = <<>> THEN RT_NULL ELSE seq[1]
  /\ \A i \in 1 .. Len(seq) - 1 : nx[seq[i]] = seq[i + 1]
  /\ seq # <<>> => nx[seq[Len(seq)]] = RT_NULL

Distinct(seq) == \A i, j \in 1 .. Len(seq) : seq[i] = seq[j] => i = j

\* No block is lost and none is in two places: each one is on the free list,
\* on the queue or in the hands of one caller (the blocks rt_mq_recv,
\* rt_mq_send_wait and rt_mq_urgent keep while they copy).
BlocksPartitioned ==
  /\ Distinct(queued) /\ Distinct(freed)
  /\ \A t, u \in Holders : msg[t] = msg[u] => t = u
  /\ Elems(queued) \cap Elems(freed) = {}
  /\ \A t \in Holders : msg[t] \notin Elems(queued) \cup Elems(freed)
  /\ Slots = Elems(queued) \cup Elems(freed) \cup {msg[t] : t \in Holders}

\* The linked lists of the code are well formed whatever the callers were
\* doing when they were preempted: from head the links run through the queued
\* messages and end in RT_NULL, tail is the last of them, from free they run
\* through the free blocks, and entry counts the queued ones.
ListsWellFormed ==
  /\ Chain(next, head, queued)
  /\ tail = IF queued = <<>> THEN RT_NULL ELSE queued[Len(queued)]
  /\ Chain(next, free, freed)
  /\ irqOff = NoThread => entry = Len(queued)

\* A receiver never reads a message that is half written or half overwritten:
\* every queued block, and every block and buffer a receiver is done copying,
\* holds the two words of one sent message.
IsWhole(d) == \E m \in Msgs : d = Whole(m)

NoTornMessage ==
  /\ \A s \in Elems(queued) : IsWhole(data[s])
  /\ \A t \in Threads : pc[t] = "giveBack" => IsWhole(buffer[t])

\* Nobody sleeps while there is work: if a receiver waits then every queued
\* message is already promised to a receiver that has been resumed, and if a
\* sender waits then so is every free block.
Resumed(where) == {t \in Threads : pc[t] = where /\ error[t] = "EOK"}

NoLostWakeup ==
  irqOff = NoThread =>
    /\ recvList # <<>> => entry <= Cardinality(Resumed("recvReady"))
    /\ sendList # <<>> => Len(freed) <= Cardinality(Resumed("sendReady"))

\* The wait lists and the threads agree: a thread is on a list, once, exactly
\* when it is suspended in the matching call, so that no resume can wake a
\* thread that rt_thread_timeout or RT_IPC_CMD_RESET has already taken off.
WaitListsExact ==
  /\ Distinct(recvList) /\ Distinct(sendList)
  /\ Elems(recvList) = {t \in Threads : pc[t] = "recvWait"}
  /\ Elems(sendList) = {t \in Threads : pc[t] = "sendWait"}

\* What the lists of the queue rest on besides: a caller holds a block exactly
\* while it copies, interrupts are off exactly during RT_IPC_CMD_RESET, and the
\* link of the block of an ordinary message stays RT_NULL until it is linked.
HeldBlocks ==
  \A t \in Threads :
    IF pc[t] \in HoldPCs THEN msg[t] \in Slots ELSE msg[t] = RT_NULL

ResetExclusive == \A t \in Threads : pc[t] = "reset" <=> irqOff = t

PrivateLinks ==
  \A t \in Threads : pc[t] \in Inbound /\ ~urgent[t] => next[msg[t]] = RT_NULL

\* The inductive invariant of the structure of the queue.
StructInv ==
  /\ TypeOK
  /\ HeldBlocks
  /\ ResetExclusive
  /\ PrivateLinks
  /\ WaitListsExact
  /\ BlocksPartitioned
  /\ ListsWellFormed

\* How far the copy of each caller has got, which makes NoTornMessage inductive.
CopySound(t) ==
  /\ pc[t] \in {"sendWait", "sendReady", "copyIn1", "copyIn2", "giveBack"}
       => IsWhole(buffer[t])
  /\ pc[t] \in {"link", "copyOut1", "copyOut2"} => IsWhole(data[msg[t]])
  /\ pc[t] = "copyIn2" => data[msg[t]][1] = buffer[t][1]
  /\ pc[t] = "copyOut2" => buffer[t][1] = data[msg[t]][1]

CopiesSound ==
  /\ \A s \in Elems(queued) : IsWhole(data[s])
  /\ \A t \in Threads : CopySound(t)

\* The inductive invariant of the queue: its structure and its contents.
MqInv == StructInv /\ CopiesSound

\* A waiting receiver and a queued message do not stay together for ever.
WaitersServed ==
  /\ (recvList # <<>> /\ entry > 0) ~> (recvList = <<>> \/ entry = 0)
  /\ (sendList # <<>> /\ free # RT_NULL) ~> (sendList = <<>> \/ free = RT_NULL)

----------------------------------------------------------------------------
(* Refinement: the queue of blocks implements a bounded deque of messages.  *)

\* The message a caller is moving: it is in the sender's buffer until all of it
\* is in the block, and in the block until all of it is in the receiver's buffer.
InHand(t) ==
  IF pc[t] \in {"copyIn1", "copyIn2", "giveBack"} THEN buffer[t] ELSE data[msg[t]]

HoldOf(t) ==
  IF pc[t] \notin HoldPCs THEN [dir |-> "none", m |-> <<>>]
  ELSE [dir |-> IF pc[t] \notin Inbound THEN "out"
                ELSE IF urgent[t] THEN "front" ELSE "back",
        m |-> InHand(t)]

Deque == INSTANCE BoundedDeque WITH
  Callers <- Threads,
  Message <- {Whole(m) : m \in Msgs},
  Capacity <- max_msgs,
  items <- IF irqOff = NoThread
           THEN [i \in 1 .. Len(queued) |-> data[queued[i]]] ELSE <<>>,
  hold <- [t \in Threads |-> HoldOf(t)]

\* Callers that are preempted anywhere between and inside their copies still
\* see a bounded deque: messages are handed over whole and once, in order, the
\* urgent one first, and RT_IPC_CMD_RESET drops all of them at once.
ImplementsDeque == Deque!Spec

===============================================================================
