-------------------------- MODULE CommandPathProofs ---------------------------
(* Proofs about CommandPath: the way of a command from the network to the   *)
(* wheels, for every number of packets and every size of the heap.  What is *)
(* said of the order of the commands is proved for a queue of one block,    *)
(* which is what the sizes given to rt_mq_init in main.cpp come to.         *)
EXTENDS CommandPath, RtMessageQueueProofs

----------------------------------------------------------------------------
(* The inductive invariants                                                 *)

UPCs == {"readline", "drain", "payload", "recvCb", "urgent", "posting", "posted",
         "fault", "assert"}

\* Where the two threads are: the parser is inside rt_mq_urgent exactly while
\* upc says so, speedThread is nowhere but in rt_mq_recv with timeout 0.
PathShape ==
  /\ upc \in UPCs
  /\ pc[parser] \in {"idle", "copyIn1", "copyIn2", "link"}
  /\ pc[speedThread] \in {"idle", "copyOut1", "copyOut2", "giveBack"}
  /\ upc = "posting" <=> pc[parser] # "idle"
  /\ irqOff = NoThread

\* The packet in work is newer than the last accepted one.
PacketFresh ==
  /\ packet \in Nat /\ accepted \in Nat /\ accepted <= packet
  /\ upc \notin {"readline", "posted"} => accepted < packet

\* A command is on its way: queued, or being copied by speedThread.
InTransit == queued # <<>> \/ pc[speedThread] # "idle"

\* The command in force is the last accepted one, or an older one while that is
\* on its way.
ForceInv ==
  /\ speed = Whole(speed[1]) /\ speed[1] \in Nat
  /\ IF InTransit THEN speed[1] < accepted ELSE speed[1] = accepted

\* What the single block and the two buffers hold.
BlockContents ==
  /\ pc[parser] \in {"copyIn1", "copyIn2"} => buffer[parser] = Whole(packet)
  /\ pc[parser] = "copyIn2" => data[1][1] = packet
  /\ pc[parser] = "link" => data[1] = Whole(packet)
  /\ queued # <<>> => data[1] = Whole(accepted)
  /\ pc[speedThread] \in {"copyOut1", "copyOut2"} => data[1] = Whole(accepted)
  /\ pc[speedThread] = "copyOut2" => buffer[speedThread][1] = accepted
  /\ pc[speedThread] = "giveBack" => buffer[speedThread] = Whole(accepted)

PathInv == PathShape /\ PacketFresh /\ ForceInv /\ BlockContents

\* Which buffers the parser thread holds.
HeapInv ==
  /\ upc \in UPCs
  /\ heap \in Nat /\ leaked \in Nat /\ other \in Nat /\ HeapUnits \in Nat
  /\ size \in {"empty", "short", "full"} /\ buff \in {"none", "null", "ok"}
  /\ upc \in {"payload", "recvCb"} => size # "empty"
  /\ upc \in {"posting", "posted"} => buff = "ok"
  /\ upc = "urgent" => buff \in {"ok", "null"}
  /\ upc = "assert" => buff = "null"
  /\ upc \in {"readline", "drain", "payload", "recvCb", "fault"} => buff = "none"
  /\ HeapAccounted

----------------------------------------------------------------------------
(* The callers of the queue                                                 *)

LEMMA PathThreads ==
  /\ parser \in Threads /\ speedThread \in Threads /\ parser # speedThread
  /\ \A t \in Threads : t = parser \/ t = speedThread
  /\ \A t \in Threads : TimeoutsOf(t) = {"poll"}
  /\ HeapUnits \in Nat /\ MaxPackets \in Nat
  BY CommandPathAssumption DEF TimeoutsOf

\* Every step of the command path is a step of the queue or leaves it alone.
LEMMA PathStepsQueue == [PathNext]_allVars => [Next]_vars
  <1> SUFFICES ASSUME [PathNext]_allVars PROVE [Next]_vars
    OBVIOUS
  <1>1. CASE UNCHANGED allVars
    BY <1>1 DEF allVars
  <1>2. CASE \/ UrcHeader \/ UrcDrained \/ UrcTimeout \/ UrcReceived \/ RecvCb
             \/ Assert \/ Posted \/ OtherAlloc \/ OtherFree
    BY <1>2 DEF UrcHeader, UrcDrained, UrcTimeout, UrcReceived, RecvCb, Assert, Posted,
                OtherAlloc, OtherFree
  <1>3. CASE Post \/ PostCopy \/ PostLink
    <2>1. Call(parser) \/ Proceed(parser)
      BY <1>3 DEF Post, PostCopy, PostLink, Call, Proceed
    <2> QED  BY <2>1, PathThreads DEF Next
  <1>4. CASE Poll \/ PollCopy \/ PollDone
    <2>1. Call(speedThread) \/ Proceed(speedThread)
      BY <1>4 DEF Poll, PollCopy, PollDone, Call, Proceed
    <2> QED  BY <2>1, PathThreads DEF Next
  <1> QED  BY <1>1, <1>2, <1>3, <1>4 DEF PathNext, ParserStep, SpeedStep

\* The command path uses the message queue as the queue is specified, so that
\* what is proved of the queue holds of it here.
THEOREM PathUsesQueue == PathSpec => Spec
  <1>1. PathInit => Init
    BY DEF PathInit
  <1> QED  BY <1>1, PathStepsQueue, PTL DEF PathSpec, Spec

LEMMA PathStructInv == PathSpec => []StructInv
  BY PathUsesQueue, InitStruct, NextStruct, PTL DEF Spec

----------------------------------------------------------------------------
(* The heap                                                                 *)

LEMMA HeapUnchanged ==
  ASSUME HeapInv, UNCHANGED <<upc, size, buff, heap, leaked, other>>
  PROVE  HeapInv'
  BY DEF HeapInv, HeapAccounted, RecvBufHeld

LEMMA UrcHeap ==
  ASSUME HeapInv, UrcHeader \/ UrcDrained \/ UrcTimeout \/ UrcReceived
  PROVE  HeapInv'
  <1>1. CASE UrcHeader
    BY <1>1 DEF UrcHeader, HeapInv, HeapAccounted, RecvBufHeld, UPCs
  <1>2. CASE UrcDrained
    BY <1>2 DEF UrcDrained, HeapInv, HeapAccounted, RecvBufHeld, UPCs
  <1>3. CASE UrcTimeout
    BY <1>3 DEF UrcTimeout, HeapInv, HeapAccounted, RecvBufHeld, UPCs
  <1>4. CASE UrcReceived
    BY <1>4 DEF UrcReceived, HeapInv, HeapAccounted, RecvBufHeld, UPCs
  <1> QED  BY <1>1, <1>2, <1>3, <1>4

LEMMA RecvCbHeap ==
  ASSUME HeapInv, RecvCb \/ Assert \/ Posted
  PROVE  HeapInv'
  <1>1. CASE RecvCb
    BY <1>1 DEF RecvCb, HeapInv, HeapAccounted, RecvBufHeld, UPCs
  <1>2. CASE Assert
    BY <1>2 DEF Assert, HeapInv, HeapAccounted, RecvBufHeld, UPCs
  <1>3. CASE Posted
    BY <1>3 DEF Posted, HeapInv, HeapAccounted, RecvBufHeld, UPCs
  <1> QED  BY <1>1, <1>2, <1>3

LEMMA PostHeap ==
  ASSUME HeapInv, Post \/ PostLink
  PROVE  HeapInv'
  <1>1. /\ upc \in {"urgent", "posting"} /\ upc' \in {"posting", "posted"} /\ buff = "ok"
        /\ UNCHANGED <<size, buff, heap, leaked, other>>
    BY DEF Post, PostLink, HeapInv
  <1> QED  BY <1>1 DEF HeapInv, HeapAccounted, RecvBufHeld, UPCs

LEMMA NextHeap == HeapInv /\ [PathNext]_allVars => HeapInv'
  <1> SUFFICES ASSUME HeapInv, [PathNext]_allVars PROVE HeapInv'
    OBVIOUS
  <1>1. CASE UNCHANGED allVars
    BY <1>1, HeapUnchanged DEF allVars, pathVars
  <1>2. CASE PostCopy \/ Poll \/ PollCopy \/ PollDone
    BY <1>2, HeapUnchanged DEF PostCopy, Poll, PollCopy, PollDone, pathVars
  <1>3. CASE UrcHeader \/ UrcDrained \/ UrcTimeout \/ UrcReceived
    BY <1>3, UrcHeap
  <1>4. CASE RecvCb \/ Assert \/ Posted
    BY <1>4, RecvCbHeap
  <1>5. CASE Post \/ PostLink
    BY <1>5, PostHeap
  <1>6. CASE OtherAlloc
    BY <1>6 DEF OtherAlloc, HeapInv, HeapAccounted, RecvBufHeld
  <1>7. CASE OtherFree
    BY <1>7 DEF OtherFree, HeapInv, HeapAccounted, RecvBufHeld
  <1> QED
    BY <1>1, <1>2, <1>3, <1>4, <1>5, <1>6, <1>7 DEF PathNext, ParserStep, SpeedStep

\* Every buffer that urc_recv_func and recvCb allocate is freed again, in use,
\* or one of the receive buffers that urc_recv_func leaks, one per packet that
\* got as far as recvCb, whatever allocation fails and whoever else allocates.
THEOREM PathHeapAccounted == PathSpec => []HeapAccounted
  <1>1. PathInit => HeapInv
    BY PathThreads DEF PathInit, HeapInv, HeapAccounted, RecvBufHeld, UPCs
  <1>2. HeapInv => HeapAccounted
    BY DEF HeapInv
  <1> QED  BY <1>1, <1>2, NextHeap, PTL DEF PathSpec

----------------------------------------------------------------------------
(* A queue of one block                                                     *)

\* The sizes of main.cpp: messages of two doubles in a pool of four.
LEMMA SizesOfProgram ==
  ASSUME PoolSize = 32, MsgSize = 16, HdrSize = 4, AlignSize = 4
  PROVE  max_msgs = 1
  BY DEF max_msgs, BlockSize, AlignUp

LEMMA OneSlot ==
  ASSUME max_msgs = 1
  PROVE  Slots = {1} /\ RT_NULL \notin Slots
  BY DEF Slots, RT_NULL

\* The block is in one place: queued, free, or with one of the two threads.
LEMMA OnePlace ==
  ASSUME max_msgs = 1, StructInv, PathShape
  PROVE  /\ queued # <<>> => /\ freed = <<>> /\ Len(queued) = 1
                             /\ pc[parser] = "idle" /\ pc[speedThread] = "idle"
         /\ pc[parser] # "idle" => /\ msg[parser] = 1 /\ queued = <<>> /\ freed = <<>>
                                   /\ pc[speedThread] = "idle"
         /\ pc[speedThread] # "idle" => /\ msg[speedThread] = 1 /\ queued = <<>>
                                        /\ freed = <<>> /\ pc[parser] = "idle"
         /\ freed = <<>> => InTransit \/ pc[parser] # "idle"
         /\ recvList = <<>> /\ sendList = <<>>
         /\ queued \in Seq({1}) /\ freed \in Seq({1})
  <1>0. /\ Slots = {1} /\ TypeOK /\ HeldBlocks /\ WaitListsExact /\ BlocksPartitioned
        /\ queued \in Seq({1}) /\ freed \in Seq({1})
    BY OneSlot DEF StructInv, TypeOK
  <1>1. /\ pc[parser] # "idle" <=> parser \in Holders
        /\ pc[speedThread] # "idle" <=> speedThread \in Holders
    BY PathThreads DEF PathShape, Holders, HoldPCs
  <1>2. \A t \in Holders : msg[t] = 1
    BY <1>0 DEF HeldBlocks, Holders
  <1>3. ASSUME NEW q \in Seq({1}), q # <<>>
        PROVE  1 \in Elems(q)
    BY <1>3, TailFacts
  <1>4. ASSUME NEW q \in Seq({1}), q # <<>>, Distinct(q)
        PROVE  Len(q) = 1
    <2>1. Len(q) \in Nat /\ Len(q) # 0
      BY <1>4, EmptyIff
    <2>2. CASE Len(q) # 1
      <3>1. 1 \in 1 .. Len(q) /\ 2 \in 1 .. Len(q) /\ q[1] = 1 /\ q[2] = 1
        BY <2>1, <2>2
      <3> QED  BY <1>4, <3>1 DEF Distinct
    <2> QED  BY <2>1, <2>2
  <1>5. Elems(<<>>) = {}
    BY DEF Elems
  <1>6. queued # <<>> => freed = <<>> /\ Len(queued) = 1 /\ Holders = {}
    BY <1>0, <1>2, <1>3, <1>4 DEF BlocksPartitioned
  <1>7. ASSUME NEW t \in Holders
        PROVE  queued = <<>> /\ freed = <<>> /\ \A u \in Holders : u = t
    BY <1>0, <1>2, <1>3 DEF BlocksPartitioned
  <1>8. freed = <<>> => queued # <<>> \/ Holders # {}
    BY <1>0, <1>5 DEF BlocksPartitioned
  <1>9. Holders \subseteq {parser, speedThread}
    BY PathThreads DEF Holders
  <1>10. recvList = <<>> /\ sendList = <<>>
    <2>1. \A t \in Threads : pc[t] # "recvWait" /\ pc[t] # "sendWait"
      BY PathThreads DEF PathShape
    <2>2. Elems(recvList) = {} /\ Elems(sendList) = {}
      BY <1>0, <2>1 DEF WaitListsExact
    <2>3. recvList \in Seq(Threads) /\ sendList \in Seq(Threads)
      BY <1>0 DEF TypeOK
    <2> QED  BY <2>2, <2>3, TailFacts
  <1> QED
    BY <1>0, <1>1, <1>2, <1>6, <1>7, <1>8, <1>9, <1>10, PathThreads DEF InTransit

----------------------------------------------------------------------------
(* The order of the commands                                                *)

\* The parser does something outside rt_mq_urgent.
LEMMA AsidePath ==
  ASSUME PathInv, UNCHANGED <<vars, accepted, speed>>,
         upc # "posting", upc' \in UPCs \ {"posting"},
         packet' \in Nat, packet <= packet',
         upc' \notin {"readline", "posted"} => accepted < packet'
  PROVE  PathInv'
  <1>1. UNCHANGED <<pc, irqOff, queued, buffer, data, accepted, speed>>
    BY DEF vars, mqVars, callVars, histVars
  <1>2. PathShape /\ PacketFresh /\ ForceInv /\ BlockContents /\ pc[parser] = "idle"
    BY DEF PathInv, PathShape
  <1>3. PathShape' /\ PacketFresh'
    BY <1>1, <1>2 DEF PathShape, PacketFresh
  <1>4. ForceInv'
    BY <1>1, <1>2 DEF ForceInv, InTransit
  <1>5. BlockContents'
    BY <1>1, <1>2 DEF BlockContents
  <1> QED  BY <1>3, <1>4, <1>5 DEF PathInv

LEMMA SameQueuePath ==
  ASSUME PathInv, UNCHANGED <<pc, irqOff, queued, buffer, data, upc, packet, accepted, speed>>
  PROVE  PathInv'
  BY DEF PathInv, PathShape, PacketFresh, ForceInv, InTransit, BlockContents

\* rt_mq_urgent takes the free block, or finds none.
LEMMA PostPath ==
  ASSUME max_msgs = 1, StructInv, PathInv, Post
  PROVE  PathInv'
  <1>0. PathShape /\ PacketFresh /\ ForceInv /\ BlockContents /\ TypeOK
    BY DEF PathInv, StructInv
  <1>1. /\ upc = "urgent" /\ pc[parser] = "idle"
        /\ UNCHANGED <<packet, accepted, speed>>
        /\ UrgentCall(parser)
        /\ IF pc'[parser] = "copyIn1"
           THEN upc' = "posting" /\ buffer'[parser] = Whole(packet)
           ELSE upc' = "posted"
    BY <1>0 DEF Post, PathShape
  <1>2. PICK m \in Msgs :
            \/ SendFull(parser, "poll")
            \/ /\ SendTake(parser, TRUE)
               /\ buffer' = [buffer EXCEPT ![parser] = Whole(m)]
    BY <1>1 DEF UrgentCall
  <1>3. /\ UNCHANGED <<irqOff, queued, data>>
        /\ pc'[speedThread] = pc[speedThread]
        /\ buffer'[speedThread] = buffer[speedThread]
        /\ \/ pc'[parser] = "idle"
           \/ pc'[parser] = "copyIn1"
    BY <1>0, <1>1, <1>2, PathThreads
    DEF TypeOK, SendFull, SendTake, Return, mqVars, histVars
  <1>4. PathShape' /\ PacketFresh'
    BY <1>0, <1>1, <1>3 DEF PathShape, PacketFresh, UPCs
  <1>5. ForceInv'
    BY <1>0, <1>1, <1>3 DEF ForceInv, InTransit
  <1>6. BlockContents'
    BY <1>0, <1>1, <1>3 DEF BlockContents
  <1> QED  BY <1>4, <1>5, <1>6 DEF PathInv

LEMMA PostCopyPath ==
  ASSUME max_msgs = 1, StructInv, PathInv, PostCopy
  PROVE  PathInv'
  <1>0. /\ PathShape /\ PacketFresh /\ ForceInv /\ BlockContents /\ TypeOK
        /\ Slots = {1}
    BY OneSlot DEF PathInv, StructInv
  <1>1. /\ upc = "posting" /\ UNCHANGED <<upc, packet, accepted, speed>>
        /\ CopyIn(parser) /\ pc[parser] \in {"copyIn1", "copyIn2"}
    BY DEF PostCopy, pathVars, CopyIn
  <1>2. /\ msg[parser] = 1 /\ queued = <<>> /\ pc[speedThread] = "idle"
        /\ buffer[parser] = <<packet, packet>>
    BY <1>0, <1>1, OnePlace DEF BlockContents, Whole
  <1>3. /\ UNCHANGED <<irqOff, queued, buffer>>
        /\ pc'[speedThread] = pc[speedThread]
        /\ \/ /\ pc'[parser] = "copyIn2"
              /\ data' = [data EXCEPT ![1] = <<packet, @[2]>>]
           \/ /\ pc[parser] = "copyIn2" /\ pc'[parser] = "link"
              /\ data' = [data EXCEPT ![1] = <<@[1], packet>>]
    BY <1>0, <1>1, <1>2, PathThreads DEF CopyIn, TypeOK, histVars
  <1>4. /\ pc'[parser] = "copyIn2" => data'[1][1] = packet
        /\ pc'[parser] = "link" => data'[1] = <<packet, packet>>
    <2>1. data \in [{1} -> Message]
      BY <1>0 DEF TypeOK
    <2>2. pc[parser] = "copyIn2" => data[1][1] = packet
      BY <1>0 DEF BlockContents
    <2> QED  BY <1>3, <2>1, <2>2
  <1>5. PathShape' /\ PacketFresh'
    BY <1>0, <1>1, <1>3 DEF PathShape, PacketFresh
  <1>6. ForceInv'
    BY <1>0, <1>1, <1>3 DEF ForceInv, InTransit
  <1>7. BlockContents'
    BY <1>1, <1>2, <1>3, <1>4 DEF BlockContents, Whole
  <1> QED  BY <1>5, <1>6, <1>7 DEF PathInv

\* The command is queued: from here on it is the accepted one, and on its way.
LEMMA PostLinkPath ==
  ASSUME max_msgs = 1, StructInv, PathInv, PostLink
  PROVE  PathInv'
  <1>0. PathShape /\ PacketFresh /\ ForceInv /\ BlockContents /\ TypeOK
    BY DEF PathInv, StructInv
  <1>1. /\ upc = "posting" /\ upc' = "posted" /\ UNCHANGED <<packet, speed>>
        /\ accepted' = packet
        /\ Link(parser) /\ pc[parser] = "link"
    BY DEF PostLink, Link
  <1>2. /\ msg[parser] = 1 /\ queued = <<>> /\ pc[speedThread] = "idle"
        /\ recvList = <<>> /\ data[1] = Whole(packet)
        /\ accepted < packet /\ speed[1] = accepted
    BY <1>0, <1>1, OnePlace DEF BlockContents, PacketFresh, ForceInv, InTransit
  <1>3. /\ UNCHANGED <<irqOff, data>>
        /\ pc'[speedThread] = "idle" /\ pc'[parser] = "idle"
    BY <1>0, <1>1, <1>2, PathThreads DEF Link, ReturnAndResume, TypeOK
  <1>4. queued' # <<>>
    <2>1. queued \in Seq({1}) /\ msg[parser] \in {1}
      BY <1>0, <1>2, OnePlace
    <2>2. queued' = Append(queued, msg[parser]) \/ queued' = <<msg[parser]>> \o queued
      BY <1>1 DEF Link, LinkHead, LinkTail
    <2> QED  BY <2>1, <2>2, AppendFacts, PushFacts
  <1>5. PathShape' /\ PacketFresh'
    BY <1>0, <1>1, <1>3 DEF PathShape, PacketFresh, UPCs
  <1>6. ForceInv'
    BY <1>0, <1>1, <1>2, <1>4 DEF ForceInv, InTransit
  <1>7. BlockContents'
    BY <1>1, <1>2, <1>3 DEF BlockContents
  <1> QED  BY <1>5, <1>6, <1>7 DEF PathInv

\* rt_mq_recv with timeout 0 takes the command or finds none.
LEMMA PollPath ==
  ASSUME max_msgs = 1, StructInv, PathInv, Poll
  PROVE  PathInv'
  <1>0. PathShape /\ PacketFresh /\ ForceInv /\ BlockContents /\ TypeOK /\ ListsWellFormed
    BY DEF PathInv, StructInv
  <1>1. /\ UNCHANGED <<upc, packet, accepted, speed>>
        /\ RecvCall(speedThread) /\ pc[speedThread] = "idle"
    BY DEF Poll, pathVars, RecvCall
  <1>2. RecvEmpty(speedThread, "poll") \/ RecvPop(speedThread)
    BY <1>1, PathThreads DEF RecvCall, RecvRegion, RecvSuspend
  <1>3. /\ UNCHANGED <<irqOff, data>>
        /\ pc'[parser] = pc[parser] /\ buffer'[parser] = buffer[parser]
    BY <1>0, <1>2, PathThreads DEF RecvEmpty, RecvPop, Return, TypeOK, mqVars
  <1>4. CASE RecvEmpty(speedThread, "poll")
    <2>1. pc'[speedThread] = "idle" /\ queued' = queued
      BY <1>0, <1>4, PathThreads DEF RecvEmpty, Return, TypeOK, histVars
    <2>2. PathShape' /\ PacketFresh'
      BY <1>0, <1>1, <1>3, <2>1 DEF PathShape, PacketFresh
    <2>3. ForceInv'
      BY <1>0, <1>1, <2>1 DEF ForceInv, InTransit
    <2>4. BlockContents'
      BY <1>0, <1>1, <1>3, <2>1 DEF BlockContents
    <2> QED  BY <2>2, <2>3, <2>4 DEF PathInv
  <1>5. CASE RecvPop(speedThread)
    <2>1. /\ pc'[speedThread] = "copyOut1" /\ queued' = Tail(queued)
      BY <1>0, <1>5, PathThreads DEF RecvPop, TypeOK
    <2>2. queued # <<>>
      BY <1>0, <1>5 DEF RecvPop, ListsWellFormed, PathShape
    <2>3. queued' = <<>>
      <3>1. queued \in Seq({1}) /\ Len(queued) = 1
        BY <1>0, <2>2, OnePlace
      <3>2. Tail(queued) \in Seq({1}) /\ Len(Tail(queued)) = Len(queued) - 1
        BY <2>2, <3>1, TailFacts
      <3>3. Len(Tail(queued)) = 0
        BY <3>1, <3>2
      <3> QED  BY <2>1, <3>2, <3>3, EmptyIff
    <2>4. PathShape' /\ PacketFresh'
      BY <1>0, <1>1, <1>3, <2>1 DEF PathShape, PacketFresh
    <2>5. ForceInv'
      BY <1>0, <1>1, <2>1, <2>2 DEF ForceInv, InTransit
    <2>6. BlockContents'
      BY <1>0, <1>1, <1>3, <2>1, <2>2, <2>3 DEF BlockContents
    <2> QED  BY <2>4, <2>5, <2>6 DEF PathInv
  <1> QED  BY <1>2, <1>4, <1>5

LEMMA PollCopyPath ==
  ASSUME max_msgs = 1, StructInv, PathInv, PollCopy
  PROVE  PathInv'
  <1>0. /\ PathShape /\ PacketFresh /\ ForceInv /\ BlockContents /\ TypeOK
    BY DEF PathInv, StructInv
  <1>1. /\ UNCHANGED <<upc, packet, accepted, speed>>
        /\ CopyOut(speedThread) /\ pc[speedThread] \in {"copyOut1", "copyOut2"}
    BY DEF PollCopy, pathVars, CopyOut
  <1>2. /\ msg[speedThread] = 1 /\ queued = <<>> /\ pc[parser] = "idle"
        /\ data[1] = <<accepted, accepted>>
    BY <1>0, <1>1, OnePlace DEF BlockContents, Whole
  <1>3. /\ UNCHANGED <<irqOff, queued, data>>
        /\ pc'[parser] = pc[parser]
        /\ \/ /\ pc'[speedThread] = "copyOut2"
              /\ buffer' = [buffer EXCEPT ![speedThread] = <<accepted, @[2]>>]
           \/ /\ pc[speedThread] = "copyOut2" /\ pc'[speedThread] = "giveBack"
              /\ buffer' = [buffer EXCEPT ![speedThread] = <<@[1], accepted>>]
    BY <1>0, <1>1, <1>2, PathThreads DEF CopyOut, TypeOK, mqVars, histVars
  <1>4. /\ pc'[speedThread] = "copyOut2" => buffer'[speedThread][1] = accepted
        /\ pc'[speedThread] = "giveBack" => buffer'[speedThread] = <<accepted, accepted>>
    <2>1. buffer \in [Threads -> Message]
      BY <1>0 DEF TypeOK
    <2>2. pc[speedThread] = "copyOut2" => buffer[speedThread][1] = accepted
      BY <1>0 DEF BlockContents
    <2> QED  BY <1>3, <2>1, <2>2, PathThreads
  <1>5. PathShape' /\ PacketFresh'
    BY <1>0, <1>1, <1>3 DEF PathShape, PacketFresh
  <1>6. ForceInv'
    BY <1>0, <1>1, <1>3 DEF ForceInv, InTransit
  <1>7. BlockContents'
    BY <1>1, <1>2, <1>3, <1>4 DEF BlockContents, Whole
  <1> QED  BY <1>5, <1>6, <1>7 DEF PathInv

\* The command comes into force.
LEMMA PollDonePath ==
  ASSUME max_msgs = 1, StructInv, PathInv, PollDone
  PROVE  PathInv' /\ speed[1] < accepted /\ speed' = Whole(accepted)
  <1>0. PathShape /\ PacketFresh /\ ForceInv /\ BlockContents /\ TypeOK
    BY DEF PathInv, StructInv
  <1>1. /\ UNCHANGED <<upc, packet, accepted>> /\ speed' = buffer[speedThread]
        /\ GiveBack(speedThread) /\ pc[speedThread] = "giveBack"
    BY DEF PollDone, GiveBack
  <1>2. /\ queued = <<>> /\ pc[parser] = "idle" /\ sendList = <<>>
        /\ buffer[speedThread] = Whole(accepted) /\ speed[1] < accepted
    BY <1>0, <1>1, OnePlace DEF BlockContents, ForceInv, InTransit
  <1>3. /\ UNCHANGED <<irqOff, data, queued>>
        /\ pc'[speedThread] = "idle" /\ pc'[parser] = "idle"
    BY <1>0, <1>1, <1>2, PathThreads DEF GiveBack, ReturnAndResume, TypeOK
  <1>4. PathShape' /\ PacketFresh'
    BY <1>0, <1>1, <1>2, <1>3 DEF PathShape, PacketFresh
  <1>5. ForceInv'
    BY <1>0, <1>1, <1>2, <1>3 DEF ForceInv, InTransit, Whole, PacketFresh
  <1>6. BlockContents'
    BY <1>1, <1>2, <1>3 DEF BlockContents
  <1> QED  BY <1>1, <1>2, <1>4, <1>5, <1>6 DEF PathInv

LEMMA NextPath ==
  ASSUME max_msgs = 1
  PROVE  StructInv /\ PathInv /\ [PathNext]_allVars => PathInv'
  <1> SUFFICES ASSUME StructInv, PathInv, [PathNext]_allVars PROVE PathInv'
    OBVIOUS
  <1>0. PathShape /\ PacketFresh
    BY DEF PathInv
  <1>1. CASE UNCHANGED allVars
    BY <1>1, SameQueuePath DEF allVars, pathVars, vars, mqVars, callVars, histVars
  <1>2. CASE UrcHeader
    BY <1>0, <1>2, AsidePath DEF UrcHeader, PacketFresh, UPCs
  <1>3. CASE UrcDrained \/ UrcTimeout
    BY <1>0, <1>3, AsidePath DEF UrcDrained, UrcTimeout, PacketFresh, UPCs
  <1>4. CASE UrcReceived \/ RecvCb \/ Assert
    BY <1>0, <1>4, AsidePath DEF UrcReceived, RecvCb, Assert, PacketFresh, UPCs
  <1>5. CASE Posted
    BY <1>0, <1>5, AsidePath DEF Posted, PacketFresh, UPCs
  <1>6. CASE OtherAlloc \/ OtherFree
    BY <1>6, SameQueuePath DEF OtherAlloc, OtherFree, vars, mqVars, callVars, histVars
  <1>7. CASE Post
    BY <1>7, PostPath
  <1>8. CASE PostCopy
    BY <1>8, PostCopyPath
  <1>9. CASE PostLink
    BY <1>9, PostLinkPath
  <1>10. CASE Poll
    BY <1>10, PollPath
  <1>11. CASE PollCopy
    BY <1>11, PollCopyPath
  <1>12. CASE PollDone
    BY <1>12, PollDonePath
  <1> QED
    BY <1>1, <1>2, <1>3, <1>4, <1>5, <1>6, <1>7, <1>8, <1>9, <1>10, <1>11, <1>12
    DEF PathNext, ParserStep, SpeedStep

LEMMA PathInvariant ==
  ASSUME max_msgs = 1
  PROVE  PathSpec => [](StructInv /\ PathInv)
  <1>1. PathInit => PathInv
    BY PathThreads DEF PathInit, Init, PathInv, PathShape, PacketFresh, ForceInv,
       BlockContents, InTransit, UPCs, Whole
  <1> QED  BY <1>1, NextPath, PathStructInv, PTL DEF PathSpec

\* With the one block of main.cpp, the command in force is the last one that
\* rt_mq_urgent accepted as soon as nothing is queued and neither thread is
\* inside the queue, wherever the parser preempts rt_mq_recv.
THEOREM PathLastAcceptedInForce ==
  ASSUME max_msgs = 1
  PROVE  PathSpec => []LastAcceptedInForce
  <1>1. StructInv /\ PathInv => LastAcceptedInForce
    <2> SUFFICES ASSUME PathInv, queued = <<>>, Holders = {}
                 PROVE  speed = Whole(accepted)
      BY DEF LastAcceptedInForce
    <2>1. pc[speedThread] = "idle"
      BY PathThreads DEF PathInv, PathShape, Holders, HoldPCs
    <2> QED  BY <2>1 DEF PathInv, ForceInv, InTransit
  <1> QED  BY <1>1, PathInvariant, PTL

\* With the one block of main.cpp, no command is overtaken: although every one
\* is posted at the front of the queue, speedThread never goes back to an older.
THEOREM PathCommandsInOrder ==
  ASSUME max_msgs = 1
  PROVE  PathSpec => CommandsInOrder
  <1>1. ASSUME StructInv, PathInv, [PathNext]_allVars
        PROVE  [speed'[1] >= speed[1]]_speed
    <2>1. CASE PollDone
      <3>1. speed[1] < accepted /\ speed' = <<accepted, accepted>>
        BY <1>1, <2>1, PollDonePath DEF Whole
      <3>2. speed[1] \in Nat /\ accepted \in Nat
        BY <1>1 DEF PathInv, ForceInv, PacketFresh
      <3> QED  BY <3>1, <3>2
    <2>2. CASE ~PollDone
      <3>1. UNCHANGED speed
        BY <1>1, <2>2 DEF PathNext, ParserStep, SpeedStep, UrcHeader, UrcDrained, UrcTimeout,
           UrcReceived, RecvCb, Assert, Post, PostCopy, PostLink, Posted, Poll, PollCopy,
           OtherAlloc, OtherFree, allVars, pathVars
      <3> QED  BY <3>1
    <2> QED  BY <2>1, <2>2
  <1> QED  BY <1>1, PathInvariant, PTL DEF PathSpec, CommandsInOrder

\* With the one block of main.cpp, rt_mq_urgent refuses a command only while
\* speedThread still has to bring the last accepted one into force.
THEOREM PathRefusedOnlyWhenBehind ==
  ASSUME max_msgs = 1
  PROVE  PathSpec => RefusedOnlyWhenBehind
  <1>1. ASSUME StructInv, PathInv, [PathNext]_allVars
        PROVE  [upc = "urgent" /\ upc' = "posted" => speed[1] < accepted]_allVars
    <2> SUFFICES ASSUME upc = "urgent", upc' = "posted"
                 PROVE  speed[1] < accepted
      OBVIOUS
    <2>1. Post
      BY <1>1 DEF PathNext, ParserStep, SpeedStep, UrcHeader, UrcDrained, UrcTimeout,
         UrcReceived, RecvCb, Assert, PostCopy, PostLink, Posted, Poll, PollCopy, PollDone,
         OtherAlloc, OtherFree, allVars, pathVars
    <2>2. UrgentCall(parser) /\ pc'[parser] # "copyIn1" /\ TypeOK /\ PathShape
      BY <1>1, <2>1 DEF Post, StructInv, PathInv
    <2>3. SendFull(parser, "poll")
      BY <2>2, PathThreads DEF UrgentCall, SendTake, TypeOK
    <2>4. freed = <<>>
      BY <1>1, <2>3, FreeNullEmpty DEF SendFull
    <2>5. pc[parser] = "idle"
      BY <2>2 DEF PathShape
    <2>6. InTransit
      BY <1>1, <2>2, <2>4, <2>5, OnePlace
    <2> QED  BY <1>1, <2>6 DEF PathInv, ForceInv
  <1> QED  BY <1>1, PathInvariant, PTL DEF PathSpec, RefusedOnlyWhenBehind

===============================================================================
