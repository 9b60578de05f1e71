----------------------------- MODULE CommandPath ------------------------------
(***************************************************************************)
(* How a velocity command gets from the network to the wheels: the thread   *)
(* of the AT client (priority 9) receives a "+IPD" packet in urc_recv_func, *)
(* recvCb posts it with rt_mq_urgent, and speedThread (priority 15) polls   *)
(* the queue once in each turn of its loop.                                 *)
(*                                                                         *)
(* The module extends the message queue: its callers are the two threads,   *)
(* neither of which waits on it.  The heap is counted in units of one       *)
(* buffer.  The parser preempts speedThread between any two steps; that the *)
(* lower priority of speedThread also keeps it from running between some    *)
(* steps of the parser is not used, except after a failed assertion, whose  *)
(* handler spins in the parser thread for ever.                             *)
(***************************************************************************)
EXTENDS RtMessageQueue

CONSTANTS
  parser, speedThread,   \* the two threads
  MaxPackets,            \* bound: packets the other end sends
  HeapUnits,             \* buffers that fit in the heap
  OtherUnits             \* bound: units other parts of the program hold

ASSUME CommandPathAssumption ==
  /\ Threads = {parser, speedThread} /\ parser # speedThread
  /\ Blocking = {}
  /\ MaxPackets \in Nat /\ HeapUnits \in Nat /\ OtherUnits \in Nat
  /\ Msgs = 1 .. MaxPackets

VARIABLES
  upc,       \* where the parser thread is in urc_recv_func and recvCb
  size,      \* bfsz: "empty", "short" (less than two doubles), "full"
  packet,    \* number of the packet in work, the count of packets so far
  buff,      \* the copy recvCb makes: "none", "null" (rt_malloc failed), "ok"
  heap,      \* free units
  leaked,    \* units nobody will ever free
  other,     \* units held by the rest of the program
  accepted,  \* the last packet that rt_mq_urgent took
  speed      \* the command in force: static double speed[2] of speedThread

pathVars == <<upc, size, packet, buff, heap, leaked, other, accepted, speed>>

allVars == <<vars, pathVars>>

\* The handlers of a hard fault and of a failed assertion spin: no thread of
\* lower priority runs again.
Running == upc \notin {"fault", "assert"}

PathInit ==
  /\ Init
  /\ upc = "readline" /\ size = "empty" /\ packet = 0 /\ buff = "none"
  /\ heap = HeapUnits /\ leaked = 0 /\ other = 0
  /\ accepted = 0
  /\ speed = Whole(0)

----------------------------------------------------------------------------
(* urc_recv_func                                                            *)

\* "+IPD,<socket>,<bfsz>:" has been read; recv_buf is allocated for the payload.
UrcHeader ==
  /\ upc = "readline"
  /\ packet < MaxPackets
  /\ packet' = packet + 1
  /\ size' \in {"empty", "short", "full"}
  /\ \/ /\ size' = "empty"
        /\ UNCHANGED <<upc, heap>>
     \/ /\ size' # "empty"
        /\ heap = 0
        /\ upc' = "drain"
        /\ UNCHANGED heap
     \/ /\ size' # "empty"
        /\ heap > 0
        /\ upc' = "payload"
        /\ heap' = heap - 1
  /\ UNCHANGED <<vars, buff, leaked, other, accepted, speed>>

\* No memory: the payload is read in pieces and thrown away.
UrcDrained ==
  /\ upc = "drain"
  /\ upc' = "readline"
  /\ UNCHANGED <<vars, size, packet, buff, heap, leaked, other, accepted, speed>>

\* Mutant: the buffer is not freed when the payload does not arrive in time.
UrcTimeoutLeaks ==
  /\ upc = "payload"
  /\ upc' = "readline"
  /\ UNCHANGED <<vars, size, packet, buff, heap, leaked, other, accepted, speed>>

\* at_client_obj_recv returned less than bfsz: recv_buf is freed.
UrcTimeout ==
  /\ upc = "payload"
  /\ upc' = "readline"
  /\ heap' = heap + 1
  /\ UNCHANGED <<vars, size, packet, buff, leaked, other, accepted, speed>>

UrcReceived ==
  /\ upc = "payload"
  /\ upc' = "recvCb"
  /\ UNCHANGED <<vars, size, packet, buff, heap, leaked, other, accepted, speed>>

----------------------------------------------------------------------------
(* recvCb; when it returns, urc_recv_func returns and recv_buf is leaked.   *)

\* rt_malloc, memcpy, and the end for a payload of less than two doubles, whose
\* copy is freed.  rt_malloc is not checked: the memcpy to address 0 either
\* faults or goes unnoticed.
RecvCb ==
  /\ upc = "recvCb"
  /\ \/ /\ heap = 0
        /\ upc' = "fault"
        /\ UNCHANGED <<buff, heap, leaked>>
     \/ /\ size = "short"
        /\ upc' = "readline"
        /\ leaked' = leaked + 1
        /\ UNCHANGED <<buff, heap>>
     \/ /\ size = "full"
        /\ upc' = "urgent"
        /\ IF heap > 0 THEN buff' = "ok" /\ heap' = heap - 1
                       ELSE buff' = "null" /\ UNCHANGED heap
        /\ UNCHANGED leaked
  /\ UNCHANGED <<vars, size, packet, other, accepted, speed>>

\* RT_ASSERT(buffer != RT_NULL) in rt_mq_urgent.
Assert ==
  /\ upc = "urgent"
  /\ buff = "null"
  /\ upc' = "assert"
  /\ UNCHANGED <<vars, size, packet, buff, heap, leaked, other, accepted, speed>>

\* The first region of rt_mq_urgent: a block, or -RT_EFULL.
Post ==
  /\ upc = "urgent"
  /\ buff = "ok"
  /\ UrgentCall(parser)
  /\ IF pc'[parser] = "copyIn1"
     THEN upc' = "posting" /\ buffer'[parser] = Whole(packet)
     ELSE upc' = "posted"
  /\ UNCHANGED <<size, packet, buff, heap, leaked, other, accepted, speed>>

PostCopy ==
  /\ upc = "posting"
  /\ CopyIn(parser)
  /\ UNCHANGED pathVars

PostLink ==
  /\ upc = "posting"
  /\ Link(parser)
  /\ upc' = "posted"
  /\ accepted' = packet
  /\ UNCHANGED <<size, packet, buff, heap, leaked, other, speed>>

\* recvCb frees its copy and returns.
Posted ==
  /\ upc = "posted"
  /\ upc' = "readline"
  /\ buff' = "none"
  /\ heap' = heap + 1
  /\ leaked' = leaked + 1
  /\ UNCHANGED <<vars, size, packet, other, accepted, speed>>

----------------------------------------------------------------------------
(* speedThread: rt_mq_recv(&mq, &speed, 2*sizeof(double), 0)                *)

Poll ==
  /\ Running
  /\ RecvCall(speedThread)
  /\ UNCHANGED pathVars

PollCopy ==
  /\ Running
  /\ CopyOut(speedThread)
  /\ UNCHANGED pathVars

\* Mutant: the message goes to a variable the loop does not use.
PollDoneElsewhere ==
  /\ Running
  /\ GiveBack(speedThread)
  /\ UNCHANGED pathVars

\* The last region of rt_mq_recv; from here on the loop uses the new command.
PollDone ==
  /\ Running
  /\ GiveBack(speedThread)
  /\ speed' = buffer[speedThread]
  /\ UNCHANGED <<upc, size, packet, buff, heap, leaked, other, accepted>>

----------------------------------------------------------------------------

\* The rest of the program (AT responses, shell, logging) uses the heap too.
OtherAlloc ==
  /\ Running
  /\ heap > 0 /\ other < OtherUnits
  /\ heap' = heap - 1 /\ other' = other + 1
  /\ UNCHANGED <<vars, upc, size, packet, buff, leaked, accepted, speed>>

OtherFree ==
  /\ Running
  /\ other > 0
  /\ heap' = heap + 1 /\ other' = other - 1
  /\ UNCHANGED <<vars, upc, size, packet, buff, leaked, accepted, speed>>

ParserStep ==
  \/ UrcDrained \/ UrcTimeout \/ UrcReceived \/ RecvCb \/ Assert
  \/ Post \/ PostCopy \/ PostLink \/ Posted

SpeedStep == Poll \/ PollCopy \/ PollDone

PathNext == UrcHeader \/ ParserStep \/ SpeedStep \/ OtherAlloc \/ OtherFree

PathSpec == PathInit /\ [][PathNext]_allVars

\* A parser that waits for a payload has a timeout, and it sleeps in
\* at_client_getchar between packets, so that speedThread gets its turn.
PathFairSpec == PathSpec /\ WF_allVars(ParserStep) /\ WF_allVars(SpeedStep)

----------------------------------------------------------------------------
(* Properties                                                               *)

\* The wheels never go back to an older command: commands are posted at the
\* front of the queue, so this holds only because the pool of 2*2*sizeof(double)
\* bytes has room for a single message and its header.
CommandsInOrder == [][speed'[1] >= speed[1]]_speed

\* When nothing is under way, the command in force is the last accepted one.
LastAcceptedInForce ==
  queued = <<>> /\ Holders = {} => speed = Whole(accepted)

\* rt_mq_urgent refuses a command only while speedThread still has to take an
\* older one into force, also when it was preempted inside rt_mq_recv.
RefusedOnlyWhenBehind ==
  [][upc = "urgent" /\ upc' = "posted" => speed[1] < accepted]_allVars

\* Every unit of the heap is free, held by one of the two buffers of the
\* packet in work, held by the rest of the program, or leaked by urc_recv_func.
RecvBufHeld == upc \in {"payload", "recvCb", "urgent", "posting", "posted",
                        "fault", "assert"}

HeapAccounted ==
  heap + leaked + other + (IF RecvBufHeld THEN 1 ELSE 0)
       + (IF buff = "ok" THEN 1 ELSE 0) = HeapUnits

\* An accepted command is taken into force, or a newer one is, unless a failed
\* assertion stops the program first.
AcceptedIsApplied ==
  \A k \in 1 .. MaxPackets : accepted = k ~> (speed[1] >= k \/ ~Running)

\* RT_ASSERT(buffer != RT_NULL) of rt_mq_urgent holds for the copy recvCb makes.
UrgentBufferNotNull == upc = "urgent" => buff # "null"

===============================================================================
