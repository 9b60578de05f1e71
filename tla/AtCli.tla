-------------------------------- MODULE AtCli ---------------------------------
(***************************************************************************)
(* The AT command line of the shell (components/net/at/src/at_cli.c).  A    *)
(* session takes the rx indication of uart2 away from the AT client, so     *)
(* that the interrupt handlers put what comes into the ring client_rx_fifo, *)
(* from which the thread at_cli prints it.                                  *)
(*                                                                         *)
(* The thread (priority 8) preempts the shell (20); the handlers of uart2   *)
(* preempt both, and the one of the DMA preempts the one of the UART, in    *)
(* the middle of a put too.  A byte is its number, 0 is no byte.            *)
(***************************************************************************)
EXTENDS RtRingBuffer

CONSTANTS
  MaxBytes,     \* bound: bytes that come
  MaxSessions,  \* bound: sessions
  MaxNew,       \* bytes one interrupt announces at most
  Failures      \* whether rt_ringbuffer_create or rt_thread_create may fail

ASSUME CliAssumption ==
  /\ MaxBytes \in Nat /\ MaxSessions \in Nat /\ MaxNew \in Nat
  /\ Failures \in BOOLEAN

VARIABLES
  shell,        \* where client_cli_parser is
  sessions,     \* history: sessions begun
  status,       \* client->status
  odev_status,  \* client_odev_status
  rx_indicate,  \* client->device->rx_indicate
  odev_rx_ind,  \* client_odev_rx_ind, static
  fifo_state,   \* client_rx_fifo: null, live, or freed and not cleared
  fifo,         \* the ring it points to
  rx_notice,    \* the value of client_rx_notice
  started       \* a session has got its ring and its thread

VARIABLES
  cli,          \* where the thread at_cli is
  ch,           \* ch of client_getchar, 0 when nothing was read
  half          \* the read mirror and index it has loaded

VARIABLES
  came,         \* bytes that have come
  unread,       \* of those, bytes in the fifo of the serial device
  isr,          \* where client_getchar_rx_ind of the UART handler is
  held,         \* its ch
  space,        \* its space_length
  word          \* the mirror and index it has loaded

(* History.                                                                 *)
VARIABLES
  printed,      \* the byte printed last
  overflowed,   \* more bytes were put and not taken out than fit
  nested,       \* the DMA handler put bytes in the middle of a put of the UART handler
  torn,         \* it did so to this ring between two accesses to its indices
  failed,       \* a session found no memory
  stopped       \* why the program stopped

shellVars == <<shell, sessions, status, odev_status, rx_indicate, odev_rx_ind,
               fifo_state, started>>
ringVars == <<fifo, rx_notice>>
cliVars == <<cli, ch, half>>
isrVars == <<came, unread, isr, held, space, word>>
histVars == <<overflowed, nested, torn, failed, stopped>>
vars == <<shellVars, ringVars, cliVars, isrVars, printed, histVars>>

NoHalf == [mirror |-> 0, index |-> 0]

Init ==
  /\ shell = "idle" /\ sessions = 0 /\ started = FALSE
  /\ status = "initialized" /\ odev_status = "initialized"
  /\ rx_indicate = "at_client" /\ odev_rx_ind = "null"
  /\ fifo_state = "null" /\ fifo = init([i \in 0 .. buffer_size - 1 |-> 0])
  /\ rx_notice = 0
  /\ cli = "none" /\ ch = 0 /\ half = NoHalf
  /\ came = 0 /\ unread = 0 /\ isr = "none" /\ held = 0 /\ space = 0 /\ word = NoHalf
  /\ printed = 0 /\ overflowed = FALSE /\ nested = FALSE /\ torn = FALSE
  /\ failed = FALSE /\ stopped = "no"

----------------------------------------------------------------------------
(* client_cli_parser, in the shell: it runs when neither a handler nor the   *)
(* thread at_cli does.                                                       *)

ShellRuns == stopped = "no" /\ isr = "none" /\ cli \in {"none", "created", "waiting"}

ShellStep(from, to) == ShellRuns /\ shell = from /\ shell' = to

BackupStatus ==
  /\ ShellStep("idle", "rx_ind")
  /\ sessions < MaxSessions
  /\ sessions' = sessions + 1
  /\ odev_status' = status /\ status' = "cli"
  /\ started' = FALSE
  /\ UNCHANGED <<rx_indicate, odev_rx_ind, fifo_state, ringVars, cliVars, isrVars,
                 printed, histVars>>

BackupRxInd ==
  /\ ShellStep("rx_ind", "sem")
  /\ odev_rx_ind' = rx_indicate /\ rx_indicate' = "cli"
  /\ UNCHANGED <<sessions, status, odev_status, fifo_state, started, ringVars,
                 cliVars, isrVars, printed, histVars>>

SemInit ==
  /\ ShellStep("sem", "fifo")
  /\ rx_notice' = 0
  /\ UNCHANGED <<sessions, status, odev_status, rx_indicate, odev_rx_ind, fifo_state,
                 started, fifo, cliVars, isrVars, printed, histVars>>

\* rt_ringbuffer_create; the memory of the pool holds what the last ring left.
FifoCreate ==
  /\ ShellStep("fifo", "thread")
  /\ \/ fifo_state' = "live" /\ fifo' = init(fifo.buffer)
     \/ Failures /\ fifo_state' = "null" /\ UNCHANGED fifo
  /\ printed' = came /\ torn' = FALSE
  /\ UNCHANGED <<sessions, status, odev_status, rx_indicate, odev_rx_ind, started,
                 rx_notice, cliVars, isrVars, overflowed, nested, failed, stopped>>

\* rt_thread_create, the test of both results and rt_thread_startup.  When one of
\* them is missing, the other is kept and nothing is restored.
ThreadCreate ==
  /\ ShellRuns /\ shell = "thread"
  /\ \E created \in {TRUE} \cup (IF Failures THEN {FALSE} ELSE {}) :
       LET ok == created /\ fifo_state = "live"
       IN  /\ shell' = IF ok THEN "session" ELSE "idle"
           /\ cli' = IF ok THEN "take" ELSE IF created THEN "created" ELSE "none"
           /\ started' = ok
           /\ failed' = (failed \/ ~ok)
  /\ UNCHANGED <<sessions, status, odev_status, rx_indicate, odev_rx_ind, fifo_state,
                 ringVars, ch, half, isrVars, printed, overflowed, nested, torn, stopped>>

\* Mutant: the status of the session is kept.
RestoreStatusForgotten ==
  /\ ShellStep("session", "restore")
  /\ UNCHANGED <<sessions, status, odev_status, rx_indicate, odev_rx_ind, fifo_state,
                 started, ringVars, cliVars, isrVars, printed, histVars>>

\* ESC; what the user types before goes to at_obj_exec_cmd of AtClient.
RestoreStatus ==
  /\ ShellStep("session", "restore")
  /\ status' = odev_status
  /\ UNCHANGED <<sessions, odev_status, rx_indicate, odev_rx_ind, fifo_state, started,
                 ringVars, cliVars, isrVars, printed, histVars>>

\* Mutant: the handlers are left to the CLI.
RestoreRxIndForgotten ==
  /\ ShellStep("restore", "delete")
  /\ UNCHANGED <<sessions, status, odev_status, rx_indicate, odev_rx_ind, fifo_state,
                 started, ringVars, cliVars, isrVars, printed, histVars>>

RestoreRxInd ==
  /\ ShellStep("restore", "delete")
  /\ rx_indicate' = odev_rx_ind
  /\ UNCHANGED <<sessions, status, odev_status, odev_rx_ind, fifo_state, started,
                 ringVars, cliVars, isrVars, printed, histVars>>

\* rt_thread_delete and rt_sem_detach
ThreadDelete ==
  /\ ShellStep("delete", "destroy")
  /\ cli' = "none" /\ ch' = 0 /\ half' = NoHalf
  /\ UNCHANGED <<sessions, status, odev_status, rx_indicate, odev_rx_ind, fifo_state,
                 started, ringVars, isrVars, printed, histVars>>

\* rt_ringbuffer_destroy: client_rx_fifo still points to it.
FifoDestroy ==
  /\ ShellStep("destroy", "idle")
  /\ fifo_state' = "freed"
  /\ UNCHANGED <<sessions, status, odev_status, rx_indicate, odev_rx_ind, started,
                 ringVars, cliVars, isrVars, printed, histVars>>

Shell ==
  \/ BackupStatus \/ BackupRxInd \/ SemInit \/ FifoCreate \/ ThreadCreate
  \/ RestoreStatus \/ RestoreRxInd \/ ThreadDelete \/ FifoDestroy

----------------------------------------------------------------------------
(* at_client_entry: rt_sem_take, rt_ringbuffer_getchar, rt_kprintf.         *)

CliRuns == stopped = "no" /\ isr = "none"

CliStep(from, to) == CliRuns /\ cli = from /\ cli' = to

SemTake ==
  /\ CliRuns /\ cli = "take"
  /\ IF rx_notice > 0
     THEN rx_notice' = rx_notice - 1 /\ cli' = "get"
     ELSE cli' = "waiting" /\ UNCHANGED rx_notice
  /\ UNCHANGED <<shellVars, fifo, ch, half, isrVars, printed, histVars>>

\* The ring may be found empty: then ch keeps whatever was on the stack.
GetLen ==
  /\ CliStep("get", IF data_len(fifo) = 0 THEN "print" ELSE "copy")
  /\ ch' = 0
  /\ UNCHANGED <<shellVars, ringVars, half, isrVars, printed, histVars>>

GetCopy ==
  /\ CliStep("copy", "compare")
  /\ ch' = fifo.buffer[fifo.read_index]
  /\ UNCHANGED <<shellVars, ringVars, half, isrVars, printed, histVars>>

GetCompare ==
  /\ CliStep("compare", IF fifo.read_index = buffer_size - 1 THEN "flip" ELSE "inc")
  /\ UNCHANGED <<shellVars, ringVars, ch, half, isrVars, printed, histVars>>

\* Mirror and index share a halfword: each statement loads it and stores it.
GetLoad ==
  /\ \/ CliStep("flip", "flip_store") \/ CliStep("zero", "zero_store")
     \/ CliStep("inc", "inc_store")
  /\ half' = [mirror |-> fifo.read_mirror, index |-> fifo.read_index]
  /\ UNCHANGED <<shellVars, ringVars, ch, isrVars, printed, histVars>>

\* Mutant: the index wraps, the mirror stays.
GetStoreNoFlip ==
  /\ CliRuns
  /\ \/ cli = "flip_store" /\ cli' = "zero" /\ UNCHANGED fifo
     \/ /\ cli = "zero_store" /\ cli' = "print"
        /\ fifo' = [fifo EXCEPT !.read_mirror = half.mirror, !.read_index = 0]
     \/ /\ cli = "inc_store" /\ cli' = "print"
        /\ half.index + 1 < buffer_size
        /\ fifo' = [fifo EXCEPT !.read_mirror = half.mirror,
                                !.read_index = half.index + 1]
  /\ half' = NoHalf
  /\ UNCHANGED <<shellVars, rx_notice, ch, isrVars, printed, histVars>>

GetStore ==
  /\ CliRuns
  /\ \/ /\ cli = "flip_store" /\ cli' = "zero"
        /\ fifo' = [fifo EXCEPT !.read_mirror = 1 - half.mirror,
                                !.read_index = half.index]
     \/ /\ cli = "zero_store" /\ cli' = "print"
        /\ fifo' = [fifo EXCEPT !.read_mirror = half.mirror, !.read_index = 0]
     \/ /\ cli = "inc_store" /\ cli' = "print"
        /\ half.index + 1 < buffer_size
        /\ fifo' = [fifo EXCEPT !.read_mirror = half.mirror,
                                !.read_index = half.index + 1]
  /\ half' = NoHalf
  /\ UNCHANGED <<shellVars, rx_notice, ch, isrVars, printed, histVars>>

\* A put has moved the read index to the end of the buffer since it was compared:
\* it leaves the buffer, and from here on the thread reads whatever is there.
GetStoreOutside ==
  /\ CliRuns
  /\ cli = "inc_store" /\ half.index + 1 = buffer_size
  /\ stopped' = "outside"
  /\ UNCHANGED <<shellVars, ringVars, cliVars, isrVars, printed, overflowed, nested, torn,
                 failed>>

Kprintf ==
  /\ CliStep("print", "take")
  /\ printed' = IF ch = 0 THEN printed ELSE ch
  /\ ch' = 0
  /\ UNCHANGED <<shellVars, ringVars, half, isrVars, histVars>>

Cli == SemTake \/ GetLen \/ GetCopy \/ GetCompare \/ GetLoad \/ GetStore
         \/ GetStoreOutside \/ Kprintf

----------------------------------------------------------------------------
(* client_getchar_rx_ind, in the handlers of uart2                          *)

\* A thread inside rt_ringbuffer_getchar that has not taken its byte out yet.
Getting == cli \notin {"none", "created", "take", "waiting", "print"}

\* The notices of bytes that were put and not taken out, the one the UART handler
\* is about to give included.
Outstanding ==
  rx_notice + (IF Getting THEN 1 ELSE 0) + (IF isr = "release" THEN 1 ELSE 0)

\* The UART handler has compared the indices and does not know the space yet.
Measuring == isr \in {"mirrors", "order", "ahead", "behind"}

\* The UART handler has begun to move the indices and has not finished.
Moving == isr \in {"inc_store", "flip_store", "zero", "zero_store", "rflip",
                   "rflip_store", "follow", "follow_store"}

\* Mutant: one notice for a whole indication.
ReleaseOnce(n) ==
  IF cli = "waiting"
  THEN cli' = "get" /\ UNCHANGED rx_notice
  ELSE rx_notice' = rx_notice + 1 /\ UNCHANGED cli

\* Mutant: the thread that waits is not resumed.
ReleaseCounts(n) == rx_notice' = rx_notice + n /\ UNCHANGED cli

\* rt_sem_release n times: the first one resumes the thread that waits.
Release(n) ==
  IF cli = "waiting"
  THEN cli' = "get" /\ rx_notice' = rx_notice + n - 1
  ELSE rx_notice' = rx_notice + n /\ UNCHANGED cli

\* The bytes not read yet, put one by one.
PutAll(rb, n) ==
  LET after[k \in 0 .. n] ==
        IF k = 0 THEN rb ELSE put_force(after[k - 1], came + k)
  IN  after[n]

\* RT_ASSERT(rb != RT_NULL) of rt_ringbuffer_put_force; a write to a ring that
\* has been freed may do anything.
BadRing == fifo_state # "live"

Stop == stopped' = IF fifo_state = "null" THEN "assert" ELSE "wild"

\* The DMA handler announces n bytes and reads all there are, also those the UART
\* handler has been called for.
DmaRxInd ==
  /\ stopped = "no" /\ rx_indicate = "cli"
  /\ \E n \in 1 .. MaxNew :
       /\ came + n + unread <= MaxBytes
       /\ came' = came + unread + n
       /\ unread' = 0
       /\ \/ /\ BadRing /\ Stop
             /\ UNCHANGED <<ringVars, cli, overflowed, nested, torn>>
          \/ /\ ~BadRing
             /\ fifo' = PutAll(fifo, unread + n)
             /\ Release(unread + n)
             /\ overflowed' = (overflowed \/ Outstanding + unread + n > buffer_size)
             /\ nested' = (nested \/ isr \notin {"none", "read"})
             /\ torn' = (torn \/ Measuring \/ Moving)
             /\ UNCHANGED stopped
  /\ UNCHANGED <<shellVars, ch, half, isr, held, space, word, printed, failed>>

\* The UART handler announces n bytes.
IdleRxInd ==
  /\ stopped = "no" /\ rx_indicate = "cli" /\ isr = "none"
  /\ \E n \in 1 .. MaxNew : came + n <= MaxBytes /\ unread' = n
  /\ isr' = "read"
  /\ UNCHANGED <<shellVars, ringVars, cliVars, came, held, space, word, printed,
                 histVars>>

\* rt_device_read and RT_ASSERT
IdleRead ==
  /\ stopped = "no" /\ isr = "read"
  /\ \/ /\ unread = 0
        /\ isr' = "none"
        /\ UNCHANGED <<came, unread, held, stopped>>
     \/ /\ unread > 0
        /\ came' = came + 1 /\ unread' = unread - 1 /\ held' = came + 1
        /\ IF BadRing THEN Stop /\ UNCHANGED isr ELSE isr' = "put" /\ UNCHANGED stopped
  /\ UNCHANGED <<shellVars, ringVars, cliVars, space, word, printed, overflowed, nested, torn,
                 failed>>

(* rt_ringbuffer_put_force(client_rx_fifo, &ch, 1) of the UART handler: the     *)
(* DMA handler may put bytes between any two of its accesses to the ring.       *)

IdleStep(from, to) == stopped = "no" /\ isr = from /\ isr' = to

\* rt_ringbuffer_space_len: it compares the indices, then the mirrors, or which
\* index is larger, and takes their difference; each time it reads them anew.
IdleSpace ==
  /\ IdleStep("put", IF fifo.read_index = fifo.write_index THEN "mirrors" ELSE "order")
  /\ UNCHANGED <<shellVars, ringVars, cliVars, came, unread, held, space, word, printed,
                 histVars>>

IdleMirrors ==
  /\ IdleStep("mirrors", "test")
  /\ space' = IF fifo.read_mirror = fifo.write_mirror THEN buffer_size ELSE 0
  /\ UNCHANGED <<shellVars, ringVars, cliVars, came, unread, held, word, printed, histVars>>

IdleOrder ==
  /\ IdleStep("order", IF fifo.write_index > fifo.read_index THEN "ahead" ELSE "behind")
  /\ UNCHANGED <<shellVars, ringVars, cliVars, came, unread, held, space, word, printed,
                 histVars>>

\* space_length has 16 bits.
IdleLen ==
  /\ \/ /\ IdleStep("ahead", "test")
        /\ space' = buffer_size - (fifo.write_index - fifo.read_index)
     \/ /\ IdleStep("behind", "test")
        /\ space' = (fifo.read_index - fifo.write_index) % 65536
  /\ UNCHANGED <<shellVars, ringVars, cliVars, came, unread, held, word, printed, histVars>>

\* The branch is chosen here, whatever the write index is when it is used.
IdleTest ==
  /\ IdleStep("test", IF buffer_size - fifo.write_index > 1 THEN "copy" ELSE "copy_wrap")
  /\ UNCHANGED <<shellVars, ringVars, cliVars, came, unread, held, space, word, printed,
                 histVars>>

IdleCopy ==
  /\ \/ IdleStep("copy", "inc")
     \/ IdleStep("copy_wrap", "copy_rest") /\ fifo.write_index = buffer_size - 1
  /\ fifo' = [fifo EXCEPT !.buffer[fifo.write_index] = held]
  /\ UNCHANGED <<shellVars, rx_notice, cliVars, came, unread, held, space, word, printed,
                 histVars>>

\* The second memcpy copies nothing.
IdleCopyRest ==
  /\ IdleStep("copy_rest", "flip")
  /\ fifo.write_index = buffer_size - 1
  /\ UNCHANGED <<shellVars, ringVars, cliVars, came, unread, held, space, word, printed,
                 histVars>>

\* The first statement on the indices loads the word of the write index.
IdleBegin ==
  /\ IdleStep("inc", "inc_store") \/ IdleStep("flip", "flip_store")
  /\ word' = [mirror |-> fifo.write_mirror, index |-> fifo.write_index]
  /\ overflowed' = (overflowed \/ Outstanding + 1 > buffer_size)
  /\ UNCHANGED <<shellVars, ringVars, cliVars, came, unread, held, space, printed, nested,
                 torn, failed, stopped>>

\* The next ones load it again, or the word of the read index; the last one sets
\* the read index to the write index.
IdleLoad ==
  /\ \/ /\ IdleStep("zero", "zero_store")
        /\ word' = [mirror |-> fifo.write_mirror, index |-> fifo.write_index]
     \/ /\ IdleStep("rflip", "rflip_store")
        /\ word' = [mirror |-> fifo.read_mirror, index |-> fifo.read_index]
     \/ /\ IdleStep("follow", "follow_store")
        /\ word' = [mirror |-> fifo.read_mirror, index |-> fifo.write_index]
  /\ UNCHANGED <<shellVars, ringVars, cliVars, came, unread, held, space, printed, histVars>>

IdleStore ==
  /\ \/ /\ IdleStep("inc_store", IF space = 0 THEN "follow" ELSE "release")
        /\ word.index < buffer_size - 1
        /\ fifo' = [fifo EXCEPT !.write_mirror = word.mirror, !.write_index = word.index + 1]
     \/ /\ IdleStep("flip_store", "zero")
        /\ fifo' = [fifo EXCEPT !.write_mirror = 1 - word.mirror, !.write_index = word.index]
     \/ /\ IdleStep("zero_store", IF space = 0 THEN "rflip" ELSE "release")
        /\ word.index = buffer_size - 1
        /\ fifo' = [fifo EXCEPT !.write_mirror = word.mirror, !.write_index = 0]
     \/ /\ IdleStep("rflip_store", "follow")
        /\ fifo' = [fifo EXCEPT !.read_mirror = 1 - word.mirror, !.read_index = word.index]
     \/ /\ IdleStep("follow_store", "release")
        /\ fifo' = [fifo EXCEPT !.read_mirror = word.mirror, !.read_index = word.index]
  /\ word' = NoHalf
  /\ UNCHANGED <<shellVars, rx_notice, cliVars, came, unread, held, space, printed, histVars>>

\* The DMA handler has moved the write index since the branch was chosen.  The one
\* for the end of the buffer copies more than the byte and gets a negative length
\* or index, the other one takes the index behind the end; what the ring does from
\* there on is not modelled.
IdleOutside ==
  /\ stopped = "no"
  /\ \/ isr \in {"copy_wrap", "copy_rest"} /\ fifo.write_index # buffer_size - 1
     \/ isr = "inc_store" /\ word.index = buffer_size - 1
     \/ isr = "zero_store" /\ word.index # buffer_size - 1
  /\ stopped' = "outside"
  /\ UNCHANGED <<shellVars, ringVars, cliVars, isrVars, printed, overflowed, nested, torn,
                 failed>>

\* The notice of that byte.
IdleRelease ==
  /\ IdleStep("release", "read")
  /\ Release(1)
  /\ held' = 0 /\ space' = 0
  /\ UNCHANGED <<shellVars, fifo, ch, half, came, unread, word, printed, histVars>>

\* at_client_rx_ind: the bytes are those of the AT client.
ClientRxInd ==
  /\ stopped = "no" /\ rx_indicate = "at_client" /\ isr = "none"
  /\ came < MaxBytes
  /\ came' = came + 1
  /\ UNCHANGED <<shellVars, ringVars, cliVars, unread, isr, held, space, word, printed,
                 histVars>>

IdlePut ==
  \/ IdleSpace \/ IdleMirrors \/ IdleOrder \/ IdleLen \/ IdleTest \/ IdleCopy
  \/ IdleCopyRest \/ IdleBegin \/ IdleLoad \/ IdleStore \/ IdleOutside

IdleIsr == IdleRead \/ IdlePut \/ IdleRelease

Next == Shell \/ Cli \/ DmaRxInd \/ IdleRxInd \/ IdleIsr \/ ClientRxInd

Spec == Init /\ [][Next]_vars

\* The handlers finish and the thread, more urgent than all others of the
\* application, runs; nobody has to press ESC.
FairSpec == Spec /\ WF_vars(IdleIsr) /\ WF_vars(Cli)

----------------------------------------------------------------------------
(* Properties                                                               *)

\* Every byte in the ring has a notice of its own, so that the thread never
\* sleeps next to a byte it could print: overflows, a race between the
\* statements of rt_ringbuffer_getchar and a put, and a DMA handler that nests in a
\* put of the UART handler included, unless it does so between two accesses to the
\* indices; the next session has a good ring again.
NoticePerByte ==
  started /\ shell = "session" /\ ~torn /\ ~Moving =>
    data_len(fifo) <= Outstanding

\* What is printed is what came, in order and without gaps, and the thread finds
\* a byte for every notice, unless a byte was discarded, one handler put bytes in
\* the middle of a put of the other, or an earlier session failed and left its ring.
PrintedInOrder ==
  cli = "print" /\ ~overflowed /\ ~nested /\ ~failed => ch = printed + 1

\* A session leaves the client as it found it; one that found no memory leaves it
\* in CLI mode, and the ones after it put that back.
SessionLeavesNoTrace ==
  shell = "idle" =>
    /\ ~failed => status = "initialized" /\ rx_indicate = "at_client" /\ cli = "none"
    /\ failed => status = "cli" /\ rx_indicate = "cli"

\* What comes during a session is printed in the end, unless the indices of the
\* ring were torn or left it.
RingDrains ==
  (shell = "session" /\ data_len(fifo) > 0)
    ~> (shell # "session" \/ data_len(fifo) = 0 \/ torn \/ stopped # "no")

\* The program stops in the CLI only in these ways: a byte comes while a session
\* begins, when the handlers are switched and the ring is not there yet, or after
\* one that found no memory; in the first session the assertion of the ring fails,
\* only later ones write to a ring that was freed.  And an index leaves the buffer
\* only when the ring overflows under the thread, or the DMA handler puts bytes in
\* the middle of a put of the UART handler.  An ended session leaves no handler
\* behind that finds no ring.
StopHasCause ==
  /\ stopped \in {"assert", "wild"} =>
       failed \/ shell \in {"sem", "fifo"} \/ (shell = "thread" /\ fifo_state = "null")
  /\ stopped = "wild" => sessions > 1
  /\ stopped = "outside" => overflowed \/ nested

===============================================================================
