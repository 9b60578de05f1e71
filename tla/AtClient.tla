------------------------------- MODULE AtClient -------------------------------
(***************************************************************************)
(* The AT client (rt-thread/components/net/at/src/at_client.c): threads     *)
(* send commands to the WiFi module with at_obj_exec_cmd and wait for the   *)
(* answer that the parser thread collects, line by line, in the response    *)
(* object of the command.  test() of tcpserver_esp8266.cpp is the caller;   *)
(* it runs in the main thread at start-up and in the shell on demand.       *)
(*                                                                         *)
(* A caller may be preempted between any two statements.  The parser        *)
(* (priority 9) preempts every caller (10, 20) and does not wait while it   *)
(* handles a line, so that handling a line is one step.  The answers of the *)
(* module carry, as history, the number of the command they answer, which   *)
(* the code never sees.                                                     *)
(***************************************************************************)
EXTENDS Integers, Sequences, FiniteSets

CONSTANTS
  Callers,    \* the threads that run test()
  LineNums,   \* line_num of the responses they use; NoResp: resp == RT_NULL
  BufLines,   \* lines that fit in the buffer of a response
  MaxCmds,    \* bound: commands sent
  MaxText,    \* bound: text lines the module sends before OK or ERROR
  MaxWire     \* bound: lines received and not yet parsed

NoResp == -1
RT_NULL == 0

ASSUME AtClientAssumption ==
  /\ RT_NULL \notin Callers
  /\ LineNums \subseteq Nat \cup {NoResp}
  /\ BufLines \in Nat /\ MaxCmds \in Nat /\ MaxText \in Nat /\ MaxWire \in Nat

VARIABLES
  status,       \* client->status
  lockQueue,    \* client->lock: its owner, then the threads that wait for it
  resp,         \* client->resp, named by the caller that owns the response
  resp_status,  \* client->resp_status
  resp_notice,  \* the value of the semaphore client->resp_notice
  pc,           \* where each caller is
  line_num,     \* resp->line_num of the response of each caller
  buf_len,      \* resp->buf_len, in lines
  line_counts,  \* resp->line_counts
  result        \* what the last at_obj_exec_cmd of each caller returned

VARIABLES
  wire,         \* lines received from the module and not yet parsed
  todo,         \* the commands the module has not finished
  texts         \* text lines sent for the first of them

(* History, read by no action.                                              *)
VARIABLES
  sent,         \* number of commands sent
  cmd,          \* the number of each caller's command
  answer,       \* the command whose line ended each caller's wait
  clean         \* no wait has timed out, every command waited for its OK

clientVars == <<status, lockQueue, resp, resp_status, resp_notice>>
callerVars == <<pc, line_num, buf_len, line_counts, result>>
moduleVars == <<wire, todo, texts>>
histVars == <<sent, cmd, answer, clean>>
vars == <<clientVars, callerVars, moduleVars, histVars>>

PCs == {"none", "idle", "lock", "clear1", "clear2", "send", "take", "waiting",
        "woken", "timedout", "exit", "unlock"}

Kinds == {"text", "OK", "ERROR", "urc"}

Init ==
  /\ status = "INITIALIZED"
  /\ lockQueue = <<>>
  /\ resp = RT_NULL
  /\ resp_status = "OK"
  /\ resp_notice = 0
  /\ pc = [c \in Callers |-> "none"]
  /\ line_num = [c \in Callers |-> 0]
  /\ buf_len = [c \in Callers |-> 0]
  /\ line_counts = [c \in Callers |-> 0]
  /\ result = [c \in Callers |-> "none"]
  /\ wire = <<>> /\ todo = <<>> /\ texts = 0
  /\ sent = 0
  /\ cmd = [c \in Callers |-> 0]
  /\ answer = [c \in Callers |-> 0]
  /\ clean = TRUE

Goto(c, where) == pc' = [pc EXCEPT ![c] = where]

----------------------------------------------------------------------------
(* The life of a response: at_create_resp, at_delete_resp.                  *)

CreateResp(c) ==
  /\ pc[c] = "none"
  /\ Goto(c, "idle")
  /\ UNCHANGED <<clientVars, line_num, buf_len, line_counts, result, moduleVars,
                 histVars>>

\* The object is gone, and with it all that is known of the last command.
DeleteResp(c) ==
  /\ pc[c] = "idle"
  /\ Goto(c, "none")
  /\ line_num' = [line_num EXCEPT ![c] = 0]
  /\ buf_len' = [buf_len EXCEPT ![c] = 0]
  /\ line_counts' = [line_counts EXCEPT ![c] = 0]
  /\ result' = [result EXCEPT ![c] = "none"]
  /\ cmd' = [cmd EXCEPT ![c] = 0]
  /\ answer' = [answer EXCEPT ![c] = 0]
  /\ UNCHANGED <<clientVars, moduleVars, sent, clean>>

----------------------------------------------------------------------------
(* at_obj_exec_cmd                                                          *)

\* Calls that have yet to send their command: MaxCmds counts them.
Unsent == {c \in Callers : pc[c] \in {"lock", "clear1", "clear2", "send"}}

\* The check of the CLI mode, then rt_mutex_take.
ExecCall(c) ==
  /\ pc[c] = "idle"
  /\ sent + Cardinality(Unsent) < MaxCmds
  /\ \E n \in LineNums :
       \/ /\ status = "CLI" /\ n # NoResp
          /\ result' = [result EXCEPT ![c] = "EBUSY"]
          /\ UNCHANGED <<lockQueue, pc, line_num>>
       \/ /\ status # "CLI" \/ n = NoResp
          /\ Goto(c, "lock")
          /\ lockQueue' = Append(lockQueue, c)
          /\ line_num' = [line_num EXCEPT ![c] = n]
          /\ result' = [result EXCEPT ![c] = "none"]
  /\ UNCHANGED <<status, resp, resp_status, resp_notice, buf_len, line_counts,
                 moduleVars, histVars>>

\* Mutant: the command does not wait for the lock.
SetRespUnlocked(c) ==
  /\ pc[c] = "lock"
  /\ resp_status' = "OK"
  /\ resp' = IF line_num[c] = NoResp THEN RT_NULL ELSE c
  /\ Goto(c, IF line_num[c] = NoResp THEN "send" ELSE "clear1")
  /\ answer' = [answer EXCEPT ![c] = 0]
  /\ UNCHANGED <<status, lockQueue, resp_notice, line_num, buf_len, line_counts,
                 result, moduleVars, sent, cmd, clean>>

\* The two assignments are one step: the parser only looks at resp_status
\* when client->resp is set, and until now it is RT_NULL.
SetResp(c) ==
  /\ pc[c] = "lock"
  /\ Head(lockQueue) = c
  /\ resp_status' = "OK"
  /\ resp' = IF line_num[c] = NoResp THEN RT_NULL ELSE c
  /\ Goto(c, IF line_num[c] = NoResp THEN "send" ELSE "clear1")
  /\ answer' = [answer EXCEPT ![c] = 0]
  /\ UNCHANGED <<status, lockQueue, resp_notice, line_num, buf_len, line_counts,
                 result, moduleVars, sent, cmd, clean>>

\* Mutant: line_counts is cleared before buf_len.
ClearCountsFirst(c) ==
  /\ \/ /\ pc[c] = "clear1"
        /\ line_counts' = [line_counts EXCEPT ![c] = 0]
        /\ Goto(c, "clear2")
        /\ UNCHANGED buf_len
     \/ /\ pc[c] = "clear2"
        /\ buf_len' = [buf_len EXCEPT ![c] = 0]
        /\ Goto(c, "send")
        /\ UNCHANGED line_counts
  /\ UNCHANGED <<clientVars, line_num, result, moduleVars, histVars>>

\* buf_len = 0; line_counts = 0: a line may arrive between the two.
Clear(c) ==
  /\ \/ /\ pc[c] = "clear1"
        /\ buf_len' = [buf_len EXCEPT ![c] = 0]
        /\ Goto(c, "clear2")
        /\ UNCHANGED line_counts
     \/ /\ pc[c] = "clear2"
        /\ line_counts' = [line_counts EXCEPT ![c] = 0]
        /\ Goto(c, "send")
        /\ UNCHANGED buf_len
  /\ UNCHANGED <<clientVars, line_num, result, moduleVars, histVars>>

\* at_vprintfln; a command without response is done.
Send(c) ==
  /\ pc[c] = "send"
  /\ sent' = sent + 1
  /\ cmd' = [cmd EXCEPT ![c] = sent + 1]
  /\ todo' = Append(todo, sent + 1)
  /\ Goto(c, IF line_num[c] = NoResp THEN "exit" ELSE "take")
  /\ result' = [result EXCEPT ![c] = "EOK"]
  /\ clean' = (clean /\ line_num[c] = 0)
  /\ UNCHANGED <<clientVars, line_num, buf_len, line_counts, wire, texts, answer>>

\* rt_sem_take(client->resp_notice, resp->timeout)
Take(c) ==
  /\ pc[c] = "take"
  /\ IF resp_notice > 0
     THEN resp_notice' = resp_notice - 1 /\ Goto(c, "woken")
     ELSE Goto(c, "waiting") /\ UNCHANGED resp_notice
  /\ UNCHANGED <<status, lockQueue, resp, resp_status, line_num, buf_len,
                 line_counts, result, moduleVars, histVars>>

\* rt_thread_timeout takes the caller off the list of the semaphore.
Expire(c) ==
  /\ pc[c] = "waiting"
  /\ Goto(c, "timedout")
  /\ clean' = FALSE
  /\ UNCHANGED <<clientVars, line_num, buf_len, line_counts, result, moduleVars,
                 sent, cmd, answer>>

TimedOut(c) ==
  /\ pc[c] = "timedout"
  /\ resp_status' = "TIMEOUT"
  /\ result' = [result EXCEPT ![c] = "ETIMEOUT"]
  /\ Goto(c, "exit")
  /\ UNCHANGED <<status, lockQueue, resp, resp_notice, line_num, buf_len,
                 line_counts, moduleVars, histVars>>

CheckStatus(c) ==
  /\ pc[c] = "woken"
  /\ result' = [result EXCEPT ![c] = IF resp_status = "OK" THEN "EOK" ELSE "ERROR"]
  /\ Goto(c, "exit")
  /\ UNCHANGED <<clientVars, line_num, buf_len, line_counts, moduleVars, histVars>>

\* Mutant: client->resp is left as it is.
ExitKeepsResp(c) ==
  /\ pc[c] = "exit"
  /\ Goto(c, "unlock")
  /\ UNCHANGED <<clientVars, line_num, buf_len, line_counts, result, moduleVars,
                 histVars>>

Exit(c) ==
  /\ pc[c] = "exit"
  /\ resp' = RT_NULL
  /\ Goto(c, "unlock")
  /\ UNCHANGED <<status, lockQueue, resp_status, resp_notice, line_num, buf_len,
                 line_counts, result, moduleVars, histVars>>

\* Mutant: the lock is only released after a success.
UnlockOnSuccess(c) ==
  /\ pc[c] = "unlock"
  /\ lockQueue' = IF result[c] = "EOK" THEN Tail(lockQueue) ELSE lockQueue
  /\ Goto(c, "idle")
  /\ UNCHANGED <<status, resp, resp_status, resp_notice, line_num, buf_len,
                 line_counts, result, moduleVars, histVars>>

Unlock(c) ==
  /\ pc[c] = "unlock"
  /\ lockQueue' = Tail(lockQueue)
  /\ Goto(c, "idle")
  /\ UNCHANGED <<status, resp, resp_status, resp_notice, line_num, buf_len,
                 line_counts, result, moduleVars, histVars>>

----------------------------------------------------------------------------
(* client_parser                                                            *)

\* A line nobody waits for, or one that get_urc_obj recognises.
SkipLine ==
  /\ status # "CLI"
  /\ wire # <<>>
  /\ resp = RT_NULL \/ Head(wire).kind = "urc"
  /\ wire' = Tail(wire)
  /\ UNCHANGED <<clientVars, callerVars, todo, texts, histVars>>

Fits == buf_len[resp] < BufLines

\* The line is appended to the buffer, or dropped if it does not fit.
Store ==
  IF Fits
  THEN /\ buf_len' = [buf_len EXCEPT ![resp] = @ + 1]
       /\ line_counts' = [line_counts EXCEPT ![resp] = @ + 1]
  ELSE UNCHANGED <<buf_len, line_counts>>

\* The status the line gives to the response; "more" if it is not the last one.
Verdict(kind) ==
  CASE kind = "OK" /\ line_num[resp] = 0 -> "OK"
    [] kind = "ERROR" -> "ERROR"
    [] kind # "ERROR" /\ line_num[resp] # 0 /\ line_counts'[resp] = line_num[resp]
         -> "OK"
    [] OTHER -> "more"

\* A line of the response that is not its end.
MoreLine ==
  /\ status # "CLI"
  /\ wire # <<>> /\ resp # RT_NULL /\ Head(wire).kind # "urc"
  /\ Store
  /\ Verdict(Head(wire).kind) = "more"
  /\ resp_status' = IF Fits THEN resp_status ELSE "BUFF_FULL"
  /\ wire' = Tail(wire)
  /\ UNCHANGED <<status, lockQueue, resp, resp_notice, pc, line_num, result, todo,
                 texts, sent, cmd, answer, clean>>

Waiter == {c \in Callers : pc[c] = "waiting"}

\* rt_sem_release(client->resp_notice)
ReleaseNotice ==
  IF Waiter # {}
  THEN /\ pc' = [c \in Callers |-> IF c \in Waiter THEN "woken" ELSE pc[c]]
       /\ UNCHANGED resp_notice
  ELSE resp_notice' = resp_notice + 1 /\ UNCHANGED pc

\* Mutant: the response stays with the parser after its last line.
LastLineKeepsResp ==
  /\ status # "CLI"
  /\ wire # <<>> /\ resp # RT_NULL /\ Head(wire).kind # "urc"
  /\ Store
  /\ Verdict(Head(wire).kind) # "more"
  /\ resp_status' = Verdict(Head(wire).kind)
  /\ ReleaseNotice
  /\ answer' = [answer EXCEPT ![resp] = Head(wire).cmd]
  /\ wire' = Tail(wire)
  /\ UNCHANGED <<status, lockQueue, resp, line_num, result, todo, texts, sent, cmd,
                 clean>>

\* The last line: whatever the status was, it is overwritten.
LastLine ==
  /\ status # "CLI"
  /\ wire # <<>> /\ resp # RT_NULL /\ Head(wire).kind # "urc"
  /\ Store
  /\ Verdict(Head(wire).kind) # "more"
  /\ resp_status' = Verdict(Head(wire).kind)
  /\ resp' = RT_NULL
  /\ ReleaseNotice
  /\ answer' = [answer EXCEPT ![resp] = Head(wire).cmd]
  /\ wire' = Tail(wire)
  /\ UNCHANGED <<status, lockQueue, line_num, result, todo, texts, sent, cmd, clean>>

----------------------------------------------------------------------------
(* client_cli_parser: the shell takes the lines of the module for itself.   *)

CliEnter ==
  /\ status # "CLI"
  /\ status' = "CLI"
  /\ UNCHANGED <<lockQueue, resp, resp_status, resp_notice, callerVars, moduleVars,
                 histVars>>

CliLine ==
  /\ status = "CLI"
  /\ wire # <<>>
  /\ wire' = Tail(wire)
  /\ UNCHANGED <<clientVars, callerVars, todo, texts, histVars>>

CliLeave ==
  /\ status = "CLI"
  /\ status' = "INITIALIZED"
  /\ UNCHANGED <<lockQueue, resp, resp_status, resp_notice, callerVars, moduleVars,
                 histVars>>

----------------------------------------------------------------------------
(* The WiFi module: it answers the commands in order, each with some text   *)
(* lines and one OK or ERROR, at any time or never, and sends other lines   *)
(* ("+IPD", lines longer than the line buffer) whenever it likes.           *)

Emit(kind, k) ==
  /\ Len(wire) < MaxWire
  /\ wire' = Append(wire, [kind |-> kind, cmd |-> k])

ModuleText ==
  /\ todo # <<>> /\ texts < MaxText
  /\ Emit("text", Head(todo))
  /\ texts' = texts + 1
  /\ UNCHANGED <<clientVars, callerVars, todo, histVars>>

ModuleEnd ==
  /\ todo # <<>>
  /\ \E kind \in {"OK", "ERROR"} : Emit(kind, Head(todo))
  /\ todo' = Tail(todo)
  /\ texts' = 0
  /\ UNCHANGED <<clientVars, callerVars, histVars>>

ModuleUrc ==
  /\ Emit("urc", 0)
  /\ UNCHANGED <<clientVars, callerVars, todo, texts, histVars>>

----------------------------------------------------------------------------

CallerStep(c) ==
  \/ SetResp(c) \/ Clear(c) \/ Send(c) \/ Take(c) \/ TimedOut(c)
  \/ CheckStatus(c) \/ Exit(c) \/ Unlock(c)

ParserStep == SkipLine \/ MoreLine \/ LastLine

Next ==
  \/ \E c \in Callers :
       CreateResp(c) \/ DeleteResp(c) \/ ExecCall(c) \/ CallerStep(c) \/ Expire(c)
  \/ ParserStep
  \/ CliEnter \/ CliLine \/ CliLeave
  \/ ModuleText \/ ModuleEnd \/ ModuleUrc

Spec == Init /\ [][Next]_vars

\* A ready caller is scheduled in the end (the parser sleeps between lines) and
\* resp->timeout is finite.  Nothing is assumed of the module.
FairSpec ==
  Spec /\ \A c \in Callers : WF_vars(CallerStep(c)) /\ WF_vars(Expire(c))

----------------------------------------------------------------------------
(* Properties                                                               *)

\* Every variable has its type; a response never holds more than its buffer.
TypeOK ==
  /\ status \in {"INITIALIZED", "CLI"}
  /\ lockQueue \in Seq(Callers)
  /\ resp \in Callers \cup {RT_NULL}
  /\ resp_status \in {"OK", "ERROR", "TIMEOUT", "BUFF_FULL"}
  /\ resp_notice \in Nat
  /\ pc \in [Callers -> PCs]
  /\ line_num \in [Callers -> LineNums \cup {0}]
  /\ buf_len \in [Callers -> 0 .. BufLines]
  /\ line_counts \in [Callers -> Nat]
  /\ result \in [Callers -> {"none", "EOK", "ERROR", "ETIMEOUT", "EBUSY"}]
  /\ wire \in Seq([kind : Kinds, cmd : Nat])
  /\ todo \in Seq(Nat)
  /\ texts \in Nat
  /\ sent \in Nat
  /\ cmd \in [Callers -> Nat] /\ answer \in [Callers -> Nat]
  /\ clean \in BOOLEAN

\* The parser only ever writes to the response of the thread that holds the
\* lock and is inside at_obj_exec_cmd: never to one that its owner may delete
\* or has given to a later command.
RespOwnedByCaller ==
  resp # RT_NULL =>
    /\ lockQueue # <<>> /\ Head(lockQueue) = resp
    /\ pc[resp] \notin {"none", "idle", "lock", "unlock"}

\* However commands time out and answers come late, the semaphore never counts
\* more than one answer that nobody has waited for: one left over from earlier
\* commands and, during a command, the one of that command.
NoticeBounded ==
  /\ resp_notice <= 2
  /\ lockQueue = <<>> => resp_notice <= 1

\* What these rest on.  The lock: its queue holds, once each, the threads that
\* are inside at_obj_exec_cmd, and those past rt_mutex_take are its first.
Inside == {"lock", "clear1", "clear2", "send", "take", "waiting", "woken",
           "timedout", "exit", "unlock"}

LockDiscipline ==
  /\ \A i, j \in 1 .. Len(lockQueue) : lockQueue[i] = lockQueue[j] => i = j
  /\ \A i \in 1 .. Len(lockQueue) : pc[lockQueue[i]] \in Inside
  /\ \A i \in 2 .. Len(lockQueue) : pc[lockQueue[i]] = "lock"
  /\ \A c \in Callers : pc[c] \in Inside => \E i \in 1 .. Len(lockQueue) : lockQueue[i] = c

\* The semaphore: what it may count at each place of the thread that has the
\* lock.  Before that thread takes it, an old answer and, once the parser has
\* let go of the response, a new one; after that, one that came too late.
BeforeTake == {"clear1", "clear2", "send", "take"}
AfterTake == {"woken", "timedout", "exit", "unlock"}

NoticeAt(c) ==
  /\ pc[c] = "lock" => resp = RT_NULL /\ resp_notice <= 1
  /\ pc[c] \in BeforeTake =>
       /\ resp_notice <= IF resp = RT_NULL /\ line_num[c] # NoResp THEN 2 ELSE 1
       /\ resp = RT_NULL /\ line_num[c] # NoResp => resp_notice >= 1
  /\ pc[c] = "waiting" => resp_notice = 0 /\ resp = c
  /\ pc[c] \in AfterTake => resp_notice <= IF resp = RT_NULL THEN 1 ELSE 0
  /\ pc[c] = "unlock" => resp = RT_NULL

NoticeAccounted ==
  /\ resp # RT_NULL =>
       lockQueue # <<>> /\ lockQueue[1] = resp /\ line_num[resp] # NoResp
  /\ IF lockQueue = <<>> THEN resp = RT_NULL /\ resp_notice <= 1
     ELSE NoticeAt(lockQueue[1])
  /\ \A c \in Callers : pc[c] \in {"clear1", "clear2", "take", "waiting", "woken"}
       => line_num[c] # NoResp

\* The inductive invariant of the client.
AtInv == TypeOK /\ LockDiscipline /\ NoticeAccounted

\* What the caller reads with at_resp_get_line after a return is in the buffer:
\* no line is counted that is not stored, though the parser may store lines
\* while at_obj_exec_cmd clears the response.
CountedLinesStored ==
  \A c \in Callers : pc[c] = "idle" => line_counts[c] <= buf_len[c]

\* As long as no wait has timed out (and every command waits for its OK), a
\* command that ends with OK or ERROR was ended by its own answer.
AnswersMatchUntilTimeout ==
  clean => \A c \in Callers :
             result[c] \in {"EOK", "ERROR"} /\ pc[c] \in {"exit", "unlock", "idle"}
               => answer[c] = cmd[c]

\* A thread that calls at_obj_exec_cmd gets out of it, whatever the module does.
ExecReturns ==
  \A c \in Callers : pc[c] = "lock" ~> pc[c] = "idle"

\* at_obj_exec_cmd: "Send commands to AT server and wait response", "@return 0 :
\* success": a command that returns 0 has seen the end of its own answer.
SuccessIsOwnAnswer ==
  \A c \in Callers :
    pc[c] = "idle" /\ result[c] = "EOK" /\ line_num[c] = 0 => answer[c] = cmd[c]

===============================================================================
