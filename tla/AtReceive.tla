------------------------------ MODULE AtReceive -------------------------------
(***************************************************************************)
(* How the AT parser finds lines and packets in the bytes of the WiFi       *)
(* module: at_recv_readline collects a line until "\r\n" or until           *)
(* get_urc_obj recognises "+IPD,<socket>,<bfsz>:" at its start, and         *)
(* urc_recv_func then takes bfsz bytes of payload with at_client_obj_recv,  *)
(* each of which may be late.  What a timeout leaves behind is read as text *)
(* of a line.                                                               *)
(*                                                                         *)
(* An element of the stream is a header, a newline, a byte of text, or the  *)
(* i-th byte of the payload of packet k, which may look like a newline.     *)
(* The order of the bytes is what ByteStream promises; that a byte may be   *)
(* late, or there and not noticed, is a timeout that may come at any time.  *)
(***************************************************************************)
EXTENDS Integers, Sequences, FiniteSets

CONSTANTS
  MaxPackets,   \* bound: packets
  MaxTexts,     \* bound: lines of text between them
  Sizes,        \* the sizes of a payload
  MaxWire,      \* bound: elements sent and not read
  recv_bufsz,   \* elements that fit in recv_line_buf
  sizeof_temp   \* elements that fit in temp[] of urc_recv_func

ASSUME AtReceiveAssumption ==
  /\ MaxPackets \in Nat /\ MaxTexts \in Nat /\ Sizes \subseteq Nat /\ MaxWire \in Nat
  /\ recv_bufsz \in Nat \ {0} /\ sizeof_temp \in Nat \ {0}

VARIABLES
  wire,         \* elements sent and not read yet
  sent,         \* size and separation of each packet, in the order sent
  texts,        \* lines of text sent
  silent        \* the module was reset in the middle of a packet

VARIABLES
  pc,           \* where the parser is
  line,         \* recv_line_buf
  is_full,      \* a byte of the line did not fit
  packet,       \* the packet announced by the last header
  bfsz,         \* its size
  recv_buf,     \* the payload so far, of recv_buf or of temp[]
  temp_size,    \* temp_size of the loop that throws the payload away
  resp          \* client->resp is set: lines go to a response

(* History.                                                                 *)
VARIABLES
  delivered,    \* packets given to recvCb
  broken,       \* packets of which a receive timed out
  discarded,    \* packets that found no memory
  polluted      \* a line with payload in it went to a response

streamVars == <<wire, sent, texts, silent>>
parserVars == <<pc, line, is_full, packet, bfsz, recv_buf, temp_size, resp>>
histVars == <<delivered, broken, discarded, polluted>>
vars == <<streamVars, parserVars, histVars>>

Header(k) == [kind |-> "header", packet |-> k, pos |-> 0]
Newline == [kind |-> "newline", packet |-> 0, pos |-> 0]
Text == [kind |-> "text", packet |-> 0, pos |-> 0]
\* Byte i of packet k; kind "newline" for one that ends a line.
Payload(k, i, kind) == [kind |-> kind, packet |-> k, pos |-> i]

Init ==
  /\ wire = <<>> /\ sent = <<>> /\ texts = 0 /\ silent = FALSE
  /\ pc = "line" /\ line = <<>> /\ is_full = FALSE
  /\ packet = 0 /\ bfsz = 0 /\ recv_buf = <<>> /\ temp_size = 0
  /\ resp = FALSE
  /\ delivered = {} /\ broken = {} /\ discarded = {} /\ polluted = FALSE

----------------------------------------------------------------------------
(* The WiFi module: it sends lines and packets, with or without a newline   *)
(* before the header.  A reset may cut a packet short; it takes the module  *)
(* longer to start again than the parser waits for a byte.                  *)

SendText ==
  /\ ~silent
  /\ texts < MaxTexts
  /\ Len(wire) + 2 <= MaxWire
  /\ texts' = texts + 1
  /\ wire' = wire \o <<Text, Newline>>
  /\ UNCHANGED <<sent, silent, parserVars, histVars>>

SendPacket ==
  /\ ~silent
  /\ Len(sent) < MaxPackets
  /\ \E n \in Sizes, separated \in BOOLEAN :
     \E newlineAt \in 0 .. n, cut \in {n, n - 1} \cap Nat :
       /\ Len(wire) + cut + 2 <= MaxWire
       /\ silent' = (cut < n)
       /\ LET k == Len(sent) + 1
              body == [i \in 1 .. cut |->
                        Payload(k, i, IF i = newlineAt THEN "newline" ELSE "text")]
          IN  /\ sent' = Append(sent, [size |-> n, separated |-> separated])
              /\ wire' = wire \o (IF separated THEN <<Newline>> ELSE <<>>)
                              \o <<Header(k)>> \o body
  /\ UNCHANGED <<texts, parserVars, histVars>>

Restart ==
  /\ silent
  /\ wire = <<>> /\ pc = "line"
  /\ silent' = FALSE
  /\ UNCHANGED <<wire, sent, texts, parserVars, histVars>>

----------------------------------------------------------------------------
(* at_recv_readline and client_parser                                       *)

\* at_client_getchar found a byte.
GetChar == wire # <<>> /\ wire' = Tail(wire)

\* The line with the byte that has just come.
NewLine(c) == IF Len(line) < recv_bufsz THEN Append(line, c) ELSE line

\* get_urc_obj: the buffer begins with "+IPD" and ends with ":".
get_urc_obj(buf) == Len(buf) = 1 /\ buf[1].kind = "header"

HasPayload(buf) == \E i \in DOMAIN buf : buf[i].packet # 0

\* A byte that ends neither a line nor a header.
LineByte ==
  /\ pc = "line"
  /\ GetChar
  /\ Head(wire).kind # "newline" /\ ~get_urc_obj(NewLine(Head(wire)))
  /\ line' = NewLine(Head(wire))
  /\ is_full' = (is_full \/ Len(line) = recv_bufsz)
  /\ UNCHANGED <<sent, texts, silent, pc, packet, bfsz, recv_buf, temp_size, resp, histVars>>

\* The end of a line: it goes to the response, if there is one; a line that did
\* not fit is dropped.  The last line of a response clears client->resp.
LineEnd ==
  /\ pc = "line"
  /\ GetChar
  /\ Head(wire).kind = "newline"
  /\ line' = <<>> /\ is_full' = FALSE
  /\ LET lost == is_full \/ Len(line) = recv_bufsz
     IN  /\ resp' \in IF resp /\ ~lost THEN BOOLEAN ELSE {resp}
         /\ polluted' = (polluted \/ (resp /\ ~lost /\ HasPayload(Append(line, Head(wire)))))
  /\ UNCHANGED <<sent, texts, silent, pc, packet, bfsz, recv_buf, temp_size, delivered,
                 broken, discarded>>

\* Some thread sends a command and sets client->resp, or gives up waiting.
RespChange ==
  /\ resp' = ~resp
  /\ UNCHANGED <<streamVars, pc, line, is_full, packet, bfsz, recv_buf, temp_size,
                 histVars>>

----------------------------------------------------------------------------
(* urc_recv_func                                                            *)

\* urc_recv_func returns: its variables are gone.
Return ==
  /\ pc' = "line"
  /\ packet' = 0 /\ bfsz' = 0 /\ recv_buf' = <<>> /\ temp_size' = 0

\* The header gives the size; rt_calloc may fail.
UrcHeader ==
  /\ pc = "line"
  /\ GetChar
  /\ get_urc_obj(NewLine(Head(wire)))
  /\ line' = <<>> /\ is_full' = FALSE
  /\ LET k == Head(wire).packet
     IN  \/ /\ sent[k].size = 0
            /\ UNCHANGED <<pc, packet, bfsz, recv_buf, temp_size, discarded>>
         \/ /\ sent[k].size > 0
            /\ packet' = k /\ bfsz' = sent[k].size
            /\ pc' \in {"recv", "drain"}
            /\ discarded' = IF pc' = "drain" THEN discarded \cup {k} ELSE discarded
            /\ UNCHANGED <<recv_buf, temp_size>>
  /\ UNCHANGED <<sent, texts, silent, resp, delivered, broken, polluted>>

\* at_client_obj_recv: one more byte.
RecvByte ==
  /\ pc = "recv"
  /\ Len(recv_buf) < bfsz
  /\ GetChar
  /\ recv_buf' = Append(recv_buf, Head(wire))
  /\ UNCHANGED <<sent, texts, silent, pc, line, is_full, packet, bfsz, temp_size, resp,
                 histVars>>

\* Mutant: the result of at_client_obj_recv is not compared with bfsz.
RecvTimeoutUnchecked ==
  /\ pc = "recv"
  /\ Len(recv_buf) < bfsz
  /\ pc' = "recvCb"
  /\ broken' = broken \cup {packet}
  /\ UNCHANGED <<streamVars, line, is_full, packet, bfsz, recv_buf, temp_size, resp,
                 delivered, discarded, polluted>>

\* Mutant: the payload is waited for like a line, without a timeout.
RecvNoTimeout == FALSE

\* A byte did not come in time: at_client_obj_recv returns 0.
RecvTimeout ==
  /\ pc = "recv"
  /\ Len(recv_buf) < bfsz
  /\ Return
  /\ broken' = broken \cup {packet}
  /\ UNCHANGED <<streamVars, line, is_full, resp, delivered, discarded, polluted>>

RecvDone ==
  /\ pc = "recv"
  /\ Len(recv_buf) = bfsz
  /\ pc' = "recvCb"
  /\ UNCHANGED <<streamVars, line, is_full, packet, bfsz, recv_buf, temp_size, resp,
                 histVars>>

recvCb ==
  /\ pc = "recvCb"
  /\ delivered' = delivered \cup {packet}
  /\ Return
  /\ UNCHANGED <<streamVars, line, is_full, resp, broken, discarded, polluted>>

\* The size of the piece the loop of the drain reads next.
Piece == IF bfsz - temp_size > sizeof_temp THEN sizeof_temp ELSE bfsz - temp_size

DrainByte ==
  /\ pc = "drain"
  /\ temp_size < bfsz /\ Len(recv_buf) < Piece
  /\ GetChar
  /\ recv_buf' = Append(recv_buf, Head(wire))
  /\ UNCHANGED <<sent, texts, silent, pc, line, is_full, packet, bfsz, temp_size, resp,
                 histVars>>

\* Mutant: the payload that finds no memory is left in the stream.
DrainNothing ==
  /\ pc = "drain"
  /\ temp_size < bfsz
  /\ temp_size' = bfsz
  /\ UNCHANGED <<streamVars, pc, line, is_full, packet, bfsz, recv_buf, resp, histVars>>

\* A piece is complete, or has timed out, which nobody looks at.
DrainPiece ==
  /\ pc = "drain"
  /\ temp_size < bfsz
  /\ broken' = IF Len(recv_buf) < Piece THEN broken \cup {packet} ELSE broken
  /\ temp_size' = temp_size + sizeof_temp
  /\ recv_buf' = <<>>
  /\ UNCHANGED <<streamVars, pc, line, is_full, packet, bfsz, resp, delivered,
                 discarded, polluted>>

DrainDone ==
  /\ pc = "drain"
  /\ temp_size >= bfsz
  /\ Return
  /\ UNCHANGED <<streamVars, line, is_full, resp, histVars>>

----------------------------------------------------------------------------

Urc == RecvByte \/ RecvTimeout \/ RecvDone \/ recvCb
         \/ DrainByte \/ DrainPiece \/ DrainDone

Parser == LineByte \/ LineEnd \/ UrcHeader \/ Urc

Next == SendText \/ SendPacket \/ Restart \/ RespChange \/ Parser

Spec == Init /\ [][Next]_vars

\* The parser is the most urgent thread, and a wait in urc_recv_func has a
\* timeout (of bfsz or 10 milliseconds).
FairSpec == Spec /\ WF_vars(Parser) /\ WF_vars(RecvTimeout) /\ WF_vars(DrainPiece)

----------------------------------------------------------------------------
(* Properties                                                               *)

\* What recvCb gets is the payload of the packet the header announced, all of
\* it and nothing else, whatever timeouts have left in the stream before.
DeliveredIntact ==
  pc = "recvCb" =>
    /\ Len(recv_buf) = sent[packet].size
    /\ \A i \in DOMAIN recv_buf : recv_buf[i].packet = packet /\ recv_buf[i].pos = i

\* The packets of which nothing is left to read and that were not delivered.
InWire(k) == \E i \in DOMAIN wire : wire[i].packet = k

Lost ==
  {k \in DOMAIN sent : /\ sent[k].size > 0
                       /\ ~InWire(k) /\ k \notin delivered
                       /\ (pc = "line" \/ packet # k)}

\* A packet gets lost only because one of its own bytes was late, because there
\* was no memory for it, or because bytes of an earlier packet were late and no
\* newline was sent before a header since.
LossHasCause ==
  \A k \in Lost :
    \/ k \in broken \cup discarded
    \/ \E j \in broken : j < k /\ \A i \in j + 1 .. k : ~sent[i].separated

\* Bytes of a payload are stored in the response of a command only after bytes
\* were late.
ResponseClean == polluted => broken # {}

\* The parser does not stay in urc_recv_func: it goes back to reading lines.
UrcReturns == pc # "line" ~> pc = "line"

===============================================================================
