------------------------------- MODULE WsLink -------------------------------
(***************************************************************************)
(* A WSS link from its dial to its end (hop_endpoint/wss_bearer.py):       *)
(* dial_by_name and dial with their failure paths, the reader that turns   *)
(* the byte stream into messages under a cap and a deadline, and the hook  *)
(* close() ends the link by.  The admission of accepted connections is     *)
(* WssServer's; behind it an acceptor runs the same reader.                *)
(*                                                                         *)
(* The peer's stream is the answer to the upgrade and then its frames, in  *)
(* units: one for the head of a frame, however long, and one for each unit *)
(* of payload.  A unit is <<frame, k>>, with k = 0 for the head.           *)
(*                                                                         *)
(* The peer may be this same code, whose pump sends with sendall on the    *)
(* socket its reader gives shorter and shorter timeouts: a send may stop   *)
(* inside a frame, and _safe_send goes on with the next one.               *)
(***************************************************************************)
EXTENDS Naturals, Sequences, FiniteSets, SequencesExt

CONSTANTS
  Scripts,           \* the sequences of frames a peer may send
  AnswerUnits,       \* units of the answer to the upgrade
  MaxHead,           \* MAX_HEADER_BYTES
  RecvUnits,         \* what one recv of the head takes at most (4096)
  MaxMessage,        \* MAX_MESSAGE_BYTES
  HandshakeTimeout,  \* HANDSHAKE_TIMEOUT_S, in ticks
  ReadTimeout        \* READ_TIMEOUT_S, in ticks

Opcodes == {"binary", "continuation", "text", "close", "ping"}
Controls == {"close", "ping"}

\* ok is FALSE for a frame with extension bits, and for a control frame that is
\* not final or too long.
Frames == [fin : BOOLEAN, op : Opcodes, len : 0..(MaxMessage + 1), ok : BOOLEAN]

ASSUME ScriptsAssumption == Scripts \subseteq Seq(Frames)
ASSUME HeadAssumption ==
  /\ {AnswerUnits, RecvUnits} \subseteq Nat \ {0}
  /\ {MaxHead, MaxMessage} \subseteq Nat
ASSUME TimeoutAssumption == {HandshakeTimeout, ReadTimeout} \subseteq Nat \ {0}

VARIABLES
  script,     \* the frames the peer sends
  torn,       \* the one of them it does not send whole, 0 for none
  stream,     \* the units that arrive
  accepted,   \* the answer's status is 101
  closePc,    \* close(): "open", "closed" (hooks run), "done"
  hooked,     \* conn.close is a hook of the endpoint
  dialPc,     \* where dial_by_name is
  sock,       \* "none", "open", "closed"
  readPc,     \* where _run_link is
  linkUp,     \* the endpoint knows the link
  got, used,  \* units received; units taken out of the buffer
  frame,      \* the head _read_frame_part has read
  parts,      \* how many frames the message under assembly has
  chunks,     \* their payloads
  left,       \* the deadline: ticks that remain
  age,        \* ticks since the reader began with this message (history)
  delivered   \* the messages given to the endpoint

peerVars == <<script, torn, stream, accepted>>
closeVars == <<closePc, hooked>>
bufVars == <<got, used>>
msgVars == <<frame, parts, chunks>>
timeVars == <<left, age>>
readVars == <<readPc, linkUp, msgVars, delivered>>
vars == <<peerVars, closeVars, dialPc, sock, readVars, bufVars, timeVars>>

-----------------------------------------------------------------------------
(* What a peer sends.                                                      *)

\* _encode_frame, and a sendall that stops after n units of the frame.
FrameUnits(i, n) == [k \in 1..n |-> <<i, k - 1>>]

\* The frames behind the answer; frame t, if any, only with its first n units.
Wire(s, t, n) ==
  [k \in 1..AnswerUnits |-> <<0, k>>] \o
  FlattenSeq([i \in 1..Len(s) |-> FrameUnits(i, IF i = t THEN n ELSE s[i].len + 1)])

NoFrame == [fin |-> TRUE, op |-> "binary", len |-> 0, ok |-> TRUE]

\* What a unit says when it is read as a head: payload may say anything.
ReadAsHead(u) == IF u[2] = 0 THEN {script[u[1]]} ELSE Frames

-----------------------------------------------------------------------------

DialPcs == {"idle", "resolve", "connect", "wrap", "hook", "ask", "head", "start",
            "dialed", "failed"}
ReadPcs == {"none", "register", "top", "head", "body", "finally", "close", "ended"}

TypeOK ==
  /\ script \in Scripts /\ torn \in 0..Len(script)
  /\ accepted \in BOOLEAN /\ hooked \in BOOLEAN /\ linkUp \in BOOLEAN
  /\ closePc \in {"open", "closed", "done"}
  /\ dialPc \in DialPcs /\ readPc \in ReadPcs
  /\ sock \in {"none", "open", "closed"}
  /\ got \in 0..Len(stream) /\ used \in 0..got
  /\ frame \in Frames /\ parts \in Nat
  /\ left \in 0..HandshakeTimeout \cup 0..ReadTimeout /\ age \in Nat

Init ==
  /\ script \in Scripts
  /\ \/ torn = 0 /\ stream = Wire(script, 0, 0)
     \/ /\ torn \in DOMAIN script
        /\ \E n \in 1..script[torn].len : stream = Wire(script, torn, n)
  /\ accepted \in BOOLEAN
  /\ closePc = "open" /\ hooked = FALSE
  /\ dialPc = "idle" /\ sock = "none"
  /\ readPc = "none" /\ linkUp = FALSE
  /\ got = 0 /\ used = 0
  /\ frame = NoFrame /\ parts = 0 /\ chunks = <<>>
  /\ left = HandshakeTimeout /\ age = 0
  /\ delivered = <<>>

EndpointOpen == closePc = "open"

-----------------------------------------------------------------------------
(* dial_by_name and dial.                                                  *)

DialGoes(from, to) == dialPc = from /\ dialPc' = to
DialOnly == UNCHANGED <<peerVars, closePc, readVars, timeVars>>

\* _ensure_open
DialBegins ==
  /\ DialGoes("idle", IF EndpointOpen THEN "resolve" ELSE "failed")
  /\ DialOnly /\ UNCHANGED <<hooked, sock, bufVars>>

\* resolve: the record is fetched and verified, or it raises.
Resolve ==
  /\ \E to \in {"connect", "failed"} : DialGoes("resolve", to)
  /\ DialOnly /\ UNCHANGED <<hooked, sock, bufVars>>

Connect ==
  /\ \/ DialGoes("connect", "wrap") /\ sock' = "open"
     \/ DialGoes("connect", "failed") /\ UNCHANGED sock
  /\ DialOnly /\ UNCHANGED <<hooked, bufVars>>

\* wrap_socket; when it raises nothing refers to the socket any more.
WrapTls ==
  /\ \/ DialGoes("wrap", "hook") /\ UNCHANGED sock
     \/ DialGoes("wrap", "failed") /\ sock' = "closed"
  /\ DialOnly /\ UNCHANGED <<hooked, bufVars>>

\* Mutant of HookDial: the hook is registered when the upgrade has succeeded,
\* of which there is no trace yet.
BugHookLater ==
  /\ DialGoes("hook", "ask")
  /\ DialOnly /\ UNCHANGED <<hooked, sock, bufVars>>

\* The hook of a closed endpoint fires at once.
HookDial ==
  /\ DialGoes("hook", "ask")
  /\ IF EndpointOpen THEN hooked' = TRUE /\ UNCHANGED sock
                     ELSE sock' = "closed" /\ UNCHANGED hooked
  /\ DialOnly /\ UNCHANGED bufVars

\* The request for the upgrade; it fails on a socket that a close has closed,
\* and may fail on any.
Ask ==
  /\ \/ DialGoes("ask", "head") /\ sock = "open" /\ left' = HandshakeTimeout
     \/ DialGoes("ask", "failed") /\ UNCHANGED left
  /\ UNCHANGED <<peerVars, closeVars, sock, readVars, bufVars, age>>

\* Mutant of HeadComplete: the end of the head is seen one unit too early.
BugHeadTooSoon == got + 1 >= AnswerUnits

HeadComplete == got >= AnswerUnits

\* A chunk of the answer, with whatever of the first frames came with it.
HeadChunk ==
  /\ dialPc = "head" /\ ~HeadComplete /\ sock = "open" /\ left > 0
  /\ \E n \in 1..RecvUnits :
       /\ got + n <= Len(stream) /\ got + n <= MaxHead + 1
       /\ got' = got + n
       /\ dialPc' = IF got + n > MaxHead THEN "failed" ELSE dialPc
  /\ DialOnly /\ UNCHANGED <<hooked, sock, used>>

\* End of stream, a reset, or a socket that close() has closed.
HeadFails ==
  /\ DialGoes("head", "failed")
  /\ ~HeadComplete
  /\ DialOnly /\ UNCHANGED <<hooked, sock, bufVars>>

HeadExpires ==
  /\ DialGoes("head", "failed")
  /\ ~HeadComplete
  /\ left = 0
  /\ DialOnly /\ UNCHANGED <<hooked, sock, bufVars>>

\* Mutant of Upgraded: what came with the answer is not given to the reader.
BugRestDropped ==
  /\ HeadComplete /\ DialGoes("head", IF accepted THEN "start" ELSE "failed")
  /\ used' = got
  /\ DialOnly /\ UNCHANGED <<hooked, sock, got>>

\* The status line decides; what came with the answer is the reader's buffer.
\* A refusal raises, with the connection open and its hook in place.
Upgraded ==
  /\ HeadComplete
  /\ DialGoes("head", IF accepted THEN "start" ELSE "failed")
  /\ used' = AnswerUnits
  /\ DialOnly /\ UNCHANGED <<hooked, sock, got>>

StartLink ==
  /\ DialGoes("start", "dialed")
  /\ readPc' = "register"
  /\ UNCHANGED <<peerVars, closeVars, sock, linkUp, msgVars, delivered, bufVars,
                 timeVars>>

-----------------------------------------------------------------------------
(* _run_link, _read_message, _read_frame_part and recv_exact.              *)

ReadGoes(from, to) == readPc = from /\ readPc' = to
ReadOnly == UNCHANGED <<peerVars, closeVars, dialPc>>

RegisterLink ==
  /\ ReadGoes("register", "top")
  /\ linkUp' = EndpointOpen
  /\ ReadOnly /\ UNCHANGED <<sock, msgVars, delivered, bufVars, timeVars>>

\* c.begin_read(): one deadline for the whole message.
BeginMessage ==
  /\ ReadGoes("top", "head")
  /\ left' = ReadTimeout /\ age' = 0
  /\ parts' = 0 /\ chunks' = <<>>
  /\ ReadOnly /\ UNCHANGED <<sock, linkUp, frame, delivered, bufVars>>

\* What recv_exact is asked for, and whether it has to wait for it.
Needed == IF readPc = "head" THEN 1 ELSE frame.len
Waits == readPc \in {"head", "body"} /\ got - used < Needed

RecvSome ==
  /\ Waits /\ sock = "open" /\ left > 0
  /\ \E n \in 1..(Needed - (got - used)) :
       got + n <= Len(stream) /\ got' = got + n
  /\ ReadOnly /\ UNCHANGED <<sock, readVars, used, timeVars>>

\* The peer hangs up, or the socket is closed under the reader.
RecvFails ==
  /\ Waits
  /\ readPc' = "finally"
  /\ ReadOnly
  /\ UNCHANGED <<sock, linkUp, msgVars, delivered, bufVars, timeVars>>

\* Mutant of ReadExpires: the timeout is taken for an idle link.
BugTimeoutIgnored ==
  /\ Waits /\ left = 0
  /\ readPc' = "top"
  /\ ReadOnly /\ UNCHANGED <<sock, linkUp, msgVars, delivered, bufVars, timeVars>>

ReadExpires ==
  /\ Waits /\ left = 0
  /\ readPc' = "finally"
  /\ ReadOnly /\ UNCHANGED <<sock, linkUp, msgVars, delivered, bufVars, timeVars>>

\* Time passes for a reader that waits, here or in dial.
Tick ==
  /\ Waits \/ (dialPc = "head" /\ ~HeadComplete)
  /\ left > 0
  /\ left' = left - 1 /\ age' = age + 1
  /\ UNCHANGED <<peerVars, closeVars, dialPc, sock, readVars, bufVars>>

\* The head of a frame, with what the message has left of the cap.
ReadHeadUpTo(cap) ==
  /\ readPc = "head" /\ got > used
  /\ used' = used + 1
  /\ \E h \in ReadAsHead(stream[used + 1]) :
       /\ frame' = h
       /\ readPc' = IF h.ok /\ h.len <= cap THEN "body" ELSE "finally"

\* Mutant of ReadHead: the cap is each frame's and not the message's.
BugCapPerFrame ==
  /\ ReadHeadUpTo(MaxMessage)
  /\ ReadOnly
  /\ UNCHANGED <<sock, linkUp, parts, chunks, delivered, got, timeVars>>

\* The length is tested against what the message has left of the cap, before
\* any of the body is waited for.
ReadHead ==
  /\ ReadHeadUpTo(MaxMessage - Len(chunks))
  /\ ReadOnly
  /\ UNCHANGED <<sock, linkUp, parts, chunks, delivered, got, timeVars>>

\* Where the reader goes with a frame it has read whole: a control frame counts
\* only between messages, and ends the link inside one.
Unexpected == IF parts = 0 THEN frame.op \in {"continuation", "text"}
                           ELSE frame.op # "continuation"
AfterFrame ==
  CASE Unexpected -> "finally"
    [] ~Unexpected /\ frame.op = "close" -> "finally"
    [] ~Unexpected /\ frame.op = "ping" -> "top"
    [] OTHER -> IF frame.fin THEN "top" ELSE "head"

MessageDone == ~Unexpected /\ frame.op \notin Controls /\ frame.fin

\* The body is there: the message goes on, is complete and delivered (a closed
\* endpoint does not take it), or the frame was not expected.
ReadBody ==
  /\ readPc = "body" /\ ~Waits
  /\ readPc' = AfterFrame
  /\ used' = used + frame.len
  /\ parts' = parts + 1
  /\ chunks' = IF Unexpected \/ frame.op \in Controls THEN chunks
               ELSE chunks \o SubSeq(stream, used + 1, used + frame.len)
  /\ delivered' = IF MessageDone /\ EndpointOpen THEN Append(delivered, chunks')
                                                 ELSE delivered
  /\ ReadOnly /\ UNCHANGED <<sock, linkUp, frame, got, timeVars>>

LinkDown ==
  /\ ReadGoes("finally", "close")
  /\ linkUp' = (linkUp /\ ~EndpointOpen)
  /\ ReadOnly /\ UNCHANGED <<sock, msgVars, delivered, bufVars, timeVars>>

CloseOwn ==
  /\ ReadGoes("close", "ended")
  /\ sock' = "closed"
  /\ ReadOnly /\ UNCHANGED <<linkUp, msgVars, delivered, bufVars, timeVars>>

-----------------------------------------------------------------------------
(* close() of the endpoint.                                                *)

EndpointCloses ==
  /\ EndpointOpen
  /\ closePc' = "closed"
  /\ UNCHANGED <<peerVars, hooked, dialPc, sock, readVars, bufVars, timeVars>>

CloseHook ==
  /\ closePc = "closed" /\ hooked
  /\ hooked' = FALSE
  /\ sock' = "closed"
  /\ UNCHANGED <<peerVars, closePc, dialPc, readVars, bufVars, timeVars>>

CloseDone ==
  /\ closePc = "closed" /\ ~hooked
  /\ closePc' = "done"
  /\ UNCHANGED <<peerVars, hooked, dialPc, sock, readVars, bufVars, timeVars>>

-----------------------------------------------------------------------------

DialStep ==
  \/ Resolve \/ Connect \/ WrapTls \/ HookDial \/ Ask
  \/ HeadExpires \/ Upgraded \/ StartLink

ReadStep ==
  \/ RegisterLink \/ BeginMessage \/ ReadHead \/ ReadBody \/ ReadExpires
  \/ LinkDown \/ CloseOwn

DialOver == dialPc \in {"dialed", "failed"}

Finished ==
  /\ closePc = "done" /\ DialOver /\ readPc \in {"none", "ended"}
  /\ UNCHANGED vars

Next ==
  \/ DialBegins \/ DialStep \/ HeadChunk \/ HeadFails
  \/ ReadStep \/ RecvSome \/ RecvFails \/ Tick
  \/ EndpointCloses \/ CloseHook \/ CloseDone
  \/ Finished

\* Threads are scheduled, time passes, and what has a timeout returns or raises.
\* No peer has to send or to hang up, and nobody has to dial or to close.
Fairness ==
  WF_vars(DialStep) /\ WF_vars(ReadStep) /\ WF_vars(Tick)
  /\ WF_vars(CloseHook \/ CloseDone)

Spec == Init /\ [][Next]_vars /\ Fairness

-----------------------------------------------------------------------------
(* Safety.                                                                 *)

\* The messages of a script as RFC 6455 has them: a binary frame and its
\* continuations up to the final one, whatever control frames come between.
Message(i, j) ==
  /\ i <= j /\ script[i].op = "binary" /\ script[j].fin
  /\ script[j].op \notin Controls
  /\ \A k \in i..(j - 1) : script[k].op \in Controls \/ ~script[k].fin
  /\ \A k \in (i + 1)..j : script[k].op \in Controls \cup {"continuation"}

\* How many messages are over with the j-th frame.
MessagesUpTo(j) == Cardinality({k \in 1..j : \E i \in 1..k : Message(i, k)})

FramePayload(k) ==
  IF script[k].op \in Controls THEN <<>> ELSE [u \in 1..script[k].len |-> <<k, u>>]

Payload(i, j) == FlattenSeq([k \in 1..(j - i + 1) |-> FramePayload(i + k - 1)])

\* However the stream is cut, and whatever of it came with the answer to the
\* upgrade, the endpoint is given the peer's messages, in order, whole and
\* unmixed.  Only a frame that was not sent whole ends this: behind the messages
\* that were over before it the stream is out of step, and nothing notices.
DeliveredIntact ==
  \A n \in DOMAIN delivered :
    \/ \E i, j \in DOMAIN script :
         Message(i, j) /\ MessagesUpTo(j) = n /\ delivered[n] = Payload(i, j)
    \/ torn # 0 /\ n > MessagesUpTo(torn - 1)

\* A message costs a link no more than the cap and no more time than one read
\* timeout, however many frames it comes in.
AssemblyBounded ==
  readPc \in {"head", "body"} =>
    /\ age <= ReadTimeout
    /\ Len(chunks) + (IF readPc = "body" THEN frame.len ELSE 0) <= MaxMessage

\* Once close() is over no dial holds a connection open behind its hook's back:
\* not one whose upgrade was refused, nor one that was hooked while close() ran.
ClosedHoldsNoSocket ==
  closePc = "done" /\ dialPc \notin {"idle", "resolve", "connect", "wrap", "hook"} =>
    sock # "open"

-----------------------------------------------------------------------------
(* Liveness.                                                               *)

\* No peer keeps a thread by saying nothing: a dial comes to its end, and so
\* does a link whose peer stops sending messages.
NobodyWaitsForEver ==
  /\ (dialPc \notin {"idle", "dialed", "failed"}) ~> DialOver
  /\ (readPc # "none") ~> (readPc = "ended")
=============================================================================
