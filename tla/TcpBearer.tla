----------------------------- MODULE TcpBearer -----------------------------
(***************************************************************************)
(* The TCP bearer (hop_endpoint/tcp_bearer.py): listen() with its accept   *)
(* loop and its two teardown hooks, dial(), and the receive thread of each *)
(* link, which cuts the byte stream into frames again.                     *)
(*                                                                         *)
(* A stream is given by the lengths of the frames its sender framed; a     *)
(* byte is its offset in the stream, so that a buffer is an interval of    *)
(* offsets and a frame a slice <<offset, length>>.  A chunk ends anywhere. *)
(*                                                                         *)
(* Closing a socket in Python does not interrupt a recv or accept that     *)
(* another thread is waiting in; it makes the next one fail.               *)
(***************************************************************************)
EXTENDS Naturals, Sequences, FiniteSets

CONSTANTS
  Accepted,     \* connections peers may open to the listener
  Dialed,       \* connections dial() may open
  NoConn,       \* no connection
  HeaderBytes,  \* length of the prefix of a frame (4)
  MaxFrame,     \* MAX_FRAME_BYTES
  Stream        \* Stream[c]: lengths of the frames c's peer sends, in order

Conns == Accepted \cup Dialed

ASSUME DisjointAssumption == Accepted \cap Dialed = {}
ASSUME NoConnAssumption == NoConn \notin Conns
ASSUME BytesAssumption == HeaderBytes \in Nat \ {0} /\ MaxFrame \in Nat
ASSUME StreamAssumption == Stream \in [Conns -> Seq(Nat)]

VARIABLES
  closePc,      \* close(): "open", "closed" (calls are refused), "unlistened"
                \* (the first hook ran), "copied" (close_all has its list), "done"
  closing,      \* close_all's flag
  hooked,       \* dialled connections whose close is a hook of the endpoint
  toClose,      \* the sockets close_all has copied and not closed
  listening,    \* the listening socket is not closed
  acceptPc,     \* where the accept loop is
  acceptOn,     \* the connection it is setting up
  sockets,      \* the accepted connections close_all knows
  sockOpen,     \* connections whose socket this side has not closed
  setup,        \* setup[c]: "new", "connected", "tracked" (a hook or close_all
                \* knows it), "registered" (its link is), "running", "refused"
  recvPc,       \* recvPc[c]: where the receive thread is, "none" before it runs
  links,        \* the links the endpoint sends on (endpoint._links)
  got,          \* got[c]: bytes received
  parsed,       \* parsed[c]: bytes cut off the buffer's front
  delivered     \* delivered[c]: the frames given to the endpoint

vars == <<closePc, closing, hooked, toClose, listening, acceptPc, acceptOn,
          sockets, sockOpen, setup, recvPc, links, got, parsed, delivered>>

closeVars == <<closePc, closing, hooked, toClose, listening>>
acceptVars == <<acceptPc, acceptOn>>
streamVars == <<got, parsed, delivered>>

-----------------------------------------------------------------------------
(* Streams.                                                                *)

\* FrameEnd(c)[i] is the offset behind the i-th frame of c's stream.
FrameEnd(c) ==
  LET end[i \in 0..Len(Stream[c])] ==
        IF i = 0 THEN 0 ELSE end[i - 1] + HeaderBytes + Stream[c][i]
  IN  end

StreamBytes(c) == FrameEnd(c)[Len(Stream[c])]

\* What the four bytes at an offset say: the length of a frame that starts
\* there, and any number where none does.
LengthAt(c, offset) ==
  LET frames == {i \in DOMAIN Stream[c] : FrameEnd(c)[i - 1] = offset}
  IN  IF frames = {} THEN 0..(MaxFrame + 1) ELSE {Stream[c][i] : i \in frames}

-----------------------------------------------------------------------------

TypeOK ==
  /\ closePc \in {"open", "closed", "unlistened", "copied", "done"}
  /\ closing \in BOOLEAN
  /\ hooked \subseteq Dialed
  /\ toClose \subseteq Accepted
  /\ listening \in BOOLEAN
  /\ acceptPc \in {"top", "waiting", "test", "register", "start", "exited"}
  /\ acceptOn \in Accepted \cup {NoConn}
  /\ sockets \subseteq Accepted
  /\ sockOpen \subseteq Conns
  /\ setup \in [Conns -> {"new", "connected", "tracked", "registered", "running",
                          "refused"}]
  /\ recvPc \in [Conns -> {"none", "top", "waiting", "parse", "finally", "close",
                           "discard", "ended"}]
  /\ links \subseteq Conns
  /\ \A c \in Conns : got[c] \in 0..StreamBytes(c) /\ parsed[c] \in 0..got[c]
  /\ delivered \in [Conns -> Seq(Nat \X Nat)]

\* listen() has returned.
Init ==
  /\ closePc = "open"
  /\ closing = FALSE
  /\ hooked = {}
  /\ toClose = {}
  /\ listening = TRUE
  /\ acceptPc = "top"
  /\ acceptOn = NoConn
  /\ sockets = {}
  /\ sockOpen = {}
  /\ setup = [c \in Conns |-> "new"]
  /\ recvPc = [c \in Conns |-> "none"]
  /\ links = {}
  /\ got = [c \in Conns |-> 0]
  /\ parsed = [c \in Conns |-> 0]
  /\ delivered = [c \in Conns |-> <<>>]

\* The endpoint takes calls of bearers; _try_with_node does nothing otherwise.
EndpointOpen == closePc = "open"

SetUp(c, from, to) == setup[c] = from /\ setup' = [setup EXCEPT ![c] = to]

\* endpoint._register_link
RegisterLink(c) ==
  /\ SetUp(c, "tracked", "registered")
  /\ links' = IF EndpointOpen THEN links \cup {c} ELSE links

\* threading.Thread(target=receive).start()
StartReceiver(c) ==
  /\ SetUp(c, "registered", "running")
  /\ recvPc' = [recvPc EXCEPT ![c] = "top"]

-----------------------------------------------------------------------------
(* accept_loop.                                                            *)

AcceptGoes(from, to) == acceptPc = from /\ acceptPc' = to

\* accept() begins to wait.
AcceptWaits ==
  /\ AcceptGoes("top", "waiting")
  /\ listening
  /\ UNCHANGED <<closeVars, acceptOn, sockets, sockOpen, setup, recvPc, links,
                 streamVars>>

\* The listener is closed; the loop ends.
AcceptRefused ==
  /\ AcceptGoes("top", "exited")
  /\ ~listening
  /\ UNCHANGED <<closeVars, acceptOn, sockets, sockOpen, setup, recvPc, links,
                 streamVars>>

\* Any other OSError (no descriptor is left, the connection was aborted) ends
\* the loop too.
AcceptFails ==
  /\ AcceptGoes("waiting", "exited")
  /\ UNCHANGED <<closeVars, acceptOn, sockets, sockOpen, setup, recvPc, links,
                 streamVars>>

AcceptConn(c) ==
  /\ AcceptGoes("waiting", "test")
  /\ SetUp(c, "new", "connected")
  /\ acceptOn' = c
  /\ sockOpen' = sockOpen \cup {c}
  /\ UNCHANGED <<closeVars, sockets, recvPc, links, streamVars>>

\* Mutant of AcceptTracks: the flag is not tested.
BugNoClosingTest ==
  /\ AcceptGoes("test", "register") /\ SetUp(acceptOn, "connected", "tracked")
  /\ sockets' = sockets \cup {acceptOn}
  /\ UNCHANGED <<closeVars, acceptOn, sockOpen, recvPc, links, streamVars>>

\* The block under sockets_lock: close_all either finds the socket, or has set
\* the flag.
AcceptTracks ==
  /\ AcceptGoes("test", "register")
  /\ ~closing
  /\ SetUp(acceptOn, "connected", "tracked")
  /\ sockets' = sockets \cup {acceptOn}
  /\ UNCHANGED <<closeVars, acceptOn, sockOpen, recvPc, links, streamVars>>

AcceptTurnsAway ==
  /\ AcceptGoes("test", "top")
  /\ closing
  /\ SetUp(acceptOn, "connected", "refused")
  /\ sockOpen' = sockOpen \ {acceptOn}
  /\ acceptOn' = NoConn
  /\ UNCHANGED <<closeVars, sockets, recvPc, links, streamVars>>

AcceptRegisters ==
  /\ AcceptGoes("register", "start")
  /\ RegisterLink(acceptOn)
  /\ UNCHANGED <<closeVars, acceptOn, sockets, sockOpen, recvPc, streamVars>>

AcceptStarts ==
  /\ AcceptGoes("start", "top")
  /\ StartReceiver(acceptOn)
  /\ acceptOn' = NoConn
  /\ UNCHANGED <<closeVars, sockets, sockOpen, links, streamVars>>

-----------------------------------------------------------------------------
(* dial.                                                                   *)

DialConnects(c) ==
  /\ c \in Dialed
  /\ SetUp(c, "new", "connected")
  /\ sockOpen' = sockOpen \cup {c}
  /\ UNCHANGED <<closeVars, acceptVars, sockets, recvPc, links, streamVars>>

\* Mutant of DialHooks: the hook joins the list of a closed endpoint.
BugHookUnchecked(c) ==
  /\ c \in Dialed /\ SetUp(c, "connected", "tracked")
  /\ hooked' = hooked \cup {c}
  /\ UNCHANGED <<closePc, closing, toClose, listening, acceptVars, sockets,
                 sockOpen, recvPc, links, streamVars>>

\* The hook of a closed endpoint fires at once.
DialHooks(c) ==
  /\ c \in Dialed
  /\ SetUp(c, "connected", "tracked")
  /\ IF EndpointOpen
       THEN hooked' = hooked \cup {c} /\ UNCHANGED sockOpen
       ELSE sockOpen' = sockOpen \ {c} /\ UNCHANGED hooked
  /\ UNCHANGED <<closePc, closing, toClose, listening, acceptVars, sockets,
                 recvPc, links, streamVars>>

DialRegisters(c) ==
  /\ c \in Dialed
  /\ RegisterLink(c)
  /\ UNCHANGED <<closeVars, acceptVars, sockets, sockOpen, recvPc, streamVars>>

DialStarts(c) ==
  /\ c \in Dialed
  /\ StartReceiver(c)
  /\ UNCHANGED <<closeVars, acceptVars, sockets, sockOpen, links, streamVars>>

-----------------------------------------------------------------------------
(* The receive thread: _recv_loop, and the discard behind it.              *)

RecvGoes(c, from, to) ==
  recvPc[c] = from /\ recvPc' = [recvPc EXCEPT ![c] = to]

\* What a step of the receive thread on its own data leaves alone.
RecvOnly == UNCHANGED <<closeVars, acceptVars, sockets, sockOpen, setup, links>>

\* recv begins to wait, or finds the socket closed.
RecvWaits(c) ==
  /\ RecvGoes(c, "top", "waiting")
  /\ c \in sockOpen
  /\ RecvOnly /\ UNCHANGED streamVars

RecvRefused(c) ==
  /\ RecvGoes(c, "top", "finally")
  /\ c \notin sockOpen
  /\ RecvOnly /\ UNCHANGED streamVars

\* A chunk: some of the bytes that follow, as many as the network has.
RecvChunk(c) ==
  /\ RecvGoes(c, "waiting", "parse")
  /\ \E upTo \in (got[c] + 1)..StreamBytes(c) : got' = [got EXCEPT ![c] = upTo]
  /\ RecvOnly /\ UNCHANGED <<parsed, delivered>>

\* An empty chunk, or an error: the peer closed or reset the connection.
RecvEof(c) ==
  /\ RecvGoes(c, "waiting", "finally")
  /\ RecvOnly /\ UNCHANGED streamVars

\* The buffer begins with a whole prefix.
HasHeader(c) == got[c] - parsed[c] >= HeaderBytes

\* Mutants of DeliverFrame: the frame's bytes need not all be there, and the
\* prefix stays in the buffer.
BugShortFrame(c) ==
  /\ recvPc[c] = "parse" /\ HasHeader(c)
  /\ \E n \in LengthAt(c, parsed[c]) :
       /\ n <= MaxFrame /\ got[c] - parsed[c] >= n
       /\ parsed' = [parsed EXCEPT ![c] = @ + HeaderBytes + n]
  /\ RecvOnly /\ UNCHANGED <<recvPc, got, delivered>>
BugPrefixStays(c) ==
  /\ recvPc[c] = "parse" /\ HasHeader(c)
  /\ \E n \in LengthAt(c, parsed[c]) :
       /\ n <= MaxFrame /\ got[c] - parsed[c] >= HeaderBytes + n
       /\ parsed' = [parsed EXCEPT ![c] = @ + n]
       /\ delivered' = [delivered EXCEPT ![c] =
                          Append(@, <<parsed[c] + HeaderBytes, n>>)]
  /\ RecvOnly /\ UNCHANGED <<recvPc, got>>

\* A whole frame is cut off and delivered; a closed endpoint does not take it.
DeliverFrame(c) ==
  /\ recvPc[c] = "parse"
  /\ HasHeader(c)
  /\ \E n \in LengthAt(c, parsed[c]) :
       /\ n <= MaxFrame
       /\ got[c] - parsed[c] >= HeaderBytes + n
       /\ parsed' = [parsed EXCEPT ![c] = @ + HeaderBytes + n]
       /\ delivered' = IF EndpointOpen
                       THEN [delivered EXCEPT ![c] =
                               Append(@, <<parsed[c] + HeaderBytes, n>>)]
                       ELSE delivered
  /\ RecvOnly /\ UNCHANGED <<recvPc, got>>

NeedMore(c) ==
  /\ RecvGoes(c, "parse", "top")
  /\ \/ ~HasHeader(c)
     \/ \E n \in LengthAt(c, parsed[c]) :
          n <= MaxFrame /\ got[c] - parsed[c] < HeaderBytes + n
  /\ RecvOnly /\ UNCHANGED streamVars

\* Mutant of TooLong: it returns before the try.
BugBareReturn(c) ==
  /\ RecvGoes(c, "parse", "ended") /\ HasHeader(c)
  /\ \E n \in LengthAt(c, parsed[c]) : n > MaxFrame
  /\ RecvOnly /\ UNCHANGED streamVars

\* The prefix alone ends the link, before any byte of the frame is waited for.
TooLong(c) ==
  /\ RecvGoes(c, "parse", "finally")
  /\ HasHeader(c)
  /\ \E n \in LengthAt(c, parsed[c]) : n > MaxFrame
  /\ RecvOnly /\ UNCHANGED streamVars

\* endpoint._link_down
LinkDown(c) ==
  /\ RecvGoes(c, "finally", "close")
  /\ links' = IF EndpointOpen THEN links \ {c} ELSE links
  /\ UNCHANGED <<closeVars, acceptVars, sockets, sockOpen, setup, streamVars>>

CloseOwn(c) ==
  /\ RecvGoes(c, "close", IF c \in Accepted THEN "discard" ELSE "ended")
  /\ sockOpen' = sockOpen \ {c}
  /\ UNCHANGED <<closeVars, acceptVars, sockets, setup, links, streamVars>>

\* The accepted socket leaves the set close_all would close.
Discard(c) ==
  /\ RecvGoes(c, "discard", "ended")
  /\ sockets' = sockets \ {c}
  /\ UNCHANGED <<closeVars, acceptVars, sockOpen, setup, links, streamVars>>

-----------------------------------------------------------------------------
(* close() of the endpoint, and the hooks of this bearer.                  *)

CloseGoes(from, to) == closePc = from /\ closePc' = to

CloseOnly == UNCHANGED <<acceptVars, sockets, setup, recvPc, links, streamVars>>

EndpointCloses ==
  /\ CloseGoes("open", "closed")
  /\ CloseOnly /\ UNCHANGED <<closing, hooked, toClose, listening, sockOpen>>

\* The first hook of listen(): lsock.close.
CloseListener ==
  /\ CloseGoes("closed", "unlistened")
  /\ listening' = FALSE
  /\ CloseOnly /\ UNCHANGED <<closing, hooked, toClose, sockOpen>>

\* close_all up to its loop; the listener is closed already.
CloseAllCopies ==
  /\ CloseGoes("unlistened", "copied")
  /\ closing' = TRUE
  /\ toClose' = sockets
  /\ CloseOnly /\ UNCHANGED <<hooked, listening, sockOpen>>

CloseAllCloses(c) ==
  /\ c \in toClose
  /\ toClose' = toClose \ {c}
  /\ sockOpen' = sockOpen \ {c}
  /\ CloseOnly /\ UNCHANGED <<closePc, closing, hooked, listening>>

\* The hook of a dial; it may have been registered before listen()'s.
CloseDialed(c) ==
  /\ ~EndpointOpen
  /\ c \in hooked
  /\ hooked' = hooked \ {c}
  /\ sockOpen' = sockOpen \ {c}
  /\ CloseOnly /\ UNCHANGED <<closePc, closing, toClose, listening>>

CloseDone ==
  /\ CloseGoes("copied", "done")
  /\ toClose = {}
  /\ hooked = {}
  /\ CloseOnly /\ UNCHANGED <<closing, hooked, toClose, listening, sockOpen>>

-----------------------------------------------------------------------------

AcceptStep ==
  \/ AcceptWaits \/ AcceptRefused \/ AcceptTracks \/ AcceptTurnsAway
  \/ AcceptRegisters \/ AcceptStarts

DialStep(c) == DialHooks(c) \/ DialRegisters(c) \/ DialStarts(c)

RecvStep(c) ==
  \/ RecvWaits(c) \/ RecvRefused(c)
  \/ DeliverFrame(c) \/ NeedMore(c) \/ TooLong(c)
  \/ LinkDown(c) \/ CloseOwn(c) \/ Discard(c)

CloseStep ==
  \/ CloseListener \/ CloseAllCopies
  \/ \E c \in Accepted : CloseAllCloses(c)
  \/ \E c \in Dialed : CloseDialed(c)
  \/ CloseDone

\* The endpoint is closed, and what still waits, waits for a peer.
Finished ==
  /\ closePc = "done"
  /\ acceptPc \in {"waiting", "exited"}
  /\ \A c \in Conns : recvPc[c] \in {"none", "waiting", "ended"}
  /\ UNCHANGED vars

Next ==
  \/ AcceptStep
  \/ AcceptFails
  \/ \E c \in Accepted : AcceptConn(c)
  \/ \E c \in Dialed : DialConnects(c) \/ DialStep(c)
  \/ \E c \in Conns : RecvStep(c) \/ RecvChunk(c) \/ RecvEof(c)
  \/ EndpointCloses
  \/ CloseStep
  \/ Finished

\* Threads are scheduled.  No peer has to connect, to send or to hang up.
Fairness ==
  /\ WF_vars(AcceptStep)
  /\ \A c \in Conns : WF_vars(RecvStep(c))
  /\ \A c \in Dialed : WF_vars(DialStep(c))
  /\ WF_vars(CloseStep)

Spec == Init /\ [][Next]_vars /\ Fairness

-----------------------------------------------------------------------------
(* Safety.                                                                 *)

\* Whatever the chunks, what the endpoint is given is the frames the peer framed,
\* whole, in order, none left out, and none over the limit.
DeliveredInOrder ==
  \A c \in Conns : \A i \in DOMAIN delivered[c] :
    /\ i \in DOMAIN Stream[c]
    /\ delivered[c][i] = <<FrameEnd(c)[i - 1] + HeaderBytes, Stream[c][i]>>
    /\ Stream[c][i] <= MaxFrame

\* A receive thread that ended, for whatever reason, left nothing behind: no
\* open socket, no entry in the set, and no link the pump would still send on.
LinkLeavesNothing ==
  \A c \in Conns : recvPc[c] = "ended" =>
    /\ c \notin sockets
    /\ c \notin sockOpen
    /\ c \in links => ~EndpointOpen

\* close() closes every socket but one the accept loop is about to turn away,
\* and one a dial is about to close itself.
CloseReachesSockets ==
  closePc = "done" => \A c \in sockOpen : setup[c] = "connected"

-----------------------------------------------------------------------------
(* Liveness.                                                               *)

\* After close() only a silent peer can keep a receive thread: each one that is
\* not waiting in recv, or that a chunk wakes, ends.
CloseEndsBusyThreads ==
  \A c \in Conns :
    (closePc = "done" /\ recvPc[c] \notin {"none", "waiting"}) ~> (recvPc[c] = "ended")

\* "close() ends this link's recv loop" (line 107).
CloseEndsRecvLoops ==
  \A c \in Conns :
    (closePc = "done" /\ recvPc[c] # "none") ~> (recvPc[c] = "ended")
=============================================================================
