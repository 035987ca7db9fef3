---------------------------- MODULE EndpointPump ----------------------------
(***************************************************************************)
(* The server side of HopEndpoint (hop_endpoint/endpoint.py): one pass of  *)
(* the pump after another, each of which sends the frames the node queued  *)
(* for its links, takes the inbound service requests and runs a handler    *)
(* for each, in one thread; on(), which adds handlers; the links bearers   *)
(* register; and the reply a handler is given, which any thread may call.  *)
(*                                                                         *)
(* What a pass takes from the node is in no other place.  An exception     *)
(* ends the pass, and _pump_loop goes on with the next one; what is a      *)
(* BaseException only, as SystemExit is, ends the pump.                    *)
(***************************************************************************)
EXTENDS Naturals, FiniteSets

CONSTANTS
  Services,     \* names of hops:// services
  Requests,     \* inbound service requests
  Replied,      \* those whose handler replies, or has others reply
  ServiceOf,    \* ServiceOf[q]: the service q is for
  Links,        \* bearer links
  Frames,       \* outbound frames
  LinkOf,       \* LinkOf[f]: the link f goes out on
  Repliers,     \* threads that call replies; the pump may be one of them
  NoRequest     \* no request

ASSUME ServiceOfAssumption == ServiceOf \in [Requests -> Services]
ASSUME RepliedAssumption == Replied \subseteq Requests
ASSUME LinkOfAssumption == LinkOf \in [Frames -> Links]
ASSUME NoRequestAssumption == NoRequest \notin Requests

VARIABLES
  closed,       \* self._closed
  subscribed,   \* external: the services the node was told to receive for
  handlers,     \* the keys of self._handlers
  links,        \* the keys of self._links
  frame,        \* frame[f]: "new", "queued" (in the node), "drained" (in the
                \* pass's list), "sending", "sent", "raised", "dropped" (its
                \* link is gone), "lost"
  cut,          \* history: the frames whose link went down, or was registered
                \* anew, before the pump looked it up
  drainedWith,  \* history: drainedWith[f]: the frames drained together with f
  request,      \* request[q]: "new", "queued" (in the node), "taken" (in the
                \* pass's list), "handling", "handled", "raised", "quit" (a
                \* BaseException), "unhandled" (no handler), "lost"
  served,       \* history: the requests that came when their handler was there
  takenWith,    \* history: takenWith[q]: the requests taken together with q
  pumpPc,       \* where the pump is in its pass
  sentFlag,     \* the requests whose reply has _sent
  sends,        \* external: sends[q]: responses the node was given for q
  replyPc,      \* replyPc[k]: "idle", "checked" (past the test), "sent"
  replyTo       \* replyTo[k]: the request k is replying to

vars == <<closed, subscribed, handlers, links, frame, cut, drainedWith, request,
          served, takenWith, pumpPc, sentFlag, sends, replyPc, replyTo>>

serviceVars == <<subscribed, handlers>>
frameVars == <<links, frame, cut, drainedWith>>
requestVars == <<request, served, takenWith>>
replyVars == <<sentFlag, sends, replyPc, replyTo>>

FrameStates == {"new", "queued", "drained", "sending", "sent", "raised", "dropped",
                "lost"}
RequestStates == {"new", "queued", "taken", "handling", "handled", "raised", "quit",
                  "unhandled", "lost"}

TypeOK ==
  /\ closed \in BOOLEAN
  /\ subscribed \subseteq Services
  /\ handlers \subseteq Services
  /\ links \subseteq Links
  /\ frame \in [Frames -> FrameStates]
  /\ cut \subseteq Frames
  /\ drainedWith \in [Frames -> SUBSET Frames]
  /\ request \in [Requests -> RequestStates]
  /\ served \subseteq Requests
  /\ takenWith \in [Requests -> SUBSET Requests]
  /\ pumpPc \in {"top", "frames", "sending", "take", "dispatch", "handling", "poll",
                "exited"}
  /\ sentFlag \subseteq Requests
  /\ sends \in [Requests -> Nat]
  /\ replyPc \in [Repliers -> {"idle", "checked", "sent"}]
  /\ replyTo \in [Repliers -> Requests \cup {NoRequest}]
  /\ \A k \in Repliers : replyPc[k] = "idle" <=> replyTo[k] = NoRequest

Init ==
  /\ closed = FALSE
  /\ subscribed = {}
  /\ handlers = {}
  /\ links = {}
  /\ frame = [f \in Frames |-> "new"]
  /\ cut = {}
  /\ drainedWith = [f \in Frames |-> {}]
  /\ request = [q \in Requests |-> "new"]
  /\ served = {}
  /\ takenWith = [q \in Requests |-> {}]
  /\ pumpPc = "top"
  /\ sentFlag = {}
  /\ sends = [q \in Requests |-> 0]
  /\ replyPc = [k \in Repliers |-> "idle"]
  /\ replyTo = [k \in Repliers |-> NoRequest]

\* Moves every element that s has in state `from` to state `to`.
Moved(s, from, to) == [x \in DOMAIN s |-> IF s[x] = from THEN to ELSE s[x]]

\* Those that s has in state `from`; and companions with each of them told so.
In(s, from) == {x \in DOMAIN s : s[x] = from}
Together(companions, set) ==
  [x \in DOMAIN companions |-> IF x \in set THEN set ELSE companions[x]]

-----------------------------------------------------------------------------
(* The native node, as its use here shows it (external).                   *)

RequestArrives(q) ==
  /\ ~closed
  /\ request[q] = "new"
  /\ ServiceOf[q] \in subscribed
  /\ request' = [request EXCEPT ![q] = "queued"]
  /\ served' = IF ServiceOf[q] \in handlers THEN served \cup {q} ELSE served
  /\ UNCHANGED <<closed, serviceVars, frameVars, takenWith, pumpPc, replyVars>>

NodeEmits(f) ==
  /\ ~closed
  /\ frame[f] = "new"
  /\ LinkOf[f] \in links
  /\ frame' = [frame EXCEPT ![f] = "queued"]
  /\ UNCHANGED <<closed, serviceVars, links, cut, drainedWith, requestVars, pumpPc,
                 replyVars>>

-----------------------------------------------------------------------------
(* on(), the bearers' links, close().                                      *)

\* on() subscribes under the lock, and only then, without it, adds the handler.
Subscribe(s) ==
  /\ ~closed
  /\ s \notin subscribed
  /\ subscribed' = subscribed \cup {s}
  /\ UNCHANGED <<closed, handlers, frameVars, requestVars, pumpPc, replyVars>>

SetHandler(s) ==
  /\ s \in subscribed
  /\ handlers' = handlers \cup {s}
  /\ UNCHANGED <<closed, subscribed, frameVars, requestVars, pumpPc, replyVars>>

\* The frames still on their way to the link.
Waiting(l) == {f \in Frames : LinkOf[f] = l /\ frame[f] \in {"queued", "drained"}}

\* _register_link, which takes the id of a link that is up too, and _link_down;
\* on a closed endpoint both do nothing.
RegisterLink(l) ==
  /\ ~closed
  /\ links' = links \cup {l}
  /\ cut' = cut \cup Waiting(l)
  /\ UNCHANGED <<closed, serviceVars, frame, drainedWith, requestVars, pumpPc,
                 replyVars>>

LinkDown(l) ==
  /\ ~closed
  /\ links' = links \ {l}
  /\ cut' = cut \cup Waiting(l)
  /\ UNCHANGED <<closed, serviceVars, frame, drainedWith, requestVars, pumpPc,
                 replyVars>>

Close ==
  /\ ~closed
  /\ closed' = TRUE
  /\ UNCHANGED <<serviceVars, frameVars, requestVars, pumpPc, replyVars>>

-----------------------------------------------------------------------------
(* The pump: its loop, and the frames of a pass.                           *)

PumpExit ==
  /\ pumpPc = "top"
  /\ closed
  /\ pumpPc' = "exited"
  /\ UNCHANGED <<closed, serviceVars, frameVars, requestVars, replyVars>>

PumpDrain ==
  /\ pumpPc = "top"
  /\ ~closed
  /\ frame' = Moved(frame, "queued", "drained")
  /\ drainedWith' = Together(drainedWith, In(frame, "queued"))
  /\ pumpPc' = "frames"
  /\ UNCHANGED <<closed, serviceVars, links, cut, requestVars, replyVars>>

SendOnly == UNCHANGED <<closed, serviceVars, links, cut, drainedWith, requestVars,
                        replyVars>>

\* The frame's link is not registered any more.
PumpDropFrame(f) ==
  /\ pumpPc = "frames"
  /\ frame[f] = "drained"
  /\ LinkOf[f] \notin links
  /\ frame' = [frame EXCEPT ![f] = "dropped"]
  /\ SendOnly /\ UNCHANGED pumpPc

\* Mutant of PumpSend: the link is taken out of the table, and not looked up.
BugPopLink(f) ==
  /\ pumpPc = "frames" /\ frame[f] = "drained" /\ LinkOf[f] \in links
  /\ frame' = [frame EXCEPT ![f] = "sending"]
  /\ pumpPc' = "sending"
  /\ links' = links \ {LinkOf[f]}
  /\ UNCHANGED <<closed, serviceVars, cut, drainedWith, requestVars, replyVars>>

\* The send function that is registered for the link now is called.
PumpSend(f) ==
  /\ pumpPc = "frames"
  /\ frame[f] = "drained"
  /\ LinkOf[f] \in links
  /\ frame' = [frame EXCEPT ![f] = "sending"]
  /\ pumpPc' = "sending"
  /\ SendOnly

\* It returns, also when its socket refused the frame (_send_framed and _safe_send
\* swallow that); on a TCP link whose peer has stopped reading it may never.
SendReturns(f) ==
  /\ frame[f] = "sending"
  /\ frame' = [frame EXCEPT ![f] = "sent"]
  /\ pumpPc' = "frames"
  /\ SendOnly

\* Mutant of SendRaises: the frames of the pass go back to be sent again.
BugRequeue(f) ==
  /\ frame[f] = "sending"
  /\ frame' = Moved([frame EXCEPT ![f] = "queued"], "drained", "queued")
  /\ pumpPc' = "top"
  /\ SendOnly

\* It raises: the pass is over, with the frames it still had.
SendRaises(f) ==
  /\ frame[f] = "sending"
  /\ frame' = Moved([frame EXCEPT ![f] = "raised"], "drained", "lost")
  /\ pumpPc' = "top"
  /\ SendOnly

PumpSendDone ==
  /\ pumpPc = "frames"
  /\ \A f \in Frames : frame[f] # "drained"
  /\ pumpPc' = "take"
  /\ UNCHANGED <<closed, serviceVars, frameVars, requestVars, replyVars>>

-----------------------------------------------------------------------------
(* The requests of a pass.                                                 *)

PumpTake ==
  /\ pumpPc = "take"
  /\ ~closed
  /\ request' = Moved(request, "queued", "taken")
  /\ takenWith' = Together(takenWith, In(request, "queued"))
  /\ pumpPc' = "dispatch"
  /\ UNCHANGED <<closed, serviceVars, frameVars, served, replyVars>>

\* The endpoint was closed meanwhile, and its node is not asked.
PumpTakeRefused ==
  /\ pumpPc = "take"
  /\ closed
  /\ pumpPc' = "top"
  /\ UNCHANGED <<closed, serviceVars, frameVars, requestVars, replyVars>>

\* Mutant of PumpSkip: a missing handler ends the pass.
BugSkipReturns(q) ==
  /\ pumpPc = "dispatch" /\ request[q] = "taken" /\ ServiceOf[q] \notin handlers
  /\ request' = Moved([request EXCEPT ![q] = "unhandled"], "taken", "lost")
  /\ pumpPc' = "top"
  /\ UNCHANGED <<closed, serviceVars, frameVars, served, takenWith, replyVars>>

\* A request whose service has no handler is passed over.
PumpSkip(q) ==
  /\ pumpPc = "dispatch"
  /\ request[q] = "taken"
  /\ ServiceOf[q] \notin handlers
  /\ request' = [request EXCEPT ![q] = "unhandled"]
  /\ UNCHANGED <<closed, serviceVars, frameVars, served, takenWith, pumpPc, replyVars>>

PumpCallHandler(q) ==
  /\ pumpPc = "dispatch"
  /\ request[q] = "taken"
  /\ ServiceOf[q] \in handlers
  /\ request' = [request EXCEPT ![q] = "handling"]
  /\ pumpPc' = "handling"
  /\ UNCHANGED <<closed, serviceVars, frameVars, served, takenWith, replyVars>>

HandlerReturns(q) ==
  /\ request[q] = "handling"
  /\ request' = [request EXCEPT ![q] = "handled"]
  /\ pumpPc' = "dispatch"
  /\ UNCHANGED <<closed, serviceVars, frameVars, served, takenWith, replyVars>>

\* Mutant of HandlerRaises: the exception leaves the loop too.
BugPumpDies(q) ==
  /\ request[q] = "handling"
  /\ request' = Moved([request EXCEPT ![q] = "raised"], "taken", "lost")
  /\ pumpPc' = "exited"
  /\ UNCHANGED <<closed, serviceVars, frameVars, served, takenWith, replyVars>>

\* An Exception leaves _pump; what the pass had taken and not handled is gone.
HandlerRaises(q) ==
  /\ request[q] = "handling"
  /\ request' = Moved([request EXCEPT ![q] = "raised"], "taken", "lost")
  /\ pumpPc' = "top"
  /\ UNCHANGED <<closed, serviceVars, frameVars, served, takenWith, replyVars>>

\* What is no Exception, as SystemExit, is not caught by _pump_loop either: the
\* thread ends, and threading reports a SystemExit to nobody.
HandlerExits(q) ==
  /\ request[q] = "handling"
  /\ request' = Moved([request EXCEPT ![q] = "quit"], "taken", "lost")
  /\ pumpPc' = "exited"
  /\ UNCHANGED <<closed, serviceVars, frameVars, served, takenWith, replyVars>>

PumpDispatched ==
  /\ pumpPc = "dispatch"
  /\ \A q \in Requests : request[q] # "taken"
  /\ pumpPc' = "poll"
  /\ UNCHANGED <<closed, serviceVars, frameVars, requestVars, replyVars>>

\* The responses are EndpointRequests' business; here the pass ends.
PumpPassDone ==
  /\ pumpPc = "poll"
  /\ pumpPc' = "top"
  /\ UNCHANGED <<closed, serviceVars, frameVars, requestVars, replyVars>>

-----------------------------------------------------------------------------
(* _Reply.__call__, which a handler may hand to other threads.             *)

\* A request whose handler was called has a reply object.
HasReply(q) == request[q] \in {"handling", "handled", "raised", "quit"}

\* `if self._sent: raise`, read without the lock.
ReplyCheck(k, q) ==
  /\ replyPc[k] = "idle"
  /\ q \in Replied /\ HasReply(q)
  /\ q \notin sentFlag
  /\ replyPc' = [replyPc EXCEPT ![k] = "checked"]
  /\ replyTo' = [replyTo EXCEPT ![k] = q]
  /\ UNCHANGED <<closed, serviceVars, frameVars, requestVars, pumpPc, sentFlag,
                 sends>>

\* The node takes the response, or refuses it and the reply returns False.
ReplySend(k) ==
  /\ replyPc[k] = "checked"
  /\ ~closed
  /\ \E accepted \in {0, 1} :
       sends' = [sends EXCEPT ![replyTo[k]] = @ + accepted]
  /\ replyPc' = [replyPc EXCEPT ![k] = "sent"]
  /\ UNCHANGED <<closed, serviceVars, frameVars, requestVars, pumpPc, sentFlag,
                 replyTo>>

\* Mutant of ReplyRaises: the reply forgets where it was, not what it was for.
BugKeepTarget(k) ==
  /\ replyPc[k] = "checked"
  /\ replyPc' = [replyPc EXCEPT ![k] = "idle"]
  /\ UNCHANGED <<closed, serviceVars, frameVars, requestVars, pumpPc, sentFlag,
                 sends, replyTo>>

\* The endpoint is closed, or the body is neither bytes nor str: the call
\* raises before the node is reached, and may be made again.
ReplyRaises(k) ==
  /\ replyPc[k] = "checked"
  /\ replyPc' = [replyPc EXCEPT ![k] = "idle"]
  /\ replyTo' = [replyTo EXCEPT ![k] = NoRequest]
  /\ UNCHANGED <<closed, serviceVars, frameVars, requestVars, pumpPc, sentFlag,
                 sends>>

\* Mutant of ReplyMark: _sent is never set.
BugNoMark(k) ==
  /\ replyPc[k] = "sent"
  /\ replyPc' = [replyPc EXCEPT ![k] = "idle"]
  /\ replyTo' = [replyTo EXCEPT ![k] = NoRequest]
  /\ UNCHANGED <<closed, serviceVars, frameVars, requestVars, pumpPc, sentFlag,
                 sends>>

ReplyMark(k) ==
  /\ replyPc[k] = "sent"
  /\ sentFlag' = sentFlag \cup {replyTo[k]}
  /\ replyPc' = [replyPc EXCEPT ![k] = "idle"]
  /\ replyTo' = [replyTo EXCEPT ![k] = NoRequest]
  /\ UNCHANGED <<closed, serviceVars, frameVars, requestVars, pumpPc, sends>>

-----------------------------------------------------------------------------

PumpStep ==
  \/ PumpExit
  \/ PumpDrain
  \/ \E f \in Frames : PumpDropFrame(f) \/ PumpSend(f)
  \/ PumpSendDone
  \/ PumpTake \/ PumpTakeRefused
  \/ \E q \in Requests : PumpSkip(q) \/ PumpCallHandler(q)
  \/ PumpDispatched
  \/ PumpPassDone

\* The pump has exited and no reply is being made.
Finished ==
  /\ pumpPc = "exited"
  /\ \A k \in Repliers : replyPc[k] = "idle"
  /\ UNCHANGED vars

Next ==
  \/ PumpStep
  \/ \E f \in Frames : NodeEmits(f) \/ SendReturns(f) \/ SendRaises(f)
  \/ \E q \in Requests :
       RequestArrives(q) \/ HandlerReturns(q) \/ HandlerRaises(q) \/ HandlerExits(q)
  \/ \E s \in Services : Subscribe(s) \/ SetHandler(s)
  \/ \E l \in Links : RegisterLink(l) \/ LinkDown(l)
  \/ \E k \in Repliers :
       \/ \E q \in Requests : ReplyCheck(k, q)
       \/ ReplySend(k)
       \/ ReplyRaises(k)
       \/ ReplyMark(k)
  \/ Close
  \/ Finished

\* The pump thread is scheduled, and its calls into the node return.  A handler and
\* a bearer's send function need not: none of their ends is a PumpStep.
Fairness == WF_vars(PumpStep)

Spec == Init /\ [][Next]_vars /\ Fairness

-----------------------------------------------------------------------------
(* Safety.                                                                 *)

\* A reply is sent at most once, also by a handler that retries one that raised:
\* "reply already sent" (line 361).  One thread calls the reply.
AtMostOneReply == \A q \in Requests : sends[q] <= 1

\* A request that no handler saw and that is in the node no more came before on()
\* had stored its handler (line 208), or was taken together with one whose handler
\* raised.
RequestExcused(q) ==
  \/ request[q] = "unhandled" /\ q \notin served
  \/ request[q] = "lost" /\ \E p \in takenWith[q] : request[p] \in {"raised", "quit"}

\* Nothing else costs a request, no bearer, no missing handler and no other batch.
LossExplained ==
  \A q \in Requests : request[q] \in {"unhandled", "lost"} => RequestExcused(q)

\* A frame that its link did not get: the link went down or was replaced after the
\* node had emitted the frame, which was then dropped, or went to the new one; or
\* its send raised, or that of a frame drained together with it.
FrameExcused(f) ==
  \/ frame[f] \in {"dropped", "sent"} /\ f \in cut
  \/ frame[f] = "raised"
  \/ frame[f] = "lost" /\ \E g \in drainedWith[f] : frame[g] = "raised"

\* The pump drops a frame only when its link is gone and loses it only to the send
\* of another frame (lines 304-307): the table that bearers change meanwhile costs
\* no link that stays up a frame.
FrameLossExplained ==
  \A f \in Frames : frame[f] \in {"dropped", "lost"} => FrameExcused(f)

-----------------------------------------------------------------------------
(* Liveness.  What applications and peers have to grant is an antecedent.  *)

\* No handler keeps the pump for ever.
HandlersEnd == []<>(pumpPc # "handling")

\* What handlers raise is an Exception.
HandlersStay == [](\A q \in Requests : request[q] # "quit")

\* No send keeps the pump for ever: peers of TCP links read on, or hang up.
SendsEnd == []<>(pumpPc # "sending")

\* Whatever Exceptions handlers raise, the pump goes on (line 288) and every request
\* of the node gets its handler, or is excused; it needs that not every pass is
\* ended by a bearer.
RequestsDealtWith ==
  HandlersEnd /\ HandlersStay /\ SendsEnd /\ <>[][\A f \in Frames : ~SendRaises(f)]_vars =>
    \A q \in Requests :
      request[q] = "queued" ~> (HasReply(q) \/ RequestExcused(q) \/ closed)

\* Whatever Exceptions handlers and bearers raise, every frame of the node goes to
\* its own link, or is excused.
FramesDealtWith ==
  HandlersEnd /\ HandlersStay /\ SendsEnd =>
    \A f \in Frames :
      frame[f] = "queued" ~> (frame[f] = "sent" \/ FrameExcused(f) \/ closed)
=============================================================================
