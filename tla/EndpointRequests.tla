--------------------------- MODULE EndpointRequests ---------------------------
(***************************************************************************)
(* The client side of HopEndpoint (hop_endpoint/endpoint.py): request(),   *)
(* the _pending table that matches a response to the caller that waits for *)
(* it, the pump's response routing, close(), and the durable acceptance of *)
(* a response.                                                             *)
(*                                                                         *)
(* A caller sleeps on an Event outside the lock.  Three parties race to    *)
(* decide how its sleep ends: the pump with a response, close(), and the   *)
(* caller's own timeout.  The table, under the lock, is what decides.  The *)
(* pump also runs the service handlers, so a handler that calls request()  *)
(* is a caller on the very thread that would answer it.                    *)
(***************************************************************************)
EXTENDS Naturals, FiniteSets

CONSTANTS
  Requests,     \* the calls of request() that may be made, each with its own id
  NoRequest     \* no call

ASSUME NoRequestAssumption == NoRequest \notin Requests

VARIABLES
  closed,       \* self._closed
  sending,      \* the call inside hop_send_service_request, which holds the
                \* lock until its id is registered; NoRequest when there is none
  pending,      \* the keys of self._pending
  event,        \* the calls whose Event is set
  holder,       \* holder[r]: the outcomes written to r's holder dictionary
  caller,       \* caller[r]: where the call of request() is, or how it ended
  pumpPc,       \* where the pump is in its pass
  batch,        \* responses the pump took in this pass and has not routed
  hand,         \* the call the pump popped from the table and is answering
  nested,       \* the call the handler on the pump thread is making
  fromHandler,  \* history: the calls that were made by handlers
  arrived,      \* external: the responses that reached the native node
  stored,       \* external: the responses the node still holds
  accepted      \* external: the responses the node was told to forget

vars == <<closed, sending, pending, event, holder, caller, pumpPc, batch, hand,
          nested, fromHandler, arrived, stored, accepted>>

callerVars == <<sending, pending, event, holder, caller>>
pumpVars == <<pumpPc, batch, hand, nested, fromHandler>>
nodeVars == <<arrived, stored, accepted>>

Outcomes == {"answered", "timedout", "closed", "refused", "failed", "keyerror"}

TypeOK ==
  /\ closed \in BOOLEAN
  /\ sending \in Requests \cup {NoRequest}
  /\ pending \subseteq Requests
  /\ event \subseteq Requests
  /\ holder \in [Requests -> SUBSET {"response", "closed"}]
  /\ caller \in [Requests -> {"new", "sending", "waiting", "expired"} \cup Outcomes]
  /\ pumpPc \in {"top", "handling", "poll", "route", "filled", "exited"}
  /\ batch \subseteq Requests
  /\ hand \in Requests \cup {NoRequest}
  /\ nested \in Requests \cup {NoRequest}
  /\ fromHandler \subseteq Requests
  /\ arrived \subseteq Requests
  /\ stored \subseteq Requests
  /\ accepted \subseteq Requests

Init ==
  /\ closed = FALSE
  /\ sending = NoRequest
  /\ pending = {}
  /\ event = {}
  /\ holder = [r \in Requests |-> {}]
  /\ caller = [r \in Requests |-> "new"]
  /\ pumpPc = "top"
  /\ batch = {}
  /\ hand = NoRequest
  /\ nested = NoRequest
  /\ fromHandler = {}
  /\ arrived = {}
  /\ stored = {}
  /\ accepted = {}

\* Mutant of LockFree: the native send runs outside the lock.
BugSendUnlocked == sending \in Requests \cup {NoRequest}

\* The lock is free: no native send is in progress, and every other locked
\* section is one step.
LockFree == sending = NoRequest

\* A handler that makes a call is stuck in it until the call is over.
HandlerBusy == nested # NoRequest

-----------------------------------------------------------------------------
(* The native node, as its use here shows it (external).                   *)

\* The response to a request that was sent reaches the node, which keeps it.
ResponseArrives(r) ==
  /\ ~closed
  /\ LockFree
  /\ caller[r] \notin {"new", "sending", "refused", "failed"}
  /\ r \notin arrived
  /\ arrived' = arrived \cup {r}
  /\ stored' = stored \cup {r}
  /\ UNCHANGED <<closed, callerVars, pumpVars, accepted>>

\* What hop_poll_service_responses hands out: everything not accepted yet, for
\* the sink never takes a response over (it returns False).
Polled == stored

-----------------------------------------------------------------------------
(* request().                                                              *)

\* send_and_register gets the lock and calls the node.
BeginSend(r) ==
  /\ LockFree
  /\ caller[r] = "new"
  /\ ~closed
  /\ sending' = r
  /\ caller' = [caller EXCEPT ![r] = "sending"]
  /\ UNCHANGED <<closed, pending, event, holder, nodeVars>>

\* _with_node refuses: the endpoint is closed.
RefuseSend(r) ==
  /\ LockFree
  /\ caller[r] = "new"
  /\ closed
  /\ caller' = [caller EXCEPT ![r] = "refused"]
  /\ UNCHANGED <<closed, sending, pending, event, holder, nodeVars>>

\* A call made by an application thread.
UserRequests(r) ==
  /\ BeginSend(r) \/ RefuseSend(r)
  /\ UNCHANGED pumpVars

\* The node took the request; its waiter is registered before the lock is let go.
Register(r) ==
  /\ sending = r
  /\ sending' = NoRequest
  /\ pending' = pending \cup {r}
  /\ caller' = [caller EXCEPT ![r] = "waiting"]
  /\ UNCHANGED <<closed, event, holder, pumpVars, nodeVars>>

\* The node refused it: RuntimeError, and nothing to wait for.
SendFails(r) ==
  /\ sending = r
  /\ sending' = NoRequest
  /\ caller' = [caller EXCEPT ![r] = "failed"]
  /\ UNCHANGED <<closed, pending, event, holder, pumpVars, nodeVars>>

\* What a caller whose Event is set makes of its holder.
OutcomeOf(r) ==
  IF "closed" \in holder[r] THEN "closed"
  ELSE IF "response" \in holder[r] THEN "answered" ELSE "keyerror"

\* ev.wait returns True, and the holder is read without the lock.
Wake(r) ==
  /\ caller[r] = "waiting"
  /\ r \in event
  /\ caller' = [caller EXCEPT ![r] = OutcomeOf(r)]
  /\ UNCHANGED <<closed, sending, pending, event, holder, pumpVars, nodeVars>>

\* ev.wait returns False; the Event may still be set before the next step.
Expire(r) ==
  /\ caller[r] = "waiting"
  /\ r \notin event
  /\ caller' = [caller EXCEPT ![r] = "expired"]
  /\ UNCHANGED <<closed, sending, pending, event, holder, pumpVars, nodeVars>>

TimeOut(r) ==
  /\ LockFree
  /\ caller[r] = "expired"
  /\ pending' = pending \ {r}
  /\ caller' = [caller EXCEPT ![r] = "timedout"]
  /\ UNCHANGED <<closed, sending, event, holder, pumpVars, nodeVars>>

\* accept_service_response, explicit or at the end of `status, body = ...`: the
\* caller needs the HopResponse that carries the id.
Accept(r) ==
  /\ LockFree
  /\ ~closed
  /\ caller[r] = "answered"
  /\ r \in stored
  /\ stored' = stored \ {r}
  /\ accepted' = accepted \cup {r}
  /\ UNCHANGED <<closed, callerVars, pumpVars, arrived>>

-----------------------------------------------------------------------------
(* The pump's pass.                                                        *)

\* The loop condition, and the exit.
PumpExit ==
  /\ pumpPc = "top"
  /\ closed
  /\ pumpPc' = "exited"
  /\ UNCHANGED <<closed, callerVars, batch, hand, nested, fromHandler, nodeVars>>

\* Tick, drain and take requests: there are some for a handler, or none.
PumpTick ==
  /\ pumpPc = "top"
  /\ LockFree
  /\ ~closed
  /\ pumpPc' \in {"handling", "poll"}
  /\ UNCHANGED <<closed, callerVars, batch, hand, nested, fromHandler, nodeVars>>

\* Mutant of HandlerReturns: handlers run on threads of their own.
BugHandlerDetached ==
  /\ pumpPc = "handling" /\ pumpPc' = "poll"
  /\ UNCHANGED <<closed, callerVars, batch, hand, nested, fromHandler, nodeVars>>

\* The last handler returns.
HandlerReturns ==
  /\ pumpPc = "handling"
  /\ ~HandlerBusy
  /\ pumpPc' = "poll"
  /\ UNCHANGED <<closed, callerVars, batch, hand, nested, fromHandler, nodeVars>>

\* A handler raises: the pass is over before the responses are polled.
HandlerRaises ==
  /\ pumpPc = "handling"
  /\ ~HandlerBusy
  /\ pumpPc' = "top"
  /\ UNCHANGED <<closed, callerVars, batch, hand, nested, fromHandler, nodeVars>>

\* A handler calls request() itself, on the pump thread.
HandlerRequests(r) ==
  /\ pumpPc = "handling"
  /\ ~HandlerBusy
  /\ BeginSend(r) \/ RefuseSend(r)
  /\ nested' = r
  /\ fromHandler' = fromHandler \cup {r}
  /\ UNCHANGED <<pumpPc, batch, hand>>

\* That call is over, one way or another, and the handler goes on.
HandlerResumes ==
  /\ HandlerBusy
  /\ caller[nested] \in Outcomes
  /\ nested' = NoRequest
  /\ UNCHANGED <<closed, callerVars, pumpPc, batch, hand, fromHandler, nodeVars>>

\* take_service_responses, unless the endpoint was closed meanwhile.
PumpPoll ==
  /\ pumpPc = "poll"
  /\ LockFree
  /\ IF closed THEN pumpPc' = "top" /\ UNCHANGED batch
               ELSE pumpPc' = "route" /\ batch' = Polled
  /\ UNCHANGED <<closed, callerVars, hand, nested, fromHandler, nodeVars>>

\* Mutants of PumpPop: the waiter is read but left in the table, and it is woken
\* before its outcome is written.
BugGetNotPop(r) ==
  /\ pumpPc = "route" /\ hand = NoRequest /\ LockFree /\ r \in batch
  /\ batch' = batch \ {r}
  /\ hand' = IF r \in pending THEN r ELSE NoRequest
  /\ UNCHANGED <<closed, callerVars, pumpPc, nested, fromHandler, nodeVars>>
BugWakeAtPop(r) ==
  /\ pumpPc = "route" /\ hand = NoRequest /\ LockFree /\ r \in batch
  /\ batch' = batch \ {r} /\ pending' = pending \ {r}
  /\ hand' = IF r \in pending THEN r ELSE NoRequest
  /\ event' = event \cup (pending \cap {r})
  /\ UNCHANGED <<closed, sending, holder, caller, pumpPc, nested, fromHandler,
                 nodeVars>>

\* One response: its waiter is popped under the lock, and filled in outside.
\* A response nobody waits for is passed over.
PumpPop(r) ==
  /\ pumpPc = "route"
  /\ hand = NoRequest
  /\ LockFree
  /\ r \in batch
  /\ batch' = batch \ {r}
  /\ pending' = pending \ {r}
  /\ hand' = IF r \in pending THEN r ELSE NoRequest
  /\ UNCHANGED <<closed, sending, event, holder, caller, pumpPc, nested,
                 fromHandler, nodeVars>>

\* Mutant of PumpFill: a response nobody waits for is not passed over.
BugFillUnchecked ==
  /\ pumpPc = "route" /\ batch = {}
  /\ holder' = [r \in Requests |-> IF r = hand THEN {"response"} ELSE holder[r]]
  /\ pumpPc' = "filled"
  /\ UNCHANGED <<closed, sending, pending, event, caller, batch, hand, nested,
                 fromHandler, nodeVars>>

PumpFill ==
  /\ pumpPc = "route"
  /\ hand # NoRequest
  /\ holder' = [holder EXCEPT ![hand] = @ \cup {"response"}]
  /\ pumpPc' = "filled"
  /\ UNCHANGED <<closed, sending, pending, event, caller, batch, hand, nested,
                 fromHandler, nodeVars>>


PumpWakes ==
  /\ pumpPc = "filled"
  /\ event' = event \cup {hand}
  /\ hand' = NoRequest
  /\ pumpPc' = "route"
  /\ UNCHANGED <<closed, sending, pending, holder, caller, batch, nested,
                 fromHandler, nodeVars>>

PumpRouted ==
  /\ pumpPc = "route"
  /\ hand = NoRequest
  /\ batch = {}
  /\ pumpPc' = "top"
  /\ UNCHANGED <<closed, callerVars, batch, hand, nested, fromHandler, nodeVars>>

-----------------------------------------------------------------------------
(* close(): what its first locked block does to the waiters.               *)

\* Mutant of WakeAllClosed: the table is emptied and nobody is told.
BugForgetWaiters ==
  /\ closed' = TRUE
  /\ pending' = {}
  /\ UNCHANGED <<holder, event>>

WakeAllClosed ==
  /\ closed' = TRUE
  /\ holder' = [r \in Requests |->
                  IF r \in pending THEN holder[r] \cup {"closed"} ELSE holder[r]]
  /\ event' = event \cup pending
  /\ pending' = {}

Close ==
  /\ LockFree
  /\ ~closed
  /\ WakeAllClosed
  /\ UNCHANGED <<sending, caller, pumpVars, nodeVars>>

\* The thread that is inside the native send closes the endpoint, from a native
\* callback or a signal handler: the lock is re-entrant and lets it in.
CloseWhileSending ==
  /\ sending # NoRequest
  /\ ~closed
  /\ WakeAllClosed
  /\ UNCHANGED <<sending, caller, pumpVars, nodeVars>>

\* Nothing is left to happen: the pump has exited and every call is over.
Finished ==
  /\ pumpPc = "exited"
  /\ \A r \in Requests : caller[r] \in Outcomes
  /\ UNCHANGED vars

-----------------------------------------------------------------------------

CallerStep(r) == Register(r) \/ SendFails(r) \/ Wake(r) \/ TimeOut(r)

RouteStep ==
  \/ \E r \in Requests : PumpPop(r)
  \/ PumpFill
  \/ PumpWakes
  \/ PumpRouted

PumpStep == PumpExit \/ PumpTick \/ HandlerResumes \/ PumpPoll \/ RouteStep

Next ==
  \/ \E r \in Requests :
       \/ UserRequests(r)
       \/ HandlerRequests(r)
       \/ CallerStep(r)
       \/ Expire(r)
       \/ Accept(r)
       \/ ResponseArrives(r)
  \/ PumpStep
  \/ HandlerReturns
  \/ HandlerRaises
  \/ Close
  \/ Finished

\* Threads are scheduled and native calls return.  No timeout is assumed to
\* expire, no handler to return, no response to arrive, nobody to accept.
Fairness ==
  /\ WF_vars(PumpStep)
  /\ \A r \in Requests : WF_vars(CallerStep(r))

Spec == Init /\ [][Next]_vars /\ Fairness

\* The same endpoint, closed from inside a native send.
NextReentrant == Next \/ CloseWhileSending
SpecReentrant == Init /\ [][NextReentrant]_vars /\ Fairness

-----------------------------------------------------------------------------
(* Safety.                                                                 *)

\* A closed endpoint leaves no caller asleep: each one that still waits has been
\* woken, or is about to be answered by the pump (line 335).
FailFast ==
  closed => \A r \in Requests : caller[r] = "waiting" => r \in event \/ hand = r

\* Whoever wakes a caller has written its outcome first: no KeyError on
\* holder["status"] (line 228).
WokenHasOutcome ==
  \A r \in Requests :
    /\ r \in event => holder[r] # {}
    /\ caller[r] # "keyerror"

\* The pump and close() never both decide the same call.
OneOutcome ==
  \A r \in Requests : ~({"response", "closed"} \subseteq holder[r])

\* The table has no entry whose caller is gone: it cannot grow with timeouts.
NoStaleWaiter ==
  \A r \in pending : caller[r] \in {"waiting", "expired"}

\* A call is settled once: by the pump or by close(), and when it is over, by its
\* timeout too, nobody can find its waiter any more.
SettledOnce == OneOutcome /\ NoStaleWaiter

\* A response stays in the node until a caller that received it accepts it,
\* whatever the timeouts, the passes cut short and the polls in between.
ResponseDurable ==
  /\ arrived \ accepted \subseteq stored
  /\ \A r \in accepted : caller[r] = "answered"

\* The limit of the single pump thread: a call a handler makes is never
\* answered, though its response arrive in time; it ends by timeout or close.
NestedNeverAnswered ==
  \A r \in fromHandler : caller[r] # "answered"

-----------------------------------------------------------------------------
(* Liveness.                                                               *)

\* close() ends every sleep, without the help of any timeout.
CloseReleasesCallers ==
  \A r \in Requests : (closed /\ caller[r] = "waiting") ~> (caller[r] # "waiting")

=============================================================================
