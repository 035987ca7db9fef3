----------------------- MODULE EndpointRequests_proofs -----------------------
(***************************************************************************)
(* For every set of calls: a closed endpoint leaves no caller asleep, no   *)
(* caller wakes without an outcome or with two, the table forgets every    *)
(* caller that left, a response outlives everything but its acceptance,    *)
(* and a call made by a handler is never answered.                         *)
(***************************************************************************)
EXTENDS EndpointRequests, TLAPS

\* Being inside the native send is the same fact seen from the lock and from
\* the caller, and a closed endpoint has an empty table and no send in progress.
SendInv ==
  /\ \A r \in Requests : sending = r <=> caller[r] = "sending"
  /\ closed => sending = NoRequest /\ pending = {}

\* Before it is registered a call is unknown to everyone else.
FreshInv ==
  \A r \in Requests :
    caller[r] \in {"new", "sending", "refused", "failed"} =>
      r \notin pending /\ r \notin event /\ holder[r] = {} /\ hand # r

\* A registered call has no outcome yet, and the pump is not answering it.
PendingInv ==
  \A r \in pending :
    /\ caller[r] \in {"waiting", "expired"}
    /\ r \notin event
    /\ holder[r] = {}
    /\ hand # r

\* The call in the pump's hand has no outcome but the one the pump writes.
HandInv ==
  /\ hand # NoRequest =>
       /\ hand \notin event
       /\ pumpPc \in {"route", "filled"}
       /\ holder[hand] = IF pumpPc = "route" THEN {} ELSE {"response"}
  /\ pumpPc = "filled" => hand # NoRequest

\* An Event that is set has exactly one outcome behind it.
EventInv ==
  \A r \in Requests :
    /\ r \in event => holder[r] \in {{"response"}, {"closed"}}
    /\ holder[r] \in {{}, {"response"}, {"closed"}}
    /\ caller[r] # "keyerror"

\* A caller that sleeps is in the table, in the pump's hand, or woken.
WaitInv ==
  \A r \in Requests :
    caller[r] = "waiting" => r \in pending \/ r \in event \/ hand = r

\* A response the node was told to forget belongs to an answered call.
DurableInv ==
  /\ arrived \ accepted \subseteq stored
  /\ \A r \in accepted : caller[r] = "answered"

\* A call a handler makes keeps the pump from routing as long as it lasts.
NestedInv ==
  /\ nested # NoRequest => nested \in fromHandler /\ pumpPc = "handling"
  /\ \A r \in fromHandler :
       /\ caller[r] # "new"
       /\ "response" \notin holder[r]
       /\ caller[r] # "answered"
       /\ hand # r
       /\ r # nested => caller[r] \in Outcomes /\ r \notin pending

IInv ==
  /\ TypeOK /\ SendInv /\ FreshInv /\ PendingInv /\ HandInv /\ EventInv
  /\ WaitInv /\ DurableInv /\ NestedInv

-----------------------------------------------------------------------------
(* The initial states, and the steps of the callers.                       *)

\* The state a constructor leaves satisfies the invariant.
LEMMA InitInv == Init => IInv
  BY NoRequestAssumption
     DEF Init, IInv, TypeOK, SendInv, FreshInv, PendingInv, HandInv, EventInv,
         WaitInv, DurableInv, NestedInv, Outcomes

\* Entering the native send: the lock was free, and the call unknown.
LEMMA BeginSendInv ==
  ASSUME IInv, NEW r \in Requests, UserRequests(r) \/ HandlerRequests(r)
  PROVE  IInv'
<1> USE NoRequestAssumption
        DEF IInv, UserRequests, HandlerRequests, BeginSend, RefuseSend, pumpVars,
            nodeVars, LockFree, HandlerBusy
<1>1. caller[r] = "new" /\ r \notin fromHandler /\ sending = NoRequest
      /\ r \notin pending /\ r \notin event /\ holder[r] = {} /\ hand # r
  BY DEF NestedInv, FreshInv
<1>2. \E c \in {"sending", "refused"} : caller' = [caller EXCEPT ![r] = c]
  OBVIOUS
<1>3. TypeOK'
  BY DEF TypeOK, Outcomes
<1>4. SendInv'
  BY <1>1 DEF SendInv, TypeOK
<1>5. FreshInv' /\ PendingInv' /\ EventInv' /\ WaitInv'
  BY <1>1, <1>2 DEF FreshInv, PendingInv, EventInv, WaitInv, TypeOK
<1>6. HandInv'
  BY DEF HandInv
<1>7. DurableInv'
  BY <1>1, <1>2 DEF DurableInv, TypeOK
<1>8. NestedInv'
  BY <1>1, <1>2 DEF NestedInv, TypeOK, Outcomes
<1> QED
  BY <1>3, <1>4, <1>5, <1>6, <1>7, <1>8

\* The send returns: its waiter enters the table, or nothing remains of it.
LEMMA EndSendInv ==
  ASSUME IInv, NEW r \in Requests, Register(r) \/ SendFails(r)
  PROVE  IInv'
<1> USE NoRequestAssumption
        DEF IInv, Register, SendFails, pumpVars, nodeVars
<1>1. caller[r] = "sending" /\ ~closed /\ r \notin pending /\ r \notin event
      /\ holder[r] = {} /\ hand # r
  BY DEF SendInv, FreshInv
<1>2. \/ /\ caller' = [caller EXCEPT ![r] = "waiting"]
         /\ pending' = pending \cup {r}
      \/ /\ caller' = [caller EXCEPT ![r] = "failed"]
         /\ pending' = pending
  OBVIOUS
<1>3. TypeOK'
  BY DEF TypeOK, Outcomes
<1>4. SendInv'
  BY <1>1 DEF SendInv, TypeOK
<1>5. FreshInv' /\ PendingInv' /\ EventInv' /\ WaitInv'
  BY <1>1, <1>2 DEF FreshInv, PendingInv, EventInv, WaitInv, TypeOK
<1>6. HandInv'
  BY DEF HandInv
<1>7. DurableInv'
  BY <1>1, <1>2 DEF DurableInv, TypeOK
<1>8. NestedInv'
  BY <1>1, <1>2 DEF NestedInv, TypeOK, Outcomes
<1> QED
  BY <1>3, <1>4, <1>5, <1>6, <1>7, <1>8

\* The sleep ends: by an outcome, or by the timeout and its withdrawal.
LEMMA SleepEndsInv ==
  ASSUME IInv, NEW r \in Requests, Wake(r) \/ Expire(r) \/ TimeOut(r)
  PROVE  IInv'
<1> USE NoRequestAssumption
        DEF IInv, Wake, Expire, TimeOut, pumpVars, nodeVars
<1>1. \E c \in {"answered", "closed", "expired", "timedout"} :
         /\ caller' = [caller EXCEPT ![r] = c]
         /\ c = "answered" => "response" \in holder[r]
         /\ c = "expired" => r \notin event /\ pending' = pending
         /\ c # "expired" => r \notin pending'
  BY DEF OutcomeOf, EventInv, PendingInv
<1>2. caller[r] \in {"waiting", "expired"} /\ pending' \subseteq pending
      /\ \A q \in Requests \ {r} : q \in pending <=> q \in pending'
  OBVIOUS
<1>3. TypeOK'
  BY <1>1 DEF TypeOK, Outcomes
<1>4. SendInv'
  BY <1>1, <1>2 DEF SendInv, TypeOK
<1>5. FreshInv' /\ EventInv' /\ WaitInv'
  BY <1>1, <1>2 DEF FreshInv, EventInv, WaitInv, TypeOK
<1>6. PendingInv'
  BY <1>1, <1>2 DEF PendingInv, TypeOK
<1>7. HandInv'
  BY DEF HandInv
<1>8. DurableInv'
  BY <1>1, <1>2 DEF DurableInv, TypeOK
<1>9. NestedInv'
  BY <1>1, <1>2 DEF NestedInv, TypeOK, Outcomes
<1> QED
  BY <1>3, <1>4, <1>5, <1>6, <1>7, <1>8, <1>9

\* A response comes to the node, or leaves it by its acceptance.
LEMMA NodeInv ==
  ASSUME IInv, NEW r \in Requests, Accept(r) \/ ResponseArrives(r)
  PROVE  IInv'
<1> USE DEF IInv, Accept, ResponseArrives, callerVars, pumpVars
<1>1. TypeOK'
  BY DEF TypeOK
<1>2. SendInv' /\ FreshInv' /\ PendingInv' /\ HandInv'
  BY DEF SendInv, FreshInv, PendingInv, HandInv
<1>3. EventInv' /\ WaitInv' /\ NestedInv'
  BY DEF EventInv, WaitInv, NestedInv
<1>4. DurableInv'
  BY DEF DurableInv
<1> QED
  BY <1>1, <1>2, <1>3, <1>4

-----------------------------------------------------------------------------
(* The steps of the pump, and close().                                     *)

\* The pump moves without touching a caller: it goes on with its pass, or a
\* handler's own call is over.
LEMMA PumpMovesInv ==
  ASSUME IInv,
         PumpExit \/ PumpTick \/ HandlerReturns \/ HandlerRaises
           \/ HandlerResumes \/ PumpPoll \/ PumpRouted
  PROVE  IInv'
<1> USE DEF IInv, PumpExit, PumpTick, HandlerReturns, HandlerRaises,
            HandlerResumes, HandlerBusy, PumpPoll, Polled, PumpRouted,
            callerVars, nodeVars
<1>1. TypeOK'
  BY DEF TypeOK
<1>2. SendInv' /\ FreshInv' /\ PendingInv' /\ EventInv' /\ WaitInv'
  BY DEF SendInv, FreshInv, PendingInv, EventInv, WaitInv
<1>3. HandInv' /\ DurableInv'
  BY DEF HandInv, DurableInv
<1>4. NestedInv'
  BY DEF NestedInv, PendingInv, Outcomes
<1> QED
  BY <1>1, <1>2, <1>3, <1>4

\* A waiter leaves the table for the pump's hand.
LEMMA PumpPopInv ==
  ASSUME IInv, NEW r \in Requests, PumpPop(r)  PROVE IInv'
<1> USE NoRequestAssumption DEF IInv, PumpPop, nodeVars
<1>1. nested = NoRequest
  BY DEF NestedInv
<1>2. TypeOK'
  BY DEF TypeOK
<1>3. SendInv' /\ FreshInv' /\ PendingInv' /\ EventInv' /\ DurableInv'
  BY DEF SendInv, FreshInv, PendingInv, EventInv, DurableInv, TypeOK
<1>4. HandInv'
  BY DEF HandInv, PendingInv
<1>5. WaitInv'
  BY DEF WaitInv
<1>6. NestedInv'
  BY <1>1 DEF NestedInv
<1> QED
  BY <1>2, <1>3, <1>4, <1>5, <1>6

\* Its outcome is written, and then its Event is set.
LEMMA PumpAnswersInv ==
  ASSUME IInv, PumpFill \/ PumpWakes  PROVE IInv'
<1> USE NoRequestAssumption DEF IInv, PumpFill, PumpWakes, nodeVars
<1>1. hand \in Requests /\ hand \notin pending /\ hand \notin event
      /\ caller[hand] \notin {"new", "sending", "refused", "failed"}
      /\ hand \notin fromHandler
  BY DEF HandInv, PendingInv, TypeOK, FreshInv, NestedInv
<1>2. holder' = holder \/ holder' = [holder EXCEPT ![hand] = {"response"}]
  BY DEF HandInv, TypeOK
<1>3. TypeOK'
  BY <1>1, <1>2 DEF TypeOK
<1>4. SendInv' /\ DurableInv'
  BY DEF SendInv, DurableInv
<1>5. FreshInv' /\ PendingInv'
  BY <1>1, <1>2 DEF FreshInv, PendingInv, TypeOK
<1>6. HandInv'
  <2>1. CASE PumpFill
    <3>1. holder'[hand] = {"response"} /\ hand' = hand /\ event' = event /\ pumpPc' = "filled"
      BY <1>1, <2>1 DEF HandInv, TypeOK
    <3> QED
      BY <1>1, <3>1 DEF HandInv
  <2>2. CASE PumpWakes
    <3>1. hand' = NoRequest /\ pumpPc' = "route"
      BY <2>2
    <3> QED
      BY <3>1 DEF HandInv
  <2> QED
    BY <2>1, <2>2
<1>7. EventInv'
  BY <1>1, <1>2 DEF EventInv, HandInv, TypeOK
<1>8. WaitInv'
  BY <1>1 DEF WaitInv, HandInv
<1>9. NestedInv'
  BY <1>1, <1>2 DEF NestedInv, TypeOK
<1> QED
  BY <1>3, <1>4, <1>5, <1>6, <1>7, <1>8, <1>9

\* close() gives every waiter of the table the outcome "closed".
LEMMA CloseInv ==
  ASSUME IInv, Close  PROVE IInv'
<1> USE NoRequestAssumption
        DEF IInv, Close, WakeAllClosed, LockFree, pumpVars, nodeVars
<1>1. \A r \in Requests :
         holder'[r] = IF r \in pending THEN {"closed"} ELSE holder[r]
  BY DEF PendingInv, TypeOK
<1>2. TypeOK'
  BY DEF TypeOK
<1>3. SendInv' /\ DurableInv'
  BY DEF SendInv, DurableInv
<1>4. FreshInv' /\ PendingInv' /\ EventInv' /\ WaitInv'
  BY <1>1 DEF FreshInv, PendingInv, EventInv, WaitInv
<1>5. HandInv'
  BY <1>1 DEF HandInv, PendingInv, TypeOK
<1>6. NestedInv'
  BY <1>1 DEF NestedInv, TypeOK
<1> QED
  BY <1>2, <1>3, <1>4, <1>5, <1>6

\* Every step keeps the invariant.
LEMMA StepInv == IInv /\ [Next]_vars => IInv'
<1> SUFFICES ASSUME IInv, [Next]_vars PROVE IInv'
  OBVIOUS
<1>1. ASSUME UNCHANGED vars PROVE IInv'
  BY <1>1 DEF vars, callerVars, pumpVars, nodeVars, IInv, TypeOK, SendInv,
              FreshInv, PendingInv, HandInv, EventInv, WaitInv, DurableInv,
              NestedInv
<1>2. ASSUME Finished PROVE IInv'
  BY <1>1, <1>2 DEF Finished
<1>3. ASSUME NEW r \in Requests, CallerStep(r) PROVE IInv'
  BY <1>3, EndSendInv, SleepEndsInv DEF CallerStep
<1>4. ASSUME PumpStep PROVE IInv'
  BY <1>4, PumpMovesInv, PumpPopInv, PumpAnswersInv DEF PumpStep, RouteStep
<1> QED
  BY <1>1, <1>2, <1>3, <1>4, BeginSendInv, SleepEndsInv, NodeInv, PumpMovesInv,
     CloseInv DEF Next

\* The invariant holds in every state of every behaviour.
THEOREM Invariant == Spec => []IInv
  BY InitInv, StepInv, PTL DEF Spec

-----------------------------------------------------------------------------
(* What the invariant says to callers.                                     *)

\* Every variable keeps its type.
THEOREM TypeCorrect == Spec => []TypeOK
<1>1. IInv => TypeOK
  BY DEF IInv
<1> QED
  BY <1>1, Invariant, PTL

\* close() strands nobody: whoever still sleeps has been woken or is about to
\* be answered.
THEOREM CloseFailsFast == Spec => []FailFast
<1>1. IInv => FailFast
  BY DEF IInv, SendInv, WaitInv, FailFast
<1> QED
  BY <1>1, Invariant, PTL

\* No caller wakes without an outcome, so holder["status"] is always there.
THEOREM NobodyWokenForNothing == Spec => []WokenHasOutcome
<1>1. IInv => WokenHasOutcome
  BY DEF IInv, EventInv, WokenHasOutcome
<1> QED
  BY <1>1, Invariant, PTL

\* The pump and close() never both decide a call.
THEOREM OutcomeUnique == Spec => []OneOutcome
<1>1. IInv => OneOutcome
  <2> SUFFICES ASSUME IInv, NEW r \in Requests
               PROVE  ~({"response", "closed"} \subseteq holder[r])
    BY DEF OneOutcome
  <2>1. holder[r] \in {{}, {"response"}, {"closed"}}
    BY DEF IInv, EventInv
  <2> QED
    BY <2>1
<1> QED
  BY <1>1, Invariant, PTL

\* The table keeps no entry of a caller that is gone.
THEOREM TableExact == Spec => []NoStaleWaiter
<1>1. IInv => NoStaleWaiter
  BY DEF IInv, PendingInv, NoStaleWaiter
<1> QED
  BY <1>1, Invariant, PTL

\* A call has one outcome, and leaves nothing in the table.
THEOREM CallSettledOnce == Spec => []SettledOnce
<1>1. OneOutcome /\ NoStaleWaiter => SettledOnce
  BY DEF SettledOnce
<1> QED
  BY <1>1, OutcomeUnique, TableExact, PTL

\* A response stays in the node until an answered caller accepts it.
THEOREM ResponsesSurvive == Spec => []ResponseDurable
<1>1. IInv => ResponseDurable
  BY DEF IInv, DurableInv, ResponseDurable
<1> QED
  BY <1>1, Invariant, PTL

\* A call made on the pump thread is never answered.
THEOREM HandlerCallsUnanswered == Spec => []NestedNeverAnswered
<1>1. IInv => NestedNeverAnswered
  BY DEF IInv, NestedInv, NestedNeverAnswered
<1> QED
  BY <1>1, Invariant, PTL
=============================================================================
