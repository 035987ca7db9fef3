---------------------- MODULE EndpointLifecycle_proofs ----------------------
(***************************************************************************)
(* For every set of threads and hooks, and every nesting depth: the node   *)
(* is never freed under a call, never leaked by a close that is over, and  *)
(* outlives the teardown hooks; close() never joins the pump from a place  *)
(* the pump waits for; and the endpoint implements NodeLifetime.           *)
(***************************************************************************)
EXTENDS EndpointLifecycle, TLAPS

\* The lock is held exactly by the thread that is inside the node, and the
\* counter counts that thread's calls.
LockInv ==
  /\ \A t \in Threads : inNative[t] > 0 <=> lockOwner = t
  /\ lockOwner = NoThread => nativeCalls = 0
  /\ lockOwner # NoThread => nativeCalls = inNative[lockOwner]

\* A thread in close() recorded whether it is itself inside the node, and while
\* it is there nobody else can be: the endpoint is closed to new calls.
CloserInv ==
  \A t \in Threads :
    /\ closePc[t] # "idle" =>
         /\ closed
         /\ reentrant[t] <=> nativeCalls > 0
         /\ lockOwner \in {NoThread, t}
    /\ closePc[t] = "join" => ~reentrant[t] /\ t # Pump

\* There is one close() that does anything, and it precedes the freeing unless
\* its caller is inside the node.
OneCloser ==
  \A t, u \in Threads : closePc[t] # "idle" /\ closePc[u] # "idle" => t = u

FreedInv ==
  /\ nodeFreed => closed /\ nativeCalls = 0
  /\ nodeFreed => \A t \in Threads : closePc[t] = "idle"
  /\ closed => \/ nodeFreed
               \/ nativeCalls > 0
               \/ \E t \in Threads : closePc[t] # "idle"

HookInv ==
  /\ closed => \A h \in Hooks : hook[h] # "registered"
  /\ (\E h \in Hooks : hook[h] = "taken") =>
       \E t \in Threads : closePc[t] = "hooks"

IInv == TypeOK /\ LockInv /\ CloserInv /\ OneCloser /\ FreedInv /\ HookInv

-----------------------------------------------------------------------------
(* The inductive invariant.                                                *)

\* The state a constructor leaves satisfies the invariant.
LEMMA InitInv == Init => IInv
<1> SUFFICES ASSUME Init PROVE IInv
  OBVIOUS
<1> USE PumpAssumption, NoThreadAssumption DEF Init, Threads
<1>1. TypeOK
  BY DEF TypeOK, ClosePcs, HookStates
<1>2. LockInv
  BY DEF LockInv
<1>3. CloserInv /\ OneCloser
  BY DEF CloserInv, OneCloser
<1>4. FreedInv /\ HookInv
  BY DEF FreedInv, HookInv
<1> QED
  BY <1>1, <1>2, <1>3, <1>4 DEF IInv

\* A native call begins: nobody is in close(), the endpoint being open.
LEMMA BeginCallInv ==
  ASSUME IInv, NEW t \in Threads, BeginCall(t)  PROVE IInv'
<1> USE NoThreadAssumption DEF IInv, BeginCall
<1>1. TypeOK'
  BY DEF TypeOK
<1>2. LockInv'
  BY DEF LockInv, TypeOK, MayLock, Threads
<1>3. CloserInv' /\ OneCloser'
  BY DEF CloserInv, OneCloser
<1>4. FreedInv' /\ HookInv'
  BY DEF FreedInv, HookInv
<1> QED
  BY <1>1, <1>2, <1>3, <1>4

\* A native call returns, and frees the node if it is the last one of an
\* endpoint that is closed.
LEMMA EndCallInv ==
  ASSUME IInv, NEW t \in Threads, EndCall(t)  PROVE IInv'
<1> USE NoThreadAssumption DEF IInv, EndCall
<1>1. lockOwner = t /\ nativeCalls = inNative[t] /\ t # NoThread
  BY DEF LockInv, Threads
<1>2. \A u \in Threads : closePc[u] = "idle"
  BY <1>1 DEF CloserInv, Running
<1>3. TypeOK'
  BY <1>1 DEF TypeOK, FreedWhen
<1>4. LockInv'
  BY <1>1 DEF LockInv, TypeOK, Threads
<1>5. CloserInv' /\ OneCloser'
  BY <1>2 DEF CloserInv, OneCloser
<1>6. FreedInv' /\ HookInv'
  BY <1>1, <1>2 DEF FreedInv, HookInv, FreedWhen, TypeOK
<1> QED
  BY <1>3, <1>4, <1>5, <1>6

\* Registering a hook keeps it out of the list of a closed endpoint.
LEMMA RegisterCloserInv ==
  ASSUME IInv, NEW t \in Threads, NEW h \in Hooks, RegisterCloser(t, h)
  PROVE IInv'
<1> USE DEF IInv, RegisterCloser
<1>1. TypeOK'
  BY DEF TypeOK, HookStates
<1>2. LockInv' /\ CloserInv' /\ OneCloser' /\ FreedInv'
  BY DEF LockInv, CloserInv, OneCloser, FreedInv
<1>3. HookInv'
  BY DEF HookInv, TypeOK
<1> QED
  BY <1>1, <1>2, <1>3

\* Running a hook, early or late, changes that hook only.
LEMMA RunHookInv ==
  ASSUME IInv, NEW h \in Hooks,
         RunLateCloser(h) \/ \E t \in Threads : CloseRunHook(t, h)
  PROVE IInv'
<1> USE DEF IInv, RunLateCloser, CloseRunHook
<1>1. TypeOK'
  BY DEF TypeOK, HookStates
<1>2. LockInv' /\ CloserInv' /\ OneCloser' /\ FreedInv'
  BY DEF LockInv, CloserInv, OneCloser, FreedInv
<1>3. HookInv'
  BY DEF HookInv, TypeOK
<1> QED
  BY <1>1, <1>2, <1>3

\* close() takes over the hooks, and knows whether it runs inside the node: the
\* counter it reads counts its own thread's calls, the lock being its own.
LEMMA CloseBeginInv ==
  ASSUME IInv, NEW t \in Threads, CloseBegin(t)  PROVE IInv'
<1> USE NoThreadAssumption DEF IInv, CloseBegin
<1>1. \A u \in Threads : closePc[u] = "idle"
  BY DEF CloserInv
<1>2. closePc' = [u \in Threads |-> IF u = t THEN "hooks" ELSE "idle"]
  BY <1>1 DEF TypeOK
<1>3. TypeOK'
  BY DEF TypeOK, ClosePcs, HookStates
<1>4. LockInv'
  BY DEF LockInv
<1>5. CloserInv' /\ OneCloser'
  BY <1>2 DEF CloserInv, OneCloser, MayLock, TypeOK
<1>6. FreedInv'
  BY <1>2 DEF FreedInv, TypeOK
<1>7. HookInv'
  BY <1>2 DEF HookInv, TypeOK
<1> QED
  BY <1>3, <1>4, <1>5, <1>6, <1>7

\* The steps of close() that only move its program counter.
LEMMA CloseMoveInv ==
  ASSUME IInv, NEW t \in Threads, CloseHooksDone(t) \/ CloseJoined(t)
  PROVE IInv'
<1> USE DEF IInv, CloseHooksDone, CloseJoined
<1>1. closePc[t] # "idle" /\ closePc'[t] # "idle"
      /\ \A u \in Threads \ {t} : closePc'[u] = closePc[u]
  BY DEF TypeOK
<1>2. TypeOK'
  BY DEF TypeOK, ClosePcs
<1>3. LockInv'
  BY DEF LockInv
<1>4. CloserInv'
  BY <1>1 DEF CloserInv, TypeOK
<1>5. OneCloser'
  BY <1>1 DEF OneCloser
<1>6. FreedInv'
  BY <1>1 DEF FreedInv
<1>7. HookInv'
  <2>1. CASE CloseHooksDone(t)
    <3>1. \A u \in Threads : closePc[u] = "hooks" => u = t
      BY <2>1 DEF OneCloser
    <3> QED
      BY <2>1, <3>1 DEF HookInv, CloserInv
  <2>2. CASE CloseJoined(t)
    BY <2>2, <1>1 DEF HookInv, OneCloser
  <2> QED
    BY <2>1, <2>2
<1> QED
  BY <1>2, <1>3, <1>4, <1>5, <1>6, <1>7

\* close() returns, and frees the node unless its own thread is inside it.
LEMMA CloseFinishInv ==
  ASSUME IInv, NEW t \in Threads, CloseFinish(t)  PROVE IInv'
<1> USE NoThreadAssumption DEF IInv, CloseFinish
<1>1. closePc' = [u \in Threads |-> "idle"]
  BY DEF TypeOK, OneCloser
<1>2. closed /\ \A h \in Hooks : hook[h] # "taken"
  BY DEF HookInv, OneCloser, CloserInv
<1>3. TypeOK'
  BY DEF TypeOK, ClosePcs, FreedWhen
<1>4. LockInv'
  BY DEF LockInv
<1>5. CloserInv' /\ OneCloser'
  BY <1>1 DEF CloserInv, OneCloser
<1>6. nodeFreed' <=> nativeCalls' = 0
  BY DEF FreedInv, FreedWhen
<1>7. FreedInv'
  BY <1>1, <1>2, <1>3, <1>6 DEF FreedInv, TypeOK
<1>8. HookInv'
  BY <1>2 DEF HookInv
<1> QED
  BY <1>3, <1>4, <1>5, <1>7, <1>8

\* The pump's own control changes nothing the invariant speaks of.
LEMMA PumpInv ==
  ASSUME IInv, PumpCheck \/ PumpPassDone  PROVE IInv'
  BY DEF IInv, PumpCheck, PumpPassDone, TypeOK, LockInv, CloserInv, OneCloser,
         FreedInv, HookInv

\* Every step of the endpoint keeps the invariant.
LEMMA StepInv == IInv /\ [Next]_vars => IInv'
<1> SUFFICES ASSUME IInv, [Next]_vars PROVE IInv'
  OBVIOUS
<1>1. ASSUME UNCHANGED vars PROVE IInv'
  BY <1>1 DEF vars, IInv, TypeOK, LockInv, CloserInv, OneCloser, FreedInv,
              HookInv
<1>2. ASSUME NEW t \in Threads, RejectCall(t) \/ CloseAgain(t) PROVE IInv'
  BY <1>1, <1>2 DEF RejectCall, CloseAgain
<1>3. ASSUME NEW t \in Threads, CloseStep(t) PROVE IInv'
  BY <1>3, RunHookInv, CloseMoveInv, CloseFinishInv DEF CloseStep
<1> QED
  BY <1>1, <1>2, <1>3, BeginCallInv, EndCallInv, RegisterCloserInv,
     RunHookInv, CloseBeginInv, PumpInv DEF Next

\* The invariant holds in every state of every behaviour.
THEOREM Invariant == Spec => []IInv
  BY InitInv, StepInv, PTL DEF Spec

-----------------------------------------------------------------------------
(* What the invariant says of the node and of close().                     *)

\* Every variable keeps its type (the attributes __init__ sets).
THEOREM TypeCorrect == Spec => []TypeOK
<1>1. IInv => TypeOK
  BY DEF IInv
<1> QED
  BY <1>1, Invariant, PTL

\* No thread is inside a node that hop_node_free released.
THEOREM NodeNeverUsedAfterFree == Spec => []NoUseAfterFree
<1>1. IInv => NoUseAfterFree
  <2> SUFFICES ASSUME IInv, NEW t \in Threads, inNative[t] > 0
               PROVE  ~nodeFreed
    BY DEF NoUseAfterFree
  <2>1. lockOwner = t /\ nativeCalls = inNative[t]
    BY NoThreadAssumption DEF IInv, LockInv, Threads
  <2> QED
    BY <2>1 DEF IInv, FreedInv, TypeOK
<1> QED
  BY <1>1, Invariant, PTL

\* A close() that is over, with every native call unwound, released the node.
THEOREM CloseNeverLeaks == Spec => []NoLeak
<1>1. IInv => NoLeak
  <2> SUFFICES ASSUME IInv, closed,
                      \A t \in Threads : closePc[t] = "idle" /\ inNative[t] = 0
               PROVE  nodeFreed
    BY DEF NoLeak
  <2>1. nativeCalls = 0
    BY DEF IInv, LockInv, TypeOK
  <2> QED
    BY <2>1 DEF IInv, FreedInv, TypeOK
<1> QED
  BY <1>1, Invariant, PTL

\* The thread that joins the pump neither is the pump nor holds the lock.
THEOREM JoinNeverDeadlocks == Spec => []JoinIsSafe
<1>1. IInv => JoinIsSafe
  <2> SUFFICES ASSUME IInv, NEW t \in Threads, closePc[t] = "join"
               PROVE  t # Pump /\ lockOwner # t
    BY DEF JoinIsSafe
  <2>1. t # Pump /\ ~(nativeCalls > 0)
    BY DEF IInv, CloserInv
  <2>2. lockOwner # t
    BY <2>1, NoThreadAssumption DEF IInv, LockInv, TypeOK, Threads
  <2> QED
    BY <2>1, <2>2
<1> QED
  BY <1>1, Invariant, PTL

\* The hooks close() took over all ran before the node was released.
THEOREM HooksPrecedeFree == Spec => []HooksBeforeFree
<1>1. IInv => HooksBeforeFree
  BY DEF IInv, FreedInv, HookInv, HooksBeforeFree
<1> QED
  BY <1>1, Invariant, PTL

\* What close() does outside the lock is safe in both respects.
THEOREM CloseOrdered == Spec => []CloseInOrder
<1>1. JoinIsSafe /\ HooksBeforeFree => CloseInOrder
  BY DEF CloseInOrder
<1> QED
  BY <1>1, JoinNeverDeadlocks, HooksPrecedeFree, PTL

-----------------------------------------------------------------------------
(* The endpoint implements NodeLifetime: every step maps to a step of the   *)
(* abstract node or leaves it alone.                                        *)

\* The initial states map to initial states.
LEMMA InitMaps == Init => NL!NLInit
  BY DEF Init, NL!NLInit, Phase

\* Only the owner of the lock can be inside the node.
LEMMA OwnerAlone ==
  ASSUME IInv, NEW t \in Threads, MayLock(t)  PROVE NL!Alone(t)
  BY NoThreadAssumption DEF IInv, LockInv, TypeOK, MayLock, NL!Alone, Threads

\* _with_node begins a call of the abstract node.
LEMMA BeginCallMaps ==
  ASSUME IInv, NEW t \in Threads, BeginCall(t)  PROVE NL!NLBegin(t)
<1>1. Phase = "open" /\ Phase' = "open"
  BY DEF BeginCall, IInv, FreedInv, Phase
<1> QED
  BY <1>1, OwnerAlone DEF BeginCall, NL!NLBegin

\* Its finally clause ends one, releasing the node exactly when it is the last
\* call of a closed endpoint.
LEMMA EndCallMaps ==
  ASSUME IInv, NEW t \in Threads, EndCall(t)  PROVE NL!NLEnd(t)
<1> USE DEF EndCall
<1>1. lockOwner = t /\ nativeCalls = inNative[t] /\ ~nodeFreed
  BY NoThreadAssumption DEF IInv, LockInv, FreedInv, TypeOK, Threads
<1>2. \A u \in Threads \ {t} : inNative'[u] = 0
  BY <1>1 DEF IInv, LockInv, TypeOK
<1>3. (\A u \in Threads : inNative'[u] = 0) <=> nativeCalls = 1
  BY <1>1, <1>2 DEF IInv, TypeOK
<1>4. Phase = IF closed THEN "closing" ELSE "open"
  BY <1>1 DEF Phase
<1>5. Phase' = IF closed /\ nativeCalls = 1 THEN "freed" ELSE Phase
  BY <1>1, <1>4 DEF Phase, FreedWhen
<1>6. Phase' = IF Phase = "closing" /\ (\A u \in Threads : inNative'[u] = 0)
               THEN "freed" ELSE Phase
  BY <1>3, <1>4, <1>5
<1> QED
  BY <1>4, <1>6 DEF NL!NLEnd

\* The first locked block of close() shuts the node.
LEMMA CloseBeginMaps ==
  ASSUME IInv, NEW t \in Threads, CloseBegin(t)  PROVE NL!NLShut
  BY DEF IInv, FreedInv, CloseBegin, NL!NLShut, Phase

\* The second one releases it, or leaves that to the call it is inside of.
LEMMA CloseFinishMaps ==
  ASSUME IInv, NEW t \in Threads, CloseFinish(t)
  PROVE  NL!NLFree \/ UNCHANGED NL!nlVars
<1> USE DEF CloseFinish
<1>1. closed /\ ~nodeFreed /\ closed' /\ Phase = "closing"
  BY DEF IInv, CloserInv, FreedInv, Phase
<1>2. CASE nativeCalls = 0
  <2>1. \A u \in Threads : inNative[u] = 0
    BY <1>2, NoThreadAssumption DEF IInv, LockInv, TypeOK, Threads
  <2>2. Phase' = "freed"
    BY <1>2 DEF Phase, FreedWhen
  <2> QED
    BY <1>1, <2>1, <2>2 DEF NL!NLFree
<1>3. CASE nativeCalls # 0
  BY <1>1, <1>3 DEF Phase, FreedWhen, NL!nlVars
<1> QED
  BY <1>2, <1>3

\* All the other steps leave the abstract node alone.
LEMMA OtherStepsStutter ==
  ASSUME UNCHANGED <<closed, nodeFreed, inNative>>  PROVE UNCHANGED NL!nlVars
  BY DEF Phase, NL!nlVars

\* Every step of the endpoint is one of the abstract node, or a stutter.
LEMMA StepMaps == IInv /\ [Next]_vars => [NL!NLNext]_NL!nlVars
<1> SUFFICES ASSUME IInv, [Next]_vars PROVE [NL!NLNext]_NL!nlVars
  OBVIOUS
<1>1. ASSUME UNCHANGED vars PROVE UNCHANGED NL!nlVars
  BY <1>1, OtherStepsStutter DEF vars
<1>2. ASSUME NEW t \in Threads, RejectCall(t) \/ CloseAgain(t)
      PROVE  UNCHANGED NL!nlVars
  BY <1>1, <1>2 DEF RejectCall, CloseAgain
<1>3. ASSUME NEW t \in Threads, CloseStep(t)
      PROVE  [NL!NLNext]_NL!nlVars
  BY <1>3, CloseFinishMaps, OtherStepsStutter
     DEF CloseStep, CloseRunHook, CloseHooksDone, CloseJoined, NL!NLNext
<1>4. ASSUME NEW h \in Hooks,
             RunLateCloser(h) \/ \E t \in Threads : RegisterCloser(t, h)
      PROVE  UNCHANGED NL!nlVars
  BY <1>4, OtherStepsStutter DEF RunLateCloser, RegisterCloser
<1>5. ASSUME PumpCheck \/ PumpPassDone PROVE UNCHANGED NL!nlVars
  BY <1>5, OtherStepsStutter DEF PumpCheck, PumpPassDone
<1>6. ASSUME NEW t \in Threads, BeginCall(t) \/ EndCall(t) \/ CloseBegin(t)
      PROVE  NL!NLNext
  BY <1>6, BeginCallMaps, EndCallMaps, CloseBeginMaps DEF NL!NLNext
<1> QED
  BY <1>1, <1>2, <1>3, <1>4, <1>5, <1>6 DEF Next

\* The lock, the counter and close() keep the abstract node's safety promises.
THEOREM Refinement == Spec => NL!NLSafety
<1>1. Init /\ [][Next]_vars /\ []IInv => NL!NLInit /\ [][NL!NLNext]_NL!nlVars
  BY InitMaps, StepMaps, PTL
<1> QED
  BY <1>1, Invariant, PTL DEF Spec, NL!NLSafety
=============================================================================
