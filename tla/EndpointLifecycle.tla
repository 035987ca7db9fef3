-------------------------- MODULE EndpointLifecycle --------------------------
(***************************************************************************)
(* Ownership of the native node by HopEndpoint (hop_endpoint/endpoint.py): *)
(* the re-entrant lock, the count of native calls in progress, close() and *)
(* its teardown hooks, and the pump thread close() tries to join.          *)
(*                                                                         *)
(* Every native call runs with the lock held, and may call back into       *)
(* Python, which may call the endpoint again: a thread that is inside a    *)
(* native call can begin another, register a hook or close the endpoint.   *)
(* Requests, responses and bearers are other modules' business.            *)
(***************************************************************************)
EXTENDS Naturals, FiniteSets

CONSTANTS
  Users,        \* application and bearer threads
  Pump,         \* the endpoint's own pump thread (self._thread)
  NoThread,     \* the owner of a free lock
  Hooks,        \* bearer teardown hooks that may be registered
  MaxNest       \* bound: how deep callbacks nest native calls

ASSUME PumpAssumption == Pump \notin Users
ASSUME NoThreadAssumption == NoThread \notin Users \cup {Pump}
ASSUME MaxNestAssumption == MaxNest \in Nat

VARIABLES
  lockOwner,    \* owner of self._lock between two steps
  closed,       \* self._closed
  nativeCalls,  \* self._native_calls
  nodeFreed,    \* self._node_freed
  inNative,     \* inNative[t]: native calls thread t is inside of
  closePc,      \* closePc[t]: where t is in close(), "idle" outside it
  reentrant,    \* reentrant[t]: the local of t's close()
  hook,         \* hook[h]: "new", "registered" (in self._closers), "taken" (in
                \* close()'s local list), "late" (registered after close), "ran"
  pumpPc        \* "top" (loop condition), "pumping" (in _pump), "exited"

vars == <<lockOwner, closed, nativeCalls, nodeFreed, inNative, closePc,
          reentrant, hook, pumpPc>>

Threads == Users \cup {Pump}
ClosePcs == {"idle", "hooks", "join", "final"}
HookStates == {"new", "registered", "taken", "late", "ran"}

TypeOK ==
  /\ lockOwner \in Threads \cup {NoThread}
  /\ closed \in BOOLEAN
  /\ nativeCalls \in Nat
  /\ nodeFreed \in BOOLEAN
  /\ inNative \in [Threads -> Nat]
  /\ closePc \in [Threads -> ClosePcs]
  /\ reentrant \in [Threads -> BOOLEAN]
  /\ hook \in [Hooks -> HookStates]
  /\ pumpPc \in {"top", "pumping", "exited"}

\* The state a constructor that returned leaves: the node exists and the pump
\* thread is started.
Init ==
  /\ lockOwner = NoThread
  /\ closed = FALSE
  /\ nativeCalls = 0
  /\ nodeFreed = FALSE
  /\ inNative = [t \in Threads |-> 0]
  /\ closePc = [t \in Threads |-> "idle"]
  /\ reentrant = [t \in Threads |-> FALSE]
  /\ hook = [h \in Hooks |-> "new"]
  /\ pumpPc = "top"

-----------------------------------------------------------------------------
(* Taking the lock, and being free to call the endpoint.                   *)

\* Mutant of MayLock: the calls into the node go unguarded.
BugNoLock(t) == t \in Threads

\* `with self._lock` succeeds: the lock is free, or t holds it already.
MayLock(t) == lockOwner \in {NoThread, t}

\* t is executing code outside close(), the pump inside a pass.
Running(t) ==
  /\ closePc[t] = "idle"
  /\ t = Pump => pumpPc = "pumping"

\* node_freed after _free_node_locked was called if c holds, and not if not: a
\* node that is freed already stays so.
FreedWhen(c) == nodeFreed \/ c

-----------------------------------------------------------------------------
(* _with_node and _try_with_node around _call_node_locked.                 *)

\* Mutant of BeginCall: one of the two entries does not count its call.
BugUncountedCall(t) ==
  /\ Running(t) /\ MayLock(t) /\ ~closed /\ inNative[t] < MaxNest
  /\ lockOwner' = t
  /\ inNative' = [inNative EXCEPT ![t] = @ + 1]
  /\ UNCHANGED <<closed, nativeCalls, nodeFreed, closePc, reentrant, hook,
                 pumpPc>>

BeginCall(t) ==
  /\ Running(t)
  /\ MayLock(t)
  /\ ~closed
  /\ inNative[t] < MaxNest
  /\ lockOwner' = t
  /\ nativeCalls' = nativeCalls + 1
  /\ inNative' = [inNative EXCEPT ![t] = @ + 1]
  /\ UNCHANGED <<closed, nodeFreed, closePc, reentrant, hook, pumpPc>>

\* A call that finds the endpoint closed: RuntimeError, or None, and no effect.
RejectCall(t) ==
  /\ Running(t)
  /\ MayLock(t)
  /\ closed
  /\ UNCHANGED vars

\* Mutant of EndCall: unwinding leaves the node to a close() that is over.
BugNoFreeOnUnwind(t) ==
  /\ Running(t) /\ inNative[t] > 0
  /\ inNative' = [inNative EXCEPT ![t] = @ - 1]
  /\ nativeCalls' = nativeCalls - 1
  /\ lockOwner' = IF inNative[t] = 1 THEN NoThread ELSE lockOwner
  /\ UNCHANGED <<closed, nodeFreed, closePc, reentrant, hook, pumpPc>>

\* The finally clause: the last call to unwind frees the node of an endpoint
\* that one of its callbacks closed.
EndCall(t) ==
  /\ Running(t)
  /\ inNative[t] > 0
  /\ inNative' = [inNative EXCEPT ![t] = @ - 1]
  /\ nativeCalls' = nativeCalls - 1
  /\ lockOwner' = IF inNative[t] = 1 THEN NoThread ELSE lockOwner
  /\ nodeFreed' = FreedWhen(closed /\ nativeCalls = 1)
  /\ UNCHANGED <<closed, closePc, reentrant, hook, pumpPc>>

-----------------------------------------------------------------------------
(* _register_closer.                                                       *)

\* Mutant of RegisterCloser: the hook joins the list of a closed endpoint.
BugRegisterUnchecked(t, h) ==
  /\ Running(t) /\ MayLock(t) /\ hook[h] = "new"
  /\ hook' = [hook EXCEPT ![h] = "registered"]
  /\ UNCHANGED <<lockOwner, closed, nativeCalls, nodeFreed, inNative, closePc,
                 reentrant, pumpPc>>

RegisterCloser(t, h) ==
  /\ Running(t)
  /\ MayLock(t)
  /\ hook[h] = "new"
  /\ hook' = [hook EXCEPT ![h] = IF closed THEN "late" ELSE "registered"]
  /\ UNCHANGED <<lockOwner, closed, nativeCalls, nodeFreed, inNative, closePc,
                 reentrant, pumpPc>>

\* The trailing fn() of a registration that came after close().
RunLateCloser(h) ==
  /\ hook[h] = "late"
  /\ hook' = [hook EXCEPT ![h] = "ran"]
  /\ UNCHANGED <<lockOwner, closed, nativeCalls, nodeFreed, inNative, closePc,
                 reentrant, pumpPc>>

-----------------------------------------------------------------------------
(* close().                                                                *)

\* A close() that finds the endpoint closed returns at once.
CloseAgain(t) ==
  /\ Running(t)
  /\ MayLock(t)
  /\ closed
  /\ UNCHANGED vars

\* The first locked block: one atomic step, since nobody else can lock.
CloseBegin(t) ==
  /\ Running(t)
  /\ MayLock(t)
  /\ ~closed
  /\ closed' = TRUE
  /\ reentrant' = [reentrant EXCEPT ![t] = nativeCalls > 0]
  /\ hook' = [h \in Hooks |->
                IF hook[h] = "registered" THEN "taken" ELSE hook[h]]
  /\ closePc' = [closePc EXCEPT ![t] = "hooks"]
  /\ UNCHANGED <<lockOwner, nativeCalls, nodeFreed, inNative, pumpPc>>

\* One teardown hook, outside the lock unless t is inside a native call; what
\* a hook raises is swallowed.
CloseRunHook(t, h) ==
  /\ closePc[t] = "hooks"
  /\ hook[h] = "taken"
  /\ hook' = [hook EXCEPT ![h] = "ran"]
  /\ UNCHANGED <<lockOwner, closed, nativeCalls, nodeFreed, inNative, closePc,
                 reentrant, pumpPc>>

\* Mutant of CloseHooksDone: the first hook that raises ends the loop.
BugHookRaises(t) ==
  /\ closePc[t] = "hooks"
  /\ closePc' = [closePc EXCEPT ![t] =
                   IF ~reentrant[t] /\ t # Pump THEN "join" ELSE "final"]
  /\ UNCHANGED <<lockOwner, closed, nativeCalls, nodeFreed, inNative,
                 reentrant, hook, pumpPc>>

\* No hook is left: join the pump, except from inside a native call and from
\* the pump itself.
CloseHooksDone(t) ==
  /\ closePc[t] = "hooks"
  /\ \A h \in Hooks : hook[h] # "taken"
  /\ closePc' = [closePc EXCEPT ![t] =
                   IF ~reentrant[t] /\ t # Pump THEN "join" ELSE "final"]
  /\ UNCHANGED <<lockOwner, closed, nativeCalls, nodeFreed, inNative,
                 reentrant, hook, pumpPc>>

\* join(timeout=1.0) returns: the pump exited, or a second went by.
CloseJoined(t) ==
  /\ closePc[t] = "join"
  /\ closePc' = [closePc EXCEPT ![t] = "final"]
  /\ UNCHANGED <<lockOwner, closed, nativeCalls, nodeFreed, inNative,
                 reentrant, hook, pumpPc>>

\* Mutant of CloseFinish: close() frees without asking who is in the node.
BugFreeAtOnce(t) ==
  /\ closePc[t] = "final" /\ MayLock(t)
  /\ nodeFreed' = TRUE
  /\ closePc' = [closePc EXCEPT ![t] = "idle"]
  /\ UNCHANGED <<lockOwner, closed, nativeCalls, inNative, reentrant, hook,
                 pumpPc>>

\* The second locked block, and the return.
CloseFinish(t) ==
  /\ closePc[t] = "final"
  /\ MayLock(t)
  /\ nodeFreed' = FreedWhen(nativeCalls = 0)
  /\ closePc' = [closePc EXCEPT ![t] = "idle"]
  /\ UNCHANGED <<lockOwner, closed, nativeCalls, inNative, reentrant, hook,
                 pumpPc>>

-----------------------------------------------------------------------------
(* _pump_loop.                                                             *)

\* `while not self._closed`, read without the lock.
PumpCheck ==
  /\ pumpPc = "top"
  /\ pumpPc' = IF closed THEN "exited" ELSE "pumping"
  /\ UNCHANGED <<lockOwner, closed, nativeCalls, nodeFreed, inNative, closePc,
                 reentrant, hook>>

\* _pump returns, or raises into the loop's except; then the sleep.
PumpPassDone ==
  /\ Running(Pump)
  /\ pumpPc = "pumping"
  /\ inNative[Pump] = 0
  /\ pumpPc' = "top"
  /\ UNCHANGED <<lockOwner, closed, nativeCalls, nodeFreed, inNative, closePc,
                 reentrant, hook>>

-----------------------------------------------------------------------------

CloseStep(t) ==
  \/ \E h \in Hooks : CloseRunHook(t, h)
  \/ CloseHooksDone(t)
  \/ CloseJoined(t)
  \/ CloseFinish(t)

Next ==
  \/ \E t \in Threads :
       \/ BeginCall(t)
       \/ RejectCall(t)
       \/ EndCall(t)
       \/ CloseAgain(t)
       \/ CloseBegin(t)
       \/ CloseStep(t)
       \/ \E h \in Hooks : RegisterCloser(t, h)
  \/ \E h \in Hooks : RunLateCloser(h)
  \/ PumpCheck
  \/ PumpPassDone

\* Native calls and hooks return, threads are scheduled, a join ends within its
\* timeout.  Nothing is said of the pump's handlers: a pass may never end.
Fairness ==
  /\ \A t \in Threads : WF_vars(EndCall(t)) /\ WF_vars(CloseStep(t))
  /\ \A h \in Hooks : WF_vars(RunLateCloser(h))
  /\ WF_vars(PumpCheck)

Spec == Init /\ [][Next]_vars /\ Fairness

-----------------------------------------------------------------------------
(* Safety.                                                                 *)

\* The node is alive as long as any thread is inside it: neither an ordinary
\* close, nor one a callback makes, frees it under a call (line 72).
NoUseAfterFree == \A t \in Threads : inNative[t] > 0 => ~nodeFreed

\* close() never waits for what cannot happen: the thread that joins the pump
\* is not the pump and does not hold the lock the pump's next native call needs.
JoinIsSafe ==
  \A t \in Threads : closePc[t] = "join" => t # Pump /\ lockOwner # t

\* A close that is over has released the node: whichever of close() and the
\* last native call comes second does it, and there is no way past both.
NoLeak ==
  closed /\ (\A t \in Threads : closePc[t] = "idle" /\ inNative[t] = 0)
    => nodeFreed

\* Teardown hooks registered before close() run before the node is freed, also
\* when the last native call frees it ("close() runs it before freeing").
HooksBeforeFree ==
  nodeFreed => \A h \in Hooks : hook[h] \notin {"registered", "taken"}

\* What close() does between its two locked sections is in order: it waits for
\* nothing that waits for it, and the node outlives the hooks.
CloseInOrder == JoinIsSafe /\ HooksBeforeFree

-----------------------------------------------------------------------------
(* Liveness.                                                               *)

\* Every hook handed to an endpoint that is closed is run, whichever of the
\* registration and close() took the lock first.
BearersTornDown ==
  \A h \in Hooks : (closed /\ hook[h] # "new") ~> (hook[h] = "ran")

-----------------------------------------------------------------------------
(* The endpoint implements NodeLifetime.                                   *)

Phase == IF nodeFreed THEN "freed" ELSE IF closed THEN "closing" ELSE "open"

NL == INSTANCE NodeLifetime WITH phase <- Phase, calls <- inNative

\* The lock, the counter and close() keep the node's promises, and a shut node
\* is released even when a handler of the pump never returns.
ImplementsNodeLifetime == NL!NLSpec
=============================================================================
