---------------------------- MODULE NodeLifetime ----------------------------
(***************************************************************************)
(* What HopEndpoint promises about the native node it owns, with no lock,  *)
(* no counter and no teardown protocol: the node is used by at most one    *)
(* thread at a time (that thread may re-enter it), it takes no new call    *)
(* once the endpoint shuts, it outlives the calls in progress, and it is   *)
(* released once, after them.  EndpointLifecycle implements this module.   *)
(***************************************************************************)
EXTENDS Naturals

CONSTANT Threads      \* every thread of the process that may use the endpoint

VARIABLES
  phase,              \* "open", "closing" (no new call) or "freed"
  calls               \* calls[t]: native calls thread t is inside of

nlVars == <<phase, calls>>

NLInit ==
  /\ phase = "open"
  /\ calls = [t \in Threads |-> 0]

\* Nobody but t is inside the node.
Alone(t) == \A u \in Threads \ {t} : calls[u] = 0

NLBegin(t) ==
  /\ phase = "open"
  /\ Alone(t)
  /\ calls' = [calls EXCEPT ![t] = @ + 1]
  /\ UNCHANGED phase

\* The last call out of a closing node takes the node with it.
NLEnd(t) ==
  /\ phase # "freed"
  /\ calls[t] > 0
  /\ calls' = [calls EXCEPT ![t] = @ - 1]
  /\ phase' = IF phase = "closing" /\ \A u \in Threads : calls'[u] = 0
              THEN "freed" ELSE phase

NLShut ==
  /\ phase = "open"
  /\ phase' = "closing"
  /\ UNCHANGED calls

NLFree ==
  /\ phase = "closing"
  /\ \A t \in Threads : calls[t] = 0
  /\ phase' = "freed"
  /\ UNCHANGED calls

NLNext ==
  \/ \E t \in Threads : NLBegin(t) \/ NLEnd(t)
  \/ NLShut
  \/ NLFree

NLSafety == NLInit /\ [][NLNext]_nlVars

\* A node that shuts is released in the end.
NLReleased == (phase = "closing") ~> (phase = "freed")

NLSpec == NLSafety /\ NLReleased
=============================================================================
