--------------------------- MODULE MCEndpointPump ---------------------------
(***************************************************************************)
(* Requests for one service, so that a batch has one behind another, and   *)
(* frames for one link, which comes and goes while the pump sends them.    *)
(***************************************************************************)
EXTENDS EndpointPump, TLC

CONSTANTS s1, l1

MCServiceOf == [q \in Requests |-> s1]
MCLinkOf == [f \in Frames |-> l1]
=============================================================================
