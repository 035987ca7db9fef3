------------------------ MODULE MCEndpointLifecycle ------------------------
(***************************************************************************)
(* Two users, the pump and two hooks: enough for a close that races a      *)
(* registration, another close and a callback two calls deep.              *)
(***************************************************************************)
EXTENDS EndpointLifecycle
=============================================================================
