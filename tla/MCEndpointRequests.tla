------------------------- MODULE MCEndpointRequests -------------------------
(***************************************************************************)
(* Three calls: one answered, one timing out, one made by a handler, in    *)
(* every order, with close() anywhere.                                     *)
(***************************************************************************)
EXTENDS EndpointRequests
=============================================================================
