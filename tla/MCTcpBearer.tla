---------------------------- MODULE MCTcpBearer ----------------------------
(***************************************************************************)
(* An accepted connection and a dialled one.  One stream has a frame, an   *)
(* empty frame and one over the limit, with a prefix of two bytes, so that *)
(* a chunk may end inside a prefix, inside a frame, or behind several.     *)
(***************************************************************************)
EXTENDS TcpBearer, TLC

CONSTANTS a1, d1

MCStream == a1 :> <<1, 0, 2>> @@ d1 :> <<0>>
=============================================================================
