---------------------------- MODULE MCWssServer ----------------------------
(***************************************************************************)
(* Three connections for two permits and two workers: one connection too   *)
(* many, a queue that fills, workers that race, and a close anywhere.      *)
(***************************************************************************)
EXTENDS WssServer
=============================================================================
