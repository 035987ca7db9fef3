------------------------------ MODULE MCWsLink ------------------------------
(***************************************************************************)
(* Scripts with each kind of frame in each place that matters: messages of *)
(* one and of several frames, at the cap and over it, a control frame      *)
(* between messages and inside one, and frames that are not allowed.       *)
(***************************************************************************)
EXTENDS WsLink

F(op, fin, len) == [fin |-> fin, op |-> op, len |-> len, ok |-> TRUE]

MCScripts == {
  <<F("binary", TRUE, 2), F("binary", TRUE, 1)>>,
  <<F("binary", FALSE, 1), F("continuation", TRUE, 1), F("binary", TRUE, 0)>>,
  <<F("binary", FALSE, 1), F("continuation", TRUE, 2)>>,
  <<F("binary", FALSE, 1), F("ping", TRUE, 0), F("continuation", TRUE, 1)>>,
  <<F("ping", TRUE, 1), F("binary", TRUE, 1), F("close", TRUE, 0)>>,
  <<F("binary", TRUE, 3)>>,
  <<F("text", TRUE, 1)>>,
  <<F("continuation", TRUE, 1)>>,
  <<[fin |-> FALSE, op |-> "ping", len |-> 0, ok |-> FALSE]>> }
=============================================================================
