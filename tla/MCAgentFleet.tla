---------------------------- MODULE MCAgentFleet ----------------------------
(* AgentFleet for TLC: an id that ID_RE cuts, and a proper one.            *)
EXTENDS AgentFleet, TLC

Two == 1..2
Long == {1}
Proper == {2}
=============================================================================
