----------------------------- MODULE MCPollView -----------------------------
(* PollView with a few channels and limits for TLC.                        *)
EXTENDS PollView

AllLimits == {-1, 0, 1, 2, 3}
PositiveLimits == {2}
=============================================================================
