---------------------------- MODULE MCMessageBus ----------------------------
(* MessageBus with small sets of threads, workers and queues for TLC.      *)
EXTENDS MessageBus, TLC

Symmetry == Permutations(Threads) \cup Permutations(Workers)
=============================================================================
