--------------------------- MODULE MCResponseRace ---------------------------
(* ResponseRace for TLC: the threads are interchangeable.                  *)
EXTENDS ResponseRace, TLC

Symmetry == Permutations(Threads) \cup Permutations(Workers)
=============================================================================
