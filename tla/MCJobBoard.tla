----------------------------- MODULE MCJobBoard -----------------------------
(* JobBoard with a few jobs for TLC.                                       *)
EXTENDS JobBoard, TLC

Free == [deps |-> {}, wait |-> {}, notBefore |-> 0, deadline |-> NoDeadline, priority |-> 0]

After(s, delay) == [Free EXCEPT !.deps = {[step |-> s, delay |-> delay]}]

\* Two steps that are ready at once, the second of them first, and one that
\* depends on a step and waits for both at a barrier.
Review ==
  [step |-> << Free, [Free EXCEPT !.priority = 1],
               [After(1, 0) EXCEPT !.wait = {"sync", "undefined"}] >>,
   barrier |-> [b \in {"sync"} |-> [requires |-> {1, 2}, mode |-> "all_completed"]]]

\* A step that must start in the first second, and one with a gate behind a
\* barrier which the deadline may open.
Timed ==
  [step |-> << [Free EXCEPT !.deadline = 0],
               [Free EXCEPT !.wait = {"over"}, !.notBefore = 1] >>,
   barrier |-> [b \in {"over"} |-> [requires |-> {1}, mode |-> "all_terminal"]]]

\* A step that may start one second after the first is completed.
Delayed == [step |-> << Free, After(1, 1) >>, barrier |-> << >>]

\* A job that is posted again may have fewer steps.
BoardJobs == {Review, Timed, Delayed}
DelayedJobs == {Delayed}

Symmetry == Permutations(Threads)
=============================================================================
