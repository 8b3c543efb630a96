\* Two threads, two workers, one message that is leased up to twice.  A second
\* is enough: a lease that was nacked or has lapsed is followed by another.
SPECIFICATION Spec
CONSTANTS
  Threads = {t1, t2}
  Workers = {w1, w2}
  Span = 1
  ClaimBound = 2
  ClockBound = 1
SYMMETRY Symmetry
INVARIANTS TypeOK NoMixedReply RepliesTellOutcome
PROPERTIES ImplementsWorkLease
CHECK_DEADLOCK FALSE
