\* Two threads post and poll a small store: the retention.
SPECIFICATION Spec
CONSTANTS
  Threads = {t1, t2}
  Workers = {w1}
  Queues = {q1}
  Ttls = {0, 1}
  Spans = {1}
  MaxMessages = 1
  Retention = 2
  MsgBound = 3
  ClaimBound = 0
  ClockBound = 3
SYMMETRY Symmetry
INVARIANTS SizeBound
PROPERTIES RemovalsJustified
