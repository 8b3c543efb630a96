\* Two messages of one queue, and a worker that may claim twice: the leases,
\* the order of the deliveries, and the abstract leases.
SPECIFICATION Spec
CONSTANTS
  Threads = {t1, t2}
  Workers = {w1}
  Queues = {q1}
  Ttls = {0}
  Spans = {1}
  MaxMessages = 2
  Retention = 1
  MsgBound = 2
  ClaimBound = 2
  ClockBound = 2
SYMMETRY Symmetry
INVARIANTS TypeOK LeaseExclusion GrantStaysValid RemovalIsFinal FirstDeliveriesInOrder
PROPERTIES RemovalsJustified ImplementsWorkLease
