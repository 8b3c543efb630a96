\* What jsonify shows of a claimed message after the lock was given back.
SPECIFICATION Spec
CONSTANTS
  Threads = {t1, t2}
  Workers = {w1, w2}
  Queues = {q1}
  Ttls = {0}
  Spans = {1}
  MaxMessages = 1
  Retention = 3
  MsgBound = 1
  ClaimBound = 2
  ClockBound = 2
PROPERTIES ClaimReplyShowsOwnLease
