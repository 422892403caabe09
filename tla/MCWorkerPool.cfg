SPECIFICATION PoolSpec
CONSTANTS
  Clients = {c1, c2}
  Workers = {w1, w2}
  Tasks = {t1, t2, t3}
  QueueSize = 2
  None = None
SYMMETRY Symmetry
INVARIANTS CloseIsIdempotent ErrorsComplete GracefulClose PanicTakesAnother
CHECK_DEADLOCK FALSE
