SPECIFICATION FairSpec
CONSTANTS
  N = 3
  Workers = {w1, w2}
  Tasks <- MCTasks
  QueueSize = 3
  Caller = caller
  Clients = {caller}
  None = None
  NotYet = NotYet
INVARIANTS NoSilentFailure
PROPERTIES PromiseSpec Returns
CHECK_DEADLOCK FALSE
