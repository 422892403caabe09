SPECIFICATION Spec
CONSTANTS
  Groups = {g1}
  Projects = {p1, p2}
  Deleted = {}
  NumOps = 1
  NotYet = NotYet
INVARIANTS SuccessMeansComplete
CHECK_DEADLOCK FALSE
