SPECIFICATION FairSpec
CONSTANTS
  Groups = {g1}
  Projects = {p1, p2, p3}
  Deleted = {p3}
  NumOps = 2
  NotYet = NotYet
INVARIANTS GroupsBeforeProjects FailureReported FailuresAreIsolated
PROPERTIES QuietAfterReturn RunEnds
CHECK_DEADLOCK FALSE
