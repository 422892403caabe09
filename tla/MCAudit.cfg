SPECIFICATION FairSpec
CONSTANTS
  p1 = p1 p2 = p2 u1 = u1 u2 = u2 None = None
  Projects = {p1, p2}
  Users = {u1, u2}
  BotsByName = {u1}
  BotsByEmail = {u2}
  Emails = {"members", "profiles"}
  Scenarios <- MCScenarios
  Concurrencies = {1, 2}
  DirectPage = 1
  SampleMatches = {"1.*"}
  MaxFaults = 1
INVARIANTS ReportIsExact ExposureClosesGate DirectoryComplete
PROPERTY AuditEnds
CHECK_DEADLOCK FALSE
