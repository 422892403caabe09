SPECIFICATION FairSpec
CONSTANTS
  g1 = g1
  g2 = g2
  g3 = g3
  p1 = p1
  p2 = p2
  p3 = p3
  Groups = {g1, g2, g3}
  Projects = {p1, p2, p3}
  Info <- MCInfo
  Filters <- MCFilters
  MaxDepths = {0, 1}
  Concurrency = 2
  Trees <- MCTrees
  RootSets <- MCRootSets
  ExcludedSets <- MCExcludedSets
  ProjectLists <- MCProjectLists
  NoFleet = NoFleet
INVARIANTS MatchedIsReach FleetIsReach
PROPERTIES DiscoveryEnds
CHECK_DEADLOCK FALSE
