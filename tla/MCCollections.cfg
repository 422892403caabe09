SPECIFICATION FairCollectionsSpec
CONSTANTS
  Policies <- MCPolicies
  System = {"owners"}
  PageSize = 3
  MaxEntries = 4
  MaxFaults = 2
INVARIANTS ListConverges
PROPERTIES NoNeedlessCopy OrderIsKept EventuallyInLine
