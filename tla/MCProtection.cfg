SPECIFICATION FairSpec
CONSTANTS
  prod = prod
  stage = stage
  dev = dev
  maint = maint
  Names = {prod, stage}
  Access = {dev, maint}
  Policies <- MCPolicies
  MaxFaults = 2
  Unset = Unset
  NoProt = NoProt
INVARIANTS Converges GapIsReported
PROPERTIES CompliantIsLeftAlone EventuallyGoverned
