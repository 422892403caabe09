SPECIFICATION FairSpec
CONSTANTS
  Want = Want
  Junk = Junk
  MaxFaults = 3
  Absent = Absent
  NoBranch = NoBranch
INVARIANTS FileIsCovered OneMergeRequest
PROPERTIES BecomesCompliant
