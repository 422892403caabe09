SPECIFICATION Spec
CONSTANTS
  Slots = {1, 2}
  Targets = {t1, t2}
  ChangeDate = 10
  FreeTierMaxProjects = 2
  Tokens = {"good", "old", "revoked", "forged", "small", "host", "group", "pro", "lambda", "none"}
  Attributes <- MCAttributes
  NoToken = ""
  Unreadable = "unreadable"
  Policies <- MCPolicies
  Payloads <- MCPayloads
  Scheduled <- MCScheduled
  S3Records <- MCS3Records
  Licenses <- MCLicenses
  Situations <- MCSituations
  MaxEdits = 1
  MaxManual = 1
  MaxFaults = 1
INVARIANTS LicenseIsEnforced
PROPERTIES AnswerIsTruthful WritesAreAuthorized LatestPolicyWins
