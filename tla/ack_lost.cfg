CONSTANTS
  MemberIds = {"a", "b"}
  PathIds = {1}
  ExclusionIds = {}
  ObligationIds = {}
  ContractIds = {"c"}
  ResourceIds = {"pool"}
  Names = {"d1", "d2", "e", "app", "db", "z1", "z2", "r1"}
  None = None
  GrantIds = {1, 2}
  Attempts = {"x"}
  UnitCeiling = 8
  Options <- MCOptions
  Requests <- MCRenewals
  Commands <- MCNoCommands
  InitialImages <- MCClusterImages
  CancelForms = {"attempt", "grant"}
  TableLimit = 8
  JournalBound = 0
  MaxTick = 6
  MaxGeneration = 9
  MaxStarts = 4
SPECIFICATION Spec
INVARIANTS
  AcknowledgedIsSettled
CHECK_DEADLOCK FALSE
