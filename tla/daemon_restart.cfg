CONSTANTS
  MemberIds = {"a", "b"}
  PathIds = {1}
  ExclusionIds = {}
  ObligationIds = {}
  ContractIds = {"c"}
  ResourceIds = {"pool"}
  Names = {"d1", "d2", "e", "app", "db", "z1", "z2", "r1"}
  None = None
  GrantIds = {1, 2}
  Attempts = {"x"}
  UnitCeiling = 8
  Options <- MCDaemonOptions
  Requests <- MCRenewals
  Commands <- MCNoCommands
  InitialImages <- MCClusterImages
  CancelForms = {"attempt", "grant"}
  TableLimit = 8
  JournalBound = 0
  MaxTick = 3
  MaxGeneration = 6
  MaxStarts = 2
SPECIFICATION Spec
INVARIANTS
  ToldGrantsAreDurable
CHECK_DEADLOCK FALSE
