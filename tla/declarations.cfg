CONSTANTS
  MemberIds = {"a", "b"}
  PathIds = {1}
  ExclusionIds = {1}
  ObligationIds = {"o"}
  ContractIds = {"c"}
  ResourceIds = {"pool"}
  Names = {"d1", "d2", "e", "app", "db", "z1", "z2", "r1"}
  None = None
  GrantIds = {1, 2}
  Attempts = {"x"}
  UnitCeiling = 8
  Options <- MCOptions
  Requests <- MCSingle
  Commands <- MCDeclarations
  InitialImages <- MCBootstrapImages
  CancelForms = {"attempt"}
  TableLimit = 8
  JournalBound = 0
  MaxTick = 3
  MaxGeneration = 6
  MaxStarts = 2
SPECIFICATION Spec
INVARIANTS
  SpecReplays
CHECK_DEADLOCK FALSE
