CONSTANTS
  MemberIds = {"a", "b"}
  PathIds = {1}
  ExclusionIds = {}
  ObligationIds = {}
  ContractIds = {"c"}
  ResourceIds = {"pool"}
  Names = {"d1", "d2", "e", "app", "db", "z1", "z2", "r1"}
  None = None
  GrantIds = {1, 2}
  Attempts = {"x", "y"}
  UnitCeiling = 8
  Options <- MCOptions
  Requests <- MCContention
  Commands <- MCNoCommands
  InitialImages <- MCContendedImages
  CancelForms = {"attempt"}
  TableLimit = 8
  JournalBound = 0
  MaxTick = 3
  MaxGeneration = 6
  MaxStarts = 2
SPECIFICATION Spec
INVARIANTS
  TypeOK
  OneGrantPerAttempt
  CapacityIsHonoured
PROPERTIES
  IdentityIsKept
CHECK_DEADLOCK FALSE
