CONSTANTS
  MemberIds = {"a", "b"}
  PathIds = {1}
  ExclusionIds = {}
  ObligationIds = {}
  ContractIds = {"c"}
  ResourceIds = {"pool"}
  Names = {"d1", "d2", "e", "app", "db", "z1", "z2", "r1"}
  None = None
  GrantIds = {1, 2}
  Attempts = {"x"}
  UnitCeiling = 8
  Options <- MCOptions
  Requests <- MCRenewals
  Commands <- MCNoCommands
  InitialImages <- MCClusterImages
  CancelForms = {"attempt"}
  TableLimit = 8
  JournalBound = 6
  MaxTick = 4
  MaxGeneration = 8
  MaxStarts = 3
SPECIFICATION Spec
INVARIANTS
  WriteAhead
  EndedInLogMeansEnded
  AnswersMatchAuthority
  CancelledHoldsNothing
  ToldGrantsAreDurable
  ReissueNeedsAcknowledgement
  GrantsPassSelfCheck
  LeasesAreInReach
PROPERTIES
  TerminalIsFinal
  StartsAreFenced
  LeasesEndOnTime
  ImplementsLedger
CHECK_DEADLOCK FALSE
