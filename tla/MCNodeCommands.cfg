SPECIFICATION Spec
CONSTANTS
  Validator = {"v1", "v2"}
  Delegation <- MCDelegation
  SelfDelegation <- MCSelfDelegation
  BadAddr = "no address"
  MaxHeight = 3
  MaxPeriod = 7
  MaxExports = 1
  MaxNodes = 3
  MaxRuns = 3
  NoFile = NoFile
  Operator = {"o1", "o2", "o3"}
  MainnetKey <- MCMainnetKey
  NewKey = "k4"
  Account = {"a", "b"}
  Lists <- MCLists
  NoText = ""
  Nobody = "nobody"
  MaxCommands = 2
CHECK_DEADLOCK FALSE
INVARIANTS
  HoldingsMatch
  ClaimsCovered
  ReferencesCounted
  NoFutureHeight
  PanicsWithListOnly
  OneGenesis
  RetryWorks
  BlocksGoOn
  FundedAsAsked
