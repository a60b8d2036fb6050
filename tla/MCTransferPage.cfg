SPECIFICATION PageFairSpec
CONSTANTS
  Req = {"click 1", "click 2", "other"}
  Request <- MCRequest
  Account = {"alice", "bob"}
  Missing = "undefined"
  Alice = "alice"
  Bob = "bob"
  GenesisBal <- MCGenesisBal
  Flow = {"click 1", "click 2"}
  MaxAttempts = 2
CHECK_DEADLOCK FALSE
INVARIANTS
  ButtonGuardsFlow
  SuccessMeansSomethingSpent
PROPERTIES
  ButtonComesBack
