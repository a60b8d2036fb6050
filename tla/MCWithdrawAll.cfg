SPECIFICATION BatchSpec
CONSTANTS
  Req = {"w1", "w2", "other"}
  Request <- MCRequest
  Account = {"alice", "bob"}
  Missing = "undefined"
  Alice = "alice"
  Bob = "bob"
  GenesisBal <- MCGenesisBal
  Rewards <- MCRewards
CHECK_DEADLOCK FALSE
INVARIANTS
  CountedAreAccepted
