SPECIFICATION FairSpec
CONSTANTS
  Req = {"r1", "r2", "r3", "r4", "r5"}
  Request <- MCRequest
  Account = {"alice", "bob"}
  Missing = "undefined"
  Alice = "alice"
  Bob = "bob"
  GenesisBal <- MCGenesisBal
CHECK_DEADLOCK FALSE
INVARIANTS
  MempoolInSequence
  OnePerSequence
  ErrorsAreTrue
PROPERTIES
  KeepsService
  EveryRequestAnswered
