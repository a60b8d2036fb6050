SPECIFICATION Spec
CONSTANTS
  Addr <- MCAddr
  AddrStr = {"alice", "bob", "feicoin", "gov", "bonded_pool", "BOB", "junk"}
  Decode <- MCDecode
  Encode <- MCEncode
  BadAddr = "bad"
  NoKey = "no key"
  FeicoinModule = "feicoin"
  Gov = "gov"
  Blocked = {"bonded_pool"}
  Denom = {"token"}
  BadDenom = "bad denom"
  MaxInt = 5
  Key = {"alice", "bob"}
  GenesisBal <- MCGenesisBal
  TxMsg <- MCTxMsg
  MaxMsgs = 2
  OtherChange <- MCOtherChange
  MaxOthers = 1
INVARIANTS
  TypeOK
  SupplyMatchesEvents
PROPERTIES
  ModuleNeverSpends
  OnlyBobMints
  AllMintsOrNone
  KeepsLedger
