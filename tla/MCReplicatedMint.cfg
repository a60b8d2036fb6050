SPECIFICATION Spec
CONSTANTS
  Addr <- MCAddr
  AddrStr <- MCAddr
  Decode <- MCDecode
  Encode <- MCEncode
  BadAddr = "bad"
  NoKey = "no key"
  FeicoinModule = "feicoin"
  Gov = "gov"
  Blocked = {}
  Denom = {"token"}
  BadDenom = "bad denom"
  MaxInt = 5
  Node = {n1, n2, n3, n4}
  KeyringChoice = {"bob", "no key"}
  GenesisBal <- MCGenesisBal
  TxMsg <- MCOneTxMsg
  None = None
  MaxHeight = 2
CHECK_DEADLOCK FALSE
INVARIANTS
  AgreedOutcome
  DivergenceIsConfined
SYMMETRY NodeSymmetry
