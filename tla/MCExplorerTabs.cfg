SPECIFICATION FairSpec
CONSTANTS
  Form = {"mint", "real-mint"}
  BobOnly = {"real-mint"}
  MaxClicks = 3
  MaxChildren = 2
  MaxShows = 2
  MaxOthers = 2
  PageSize = 1
  Rows <- MCRows
  MaxRequests = 4
  Wallets <- MCWallets
  MaxRefreshes = 3
  MaxLoops = 2
CHECK_DEADLOCK FALSE
INVARIANTS
  OverlapsWereCut
  PanelInOrder
  BarLeadsOn
  RewardsOnce
PROPERTIES
  ButtonComesBack
