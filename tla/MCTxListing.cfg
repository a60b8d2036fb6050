SPECIFICATION ListingSpec
CONSTANTS
  Known <- MCKnown
  Window = 1
  SearchLimit = 2
  BlockLimit = 1
  MaxHeight = 4
  MaxTxs = 2
  MaxTotal = 3
  MaxDown = 1
  MaxLimit = 2
  MaxPage = 2
  Type = {"send", "mint"}
  Kind <- MCKind
CHECK_DEADLOCK FALSE
INVARIANTS
  PageInOrder
  FirstPageIsNewest
