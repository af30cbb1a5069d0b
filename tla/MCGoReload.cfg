SPECIFICATION Spec
CONSTANTS
  Bodies <- MCTwo
  N_Thread = 1
  Outages = TRUE
  NoDomain <- MCNoDomain
  AdTexts <- MCAdTexts
  Domains <- MCGoDomains
  AuctionIds <- MCGoAuctionIds
  NoAuctionId <- MCNoAuctionId
  BlockWords <- MCBlockWords
  Substring <- MCGoSubstring
  Reloads <- MCReloads
  Reloading = TRUE
INVARIANTS TypeOK ServedAsChecked AnsweredFromOneState
PROPERTIES ServesBeforeSetup EveryRequestAnswered
CHECK_DEADLOCK FALSE
