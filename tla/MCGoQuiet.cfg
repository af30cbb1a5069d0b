SPECIFICATION Spec
CONSTANTS
  Bodies <- MCThree
  N_Thread = 2
  Outages = FALSE
  NoDomain <- MCNoDomain
  AdTexts <- MCAdTexts
  Domains <- MCGoDomains
  AuctionIds <- MCGoAuctionIds
  NoAuctionId <- MCNoAuctionId
  BlockWords <- MCBlockWords
  Substring <- MCGoSubstring
  Reloads <- MCQuiet
  Reloading = FALSE
INVARIANTS ThreadsAreCounted
PROPERTIES KeepsPromise EveryRequestAnswered
CHECK_DEADLOCK FALSE
