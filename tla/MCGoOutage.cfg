INIT Init
NEXT Next
CONSTANTS
  Bodies <- MCOne
  N_Thread = 2
  Outages = TRUE
  NoDomain <- MCNoDomain
  AdTexts <- MCAdTexts
  Domains <- MCGoDomains
  AuctionIds <- MCGoAuctionIds
  NoAuctionId <- MCNoAuctionId
  BlockWords <- MCBlockWords
  Substring <- MCGoSubstring
  Reloads <- MCReloads
  Reloading = FALSE
INVARIANTS ServedOnlyIfRead
CHECK_DEADLOCK FALSE
