INIT Init
NEXT Next
CONSTANTS
  Threads = {t1}
  Bodies <- MCOneBody
  Malformed <- MCNone
  AdTexts <- MCAdTexts
  Domains <- MCDomains
  AuctionIds <- MCAuctionIds
  NoAuctionId <- MCNoAuctionId
  BlockWords <- MCBlockWords
  Substring <- MCSubstring
  Reloads <- MCUnordered
  Reloading = FALSE
INVARIANTS TieGoesToSmallestAdsId
CHECK_DEADLOCK FALSE
