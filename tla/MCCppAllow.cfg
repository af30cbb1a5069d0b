INIT Init
NEXT Next
CONSTANTS
  Threads = {t1}
  Bodies <- MCOneBody
  Malformed <- MCNone
  AdTexts <- MCAdTexts
  Domains <- MCDomains
  AuctionIds <- MCAuctionIds
  NoAuctionId <- MCNoAuctionId
  BlockWords <- MCBlockWords
  Substring <- MCSubstring
  Reloads <- MCUncategorised
  Reloading = FALSE
INVARIANTS AllowListEnforced
CHECK_DEADLOCK FALSE
