INIT Init
NEXT Next
CONSTANTS
  Bodies <- MCTwo
  Malformed <- MCNone
  n_thread = 1
  AdTexts <- MCAdTexts
  Domains <- MCDomains
  AuctionIds <- MCAuctionIds
  NoAuctionId <- MCNoAuctionId
  BlockWords <- MCBlockWords
  Substring <- MCSubstring
  Reloads <- MCUnset
  Reloading = FALSE
INVARIANTS FeatureOrNone
CHECK_DEADLOCK FALSE
