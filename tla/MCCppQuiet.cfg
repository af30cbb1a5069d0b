SPECIFICATION Spec
CONSTANTS
  Threads = {t1, t2}
  Bodies <- MCBodies
  Malformed <- MCNone
  AdTexts <- MCAdTexts
  Domains <- MCDomains
  AuctionIds <- MCAuctionIds
  NoAuctionId <- MCNoAuctionId
  BlockWords <- MCBlockWords
  Substring <- MCSubstring
  Reloads <- MCGenerated
  Reloading = FALSE
PROPERTIES KeepsPromise
CHECK_DEADLOCK FALSE
