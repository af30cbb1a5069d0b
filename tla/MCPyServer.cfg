SPECIFICATION Spec
CONSTANTS
  Bodies <- MCAny
  Malformed <- MCBroken
  n_thread = 1
  AdTexts <- MCAdTexts
  Domains <- MCDomains
  AuctionIds <- MCAuctionIds
  NoAuctionId <- MCNoAuctionId
  BlockWords <- MCBlockWords
  Substring <- MCSubstring
  Reloads <- MCPyReloads
  Reloading = TRUE
INVARIANTS TypeOK AnsweredFromOneState FailsForCause WinnerWasChecked
PROPERTIES ServesBeforeSetup EveryRequestSettled
CHECK_DEADLOCK FALSE
