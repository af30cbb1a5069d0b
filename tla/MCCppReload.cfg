INIT Init
NEXT Next
CONSTANTS
  Threads = {t1, t2}
  Bodies <- MCAnyBodies
  Malformed <- MCBroken
  AdTexts <- MCAdTexts
  Domains <- MCDomains
  AuctionIds <- MCAuctionIds
  NoAuctionId <- MCNoAuctionId
  BlockWords <- MCBlockWords
  Substring <- MCSubstring
  Reloads <- MCReloads
  Reloading = TRUE
INVARIANTS TypeOK EndsForCause WinnerWasChecked AnsweredFromOneState
PROPERTIES ServesBeforeSetup
SYMMETRY ThreadSymmetry
CHECK_DEADLOCK FALSE
