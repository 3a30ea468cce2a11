SPECIFICATION FairSpec
CONSTANTS
  i1 = i1
  i2 = i2
  Nil = Nil
  IntentIDs = {i1, i2}
  Intents <- MCIntents
  BidForms <- MCBidForms
  Bids = {b1, b2}
  Entries = {e1, e2}
  VoucherBuf = 1
INVARIANTS
  TypeOK
  RegistryMatchesGoroutines
  BidsInTheirAuction
  WinnerIsFirstBest
  VouchersAreWinners
  InTimeBidsCount
PROPERTIES
  EntryHeldUntilOutcome
  ImplementsAuction
  AuctionsClose
CHECK_DEADLOCK FALSE
