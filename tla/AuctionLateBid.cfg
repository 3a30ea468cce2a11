SPECIFICATION Spec
CONSTANTS
  i1 = i1
  i2 = i2
  Nil = Nil
  IntentIDs = {i1}
  Intents <- MCIntents
  BidForms <- MCBidFormsFew
  Bids = {b1, b2}
  Entries = {e1, e2}
  VoucherBuf = 1
SYMMETRY Symmetry
INVARIANT AcceptedBidsCount
CHECK_DEADLOCK FALSE
