SPECIFICATION Spec
CONSTANTS
  i1 = i1
  i2 = i2
  Nil = Nil
  IntentIDs = {i1}
  Requests = {r1}
  RequestForms <- MCRequestForms
  Bids = {b1}
  BidMessages <- MCBidMessages
  Entries = {e1}
  IntentBuf = 1
  BidBuf = 1
  VoucherBuf = 1
INVARIANT RejectedBidsAreLate
CHECK_DEADLOCK FALSE
