SPECIFICATION Spec
CONSTANTS
  i1 = i1
  i2 = i2
  Nil = Nil
  IntentIDs = {i1}
  Requests = {r1, r2}
  RequestForms <- MCRequestForms
  Bids = {b1, b2}
  BidMessages <- MCBidMessages
  Entries = {e1, e2}
  IntentBuf = 1
  BidBuf = 1
  VoucherBuf = 1
SYMMETRY Symmetry
INVARIANTS
  TypeOK
  OneAuctionPerRequest
  BidsInArrivalOrder
  VouchersTraceToRequests
CHECK_DEADLOCK FALSE
