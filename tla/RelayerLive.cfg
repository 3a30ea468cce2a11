SPECIFICATION FairSpec
CONSTANTS
  i1 = i1
  i2 = i2
  Nil = Nil
  IntentIDs = {i1}
  Requests = {r1, r2}
  RequestForms <- MCRequestForms
  Bids = {}
  BidMessages <- MCBidMessages
  Entries = {e1, e2}
  IntentBuf = 2
  BidBuf = 1
  VoucherBuf = 1
PROPERTIES
  TakenIntentsGetDispatched
  WorkersStop
  SignalEndsProcess
CHECK_DEADLOCK FALSE
