SPECIFICATION FairSpec
CONSTANTS
  External = External
  Vouchers = {v1, v2, v3}
  TxFailBuf = 1
  MaxNonce = 7
  MaxExternal = 1
  MaxFailures = 2
  MaxCrashes = 1
INVARIANTS
  TypeOK
  NoRollBackWhenOrderly
  NoReplacementWhenOrderly
  OneTxPerVoucher
  DriftNeedsInterference
PROPERTIES
  VouchersGetResolved
  
CHECK_DEADLOCK FALSE
