SPECIFICATION FairSpec
CONSTANTS
  External = External
  Vouchers = {v1, v2}
  TxFailBuf = 1
  MaxNonce = 3
  MaxExternal = 0
  MaxFailures = 1
  MaxCrashes = 0
PROPERTIES
  SubmittedGetsMined
CHECK_DEADLOCK FALSE
