SPECIFICATION Spec
CONSTANTS
  External = External
  Vouchers = {v1, v2, v3, v4, v5, v6}
  TxFailBuf = 1
  MaxNonce = 7
  MaxExternal = 0
  MaxFailures = 2
  MaxCrashes = 1
SYMMETRY Symmetry
INVARIANT
  CounterAboveOwn
CHECK_DEADLOCK FALSE
