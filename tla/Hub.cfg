SPECIFICATION FairSpec
CONSTANTS
  Clients = {c1}
  Broadcasts = {b1, b2, b3}
  SendBuf = 1
  BidBuf = 1
INVARIANTS
  TypeOK
  NoPanic
  OpenIffRegistered
  RegisteredSolversMissNothing
PROPERTY
  ClientsGetCleanedUp
CHECK_DEADLOCK FALSE
