SPECIFICATION FairSpec
CONSTANTS
  Traders = {1, 2}
  Files <- MCFiles
  MsgNum = 4
INVARIANTS StreamKept PortsFree
PROPERTIES AllReceived
CHECK_DEADLOCK FALSE
