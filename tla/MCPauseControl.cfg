SPECIFICATION Spec
CONSTANTS
  Senders <- MCSenders
  Receivers <- MCReceivers
  IsTrader = TRUE
  Disciplined = TRUE
INVARIANTS TypeOK StoppedIsQuiet SocketExclusive
CHECK_DEADLOCK FALSE
