SPECIFICATION Spec
CONSTANTS
  Senders <- MCSenders
  Receivers <- MCReceivers
  IsTrader = TRUE
  Disciplined = FALSE
INVARIANT StoppedIsQuiet
CHECK_DEADLOCK FALSE
