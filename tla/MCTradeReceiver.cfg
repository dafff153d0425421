SPECIFICATION Spec
CONSTANTS
  Stocks = {1, 2}
  Volumes = {1, 2}
  Hooked <- MCHooked
  TRADE_BUF_THRESHOLD = 2
  MaxTrades = 3
INVARIANTS FileIsPrefix LossBounded HooksFollowTrades
CHECK_DEADLOCK FALSE
