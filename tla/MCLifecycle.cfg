SPECIFICATION FairSpec
CONSTANTS
  MaxSignals = 2
INVARIANT StartupSafe
PROPERTIES SignalEndsUnlessNested
CHECK_DEADLOCK FALSE
