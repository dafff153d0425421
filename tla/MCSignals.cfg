SPECIFICATION FairSpec
CONSTANTS
  MaxSignals = 2
PROPERTIES SignalEnds
CHECK_DEADLOCK FALSE
