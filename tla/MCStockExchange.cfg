CONSTANTS
  Orders <- MCOrders
  upper_limit = 3
  MaxLevels = 2
  Reorder = 3
  NoOrder = NoOrder
SPECIFICATION FairSpec
CHECK_DEADLOCK FALSE
INVARIANTS TypeOK BookUncrossed VolumeConserved FokCovered TradesInIdOrder
PROPERTIES ImplementsRules ReadyOrdersCommit
