SPECIFICATION FairSpec
CONSTANTS
  trader_num = 2
  exchange_num = 1
  stock_num = 2
  sliding_window_size = 1
  OrderNum = 2
  sorted_order_structs <- MCSorted
  Hooks <- MCHooks
  BadPrice <- MCBadPrice
  Volumes <- MCVolumes
  HighWater = 1
INVARIANTS TypeOK HooksKnown HookDecision
PROPERTIES FlowRefined AllCommitted
