CONSTANTS
  trader_num = 2
  sliding_window_size = 2
  OrderNum = 5
SPECIFICATION FairSpec
INVARIANTS TypeOK NoCollision AcksMonotone InOrder BatchBounded ChannelBounded
PROPERTIES AllCommitted AllAcked
