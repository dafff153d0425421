CONSTANTS
  Producers = {p1, p2}
  Consumers = {c1, c2}
  Items = {a, b}
  NoItem = none
  m_maxCapacity = 3
SPECIFICATION FairSpec
INVARIANTS TypeOK NoLostWakeup
PROPERTIES ImplementsDeque TakeReturns
