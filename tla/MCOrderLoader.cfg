SPECIFICATION Spec
CONSTANTS
  NX = 4
  NY = 2
  NZ = 2
  stock_num = 2
  Data <- MCData
  num_partition = 3
  Unwritten <- MCUnwritten
  MaxStarts = 3
INVARIANTS GivenSorted 
CHECK_DEADLOCK FALSE
