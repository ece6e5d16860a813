\* A reserve of at most four units; payouts never land inside a reconciliation.
SPECIFICATION FairSpec
CONSTANTS
  NoOp = NoOp
  OpIds = {q1, q2}
  Required = 2
  RefillTrigger = 3
  RefillTarget = 4
  FuturesTrigger = 0
  FuturesTarget = 2
  FuturesSweep = 3
  EarnMin = 1
  LatePayout = FALSE
INVARIANTS TypeOK  
PROPERTIES HedgeOnSettled SettlesItself
