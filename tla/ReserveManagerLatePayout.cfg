\* Payouts may land between the balance read and the history query of a round.
SPECIFICATION Spec
CONSTANTS
  NoOp = NoOp
  OpIds = {q1, q2}
  Required = 1
  RefillTrigger = 2
  RefillTarget = 4
  FuturesTrigger = 0
  FuturesTarget = 1
  FuturesSweep = 2
  EarnMin = 1
  LatePayout = TRUE
PROPERTIES RefillStartsLow
