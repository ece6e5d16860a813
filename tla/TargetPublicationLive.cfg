\* Two strategies, one with an account, under the fairness of the locks.
SPECIFICATION FairSpec
CONSTANTS
  s1 = s1
  s2 = s2
  b1 = b1
  b2 = b2
  NoId = NoId
  NoRequest = NoRequest
  NoStrategy = NoStrategy
  Strategies = {s1, s2}
  Ids = {i1}
  Versions = {1, 2}
  Bindings = {b1}
  StrategyOf <- OneAccount
  MaxShares = 1
  Requests = {r1, r2}
PROPERTIES RequestAnswered EditsTakeTurns
