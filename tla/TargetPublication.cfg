\* One strategy with two accounts, two publishes at a time.
SPECIFICATION Spec
CONSTANTS
  s1 = s1
  s2 = s2
  b1 = b1
  b2 = b2
  NoId = NoId
  NoRequest = NoRequest
  NoStrategy = NoStrategy
  Strategies = {s1}
  Ids = {i1}
  Versions = {1, 2, 3}
  Bindings = {b1, b2}
  StrategyOf <- TwoAccounts
  MaxShares = 1
  Requests = {r1, r2}
SYMMETRY Interchangeable
INVARIANTS TypeOK StopHolds
PROPERTIES ExecCarriesLive OkMeansPublished
