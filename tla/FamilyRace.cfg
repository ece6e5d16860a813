\* Two bindings, two templates; Exec may switch families during a publish.
SPECIFICATION Spec
CONSTANTS
  Strategies = {b1, b2}
  Virtuals = {v1, v2}
  OrderNames = {o1, o2}
  batch = batch
  chase = chase
  Orders = {batch, chase}
  FamilyOf <- OneOfEach
  None = None
  MaxShares = 2
  MaxMultiplier = 1
  MaxLosses = 0
  MaxEdits = 3
  Overlap = TRUE
SYMMETRY Interchangeable
INVARIANTS OneFamily
CHECK_DEADLOCK FALSE
