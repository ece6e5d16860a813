\* Two bindings, two templates; Exec switches families between two publishes.
SPECIFICATION Spec
CONSTANTS
  Strategies = {b1, b2}
  Virtuals = {v1, v2}
  OrderNames = {o1}
  batch = batch
  chase = chase
  Orders = {batch, chase}
  FamilyOf <- OneOfEach
  None = None
  MaxShares = 2
  MaxMultiplier = 1
  MaxLosses = 1
  MaxEdits = 3
  Overlap = FALSE
SYMMETRY Interchangeable
INVARIANTS TypeOK EffectiveShares FollowersServed OneFamily
CHECK_DEADLOCK FALSE
