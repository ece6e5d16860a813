\* One strategy, created twice, three versions: safety and the log refinement.
SPECIFICATION Spec
CONSTANTS
  NoId = NoId
  Strategies = {s1}
  Ids = {i1, i2}
  Versions = {1, 2, 3}
  QueueCap = 2
  MaxLate = 1
SYMMETRY Interchangeable
INVARIANTS TypeOK NoLostMirror MirrorOwnTargets
PROPERTIES MirrorNeverOlder DrainedExitLosesNothing RefinesTargetLog
