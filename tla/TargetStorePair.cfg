\* Two strategies: a creation's load runs beside admissions of the other one.
SPECIFICATION Spec
CONSTANTS
  NoId = NoId
  Strategies = {s1, s2}
  Ids = {i1}
  Versions = {1, 2}
  QueueCap = 1
  MaxLate = 1
SYMMETRY Interchangeable
PROPERTIES MemoryNeverOlder
