\* One strategy, two admissions after its creation, under the fairness of the worker loops.
SPECIFICATION FairSpec
CONSTANTS
  NoId = NoId
  Strategies = {s1}
  Ids = {i1}
  Versions = {1, 2, 3}
  QueueCap = 2
  MaxLate = 1
PROPERTIES StoresCatchUp AdmissionReopens
