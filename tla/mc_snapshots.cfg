\* Three requests, updates that fail at either point, under fairness.
SPECIFICATION FairSpec
CONSTANTS
  Request = {q1, q2, q3}
  Faults = {"memory", "encode"}
INVARIANTS
  CacheTypeOK
  SnapshotIsFresh
PROPERTIES
  ScrapesNeverGoBack
  RecordsAreExported
