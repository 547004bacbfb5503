\* Two workers; requests take up to two units of time, lists are cached for three.
SPECIFICATION FairSpec
CONSTANTS
  w1 = w1
  w2 = w2
  Nobody = Nobody
  Absent = Absent
  Workers = {w1, w2}
  cacheTTL = 3
  Timeout = 2
INVARIANTS
  TypeOK
  BoundedStaleness
  OneFetchPerTTL
PROPERTIES
  Implements
  CallsReturn
