CONSTANTS
  Payload = 4
  U32 = 3
  I64 = 15
  Article <- mc_articles
  Probe <- mc_probe
SPECIFICATION Spec
INVARIANTS SnapshotRoundTrips RandomAccessAgrees
CHECK_DEADLOCK FALSE
