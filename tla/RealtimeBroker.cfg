CONSTANTS
  Stream = {s1, s2}
  Stalled = {s2}
  Publisher = {p1, p2}
  Closer = closer
  QueueSize = 2
  MaxEvents = 5
SPECIFICATION FairSpec
ACTION_CONSTRAINT NeverReads
CHECK_DEADLOCK FALSE
INVARIANTS
  DepthCounts
  NoSilentGap
  MarkerInPlace
  GaugeSettles
PROPERTIES
  EventsArrive
  StreamsEnd
