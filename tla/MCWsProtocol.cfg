CONSTANTS
  a = a
  b = b
  s1 = s1
  s2 = s2
  s3 = s3
  NoStream = NoStream
  Id = {a, b}
  Stream = {s1, s2, s3}
  MaxFrames = 5
CHECK_DEADLOCK FALSE
SPECIFICATION FairSpec
INVARIANTS
  ClosedOnce
  StopsOwnStream
PROPERTIES
  ImplementsStreams
  StreamsEnd
