CONSTANTS
  a = a
  b = b
  c1 = c1
  c2 = c2
  s1 = s1
  s2 = s2
  NoStream = NoStream
  NoConn = NoConn
  OpId = {a, b}
  Conn = {c1, c2}
  Stream = {s1, s2}
  MaxEmits = 10
CHECK_DEADLOCK FALSE
SPECIFICATION HttpFairSpec
INVARIANTS
  ClosedOnce
  StopsOwnOperation
  CompleteIsLast
PROPERTIES
  DropEndsAll
  StreamEnds
