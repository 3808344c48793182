CONSTANTS
  a = a
  b = b
  s1 = s1
  s2 = s2
  s3 = s3
  NoStream = NoStream
  Id = {a}
  Stream = {s1, s2}
  MaxFrames = 4
CHECK_DEADLOCK FALSE
SPECIFICATION Spec
INVARIANTS
  StopOpIsOwn
