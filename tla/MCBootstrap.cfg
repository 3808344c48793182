CONSTANTS
  m1 = m1
  m2 = m2
  m3 = m3
  p1 = p1
  p2 = p2
  p3 = p3
  c1 = c1
  t1 = t1
  t2 = t2
  t3 = t3
  NoModule = NoModule
  NoType = NoType
  Module = {m1, m2, m3}
  Provider = {p1, p2, p3}
  Controller = {c1}
  Type = {t1, t2, t3}
  Scripts <- AllScripts
CHECK_DEADLOCK FALSE
SPECIFICATION FairSpec
INVARIANTS
  Assembled
  OnlyVisible
  CyclesFound
  FreshForNew
PROPERTIES
  BootsEnd
