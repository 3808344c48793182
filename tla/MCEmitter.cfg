CONSTANTS
  e1 = e1
  e2 = e2
  e3 = e3
  l1 = l1
  s1 = s1
  Nothing = Nothing
  Emission = {e1, e2, e3}
  Listener = {l1}
  Subscriber = {s1}
  Capacity = 1
CHECK_DEADLOCK FALSE
SPECIFICATION OrderedFairSpec
INVARIANTS
  InOrder
PROPERTIES
  
  
  Delivered
