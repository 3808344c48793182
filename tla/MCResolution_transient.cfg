CONSTANTS
  n1 = n1
  n2 = n2
  n3 = n3
  e1 = e1
  e2 = e2
  NoInstance = NoInstance
  Provider = {n1, n2}
  Edge = {e1}
  Scopes = {"Singleton", "Transient"}
  Sources = {"constructor"}
  Kinds = {"one"}
SPECIFICATION Spec
INVARIANTS
  DependencyConstructedFirst
