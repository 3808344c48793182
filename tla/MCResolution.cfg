CONSTANTS
  n1 = n1
  n2 = n2
  n3 = n3
  e1 = e1
  e2 = e2
  NoInstance = NoInstance
  Provider = {n1, n2, n3}
  Edge = {e1, e2}
  Scopes = {"Singleton", "Transient"}
  Sources = {"constructor", "lazy", "override"}
  Kinds = {"one", "all"}
SPECIFICATION NamedFairSpec
INVARIANTS
  ConstructorSeesDependencies
  InstancesFollowScope
  RootCauseReported
PROPERTIES
  ImplementsOrder
  ResolveTerminates
