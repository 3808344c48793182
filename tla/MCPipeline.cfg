CONSTANTS
  f1 = f1
  f2 = f2
  f3 = f3
  Forbidden = Forbidden
  e1 = e1
  PlainError = PlainError
  Nothing = Nothing
  GlobalMiddleware = 1
  ControllerMiddleware = 1
  Guards = 2
  Interceptors = 2
  Filter = {f1, f2, f3}
  ControllerFilters <- OfController
  GlobalFilters <- OfRoot
  Exception = {Forbidden, e1}
  MaxCalls = 2
CHECK_DEADLOCK FALSE
SPECIFICATION FairSpec
INVARIANTS
  GuardsFirst
  CaughtByNearest
PROPERTIES
  Answered
