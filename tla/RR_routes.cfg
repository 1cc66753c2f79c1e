CONSTANTS
  Segs = {a, one}
  Ints = {one}
  Params = {p, n}
  IntParams = {n}
  Wild = wild
  None = none
  Methods = {GET, WS}
  Get = GET
  Ws = WS
  MaxLen = 2
  MaxRoutes = 3
SPECIFICATION RoutersSpec
CHECK_DEADLOCK FALSE
INVARIANTS BestRouteFound FittingServed
