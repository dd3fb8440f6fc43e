SPECIFICATION DagSpec
CONSTANTS
  x = x
  y = y
  zero = zero
  one = one
  two = two
  NoName = NoName
  Size = 3
  Names = {x, y, zero}
  PositionId <- Positions
INVARIANTS
  DagTypeOK
  AcceptedIsRunOrder
  CycleReportedExactly
  HeadCarriesReachable
