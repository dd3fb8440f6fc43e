SPECIFICATION Spec
CONSTANTS
  s = s
  f = f
  b = b
  p = p
  q = q
  r = r
  t = t
  Nodes = {s, f, b, p, q, r, t}
  Preds <- Routed
  RunOrder <- RoutedOrder
  Loop = f
  Body = b
  SwitchNodes = {s}
  MaxItems = 3
  MaxAttempts = 2
  MaxCrashes = 2
INVARIANTS
  ForeachTypeOK
  RejoinCollectsAll
  CompletedRanAll
  IterationsOnce
CHECK_DEADLOCK FALSE
