SPECIFICATION Spec
CONSTANTS
  a = a
  b = b
  c = c
  NoNode = NoNode
  Nodes = {a, b, c}
  Preds <- Chain
  Root = a
  MaxAttempts = 2
  op = op
  auto = auto
  Operators = {op}
  RerunNodes = {auto}
  MaxReruns = 2
  MaxCrashes = 1
INVARIANTS
  RerunTypeOK
  RerunCompletesTheRun
  ContinueRepeatsNothing
  RerunPendingExact
CHECK_DEADLOCK FALSE
