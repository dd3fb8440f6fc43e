SPECIFICATION Spec
CONSTANTS
  a = a
  b = b
  c = c
  d = d
  w1 = w1
  w2 = w2
  Nodes = {a, b, c, d}
  Preds <- Diamond
  Root = a
  SwitchNodes = {a}
  Workers = {w1, w2}
  NoNode = NoNode
  NoWorker = NoWorker
  MaxAttempts = 1
  SecretRetries = 1
  MayOverrun = TRUE
  MaxCrashes = 1
SYMMETRY Symmetry
INVARIANTS
  TypeOK
  CompletedMeansAllDone
  StartsAfterDependencies
  IssuedOnce
  PendingExact
