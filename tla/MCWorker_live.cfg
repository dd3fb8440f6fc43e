SPECIFICATION FairSpec
CONSTANTS
  a = a
  b = b
  c = c
  d = d
  w1 = w1
  w2 = w2
  Nodes = {a, b, c, d}
  Preds <- Diamond
  Root = a
  SwitchNodes = {a}
  Workers = {w1, w2}
  NoNode = NoNode
  NoWorker = NoWorker
  MaxAttempts = 2
  SecretRetries = 1
  MayOverrun = FALSE
  MaxCrashes = 0
PROPERTIES
  Resolves
  EndedRunDrains
