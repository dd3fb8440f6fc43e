SPECIFICATION Spec
CONSTANTS
  r1 = r1
  r2 = r2
  env = env
  pull = pull
  box = box
  SecretNames = {env, pull, box}
  Source <- Sources
  Sealers = {}
  MaxVersion = 1
  MaxSeals = 1
  FirstValue <- FirstValues
  Runs = {r1, r2}
  NoRun = NoRun
  Keys = {"k", "null"}
  KeyExpr <- SameEvent
  SecretsOf <- NodeSecrets
  MaxAttempts = 2
  SecretRetries = 2
  MaxRecords = 2
  MaxFaults = 1
  MaxOverruns = 1
SYMMETRY RunSymmetry
INVARIANTS
  NodesTypeOK
  DedupeOnce
  NoRecordLost
  EmittedOnce
CHECK_DEADLOCK FALSE
