SPECIFICATION SecretsSpec
CONSTANTS
  env = env
  pull = pull
  box1 = box1
  box2 = box2
  SecretNames = {env, pull, box1, box2}
  Source <- Sources
  FirstValue <- NoValues
  Sealers = {seal}
  MaxVersion = 2
  MaxSeals = 3
INVARIANTS
  PushedValueServed
