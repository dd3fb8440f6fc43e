SPECIFICATION SuspendFairSpec
CONSTANTS
  a = a
  b = b
  c = c
  d = d
  w1 = w1
  s1 = s1
  approve = approve
  ok = ok
  NoNode = NoNode
  NoWorker = NoWorker
  NoName = NoName
  Nodes = {a, b, c, d}
  Preds <- Fork
  Root = a
  Workers = {w1}
  MaxAttempts = 1
  SecretRetries = 1
  SwitchNodes = {}
  MayOverrun = TRUE
  MaxCrashes = 1
  WaitNodes = {b, c}
  Names = {approve}
  SignalName <- SignalB
  TimerNodes = {c}
  Senders = {s1}
  Payloads = {ok}
  MaxSignals = 2
INVARIANTS
  SuspendTypeOK
  PendingExact
  EnqueuedAfterDependencies
  ParkedIsUnresumed
PROPERTIES
  TimerResumes
CHECK_DEADLOCK FALSE
