SPECIFICATION SuspendSpec
CONSTANTS
  a = a
  b = b
  c = c
  d = d
  w1 = w1
  s1 = s1
  approve = approve
  ok = ok
  NoNode = NoNode
  NoWorker = NoWorker
  NoName = NoName
  Nodes = {a, b}
  Preds <- Chain
  Root = a
  Workers = {w1}
  MaxAttempts = 1
  SecretRetries = 1
  SwitchNodes = {}
  MayOverrun = FALSE
  MaxCrashes = 0
  WaitNodes = {a}
  Names = {approve}
  SignalName <- SignalA
  TimerNodes = {}
  Senders = {s1}
  Payloads = {ok}
  MaxSignals = 1
INVARIANTS
  NoMissedSignal
CHECK_DEADLOCK FALSE
