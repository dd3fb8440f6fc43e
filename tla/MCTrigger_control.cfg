SPECIFICATION Spec
CONSTANTS
  A = A
  B = B
  d1 = d1
  d2 = d2
  e = e
  NoDef = NoDef
  Names = {A, B}
  Operated = {A}
  Defs = {d1, d2, e}
  DefsOf <- Definitions
  Triggers <- TriggerLists
  Installed <- AtFirst
  MayResubmit = FALSE
  MaxRequests = 3
  MaxCrashes = 1
  Senders = {sender}
  Strangers = {stranger}
  Callers = {caller}
  Upstream = A
  Poller = poller
  Notifier = notifier
  Mails = {m1}
  Clock = clock
  MaxEvents = 2
INVARIANTS
  TriggerTypeOK
  NoStaleSchedule
  SchedulesAgree
  AcknowledgedRuns
  MailAtMostOnce
PROPERTIES
  DisabledStaysAtRest
CHECK_DEADLOCK FALSE
