------------------------------ MODULE Trigger -------------------------------
(***************************************************************************)
(* How runs start (internal/trigger): the webhook receiver, manual         *)
(* triggers, the callbacks of completed and failed runs, the scheduler's   *)
(* fires and the email poll, next to the control plane of Control.         *)
(*                                                                         *)
(* A handler reads the registry once and then starts one run per match,    *)
(* each in the three commits of runner.StartRun; requests of the control   *)
(* plane and crashes come between any two of its store calls.              *)
(***************************************************************************)
EXTENDS Control

CONSTANTS
  Senders,   \* webhook senders, on a path with a declared receiver
  Strangers, \* webhook senders on a path with none
  Callers,   \* callers of handleTrigger
  Upstream,  \* the workflow the `completed` and `failed` triggers name
  Poller,    \* the worker that handles the poll jobs
  Notifier,  \* a worker at the end of a run of Upstream
  Mails,     \* emails, in one mailbox
  Clock,     \* the cron schedules
  MaxEvents  \* bound on requests, fires and ended runs

Handlers == Senders \cup Strangers \cup Callers \cup {Poller, Notifier}

\* What a run is started by: a handler's call, an email, or a schedule.
Causes == Handlers \cup Mails \cup {Clock}

ASSUME TriggerAssumption ==
  /\ Senders \cap Strangers = {} /\ (Senders \cup Strangers) \cap Callers = {}
  /\ {Poller, Notifier} \cap (Senders \cup Strangers \cup Callers) = {} /\ Poller # Notifier
  /\ Handlers \cap Mails = {} /\ Clock \notin Handlers \cup Mails
  /\ Upstream \in Names
  /\ MaxEvents \in Nat

VARIABLES
  hd,      \* the handlers
  logged,  \* the webhook requests in the events table
  ready,   \* ready[n][c]: the runs of n by c's latest call that have their job queued
  due,     \* the scheduled jobs in the queue: task and definition
  mail,    \* each email: not there yet, unseen, or seen
  events,  \* events so far
  steady   \* the workflows a webhook request matched all along, by sender

triggerVars == <<hd, logged, ready, due, mail, events, steady>>
vars == <<controlVars, triggerVars>>

\* A run to start, for a trigger of the workflow (0: whichever).
Starts == [name : Names, trigger : Positions \cup {0}, cause : Causes]

\* pc: the next store call or IMAP command.  todo: the runs to start, in any
\* order.  got: the emails found or, once marked, fetched.
IdleHandler == [pc |-> "idle", todo |-> {}, name |-> Upstream, got |-> {}]

PCs == {"idle", "append", "verify", "list", "lookup", "create", "deps", "enqueue",
        "ok", "denied", "markSeen", "ack"}

TriggerTypeOK ==
  /\ ControlTypeOK
  /\ hd \in [Handlers -> [pc : PCs, todo : SUBSET Starts, name : Names, got : SUBSET Mails]]
  /\ logged \subseteq Senders \cup Strangers
  /\ ready \in [Names -> [Causes -> Nat]]
  /\ due \subseteq TaskNames \X Defs
  /\ mail \in [Mails -> {"away", "unseen", "seen"}]
  /\ events \in 0..MaxEvents
  /\ steady \in [Senders -> SUBSET Names]

Init ==
  /\ ControlInit
  /\ hd = [x \in Handlers |-> IdleHandler]
  /\ logged = {}
  /\ ready = [n \in Names |-> [c \in Causes |-> 0]]
  /\ due = {}
  /\ mail = [m \in Mails |-> "away"]
  /\ events = 0
  /\ steady = [s \in Senders |-> {}]

Event == events < MaxEvents /\ events' = events + 1

HGoto(x, from, to) == hd[x].pc = from /\ hd' = [hd EXCEPT ![x].pc = to]

HReturn(x, from) == hd[x].pc = from /\ hd' = [hd EXCEPT ![x] = IdleHandler]

\* The enabled workflows with a trigger of this type, as ListWorkflows gives them.
Matches(type) == {n \in Names : Registered(n) /\ row[n].enabled
                                /\ type \in ToSet(Triggers[row[n].def])}

-----------------------------------------------------------------------------
(* runner.StartRun for a run of todo: three commits *)

\* Go on with the next run, or return.
Rest(x, todo) == IF todo # {} THEN "create"
           ELSE IF x \in Senders \cup Strangers \cup Callers THEN "ok"
           ELSE IF x = Poller THEN "ack" ELSE "idle"

StartCreate(x) ==
  /\ HGoto(x, "create", "deps")
  /\ UNCHANGED <<controlVars, logged, ready, due, mail, events, steady>>

StartDeps(x) ==
  /\ HGoto(x, "deps", "enqueue")
  /\ UNCHANGED <<controlVars, logged, ready, due, mail, events, steady>>

StartEnqueue(x) ==
  /\ hd[x].pc = "enqueue"
  /\ \E run \in hd[x].todo :
       LET left == hd[x].todo \ {run} IN
       /\ ready' = [ready EXCEPT ![run.name][run.cause] = @ + 1]
       /\ hd' = [hd EXCEPT ![x] = [@ EXCEPT !.pc = Rest(x, left), !.todo = left]]
  /\ UNCHANGED <<controlVars, logged, due, mail, events, steady>>

StartRun(x) == StartCreate(x) \/ StartDeps(x) \/ StartEnqueue(x)

\* What a handler returns to its caller with an error: a webhook or a manual
\* trigger is refused; the callbacks drop the error, and a poll is acked.
OnError(x) == IF x \in Senders \cup Strangers \cup Callers THEN "denied"
              ELSE IF x = Poller THEN "ack" ELSE "idle"

\* A store call fails: the handler returns, and the runs left are dropped.
StoreFails(x) ==
  /\ hd[x].pc \in {"append", "list", "lookup", "create", "deps", "enqueue"}
  /\ hd' = [hd EXCEPT ![x] = [@ EXCEPT !.pc = OnError(x), !.todo = {}, !.got = {}]]
  /\ UNCHANGED <<controlVars, logged, ready, due, mail, events, steady>>

\* The handler x has read the registry and starts a run for each of todo.
Begin(x, todo, from, otherwise) ==
  /\ hd[x].pc = from
  /\ hd' = [hd EXCEPT ![x] = IF todo = {} THEN [IdleHandler EXCEPT !.pc = otherwise]
                             ELSE [IdleHandler EXCEPT !.pc = "create", !.todo = todo]]

\* A run for every matching trigger of every matching workflow, by cause c.
RunsOf(type, c) ==
  LET on(n) == Triggers[row[n].def]
      hits  == {h \in Matches(type) \X Positions : h[2] \in DOMAIN on(h[1]) /\ on(h[1])[h[2]] = type}
  IN  {[name |-> h[1], trigger |-> h[2], cause |-> c] : h \in hits}

-----------------------------------------------------------------------------
(* Receiver.ServeHTTP *)

\* A sender that got no answer, or a refusal, may send again.
Request(x) ==
  /\ Event
  /\ HGoto(x, "idle", "append")
  /\ steady' = IF x \in Senders THEN [steady EXCEPT ![x] = Matches("webhook")] ELSE steady
  /\ ready' = [n \in Names |-> [ready[n] EXCEPT ![x] = 0]]
  /\ UNCHANGED <<controlVars, logged, due, mail>>

AppendEvent(x) ==
  /\ HGoto(x, "append", "verify")
  /\ logged' = logged \cup {x}
  /\ UNCHANGED <<controlVars, ready, due, mail, events, steady>>

\* A path with no receiver matches nothing and is answered ok; a signature is
\* right or wrong.
Verify(x) ==
  /\ IF x \in Strangers THEN HGoto(x, "verify", "ok")
     ELSE \E to \in {"list", "denied"} : HGoto(x, "verify", to)
  /\ UNCHANGED <<controlVars, logged, ready, due, mail, events, steady>>

\* Mutant: only the first match is started.
MatchFirst(x) ==
  /\ \E some \in SUBSET RunsOf("webhook", x) :
       Cardinality(some) <= 1 /\ Begin(x, some, "list", "ok")
  /\ UNCHANGED <<controlVars, logged, ready, due, mail, events, steady>>

MatchWorkflows(x) ==
  /\ Begin(x, RunsOf("webhook", x), "list", "ok")
  /\ UNCHANGED <<controlVars, logged, ready, due, mail, events, steady>>

Reply(x) ==
  /\ \E from \in {"ok", "denied"} : HReturn(x, from)
  /\ UNCHANGED <<controlVars, logged, ready, due, mail, events, steady>>

-----------------------------------------------------------------------------
(* Manual, Completed and Failed *)

AskManual(x) ==
  /\ Event
  /\ hd[x].pc = "idle"
  /\ \E n \in Names : hd' = [hd EXCEPT ![x].pc = "lookup", ![x].name = n]
  /\ ready' = [n \in Names |-> [ready[n] EXCEPT ![x] = 0]]
  /\ UNCHANGED <<controlVars, logged, due, mail, steady>>

\* Mutant: a disabled workflow can be started by hand.
ManualWhenDisabled(x) ==
  LET n   == hd[x].name
      run == [name |-> n, trigger |-> 0, cause |-> x] IN
  /\ Begin(x, IF Registered(n) THEN {run} ELSE {}, "lookup", "denied")
  /\ UNCHANGED <<controlVars, logged, ready, due, mail, events, steady>>

Manual(x) ==
  LET n   == hd[x].name
      run == [name |-> n, trigger |-> 0, cause |-> x] IN
  /\ Begin(x, IF Registered(n) /\ row[n].enabled THEN {run} ELSE {}, "lookup", "denied")
  /\ UNCHANGED <<controlVars, logged, ready, due, mail, events, steady>>

\* A run of Upstream ended, and the worker calls OnRunComplete or OnRunFailed.
RunEnds ==
  /\ Event
  /\ HGoto(Notifier, "idle", "list")
  /\ ready' = [n \in Names |-> [ready[n] EXCEPT ![Notifier] = 0]]
  /\ UNCHANGED <<controlVars, logged, due, mail, steady>>

Completed ==
  /\ Begin(Notifier, RunsOf("completed", Notifier), "list", "idle")
  /\ UNCHANGED <<controlVars, logged, ready, due, mail, events, steady>>

Failed ==
  /\ Begin(Notifier, RunsOf("failed", Notifier), "list", "idle")
  /\ UNCHANGED <<controlVars, logged, ready, due, mail, events, steady>>

-----------------------------------------------------------------------------
(* The scheduler's fires, and the poll *)

\* Mutant: a task that is not armed fires.
FireUnarmed(t) ==
  /\ Event
  /\ due' = due \cup {<<t, task[t]>>}
  /\ UNCHANGED <<controlVars, hd, logged, ready, mail, steady>>

\* The scheduler enqueues the payload the task was armed with.
Fire(t) ==
  /\ Event
  /\ task[t] # NoDef
  /\ due' = due \cup {<<t, task[t]>>}
  /\ UNCHANGED <<controlVars, hd, logged, ready, mail, steady>>

\* A cron job is the head of its run: it runs without a look at the registry.
RunCron ==
  /\ \E j \in due :
       /\ j[1][2] = "cron"
       /\ due' = due \ {j}
       /\ ready' = [ready EXCEPT ![j[1][1]][Clock] = 1]
  /\ UNCHANGED <<controlVars, hd, logged, mail, events, steady>>

MailComes(m) ==
  /\ mail[m] = "away"
  /\ mail' = [mail EXCEPT ![m] = "unseen"]
  /\ UNCHANGED <<controlVars, hd, logged, ready, due, events, steady>>

\* handlePoll.  The helper fails (a secret, the server), and the job is acked ...
PollFails ==
  /\ hd[Poller].pc = "idle"
  /\ \E j \in due : j[1][2] = "email_received" /\ due' = due \ {j}
  /\ UNCHANGED <<controlVars, hd, logged, ready, mail, events, steady>>

\* ... or it searches the unseen emails ...
FetchNew ==
  /\ hd[Poller].pc = "idle"
  /\ \E j \in due :
       /\ j[1][2] = "email_received"
       /\ hd' = [hd EXCEPT ![Poller].pc = "markSeen", ![Poller].name = j[1][1],
                           ![Poller].got = {m \in Mails : mail[m] = "unseen"}]
  /\ UNCHANGED <<controlVars, logged, ready, due, mail, events, steady>>

\* Mutant: the emails are not marked.
MarkNothing ==
  /\ HGoto(Poller, "markSeen", "lookup")
  /\ UNCHANGED <<controlVars, logged, ready, due, mail, events, steady>>

\* ... fetches what it can of them, dropping the error of the fetch, and marks
\* them all, before any run starts.
markSeen ==
  /\ hd[Poller].pc = "markSeen"
  /\ \E fetched \in SUBSET hd[Poller].got :
       hd' = [hd EXCEPT ![Poller].pc = "lookup", ![Poller].got = fetched]
  /\ mail' = [m \in Mails |-> IF m \in hd[Poller].got THEN "seen" ELSE mail[m]]
  /\ UNCHANGED <<controlVars, logged, ready, due, events, steady>>

\* The server fails at the flag, with some of the emails marked: no run starts.
MarkFails ==
  /\ HGoto(Poller, "markSeen", "ack")
  /\ \E marked \in SUBSET hd[Poller].got :
       mail' = [m \in Mails |-> IF m \in marked THEN "seen" ELSE mail[m]]
  /\ UNCHANGED <<controlVars, logged, ready, due, events, steady>>

\* Polled: one run for each email, if the workflow is registered and enabled.
Polled ==
  LET n    == hd[Poller].name
      runs == {[name |-> n, trigger |-> 0, cause |-> m] :
                 m \in IF Registered(n) /\ row[n].enabled THEN hd[Poller].got ELSE {}} IN
  /\ hd[Poller].pc = "lookup"
  /\ hd' = [hd EXCEPT ![Poller].pc = IF runs = {} THEN "ack" ELSE "create",
                      ![Poller].todo = runs, ![Poller].got = {}]
  /\ UNCHANGED <<controlVars, logged, ready, due, mail, events, steady>>

\* The job leaves the queue at the end, so after a crash the poll is repeated.
AckPoll ==
  /\ HReturn(Poller, "ack")
  /\ due' = {j \in due : <<j[1][1], j[1][2]>> # <<hd[Poller].name, "email_received">>}
  /\ UNCHANGED <<controlVars, logged, ready, mail, events, steady>>

-----------------------------------------------------------------------------

\* A step of the control plane.
RegistryStep ==
  /\ ControlStep
  /\ steady' = [s \in Senders |->
       {n \in steady[s] : row'[n].enabled /\ "webhook" \in ToSet(Triggers[row'[n].def])}]
  /\ UNCHANGED <<hd, logged, ready, due, mail, events>>

Crash ==
  /\ ControlCrash
  /\ hd' = [x \in Handlers |-> IdleHandler]
  /\ UNCHANGED <<logged, ready, due, mail, events, steady>>

Next ==
  \/ RegistryStep
  \/ \E x \in Senders \cup Strangers :
       Request(x) \/ AppendEvent(x) \/ Verify(x) \/ MatchWorkflows(x)
  \/ \E x \in Callers : AskManual(x) \/ Manual(x)
  \/ \E x \in Senders \cup Strangers \cup Callers : Reply(x)
  \/ RunEnds \/ Completed \/ Failed
  \/ \E t \in TaskNames : Fire(t)
  \/ RunCron \/ PollFails \/ FetchNew \/ markSeen \/ MarkFails \/ Polled \/ AckPoll
  \/ \E m \in Mails : MailComes(m)
  \/ \E x \in Handlers : StartRun(x) \/ StoreFails(x)
  \/ Crash

Spec == Init /\ [][Next]_vars
-----------------------------------------------------------------------------
(* What makes the triggers correct *)

(***************************************************************************)
(* A webhook that is answered ok is in the events table and has started    *)
(* one whole run of every workflow that matched it all along, however the  *)
(* registry changes, store calls fail and handlers crash meanwhile; a run  *)
(* of which a crash or an error left only the row was never acknowledged   *)
(* (ServeHTTP, StartRun).                                                  *)
(***************************************************************************)
AcknowledgedRuns ==
  \A s \in Senders :
    /\ hd[s].pc = "ok" => s \in logged /\ \A n \in steady[s] : ready[n][s] = 1
    /\ \A n \in Names : ready[n][s] <= 1

(***************************************************************************)
(* An email starts at most one run, also when the daemon dies during the   *)
(* poll and the poll is repeated (FetchNew, markSeen, Polled).             *)
(***************************************************************************)
MailAtMostOnce ==
  \A m \in Mails : \A n1, n2 \in Names :
    ready[n1][m] <= 1 /\ (ready[n1][m] = 1 /\ ready[n2][m] = 1 => n1 = n2)

\* The workflow was disabled, and what was under way then is over.
AtRest(n) ==
  /\ settled[n] = "disable" /\ (req.pc = "idle" \/ req.name # n)
  /\ \A x \in Handlers : \A run \in hd[x].todo : run.name # n
  /\ \A j \in due : j[1][1] # n \/ j[1][2] # "cron"

(***************************************************************************)
(* A disabled workflow stays at rest until the next request about it: no   *)
(* webhook, manual or poll handler picks it up, no schedule fires for it,  *)
(* and no run of it starts (SetWorkflowEnabled, syncCron).                 *)
(***************************************************************************)
DisabledStaysAtRest ==
  [][\A n \in Names : AtRest(n) =>
       /\ AtRest(n)' \/ (req'.pc # "idle" /\ req'.name = n)
       /\ \A c \in Causes : ready'[n][c] <= ready[n][c]]_vars
=============================================================================
