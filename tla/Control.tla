------------------------------ MODULE Control -------------------------------
(***************************************************************************)
(* The control plane's workflow registry and the schedules it keeps in the *)
(* Honker scheduler: submit, update, enable and disable (daemon.go).       *)
(*                                                                         *)
(* A workflow's row and each of its scheduled tasks are separate commits,  *)
(* so a request is a sequence of store calls that a crash may cut.  One    *)
(* client makes the requests, one at a time.                               *)
(***************************************************************************)
EXTENDS Integers, Sequences, FiniteSets, SequencesExt

CONSTANTS
  Names,       \* workflow names
  Operated,    \* the names the client makes requests about
  Defs,        \* workflow definitions
  DefsOf,      \* DefsOf[n]: the definitions that have the name n
  Triggers,    \* Triggers[d]: the types of d's triggers, in order
  Installed,   \* Installed[n]: the definition registered at first, or NoDef
  NoDef,       \* "not registered", "not armed"
  MayResubmit, \* may a name in use be submitted again?
  MaxRequests, \* bound on the client's requests
  MaxCrashes   \* bound on the daemon's crashes

Scheduled == {"cron", "email_received"}
TriggerTypes == Scheduled \cup {"webhook", "completed", "failed"}

ASSUME ControlAssumption ==
  /\ Operated \subseteq Names
  /\ NoDef \notin Defs
  /\ DefsOf \in [Names -> SUBSET Defs]
  /\ Triggers \in [Defs -> Seq(TriggerTypes)]
  /\ Installed \in [Names -> Defs \cup {NoDef}]
  /\ \A n \in Operated : Installed[n] = NoDef
  /\ MayResubmit \in BOOLEAN /\ MaxRequests \in Nat /\ MaxCrashes \in Nat

VARIABLES
  row,      \* workflows: definition and enabled, by name
  task,     \* the scheduled tasks: the definition each was armed with
  req,      \* the request in progress
  settled,  \* the latest request about each name, or "cut" by a crash or an error
  requests, \* requests so far
  crashes   \* crashes so far

controlVars == <<row, task, req, settled, requests, crashes>>

Ops == {"submit", "update", "enable", "disable"}

\* A task is named by workflow, trigger type and the trigger's position.
Positions == UNION {DOMAIN Triggers[d] : d \in Defs}
TaskNames == Names \X Scheduled \X Positions

\* The tasks of definition d of n.
TasksOf(n, d) == {t \in TaskNames : t[1] = n /\ t[3] \in DOMAIN Triggers[d]
                                    /\ Triggers[d][t[3]] = t[2]}

\* The first of the tasks, in the order of the calls.
FirstOf(tasks) ==
  {t \in tasks : \A u \in tasks : IF u[2] = t[2] THEN t[3] <= u[3] ELSE t[2] = "cron"}

\* pc: the next store call.  left: the tasks it has yet to arm or unregister.
IdleRequest == [pc |-> "idle", op |-> "submit", name |-> CHOOSE n \in Names : TRUE,
                def |-> NoDef, left |-> {}]

ControlTypeOK ==
  /\ row \in [Names -> [def : Defs \cup {NoDef}, enabled : BOOLEAN]]
  /\ task \in [TaskNames -> Defs \cup {NoDef}]
  /\ req \in [pc : {"idle", "lookup", "unregister", "register", "arm", "setEnabled", "sync"},
              op : Ops, name : Names, def : Defs \cup {NoDef}, left : SUBSET TaskNames]
  /\ settled \in [Names -> Ops \cup {"none", "cut"}]
  /\ requests \in 0..MaxRequests
  /\ crashes \in 0..MaxCrashes

ControlInit ==
  /\ row = [n \in Names |-> [def |-> Installed[n], enabled |-> TRUE]]
  /\ task = [t \in TaskNames |->
               IF Installed[t[1]] # NoDef /\ t \in TasksOf(t[1], Installed[t[1]])
                 THEN Installed[t[1]] ELSE NoDef]
  /\ req = IdleRequest
  /\ settled = [n \in Names |-> "none"]
  /\ requests = 0
  /\ crashes = 0

Registered(n) == row[n].def # NoDef

-----------------------------------------------------------------------------

Goto(from, to, tasks) == req.pc = from /\ req' = [req EXCEPT !.pc = to, !.left = tasks]

\* The client has its answer.
Answer == req' = IdleRequest /\ settled' = [settled EXCEPT ![req.name] = req.op]

Refuse(from) == req.pc = from /\ req' = IdleRequest /\ UNCHANGED settled

FirstCall(op) ==
  CASE op = "submit" -> "register"
    [] op = "update" -> "lookup"
    [] op \in {"enable", "disable"} -> "setEnabled"

\* A document that Validate refuses, or with an undeclared secret or the wrong
\* webhook scheme, changes nothing; here it is a valid one.
Ask ==
  /\ req.pc = "idle"
  /\ requests < MaxRequests
  /\ requests' = requests + 1
  /\ \E op \in Ops, n \in Operated :
     \E d \in IF op \in {"submit", "update"} THEN DefsOf[n] ELSE {NoDef} :
       /\ op = "submit" => ~Registered(n) \/ MayResubmit
       /\ req' = [IdleRequest EXCEPT !.pc = FirstCall(op), !.op = op, !.name = n, !.def = d]
  /\ UNCHANGED <<row, task, settled, crashes>>

\* Mutant: the old definition's schedules are not unregistered.
UpdateInPlace ==
  /\ IF Registered(req.name) THEN Goto("lookup", "register", {}) /\ UNCHANGED settled
                             ELSE Refuse("lookup")
  /\ UNCHANGED <<row, task, requests, crashes>>

\* handleRegister, update: GetWorkflow, or 404.
UpdateLookup ==
  /\ IF Registered(req.name)
       THEN /\ Goto("lookup", "unregister", TasksOf(req.name, row[req.name].def))
            /\ UNCHANGED settled
       ELSE Refuse("lookup")
  /\ UNCHANGED <<row, task, requests, crashes>>

\* unregisterCron, unregisterEmail: UnregisterScheduledTask, one by one.
Unregister ==
  /\ req.pc = "unregister"
  /\ IF req.left # {}
       THEN /\ \E t \in FirstOf(req.left) :
                 task' = [task EXCEPT ![t] = NoDef] /\ req' = [req EXCEPT !.left = @ \ {t}]
            /\ UNCHANGED settled
       ELSE /\ UNCHANGED task
            /\ IF req.op = "update" THEN Goto("unregister", "register", {}) /\ UNCHANGED settled
                                    ELSE Answer
  /\ UNCHANGED <<row, requests, crashes>>

\* RegisterWorkflow: a new row is enabled, an old one stays as it is.
Register ==
  /\ Goto("register", "arm", TasksOf(req.name, req.def))
  /\ row' = [row EXCEPT ![req.name] =
               [def |-> req.def, enabled |-> IF Registered(req.name) THEN @.enabled ELSE TRUE]]
  /\ UNCHANGED <<task, settled, requests, crashes>>

\* registerCron, registerEmail: RegisterScheduledTask, one by one.  (RegisterCron
\* first writes the counters of the schedule's run.)
Arm ==
  /\ req.pc = "arm"
  /\ IF req.left # {}
       THEN /\ \E t \in FirstOf(req.left) :
                 task' = [task EXCEPT ![t] = req.def] /\ req' = [req EXCEPT !.left = @ \ {t}]
            /\ UNCHANGED settled
       ELSE UNCHANGED task /\ Answer
  /\ UNCHANGED <<row, requests, crashes>>

\* The scheduler refuses a schedule (validation does not read it): the client
\* gets an error, and what was written before stays.
ArmFails ==
  /\ req.pc = "arm"
  /\ req.left # {}
  /\ req' = IdleRequest
  /\ settled' = [settled EXCEPT ![req.name] = "cut"]
  /\ UNCHANGED <<row, task, requests, crashes>>

\* handleSetEnabled: SetWorkflowEnabled, or 404.
SetEnabled ==
  /\ IF Registered(req.name)
       THEN /\ Goto("setEnabled", "sync", {})
            /\ row' = [row EXCEPT ![req.name].enabled = (req.op = "enable")]
            /\ UNCHANGED settled
       ELSE Refuse("setEnabled") /\ UNCHANGED row
  /\ UNCHANGED <<task, requests, crashes>>

\* Mutant: disabling leaves the schedules armed.
SyncArmsOnly ==
  /\ req.pc = "sync"
  /\ IF req.op = "enable"
       THEN /\ req' = [req EXCEPT !.pc = "arm", !.def = row[req.name].def,
                               !.left = TasksOf(req.name, row[req.name].def)]
            /\ UNCHANGED settled
       ELSE Answer
  /\ UNCHANGED <<row, task, requests, crashes>>

\* syncCron reads the definition, and arms its tasks or unregisters them.
syncCron ==
  LET d == row[req.name].def IN
  /\ IF req.op = "enable"
       THEN /\ req.pc = "sync"
            /\ req' = [req EXCEPT !.pc = "arm", !.def = d, !.left = TasksOf(req.name, d)]
       ELSE Goto("sync", "unregister", TasksOf(req.name, d))
  /\ UNCHANGED <<row, task, settled, requests, crashes>>

ControlStep ==
  Ask \/ UpdateLookup \/ Unregister \/ Register \/ Arm \/ ArmFails
  \/ SetEnabled \/ syncCron

\* The request in progress is lost; rows and tasks stay.
ControlCrash ==
  /\ crashes < MaxCrashes
  /\ crashes' = crashes + 1
  /\ req' = IdleRequest
  /\ settled' = IF req.pc = "idle" THEN settled ELSE [settled EXCEPT ![req.name] = "cut"]
  /\ UNCHANGED <<row, task, requests>>

-----------------------------------------------------------------------------
(* What makes the schedules correct *)

Armed(n) == {t \in TaskNames : t[1] = n /\ task[t] # NoDef}

(***************************************************************************)
(* Whatever is armed runs the definition in the registry: a trigger that   *)
(* an update removed, moved or changed leaves no schedule behind, also     *)
(* when a crash cut the update (handleRegister, unregisterCron).           *)
(***************************************************************************)
NoStaleSchedule ==
  \A n \in Names : \A t \in Armed(n) :
    /\ task[t] = row[n].def
    /\ t \in TasksOf(n, row[n].def)

(***************************************************************************)
(* When a request is answered, the schedules agree with the row: those of  *)
(* an enabled workflow are all armed, and after a disable none is.         *)
(***************************************************************************)
SchedulesAgree ==
  \A n \in Names : req.pc = "idle" =>
    /\ settled[n] \in {"submit", "update", "enable"} /\ row[n].enabled
         => Armed(n) = TasksOf(n, row[n].def)
    /\ settled[n] = "disable" => Armed(n) = {} /\ ~row[n].enabled
=============================================================================
