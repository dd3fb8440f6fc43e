---------------------------- MODULE TriggerProofs ---------------------------
(***************************************************************************)
(* The control plane and the triggers for any workflows, senders, callers  *)
(* and emails and any number of requests, events and crashes.              *)
(*                                                                         *)
(* ControlInv says, for each store call of a request, what is armed when   *)
(* it is made; WebhookInv and MailInv follow the runs that a handler has   *)
(* yet to start.                                                           *)
(***************************************************************************)
EXTENDS Trigger, TLAPS

(***************************************************************************)
(* What holds before each store call of the request in progress.           *)
(***************************************************************************)
RequestInv ==
  /\ req.pc = "lookup" => req.def \in Defs /\ req.op = "update"
  /\ req.pc = "unregister" =>
       /\ Registered(req.name) /\ Armed(req.name) \subseteq req.left
       /\ req.left \subseteq TasksOf(req.name, row[req.name].def)
       /\ \/ req.op = "update" /\ req.def \in Defs
          \/ req.op = "disable" /\ ~row[req.name].enabled
  /\ req.pc = "register" => /\ req.def \in Defs /\ req.op \in {"submit", "update"}
                            /\ Armed(req.name) = {}
  /\ req.pc = "arm" =>
       /\ Registered(req.name) /\ req.def = row[req.name].def /\ req.op # "disable"
       /\ req.left \subseteq TasksOf(req.name, req.def)
       /\ TasksOf(req.name, req.def) \subseteq Armed(req.name) \cup req.left
  /\ req.pc = "setEnabled" => req.op \in {"enable", "disable"}
  /\ req.pc = "sync" => /\ Registered(req.name) /\ req.op \in {"enable", "disable"}
                        /\ row[req.name].enabled = (req.op = "enable")

Agree(n) ==
  /\ settled[n] \in {"submit", "update", "enable"} /\ row[n].enabled
       => Armed(n) = TasksOf(n, row[n].def)
  /\ settled[n] = "disable" => Armed(n) = {} /\ ~row[n].enabled

\* A request that may yet be refused has changed nothing.
AgreeInv ==
  \A n \in Names : req.pc \in {"idle", "lookup", "setEnabled"} \/ req.name # n => Agree(n)

ControlInv == ControlTypeOK /\ RequestInv /\ NoStaleSchedule /\ AgreeInv

(***************************************************************************)
(* Runs are left to start only where a handler starts runs, each by its    *)
(* own cause.                                                              *)
(***************************************************************************)
HandlerInv ==
  \A x \in Handlers :
    /\ hd[x].pc \notin {"create", "deps", "enqueue"} => hd[x].todo = {}
    /\ \A run \in hd[x].todo : IF x = Poller THEN run.cause \in Mails ELSE run.cause = x

(***************************************************************************)
(* A webhook request: until it has listed the workflows the steady ones    *)
(* match, and then each has its run or is left to start.                   *)
(***************************************************************************)
SenderInv(s) ==
  /\ hd[s].pc \in {"append", "verify", "list"} =>
       steady[s] \subseteq Matches("webhook") /\ \A n \in Names : ready[n][s] = 0
  /\ hd[s].pc \in {"verify", "list", "create", "deps", "enqueue", "ok"} => s \in logged
  /\ hd[s].pc \in {"create", "deps", "enqueue", "ok"} =>
       \A n \in steady[s] : ready[n][s] = 1 \/ \E run \in hd[s].todo : run.name = n
  /\ \A n \in Names : ready[n][s] <= 1
  /\ \A run \in hd[s].todo :
       /\ ready[run.name][s] = 0
       /\ \A other \in hd[s].todo : other.name = run.name => other = run

WebhookInv == \A s \in Senders : SenderInv(s)

Unstarted(m) == \A n \in Names : ready[n][m] = 0

(***************************************************************************)
(* An email has started no run until it is seen and its poll starts one.   *)
(***************************************************************************)
MailInv ==
  /\ \A m \in Mails : mail[m] # "seen" => Unstarted(m)
  /\ hd[Poller].pc = "markSeen" => \A m \in hd[Poller].got : mail[m] = "unseen"
  /\ hd[Poller].pc = "lookup" => \A m \in hd[Poller].got : mail[m] = "seen" /\ Unstarted(m)
  /\ \A run \in hd[Poller].todo :
       /\ mail[run.cause] = "seen" /\ Unstarted(run.cause)
       /\ \A other \in hd[Poller].todo : other.cause = run.cause => other = run
  /\ MailAtMostOnce

\* A definition declares one webhook trigger at most.
OneWebhook ==
  \A d \in Defs : \A i, j \in DOMAIN Triggers[d] :
    Triggers[d][i] = "webhook" /\ Triggers[d][j] = "webhook" => i = j
-----------------------------------------------------------------------------
(* The control plane *)

DefsOrNone == Defs \cup {NoDef}

RequestPCs == {"idle", "lookup", "unregister", "register", "arm", "setEnabled", "sync"}

Requests == [pc : RequestPCs, op : Ops, name : Names, def : DefsOrNone, left : SUBSET TaskNames]

(***************************************************************************)
(* The client's request is a request, and the idle one is.                 *)
(***************************************************************************)
LEMMA IdleRequestType ==
  /\ IdleRequest \in Requests /\ IdleRequest.pc = "idle"
  /\ \A op \in Ops, n \in Names, d \in DefsOrNone, pc \in RequestPCs :
       LET r == [IdleRequest EXCEPT !.pc = pc, !.op = op, !.name = n, !.def = d]
       IN  r \in Requests /\ r.pc = pc /\ r.op = op /\ r.name = n /\ r.def = d
<1> DEFINE some == CHOOSE n \in Names : TRUE
<1>1. some \in Names
  BY TriggerAssumption
<1>2. IdleRequest = [pc |-> "idle", op |-> "submit", name |-> some, def |-> NoDef, left |-> {}]
  BY DEF IdleRequest
<1> HIDE DEF some
<1>3. IdleRequest \in Requests /\ IdleRequest.pc = "idle"
  BY <1>1, <1>2 DEF Requests, RequestPCs, Ops, DefsOrNone
<1>4. ASSUME NEW op \in Ops, NEW n \in Names, NEW d \in DefsOrNone, NEW pc \in RequestPCs
      PROVE  LET r == [IdleRequest EXCEPT !.pc = pc, !.op = op, !.name = n, !.def = d]
             IN  r \in Requests /\ r.pc = pc /\ r.op = op /\ r.name = n /\ r.def = d
  BY <1>3 DEF Requests
<1> QED
  BY <1>3, <1>4

(***************************************************************************)
(* Goto and its like keep the rest of the request.                         *)
(***************************************************************************)
LEMMA RequestMoves ==
  ASSUME NEW r \in Requests, NEW pc \in RequestPCs, NEW left \in SUBSET TaskNames,
         NEW d \in DefsOrNone
  PROVE  /\ LET q == [r EXCEPT !.pc = pc, !.left = left]
            IN  q \in Requests /\ q.pc = pc /\ q.op = r.op /\ q.name = r.name /\ q.def = r.def
                /\ q.left = left
         /\ LET q == [r EXCEPT !.left = left]
            IN  q \in Requests /\ q.pc = r.pc /\ q.op = r.op /\ q.name = r.name /\ q.def = r.def
                /\ q.left = left
         /\ LET q == [r EXCEPT !.pc = pc, !.def = d, !.left = left]
            IN  q \in Requests /\ q.pc = pc /\ q.op = r.op /\ q.name = r.name /\ q.def = d
                /\ q.left = left
  BY DEF Requests

(***************************************************************************)
(* The tasks of a definition are tasks of its workflow.                    *)
(***************************************************************************)
LEMMA TasksAreTasks ==
  ASSUME NEW n, NEW d
  PROVE  TasksOf(n, d) \subseteq TaskNames /\ \A t \in TasksOf(n, d) : t[1] = n
  BY DEF TasksOf

\* A step of the request in progress, as its proofs see it.
Rows == [Names -> [def : DefsOrNone, enabled : BOOLEAN]]

Tasks == [TaskNames -> DefsOrNone]

(***************************************************************************)
(* The control plane's types.                                              *)
(***************************************************************************)
LEMMA ControlTypes ==
  ControlTypeOK <=> /\ row \in Rows /\ task \in Tasks /\ req \in Requests
                    /\ settled \in [Names -> Ops \cup {"none", "cut"}]
                    /\ requests \in 0..MaxRequests /\ crashes \in 0..MaxCrashes
  BY DEF ControlTypeOK, Rows, Tasks, Requests, RequestPCs, DefsOrNone

(***************************************************************************)
(* The request is answered, refused, or cut.                               *)
(***************************************************************************)
LEMMA SettledType ==
  ASSUME ControlTypeOK, NEW what \in Ops \cup {"cut"},
         settled' = [settled EXCEPT ![req.name] = what]
  PROVE  /\ settled' \in [Names -> Ops \cup {"none", "cut"}] /\ req.op \in Ops /\ req.name \in Names
         /\ settled'[req.name] = what /\ \A n \in Names : n # req.name => settled'[n] = settled[n]
<1>1. req.name \in Names /\ req.op \in Ops /\ settled \in [Names -> Ops \cup {"none", "cut"}]
  BY ControlTypes DEF Requests
<1> QED
  BY <1>1

(***************************************************************************)
(* A step of the control plane keeps the types.                            *)
(***************************************************************************)
LEMMA ControlTypeStep ==
  ASSUME ControlTypeOK, ControlStep
  PROVE  ControlTypeOK'
<1>1. /\ row \in Rows /\ task \in Tasks /\ req \in Requests
      /\ settled \in [Names -> Ops \cup {"none", "cut"}]
      /\ requests \in 0..MaxRequests /\ crashes \in 0..MaxCrashes
  BY ControlTypes
<1>2. /\ req.name \in Names /\ req.op \in Ops /\ req.def \in DefsOrNone /\ req.left \in SUBSET TaskNames
      /\ row[req.name] \in [def : DefsOrNone, enabled : BOOLEAN]
      /\ {} \in SUBSET TaskNames /\ \A d : TasksOf(req.name, d) \in SUBSET TaskNames
  BY <1>1, TasksAreTasks DEF Requests, Rows
<1>3. {"idle", "lookup", "unregister", "register", "arm", "setEnabled", "sync"} = RequestPCs
  BY DEF RequestPCs
<1>4. Answer => req' \in Requests /\ settled' \in [Names -> Ops \cup {"none", "cut"}]
  BY <1>2, SettledType, IdleRequestType DEF Answer
<1>5. \A from : Refuse(from) => req' \in Requests /\ settled' = settled
  BY IdleRequestType DEF Refuse
<1>6. ASSUME NEW from, NEW to \in RequestPCs, NEW tasks \in SUBSET TaskNames, Goto(from, to, tasks)
      PROVE  req' \in Requests
  <2>1. req' = [req EXCEPT !.pc = to, !.left = tasks]
    BY <1>6 DEF Goto
  <2> QED
    BY <1>1, <1>2, <2>1, RequestMoves
<1>7. CASE Ask
  <2>1. PICK op \in Ops, n \in Operated, d \in DefsOrNone :
          req' = [IdleRequest EXCEPT !.pc = FirstCall(op), !.op = op, !.name = n, !.def = d]
    <3>1. PICK op \in Ops, n \in Operated :
            \E d \in IF op \in {"submit", "update"} THEN DefsOf[n] ELSE {NoDef} :
              req' = [IdleRequest EXCEPT !.pc = FirstCall(op), !.op = op, !.name = n, !.def = d]
      BY <1>7 DEF Ask
    <3> QED
      BY <3>1, ControlAssumption DEF DefsOrNone
  <2>2. FirstCall(op) \in RequestPCs /\ n \in Names
    BY ControlAssumption DEF FirstCall, RequestPCs, Ops
  <2>3. req' \in Requests
    BY <2>1, <2>2, IdleRequestType
  <2>4. requests' \in 0..MaxRequests
    BY <1>1, <1>7, ControlAssumption DEF Ask
  <2> QED
    BY <1>1, <1>7, <2>3, <2>4 DEF Ask, ControlTypeOK, Rows, Tasks, Requests, RequestPCs, DefsOrNone
<1>8. ASSUME req' \in Requests, task' \in Tasks, row' \in Rows,
             settled' \in [Names -> Ops \cup {"none", "cut"}], UNCHANGED <<requests, crashes>>
      PROVE  ControlTypeOK'
  BY <1>1, <1>8 DEF ControlTypeOK, Rows, Tasks, Requests, RequestPCs, DefsOrNone
<1>9. CASE UpdateLookup
  <2>1. UNCHANGED <<row, task, requests, crashes>>
    BY <1>9 DEF UpdateLookup
  <2>2. req' \in Requests /\ settled' = settled
    BY <1>2, <1>3, <1>5, <1>6, <1>9 DEF UpdateLookup
  <2> QED
    BY <1>1, <1>8, <2>1, <2>2
<1>10. CASE Unregister
  <2>1. UNCHANGED <<row, requests, crashes>>
    BY <1>10 DEF Unregister
  <2>2. CASE req.left # {}
    <3>1. PICK t \in FirstOf(req.left) :
            task' = [task EXCEPT ![t] = NoDef] /\ req' = [req EXCEPT !.left = req.left \ {t}]
            /\ settled' = settled
      BY <1>10, <2>2 DEF Unregister
    <3>2. task' \in Tasks
      BY <1>1, <1>2, <3>1 DEF FirstOf, Tasks, DefsOrNone
    <3>3. req.left \ {t} \in SUBSET TaskNames /\ req.pc \in RequestPCs
      BY <1>1, <1>2 DEF Requests
    <3>4. req' \in Requests
      BY <1>1, <1>2, <3>1, <3>3, RequestMoves
    <3> QED
      BY <1>1, <1>8, <2>1, <3>1, <3>2, <3>4
  <2>3. CASE req.left = {}
    <3>1. task' = task
      BY <1>10, <2>3 DEF Unregister
    <3>2. (Goto("unregister", "register", {}) /\ settled' = settled) \/ Answer
      BY <1>10, <2>3 DEF Unregister
    <3>3. req' \in Requests /\ settled' \in [Names -> Ops \cup {"none", "cut"}]
      BY <1>1, <1>2, <1>3, <1>4, <1>6, <3>2
    <3> QED
      BY <1>1, <1>8, <2>1, <3>1, <3>3
  <2> QED
    BY <2>2, <2>3
<1>11. CASE Register
  <2>1. UNCHANGED <<task, settled, requests, crashes>>
    BY <1>11 DEF Register
  <2>2. req' \in Requests
    BY <1>2, <1>3, <1>6, <1>11 DEF Register
  <2> DEFINE new == [def |-> req.def, enabled |-> IF Registered(req.name) THEN row[req.name].enabled ELSE TRUE]
  <2>3. new \in [def : DefsOrNone, enabled : BOOLEAN]
    BY <1>2
  <2>4. row' = [row EXCEPT ![req.name] = new]
    BY <1>11 DEF Register
  <2> HIDE DEF new
  <2>5. row' \in Rows
    BY <1>1, <2>3, <2>4 DEF Rows
  <2> QED
    BY <1>1, <1>8, <2>1, <2>2, <2>5
<1>12. CASE Arm
  <2>1. UNCHANGED <<row, requests, crashes>>
    BY <1>12 DEF Arm
  <2>2. CASE req.left # {}
    <3>1. PICK t \in FirstOf(req.left) :
            task' = [task EXCEPT ![t] = req.def] /\ req' = [req EXCEPT !.left = req.left \ {t}]
            /\ settled' = settled
      BY <1>12, <2>2 DEF Arm
    <3>2. task' \in Tasks
      BY <1>1, <1>2, <3>1 DEF FirstOf, Tasks
    <3>3. req.left \ {t} \in SUBSET TaskNames /\ req.pc \in RequestPCs
      BY <1>1, <1>2 DEF Requests
    <3>4. req' \in Requests
      BY <1>1, <1>2, <3>1, <3>3, RequestMoves
    <3> QED
      BY <1>1, <1>8, <2>1, <3>1, <3>2, <3>4
  <2>3. CASE req.left = {}
    BY <1>1, <1>4, <1>8, <1>12, <2>1, <2>3 DEF Arm
  <2> QED
    BY <2>2, <2>3
<1>13. CASE ArmFails
  <2>1. "cut" \in Ops \cup {"cut"}
    OBVIOUS
  <2> QED
    BY <1>1, <1>8, <1>13, <2>1, SettledType, IdleRequestType DEF ArmFails
<1>14. CASE SetEnabled
  <2>1. UNCHANGED <<task, requests, crashes>>
    BY <1>14 DEF SetEnabled
  <2>2. req' \in Requests /\ settled' = settled
    BY <1>2, <1>3, <1>5, <1>6, <1>14 DEF SetEnabled
  <2>3. row' \in Rows
    <3>1. CASE Registered(req.name)
      <4> DEFINE new == [row[req.name] EXCEPT !.enabled = (req.op = "enable")]
      <4>1. new \in [def : DefsOrNone, enabled : BOOLEAN]
        BY <1>2
      <4>2. row' = [row EXCEPT ![req.name] = new]
        BY <1>14, <3>1 DEF SetEnabled
      <4> HIDE DEF new
      <4> QED
        BY <1>1, <4>1, <4>2 DEF Rows
    <3>2. CASE ~Registered(req.name)
      BY <1>1, <1>14, <3>2 DEF SetEnabled
    <3> QED
      BY <3>1, <3>2
  <2> QED
    BY <1>1, <1>8, <2>1, <2>2, <2>3
<1>15. CASE syncCron
  <2>1. UNCHANGED <<row, task, settled, requests, crashes>>
    BY <1>15 DEF syncCron
  <2>2. CASE req.op = "enable"
    <3>1. req' = [req EXCEPT !.pc = "arm", !.def = row[req.name].def,
                             !.left = TasksOf(req.name, row[req.name].def)]
      BY <1>15, <2>2 DEF syncCron
    <3> DEFINE d == row[req.name].def
               tasks == TasksOf(req.name, d)
    <3>2. d \in DefsOrNone /\ tasks \in SUBSET TaskNames /\ "arm" \in RequestPCs
      BY <1>2, <1>3
    <3>3. req' \in Requests
      <4>1. req' = [req EXCEPT !.pc = "arm", !.def = d, !.left = tasks]
        BY <3>1
      <4> HIDE DEF d, tasks
      <4> QED
        BY <1>1, <3>2, <4>1, RequestMoves
    <3> QED
      BY <1>1, <1>8, <2>1, <3>3
  <2>3. CASE req.op # "enable"
    <3>1. Goto("sync", "unregister", TasksOf(req.name, row[req.name].def))
      BY <1>15, <2>3 DEF syncCron
    <3>2. req' \in Requests
      BY <1>2, <1>3, <1>6, <3>1
    <3> QED
      BY <1>1, <1>8, <2>1, <3>2
  <2> QED
    BY <2>2, <2>3
<1> QED
  BY <1>7, <1>9, <1>10, <1>11, <1>12, <1>13, <1>14, <1>15 DEF ControlStep
NoStale(n) ==
  \A t \in Armed(n) : task[t] = row[n].def /\ t \in TasksOf(n, row[n].def)

(***************************************************************************)
(* A step of a request about k leaves the other workflows alone.           *)
(***************************************************************************)
LEMMA ControlFrame ==
  ASSUME ControlInv, ControlTypeOK', NEW k \in Names, req.pc = "idle" \/ req.name = k,
         \A n \in Names : n # k => row'[n] = row[n] /\ settled'[n] = settled[n],
         \A t \in TaskNames : t[1] # k => task'[t] = task[t],
         req'.pc = "idle" \/ req'.name = k,
         RequestInv', NoStale(k)', req'.pc \in {"idle", "lookup", "setEnabled"} => Agree(k)'
  PROVE  ControlInv'
<1>1. ASSUME NEW n \in Names, n # k
      PROVE  Armed(n)' = Armed(n) /\ row'[n] = row[n] /\ settled'[n] = settled[n]
  BY <1>1 DEF Armed
<1>2. ASSUME NEW n \in Names PROVE NoStale(n)'
  <2>1. CASE n = k
    BY <2>1
  <2>2. CASE n # k
    <3>1. \A t \in Armed(n) : task'[t] = task[t]
      BY <2>2 DEF Armed
    <3> QED
      BY <1>1, <2>2, <3>1 DEF ControlInv, NoStaleSchedule, NoStale
  <2> QED
    BY <2>1, <2>2
<1>3. NoStaleSchedule'
  BY <1>2 DEF NoStaleSchedule, NoStale
<1>4. ASSUME NEW n \in Names, n # k PROVE Agree(n)'
  <2>1. Agree(n)
    BY <1>4 DEF ControlInv, AgreeInv
  <2> QED
    BY <1>1, <1>4, <2>1 DEF Agree
<1>5. AgreeInv'
  BY <1>4 DEF AgreeInv
<1> QED
  BY <1>3, <1>5 DEF ControlInv

(***************************************************************************)
(* Where nothing is written, what is armed stays as it was.                *)
(***************************************************************************)
LEMMA NothingWritten ==
  ASSUME ControlInv, NEW k \in Names, task' = task, row'[k].def = row[k].def
  PROVE  Armed(k)' = Armed(k) /\ NoStale(k)' /\ NoStale(k)
<1>1. Armed(k)' = Armed(k)
  BY DEF Armed
<1>2. NoStale(k)
  BY DEF ControlInv, NoStaleSchedule, NoStale
<1> QED
  BY <1>1, <1>2 DEF NoStale

(***************************************************************************)
(* Every store call of a request preserves ControlInv.                     *)
(***************************************************************************)
LEMMA ControlInvStep ==
  ASSUME ControlInv, MayResubmit = FALSE, ControlStep
  PROVE  ControlInv'
<1>1. /\ row \in Rows /\ task \in Tasks /\ req \in Requests
      /\ settled \in [Names -> Ops \cup {"none", "cut"}]
  BY ControlTypes DEF ControlInv
<1>2. PICK k \in Names : req.name = k
  BY <1>1 DEF Requests
<1>3. /\ k \in Names /\ req.op \in Ops /\ req.def \in DefsOrNone /\ req.left \in SUBSET TaskNames
      /\ row[k] \in [def : DefsOrNone, enabled : BOOLEAN]
      /\ {} \in SUBSET TaskNames /\ \A d : TasksOf(k, d) \in SUBSET TaskNames
      /\ NoDef \notin Defs
  BY <1>1, <1>2, TasksAreTasks, ControlAssumption DEF Requests, Rows
<1>4. {"idle", "lookup", "unregister", "register", "arm", "setEnabled", "sync"} = RequestPCs
  BY DEF RequestPCs
<1>5. ControlTypeOK'
  BY ControlTypeStep DEF ControlInv
<1>6. RequestInv /\ NoStale(k)
  BY <1>3 DEF ControlInv, NoStaleSchedule, NoStale
<1>7. IdleRequest.pc = "idle"
  BY IdleRequestType
<1>8. ASSUME NEW from, NEW to \in RequestPCs, NEW tasks \in SUBSET TaskNames, Goto(from, to, tasks)
      PROVE  /\ req.pc = from /\ req'.pc = to /\ req'.op = req.op /\ req'.name = k
             /\ req'.def = req.def /\ req'.left = tasks
  <2>1. req' = [req EXCEPT !.pc = to, !.left = tasks] /\ req.pc = from
    BY <1>8 DEF Goto
  <2> QED
    BY <1>1, <1>3, <1>2, <2>1 DEF Requests
<1>9. ASSUME NEW what \in Ops \cup {"cut"}, settled' = [settled EXCEPT ![req.name] = what]
      PROVE  settled'[k] = what /\ \A n \in Names : n # k => settled'[n] = settled[n]
  BY <1>1, <1>3, <1>2, <1>9
\* A step that writes neither row nor task.
<1>10. ASSUME UNCHANGED <<row, task, settled>>, req'.pc = "idle" \/ req'.name = k,
              RequestInv', req'.pc \in {"idle", "lookup", "setEnabled"} => Agree(k)'
       PROVE  ControlInv'
  BY <1>3, <1>5, <1>2, <1>10, ControlFrame, NothingWritten
<1>11. ASSUME NEW from \in {"lookup", "setEnabled"}, Refuse(from), UNCHANGED <<row, task>>
       PROVE  ControlInv'
  <2>1. req' = IdleRequest /\ settled' = settled /\ req.pc \in {"lookup", "setEnabled"}
    BY <1>11 DEF Refuse
  <2>2. req'.pc = "idle"
    BY <1>7, <2>1
  <2>3. RequestInv'
    BY <2>2 DEF RequestInv
  <2>4. Agree(k) /\ Armed(k)' = Armed(k)
    BY <1>3, <1>11, <2>1, NothingWritten DEF ControlInv, AgreeInv
  <2>5. Agree(k)'
    BY <1>11, <2>1, <2>4 DEF Agree
  <2> QED
    BY <1>10, <1>11, <2>1, <2>2, <2>3, <2>5
<1>12. CASE Ask
  <2>1. PICK op \in Ops, n \in Operated :
          \E d \in IF op \in {"submit", "update"} THEN DefsOf[n] ELSE {NoDef} :
            /\ op = "submit" => ~Registered(n)
            /\ req' = [IdleRequest EXCEPT !.pc = FirstCall(op), !.op = op, !.name = n, !.def = d]
    BY <1>12 DEF Ask
  <2>2. PICK d \in IF op \in {"submit", "update"} THEN DefsOf[n] ELSE {NoDef} :
            /\ op = "submit" => ~Registered(n)
            /\ req' = [IdleRequest EXCEPT !.pc = FirstCall(op), !.op = op, !.name = n, !.def = d]
    BY <2>1
  <2>3. /\ d \in DefsOrNone /\ n \in Names /\ FirstCall(op) \in RequestPCs
        /\ op \in {"submit", "update"} => d \in Defs
    BY ControlAssumption DEF DefsOrNone, FirstCall, RequestPCs, Ops
  <2>4. req'.pc = FirstCall(op) /\ req'.op = op /\ req'.name = n /\ req'.def = d
    BY <2>2, <2>3, IdleRequestType DEF Requests
  <2>5. UNCHANGED <<row, task, settled>> /\ req.pc = "idle"
    BY <1>12 DEF Ask
  <2>6. Armed(n)' = Armed(n) /\ NoStale(n)' /\ NoStale(n)
    BY <2>3, <2>5, NothingWritten
  <2>7. op = "submit" => Armed(n) = {}
    BY <2>2, <2>6 DEF NoStale, Registered, Armed
  <2>8. Agree(n)'
    BY <2>3, <2>5, <2>6 DEF ControlInv, AgreeInv, Agree
  <2>9. RequestInv'
    <3>1. \/ op = "submit" /\ FirstCall(op) = "register"
          \/ op = "update" /\ FirstCall(op) = "lookup"
          \/ op \in {"enable", "disable"} /\ FirstCall(op) = "setEnabled"
      BY DEF FirstCall, Ops
    <3> QED
      BY <2>3, <2>4, <2>6, <2>7, <3>1 DEF RequestInv
  <2> QED
    BY <1>5, <2>3, <2>4, <2>5, <2>6, <2>8, <2>9, ControlFrame
<1>13. CASE UpdateLookup
  <2>1. UNCHANGED <<row, task>>
    BY <1>13 DEF UpdateLookup
  <2>2. CASE Registered(k)
    <3>1. Goto("lookup", "unregister", TasksOf(k, row[k].def)) /\ settled' = settled
      BY <1>2, <1>13, <2>2 DEF UpdateLookup
    <3>2. /\ req.pc = "lookup" /\ req'.pc = "unregister" /\ req'.op = req.op /\ req'.name = k
          /\ req'.def = req.def /\ req'.left = TasksOf(k, row[k].def)
      BY <1>3, <1>4, <1>8, <3>1
    <3>3. Armed(k)' = Armed(k)
      BY <1>3, <2>1, NothingWritten
    <3>4. Armed(k) \subseteq TasksOf(k, row[k].def)
      BY <1>6 DEF NoStale
    <3>5. RequestInv'
      BY <1>6, <1>2, <2>1, <2>2, <3>2, <3>3, <3>4 DEF RequestInv, Registered
    <3> QED
      BY <1>10, <2>1, <3>1, <3>2, <3>5
  <2>3. CASE ~Registered(k)
    BY <1>2, <1>11, <1>13, <2>1, <2>3 DEF UpdateLookup
  <2> QED
    BY <2>2, <2>3
<1>14. CASE Unregister
  <2>1. row' = row /\ req.pc = "unregister"
    BY <1>14 DEF Unregister
  <2>2. /\ Registered(k) /\ Armed(k) \subseteq req.left
        /\ req.left \subseteq TasksOf(k, row[k].def)
        /\ \/ req.op = "update" /\ req.def \in Defs
           \/ req.op = "disable" /\ ~row[k].enabled
    BY <1>6, <1>2, <2>1 DEF RequestInv
  <2>3. CASE req.left # {}
    <3>1. PICK t \in FirstOf(req.left) :
            task' = [task EXCEPT ![t] = NoDef] /\ req' = [req EXCEPT !.left = req.left \ {t}]
            /\ settled' = settled
      BY <1>14, <2>3 DEF Unregister
    <3>2. t \in req.left /\ t \in TaskNames /\ t[1] = k /\ req.left \ {t} \in SUBSET TaskNames
          /\ req.pc \in RequestPCs
      BY <1>1, <1>3, <2>2, TasksAreTasks DEF FirstOf, Requests
    <3>3. /\ req'.pc = "unregister" /\ req'.op = req.op /\ req'.name = k
          /\ req'.def = req.def /\ req'.left = req.left \ {t}
      BY <1>1, <1>3, <1>2, <2>1, <3>1, <3>2 DEF Requests
    <3>4. task'[t] = NoDef /\ \A u \in TaskNames : u # t => task'[u] = task[u]
      BY <1>1, <3>1, <3>2 DEF Tasks
    <3>5. Armed(k)' = Armed(k) \ {t}
      BY <3>2, <3>4 DEF Armed
    <3>6. NoStale(k)'
      BY <1>6, <2>1, <3>4, <3>5 DEF NoStale, Armed
    <3>7. RequestInv'
      BY <2>1, <2>2, <3>3, <3>5 DEF RequestInv, Registered
    <3> QED
      BY <1>3, <1>5, <1>2, <2>1, <3>1, <3>2, <3>3, <3>4, <3>6, <3>7, ControlFrame
  <2>4. CASE req.left = {}
    <3>1. task' = task /\ Armed(k) = {}
      BY <1>14, <2>2, <2>4 DEF Unregister
    <3>2. Armed(k)' = {} /\ NoStale(k)'
      BY <1>3, <2>1, <3>1, NothingWritten
    <3>3. CASE req.op = "update"
      <4>1. Goto("unregister", "register", {}) /\ settled' = settled
        BY <1>14, <2>4, <3>3 DEF Unregister
      <4>2. req'.pc = "register" /\ req'.op = req.op /\ req'.name = k /\ req'.def = req.def
        BY <1>3, <1>4, <1>8, <4>1
      <4>3. RequestInv'
        BY <2>2, <3>2, <3>3, <4>2 DEF RequestInv
      <4> QED
        BY <1>10, <2>1, <3>1, <4>1, <4>2, <4>3
    <3>4. CASE req.op # "update"
      <4>1. req' = IdleRequest /\ settled' = [settled EXCEPT ![req.name] = req.op] /\ req.op = "disable"
        BY <1>14, <2>2, <2>4, <3>4 DEF Unregister, Answer
      <4>2. settled'[k] = "disable" /\ \A n \in Names : n # k => settled'[n] = settled[n]
        BY <1>3, <1>9, <4>1
      <4>3. req'.pc = "idle"
        BY <1>7, <4>1
      <4>4. RequestInv'
        BY <4>3 DEF RequestInv
      <4>5. Agree(k)'
        BY <2>1, <2>2, <3>2, <4>1, <4>2 DEF Agree
      <4> QED
        BY <1>3, <1>5, <1>2, <2>1, <3>1, <3>2, <4>2, <4>3, <4>4, <4>5, ControlFrame
    <3> QED
      BY <3>3, <3>4
  <2> QED
    BY <2>3, <2>4
<1>15. CASE Register
  <2>1. UNCHANGED <<task, settled>> /\ Goto("register", "arm", TasksOf(k, req.def))
    BY <1>2, <1>15 DEF Register
  <2>2. /\ req.pc = "register" /\ req'.pc = "arm" /\ req'.op = req.op /\ req'.name = k
        /\ req'.def = req.def /\ req'.left = TasksOf(k, req.def)
    BY <1>3, <1>4, <1>8, <2>1
  <2>3. row'[k].def = req.def /\ \A n \in Names : n # k => row'[n] = row[n]
    BY <1>1, <1>3, <1>2, <1>15 DEF Register, Rows
  <2>4. Armed(k)' = {} /\ req.def \in Defs /\ req.op \in {"submit", "update"}
    BY <1>6, <1>2, <2>1, <2>2 DEF RequestInv, Armed
  <2>5. NoStale(k)'
    BY <2>4 DEF NoStale
  <2>6. RequestInv'
    BY <1>3, <2>2, <2>3, <2>4 DEF RequestInv, Registered
  <2> QED
    BY <1>3, <1>5, <1>2, <2>1, <2>2, <2>3, <2>5, <2>6, ControlFrame
<1>16. CASE Arm
  <2>1. row' = row /\ req.pc = "arm"
    BY <1>16 DEF Arm
  <2>2. /\ Registered(k) /\ req.def = row[k].def /\ req.op # "disable"
        /\ req.left \subseteq TasksOf(k, req.def)
        /\ TasksOf(k, req.def) \subseteq Armed(k) \cup req.left
    BY <1>6, <1>2, <2>1 DEF RequestInv
  <2>3. CASE req.left # {}
    <3>1. PICK t \in FirstOf(req.left) :
            task' = [task EXCEPT ![t] = req.def] /\ req' = [req EXCEPT !.left = req.left \ {t}]
            /\ settled' = settled
      BY <1>16, <2>3 DEF Arm
    <3>2. t \in req.left /\ t \in TaskNames /\ t[1] = k /\ req.left \ {t} \in SUBSET TaskNames
          /\ req.pc \in RequestPCs
      BY <1>1, <1>3, <2>2, TasksAreTasks DEF FirstOf, Requests
    <3>3. /\ req'.pc = "arm" /\ req'.op = req.op /\ req'.name = k
          /\ req'.def = req.def /\ req'.left = req.left \ {t}
      BY <1>1, <1>3, <1>2, <2>1, <3>1, <3>2 DEF Requests
    <3>4. task'[t] = req.def /\ \A u \in TaskNames : u # t => task'[u] = task[u]
      BY <1>1, <3>1, <3>2 DEF Tasks
    <3>5. Armed(k)' = Armed(k) \cup {t}
      BY <2>2, <3>2, <3>4 DEF Armed, Registered
    <3>6. NoStale(k)'
      BY <1>6, <2>1, <2>2, <3>2, <3>4, <3>5 DEF NoStale, Armed
    <3>7. RequestInv'
      BY <2>1, <2>2, <3>3, <3>5 DEF RequestInv, Registered
    <3> QED
      BY <1>3, <1>5, <1>2, <2>1, <3>1, <3>2, <3>3, <3>4, <3>6, <3>7, ControlFrame
  <2>4. CASE req.left = {}
    <3>1. task' = task /\ req' = IdleRequest /\ settled' = [settled EXCEPT ![req.name] = req.op]
      BY <1>16, <2>4 DEF Arm, Answer
    <3>2. Armed(k)' = Armed(k) /\ NoStale(k)'
      BY <1>3, <2>1, <3>1, NothingWritten
    <3>3. Armed(k) = TasksOf(k, row[k].def)
      BY <1>6, <2>2, <2>4 DEF NoStale
    <3>4. settled'[k] = req.op /\ \A n \in Names : n # k => settled'[n] = settled[n]
      BY <1>3, <1>9, <3>1
    <3>5. req'.pc = "idle"
      BY <1>7, <3>1
    <3>6. RequestInv'
      BY <3>5 DEF RequestInv
    <3>7. Agree(k)'
      BY <2>1, <2>2, <3>2, <3>3, <3>4 DEF Agree
    <3> QED
      BY <1>3, <1>5, <1>2, <2>1, <3>1, <3>2, <3>4, <3>5, <3>6, <3>7, ControlFrame
  <2> QED
    BY <2>3, <2>4
<1>17. CASE ArmFails
  <2>1. UNCHANGED <<row, task>> /\ req' = IdleRequest /\ settled' = [settled EXCEPT ![req.name] = "cut"]
    BY <1>17 DEF ArmFails
  <2>2. settled'[k] = "cut" /\ \A n \in Names : n # k => settled'[n] = settled[n]
    BY <1>9, <2>1
  <2>3. req'.pc = "idle" /\ NoStale(k)'
    BY <1>3, <1>7, <2>1, NothingWritten
  <2>4. RequestInv' /\ Agree(k)'
    BY <2>2, <2>3 DEF RequestInv, Agree
  <2> QED
    BY <1>3, <1>5, <1>2, <2>1, <2>2, <2>3, <2>4, ControlFrame
<1>18. CASE SetEnabled
  <2>1. task' = task
    BY <1>18 DEF SetEnabled
  <2>2. CASE Registered(k)
    <3>1. /\ Goto("setEnabled", "sync", {}) /\ settled' = settled
          /\ row' = [row EXCEPT ![k].enabled = (req.op = "enable")]
      BY <1>2, <1>18, <2>2 DEF SetEnabled
    <3>2. req.pc = "setEnabled" /\ req'.pc = "sync" /\ req'.op = req.op /\ req'.name = k
      BY <1>3, <1>4, <1>8, <3>1
    <3>3. /\ row'[k].def = row[k].def /\ row'[k].enabled = (req.op = "enable")
          /\ \A n \in Names : n # k => row'[n] = row[n]
      BY <1>1, <1>3, <3>1 DEF Rows
    <3>4. NoStale(k)'
      BY <1>3, <2>1, <3>3, NothingWritten
    <3>5. req.op \in {"enable", "disable"}
      BY <1>6, <3>2 DEF RequestInv
    <3>6. RequestInv'
      BY <2>2, <3>2, <3>3, <3>5 DEF RequestInv, Registered
    <3> QED
      BY <1>3, <1>5, <1>2, <2>1, <3>1, <3>2, <3>3, <3>4, <3>6, ControlFrame
  <2>3. CASE ~Registered(k)
    BY <1>2, <1>11, <1>18, <2>1, <2>3 DEF SetEnabled
  <2> QED
    BY <2>2, <2>3
<1>19. CASE syncCron
  <2>1. UNCHANGED <<row, task, settled>> /\ req.pc = "sync"
    BY <1>19 DEF syncCron, Goto
  <2>2. /\ Registered(k) /\ req.op \in {"enable", "disable"}
        /\ row[k].enabled = (req.op = "enable")
    BY <1>6, <1>2, <2>1 DEF RequestInv
  <2>3. Armed(k)' = Armed(k) /\ Armed(k) \subseteq TasksOf(k, row[k].def)
    BY <1>3, <1>6, <2>1, NothingWritten DEF NoStale
  <2>4. CASE req.op = "enable"
    <3> DEFINE d == row[k].def
               tasks == TasksOf(k, d)
    <3>1. d \in DefsOrNone /\ tasks \in SUBSET TaskNames /\ "arm" \in RequestPCs
      BY <1>3, <1>4
    <3>2. req' = [req EXCEPT !.pc = "arm", !.def = d, !.left = tasks]
      BY <1>2, <1>19, <2>4 DEF syncCron
    <3>3. /\ req'.pc = "arm" /\ req'.op = req.op /\ req'.name = k /\ req'.def = d
          /\ req'.left = tasks
      <4> HIDE DEF d, tasks
      <4> QED
        BY <1>1, <1>2, <3>1, <3>2 DEF Requests
    <3>4. RequestInv'
      BY <2>1, <2>2, <2>4, <3>3 DEF RequestInv, Registered
    <3> QED
      BY <1>10, <2>1, <3>3, <3>4
  <2>5. CASE req.op # "enable"
    <3>1. Goto("sync", "unregister", TasksOf(k, row[k].def))
      BY <1>2, <1>19, <2>5 DEF syncCron
    <3>2. /\ req'.pc = "unregister" /\ req'.op = "disable" /\ req'.name = k
          /\ req'.left = TasksOf(k, row[k].def)
      BY <1>3, <1>4, <1>8, <2>2, <2>5, <3>1
    <3>3. RequestInv'
      BY <2>1, <2>2, <2>3, <2>5, <3>2 DEF RequestInv, Registered
    <3> QED
      BY <1>10, <2>1, <3>2, <3>3
  <2> QED
    BY <2>4, <2>5
<1> QED
  BY <1>12, <1>13, <1>14, <1>15, <1>16, <1>17, <1>18, <1>19 DEF ControlStep
(***************************************************************************)
(* A crash cuts the request in progress, whatever it was at.               *)
(***************************************************************************)
LEMMA ControlInvCrash ==
  ASSUME ControlTypeOK, ControlCrash
  PROVE  ControlTypeOK' /\ (ControlInv => ControlInv')
<1>1. /\ row \in Rows /\ task \in Tasks /\ req \in Requests
      /\ settled \in [Names -> Ops \cup {"none", "cut"}]
      /\ requests \in 0..MaxRequests /\ crashes \in 0..MaxCrashes
  BY ControlTypes
<1>2. PICK k \in Names : req.name = k
  BY <1>1 DEF Requests
<1>3. /\ UNCHANGED <<row, task, requests>> /\ req' = IdleRequest
      /\ req' \in Requests /\ req'.pc = "idle"
  BY IdleRequestType DEF ControlCrash
<1>4. /\ settled' \in [Names -> Ops \cup {"none", "cut"}]
      /\ req.pc = "idle" => settled' = settled
      /\ req.pc # "idle" => settled'[k] = "cut"
      /\ \A n \in Names : n # k => settled'[n] = settled[n]
  BY <1>1, <1>2 DEF ControlCrash
<1>5. crashes' \in 0..MaxCrashes
  BY <1>1, ControlAssumption DEF ControlCrash
<1>6. ControlTypeOK'
  BY <1>1, <1>3, <1>4, <1>5 DEF ControlTypeOK, Rows, Tasks, Requests, RequestPCs, DefsOrNone
<1>7. ASSUME ControlInv PROVE ControlInv'
  <2>1. Armed(k)' = Armed(k) /\ NoStale(k)'
    BY <1>3, <1>7, NothingWritten
  <2>2. RequestInv'
    BY <1>3 DEF RequestInv
  <2>3. Agree(k)'
    BY <1>3, <1>4, <1>7, <2>1 DEF ControlInv, AgreeInv, Agree
  <2> QED
    BY <1>2, <1>3, <1>4, <1>6, <1>7, <2>1, <2>2, <2>3, ControlFrame
<1> QED
  BY <1>6, <1>7

(***************************************************************************)
(* What is installed at first has its tasks armed.                         *)
(***************************************************************************)
LEMMA ControlInvInit ==
  ASSUME ControlInit
  PROVE  ControlInv
<1>1. /\ row \in Rows /\ \A n \in Names : row[n] = [def |-> Installed[n], enabled |-> TRUE]
  BY ControlAssumption DEF ControlInit, Rows, DefsOrNone
<1>2. \A t \in TaskNames : t[1] \in Names
  BY DEF TaskNames
<1>3. /\ task \in Tasks
      /\ \A t \in TaskNames : task[t] # NoDef =>
           task[t] = Installed[t[1]] /\ t \in TasksOf(t[1], Installed[t[1]])
  BY <1>2, ControlAssumption DEF ControlInit, Tasks, DefsOrNone
<1>4. req \in Requests /\ req.pc = "idle"
  BY IdleRequestType DEF ControlInit
<1>5. settled \in [Names -> Ops \cup {"none", "cut"}] /\ \A n \in Names : settled[n] = "none"
  BY DEF ControlInit
<1>6. requests \in 0..MaxRequests /\ crashes \in 0..MaxCrashes
  BY ControlAssumption DEF ControlInit
<1>7. ControlTypeOK
  BY <1>1, <1>3, <1>4, <1>5, <1>6, ControlTypes
<1>8. RequestInv
  BY <1>4 DEF RequestInv
<1>9. NoStaleSchedule
  <2>1. ASSUME NEW n \in Names, NEW t \in Armed(n)
        PROVE  task[t] = row[n].def /\ t \in TasksOf(n, row[n].def)
    <3>1. t \in TaskNames /\ t[1] = n /\ task[t] # NoDef
      BY DEF Armed
    <3>2. row[n].def = Installed[n]
      BY DEF ControlInit
    <3> QED
      BY <1>3, <3>1, <3>2
  <2> QED
    BY <2>1 DEF NoStaleSchedule
<1>10. AgreeInv
  BY <1>5 DEF AgreeInv, Agree
<1> QED
  BY <1>7, <1>8, <1>9, <1>10 DEF ControlInv

-----------------------------------------------------------------------------
(* The handlers *)

Hds == [pc : PCs, todo : SUBSET Starts, name : Names, got : SUBSET Mails]

HandlerTypeOK == hd \in [Handlers -> Hds]

(***************************************************************************)
(* A handler at rest has nothing to start.                                 *)
(***************************************************************************)
LEMMA IdleHandlerType ==
  IdleHandler \in Hds /\ IdleHandler.pc = "idle" /\ IdleHandler.todo = {} /\ IdleHandler.got = {}
  BY TriggerAssumption DEF IdleHandler, Hds, PCs

(***************************************************************************)
(* A handler moves to its next call.                                       *)
(***************************************************************************)
LEMMA GotoIs ==
  ASSUME HandlerTypeOK, NEW x \in Handlers, NEW from, NEW to \in PCs, HGoto(x, from, to)
  PROVE  /\ HandlerTypeOK' /\ hd[x].pc = from /\ hd'[x].pc = to /\ hd'[x].todo = hd[x].todo
         /\ hd'[x].name = hd[x].name /\ hd'[x].got = hd[x].got
         /\ \A y \in Handlers : y # x => hd'[y] = hd[y]
<1> DEFINE new == [hd[x] EXCEPT !.pc = to]
<1>1. hd[x] \in Hds
  BY DEF HandlerTypeOK
<1>2. /\ new \in Hds /\ new.pc = to /\ new.todo = hd[x].todo /\ new.name = hd[x].name
      /\ new.got = hd[x].got
  BY <1>1 DEF Hds
<1>3. hd' = [hd EXCEPT ![x] = new] /\ hd[x].pc = from
  BY DEF HGoto
<1> HIDE DEF new
<1> QED
  BY <1>2, <1>3 DEF HandlerTypeOK

(***************************************************************************)
(* A handler is done.                                                      *)
(***************************************************************************)
LEMMA ReturnIs ==
  ASSUME HandlerTypeOK, NEW x \in Handlers, NEW from, HReturn(x, from)
  PROVE  /\ HandlerTypeOK' /\ hd[x].pc = from /\ hd'[x] = IdleHandler
         /\ \A y \in Handlers : y # x => hd'[y] = hd[y]
  BY IdleHandlerType DEF HReturn, HandlerTypeOK

(***************************************************************************)
(* A handler has read the registry and goes on to the runs it starts.      *)
(***************************************************************************)
LEMMA BeginIs ==
  ASSUME HandlerTypeOK, NEW x \in Handlers, NEW todo \in SUBSET Starts, NEW from,
         NEW otherwise \in PCs, Begin(x, todo, from, otherwise)
  PROVE  /\ HandlerTypeOK' /\ hd[x].pc = from /\ hd'[x].todo = todo /\ hd'[x].got = {}
         /\ hd'[x].pc = IF todo = {} THEN otherwise ELSE "create"
         /\ \A y \in Handlers : y # x => hd'[y] = hd[y]
<1> DEFINE new == IF todo = {} THEN [IdleHandler EXCEPT !.pc = otherwise]
                  ELSE [IdleHandler EXCEPT !.pc = "create", !.todo = todo]
<1>1. "create" \in PCs
  BY DEF PCs
<1>2. /\ new \in Hds /\ new.todo = todo /\ new.got = {}
      /\ new.pc = IF todo = {} THEN otherwise ELSE "create"
  BY <1>1, IdleHandlerType DEF Hds
<1>3. hd' = [hd EXCEPT ![x] = new] /\ hd[x].pc = from
  BY DEF Begin
<1> HIDE DEF new
<1> QED
  BY <1>2, <1>3 DEF HandlerTypeOK

ReadyTypeOK == ready \in [Names -> [Causes -> Nat]]

(***************************************************************************)
(* A new call of x counts its runs anew.                                   *)
(***************************************************************************)
LEMMA ResetIs ==
  ASSUME ReadyTypeOK, NEW x \in Handlers, ready' = [n \in Names |-> [ready[n] EXCEPT ![x] = 0]]
  PROVE  /\ ReadyTypeOK'
         /\ \A n \in Names, c \in Causes : ready'[n][c] = IF c = x THEN 0 ELSE ready[n][c]
<1>1. x \in Causes
  BY DEF Causes
<1> QED
  BY <1>1 DEF ReadyTypeOK

(***************************************************************************)
(* The third commit of StartRun.                                           *)
(***************************************************************************)
LEMMA EnqueueIs ==
  ASSUME HandlerTypeOK, ReadyTypeOK, NEW x \in Handlers, StartEnqueue(x)
  PROVE  \E run \in hd[x].todo :
           /\ HandlerTypeOK' /\ ReadyTypeOK' /\ hd[x].pc = "enqueue" /\ run \in Starts
           /\ hd'[x].todo = hd[x].todo \ {run} /\ hd'[x].name = hd[x].name
           /\ hd'[x].pc = Rest(x, hd[x].todo \ {run})
           /\ \A y \in Handlers : y # x => hd'[y] = hd[y]
           /\ \A n \in Names, c \in Causes :
                ready'[n][c] = IF n = run.name /\ c = run.cause THEN ready[n][c] + 1 ELSE ready[n][c]
<1>1. PICK run \in hd[x].todo :
        /\ ready' = [ready EXCEPT ![run.name][run.cause] = @ + 1]
        /\ hd' = [hd EXCEPT ![x] = [@ EXCEPT !.pc = Rest(x, hd[x].todo \ {run}), !.todo = hd[x].todo \ {run}]]
  BY DEF StartEnqueue
<1> DEFINE left == hd[x].todo \ {run}
           to == Rest(x, left)
           new == [hd[x] EXCEPT !.pc = to, !.todo = left]
<1>2. hd[x] \in Hds /\ run \in Starts /\ left \in SUBSET Starts
  BY DEF HandlerTypeOK, Hds
<1>3. to \in PCs
  BY DEF Rest, PCs
<1>4. hd' = [hd EXCEPT ![x] = new]
  BY <1>1
<1> HIDE DEF to, left
<1>5. new \in Hds /\ new.pc = to /\ new.todo = left /\ new.name = hd[x].name
  BY <1>2, <1>3 DEF Hds
<1> HIDE DEF new
<1>6. /\ HandlerTypeOK' /\ hd'[x] = new /\ \A y \in Handlers : y # x => hd'[y] = hd[y]
  BY <1>4, <1>5 DEF HandlerTypeOK
<1>7. run.name \in Names /\ run.cause \in Causes
  BY <1>2 DEF Starts
<1>8. /\ ReadyTypeOK'
      /\ \A n \in Names, c \in Causes :
           ready'[n][c] = IF n = run.name /\ c = run.cause THEN ready[n][c] + 1 ELSE ready[n][c]
  BY <1>1, <1>7 DEF ReadyTypeOK
<1>9. hd[x].pc = "enqueue"
  BY DEF StartEnqueue
<1> QED
  BY <1>2, <1>5, <1>6, <1>8, <1>9 DEF to, left

(***************************************************************************)
(* A store call fails: the handler drops what it has left.                 *)
(***************************************************************************)
LEMMA FailIs ==
  ASSUME HandlerTypeOK, NEW x \in Handlers, StoreFails(x)
  PROVE  /\ HandlerTypeOK' /\ hd'[x].todo = {} /\ hd'[x].pc = OnError(x)
         /\ \A y \in Handlers : y # x => hd'[y] = hd[y]
         /\ UNCHANGED controlVars /\ UNCHANGED <<logged, ready, due, mail, events, steady>>
<1> DEFINE to == OnError(x)
           new == [hd[x] EXCEPT !.pc = to, !.todo = {}, !.got = {}]
<1>1. hd[x] \in Hds
  BY DEF HandlerTypeOK
<1>2. to \in PCs
  BY DEF OnError, PCs
<1>3. hd' = [hd EXCEPT ![x] = new]
  BY DEF StoreFails
<1> HIDE DEF to
<1>4. new \in Hds /\ new.pc = to /\ new.todo = {}
  BY <1>1, <1>2 DEF Hds
<1> HIDE DEF new
<1>5. HandlerTypeOK' /\ hd'[x] = new /\ \A y \in Handlers : y # x => hd'[y] = hd[y]
  BY <1>3, <1>4 DEF HandlerTypeOK
<1>6. UNCHANGED controlVars /\ UNCHANGED <<logged, ready, due, mail, events, steady>>
  BY DEF StoreFails
<1> QED
  BY <1>4, <1>5, <1>6 DEF to

(***************************************************************************)
(* The poll has marked the emails it found, and fetched some of them.      *)
(***************************************************************************)
LEMMA MarkIs ==
  ASSUME HandlerTypeOK, markSeen
  PROVE  /\ HandlerTypeOK' /\ hd[Poller].pc = "markSeen" /\ hd'[Poller].pc = "lookup"
         /\ hd'[Poller].todo = hd[Poller].todo /\ hd'[Poller].got \subseteq hd[Poller].got
         /\ \A y \in Handlers : y # Poller => hd'[y] = hd[y]
<1>1. PICK fetched \in SUBSET hd[Poller].got :
        hd' = [hd EXCEPT ![Poller].pc = "lookup", ![Poller].got = fetched]
  BY DEF markSeen
<1> DEFINE new == [hd[Poller] EXCEPT !.pc = "lookup", !.got = fetched]
<1>2. Poller \in Handlers /\ hd[Poller] \in Hds
  BY DEF HandlerTypeOK, Handlers
<1>3. hd' = [hd EXCEPT ![Poller] = new]
  BY <1>1, <1>2 DEF HandlerTypeOK
<1>4. /\ new \in Hds /\ new.pc = "lookup" /\ new.todo = hd[Poller].todo
      /\ new.got \subseteq hd[Poller].got
  BY <1>2 DEF Hds, PCs
<1> HIDE DEF new
<1>5. hd[Poller].pc = "markSeen"
  BY DEF markSeen
<1> QED
  BY <1>2, <1>3, <1>4, <1>5 DEF HandlerTypeOK
-----------------------------------------------------------------------------
(* Types, and the runs that are left to start *)

RestTypeOK ==
  /\ logged \subseteq Senders \cup Strangers /\ due \subseteq TaskNames \X Defs
  /\ mail \in [Mails -> {"away", "unseen", "seen"}] /\ events \in 0..MaxEvents
  /\ steady \in [Senders -> SUBSET Names]

(***************************************************************************)
(* The parts of the type invariant.                                        *)
(***************************************************************************)
LEMMA TypeParts ==
  TriggerTypeOK <=> ControlTypeOK /\ HandlerTypeOK /\ ReadyTypeOK /\ RestTypeOK
  BY DEF TriggerTypeOK, HandlerTypeOK, Hds, ReadyTypeOK, RestTypeOK

(***************************************************************************)
(* What a handler finds in the registry are runs to start, by itself.      *)
(***************************************************************************)
LEMMA RunsAreStarts ==
  ASSUME ControlTypeOK, NEW x \in Handlers, NEW type
  PROVE  /\ RunsOf(type, x) \subseteq Starts
         /\ \A run \in RunsOf(type, x) : run.cause = x /\ run.name \in Matches(type)
<1>1. x \in Causes
  BY DEF Causes
<1>2. Matches(type) \subseteq Names
  BY DEF Matches
<1> QED
  BY <1>1, <1>2 DEF RunsOf, Starts

\* A step of the handler x that leaves the registry alone.
StepOf(x) ==
  /\ UNCHANGED controlVars /\ HandlerTypeOK' /\ ReadyTypeOK' /\ RestTypeOK'
  /\ \A y \in Handlers : y # x => hd'[y] = hd[y]
  /\ \A n \in Names, c \in Causes :
       (IF x = Poller THEN c \notin Mails ELSE c # x) => ready'[n][c] = ready[n][c]
  /\ hd'[x].pc \notin {"create", "deps", "enqueue"} => hd'[x].todo = {}
  /\ \A run \in hd'[x].todo : IF x = Poller THEN run.cause \in Mails ELSE run.cause = x
  /\ logged \subseteq logged' /\ \A s \in Senders : s # x => steady'[s] = steady[s]
  /\ x # Poller => mail' = mail

(***************************************************************************)
(* The webhook receiver's steps.                                           *)
(***************************************************************************)
LEMMA ReceiverSteps ==
  ASSUME TriggerTypeOK, HandlerInv, NEW x \in Senders \cup Strangers,
         Request(x) \/ AppendEvent(x) \/ Verify(x) \/ MatchWorkflows(x)
  PROVE  StepOf(x)
<1>1. ControlTypeOK /\ HandlerTypeOK /\ ReadyTypeOK /\ RestTypeOK
  BY TypeParts
<1>2. x \in Handlers /\ x # Poller /\ {"append", "verify", "list", "denied", "ok"} \subseteq PCs
  BY TriggerAssumption DEF Handlers, PCs
<1>3. /\ hd[x].pc \notin {"create", "deps", "enqueue"} => hd[x].todo = {}
      /\ \A run \in hd[x].todo : run.cause = x
  BY <1>2 DEF HandlerInv
<1>4. CASE Request(x)
  <2>1. /\ HGoto(x, "idle", "append") /\ ready' = [n \in Names |-> [ready[n] EXCEPT ![x] = 0]]
        /\ UNCHANGED <<controlVars, logged, due, mail>>
    BY <1>4 DEF Request
  <2>2. events' \in 0..MaxEvents
    BY <1>1, <1>4, TriggerAssumption DEF Request, Event, RestTypeOK
  <2>3. steady' \in [Senders -> SUBSET Names]
    <3>1. Matches("webhook") \in SUBSET Names
      BY DEF Matches
    <3> QED
      BY <1>1, <1>4, <3>1 DEF Request, RestTypeOK
  <2>4. RestTypeOK'
    BY <1>1, <2>1, <2>2, <2>3 DEF RestTypeOK
  <2>5. /\ HandlerTypeOK' /\ hd'[x].todo = {} /\ \A y \in Handlers : y # x => hd'[y] = hd[y]
    BY <1>1, <1>2, <1>3, <2>1, GotoIs
  <2>6. ReadyTypeOK' /\ \A n \in Names, c \in Causes : c # x => ready'[n][c] = ready[n][c]
    <3>1. \A n \in Names, c \in Causes : ready'[n][c] = IF c = x THEN 0 ELSE ready[n][c]
      BY <1>1, <1>2, <2>1, ResetIs
    <3>2. ReadyTypeOK'
      BY <1>1, <1>2, <2>1, ResetIs
    <3> QED
      BY <3>1, <3>2
  <2>7. \A s \in Senders : s # x => steady'[s] = steady[s]
    BY <1>1, <1>4 DEF Request, RestTypeOK
  <2> QED
    BY <1>2, <2>1, <2>4, <2>5, <2>6, <2>7 DEF StepOf
<1>5. CASE AppendEvent(x)
  <2>1. /\ HGoto(x, "append", "verify") /\ logged' = logged \cup {x}
        /\ UNCHANGED <<controlVars, ready, due, mail, events, steady>>
    BY <1>5 DEF AppendEvent
  <2>2. RestTypeOK' /\ ReadyTypeOK'
    BY <1>1, <2>1 DEF RestTypeOK, ReadyTypeOK
  <2> QED
    BY <1>1, <1>2, <1>3, <2>1, <2>2, GotoIs DEF StepOf
<1>6. CASE Verify(x)
  <2>1. PICK to \in {"list", "denied", "ok"} : HGoto(x, "verify", to)
    BY <1>6 DEF Verify
  <2>2. UNCHANGED <<controlVars, logged, ready, due, mail, events, steady>>
    BY <1>6 DEF Verify
  <2>3. RestTypeOK' /\ ReadyTypeOK'
    BY <1>1, <2>2 DEF RestTypeOK, ReadyTypeOK
  <2> QED
    BY <1>1, <1>2, <1>3, <2>1, <2>2, <2>3, GotoIs DEF StepOf
<1>7. CASE MatchWorkflows(x)
  <2>1. /\ Begin(x, RunsOf("webhook", x), "list", "ok")
        /\ UNCHANGED <<controlVars, logged, ready, due, mail, events, steady>>
    BY <1>7 DEF MatchWorkflows
  <2>2. RestTypeOK' /\ ReadyTypeOK'
    BY <1>1, <2>1 DEF RestTypeOK, ReadyTypeOK
  <2>3. /\ HandlerTypeOK' /\ hd'[x].todo = RunsOf("webhook", x)
        /\ hd'[x].pc = IF RunsOf("webhook", x) = {} THEN "ok" ELSE "create"
        /\ \A y \in Handlers : y # x => hd'[y] = hd[y]
    BY <1>1, <1>2, <2>1, RunsAreStarts, BeginIs
  <2> QED
    BY <1>1, <1>2, <2>1, <2>2, <2>3, RunsAreStarts DEF StepOf
<1> QED
  BY <1>4, <1>5, <1>6, <1>7

(***************************************************************************)
(* Manual triggers, the callbacks of ended runs, and replies.              *)
(***************************************************************************)
LEMMA CallbackSteps ==
  ASSUME TriggerTypeOK, HandlerInv
  PROVE  /\ \A x \in Callers : AskManual(x) \/ Manual(x) => StepOf(x)
         /\ \A x \in Senders \cup Strangers \cup Callers : Reply(x) => StepOf(x)
         /\ RunEnds \/ Completed \/ Failed => StepOf(Notifier)
<1>1. ControlTypeOK /\ HandlerTypeOK /\ ReadyTypeOK /\ RestTypeOK
  BY TypeParts
<1>2. /\ \A x \in Senders \cup Strangers \cup Callers \cup {Notifier} : x \in Handlers /\ x # Poller
      /\ {"lookup", "list", "idle", "denied"} \subseteq PCs
  BY TriggerAssumption DEF Handlers, PCs
<1>3. ASSUME NEW x \in Handlers, x # Poller, UNCHANGED <<controlVars, logged, due, mail, steady>>,
             events' \in 0..MaxEvents, HandlerTypeOK',
             \/ ready' = ready \/ ready' = [n \in Names |-> [ready[n] EXCEPT ![x] = 0]],
             \A y \in Handlers : y # x => hd'[y] = hd[y],
             hd'[x].pc \notin {"create", "deps", "enqueue"} => hd'[x].todo = {},
             \A run \in hd'[x].todo : run.cause = x
      PROVE  StepOf(x)
  <2>1. RestTypeOK'
    BY <1>1, <1>3 DEF RestTypeOK
  <2>2. ReadyTypeOK' /\ \A n \in Names, c \in Causes : c # x => ready'[n][c] = ready[n][c]
    <3>1. CASE ready' = ready
      BY <1>1, <3>1 DEF ReadyTypeOK
    <3>2. CASE ready' = [n \in Names |-> [ready[n] EXCEPT ![x] = 0]]
      <4>1. \A n \in Names, c \in Causes : ready'[n][c] = IF c = x THEN 0 ELSE ready[n][c]
        BY <1>1, <3>2, ResetIs
      <4>2. ReadyTypeOK'
        BY <1>1, <3>2, ResetIs
      <4> QED
        BY <4>1, <4>2
    <3> QED
      BY <1>3, <3>1, <3>2
  <2> QED
    BY <1>3, <2>1, <2>2 DEF StepOf
<1>4. ASSUME NEW x \in Handlers, x # Poller, hd[x].pc \notin {"create", "deps", "enqueue"}
      PROVE  hd[x].todo = {}
  BY <1>4 DEF HandlerInv
<1>5. events \in 0..MaxEvents /\ (Event => events' \in 0..MaxEvents)
  BY <1>1, TriggerAssumption DEF RestTypeOK, Event
<1>6. ASSUME NEW x \in Callers, AskManual(x) PROVE StepOf(x)
  <2>1. PICK n \in Names : hd' = [hd EXCEPT ![x].pc = "lookup", ![x].name = n]
    BY <1>6 DEF AskManual
  <2> DEFINE new == [hd[x] EXCEPT !.pc = "lookup", !.name = n]
  <2>2. x \in Handlers /\ x # Poller /\ hd[x] \in Hds /\ hd[x].todo = {}
    BY <1>1, <1>2, <1>4, <1>6 DEF HandlerTypeOK, AskManual
  <2>3. new \in Hds /\ new.todo = {}
    BY <1>2, <2>2 DEF Hds
  <2>4. hd' = [hd EXCEPT ![x] = new]
    BY <1>1, <2>1, <2>2 DEF HandlerTypeOK
  <2> HIDE DEF new
  <2>5. HandlerTypeOK' /\ hd'[x].todo = {} /\ \A y \in Handlers : y # x => hd'[y] = hd[y]
    BY <1>1, <2>2, <2>3, <2>4 DEF HandlerTypeOK
  <2> QED
    BY <1>3, <1>5, <1>6, <2>2, <2>5 DEF AskManual
<1>7. ASSUME NEW x \in Callers, Manual(x) PROVE StepOf(x)
  <2>1. x \in Handlers /\ x # Poller /\ x \in Causes /\ hd[x].name \in Names
    BY <1>1, <1>2 DEF Causes, HandlerTypeOK, Hds
  <2> DEFINE run == [name |-> hd[x].name, trigger |-> 0, cause |-> x]
  <2>2. run \in Starts /\ run.cause = x
    BY <2>1 DEF Starts
  <2>3. \E todo \in {{run}, {}} : Begin(x, todo, "lookup", "denied")
    BY <1>7 DEF Manual
  <2> HIDE DEF run
  <2>4. PICK todo \in SUBSET Starts :
          Begin(x, todo, "lookup", "denied") /\ \A r \in todo : r.cause = x
    BY <2>2, <2>3
  <2>5. /\ HandlerTypeOK' /\ hd'[x].todo = todo
        /\ hd'[x].pc = (IF todo = {} THEN "denied" ELSE "create")
        /\ \A y \in Handlers : y # x => hd'[y] = hd[y]
    BY <1>1, <1>2, <2>1, <2>4, BeginIs
  <2> QED
    BY <1>3, <1>5, <1>7, <2>1, <2>4, <2>5 DEF Manual
<1>8. ASSUME NEW x \in Senders \cup Strangers \cup Callers, Reply(x) PROVE StepOf(x)
  <2>1. PICK from \in {"ok", "denied"} : HReturn(x, from)
    BY <1>8 DEF Reply
  <2>2. HandlerTypeOK' /\ hd'[x].todo = {} /\ \A y \in Handlers : y # x => hd'[y] = hd[y]
    BY <1>1, <1>2, <2>1, ReturnIs, IdleHandlerType
  <2> QED
    BY <1>2, <1>3, <1>5, <1>8, <2>2 DEF Reply
<1>9. ASSUME RunEnds PROVE StepOf(Notifier)
  <2>1. hd[Notifier].todo = {} /\ HGoto(Notifier, "idle", "list")
    BY <1>2, <1>4, <1>9 DEF RunEnds, HGoto
  <2>2. HandlerTypeOK' /\ hd'[Notifier].todo = {} /\ \A y \in Handlers : y # Notifier => hd'[y] = hd[y]
    BY <1>1, <1>2, <2>1, GotoIs
  <2> QED
    BY <1>2, <1>3, <1>5, <1>9, <2>2 DEF RunEnds
<1>10. ASSUME Completed \/ Failed PROVE StepOf(Notifier)
  <2>1. PICK type \in {"completed", "failed"} : Begin(Notifier, RunsOf(type, Notifier), "list", "idle")
    BY <1>10 DEF Completed, Failed
  <2>2. UNCHANGED <<controlVars, logged, ready, due, mail, events, steady>>
    BY <1>10 DEF Completed, Failed
  <2>3. RunsOf(type, Notifier) \subseteq Starts /\ \A run \in RunsOf(type, Notifier) : run.cause = Notifier
    BY <1>1, <1>2, RunsAreStarts
  <2>4. /\ HandlerTypeOK' /\ hd'[Notifier].todo = RunsOf(type, Notifier)
        /\ hd'[Notifier].pc = (IF RunsOf(type, Notifier) = {} THEN "idle" ELSE "create")
        /\ \A y \in Handlers : y # Notifier => hd'[y] = hd[y]
    BY <1>1, <1>2, <2>1, <2>3, BeginIs
  <2> QED
    BY <1>2, <1>3, <1>5, <2>2, <2>3, <2>4
<1> QED
  BY <1>6, <1>7, <1>8, <1>9, <1>10
(***************************************************************************)
(* The commits of StartRun.                                                *)
(***************************************************************************)
LEMMA StartSteps ==
  ASSUME TriggerTypeOK, HandlerInv, NEW x \in Handlers, StartRun(x)
  PROVE  StepOf(x)
<1>1. ControlTypeOK /\ HandlerTypeOK /\ ReadyTypeOK /\ RestTypeOK
  BY TypeParts
<1>2. \A run \in hd[x].todo : IF x = Poller THEN run.cause \in Mails ELSE run.cause = x
  BY DEF HandlerInv
<1>3. UNCHANGED controlVars /\ UNCHANGED <<logged, due, mail, events, steady>>
  BY DEF StartRun, StartCreate, StartDeps, StartEnqueue
<1>4. RestTypeOK'
  BY <1>1, <1>3 DEF RestTypeOK
<1>5. CASE StartCreate(x) \/ StartDeps(x)
  <2>1. PICK from \in PCs, to \in {"deps", "enqueue"} : HGoto(x, from, to)
    BY <1>5 DEF StartCreate, StartDeps, PCs
  <2>2. ready' = ready
    BY <1>5 DEF StartCreate, StartDeps
  <2>3. to \in PCs
    BY DEF PCs
  <2>4. /\ HandlerTypeOK' /\ hd'[x].pc = to /\ hd'[x].todo = hd[x].todo
        /\ \A y \in Handlers : y # x => hd'[y] = hd[y]
    BY <1>1, <2>1, <2>3, GotoIs
  <2>5. ReadyTypeOK'
    BY <1>1, <2>2 DEF ReadyTypeOK
  <2> QED
    BY <1>2, <1>3, <1>4, <2>2, <2>4, <2>5 DEF StepOf
<1>6. CASE StartEnqueue(x)
  <2>1. PICK run \in hd[x].todo :
           /\ HandlerTypeOK' /\ ReadyTypeOK'
           /\ hd'[x].todo = hd[x].todo \ {run}
           /\ hd'[x].pc = Rest(x, hd[x].todo \ {run})
           /\ \A y \in Handlers : y # x => hd'[y] = hd[y]
           /\ \A n \in Names, c \in Causes :
                ready'[n][c] = IF n = run.name /\ c = run.cause THEN ready[n][c] + 1 ELSE ready[n][c]
    BY <1>1, <1>6, EnqueueIs
  <2>2. hd'[x].pc \notin {"create", "deps", "enqueue"} => hd'[x].todo = {}
    BY <2>1 DEF Rest
  <2>3. \A n \in Names, c \in Causes :
          (IF x = Poller THEN c \notin Mails ELSE c # x) => ready'[n][c] = ready[n][c]
    BY <1>2, <2>1
  <2> QED
    BY <1>2, <1>3, <1>4, <2>1, <2>2, <2>3 DEF StepOf
<1> QED
  BY <1>5, <1>6 DEF StartRun

(***************************************************************************)
(* A store call that fails.                                                *)
(***************************************************************************)
LEMMA FailSteps ==
  ASSUME TriggerTypeOK, NEW x \in Handlers, StoreFails(x)
  PROVE  StepOf(x)
<1>1. ControlTypeOK /\ HandlerTypeOK /\ ReadyTypeOK /\ RestTypeOK
  BY TypeParts
<1>2. /\ HandlerTypeOK' /\ hd'[x].todo = {} /\ \A y \in Handlers : y # x => hd'[y] = hd[y]
      /\ UNCHANGED controlVars /\ UNCHANGED <<logged, ready, due, mail, events, steady>>
  BY <1>1, FailIs
<1>3. ReadyTypeOK' /\ RestTypeOK'
  BY <1>1, <1>2 DEF ReadyTypeOK, RestTypeOK
<1> QED
  BY <1>2, <1>3 DEF StepOf

(***************************************************************************)
(* The steps of the poll.                                                  *)
(***************************************************************************)
LEMMA PollSteps ==
  ASSUME TriggerTypeOK, HandlerInv,
         PollFails \/ FetchNew \/ markSeen \/ MarkFails \/ Polled \/ AckPoll
  PROVE  StepOf(Poller) /\ ready' = ready
<1>1. ControlTypeOK /\ HandlerTypeOK /\ ReadyTypeOK /\ RestTypeOK
  BY TypeParts
<1>2. /\ Poller \in Handlers /\ hd[Poller] \in Hds
      /\ {"markSeen", "lookup", "ack", "create"} \subseteq PCs
  BY <1>1 DEF Handlers, PCs, HandlerTypeOK
<1>3. /\ hd[Poller].pc \notin {"create", "deps", "enqueue"} => hd[Poller].todo = {}
      /\ \A run \in hd[Poller].todo : run.cause \in Mails
  BY <1>2 DEF HandlerInv
<1>4. UNCHANGED <<controlVars, logged, ready, events, steady>>
  BY DEF PollFails, FetchNew, markSeen, MarkFails, Polled, AckPoll
<1>5. RestTypeOK'
  <2>1. due' \subseteq due
    BY DEF PollFails, FetchNew, markSeen, MarkFails, Polled, AckPoll
  <2>2. mail' \in [Mails -> {"away", "unseen", "seen"}]
    <3>1. CASE markSeen
      BY <1>1, <3>1 DEF markSeen, RestTypeOK
    <3>2. CASE MarkFails
      BY <1>1, <3>2 DEF MarkFails, RestTypeOK
    <3>3. CASE mail' = mail
      BY <1>1, <3>3 DEF RestTypeOK
    <3> QED
      BY <3>1, <3>2, <3>3 DEF PollFails, FetchNew, Polled, AckPoll
  <2> QED
    BY <1>1, <1>4, <2>1, <2>2 DEF RestTypeOK
<1>6. ReadyTypeOK'
  BY <1>1, <1>4 DEF ReadyTypeOK
<1>7. SUFFICES /\ HandlerTypeOK' /\ \A y \in Handlers : y # Poller => hd'[y] = hd[y]
               /\ hd'[Poller].pc \notin {"create", "deps", "enqueue"} => hd'[Poller].todo = {}
               /\ \A run \in hd'[Poller].todo : run.cause \in Mails
  BY <1>4, <1>5, <1>6 DEF StepOf
<1>8. CASE PollFails
  BY <1>1, <1>3, <1>8 DEF PollFails, HandlerTypeOK
<1>9. CASE FetchNew
  <2>1. PICK j \in due : hd' = [hd EXCEPT ![Poller].pc = "markSeen", ![Poller].name = j[1][1],
                                          ![Poller].got = {m \in Mails : mail[m] = "unseen"}]
    BY <1>9 DEF FetchNew
  <2> DEFINE n == j[1][1]
             got == {m \in Mails : mail[m] = "unseen"}
             new == [hd[Poller] EXCEPT !.pc = "markSeen", !.name = n, !.got = got]
  <2>2. n \in Names /\ got \in SUBSET Mails
    BY <1>1 DEF RestTypeOK, TaskNames
  <2>3. hd' = [hd EXCEPT ![Poller] = new]
    BY <1>1, <1>2, <2>1 DEF HandlerTypeOK
  <2>4. hd[Poller].pc = "idle"
    BY <1>9 DEF FetchNew
  <2> HIDE DEF n, got
  <2>5. new \in Hds /\ new.todo = hd[Poller].todo
    BY <1>2, <2>2 DEF Hds
  <2> HIDE DEF new
  <2> QED
    BY <1>1, <1>2, <1>3, <2>3, <2>4, <2>5 DEF HandlerTypeOK
<1>10. CASE markSeen \/ MarkFails
  <2>1. CASE markSeen
    BY <1>1, <1>3, <2>1, MarkIs
  <2>2. CASE MarkFails
    BY <1>1, <1>2, <1>3, <2>2, GotoIs DEF MarkFails
  <2> QED
    BY <1>10, <2>1, <2>2
<1>11. CASE Polled
  <2> DEFINE n == hd[Poller].name
             from == IF Registered(n) /\ row[n].enabled THEN hd[Poller].got ELSE {}
             runs == {[name |-> n, trigger |-> 0, cause |-> m] : m \in from}
             pc == IF runs = {} THEN "ack" ELSE "create"
             new == [hd[Poller] EXCEPT !.pc = pc, !.todo = runs, !.got = {}]
  <2>1. hd' = [hd EXCEPT ![Poller].pc = pc, ![Poller].todo = runs, ![Poller].got = {}]
    BY <1>11 DEF Polled
  <2>2. n \in Names /\ from \in SUBSET Mails /\ Mails \subseteq Causes
    BY <1>2 DEF Hds, Causes
  <2> HIDE DEF n, from
  <2>3. runs \in SUBSET Starts /\ \A run \in runs : run.cause \in Mails
    BY <2>2 DEF Starts
  <2>4. pc \in PCs /\ (pc \notin {"create", "deps", "enqueue"} => runs = {})
    BY <1>2
  <2> HIDE DEF runs, pc
  <2>5. hd' = [hd EXCEPT ![Poller] = new]
    BY <1>1, <1>2, <2>1 DEF HandlerTypeOK
  <2>6. new \in Hds /\ new.todo = runs /\ new.pc = pc
    BY <1>2, <2>3, <2>4 DEF Hds
  <2> HIDE DEF new
  <2> QED
    BY <1>1, <1>2, <2>3, <2>4, <2>5, <2>6 DEF HandlerTypeOK
<1>12. CASE AckPoll
  BY <1>1, <1>2, <1>12, ReturnIs, IdleHandlerType DEF AckPoll
<1> QED
  BY <1>8, <1>9, <1>10, <1>11, <1>12

(***************************************************************************)
(* The scheduler's and the mail server's steps.                            *)
(***************************************************************************)
LEMMA OutsideSteps ==
  ASSUME TriggerTypeOK,
         \/ \E t \in TaskNames : Fire(t)
         \/ RunCron
         \/ \E m \in Mails : MailComes(m)
  PROVE  /\ UNCHANGED <<controlVars, hd, logged, steady>> /\ ReadyTypeOK' /\ RestTypeOK'
         /\ \A n \in Names, c \in Causes : c # Clock => ready'[n][c] = ready[n][c]
<1>1. ControlTypeOK /\ HandlerTypeOK /\ ReadyTypeOK /\ RestTypeOK
  BY TypeParts
<1>2. CASE \E t \in TaskNames : Fire(t)
  <2>1. PICK t \in TaskNames : Fire(t)
    BY <1>2
  <2>2. task[t] \in Defs
    BY <1>1, <2>1 DEF Fire, ControlTypeOK
  <2>3. due' \subseteq TaskNames \X Defs
    BY <1>1, <2>1, <2>2 DEF Fire, RestTypeOK
  <2>4. events' \in 0..MaxEvents
    BY <1>1, <2>1, TriggerAssumption DEF Fire, Event, RestTypeOK
  <2> QED
    BY <1>1, <2>1, <2>3, <2>4 DEF Fire, RestTypeOK, ReadyTypeOK
<1>3. CASE RunCron
  <2>1. PICK j \in due : due' = due \ {j} /\ ready' = [ready EXCEPT ![j[1][1]][Clock] = 1]
    BY <1>3 DEF RunCron
  <2>2. j[1][1] \in Names /\ Clock \in Causes
    BY <1>1 DEF RestTypeOK, TaskNames, Causes
  <2>3. ReadyTypeOK' /\ \A n \in Names, c \in Causes : c # Clock => ready'[n][c] = ready[n][c]
    BY <1>1, <2>1, <2>2 DEF ReadyTypeOK
  <2>4. RestTypeOK'
    BY <1>1, <1>3, <2>1 DEF RunCron, RestTypeOK
  <2> QED
    BY <1>3, <2>3, <2>4 DEF RunCron
<1>4. CASE \E m \in Mails : MailComes(m)
  <2>1. PICK m \in Mails : MailComes(m)
    BY <1>4
  <2>2. mail' \in [Mails -> {"away", "unseen", "seen"}]
    BY <1>1, <2>1 DEF MailComes, RestTypeOK
  <2> QED
    BY <1>1, <2>1, <2>2 DEF MailComes, RestTypeOK, ReadyTypeOK
<1> QED
  BY <1>2, <1>3, <1>4
\* A step that no handler takes.
Outside ==
  /\ UNCHANGED <<controlVars, hd, logged, steady>> /\ ReadyTypeOK' /\ RestTypeOK'
  /\ \A n \in Names, c \in Causes : c # Clock => ready'[n][c] = ready[n][c]

(***************************************************************************)
(* A step is one of the control plane, of a handler, or of neither.        *)
(***************************************************************************)
LEMMA WhoseStep ==
  ASSUME TriggerTypeOK, HandlerInv, Next
  PROVE  RegistryStep \/ Crash \/ (\E x \in Handlers : StepOf(x)) \/ Outside
<1>1. Senders \cup Strangers \cup Callers \cup {Poller, Notifier} = Handlers
  BY DEF Handlers
<1>2. CASE \E x \in Senders \cup Strangers :
             Request(x) \/ AppendEvent(x) \/ Verify(x) \/ MatchWorkflows(x)
  BY <1>1, <1>2, ReceiverSteps
<1>3. CASE \/ \E x \in Callers : AskManual(x) \/ Manual(x)
           \/ \E x \in Senders \cup Strangers \cup Callers : Reply(x)
           \/ RunEnds \/ Completed \/ Failed
  BY <1>1, <1>3, CallbackSteps
<1>4. CASE PollFails \/ FetchNew \/ markSeen \/ MarkFails \/ Polled \/ AckPoll
  BY <1>1, <1>4, PollSteps
<1>5. CASE \E x \in Handlers : StartRun(x) \/ StoreFails(x)
  BY <1>5, StartSteps, FailSteps
<1>6. CASE \/ \E t \in TaskNames : Fire(t)
           \/ RunCron
           \/ \E m \in Mails : MailComes(m)
  BY <1>6, OutsideSteps DEF Outside
<1> QED
  BY <1>2, <1>3, <1>4, <1>5, <1>6 DEF Next

(***************************************************************************)
(* The types and HandlerInv hold at first.                                 *)
(***************************************************************************)
LEMMA TriggerTypeInit ==
  ASSUME Init
  PROVE  TriggerTypeOK /\ HandlerInv
<1>1. ControlTypeOK
  BY ControlInvInit DEF Init, ControlInv
<1>2. HandlerTypeOK /\ \A x \in Handlers : hd[x].todo = {}
  BY IdleHandlerType DEF Init, HandlerTypeOK
<1>3. ReadyTypeOK
  BY DEF Init, ReadyTypeOK
<1>4. RestTypeOK
  BY TriggerAssumption DEF Init, RestTypeOK
<1> QED
  BY <1>1, <1>2, <1>3, <1>4, TypeParts DEF HandlerInv

(***************************************************************************)
(* Every step preserves the types and HandlerInv.                          *)
(***************************************************************************)
LEMMA TriggerTypeNext ==
  ASSUME TriggerTypeOK, HandlerInv, [Next]_vars
  PROVE  TriggerTypeOK' /\ HandlerInv'
<1>1. ControlTypeOK /\ HandlerTypeOK /\ ReadyTypeOK /\ RestTypeOK
  BY TypeParts
<1>2. ASSUME ControlTypeOK', HandlerTypeOK', ReadyTypeOK', RestTypeOK' PROVE TriggerTypeOK'
  BY <1>2 DEF TriggerTypeOK, HandlerTypeOK, Hds, ReadyTypeOK, RestTypeOK
<1>3. ASSUME UNCHANGED controlVars PROVE ControlTypeOK'
  BY <1>1, <1>3 DEF controlVars, ControlTypeOK
<1>4. ASSUME hd' = hd PROVE HandlerTypeOK' /\ HandlerInv'
  BY <1>1, <1>4 DEF HandlerTypeOK, HandlerInv
<1>5. CASE RegistryStep
  <2>1. ControlTypeOK'
    BY <1>1, <1>5, ControlTypeStep DEF RegistryStep
  <2>2. steady' \in [Senders -> SUBSET Names]
    BY <1>1, <1>5 DEF RegistryStep, RestTypeOK
  <2>3. RestTypeOK' /\ ReadyTypeOK'
    BY <1>1, <1>5, <2>2 DEF RegistryStep, RestTypeOK, ReadyTypeOK
  <2> QED
    BY <1>2, <1>4, <1>5, <2>1, <2>3 DEF RegistryStep
<1>6. CASE Crash
  <2>1. ControlTypeOK'
    BY <1>1, <1>6, ControlInvCrash DEF Crash
  <2>2. HandlerTypeOK' /\ \A x \in Handlers : hd'[x].todo = {}
    BY <1>6, IdleHandlerType DEF Crash, HandlerTypeOK
  <2>3. RestTypeOK' /\ ReadyTypeOK'
    BY <1>1, <1>6 DEF Crash, RestTypeOK, ReadyTypeOK
  <2> QED
    BY <1>2, <2>1, <2>2, <2>3 DEF HandlerInv
<1>7. CASE \E x \in Handlers : StepOf(x)
  <2>1. PICK x \in Handlers : StepOf(x)
    BY <1>7
  <2>2. TriggerTypeOK'
    BY <1>2, <1>3, <2>1 DEF StepOf
  <2>3. HandlerInv'
    BY <2>1 DEF StepOf, HandlerInv
  <2> QED
    BY <2>2, <2>3
<1>8. CASE Outside
  BY <1>2, <1>3, <1>4, <1>8 DEF Outside
<1>9. CASE UNCHANGED vars
  BY <1>1, <1>2, <1>3, <1>4, <1>9 DEF vars, triggerVars, ReadyTypeOK, RestTypeOK
<1> QED
  BY <1>5, <1>6, <1>7, <1>8, <1>9, WhoseStep

(***************************************************************************)
(* The type invariant, for any workflows, handlers, events and crashes,    *)
(* also when a name in use is submitted again.                             *)
(***************************************************************************)
THEOREM TriggerTypeCorrectness == Spec => []TriggerTypeOK
<1>1. Init => TriggerTypeOK /\ HandlerInv
  BY TriggerTypeInit
<1>2. TriggerTypeOK /\ HandlerInv /\ [Next]_vars => (TriggerTypeOK /\ HandlerInv)'
  BY TriggerTypeNext
<1> QED
  BY <1>1, <1>2, PTL DEF Spec

(***************************************************************************)
(* ControlInv is an invariant while no name in use is submitted again.     *)
(***************************************************************************)
LEMMA ControlInvNext ==
  ASSUME TriggerTypeOK, HandlerInv, ControlInv, MayResubmit = FALSE, [Next]_vars
  PROVE  ControlInv'
<1>1. ASSUME UNCHANGED controlVars PROVE ControlInv'
  BY <1>1 DEF controlVars, ControlInv, ControlTypeOK, RequestInv, NoStaleSchedule, AgreeInv, Agree,
              Armed, Registered
<1>2. CASE RegistryStep
  BY <1>2, ControlInvStep DEF RegistryStep
<1>3. CASE Crash
  BY <1>3, ControlInvCrash DEF Crash, ControlInv
<1>4. CASE \E x \in Handlers : StepOf(x)
  BY <1>1, <1>4 DEF StepOf
<1>5. CASE Outside
  BY <1>1, <1>5 DEF Outside
<1>6. CASE UNCHANGED vars
  BY <1>1, <1>6 DEF vars
<1> QED
  BY <1>2, <1>3, <1>4, <1>5, <1>6, WhoseStep

(***************************************************************************)
(* Whatever is armed runs the definition in the registry, for any          *)
(* workflows and any number of requests and crashes: an update unregisters *)
(* the old schedules before it writes the new definition.                  *)
(***************************************************************************)
THEOREM ArmedIsCurrent ==
  ASSUME MayResubmit = FALSE
  PROVE  Spec => []NoStaleSchedule
<1> DEFINE Inv == TriggerTypeOK /\ HandlerInv /\ ControlInv
<1>1. Init => Inv
  BY TriggerTypeInit, ControlInvInit DEF Init
<1>2. Inv /\ [Next]_vars => Inv'
  BY TriggerTypeNext, ControlInvNext
<1>3. Inv => NoStaleSchedule
  BY DEF ControlInv
<1> QED
  BY <1>1, <1>2, <1>3, PTL DEF Spec

(***************************************************************************)
(* When a request is answered the schedules agree with the row.            *)
(***************************************************************************)
THEOREM AnsweredIsArmed ==
  ASSUME MayResubmit = FALSE
  PROVE  Spec => []SchedulesAgree
<1> DEFINE Inv == TriggerTypeOK /\ HandlerInv /\ ControlInv
<1>1. Init => Inv
  BY TriggerTypeInit, ControlInvInit DEF Init
<1>2. Inv /\ [Next]_vars => Inv'
  BY TriggerTypeNext, ControlInvNext
<1>3. Inv => SchedulesAgree
  BY DEF ControlInv, AgreeInv, Agree, SchedulesAgree
<1> QED
  BY <1>1, <1>2, <1>3, PTL DEF Spec
-----------------------------------------------------------------------------
(* Webhooks *)

(***************************************************************************)
(* A step that does not touch the sender's handler and runs.               *)
(***************************************************************************)
LEMMA SenderFrame ==
  ASSUME TriggerTypeOK, NEW s \in Senders, SenderInv(s), hd'[s] = hd[s],
         \A n \in Names : ready'[n][s] = ready[n][s],
         steady'[s] \subseteq steady[s], logged \subseteq logged',
         hd[s].pc \in {"append", "verify", "list"} => steady'[s] \subseteq Matches("webhook")'
  PROVE  SenderInv(s)'
<1>1. steady[s] \subseteq Names /\ \A run \in hd[s].todo : run.name \in Names
  BY DEF TriggerTypeOK, Handlers, Starts
<1> QED
  BY <1>1 DEF SenderInv

(***************************************************************************)
(* The sender's own steps.                                                 *)
(***************************************************************************)
LEMMA SenderSteps ==
  ASSUME TriggerTypeOK, HandlerInv, OneWebhook, NEW s \in Senders, SenderInv(s),
         \/ Request(s) \/ AppendEvent(s) \/ Verify(s) \/ MatchWorkflows(s)
         \/ Reply(s) \/ StartRun(s) \/ StoreFails(s)
  PROVE  SenderInv(s)'
<1>1. ControlTypeOK /\ HandlerTypeOK /\ ReadyTypeOK /\ RestTypeOK
  BY TypeParts
<1>2. /\ s \in Handlers /\ s \in Causes /\ s # Poller /\ s \notin Strangers
      /\ {"append", "verify", "list", "denied", "ok", "deps", "enqueue"} \subseteq PCs
  BY TriggerAssumption DEF Handlers, Causes, PCs
<1>3. /\ hd[s].pc \notin {"create", "deps", "enqueue"} => hd[s].todo = {}
      /\ \A run \in hd[s].todo : run.cause = s /\ run.name \in Names
      /\ steady[s] \subseteq Names
  BY <1>1, <1>2 DEF HandlerInv, HandlerTypeOK, Hds, Starts, RestTypeOK
<1>4. UNCHANGED row
  BY DEF Request, AppendEvent, Verify, MatchWorkflows, Reply, StartRun, StartCreate, StartDeps,
         StartEnqueue, StoreFails, controlVars
<1>5. Matches("webhook")' = Matches("webhook")
  BY <1>4 DEF Matches, Registered
<1>6. CASE Request(s)
  <2>1. /\ HGoto(s, "idle", "append") /\ ready' = [n \in Names |-> [ready[n] EXCEPT ![s] = 0]]
        /\ steady'[s] = Matches("webhook")
    BY <1>1, <1>6 DEF Request, RestTypeOK
  <2>2. hd'[s].pc = "append" /\ hd'[s].todo = {}
    BY <1>1, <1>2, <1>3, <2>1, GotoIs
  <2>3. \A n \in Names : ready'[n][s] = 0
    <3>1. \A n \in Names, c \in Causes : ready'[n][c] = IF c = s THEN 0 ELSE ready[n][c]
      BY <1>1, <1>2, <2>1, ResetIs
    <3> QED
      BY <1>2, <3>1
  <2> QED
    BY <1>5, <2>1, <2>2, <2>3 DEF SenderInv
<1>7. CASE AppendEvent(s)
  <2>1. /\ HGoto(s, "append", "verify") /\ logged' = logged \cup {s}
        /\ UNCHANGED <<ready, steady>>
    BY <1>7 DEF AppendEvent
  <2>2. hd[s].pc = "append" /\ hd'[s].pc = "verify" /\ hd'[s].todo = hd[s].todo /\ hd[s].todo = {}
    BY <1>1, <1>2, <1>3, <2>1, GotoIs
  <2> QED
    BY <1>5, <2>1, <2>2 DEF SenderInv
<1>8. CASE Verify(s)
  <2>1. PICK to \in {"list", "denied"} : HGoto(s, "verify", to)
    BY <1>2, <1>8 DEF Verify
  <2>2. UNCHANGED <<logged, ready, steady>>
    BY <1>8 DEF Verify
  <2>3. hd[s].pc = "verify" /\ hd'[s].pc = to /\ hd'[s].todo = hd[s].todo /\ hd[s].todo = {}
    BY <1>1, <1>2, <1>3, <2>1, GotoIs
  <2> QED
    BY <1>5, <2>2, <2>3 DEF SenderInv
<1>9. CASE MatchWorkflows(s)
  <2>1. /\ Begin(s, RunsOf("webhook", s), "list", "ok")
        /\ UNCHANGED <<logged, ready, steady>>
    BY <1>9 DEF MatchWorkflows
  <2>2. /\ hd[s].pc = "list" /\ hd'[s].todo = RunsOf("webhook", s)
        /\ hd'[s].pc \in {"ok", "create"}
    <3>1. PICK todo : todo = RunsOf("webhook", s)
      OBVIOUS
    <3>2. todo \in SUBSET Starts
      BY <1>1, <1>2, <3>1, RunsAreStarts
    <3>3. Begin(s, todo, "list", "ok") /\ "ok" \in PCs
      BY <1>2, <2>1, <3>1
    <3>4. /\ hd[s].pc = "list" /\ hd'[s].todo = todo
          /\ hd'[s].pc = IF todo = {} THEN "ok" ELSE "create"
      BY <1>1, <1>2, <3>2, <3>3, BeginIs
    <3> QED
      BY <3>1, <3>4
  <2>3. s \in logged /\ steady[s] \subseteq Matches("webhook") /\ \A n \in Names : ready[n][s] = 0
    BY <2>2 DEF SenderInv
  <2>4. \A n \in Matches("webhook") : \E run \in RunsOf("webhook", s) : run.name = n
    <3>1. ASSUME NEW n \in Matches("webhook") PROVE \E run \in RunsOf("webhook", s) : run.name = n
      <4>1. row[n].def \in Defs /\ "webhook" \in ToSet(Triggers[row[n].def])
        BY <1>1 DEF Matches, Registered, ControlTypeOK
      <4>2. PICK i \in DOMAIN Triggers[row[n].def] : Triggers[row[n].def][i] = "webhook"
        BY <4>1 DEF ToSet
      <4>3. i \in Positions
        BY <4>1 DEF Positions
      <4> DEFINE h == <<n, i>>
      <4>4. /\ h \in Matches("webhook") \X Positions /\ h[1] = n /\ h[2] = i
            /\ h[2] \in DOMAIN Triggers[row[h[1]].def] /\ Triggers[row[h[1]].def][h[2]] = "webhook"
        BY <4>2, <4>3
      <4> HIDE DEF h
      <4>5. [name |-> h[1], trigger |-> h[2], cause |-> s] \in RunsOf("webhook", s)
        BY <4>4 DEF RunsOf
      <4> QED
        BY <4>4, <4>5
    <3> QED
      BY <3>1
  <2>5. ASSUME NEW run \in RunsOf("webhook", s), NEW other \in RunsOf("webhook", s),
               other.name = run.name
        PROVE  other = run
    <3>1. PICK h \in Matches("webhook") \X Positions :
            /\ h[2] \in DOMAIN Triggers[row[h[1]].def] /\ Triggers[row[h[1]].def][h[2]] = "webhook"
            /\ run = [name |-> h[1], trigger |-> h[2], cause |-> s]
      BY DEF RunsOf
    <3>2. PICK g \in Matches("webhook") \X Positions :
            /\ g[2] \in DOMAIN Triggers[row[g[1]].def] /\ Triggers[row[g[1]].def][g[2]] = "webhook"
            /\ other = [name |-> g[1], trigger |-> g[2], cause |-> s]
      BY DEF RunsOf
    <3>3. h[1] = g[1] /\ row[h[1]].def \in Defs
      <4>1. h[1] \in Matches("webhook")
        BY <3>1
      <4>2. row[h[1]].def \in Defs
        BY <1>1, <4>1 DEF Matches, Registered, ControlTypeOK
      <4> QED
        BY <2>5, <3>1, <3>2, <4>2
    <3>4. h[2] = g[2]
      BY <3>1, <3>2, <3>3 DEF OneWebhook
    <3> QED
      BY <3>1, <3>2, <3>3, <3>4
  <2>6. \A run \in RunsOf("webhook", s) : run.name \in Names
    BY <1>1, <1>2, RunsAreStarts DEF Starts
  <2> QED
    BY <2>1, <2>2, <2>3, <2>4, <2>5, <2>6 DEF SenderInv
<1>10. CASE Reply(s)
  <2>1. PICK from \in {"ok", "denied"} : HReturn(s, from)
    BY <1>10 DEF Reply
  <2>2. hd'[s].pc = "idle" /\ hd'[s].todo = {}
    BY <1>1, <1>2, <2>1, ReturnIs, IdleHandlerType
  <2> QED
    BY <1>10, <2>2 DEF Reply, SenderInv
<1>11. CASE StartCreate(s) \/ StartDeps(s)
  <2>1. PICK from \in {"create", "deps"}, to \in {"deps", "enqueue"} : HGoto(s, from, to)
    BY <1>11 DEF StartCreate, StartDeps
  <2>2. UNCHANGED <<logged, ready, steady>>
    BY <1>11 DEF StartCreate, StartDeps
  <2>3. hd[s].pc = from /\ hd'[s].pc = to /\ hd'[s].todo = hd[s].todo
    BY <1>1, <1>2, <2>1, GotoIs
  <2> QED
    BY <2>2, <2>3 DEF SenderInv
<1>12. CASE StartEnqueue(s)
  <2>1. PICK run \in hd[s].todo :
           /\ hd[s].pc = "enqueue" /\ hd'[s].todo = hd[s].todo \ {run}
           /\ hd'[s].pc = Rest(s, hd[s].todo \ {run})
           /\ \A n \in Names, c \in Causes :
                ready'[n][c] = IF n = run.name /\ c = run.cause THEN ready[n][c] + 1 ELSE ready[n][c]
    BY <1>1, <1>2, <1>12, EnqueueIs
  <2>2. UNCHANGED <<logged, steady>>
    BY <1>12 DEF StartEnqueue
  <2>3. hd'[s].pc \in {"create", "ok"}
    BY <2>1 DEF Rest
  <2>4. run.name \in Names /\ run.cause = s /\ ready[run.name][s] = 0
        /\ \A other \in hd[s].todo : other.name = run.name => other = run
    BY <1>3 DEF SenderInv
  <2>5. ready'[run.name][s] = 1 /\ \A n \in Names : n # run.name => ready'[n][s] = ready[n][s]
    BY <1>2, <2>1, <2>4
  <2>6. s \in logged /\ \A n \in steady[s] : ready[n][s] = 1 \/ \E r \in hd[s].todo : r.name = n
    BY <2>1 DEF SenderInv
  <2>7. \A n \in steady[s] : ready'[n][s] = 1 \/ \E r \in hd'[s].todo : r.name = n
    BY <1>3, <2>1, <2>5, <2>6
  <2>8. \A n \in Names : ready'[n][s] <= 1
    BY <2>5 DEF SenderInv
  <2>9. \A r \in hd'[s].todo :
          ready'[r.name][s] = 0 /\ \A other \in hd'[s].todo : other.name = r.name => other = r
    BY <1>3, <2>1, <2>4, <2>5 DEF SenderInv
  <2> QED
    BY <2>2, <2>3, <2>6, <2>7, <2>8, <2>9 DEF SenderInv
<1>13. CASE StoreFails(s)
  <2>1. hd'[s].pc = OnError(s) /\ hd'[s].todo = {} /\ ready' = ready
    BY <1>1, <1>2, <1>13, FailIs
  <2>2. hd'[s].pc = "denied"
    BY <2>1 DEF OnError
  <2> QED
    BY <2>1, <2>2 DEF SenderInv
<1> QED
  BY <1>6, <1>7, <1>8, <1>9, <1>10, <1>11, <1>12, <1>13 DEF StartRun

(***************************************************************************)
(* The registry changes under the senders: a workflow once registered      *)
(* stays so.                                                               *)
(***************************************************************************)
LEMMA StaysRegistered ==
  ASSUME ControlInv, ControlStep, NEW n \in Names, Registered(n)
  PROVE  Registered(n)'
<1>1. row \in Rows /\ req \in Requests /\ NoDef \notin Defs
  BY ControlTypes, ControlAssumption DEF ControlInv
<1>2. CASE row' = row
  BY <1>2 DEF Registered
<1>3. CASE Register
  <2>1. row'[req.name].def = req.def /\ req.def \in Defs
        /\ (n # req.name => row'[n] = row[n])
    BY <1>1, <1>3 DEF Register, Goto, ControlInv, RequestInv, Rows, Requests
  <2> QED
    BY <1>1, <2>1 DEF Registered
<1>4. CASE SetEnabled
  <2>1. row'[n].def = row[n].def
    BY <1>1, <1>4 DEF SetEnabled, Rows, Requests
  <2> QED
    BY <2>1 DEF Registered
<1> QED
  BY <1>2, <1>3, <1>4 DEF ControlStep, Ask, UpdateLookup, Unregister, Arm, ArmFails, syncCron

(***************************************************************************)
(* Every step preserves WebhookInv.                                        *)
(***************************************************************************)
LEMMA WebhookInvNext ==
  ASSUME TriggerTypeOK, HandlerInv, ControlInv, OneWebhook, WebhookInv, [Next]_vars
  PROVE  WebhookInv'
<1> SUFFICES ASSUME NEW s \in Senders PROVE SenderInv(s)'
  BY DEF WebhookInv
<1>1. SenderInv(s)
  BY DEF WebhookInv
<1>2. s \in Handlers /\ s \in Causes /\ s # Poller /\ s # Clock /\ s \notin Mails
  BY TriggerAssumption DEF Handlers, Causes
<1>3. ControlTypeOK /\ HandlerTypeOK /\ ReadyTypeOK /\ RestTypeOK
  BY TypeParts
<1>4. ASSUME UNCHANGED row
      PROVE  hd[s].pc \in {"append", "verify", "list"} => steady[s] \subseteq Matches("webhook")'
  BY <1>1, <1>4 DEF SenderInv, Matches, Registered
<1>5. ASSUME NEW x \in Handlers, x # s, StepOf(x) PROVE SenderInv(s)'
  <2>1. /\ hd'[s] = hd[s] /\ steady'[s] = steady[s] /\ logged \subseteq logged' /\ UNCHANGED row
    BY <1>2, <1>5 DEF StepOf, controlVars
  <2>2. \A n \in Names : ready'[n][s] = ready[n][s]
    BY <1>2, <1>5 DEF StepOf
  <2> QED
    BY <1>1, <1>4, <2>1, <2>2, SenderFrame
<1>6. CASE RegistryStep
  <2>1. /\ ControlStep /\ UNCHANGED <<hd, logged, ready>>
        /\ steady'[s] = {n \in steady[s] : row'[n].enabled /\ "webhook" \in ToSet(Triggers[row'[n].def])}
    BY <1>6 DEF RegistryStep
  <2>2. hd[s].pc \in {"append", "verify", "list"} => steady'[s] \subseteq Matches("webhook")'
    <3>1. ASSUME hd[s].pc \in {"append", "verify", "list"}, NEW n \in steady'[s]
          PROVE  n \in Names /\ Registered(n)' /\ row'[n].enabled
                 /\ "webhook" \in ToSet(Triggers[row'[n].def])
      <4>1. n \in Names /\ Registered(n)
        BY <1>1, <2>1, <3>1 DEF SenderInv, Matches
      <4> QED
        BY <2>1, <4>1, StaysRegistered
    <3> QED
      BY <3>1 DEF Matches
  <2> QED
    BY <1>1, <2>1, <2>2, SenderFrame
<1>7. CASE Crash
  <2>1. hd'[s].pc = "idle" /\ hd'[s].todo = {} /\ UNCHANGED ready
    BY <1>2, <1>7, IdleHandlerType DEF Crash
  <2> QED
    BY <1>1, <2>1 DEF SenderInv
<1>8. CASE Outside
  <2>1. \A n \in Names : ready'[n][s] = ready[n][s]
    BY <1>2, <1>8 DEF Outside
  <2>2. UNCHANGED <<row, hd, logged, steady>>
    BY <1>8 DEF Outside, controlVars
  <2> QED
    BY <1>1, <1>4, <2>1, <2>2, SenderFrame
<1>9. CASE UNCHANGED vars
  BY <1>1, <1>4, <1>9, SenderFrame DEF vars, triggerVars, controlVars
<1>10. CASE \/ Request(s) \/ AppendEvent(s) \/ Verify(s) \/ MatchWorkflows(s)
            \/ Reply(s) \/ StartRun(s) \/ StoreFails(s)
  BY <1>1, <1>10, SenderSteps
<1>11. CASE \E x \in Senders \cup Strangers : x # s /\
              (Request(x) \/ AppendEvent(x) \/ Verify(x) \/ MatchWorkflows(x))
  BY <1>5, <1>11, ReceiverSteps DEF Handlers
<1>12. CASE \/ \E x \in Callers : AskManual(x) \/ Manual(x)
            \/ \E x \in Senders \cup Strangers \cup Callers : x # s /\ Reply(x)
            \/ RunEnds \/ Completed \/ Failed
  <2>1. Notifier # s /\ \A x \in Callers : x # s
    BY TriggerAssumption
  <2> QED
    BY <1>5, <1>12, <2>1, CallbackSteps DEF Handlers
<1>13. CASE PollFails \/ FetchNew \/ markSeen \/ MarkFails \/ Polled \/ AckPoll
  BY <1>2, <1>5, <1>13, PollSteps DEF Handlers
<1>14. CASE \E x \in Handlers : x # s /\ (StartRun(x) \/ StoreFails(x))
  BY <1>5, <1>14, StartSteps, FailSteps
<1>15. CASE \/ \E t \in TaskNames : Fire(t)
            \/ RunCron
            \/ \E m \in Mails : MailComes(m)
  BY <1>8, <1>15, OutsideSteps DEF Outside
<1> QED
  BY <1>6, <1>7, <1>9, <1>10, <1>11, <1>12, <1>13, <1>14, <1>15 DEF Next
(***************************************************************************)
(* A webhook that is answered ok has started one whole run of every        *)
(* workflow that matched it all along, for any senders, workflows, events, *)
(* requests of the control plane and crashes.                              *)
(***************************************************************************)
THEOREM WebhooksStartRuns ==
  ASSUME MayResubmit = FALSE, OneWebhook
  PROVE  Spec => []AcknowledgedRuns
<1> DEFINE Inv == TriggerTypeOK /\ HandlerInv /\ ControlInv /\ WebhookInv
<1>1. Init => Inv
  <2> SUFFICES ASSUME Init PROVE Inv
    OBVIOUS
  <2>1. TriggerTypeOK /\ HandlerInv /\ ControlInv
    BY TriggerTypeInit, ControlInvInit DEF Init
  <2>2. ASSUME NEW s \in Senders PROVE SenderInv(s)
    <3>1. s \in Handlers /\ s \in Causes
      BY DEF Handlers, Causes
    <3>2. hd[s].pc = "idle" /\ hd[s].todo = {} /\ \A n \in Names : ready[n][s] = 0
      BY <3>1, IdleHandlerType DEF Init
    <3> QED
      BY <3>2 DEF SenderInv
  <2> QED
    BY <2>1, <2>2 DEF WebhookInv
<1>2. Inv /\ [Next]_vars => Inv'
  BY TriggerTypeNext, ControlInvNext, WebhookInvNext
<1>3. Inv => AcknowledgedRuns
  <2> SUFFICES ASSUME Inv, NEW s \in Senders
               PROVE  /\ hd[s].pc = "ok" => s \in logged /\ \A n \in steady[s] : ready[n][s] = 1
                      /\ \A n \in Names : ready[n][s] <= 1
    BY DEF AcknowledgedRuns
  <2>1. SenderInv(s) /\ (hd[s].pc = "ok" => hd[s].todo = {})
    BY DEF WebhookInv, HandlerInv, Handlers
  <2> QED
    BY <2>1 DEF SenderInv
<1> QED
  BY <1>1, <1>2, <1>3, PTL DEF Spec

-----------------------------------------------------------------------------
(* Emails *)

(***************************************************************************)
(* A step that touches neither the poll nor an email.                      *)
(***************************************************************************)
LEMMA MailFrame ==
  ASSUME TriggerTypeOK, HandlerInv, MailInv, hd'[Poller] = hd[Poller], mail' = mail,
         \A n \in Names, m \in Mails : ready'[n][m] = ready[n][m]
  PROVE  MailInv'
<1>1. /\ hd[Poller].got \subseteq Mails /\ \A run \in hd[Poller].todo : run.cause \in Mails
  BY DEF TriggerTypeOK, HandlerInv, Handlers
<1>2. \A m \in Mails : Unstarted(m)' <=> Unstarted(m)
  BY DEF Unstarted
<1>3. MailAtMostOnce'
  BY DEF MailInv, MailAtMostOnce
<1> QED
  BY <1>1, <1>2, <1>3 DEF MailInv

(***************************************************************************)
(* The poll's own steps.                                                   *)
(***************************************************************************)
LEMMA PollInv ==
  ASSUME TriggerTypeOK, HandlerInv, MailInv,
         PollFails \/ FetchNew \/ markSeen \/ MarkFails \/ Polled \/ AckPoll
  PROVE  MailInv'
<1>1. ControlTypeOK /\ HandlerTypeOK /\ ReadyTypeOK /\ RestTypeOK
  BY TypeParts
<1>2. /\ Poller \in Handlers /\ hd[Poller] \in Hds /\ hd[Poller].got \subseteq Mails
      /\ {"lookup", "ack"} \subseteq PCs
  BY <1>1 DEF Handlers, HandlerTypeOK, Hds, PCs
<1>3. ready' = ready
  BY PollSteps
<1>4. /\ hd[Poller].pc \notin {"create", "deps", "enqueue"} => hd[Poller].todo = {}
      /\ \A m : Unstarted(m)' <=> Unstarted(m)
      /\ MailAtMostOnce'
  BY <1>2, <1>3 DEF HandlerInv, Unstarted, MailInv, MailAtMostOnce
<1>5. CASE PollFails
  BY <1>3, <1>5, MailFrame DEF PollFails
<1>6. CASE FetchNew
  <2>1. PICK j \in due : hd' = [hd EXCEPT ![Poller].pc = "markSeen", ![Poller].name = j[1][1],
                                          ![Poller].got = {m \in Mails : mail[m] = "unseen"}]
    BY <1>6 DEF FetchNew
  <2>2. mail' = mail /\ hd[Poller].pc = "idle"
    BY <1>6 DEF FetchNew
  <2>3. /\ hd'[Poller].pc = "markSeen" /\ hd'[Poller].todo = hd[Poller].todo
        /\ hd'[Poller].got = {m \in Mails : mail[m] = "unseen"}
    BY <1>1, <1>2, <2>1 DEF HandlerTypeOK, Hds
  <2> QED
    BY <1>4, <2>2, <2>3 DEF MailInv
<1>7. CASE markSeen
  <2>1. mail' = [m \in Mails |-> IF m \in hd[Poller].got THEN "seen" ELSE mail[m]]
    BY <1>7 DEF markSeen
  <2>2. /\ hd[Poller].pc = "markSeen" /\ hd'[Poller].pc = "lookup" /\ hd'[Poller].todo = {}
        /\ hd'[Poller].got \subseteq hd[Poller].got
    BY <1>1, <1>4, <1>7, MarkIs
  <2>3. \A m \in hd[Poller].got : mail[m] = "unseen" /\ Unstarted(m)
    BY <1>2, <2>2 DEF MailInv
  <2>4. \A m \in Mails : mail'[m] # "seen" => Unstarted(m)
    BY <2>1 DEF MailInv
  <2> QED
    BY <1>2, <1>4, <2>1, <2>2, <2>3, <2>4 DEF MailInv
<1>8. CASE MarkFails
  <2>1. PICK marked \in SUBSET hd[Poller].got :
          mail' = [m \in Mails |-> IF m \in marked THEN "seen" ELSE mail[m]]
    BY <1>8 DEF MarkFails
  <2>2. HGoto(Poller, "markSeen", "ack")
    BY <1>8 DEF MarkFails
  <2>3. hd'[Poller].pc = "ack" /\ hd'[Poller].todo = {}
    BY <1>1, <1>2, <1>4, <2>2, GotoIs
  <2>4. \A m \in Mails : mail'[m] # "seen" => Unstarted(m)
    BY <2>1 DEF MailInv
  <2> QED
    BY <1>4, <2>3, <2>4 DEF MailInv
<1>9. CASE Polled
  <2> DEFINE n == hd[Poller].name
             from == IF Registered(n) /\ row[n].enabled THEN hd[Poller].got ELSE {}
             runs == {[name |-> n, trigger |-> 0, cause |-> m] : m \in from}
             pc == IF runs = {} THEN "ack" ELSE "create"
  <2>1. /\ hd' = [hd EXCEPT ![Poller].pc = pc, ![Poller].todo = runs, ![Poller].got = {}]
        /\ hd[Poller].pc = "lookup" /\ mail' = mail
    BY <1>9 DEF Polled
  <2>2. from \subseteq hd[Poller].got
    OBVIOUS
  <2> HIDE DEF n, from
  <2>3. /\ \A run \in runs : run.cause \in from
        /\ \A run, other \in runs : other.cause = run.cause => other = run
    OBVIOUS
  <2>4. pc \in {"ack", "create"}
    OBVIOUS
  <2> HIDE DEF runs, pc
  <2>5. hd'[Poller].pc = pc /\ hd'[Poller].todo = runs /\ hd'[Poller].got = {}
    BY <1>1, <1>2, <2>1 DEF HandlerTypeOK, Hds
  <2>6. \A m \in hd[Poller].got : mail[m] = "seen" /\ Unstarted(m)
    BY <2>1 DEF MailInv
  <2> QED
    BY <1>2, <1>4, <2>1, <2>2, <2>3, <2>4, <2>5, <2>6 DEF MailInv
<1>10. CASE AckPoll
  <2>1. HReturn(Poller, "ack") /\ mail' = mail
    BY <1>10 DEF AckPoll
  <2>2. hd'[Poller].pc = "idle" /\ hd'[Poller].todo = {}
    BY <1>1, <1>2, <2>1, ReturnIs, IdleHandlerType
  <2> QED
    BY <1>4, <2>1, <2>2 DEF MailInv
<1> QED
  BY <1>5, <1>6, <1>7, <1>8, <1>9, <1>10

(***************************************************************************)
(* The poll starts the runs of the emails it fetched.                      *)
(***************************************************************************)
LEMMA PollStarts ==
  ASSUME TriggerTypeOK, HandlerInv, MailInv, StartRun(Poller)
  PROVE  MailInv'
<1>1. ControlTypeOK /\ HandlerTypeOK /\ ReadyTypeOK /\ RestTypeOK
  BY TypeParts
<1>2. /\ Poller \in Handlers /\ {"deps", "enqueue"} \subseteq PCs
      /\ \A run \in hd[Poller].todo : run.cause \in Mails /\ run.name \in Names
      /\ Mails \subseteq Causes
  BY <1>1 DEF Handlers, PCs, HandlerInv, HandlerTypeOK, Hds, Starts, Causes
<1>3. mail' = mail
  BY DEF StartRun, StartCreate, StartDeps, StartEnqueue
<1>4. CASE StartCreate(Poller) \/ StartDeps(Poller)
  <2>1. PICK from \in {"create", "deps"}, to \in {"deps", "enqueue"} : HGoto(Poller, from, to)
    BY <1>4 DEF StartCreate, StartDeps
  <2>2. ready' = ready
    BY <1>4 DEF StartCreate, StartDeps
  <2>3. hd'[Poller].pc = to /\ hd'[Poller].todo = hd[Poller].todo
    BY <1>1, <1>2, <2>1, GotoIs
  <2>4. (\A m : Unstarted(m)' <=> Unstarted(m)) /\ MailAtMostOnce'
    BY <2>2 DEF Unstarted, MailInv, MailAtMostOnce
  <2> QED
    BY <1>3, <2>3, <2>4 DEF MailInv
<1>5. CASE StartEnqueue(Poller)
  <2>1. PICK run \in hd[Poller].todo :
           /\ hd'[Poller].todo = hd[Poller].todo \ {run}
           /\ hd'[Poller].pc = Rest(Poller, hd[Poller].todo \ {run})
           /\ \A n \in Names, c \in Causes :
                ready'[n][c] = IF n = run.name /\ c = run.cause THEN ready[n][c] + 1 ELSE ready[n][c]
    BY <1>1, <1>2, <1>5, EnqueueIs
  <2>2. hd'[Poller].pc \in {"create", "ack"}
    <3>1. Poller \notin Senders \cup Strangers \cup Callers
      BY TriggerAssumption
    <3> QED
      BY <2>1, <3>1 DEF Rest
  <2>3. /\ mail[run.cause] = "seen" /\ Unstarted(run.cause)
        /\ run.cause \in Mails /\ run.name \in Names
        /\ \A other \in hd[Poller].todo : other.cause = run.cause => other = run
    BY <1>2 DEF MailInv
  <2>4. \A n \in Names, m \in Mails : m # run.cause => ready'[n][m] = ready[n][m]
    BY <1>2, <2>1
  <2>5. \A n \in Names : ready'[n][run.cause] = IF n = run.name THEN 1 ELSE 0
    BY <1>2, <2>1, <2>3 DEF Unstarted
  <2>6. \A m \in Mails : m # run.cause /\ Unstarted(m) => Unstarted(m)'
    BY <2>4 DEF Unstarted
  <2>7. MailAtMostOnce'
    <3> SUFFICES ASSUME NEW m \in Mails, NEW n1 \in Names, NEW n2 \in Names
                 PROVE  ready'[n1][m] <= 1 /\ (ready'[n1][m] = 1 /\ ready'[n2][m] = 1 => n1 = n2)
      BY DEF MailAtMostOnce
    <3>1. CASE m = run.cause
      BY <2>5, <3>1
    <3>2. CASE m # run.cause
      BY <2>4, <3>2 DEF MailInv, MailAtMostOnce
    <3> QED
      BY <3>1, <3>2
  <2>8. \A r \in hd'[Poller].todo :
          /\ r.cause \in Mails /\ r.cause # run.cause /\ mail[r.cause] = "seen" /\ Unstarted(r.cause)
          /\ \A other \in hd'[Poller].todo : other.cause = r.cause => other = r
    BY <1>2, <2>1, <2>3 DEF MailInv
  <2>9. \A m \in Mails : mail[m] # "seen" => m # run.cause /\ Unstarted(m)
    BY <2>3 DEF MailInv
  <2> QED
    BY <1>3, <2>2, <2>6, <2>7, <2>8, <2>9 DEF MailInv
<1> QED
  BY <1>4, <1>5 DEF StartRun

(***************************************************************************)
(* Every step preserves MailInv.                                           *)
(***************************************************************************)
LEMMA MailInvNext ==
  ASSUME TriggerTypeOK, HandlerInv, MailInv, [Next]_vars
  PROVE  MailInv'
<1>1. Mails \subseteq Causes /\ Poller \in Handlers /\ Handlers \cap Mails = {} /\ Clock \notin Mails
  BY TriggerAssumption DEF Causes, Handlers
<1>2. ASSUME NEW x \in Handlers, x # Poller, StepOf(x) PROVE MailInv'
  <2>1. hd'[Poller] = hd[Poller] /\ mail' = mail
    BY <1>1, <1>2 DEF StepOf
  <2>2. \A n \in Names, m \in Mails : ready'[n][m] = ready[n][m]
    BY <1>1, <1>2 DEF StepOf
  <2> QED
    BY <2>1, <2>2, MailFrame
<1>3. CASE RegistryStep \/ UNCHANGED vars
  <2>1. UNCHANGED <<hd, mail, ready>>
    BY <1>3 DEF RegistryStep, vars, triggerVars
  <2> QED
    BY <2>1, MailFrame
<1>4. CASE Crash
  <2>1. UNCHANGED <<mail, ready>> /\ hd'[Poller].pc = "idle" /\ hd'[Poller].todo = {}
    BY <1>1, <1>4, IdleHandlerType DEF Crash
  <2>2. (\A m : Unstarted(m)' <=> Unstarted(m)) /\ MailAtMostOnce'
    BY <2>1 DEF Unstarted, MailInv, MailAtMostOnce
  <2> QED
    BY <2>1, <2>2 DEF MailInv
<1>5. CASE (\E t \in TaskNames : Fire(t)) \/ RunCron
  <2>1. UNCHANGED <<hd, mail>>
    BY <1>5 DEF Fire, RunCron
  <2>2. \A n \in Names, m \in Mails : ready'[n][m] = ready[n][m]
    BY <1>1, <1>5, OutsideSteps
  <2> QED
    BY <2>1, <2>2, MailFrame
<1>6. ASSUME NEW m \in Mails, MailComes(m) PROVE MailInv'
  <2>1. UNCHANGED <<hd, ready>> /\ mail[m] = "away" /\ mail' = [mail EXCEPT ![m] = "unseen"]
    BY <1>6 DEF MailComes
  <2>2. mail \in [Mails -> {"away", "unseen", "seen"}] /\ hd[Poller].got \subseteq Mails
        /\ \A run \in hd[Poller].todo : run.cause \in Mails
    BY <1>1 DEF TriggerTypeOK, HandlerInv
  <2>3. mail'[m] = "unseen" /\ \A k \in Mails : k # m => mail'[k] = mail[k]
    BY <2>1, <2>2
  <2>4. (\A k : Unstarted(k)' <=> Unstarted(k)) /\ MailAtMostOnce'
    BY <2>1 DEF Unstarted, MailInv, MailAtMostOnce
  <2> QED
    BY <2>1, <2>2, <2>3, <2>4 DEF MailInv
<1>7. CASE PollFails \/ FetchNew \/ markSeen \/ MarkFails \/ Polled \/ AckPoll
  BY <1>7, PollInv
<1>8. CASE StoreFails(Poller)
  <2>1. OnError(Poller) = "ack"
    BY TriggerAssumption DEF OnError
  <2>2. UNCHANGED <<mail, ready>> /\ hd'[Poller].pc = "ack" /\ hd'[Poller].todo = {}
    BY <1>1, <1>8, <2>1, FailIs, TypeParts
  <2>3. (\A m : Unstarted(m)' <=> Unstarted(m)) /\ MailAtMostOnce'
    BY <2>2 DEF Unstarted, MailInv, MailAtMostOnce
  <2> QED
    BY <2>2, <2>3 DEF MailInv
<1>9. CASE \E x \in Handlers : StartRun(x) \/ StoreFails(x)
  BY <1>2, <1>8, <1>9, StartSteps, FailSteps, PollStarts
<1>10. CASE \/ \E x \in Callers : AskManual(x) \/ Manual(x)
            \/ \E x \in Senders \cup Strangers \cup Callers : Reply(x)
            \/ RunEnds \/ Completed \/ Failed
  <2>1. Notifier # Poller /\ \A x \in Senders \cup Strangers \cup Callers : x # Poller
    BY TriggerAssumption
  <2> QED
    BY <1>2, <1>10, <2>1, CallbackSteps DEF Handlers
<1>11. CASE \E x \in Senders \cup Strangers :
              Request(x) \/ AppendEvent(x) \/ Verify(x) \/ MatchWorkflows(x)
  <2>1. \A x \in Senders \cup Strangers : x # Poller
    BY TriggerAssumption
  <2> QED
    BY <1>2, <1>11, <2>1, ReceiverSteps DEF Handlers
<1> QED
  BY <1>3, <1>4, <1>5, <1>6, <1>7, <1>9, <1>10, <1>11 DEF Next

(***************************************************************************)
(* An email starts at most one run, for any mailbox and any polls and      *)
(* crashes: it is marked before the first run is started.                  *)
(***************************************************************************)
THEOREM EmailsStartOneRun == Spec => []MailAtMostOnce
<1> DEFINE Inv == TriggerTypeOK /\ HandlerInv /\ MailInv
<1>1. Init => Inv
  <2> SUFFICES ASSUME Init PROVE Inv
    OBVIOUS
  <2>1. Poller \in Handlers /\ Mails \subseteq Causes
    BY DEF Handlers, Causes
  <2>2. hd[Poller].pc = "idle" /\ hd[Poller].todo = {} /\ \A n \in Names, m \in Mails : ready[n][m] = 0
    BY <2>1, IdleHandlerType DEF Init
  <2>3. MailInv
    BY <2>2 DEF MailInv, Unstarted, MailAtMostOnce
  <2> QED
    BY <2>3, TriggerTypeInit
<1>2. Inv /\ [Next]_vars => Inv'
  BY TriggerTypeNext, MailInvNext
<1>3. Inv => MailAtMostOnce
  BY DEF MailInv
<1> QED
  BY <1>1, <1>2, <1>3, PTL DEF Spec
-----------------------------------------------------------------------------
(* Disabled workflows *)

(***************************************************************************)
(* A store call of a request leaves the requests about others settled.     *)
(***************************************************************************)
LEMMA OthersStaySettled ==
  ASSUME ControlTypeOK, ControlStep, NEW n \in Names, req.pc = "idle" \/ req.name # n
  PROVE  /\ settled'[n] = settled[n]
         /\ req'.pc = "idle" \/ req'.name # n \/ req.pc = "idle"
<1>1. req \in Requests /\ settled \in [Names -> Ops \cup {"none", "cut"}] /\ req.name \in Names
  BY ControlTypes DEF Requests
<1>2. IdleRequest.pc = "idle"
  BY IdleRequestType
<1>3. CASE Ask
  BY <1>3 DEF Ask
<1>4. CASE req.pc # "idle"
  <2>1. ASSUME Answer \/ ArmFails \/ \E from : Refuse(from)
        PROVE  settled'[n] = settled[n] /\ req'.pc = "idle"
    BY <1>1, <1>2, <1>4, <2>1 DEF Answer, ArmFails, Refuse
  <2>2. ASSUME NEW from, NEW to, NEW tasks, Goto(from, to, tasks) PROVE req'.name = req.name
    BY <1>1, <2>2 DEF Goto, Requests
  <2>3. ASSUME NEW tasks, req' = [req EXCEPT !.left = tasks] PROVE req'.name = req.name
    BY <1>1, <2>3 DEF Requests
  <2>4. ASSUME NEW d, NEW tasks, req' = [req EXCEPT !.pc = "arm", !.def = d, !.left = tasks]
        PROVE  req'.name = req.name
    BY <1>1, <2>4 DEF Requests
  <2>5. CASE UpdateLookup
    BY <1>4, <2>1, <2>2, <2>5 DEF UpdateLookup
  <2>6. CASE Unregister
    BY <1>4, <2>1, <2>2, <2>3, <2>6 DEF Unregister
  <2>7. CASE Register
    BY <1>4, <2>2, <2>7 DEF Register
  <2>8. CASE Arm
    BY <1>4, <2>1, <2>3, <2>8 DEF Arm
  <2>9. CASE ArmFails
    BY <2>1, <2>9
  <2>10. CASE SetEnabled
    BY <1>4, <2>1, <2>2, <2>10 DEF SetEnabled
  <2>11. CASE syncCron
    BY <1>4, <2>2, <2>4, <2>11 DEF syncCron
  <2>12. CASE Ask
    BY <1>4, <2>12 DEF Ask
  <2> QED
    BY <2>5, <2>6, <2>7, <2>8, <2>9, <2>10, <2>11, <2>12 DEF ControlStep
<1>5. CASE req.pc = "idle"
  <2>1. Ask
    BY <1>5 DEF ControlStep, UpdateLookup, Unregister, Register, Arm, ArmFails, SetEnabled,
                syncCron, Goto, Refuse
  <2> QED
    BY <1>3, <2>1
<1> QED
  BY <1>4, <1>5

(***************************************************************************)
(* The runs a handler takes on are not of a disabled workflow.             *)
(***************************************************************************)
LEMMA RestStep ==
  ASSUME TriggerTypeOK, HandlerInv, ControlInv, Next, NEW n \in Names, AtRest(n)
  PROVE  /\ AtRest(n)' \/ (req'.pc # "idle" /\ req'.name = n)
         /\ \A c \in Causes : ready'[n][c] <= ready[n][c]
<1>1. ControlTypeOK /\ HandlerTypeOK /\ ReadyTypeOK /\ RestTypeOK
  BY TypeParts
<1>2. /\ settled[n] = "disable" /\ (req.pc = "idle" \/ req.name # n)
      /\ \A x \in Handlers : \A run \in hd[x].todo : run.name # n
      /\ \A j \in due : j[1][1] # n \/ j[1][2] # "cron"
  BY DEF AtRest
<1>3. Armed(n) = {} /\ ~row[n].enabled
  BY <1>2 DEF ControlInv, AgreeInv, Agree
<1>4. \A type, c : \A run \in RunsOf(type, c) : run.name # n
  <2>1. \A type : n \notin Matches(type)
    BY <1>3 DEF Matches
  <2> QED
    BY <2>1 DEF RunsOf
<1>5. ASSUME ready' = ready PROVE \A c \in Causes : ready'[n][c] <= ready[n][c]
  BY <1>1, <1>5 DEF ReadyTypeOK
<1>6. ASSUME NEW x \in Handlers, ready' = [k \in Names |-> [ready[k] EXCEPT ![x] = 0]]
      PROVE  \A c \in Causes : ready'[n][c] <= ready[n][c]
  <2>1. \A k \in Names, c \in Causes : ready'[k][c] = IF c = x THEN 0 ELSE ready[k][c]
    BY <1>1, <1>6, ResetIs
  <2>2. \A c \in Causes : ready[n][c] \in Nat
    BY <1>1 DEF ReadyTypeOK
  <2> QED
    BY <2>1, <2>2
\* A handler's step, and what it has to show.
<1>7. ASSUME NEW x \in Handlers, UNCHANGED controlVars, due' \subseteq due,
             \A y \in Handlers : y # x => hd'[y] = hd[y],
             \A run \in hd'[x].todo : run.name # n
      PROVE  AtRest(n)'
  BY <1>2, <1>7 DEF AtRest, controlVars
<1>8. ASSUME NEW x \in Handlers, NEW from, NEW to \in PCs, HGoto(x, from, to),
             UNCHANGED controlVars, due' \subseteq due
      PROVE  AtRest(n)'
  <2>1. hd'[x].todo = hd[x].todo /\ \A y \in Handlers : y # x => hd'[y] = hd[y]
    BY <1>1, <1>8, GotoIs
  <2> QED
    BY <1>2, <1>7, <1>8, <2>1
<1>9. ASSUME NEW x \in Handlers, NEW todo \in SUBSET Starts, NEW from, NEW otherwise \in PCs,
             Begin(x, todo, from, otherwise), UNCHANGED controlVars, due' \subseteq due,
             \A run \in todo : run.name # n
      PROVE  AtRest(n)'
  <2>1. hd'[x].todo = todo /\ \A y \in Handlers : y # x => hd'[y] = hd[y]
    BY <1>1, <1>9, BeginIs
  <2> QED
    BY <1>7, <1>9, <2>1
<1>10. ASSUME NEW x \in Handlers, NEW from, HReturn(x, from), UNCHANGED controlVars, due' \subseteq due
       PROVE  AtRest(n)'
  <2>1. hd'[x].todo = {} /\ \A y \in Handlers : y # x => hd'[y] = hd[y]
    BY <1>1, <1>10, ReturnIs, IdleHandlerType
  <2> QED
    BY <1>7, <1>10, <2>1
<1>11. {"append", "verify", "list", "denied", "ok", "lookup", "idle", "deps", "enqueue", "ack"} \subseteq PCs
  BY DEF PCs
<1>12. CASE RegistryStep
  <2>1. ControlStep /\ UNCHANGED <<hd, ready, due>>
    BY <1>12 DEF RegistryStep
  <2>2. settled'[n] = settled[n]
    BY <1>1, <1>2, <2>1, OthersStaySettled
  <2> QED
    BY <1>2, <1>5, <2>1, <2>2 DEF AtRest
<1>13. CASE Crash
  <2>1. /\ UNCHANGED <<ready, due>> /\ req'.pc = "idle" /\ settled'[n] = settled[n]
        /\ \A x \in Handlers : hd'[x].todo = {}
    BY <1>1, <1>2, <1>13, IdleRequestType, IdleHandlerType DEF Crash, ControlCrash, ControlTypeOK
  <2> QED
    BY <1>2, <1>5, <2>1 DEF AtRest
<1>14. ASSUME NEW x \in Senders \cup Strangers,
              Request(x) \/ AppendEvent(x) \/ Verify(x) \/ MatchWorkflows(x)
       PROVE  AtRest(n)' /\ \A c \in Causes : ready'[n][c] <= ready[n][c]
  <2>1. x \in Handlers
    BY DEF Handlers
  <2>2. CASE Request(x)
    BY <1>6, <1>8, <1>11, <2>1, <2>2 DEF Request
  <2>3. CASE AppendEvent(x)
    BY <1>5, <1>8, <1>11, <2>1, <2>3 DEF AppendEvent
  <2>4. CASE Verify(x)
    <3>1. PICK to \in {"list", "denied", "ok"} : HGoto(x, "verify", to)
      BY <2>4 DEF Verify
    <3> QED
      BY <1>5, <1>8, <1>11, <2>1, <2>4, <3>1 DEF Verify
  <2>5. CASE MatchWorkflows(x)
    <3>1. RunsOf("webhook", x) \in SUBSET Starts
      BY <1>1, <2>1, RunsAreStarts
    <3> QED
      BY <1>4, <1>5, <1>9, <1>11, <2>1, <2>5, <3>1 DEF MatchWorkflows
  <2> QED
    BY <1>14, <2>2, <2>3, <2>4, <2>5
<1>15. ASSUME NEW x \in Callers, AskManual(x) \/ Manual(x)
       PROVE  AtRest(n)' /\ \A c \in Causes : ready'[n][c] <= ready[n][c]
  <2>1. x \in Handlers /\ x \in Causes
    BY DEF Handlers, Causes
  <2>2. CASE AskManual(x)
    <3>1. PICK k \in Names : hd' = [hd EXCEPT ![x].pc = "lookup", ![x].name = k]
      BY <2>2 DEF AskManual
    <3>2. hd'[x].todo = hd[x].todo /\ \A y \in Handlers : y # x => hd'[y] = hd[y]
      BY <1>1, <2>1, <3>1 DEF HandlerTypeOK, Hds
    <3>3. UNCHANGED <<controlVars, due>> /\ ready' = [k1 \in Names |-> [ready[k1] EXCEPT ![x] = 0]]
      BY <2>2 DEF AskManual
    <3> QED
      BY <1>2, <1>6, <1>7, <2>1, <3>2, <3>3
  <2>3. CASE Manual(x)
    <3> DEFINE k == hd[x].name
               run == [name |-> k, trigger |-> 0, cause |-> x]
               todo == IF Registered(k) /\ row[k].enabled THEN {run} ELSE {}
    <3>1. run \in Starts /\ run.name = k
      BY <1>1, <2>1 DEF HandlerTypeOK, Hds, Starts
    <3>2. Begin(x, todo, "lookup", "denied") /\ UNCHANGED <<controlVars, due, ready>>
      BY <2>3 DEF Manual
    <3>3. todo \in SUBSET Starts /\ \A r \in todo : r.name # n
      BY <1>3, <3>1
    <3> HIDE DEF todo
    <3> QED
      BY <1>5, <1>9, <1>11, <2>1, <3>2, <3>3
  <2> QED
    BY <1>15, <2>2, <2>3
<1>16. ASSUME NEW x \in Senders \cup Strangers \cup Callers, Reply(x)
       PROVE  AtRest(n)' /\ \A c \in Causes : ready'[n][c] <= ready[n][c]
  BY <1>5, <1>10, <1>16 DEF Reply, Handlers
<1>17. CASE RunEnds \/ Completed \/ Failed
  <2>1. Notifier \in Handlers
    BY DEF Handlers
  <2>2. CASE RunEnds
    BY <1>6, <1>8, <1>11, <2>1, <2>2 DEF RunEnds
  <2>3. CASE Completed \/ Failed
    <3>1. PICK type \in {"completed", "failed"} : Begin(Notifier, RunsOf(type, Notifier), "list", "idle")
      BY <2>3 DEF Completed, Failed
    <3>2. UNCHANGED <<controlVars, due, ready>>
      BY <2>3 DEF Completed, Failed
    <3>3. RunsOf(type, Notifier) \in SUBSET Starts
      BY <1>1, <2>1, RunsAreStarts
    <3> QED
      BY <1>4, <1>5, <1>9, <1>11, <2>1, <3>1, <3>2, <3>3
  <2> QED
    BY <1>17, <2>2, <2>3
<1>18. ASSUME NEW t \in TaskNames, Fire(t)
       PROVE  AtRest(n)' /\ \A c \in Causes : ready'[n][c] <= ready[n][c]
  <2>1. t[1] # n
    BY <1>3, <1>18 DEF Fire, Armed
  <2>2. \A j \in due' : j[1][1] # n \/ j[1][2] # "cron"
    BY <1>2, <1>18, <2>1 DEF Fire
  <2> QED
    BY <1>2, <1>5, <1>18, <2>2 DEF Fire, AtRest, controlVars
<1>19. CASE RunCron
  <2>1. PICK j \in due : /\ j[1][2] = "cron" /\ due' = due \ {j}
                         /\ ready' = [ready EXCEPT ![j[1][1]][Clock] = 1]
    BY <1>19 DEF RunCron
  <2>2. j[1][1] # n
    BY <1>2, <2>1
  <2>3. ready'[n] = ready[n]
    BY <1>1, <2>1, <2>2 DEF ReadyTypeOK
  <2>4. \A c \in Causes : ready[n][c] \in Nat
    BY <1>1 DEF ReadyTypeOK
  <2> QED
    BY <1>2, <1>19, <2>1, <2>3, <2>4 DEF RunCron, AtRest, controlVars
<1>20. CASE PollFails \/ FetchNew \/ markSeen \/ MarkFails \/ Polled \/ AckPoll
  <2>1. Poller \in Handlers /\ hd[Poller] \in Hds
    BY <1>1 DEF Handlers, HandlerTypeOK
  <2>2. UNCHANGED controlVars /\ due' \subseteq due /\ ready' = ready
    BY <1>20 DEF PollFails, FetchNew, markSeen, MarkFails, Polled, AckPoll
  <2>3. CASE PollFails
    BY <1>2, <1>5, <2>2, <2>3 DEF PollFails, AtRest, controlVars
  <2>4. CASE FetchNew
    <3>1. PICK j \in due : hd' = [hd EXCEPT ![Poller].pc = "markSeen", ![Poller].name = j[1][1],
                                            ![Poller].got = {m \in Mails : mail[m] = "unseen"}]
      BY <2>4 DEF FetchNew
    <3>2. hd'[Poller].todo = hd[Poller].todo /\ \A y \in Handlers : y # Poller => hd'[y] = hd[y]
      BY <1>1, <2>1, <3>1 DEF HandlerTypeOK, Hds
    <3> QED
      BY <1>2, <1>5, <1>7, <2>1, <2>2, <3>2
  <2>5. CASE markSeen \/ MarkFails
    <3>1. CASE markSeen
      <4>1. hd'[Poller].todo = hd[Poller].todo /\ \A y \in Handlers : y # Poller => hd'[y] = hd[y]
        BY <1>1, <3>1, MarkIs
      <4> QED
        BY <1>2, <1>5, <1>7, <2>1, <2>2, <4>1
    <3>2. CASE MarkFails
      BY <1>5, <1>8, <1>11, <2>1, <2>2, <3>2 DEF MarkFails
    <3> QED
      BY <2>5, <3>1, <3>2
  <2>6. CASE Polled
    <3> DEFINE k == hd[Poller].name
               from == IF Registered(k) /\ row[k].enabled THEN hd[Poller].got ELSE {}
               runs == {[name |-> k, trigger |-> 0, cause |-> m] : m \in from}
               pc == IF runs = {} THEN "ack" ELSE "create"
    <3>1. hd' = [hd EXCEPT ![Poller].pc = pc, ![Poller].todo = runs, ![Poller].got = {}]
      BY <2>6 DEF Polled
    <3>2. \A run \in runs : run.name # n
      BY <1>3
    <3> HIDE DEF runs, pc
    <3>3. hd'[Poller].todo = runs /\ \A y \in Handlers : y # Poller => hd'[y] = hd[y]
      BY <1>1, <2>1, <3>1 DEF HandlerTypeOK, Hds
    <3> QED
      BY <1>5, <1>7, <2>1, <2>2, <3>2, <3>3
  <2>7. CASE AckPoll
    BY <1>5, <1>10, <2>1, <2>2, <2>7 DEF AckPoll
  <2> QED
    BY <1>20, <2>3, <2>4, <2>5, <2>6, <2>7
<1>21. ASSUME NEW m \in Mails, MailComes(m)
       PROVE  AtRest(n)' /\ \A c \in Causes : ready'[n][c] <= ready[n][c]
  BY <1>2, <1>5, <1>21 DEF MailComes, AtRest, controlVars
<1>22. ASSUME NEW x \in Handlers, StartRun(x)
       PROVE  AtRest(n)' /\ \A c \in Causes : ready'[n][c] <= ready[n][c]
  <2>1. CASE StartCreate(x) \/ StartDeps(x)
    <3>1. PICK from \in {"create", "deps"}, to \in {"deps", "enqueue"} : HGoto(x, from, to)
      BY <2>1 DEF StartCreate, StartDeps
    <3>2. UNCHANGED <<controlVars, due, ready>>
      BY <2>1 DEF StartCreate, StartDeps
    <3> QED
      BY <1>5, <1>8, <1>11, <3>1, <3>2
  <2>2. CASE StartEnqueue(x)
    <3>1. PICK run \in hd[x].todo :
             /\ hd'[x].todo = hd[x].todo \ {run}
             /\ \A y \in Handlers : y # x => hd'[y] = hd[y]
             /\ \A k \in Names, c \in Causes :
                  ready'[k][c] = IF k = run.name /\ c = run.cause THEN ready[k][c] + 1 ELSE ready[k][c]
      BY <1>1, <2>2, EnqueueIs
    <3>2. UNCHANGED <<controlVars, due>>
      BY <2>2 DEF StartEnqueue
    <3>3. AtRest(n)'
      BY <1>2, <1>7, <3>1, <3>2
    <3>4. \A c \in Causes : ready'[n][c] = ready[n][c] /\ ready[n][c] \in Nat
      BY <1>1, <1>2, <3>1 DEF ReadyTypeOK
    <3> QED
      BY <3>3, <3>4
  <2> QED
    BY <1>22, <2>1, <2>2 DEF StartRun
<1>23. ASSUME NEW x \in Handlers, StoreFails(x)
       PROVE  AtRest(n)' /\ \A c \in Causes : ready'[n][c] <= ready[n][c]
  <2>1. /\ hd'[x].todo = {} /\ UNCHANGED controlVars /\ due' = due /\ ready' = ready
        /\ \A y \in Handlers : y # x => hd'[y] = hd[y]
    BY <1>1, <1>23, FailIs
  <2> QED
    BY <1>5, <1>7, <2>1
<1> QED
  BY <1>12, <1>13, <1>14, <1>15, <1>16, <1>17, <1>18, <1>19, <1>20, <1>21, <1>22, <1>23 DEF Next

(***************************************************************************)
(* A disabled workflow stays at rest until the next request about it, for  *)
(* any workflows, handlers, events and crashes.                            *)
(***************************************************************************)
THEOREM DisabledIsQuiet ==
  ASSUME MayResubmit = FALSE
  PROVE  Spec => DisabledStaysAtRest
<1> DEFINE Inv == TriggerTypeOK /\ HandlerInv /\ ControlInv
           Quiet == \A n \in Names : AtRest(n) =>
                      /\ AtRest(n)' \/ (req'.pc # "idle" /\ req'.name = n)
                      /\ \A c \in Causes : ready'[n][c] <= ready[n][c]
<1>1. Init => Inv
  BY TriggerTypeInit, ControlInvInit DEF Init
<1>2. Inv /\ [Next]_vars => Inv'
  BY TriggerTypeNext, ControlInvNext
<1>3. Inv /\ [Next]_vars => [Quiet]_vars
  BY RestStep
<1>4. Spec => [][Quiet]_vars
  <2> HIDE DEF Inv, Quiet
  <2> QED
    BY <1>1, <1>2, <1>3, PTL DEF Spec
<1> QED
  BY <1>4 DEF DisabledStaysAtRest
=============================================================================
