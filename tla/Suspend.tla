------------------------------ MODULE Suspend -------------------------------
(***************************************************************************)
(* Wait nodes: how a run parks, and how a named signal or a timer resumes  *)
(* it (internal/worker/suspend.go, internal/honker/suspend.go).  It adds   *)
(* to Worker the tables suspended_continuations and buffered_signals, the  *)
(* one-shot timer jobs, and the callers of ResumeBySignal: the control     *)
(* plane's handleResume and the send-signal nodes of other runs.           *)
(*                                                                         *)
(* resumeInstance reads the run's status and the continuation before its   *)
(* transaction, so a resumer has a pc of its own for each store call.      *)
(***************************************************************************)
EXTENDS Worker

CONSTANTS
  WaitNodes,   \* the nodes of type wait
  Names,       \* effective signal names
  NoName,      \* "no signal source"
  SignalName,  \* the name a wait parks on, or NoName
  TimerNodes,  \* the waits with a timer source
  Senders,     \* callers of ResumeBySignal
  Payloads,    \* signal payloads
  MaxSignals   \* bound on the signals sent

(***************************************************************************)
(* The validator refuses a wait with neither source (wait_requires_source) *)
(***************************************************************************)
ASSUME SuspendAssumption ==
  /\ WaitNodes \subseteq Nodes \ SwitchNodes
  /\ Names # {} /\ NoName \notin Names /\ Payloads # {}
  /\ SignalName \in [WaitNodes -> Names \cup {NoName}]
  /\ TimerNodes \subseteq WaitNodes
  /\ \A n \in WaitNodes : n \in TimerNodes \/ SignalName[n] # NoName
  /\ Senders \cap Workers = {}
  /\ MaxSignals \in Nat

VARIABLES
  parked,   \* suspended_continuations: the waits with a saved continuation
  buffered, \* buffered_signals: the rows
  lastId,   \* its AUTOINCREMENT counter
  timer,    \* the timer job of each wait
  timerBy,  \* the worker of the timer job's latest claim
  res,      \* the resume in progress of each worker and sender
  sent      \* signals sent so far

suspendVars == <<parked, buffered, lastId, timer, timerBy, res, sent>>
suspVars == <<vars, suspendVars>>

TimerStates == {"absent", "pending", "processing", "expired", "gone"}

Resumers == Workers \cup Senders

\* pc: the next store call.  lookup, buffer: ResumeBySignal.  readStatus,
\* readCont, resume: resumeInstance.  ack: the timer job's claim.
ResumerPCs == {"idle", "lookup", "buffer", "readStatus", "readCont", "resume", "ack"}

Signals == [name : Names, payload : Payloads]

ResumeCalls == [pc : ResumerPCs, node : Nodes, signal : Signals]

IdleResumer == [pc |-> "idle", node |-> Root, signal |-> CHOOSE s \in Signals : TRUE]

SuspendTypeOK ==
  /\ TypeOK
  /\ parked \subseteq WaitNodes
  /\ buffered \subseteq [id : Nat, signal : Signals]
  /\ lastId \in Nat
  /\ timer \in [WaitNodes -> TimerStates]
  /\ timerBy \in [WaitNodes -> Workers \cup {NoWorker}]
  /\ res \in [Resumers -> ResumeCalls]
  /\ sent \in 0..MaxSignals

SuspendInit ==
  /\ Init
  /\ parked = {}
  /\ buffered = {}
  /\ lastId = 0
  /\ timer = [n \in WaitNodes |-> "absent"]
  /\ timerBy = [n \in WaitNodes |-> NoWorker]
  /\ res = [x \in Resumers |-> IdleResumer]
  /\ sent = 0

\* The nodes that are done: a parked wait's job is acked, the wait is not done.
Done == Completed \ parked

-----------------------------------------------------------------------------
(* handleWait: one transaction *)

\* Worker w holds a wait's signal name and timer and is about to park it.
AtWait(w) == h[w].pc = "commit" /\ h[w].node \in WaitNodes /\ ~skip[h[w].node]

\* The signals buffered for the name wait n parks on.  `signal_name = ''`
\* is never looked up.
BufferedFor(n) == {r \in buffered : r.signal.name = SignalName[n]}

\* TakeBufferedSignal deletes by name and payload: all the equal signals go.
TakeBufferedSignal(n) ==
  LET oldest == CHOOSE r \in BufferedFor(n) : \A q \in BufferedFor(n) : r.id <= q.id IN
  buffered' = {r \in buffered : r.signal # oldest.signal}

\* A signal came before the park: the wait completes instead of parking.
WaitConsumes(w) ==
  LET n == h[w].node IN
  /\ AtWait(w)
  /\ BufferedFor(n) # {}
  /\ TakeBufferedSignal(n)
  /\ CommitNodeAtom(w, n, "ok", {})
  /\ Goto(w, "commit", "readPending")
  /\ UNCHANGED <<starter, canceller, callVars, crashes, parked, lastId, timer, timerBy, res, sent>>

\* Mutant: the park's ack is not counted.
ParkPendingUncounted == pending

\* The parked job leaves the jobs in flight.
ParkPending == pending - 1

\* Mutant: the timer job is not enqueued with the park.
TimerAfterNothing(n) == timer

\* The one-shot resume job of a wait with a timer.
TimerAfterPark(n) == IF n \in TimerNodes THEN [timer EXCEPT ![n] = "pending"] ELSE timer

\* The run becomes `waiting` whatever its status was.
WaitParks(w) ==
  LET n == h[w].node IN
  /\ AtWait(w)
  /\ BufferedFor(n) = {}
  /\ CanCommit(w, n)
  /\ parked' = parked \cup {n}
  /\ status' = "waiting"
  /\ jobState' = [jobState EXCEPT ![n] = "acked"]
  /\ pending' = ParkPending
  /\ timer' = TimerAfterPark(n)
  /\ Goto(w, "commit", "readPending")
  /\ UNCHANGED <<deps, result, fcont, claimant, attempts, issued, skip, steps,
                 starter, canceller, callVars, crashes, buffered, lastId, timerBy, res, sent>>

\* The claim is no longer valid: unlike handleNode, handleWait records a failure.
WaitRollback(w) ==
  /\ AtWait(w)
  /\ ~CanCommit(w, h[w].node)
  /\ Goto(w, "commit", "commitFailed")
  /\ UNCHANGED <<storeVars, starter, canceller, callVars, crashes, suspendVars>>

-----------------------------------------------------------------------------
(* ResumeBySignal *)

ResumerGoto(x, from, to) ==
  /\ res[x].pc = from
  /\ res' = [res EXCEPT ![x].pc = to]

ResumerReturn(x, from) ==
  /\ res[x].pc = from
  /\ res' = [res EXCEPT ![x] = IdleResumer]

SendSignal(x) ==
  /\ res[x].pc = "idle"
  /\ sent < MaxSignals
  /\ sent' = sent + 1
  /\ \E s \in Signals : res' = [res EXCEPT ![x].pc = "lookup", ![x].signal = s]
  /\ UNCHANGED <<vars, parked, buffered, lastId, timer, timerBy>>

\* ParkedInstancesForSignal: the waits parked on a name, of a waiting run.
ParkedOn(name) == {n \in parked : status = "waiting" /\ SignalName[n] = name}

\* None: the signal will be buffered.  One: resumed.  More: an error, and the
\* signal is refused.
LookupParked(x) ==
  LET found == ParkedOn(res[x].signal.name) IN
  /\ res[x].pc = "lookup"
  /\ IF found = {} THEN ResumerGoto(x, "lookup", "buffer")
     ELSE IF Cardinality(found) > 1 THEN ResumerReturn(x, "lookup")
     ELSE \E n \in found : res' = [res EXCEPT ![x].pc = "readStatus", ![x].node = n]
  /\ UNCHANGED <<vars, parked, buffered, lastId, timer, timerBy, sent>>

BufferSignal(x) ==
  /\ ResumerReturn(x, "buffer")
  /\ lastId' = lastId + 1
  /\ buffered' = buffered \cup {[id |-> lastId', signal |-> res[x].signal]}
  /\ UNCHANGED <<vars, parked, timer, timerBy, sent>>

-----------------------------------------------------------------------------
(* resumeInstance *)

\* A worker goes on to ack the timer job, a sender returns.
AfterResume(x, from) ==
  IF x \in Workers THEN ResumerGoto(x, from, "ack") ELSE ResumerReturn(x, from)

ResumeReadStatus(x) ==
  /\ IF status = "waiting" THEN ResumerGoto(x, "readStatus", "readCont")
                           ELSE AfterResume(x, "readStatus")
  /\ UNCHANGED <<vars, parked, buffered, lastId, timer, timerBy, sent>>

\* Mutant: the continuation is not looked for, so a stale timer fires again.
ResumeUnchecked(x) ==
  /\ ResumerGoto(x, "readCont", "resume")
  /\ UNCHANGED <<vars, parked, buffered, lastId, timer, timerBy, sent>>

ResumeReadCont(x) ==
  /\ IF res[x].node \in parked THEN ResumerGoto(x, "readCont", "resume")
                               ELSE AfterResume(x, "readCont")
  /\ UNCHANGED <<vars, parked, buffered, lastId, timer, timerBy, sent>>

\* Mutant: the continuation is not deleted.
KeepContinuation(n) == parked

ParkedAfter(n) == parked \ {n}

\* One transaction; it does not look at the status or the continuation again.
\* The wait's job was acked at the park, so only the fan-out adjusts pending.
ResumeTx(x) ==
  LET n == res[x].node
      ready == ReadyAfter(n) IN
  /\ res[x].pc = "resume"
  /\ result' = [result EXCEPT ![n] = "ok"]
  /\ deps' = [m \in Nodes |-> IF m \in Dependents(n) THEN deps[m] - 1 ELSE deps[m]]
  /\ jobState' = [m \in Nodes |-> IF m \in ready THEN "pending" ELSE jobState[m]]
  /\ issued' = [m \in Nodes |-> IF m \in ready THEN issued[m] + 1 ELSE issued[m]]
  /\ skip' = [m \in Nodes |-> IF m \in ready THEN FALSE ELSE skip[m]]
  /\ steps' = [m \in Nodes |-> IF m \in ready THEN steps[n] \cup {n} ELSE steps[m]]
  /\ pending' = pending + Cardinality(ready)
  /\ parked' = ParkedAfter(n)
  /\ status' = IF parked' = {} THEN "running" ELSE status
  /\ AfterResume(x, "resume")
  /\ UNCHANGED <<fcont, claimant, attempts, starter, canceller, h, callVars,
                 crashes, buffered, lastId, timer, timerBy, sent>>

ResumeStep(x) == ResumeReadStatus(x) \/ ResumeReadCont(x) \/ ResumeTx(x)

-----------------------------------------------------------------------------
(* The timer job *)

\* Time is not modelled: the timer may fire at any time after the park.
ClaimTimer(w) ==
  /\ h[w].pc = "idle"
  /\ res[w].pc = "idle"
  /\ \E n \in WaitNodes :
       /\ timer[n] \in {"pending", "expired"}
       /\ timer' = [timer EXCEPT ![n] = "processing"]
       /\ timerBy' = [timerBy EXCEPT ![n] = w]
       /\ res' = [res EXCEPT ![w].pc = "readStatus", ![w].node = n]
  /\ UNCHANGED <<vars, parked, buffered, lastId, sent>>

AckTimer(w) ==
  LET n == res[w].node IN
  /\ ResumerReturn(w, "ack")
  /\ timer' = IF timer[n] = "processing" /\ timerBy[n] = w
                THEN [timer EXCEPT ![n] = "gone"] ELSE timer
  /\ UNCHANGED <<vars, parked, buffered, lastId, timerBy, sent>>

ExpireTimer(n) ==
  /\ timer[n] = "processing"
  /\ MayOverrun \/ res[timerBy[n]].pc = "idle" \/ res[timerBy[n]].node # n
  /\ timer' = [timer EXCEPT ![n] = "expired"]
  /\ UNCHANGED <<vars, parked, buffered, lastId, timerBy, res, sent>>

-----------------------------------------------------------------------------
(* The rest of the system, next to the waits *)

StartStep == StartRun /\ UNCHANGED suspendVars

\* All of Worker's handlers; a wait leaves them at its transaction.
NodeStep(w) ==
  /\ res[w].pc = "idle"
  /\ ~AtWait(w)
  /\ Handle(w)
  /\ UNCHANGED suspendVars

WorkerStep(w) ==
  \/ NodeStep(w)
  \/ WaitConsumes(w) \/ WaitParks(w) \/ WaitRollback(w)
  \/ ClaimTimer(w) \/ ResumeStep(w) \/ AckTimer(w)

\* A call that was made runs to its end; nobody has to make one.
SenderStep(x) == LookupParked(x) \/ BufferSignal(x) \/ ResumeStep(x)

\* CancelRun also drops the pending timer jobs and the continuations.
CancelStep ==
  \/ CancelStatus /\ UNCHANGED suspendVars
  \/ /\ CancelDelete
     /\ timer' = [n \in WaitNodes |-> IF timer[n] = "pending" THEN "gone" ELSE timer[n]]
     /\ UNCHANGED <<parked, buffered, lastId, timerBy, res, sent>>
  \/ /\ CancelDrop
     /\ parked' = {}
     /\ UNCHANGED <<buffered, lastId, timer, timerBy, res, sent>>

ExpireStep(n) == Expire(n) /\ UNCHANGED suspendVars

\* The resumes in progress are lost with the daemon.
CrashStep ==
  /\ Crash
  /\ res' = [x \in Resumers |-> IdleResumer]
  /\ UNCHANGED <<parked, buffered, lastId, timer, timerBy, sent>>

SuspendNext ==
  \/ StartStep
  \/ \E w \in Workers : WorkerStep(w)
  \/ \E x \in Senders : SendSignal(x) \/ SenderStep(x)
  \/ CancelStep
  \/ \E n \in Nodes : ExpireStep(n)
  \/ \E n \in WaitNodes : ExpireTimer(n)
  \/ CrashStep

SuspendSpec == SuspendInit /\ [][SuspendNext]_suspVars

(***************************************************************************)
(* As in Worker; a timer job is a durable job of the queue, so it comes    *)
(* due and is claimed in the end.  Nobody has to send a signal.            *)
(***************************************************************************)
SuspendFairSpec ==
  /\ SuspendSpec
  /\ WF_suspVars(StartStep)
  /\ \A w \in Workers : WF_suspVars(WorkerStep(w))
  /\ \A x \in Senders : WF_suspVars(SenderStep(x))
  /\ \A n \in Nodes : WF_suspVars(ExpireStep(n))
  /\ \A n \in WaitNodes : WF_suspVars(ExpireTimer(n))

-----------------------------------------------------------------------------
(* What makes a wait correct *)

(***************************************************************************)
(* A node is enqueued only when all it depends on is done, and a parked    *)
(* wait is not: a resume satisfies each dependent once (fanOutContinuation *)
(* in resumeInstance, "a second resume is a no-op").                       *)
(***************************************************************************)
EnqueuedAfterDependencies ==
  \A n \in Nodes : jobState[n] # "absent" => Preds[n] \subseteq Done

(***************************************************************************)
(* A continuation belongs to a wait that has not been resumed: its result  *)
(* is not written and nothing after it was enqueued.                       *)
(***************************************************************************)
ParkedIsUnresumed ==
  \A n \in parked :
    /\ jobState[n] = "acked"
    /\ result[n] = "none" \/ result[n] = "failed"
    /\ \A m \in Dependents(n) : jobState[m] = "absent"

(***************************************************************************)
(* A signal is never left in the buffer while a wait is parked on its      *)
(* name: the park consumes it, or the signal finds the parked wait.        *)
(***************************************************************************)
NoMissedSignal ==
  status = "waiting" => \A n \in parked : BufferedFor(n) = {}

(***************************************************************************)
(* A parked wait whose timer job is in the queue is resumed in the end,    *)
(* although the daemon crashes with the timer job claimed, unless the run  *)
(* stops waiting or is being cancelled.                                    *)
(***************************************************************************)
TimerResumes ==
  \A n \in TimerNodes :
    (n \in parked /\ status = "waiting" /\ timer[n] # "gone")
      ~> (n \notin parked \/ status # "waiting" \/ canceller # "idle")
=============================================================================
