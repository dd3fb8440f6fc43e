------------------------------- MODULE Nodes --------------------------------
(***************************************************************************)
(* Running a node (worker.handleNode, runNode, recordFailure): the dedupe  *)
(* record, the node's secrets, the subprocess of its harness, the Singer   *)
(* bookmark, and what is committed of them.                                *)
(*                                                                         *)
(* Runs of one workflow go through one worker: a singer-tap, a             *)
(* singer-target that loads the tap's records, and an action (a plain      *)
(* command or an MCP tool).  A run has one job at a time.  The rows of the *)
(* runs and their counters are in Worker, and left out here.               *)
(***************************************************************************)
EXTENDS Secrets

CONSTANTS
  Runs,           \* runs of the workflow
  NoRun,          \* "no run"
  Keys,           \* dedupe keys
  KeyExpr,        \* KeyExpr[n][r]: what the dedupe_key of node n gives for r
  SecretsOf,      \* SecretsOf[n]: the secrets node n declares, in order
  MaxAttempts,    \* attempts of a job
  SecretRetries,  \* attempts of a job whose secrets fail
  MaxRecords,     \* bound on the records at the tap's source
  MaxFaults,      \* bound on crashes and on failures before the dedupe lookup
  MaxOverruns     \* bound on runs of a keyed node that outlast their claim

NodeNames == {"tap", "target", "action"}

\* The node has no dedupe_key, or the expression evaluates to nothing.
NoExpr == "no expression"
Nothing == "nothing"

\* No key.
NoKey == ""

ASSUME NodesAssumption ==
  /\ KeyExpr \in [NodeNames -> [Runs -> Keys \cup {NoExpr, Nothing}]]
  /\ "null" \in Keys /\ NoKey \notin Keys /\ NoRun \notin Runs
  /\ SecretsOf \in [NodeNames -> Seq(SecretNames)]
  /\ MaxAttempts \in Nat \ {0} /\ SecretRetries \in Nat \ {0}
  /\ MaxRecords \in Nat /\ MaxFaults \in Nat /\ MaxOverruns \in Nat

VARIABLES
  job,        \* each run's job: its node, state and attempts
  input,      \* the tap's records in the job's input
  result,     \* node_results
  dedupe,     \* node_dedupe
  bookmark,   \* singer_state of the tap: 0 for none, or null
  fcont,      \* failed_continuations: the saved node, or "none"
  h,          \* the worker's handler
  loaded,     \* the records the target has loaded
  emitted,    \* how often each record was in a result of the tap
  behind,     \* results of the tap with no STATE for their last record
  blind,      \* failures before the dedupe lookup
  crashes,    \* crashes so far
  executed,   \* how often each node ran to its end under each key
  unrecorded  \* such executions whose commit never came

nodeVars == <<job, input, result, dedupe, bookmark, fcont, h,
              loaded, emitted, behind, blind, crashes, executed, unrecorded>>
vars == <<secretVars, nodeVars>>

\* A result: of which run it is the work, or that it failed.
Results == {"none", "failed"} \cup Runs

NoRecord == [is |-> "none", result |-> "none"]

Causes == {"missing", "unreachable", "stale", "other"}

\* ran: was the node run, rather than skipped?  prior: the bookmark read.
\* upto, state: the tap's last record and STATE.
IdleHandler ==
  [pc |-> "idle", run |-> NoRun, key |-> NoKey, ran |-> FALSE,
   result |-> "none", prior |-> 0, upto |-> 0, state |-> 0, cause |-> "other"]

NodesTypeOK ==
  /\ SecretsTypeOK
  /\ job \in [Runs -> [node : NodeNames, tries : 0..MaxAttempts,
                       at : {"queued", "held", "expired", "dead", "done"}]]
  /\ input \in [Runs -> SUBSET (1..MaxRecords)]
  /\ result \in [NodeNames -> [Runs -> Results]]
  /\ dedupe \in [NodeNames -> [Keys -> [is : {"none", "ok", "failed"}, result : Results]]]
  /\ bookmark \in 0..MaxRecords
  /\ fcont \in [Runs -> NodeNames \cup {"none"}]
  /\ h \in [pc : {"idle", "key", "secrets", "bookmark", "run", "commit",
                  "failed", "settle", "failJob"},
            run : Runs \cup {NoRun}, key : Keys \cup {NoKey}, ran : BOOLEAN, result : Results,
            prior : 0..MaxRecords, upto : 0..MaxRecords, state : 0..MaxRecords, cause : Causes]
  /\ loaded \subseteq 1..MaxRecords /\ emitted \in [1..MaxRecords -> Nat]
  /\ behind \in Nat /\ blind \in 0..MaxFaults /\ crashes \in 0..MaxFaults
  /\ executed \in [NodeNames -> [Keys -> Nat]] /\ unrecorded \in Nat

\* The runs have been started: their heads are queued.
Init ==
  /\ SecretsInit
  /\ job = [r \in Runs |-> [node |-> "tap", tries |-> 0, at |-> "queued"]]
  /\ input = [r \in Runs |-> {}]
  /\ result = [n \in NodeNames |-> [r \in Runs |-> "none"]]
  /\ dedupe = [n \in NodeNames |-> [k \in Keys |-> NoRecord]]
  /\ bookmark = 0
  /\ fcont = [r \in Runs |-> "none"]
  /\ h = IdleHandler
  /\ loaded = {} /\ emitted = [i \in 1..MaxRecords |-> 0]
  /\ behind = 0 /\ blind = 0 /\ crashes = 0
  /\ executed = [n \in NodeNames |-> [k \in Keys |-> 0]] /\ unrecorded = 0

-----------------------------------------------------------------------------
(* The handler *)

Goto(from, to) == h.pc = from /\ h' = [h EXCEPT !.pc = to]

Return == h' = IdleHandler

theNode == job[h.run].node

executionVars == <<executed, unrecorded>>

ghostVars == <<loaded, emitted, behind, blind, executionVars>>

\* resolveDedupeKey and dedupeString: the JSON of nothing is "null".
resolveDedupeKey(n, r) ==
  CASE KeyExpr[n][r] = NoExpr  -> NoKey
    [] KeyExpr[n][r] = Nothing -> "null"
    [] OTHER -> KeyExpr[n][r]

\* A claim, and the reads before the node's own.
Claim(r) ==
  /\ h.pc = "idle"
  /\ job[r].at \in {"queued", "expired"}
  /\ job' = [job EXCEPT ![r].at = "held",
                        ![r].tries = IF @ < MaxAttempts THEN @ + 1 ELSE @]
  /\ h' = [IdleHandler EXCEPT !.pc = "key", !.run = r]
  /\ UNCHANGED <<secretVars, input, result, dedupe, bookmark, fcont, ghostVars, crashes>>

\* The node is skipped, with the prior result, on a prior success only.
LookupDedupe ==
  LET key == resolveDedupeKey(theNode, h.run) IN
  /\ h.pc = "key"
  /\ h' = IF key # NoKey /\ dedupe[theNode][key].is = "ok"
            THEN [h EXCEPT !.pc = "commit", !.key = key, !.result = dedupe[theNode][key].result]
            ELSE [h EXCEPT !.pc = "secrets", !.key = key]
  /\ UNCHANGED <<secretVars, job, input, result, dedupe, bookmark, fcont, ghostVars, crashes>>

\* The expression runs into a bound of its evaluation, or the read fails.
LookupFails ==
  /\ h.pc = "key" /\ KeyExpr[theNode][h.run] # NoExpr
  /\ blind + crashes < MaxFaults
  /\ blind' = blind + 1
  /\ h' = [h EXCEPT !.pc = "failed", !.cause = "other"]
  /\ UNCHANGED <<secretVars, job, input, result, dedupe, bookmark, fcont,
                 loaded, emitted, behind, executionVars, crashes>>

nodeEnv ==
  LET answer == Resolve(SecretsOf[theNode]) IN
  /\ h.pc = "secrets"
  /\ h' = IF answer # "ok" THEN [h EXCEPT !.pc = "failed", !.cause = answer]
          ELSE [h EXCEPT !.pc = IF theNode = "tap" THEN "bookmark" ELSE "run"]
  /\ LoadsVarlock(SecretsOf[theNode])
  /\ UNCHANGED <<source, up, environ, keyFile, sealFile, sl, seals, pushed, job, input, result,
                 dedupe, bookmark, fcont, ghostVars, crashes>>

\* Mutant: the tap is sent past the record after its bookmark.
GetSingerStateNext ==
  /\ h.pc = "bookmark"
  /\ h' = [h EXCEPT !.pc = "run", !.prior = bookmark + 1]
  /\ UNCHANGED <<secretVars, job, input, result, dedupe, bookmark, fcont, ghostVars, crashes>>

GetSingerState ==
  /\ h.pc = "bookmark"
  /\ h' = [h EXCEPT !.pc = "run", !.prior = bookmark]
  /\ UNCHANGED <<secretVars, job, input, result, dedupe, bookmark, fcont, ghostVars, crashes>>

-----------------------------------------------------------------------------
(* The harnesses *)

Ran(out) == [h EXCEPT !.pc = "commit", !.ran = TRUE, !.result = out]

\* The node has done its work, under its key if it has one.
Executes ==
  /\ executed' = IF h.key = NoKey THEN executed
                 ELSE [executed EXCEPT ![theNode][h.key] = @ + 1]
  /\ UNCHANGED unrecorded

\* Mutant: the bookmark is saved as soon as the tap has run.
RunTapSaves ==
  /\ h.pc = "run" /\ theNode = "tap"
  /\ \E upto \in h.prior..MaxRecords : \E state \in {0} \cup (h.prior..upto) :
       /\ h' = [Ran(h.run) EXCEPT !.upto = upto, !.state = state]
       /\ bookmark' = state
  /\ Executes
  /\ UNCHANGED <<secretVars, job, input, result, dedupe, fcont,
                 loaded, emitted, behind, blind, crashes>>

\* The tap emits the records it finds after its bookmark, and a STATE for some
\* of them, or none at all (0).  The source grows as it likes.
RunTap ==
  /\ h.pc = "run" /\ theNode = "tap"
  /\ \E upto \in h.prior..MaxRecords : \E state \in {0} \cup (h.prior..upto) :
       h' = [Ran(h.run) EXCEPT !.upto = upto, !.state = state]
  /\ Executes
  /\ UNCHANGED <<secretVars, job, input, result, dedupe, bookmark, fcont,
                 loaded, emitted, behind, blind, crashes>>

\* The target loads the records in its input, all of them or, if it fails, some.
Load(some) == loaded' = loaded \cup some

RunTarget ==
  /\ h.pc = "run" /\ theNode = "target"
  /\ h' = Ran(h.run)
  /\ Load(input[h.run])
  /\ Executes
  /\ UNCHANGED <<secretVars, job, input, result, dedupe, bookmark, fcont,
                 emitted, behind, blind, crashes>>

\* exec.Run, or an MCP tool's call; the error a tool reports is a result too.
RunAction ==
  /\ h.pc = "run" /\ theNode = "action"
  /\ h' = Ran(h.run)
  /\ Executes
  /\ UNCHANGED <<secretVars, job, input, result, dedupe, bookmark, fcont,
                 loaded, emitted, behind, blind, crashes>>

\* The subprocess cannot start, exits non-zero, or its output is of no use.
RunFails ==
  /\ h.pc = "run"
  /\ h' = [h EXCEPT !.pc = "failed", !.cause = "other"]
  /\ IF theNode = "target" THEN \E some \in SUBSET input[h.run] : Load(some)
                           ELSE UNCHANGED loaded
  /\ UNCHANGED <<secretVars, job, input, result, dedupe, bookmark, fcont,
                 emitted, behind, blind, executionVars, crashes>>

-----------------------------------------------------------------------------
(* Commit *)

\* The records in the tap's result, which is another run's if it was skipped.
RecordsOf == IF h.ran THEN (h.prior + 1)..h.upto ELSE input[h.result]

After(n) == IF n = "tap" THEN "target" ELSE "action"

\* Mutant: a success is not recorded.
RecordNothing == dedupe

\* The record of a success; a skipped node leaves the one it found.
DedupeAfter ==
  IF h.key # NoKey /\ h.ran
    THEN [dedupe EXCEPT ![theNode][h.key] = [is |-> "ok", result |-> h.result]]
    ELSE dedupe

\* Mutant: the bookmark is not part of the commit.
BookmarkKept == bookmark

BookmarkAfter == IF theNode = "tap" /\ h.ran THEN h.state ELSE bookmark

\* CommitNodeAtom: result, dedupe record, bookmark, the next node's job and the
\* ack, in one transaction.
CommitNodeAtom ==
  LET r == h.run  n == theNode IN
  /\ h.pc = "commit" /\ job[r].at = "held"
  /\ result' = [result EXCEPT ![n][r] = h.result]
  /\ dedupe' = DedupeAfter
  /\ bookmark' = BookmarkAfter
  /\ job' = [job EXCEPT ![r] = IF n = "action" THEN [@ EXCEPT !.at = "done"]
                               ELSE [node |-> After(n), tries |-> 0, at |-> "queued"]]
  /\ input' = IF n = "tap" THEN [input EXCEPT ![r] = RecordsOf] ELSE input
  /\ IF n = "tap" /\ h.ran
       THEN /\ emitted' = [i \in 1..MaxRecords |-> emitted[i] + (IF i \in RecordsOf THEN 1 ELSE 0)]
            /\ behind' = behind + (IF h.state < h.upto THEN 1 ELSE 0)
       ELSE UNCHANGED <<emitted, behind>>
  /\ Return
  /\ UNCHANGED <<secretVars, fcont, loaded, blind, executionVars, crashes>>

\* What the handler's node has done under its key will not be recorded: the
\* dedupe record is part of the commit.
LeavesUnrecorded ==
  /\ unrecorded' = unrecorded + (IF h.ran /\ h.key # NoKey THEN 1 ELSE 0)
  /\ UNCHANGED executed

\* The claim is no longer valid: the transaction rolls back.
CommitRollsBack ==
  /\ h.pc = "commit" /\ job[h.run].at # "held"
  /\ Return
  /\ LeavesUnrecorded
  /\ UNCHANGED <<secretVars, job, input, result, dedupe, bookmark, fcont,
                 loaded, emitted, behind, blind, crashes>>

-----------------------------------------------------------------------------
(* recordFailure *)

\* A failed result and, with a key, a failed record in place of whatever record
\* there is.  The key is evaluated again, and may fail again.
commitFailed ==
  LET n == theNode  r == h.run  key == resolveDedupeKey(n, r) IN
  /\ Goto("failed", "settle")
  /\ result' = [result EXCEPT ![n][r] = "failed"]
  /\ \/ key # NoKey /\ dedupe' = [dedupe EXCEPT ![n][key] = [is |-> "failed", result |-> "failed"]]
     \/ h.key = NoKey /\ dedupe' = dedupe
  /\ UNCHANGED <<secretVars, job, input, bookmark, fcont, ghostVars, crashes>>

\* Missing secrets fail at once; the rest has its attempts.
Hopeless ==
  \/ h.cause = "missing"
  \/ h.cause \in {"unreachable", "stale"} /\ job[h.run].tries >= SecretRetries
  \/ h.cause = "other" /\ job[h.run].tries >= MaxAttempts

\* Job.Retry, with a backoff or at once; the queue gives up at its own limit.
Retry ==
  /\ h.pc = "settle" /\ ~Hopeless
  /\ job' = IF job[h.run].at # "held" THEN job
            ELSE [job EXCEPT ![h.run].at = IF job[h.run].tries >= MaxAttempts THEN "dead" ELSE "queued"]
  /\ Return
  /\ UNCHANGED <<secretVars, input, result, dedupe, bookmark, fcont, ghostVars, crashes>>

saveFailedContinuation ==
  /\ Goto("settle", "failJob") /\ Hopeless
  /\ fcont' = [fcont EXCEPT ![h.run] = theNode]
  /\ UNCHANGED <<secretVars, job, input, result, dedupe, bookmark, ghostVars, crashes>>

DeadLetter ==
  /\ h.pc = "failJob"
  /\ job' = IF job[h.run].at = "held" THEN [job EXCEPT ![h.run].at = "dead"] ELSE job
  /\ Return
  /\ UNCHANGED <<secretVars, input, result, dedupe, bookmark, fcont, ghostVars, crashes>>

-----------------------------------------------------------------------------

\* The visibility timeout of a claim passes.  A handler does not notice before
\* it acks, retries or fails its job.
Expire(r) ==
  /\ job[r].at = "held"
  /\ h.run = r => h.pc \in {"commit", "settle", "failJob"}
  /\ h.run = r /\ h.ran /\ h.key # NoKey => unrecorded < MaxOverruns
  /\ job' = [job EXCEPT ![r].at = "expired"]
  /\ UNCHANGED <<secretVars, input, result, dedupe, bookmark, fcont, h, ghostVars, crashes>>

\* The daemon dies, with the subprocess it waits for, and starts again.  What
\* the subprocess had done by then stays done.
Crash ==
  /\ blind + crashes < MaxFaults
  /\ crashes' = crashes + 1
  /\ h' = IdleHandler
  /\ IF h.pc = "run" /\ theNode = "target" THEN \E some \in SUBSET input[h.run] : Load(some)
                                           ELSE UNCHANGED loaded
  /\ LeavesUnrecorded
  /\ SecretsRestart
  /\ UNCHANGED <<job, input, result, dedupe, bookmark, fcont, emitted, behind, blind>>

RunNode == LookupDedupe \/ LookupFails \/ nodeEnv \/ GetSingerState
           \/ RunTap \/ RunTarget \/ RunAction \/ RunFails
           \/ CommitNodeAtom \/ CommitRollsBack

RecordFailure == commitFailed \/ Retry \/ saveFailedContinuation \/ DeadLetter

Next ==
  \/ \E r \in Runs : Claim(r) \/ Expire(r)
  \/ RunNode
  \/ RecordFailure
  \/ Crash
  \/ SecretsStep /\ UNCHANGED nodeVars

Spec == Init /\ [][Next]_vars
-----------------------------------------------------------------------------
(* What makes running a node correct *)

(***************************************************************************)
(* Under one dedupe key a node runs to its end once, in whatever runs, but *)
(* for two kinds of repeat, each with an event to pay for it: a failure    *)
(* before the lookup, whose failed record replaced the success (runNode,   *)
(* commitFailed), and an execution that a crash or an expired claim cut    *)
(* off from its commit, since the record is written only there             *)
(* (CommitNodeAtom).  So dedupe_key does not keep a crash from repeating a *)
(* side effect, as SPEC.md says it does; retries, redeliveries and other   *)
(* runs with the key repeat nothing.                                       *)
(***************************************************************************)
DedupeOnce ==
  \A n \in NodeNames : \A k \in Keys : executed[n][k] <= 1 + blind + unrecorded

\* The record is in the input of a target that runs, or that can be rerun.
OnItsWay(i) ==
  \E r \in Runs :
    /\ i \in input[r] /\ job[r].node = "target"
    /\ job[r].at = "dead" => fcont[r] = "target"

(***************************************************************************)
(* The bookmark never gets ahead of the target: a record up to it, which   *)
(* no tap will emit again, was loaded, or is in the input of a job that is *)
(* still there or in a continuation that can be rerun (CommitNodeAtom,     *)
(* recordFailure).                                                         *)
(***************************************************************************)
NoRecordLost == \A i \in 1..bookmark : i \in loaded \/ OnItsWay(i)

(***************************************************************************)
(* A record is in more than one result of the tap only when a tap ended    *)
(* without a STATE for its last record: crashes, failures and retries of   *)
(* the tap add no copy (runSingerNode, CommitNodeAtom).                    *)
(***************************************************************************)
EmittedOnce == \A i \in 1..MaxRecords : emitted[i] <= 1 + behind
=============================================================================
