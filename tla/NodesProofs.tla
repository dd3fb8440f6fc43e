---------------------------- MODULE NodesProofs -----------------------------
(***************************************************************************)
(* Theorems about the on-box secret store (Secrets) and about running a    *)
(* node (Nodes), for every workflow of that shape, every number of runs,   *)
(* records, seals, attempts, crashes and failures.                         *)
(***************************************************************************)
EXTENDS Nodes, WellFoundedInduction, TLAPS

-----------------------------------------------------------------------------
(* The on-box store *)

\* The fields of the two files and of a sealer.
KeyFiles == [is : {"none", "empty", "whole"}, key : 0..MaxSeals]

SealFiles == [is : {"none", "empty", "whole"}, key : 0..MaxSeals, value : 0..MaxSeals]

SealerStates ==
  [pc : {"idle", "loadKey", "openKey", "writeKey", "openValue", "writeValue"},
   name : SecretNames, key : 0..MaxSeals, value : 0..MaxSeals]

(***************************************************************************)
(* Where SealOnBox stands tells what the key file holds, and the secret it *)
(* works on has no pushed value until it returns.                          *)
(***************************************************************************)
SealerInv ==
  \A x \in Sealers :
    /\ sl[x].pc = "openKey" => keyFile.is = "none"
    /\ sl[x].pc = "writeKey" => keyFile.is = "empty"
    /\ sl[x].pc \in {"openValue", "writeValue"} =>
         keyFile = [is |-> "whole", key |-> sl[x].key]
    /\ sl[x].pc # "idle" => pushed[sl[x].name] = 0

\* A pushed value is whole, and sealed under the key in the key file.
PushedSealed ==
  \A s \in SecretNames :
    pushed[s] # 0 =>
      /\ keyFile.is = "whole"
      /\ sealFile[s] = [is |-> "whole", key |-> keyFile.key, value |-> pushed[s]]

StoreInv == SecretsTypeOK /\ SealerInv /\ PushedSealed

(***************************************************************************)
(* The initial state of the secrets is well typed.                         *)
(***************************************************************************)
LEMMA SecretsInitType ==
  ASSUME SecretsInit, Sealers = {} \/ SecretNames # {}
  PROVE  SecretsTypeOK
<1>1. \A x \in Sealers : IdleSealer \in SealerStates
  BY SecretsAssumption DEF IdleSealer, SealerStates
<1>2. sl \in [Sealers -> SealerStates]
  BY <1>1 DEF SecretsInit
<1>3. keyFile \in KeyFiles /\ sealFile \in [SecretNames -> SealFiles]
  BY SecretsAssumption DEF SecretsInit, Store, NoSealFile, KeyFiles, SealFiles
<1> QED
  BY <1>2, <1>3, SecretsAssumption
     DEF SecretsInit, SecretsTypeOK, Values, KeyFiles, SealFiles, SealerStates

(***************************************************************************)
(* What the resolver does to VarlockProvider keeps the types.              *)
(***************************************************************************)
LEMMA LoadType ==
  ASSUME SecretsTypeOK, NEW names, LoadsVarlock(names),
         UNCHANGED <<source, up, environ, keyFile, sealFile, sl, seals, pushed>>
  PROVE  SecretsTypeOK'
BY DEF SecretsTypeOK, LoadsVarlock, onceNext, valsNext

(***************************************************************************)
(* A restart of the daemon keeps the types.                                *)
(***************************************************************************)
LEMMA RestartType == SecretsTypeOK /\ SecretsRestart => SecretsTypeOK'
  BY SecretsAssumption DEF SecretsTypeOK, SecretsRestart, Values

(***************************************************************************)
(* Every step outside the daemon, and every step of a sealer, keeps the    *)
(* types: keys and values are numbered by a seal that has begun.           *)
(***************************************************************************)
LEMMA SecretsStepType ==
  ASSUME SecretsTypeOK, SecretsStep
  PROVE  SecretsTypeOK'
<1>1. ASSUME NEW s \in SecretNames, Provide(s) PROVE SecretsTypeOK'
  BY <1>1, SecretsAssumption DEF SecretsTypeOK, Provide, Values
<1>2. ASSUME ToggleVarlock PROVE SecretsTypeOK'
  BY <1>2 DEF SecretsTypeOK, ToggleVarlock
<1>3. ASSUME NEW x \in Sealers, SealOnBox(x) \/ SealDies(x) PROVE SecretsTypeOK'
  <2> USE SecretsAssumption DEF SealerStates, SealFiles, KeyFiles
  <2>1. sl \in [Sealers -> SealerStates] /\ keyFile \in KeyFiles
        /\ sealFile \in [SecretNames -> SealFiles] /\ pushed \in [SecretNames -> 0..MaxSeals]
        /\ seals \in 0..MaxSeals /\ sl[x] \in SealerStates
    BY DEF SecretsTypeOK
  <2>2. IdleSealer \in SealerStates
    BY <2>1 DEF IdleSealer
  <2>3. SUFFICES /\ sl' \in [Sealers -> SealerStates] /\ keyFile' \in KeyFiles
                 /\ sealFile' \in [SecretNames -> SealFiles]
                 /\ pushed' \in [SecretNames -> 0..MaxSeals] /\ seals' \in 0..MaxSeals
                 /\ UNCHANGED <<source, up, environ, once, vals>>
    BY DEF SecretsTypeOK
  <2>4. CASE SealAsk(x)
    BY <2>1, <2>4 DEF SealAsk
  <2>5. CASE loadOrCreateKey(x)
    BY <2>1, <2>2, <2>5 DEF loadOrCreateKey
  <2>6. CASE OpenKey(x)
    BY <2>1, <2>6 DEF OpenKey, SGoto
  <2>7. CASE WriteKey(x)
    BY <2>1, <2>7 DEF WriteKey, SGoto
  <2>8. CASE OpenValue(x)
    <3>1. sl' \in [Sealers -> SealerStates]
      BY <2>1, <2>8 DEF OpenValue, SGoto
    <3>2. sealFile' \in [SecretNames -> SealFiles]
      BY <2>1, <2>8 DEF OpenValue, NoSealFile
    <3> QED
      BY <2>1, <2>8, <3>1, <3>2 DEF OpenValue
  <2>9. CASE WriteValue(x)
    BY <2>1, <2>2, <2>9 DEF WriteValue
  <2>10. CASE SealDies(x)
    BY <2>1, <2>2, <2>10 DEF SealDies
  <2> QED
    BY <1>3, <2>4, <2>5, <2>6, <2>7, <2>8, <2>9, <2>10 DEF SealOnBox
<1> QED
  BY <1>1, <1>2, <1>3 DEF SecretsStep

(***************************************************************************)
(* A step of the only sealer preserves StoreInv.  With a second one, this  *)
(* fails: both may find no key file and each make a key.                   *)
(***************************************************************************)
LEMMA SealStepInv ==
  ASSUME StoreInv, \A x, y \in Sealers : x = y,
         NEW x \in Sealers, SealOnBox(x) \/ SealDies(x)
  PROVE  SealerInv' /\ PushedSealed'
<1> USE DEF SealerStates, SealFiles, KeyFiles, SealerInv, PushedSealed
<1>1. sl \in [Sealers -> SealerStates] /\ keyFile \in KeyFiles
      /\ sealFile \in [SecretNames -> SealFiles] /\ pushed \in [SecretNames -> 0..MaxSeals]
  BY DEF StoreInv, SecretsTypeOK
<1>2. SealerInv /\ PushedSealed
  BY DEF StoreInv
<1>3. IdleSealer.pc = "idle"
  BY DEF IdleSealer
<1>4. CASE SealAsk(x)
  BY <1>1, <1>2, <1>4 DEF SealAsk
<1>5. CASE loadOrCreateKey(x)
  BY <1>1, <1>2, <1>3, <1>5 DEF loadOrCreateKey
<1>6. CASE OpenKey(x)
  BY <1>1, <1>2, <1>6 DEF OpenKey, SGoto
<1>7. CASE WriteKey(x)
  BY <1>1, <1>2, <1>7 DEF WriteKey, SGoto
<1>8. CASE OpenValue(x)
  BY <1>1, <1>2, <1>8 DEF OpenValue, SGoto
<1>9. CASE WriteValue(x)
  BY <1>1, <1>2, <1>3, <1>9 DEF WriteValue
<1>10. CASE SealDies(x)
  BY <1>1, <1>2, <1>3, <1>10 DEF SealDies
<1> QED
  BY <1>4, <1>5, <1>6, <1>7, <1>8, <1>9, <1>10 DEF SealOnBox

(***************************************************************************)
(* SecretsTypeOK is an invariant of Secrets, for any number of sealers.    *)
(***************************************************************************)
THEOREM SecretsTypeCorrectness ==
  ASSUME Sealers = {} \/ SecretNames # {}
  PROVE  SecretsSpec => []SecretsTypeOK
<1>1. SecretsInit => SecretsTypeOK
  BY SecretsInitType
<1>2. SecretsTypeOK /\ [SecretsNext]_secretVars => SecretsTypeOK'
  <2> SUFFICES ASSUME SecretsTypeOK, [SecretsNext]_secretVars PROVE SecretsTypeOK'
    OBVIOUS
  <2>1. CASE SecretsStep
    BY <2>1, SecretsStepType
  <2>2. CASE /\ \E s \in SecretNames : LoadsVarlock(<<s>>)
             /\ UNCHANGED <<source, up, environ, keyFile, sealFile, sl, seals, pushed>>
    BY <2>2, LoadType
  <2>3. CASE SecretsRestart
    BY <2>3, RestartType
  <2>4. CASE UNCHANGED secretVars
    BY <2>4 DEF SecretsTypeOK, secretVars
  <2> QED
    BY <2>1, <2>2, <2>3, <2>4 DEF SecretsNext
<1> QED
  BY <1>1, <1>2, PTL DEF SecretsSpec

(***************************************************************************)
(* With one `servitor secret seal` at a time, a value that was pushed is   *)
(* the one every node gets, until the next seal of that secret begins:     *)
(* seals of other secrets, seals cut anywhere, restarts of the daemon and  *)
(* changes of the other stores leave it as it is.                          *)
(***************************************************************************)
THEOREM PushedValueIsServed ==
  ASSUME \A x, y \in Sealers : x = y
  PROVE  SecretsSpec => []PushedValueServed
<1>1. CASE SecretNames = {}
  <2>1. PushedValueServed
    BY <1>1 DEF PushedValueServed
  <2> QED
    BY <2>1, PTL
<1>2. CASE SecretNames # {}
  <2>1. SecretsInit => StoreInv
    <3> SUFFICES ASSUME SecretsInit PROVE StoreInv
      OBVIOUS
    <3>1. \A x \in Sealers : sl[x].pc = "idle"
      BY DEF SecretsInit, IdleSealer
    <3>2. \A s \in SecretNames : pushed[s] = 0
      BY DEF SecretsInit
    <3> QED
      BY <1>2, <3>1, <3>2, SecretsInitType DEF StoreInv, SealerInv, PushedSealed
  <2>2. StoreInv /\ [SecretsNext]_secretVars => StoreInv'
    <3> SUFFICES ASSUME StoreInv, [SecretsNext]_secretVars
                 PROVE  StoreInv'
      OBVIOUS
    <3>1. ASSUME UNCHANGED <<keyFile, sealFile, sl, pushed>>
          PROVE  SealerInv' /\ PushedSealed'
      BY <3>1 DEF StoreInv, SealerInv, PushedSealed
    <3>2. CASE SecretsStep
      <4>1. CASE \/ \E s \in SecretNames : Provide(s)
                 \/ ToggleVarlock
        BY <3>1, <3>2, <4>1, SecretsStepType DEF StoreInv, Provide, ToggleVarlock
      <4>2. CASE \E x \in Sealers : SealOnBox(x) \/ SealDies(x)
        BY <3>2, <4>2, SecretsStepType, SealStepInv DEF StoreInv
      <4> QED
        BY <3>2, <4>1, <4>2 DEF SecretsStep
    <3>3. CASE /\ \E s \in SecretNames : LoadsVarlock(<<s>>)
               /\ UNCHANGED <<source, up, environ, keyFile, sealFile, sl, seals, pushed>>
      BY <3>1, <3>3, LoadType DEF StoreInv
    <3>4. CASE SecretsRestart
      BY <3>1, <3>4, RestartType DEF StoreInv, SecretsRestart
    <3>5. CASE UNCHANGED secretVars
      BY <3>1, <3>5 DEF StoreInv, SecretsTypeOK, secretVars
    <3> QED
      BY <3>2, <3>3, <3>4, <3>5 DEF SecretsNext
  <2>3. StoreInv => PushedValueServed
    <3> SUFFICES ASSUME StoreInv, NEW s \in SecretNames, pushed[s] # 0
                 PROVE  OnBoxResolve(s) = [is |-> "value", value |-> pushed[s]]
      BY DEF PushedValueServed
    <3>1. keyFile.is = "whole"
          /\ sealFile[s] = [is |-> "whole", key |-> keyFile.key, value |-> pushed[s]]
      BY DEF StoreInv, PushedSealed
    <3>2. sealFile[s].is = "whole" /\ sealFile[s].key = keyFile.key
          /\ sealFile[s].value = pushed[s]
      BY <3>1
    <3> QED
      BY <3>1, <3>2 DEF OnBoxResolve
  <2> QED
    BY <2>1, <2>2, <2>3, PTL DEF SecretsSpec
<1> QED
  BY <1>1, <1>2

-----------------------------------------------------------------------------
(* Running a node: what is invariant *)

(***************************************************************************)
(* A busy handler works on a job that is neither done nor dead, under the  *)
(* key its node has for the run; until it commits, no success is recorded  *)
(* under that key; a skipped node has the recorded result.                 *)
(***************************************************************************)
HandlerInv ==
  /\ h.pc # "idle" => h.run \in Runs /\ job[h.run].at \in {"held", "expired"}
  /\ h.ran => h.pc = "commit"
  /\ h.pc \in {"secrets", "bookmark", "run", "commit"} => h.key = resolveDedupeKey(theNode, h.run)
  /\ (h.pc \in {"secrets", "bookmark", "run"} \/ h.ran) /\ h.key # NoKey =>
       dedupe[theNode][h.key].is # "ok"
  /\ h.ran => h.result = h.run
  /\ h.pc = "commit" /\ ~h.ran =>
       h.key # NoKey /\ dedupe[theNode][h.key] = [is |-> "ok", result |-> h.result]
  /\ h.pc = "failJob" => fcont[h.run] = theNode

(***************************************************************************)
(* The handler of a tap holds the bookmark the table has, and what the tap *)
(* emitted starts there.                                                   *)
(***************************************************************************)
TapInv ==
  /\ h.pc = "bookmark" => theNode = "tap"
  /\ (h.pc = "run" \/ h.ran) /\ theNode = "tap" => h.prior = bookmark
  /\ h.ran /\ theNode = "tap" => h.prior <= h.upto /\ h.state <= h.upto

\* A recorded success has the result of a run.
RecordInv ==
  \A n \in NodeNames : \A k \in Keys : dedupe[n][k].is = "ok" => dedupe[n][k].result \in Runs

One(b) == IF b THEN 1 ELSE 0

\* A record after the bookmark has no emission but those behind counts.
EmitInv == \A i \in 1..MaxRecords : emitted[i] <= behind + One(i <= bookmark)

\* A target that has run has loaded its input.
LoadInv ==
  /\ h.ran /\ theNode = "target" => input[h.run] \subseteq loaded
  /\ NoRecordLost

NodeInv == NodesTypeOK /\ HandlerInv /\ TapInv /\ RecordInv /\ EmitInv

-----------------------------------------------------------------------------
(* Facts about the model's operators *)

(***************************************************************************)
(* Every nonempty set of natural numbers has a least element: the first    *)
(* error that Resolve returns exists.                                      *)
(***************************************************************************)
LEMMA LeastIndex ==
  ASSUME NEW T \in SUBSET Nat, T # {}
  PROVE  \E i \in T : \A j \in T : i <= j
<1> DEFINE R == OpToRel(<, Nat)
<1>1. IsWellFoundedOn(R, Nat)
  BY NatLessThanWellFounded, Zenon
<1>2. \A i, j \in Nat : <<j, i>> \in R <=> j < i
  BY DEF OpToRel
<1> HIDE DEF R
<1>3. PICK i \in T : \A j \in T : ~(<<j, i>> \in R)
  BY <1>1, WFMin
<1>4. SUFFICES ASSUME NEW j \in T PROVE i <= j
  BY <1>3
<1>5. i \in Nat /\ j \in Nat
  BY <1>3
<1>6. ~(j < i)
  BY <1>2, <1>3, <1>5
<1> QED
  BY <1>5, <1>6

(***************************************************************************)
(* The resolver's answer is ok or one of the causes recordFailure knows.   *)
(***************************************************************************)
LEMMA ResolveType ==
  ASSUME NEW names \in Seq(SecretNames)
  PROVE  Resolve(names) \in {"ok", "missing", "unreachable", "stale"}
<1> DEFINE answers == [i \in DOMAIN names |-> ProviderResolve(names[i]).is]
           errors == {i \in DOMAIN names : answers[i] \in {"unreachable", "stale"}}
           first == CHOOSE i \in errors : \A j \in errors : i <= j
<1>1. CASE errors # {}
  <2>1. errors \in SUBSET Nat
    OBVIOUS
  <2>2. \E i \in errors : \A j \in errors : i <= j
    BY <1>1, <2>1, LeastIndex
  <2>3. first \in errors
    BY <2>2
  <2>4. answers[first] \in {"unreachable", "stale"}
    BY <2>3
  <2> QED
    BY <1>1, <2>4 DEF Resolve
<1>2. CASE errors = {}
  BY <1>2 DEF Resolve
<1> QED
  BY <1>1, <1>2

(***************************************************************************)
(* resolveDedupeKey gives a key, or none.                                  *)
(***************************************************************************)
LEMMA KeyType ==
  ASSUME NEW n \in NodeNames, NEW r \in Runs
  PROVE  resolveDedupeKey(n, r) \in Keys \cup {NoKey}
<1>1. KeyExpr[n][r] \in Keys \cup {NoExpr, Nothing}
  BY NodesAssumption
<1> QED
  BY <1>1, NodesAssumption DEF resolveDedupeKey, NoExpr, Nothing

\* A step that moves no job to another node and completes none.
SameNodes ==
  \A r \in Runs : /\ job'[r].node = job[r].node
                  /\ job'[r].at = "done" <=> job[r].at = "done"

-----------------------------------------------------------------------------
(* A step of Nodes preserves the invariant *)

Jobs ==
  [node : NodeNames, tries : 0..MaxAttempts, at : {"queued", "held", "expired", "dead", "done"}]

Handlers ==
  [pc : {"idle", "key", "secrets", "bookmark", "run", "commit", "failed", "settle", "failJob"},
   run : Runs \cup {NoRun}, key : Keys \cup {NoKey}, ran : BOOLEAN, result : Results,
   prior : 0..MaxRecords, upto : 0..MaxRecords, state : 0..MaxRecords, cause : Causes]

Records == [is : {"none", "ok", "failed"}, result : Results]

\* The types of the two counts of executions.
CountsOK == executed \in [NodeNames -> [Keys -> Nat]] /\ unrecorded \in Nat

\* The tables that only a commit or the record of a failure writes.
tables == <<result, dedupe, bookmark, emitted, behind>>

(***************************************************************************)
(* What NodesTypeOK says of the handler, its job and its node.             *)
(***************************************************************************)
LEMMA HandlerTypes ==
  ASSUME NodesTypeOK
  PROVE  /\ h \in Handlers /\ job \in [Runs -> Jobs]
         /\ dedupe \in [NodeNames -> [Keys -> Records]]
         /\ result \in [NodeNames -> [Runs -> Results]]
         /\ input \in [Runs -> SUBSET (1..MaxRecords)]
         /\ bookmark \in 0..MaxRecords /\ loaded \subseteq 1..MaxRecords
         /\ h.run \in Runs => theNode \in NodeNames
BY DEF NodesTypeOK, Handlers, Jobs, Records, theNode

(***************************************************************************)
(* IdleHandler is a handler.                                               *)
(***************************************************************************)
LEMMA IdleType == IdleHandler \in Handlers
BY NodesAssumption DEF IdleHandler, Handlers, Results, Causes

(***************************************************************************)
(* A step that writes none of the tables preserves what is said of them.   *)
(***************************************************************************)
LEMMA TablesKept ==
  ASSUME RecordInv, EmitInv, UNCHANGED tables
  PROVE  RecordInv' /\ EmitInv'
BY DEF RecordInv, EmitInv, tables, One

(***************************************************************************)
(* Types of a step that leaves the tables and the inputs alone.            *)
(***************************************************************************)
LEMMA QuietType ==
  ASSUME NodesTypeOK, UNCHANGED <<tables, input>>, SecretsTypeOK',
         h' \in Handlers, job' \in [Runs -> Jobs],
         fcont' \in [Runs -> NodeNames \cup {"none"}],
         loaded' \subseteq 1..MaxRecords,
         blind' \in 0..MaxFaults, crashes' \in 0..MaxFaults, CountsOK'
  PROVE  NodesTypeOK'
BY DEF NodesTypeOK, Handlers, Jobs, tables, CountsOK

(***************************************************************************)
(* The counts of executions stay natural numbers.                          *)
(***************************************************************************)
LEMMA CountsType ==
  ASSUME NodesTypeOK,
         \/ Executes /\ h.run \in Runs
         \/ LeavesUnrecorded
         \/ UNCHANGED executionVars
  PROVE  CountsOK'
<1>1. executed \in [NodeNames -> [Keys -> Nat]] /\ unrecorded \in Nat /\ h \in Handlers
  BY HandlerTypes DEF NodesTypeOK
<1>2. CASE Executes /\ h.run \in Runs
  <2>1. PICK n \in NodeNames : n = theNode
    BY <1>2, HandlerTypes
  <2>2. PICK k \in Keys \cup {NoKey} : k = h.key
    BY <1>1 DEF Handlers
  <2>3. CASE k = NoKey
    BY <1>1, <1>2, <2>2, <2>3 DEF Executes, CountsOK
  <2>4. CASE k \in Keys /\ k # NoKey
    <3>1. executed' = [executed EXCEPT ![n][k] = executed[n][k] + 1] /\ unrecorded' = unrecorded
      BY <1>1, <1>2, <2>1, <2>2, <2>4 DEF Executes
    <3>2. executed[n][k] + 1 \in Nat
      BY <1>1, <2>4
    <3> QED
      BY <1>1, <2>4, <3>1, <3>2 DEF CountsOK
  <2> QED
    BY <2>3, <2>4
<1>3. CASE LeavesUnrecorded
  BY <1>1, <1>3 DEF LeavesUnrecorded, CountsOK
<1>4. CASE UNCHANGED executionVars
  BY <1>1, <1>4 DEF executionVars, CountsOK
<1> QED
  BY <1>2, <1>3, <1>4

(***************************************************************************)
(* The queue's steps (a claim, an expiry) preserve the invariant.          *)
(***************************************************************************)
LEMMA QueueStepInv ==
  ASSUME NodeInv, NEW r \in Runs, Claim(r) \/ Expire(r)
  PROVE  NodeInv'
<1>1. h \in Handlers /\ job \in [Runs -> Jobs] /\ job[r] \in Jobs
  BY HandlerTypes DEF NodeInv
<1>2. CASE Claim(r)
  <2>1. h' = [IdleHandler EXCEPT !.pc = "key", !.run = r] /\ h' \in Handlers
    BY <1>2, IdleType DEF Claim, Handlers
  <2>2. job' \in [Runs -> Jobs] /\ SameNodes /\ job'[r].at = "held"
    <3>1. PICK t \in 0..MaxAttempts : job' = [job EXCEPT ![r].at = "held", ![r].tries = t]
      <4>1. (IF job[r].tries < MaxAttempts THEN job[r].tries + 1 ELSE job[r].tries)
              \in 0..MaxAttempts
        BY <1>1, NodesAssumption DEF Jobs
      <4> QED
        BY <1>1, <1>2, <4>1 DEF Claim, Jobs
    <3>2. job' = [job EXCEPT ![r] = [job[r] EXCEPT !.at = "held", !.tries = t]]
      BY <1>1, <3>1
    <3>3. [job[r] EXCEPT !.at = "held", !.tries = t] \in Jobs
      BY <1>1 DEF Jobs
    <3>4. job[r].at # "done"
      BY <1>2 DEF Claim
    <3> QED
      BY <1>1, <3>2, <3>3, <3>4 DEF Jobs, SameNodes
  <2>3. CountsOK'
    BY <1>2, CountsType DEF NodeInv, Claim, ghostVars
  <2>4. NodesTypeOK'
    BY <1>2, <2>1, <2>2, <2>3, QuietType
       DEF NodeInv, NodesTypeOK, Claim, secretVars, ghostVars, tables, SecretsTypeOK
  <2>5. HandlerInv' /\ TapInv'
    BY <2>1, <2>2 DEF HandlerInv, TapInv, IdleHandler
  <2>6. RecordInv' /\ EmitInv'
    BY <1>2, TablesKept DEF NodeInv, Claim, tables, ghostVars
  <2> QED
    BY <2>4, <2>5, <2>6 DEF NodeInv
<1>3. CASE Expire(r)
  <2>1. job' \in [Runs -> Jobs] /\ SameNodes /\ h' = h /\ \A q \in Runs : q # r => job'[q] = job[q]
    BY <1>1, <1>3 DEF Expire, Jobs, SameNodes
  <2>2. job'[r].at = "expired" /\ (h.run \in Runs => theNode' = theNode)
    BY <1>1, <1>3, <2>1 DEF Expire, SameNodes, theNode, Jobs
  <2>3. CountsOK'
    BY <1>3, CountsType DEF NodeInv, Expire, ghostVars
  <2>4. NodesTypeOK'
    BY <1>1, <1>3, <2>1, <2>3, QuietType
       DEF NodeInv, NodesTypeOK, Expire, secretVars, ghostVars, tables, SecretsTypeOK
  <2>5. HandlerInv' /\ TapInv'
    BY <1>3, <2>1, <2>2 DEF NodeInv, HandlerInv, TapInv, Expire, resolveDedupeKey
  <2>6. RecordInv' /\ EmitInv'
    BY <1>3, TablesKept DEF NodeInv, Expire, tables, ghostVars
  <2> QED
    BY <2>4, <2>5, <2>6 DEF NodeInv
<1> QED
  BY <1>2, <1>3

(***************************************************************************)
(* A step of the handler that writes no table and leaves its job where it  *)
(* is preserves the invariant if it takes the handler from one place to    *)
(* another as HandlerInv and TapInv say.                                   *)
(***************************************************************************)
LEMMA HandlerStep ==
  ASSUME NodeInv, UNCHANGED <<tables, input, job, fcont, crashes>>, SecretsTypeOK',
         h' \in Handlers, loaded' \subseteq 1..MaxRecords,
         blind' \in 0..MaxFaults, CountsOK', HandlerInv', TapInv'
  PROVE  NodeInv'
<1>1. NodesTypeOK'
  <2>1. job' \in [Runs -> Jobs] /\ fcont' \in [Runs -> NodeNames \cup {"none"}]
        /\ crashes' \in 0..MaxFaults
    BY HandlerTypes DEF NodeInv, NodesTypeOK
  <2> QED
    BY <2>1, QuietType DEF NodeInv
<1>2. RecordInv' /\ EmitInv'
  BY TablesKept DEF NodeInv
<1> QED
  BY <1>1, <1>2 DEF NodeInv

(***************************************************************************)
(* The lookup of a dedupe record, and its failure, preserve the invariant. *)
(***************************************************************************)
LEMMA LookupInv ==
  ASSUME NodeInv, LookupDedupe \/ LookupFails
  PROVE  NodeInv'
<1>1. h \in Handlers /\ h.pc = "key" /\ h.run \in Runs /\ theNode \in NodeNames
      /\ job \in [Runs -> Jobs] /\ dedupe \in [NodeNames -> [Keys -> Records]]
  BY HandlerTypes DEF NodeInv, HandlerInv, LookupDedupe, LookupFails
<1>2. ~h.ran /\ job[h.run].at \in {"held", "expired"}
  BY <1>1 DEF NodeInv, HandlerInv
<1>3. CASE LookupDedupe
  <2> DEFINE key == resolveDedupeKey(theNode, h.run)
  <2>1. key \in Keys \cup {NoKey}
    BY <1>1, KeyType
  <2>2. /\ UNCHANGED <<tables, input, job, fcont, crashes, loaded, blind>> /\ SecretsTypeOK'
        /\ theNode' = job[h'.run].node /\ h'.run = h.run /\ h'.ran = h.ran /\ h'.key = key
        /\ UNCHANGED executionVars
    BY <1>1, <1>3 DEF LookupDedupe, tables, ghostVars, secretVars, NodeInv, NodesTypeOK,
                      SecretsTypeOK, theNode, Handlers
  <2>3. CASE key # NoKey /\ dedupe[theNode][key].is = "ok"
    <3>1. h' = [h EXCEPT !.pc = "commit", !.key = key, !.result = dedupe[theNode][key].result]
      BY <1>3, <2>3 DEF LookupDedupe
    <3>2. dedupe[theNode][key] \in Records /\ dedupe[theNode][key].result \in Results
      BY <1>1, <2>1, <2>3 DEF Records
    <3>3. h' \in Handlers
      BY <1>1, <2>1, <3>1, <3>2 DEF Handlers
    <3>4. dedupe[theNode][key] = [is |-> "ok", result |-> h'.result]
      BY <1>1, <2>3, <3>1, <3>2 DEF Records, Handlers
    <3>5. HandlerInv' /\ TapInv'
      BY <1>1, <1>2, <2>2, <2>3, <3>1, <3>4
         DEF HandlerInv, TapInv, theNode, resolveDedupeKey, tables, Handlers
    <3> QED
      <4>1. UNCHANGED <<tables, input, job, fcont, crashes>> /\ CountsOK'
        BY <2>2, CountsType DEF NodeInv
      <4>2. blind' \in 0..MaxFaults /\ loaded' \subseteq 1..MaxRecords
        BY <2>2 DEF NodeInv, NodesTypeOK
      <4> QED
        BY <2>2, <3>3, <3>5, <4>1, <4>2, HandlerStep
  <2>4. CASE ~(key # NoKey /\ dedupe[theNode][key].is = "ok")
    <3>1. h' = [h EXCEPT !.pc = "secrets", !.key = key]
      BY <1>3, <2>4 DEF LookupDedupe
    <3>2. h' \in Handlers
      BY <1>1, <2>1, <3>1 DEF Handlers
    <3>3. HandlerInv' /\ TapInv'
      BY <1>1, <1>2, <2>2, <2>4, <3>1
         DEF HandlerInv, TapInv, theNode, resolveDedupeKey, tables, Handlers
    <3> QED
      <4>1. UNCHANGED <<tables, input, job, fcont, crashes>> /\ CountsOK'
        BY <2>2, CountsType DEF NodeInv
      <4>2. blind' \in 0..MaxFaults /\ loaded' \subseteq 1..MaxRecords
        BY <2>2 DEF NodeInv, NodesTypeOK
      <4> QED
        BY <2>2, <3>2, <3>3, <4>1, <4>2, HandlerStep
  <2> QED
    BY <2>3, <2>4
<1>4. CASE LookupFails
  <2>1. /\ UNCHANGED <<tables, input, job, fcont, crashes>> /\ loaded' = loaded
        /\ blind' = blind + 1 /\ h' = [h EXCEPT !.pc = "failed", !.cause = "other"]
    BY <1>4 DEF LookupFails, tables
  <2>2. SecretsTypeOK'
    BY <1>4 DEF LookupFails, secretVars, NodeInv, NodesTypeOK, SecretsTypeOK
  <2>3. blind' \in 0..MaxFaults /\ loaded' \subseteq 1..MaxRecords /\ CountsOK'
    <3>1. CountsOK'
      BY <1>4, CountsType DEF LookupFails, NodeInv
    <3>2. blind' \in 0..MaxFaults /\ loaded' \subseteq 1..MaxRecords
      <4>1. blind \in 0..MaxFaults /\ crashes \in 0..MaxFaults /\ loaded \subseteq 1..MaxRecords
        BY DEF NodeInv, NodesTypeOK
      <4>2. blind + crashes < MaxFaults
        BY <1>4 DEF LookupFails
      <4> QED
        BY <2>1, <4>1, <4>2, NodesAssumption
    <3> QED
      BY <3>1, <3>2
  <2>4. h' \in Handlers /\ h'.run = h.run /\ h'.pc = "failed" /\ ~h'.ran
    BY <1>1, <1>2, <2>1 DEF Handlers, Causes
  <2>5. HandlerInv' /\ TapInv'
    BY <1>1, <1>2, <2>1, <2>4 DEF HandlerInv, TapInv
  <2> QED
    BY <2>1, <2>2, <2>3, <2>4, <2>5, HandlerStep
<1> QED
  BY <1>3, <1>4

(***************************************************************************)
(* A handler that leaves the node's own steps (secrets, bookmark, run) for *)
(* another place, with its run and key, preserves the invariant.           *)
(***************************************************************************)
LEMMA OwnStep ==
  ASSUME NodeInv, h.pc \in {"secrets", "bookmark", "run"},
         UNCHANGED <<tables, input, job, fcont, crashes, blind>>, SecretsTypeOK', CountsOK',
         h' \in Handlers, loaded' \subseteq 1..MaxRecords,
         h'.run = h.run, h'.key = h.key,
         \/ h'.pc = "failed" /\ ~h'.ran
         \/ h'.pc = "bookmark" /\ ~h'.ran /\ theNode = "tap"
         \/ h'.pc = "run" /\ ~h'.ran /\ (theNode = "tap" => h'.prior = bookmark)
         \/ /\ h'.pc = "commit" /\ h'.ran /\ h'.result = h'.run
            /\ theNode = "tap" =>
                 h'.prior = bookmark /\ h'.prior <= h'.upto /\ h'.state <= h'.upto
  PROVE  NodeInv'
<1>1. /\ h.run \in Runs /\ job[h.run].at \in {"held", "expired"}
      /\ h.key = resolveDedupeKey(theNode, h.run)
      /\ h.key # NoKey => dedupe[theNode][h.key].is # "ok"
  BY DEF NodeInv, HandlerInv
<1>2. theNode' = theNode /\ theNode = job[h.run].node /\ dedupe' = dedupe /\ bookmark' = bookmark
  BY DEF theNode, tables
<1>3. HandlerInv'
  <2>1. (h.key = resolveDedupeKey(theNode, h.run))'
    BY <1>1, <1>2 DEF resolveDedupeKey
  <2> QED
    BY <1>1, <1>2, <2>1 DEF HandlerInv
<1>4. TapInv'
  BY <1>2 DEF TapInv
<1>5. blind' \in 0..MaxFaults /\ UNCHANGED <<tables, input, job, fcont, crashes>>
  BY DEF NodeInv, NodesTypeOK
<1> QED
  BY <1>3, <1>4, <1>5, HandlerStep

(***************************************************************************)
(* The secrets, the bookmark and the harnesses preserve the invariant.     *)
(***************************************************************************)
LEMMA RunInv ==
  ASSUME NodeInv,
         nodeEnv \/ GetSingerState \/ RunTap \/ RunTarget \/ RunAction \/ RunFails
  PROVE  NodeInv'
<1>1. h \in Handlers /\ h.pc \in {"secrets", "bookmark", "run"} /\ h.run \in Runs
      /\ theNode \in NodeNames /\ ~h.ran /\ loaded \subseteq 1..MaxRecords
      /\ bookmark \in 0..MaxRecords /\ input \in [Runs -> SUBSET (1..MaxRecords)]
  BY HandlerTypes
     DEF NodeInv, HandlerInv, nodeEnv, GetSingerState, RunTap, RunTarget, RunAction, RunFails
<1>2. CountsOK'
  BY <1>1, CountsType
     DEF NodeInv, nodeEnv, GetSingerState, RunTap, RunTarget, RunAction, RunFails, ghostVars
<1>3. CASE nodeEnv
  <2> DEFINE answer == Resolve(SecretsOf[theNode])
  <2>1. answer \in {"ok", "missing", "unreachable", "stale"}
    BY <1>1, NodesAssumption, ResolveType
  <2>2. UNCHANGED <<tables, input, job, fcont, crashes, blind>> /\ loaded' = loaded
    BY <1>3 DEF nodeEnv, tables, ghostVars
  <2>3. SecretsTypeOK'
    BY <1>3, LoadType DEF nodeEnv, NodeInv, NodesTypeOK
  <2>4. CASE answer # "ok"
    <3>1. h' = [h EXCEPT !.pc = "failed", !.cause = answer]
      BY <1>3, <2>4 DEF nodeEnv
    <3>2. h' \in Handlers /\ h'.pc = "failed" /\ ~h'.ran /\ h'.run = h.run /\ h'.key = h.key
      BY <1>1, <2>1, <2>4, <3>1 DEF Handlers, Causes
    <3> QED
      BY <1>1, <1>2, <2>2, <2>3, <3>2, OwnStep
  <2>5. CASE answer = "ok"
    <3>1. h' = [h EXCEPT !.pc = IF theNode = "tap" THEN "bookmark" ELSE "run"]
      BY <1>3, <2>5 DEF nodeEnv
    <3>2. h' \in Handlers /\ ~h'.ran /\ h'.run = h.run /\ h'.key = h.key
          /\ h'.pc = IF theNode = "tap" THEN "bookmark" ELSE "run"
      BY <1>1, <3>1 DEF Handlers
    <3> QED
      BY <1>1, <1>2, <2>2, <2>3, <3>2, OwnStep
  <2> QED
    BY <2>4, <2>5
<1>4. ASSUME UNCHANGED secretVars PROVE SecretsTypeOK'
  BY <1>4 DEF NodeInv, NodesTypeOK, SecretsTypeOK, secretVars
<1>5. CASE GetSingerState
  <2>1. UNCHANGED <<tables, input, job, fcont, crashes, blind>> /\ loaded' = loaded
        /\ SecretsTypeOK'
    BY <1>4, <1>5 DEF GetSingerState, tables, ghostVars
  <2>2. h' = [h EXCEPT !.pc = "run", !.prior = bookmark]
    BY <1>5 DEF GetSingerState
  <2>3. h' \in Handlers /\ h'.pc = "run" /\ ~h'.ran /\ h'.run = h.run /\ h'.key = h.key
        /\ h'.prior = bookmark
    BY <1>1, <2>2 DEF Handlers
  <2> QED
    BY <1>1, <1>2, <2>1, <2>3, OwnStep
<1>6. CASE RunTap
  <2>1. UNCHANGED <<tables, input, job, fcont, crashes, blind>> /\ loaded' = loaded
        /\ SecretsTypeOK'
    BY <1>4, <1>6 DEF RunTap, tables, ghostVars
  <2>2. h.prior = bookmark /\ theNode = "tap"
    BY <1>6 DEF RunTap, NodeInv, TapInv
  <2>3. PICK upto \in h.prior..MaxRecords : \E state \in {0} \cup (h.prior..upto) :
          h' = [Ran(h.run) EXCEPT !.upto = upto, !.state = state]
    BY <1>6 DEF RunTap
  <2>4. PICK state \in {0} \cup (h.prior..upto) :
          h' = [Ran(h.run) EXCEPT !.upto = upto, !.state = state]
    BY <2>3
  <2>5. /\ upto \in 0..MaxRecords /\ state \in 0..MaxRecords
        /\ bookmark <= upto /\ state <= upto
    BY <1>1, <2>2, <2>4, NodesAssumption
  <2>6. h' = [h EXCEPT !.pc = "commit", !.ran = TRUE, !.result = h.run,
                       !.upto = upto, !.state = state]
    BY <1>1, <2>4 DEF Ran, Handlers
  <2>7. h' \in Handlers /\ h'.pc = "commit" /\ h'.ran /\ h'.run = h.run /\ h'.key = h.key
        /\ h'.result = h.run /\ h'.prior = bookmark /\ h'.upto = upto /\ h'.state = state
    BY <1>1, <2>2, <2>5, <2>6 DEF Handlers, Results
  <2> QED
    BY <1>1, <1>2, <2>1, <2>5, <2>7, OwnStep
<1>7. CASE RunTarget \/ RunAction
  <2>1. UNCHANGED <<tables, input, job, fcont, crashes, blind>> /\ SecretsTypeOK'
    BY <1>4, <1>7 DEF RunTarget, RunAction, tables, ghostVars
  <2>2. loaded' \subseteq 1..MaxRecords
    BY <1>1, <1>7 DEF RunTarget, RunAction, ghostVars, Load
  <2>3. h' = Ran(h.run) /\ theNode # "tap"
    BY <1>7 DEF RunTarget, RunAction
  <2>4. h' \in Handlers /\ h'.pc = "commit" /\ h'.ran /\ h'.run = h.run /\ h'.key = h.key
        /\ h'.result = h.run
    BY <1>1, <2>3 DEF Ran, Handlers, Results
  <2> QED
    BY <1>1, <1>2, <2>1, <2>2, <2>3, <2>4, OwnStep
<1>8. CASE RunFails
  <2>1. UNCHANGED <<tables, input, job, fcont, crashes, blind>> /\ SecretsTypeOK'
    BY <1>4, <1>8 DEF RunFails, tables
  <2>2. loaded' \subseteq 1..MaxRecords
    BY <1>1, <1>8 DEF RunFails, Load
  <2>3. h' \in Handlers /\ h'.pc = "failed" /\ ~h'.ran /\ h'.run = h.run /\ h'.key = h.key
    BY <1>1, <1>8 DEF RunFails, Handlers, Causes
  <2> QED
    BY <1>1, <1>2, <2>1, <2>2, <2>3, OwnStep
<1> QED
  BY <1>3, <1>5, <1>6, <1>7, <1>8

(***************************************************************************)
(* The handler returns, and may give its job back or dead-letter it; or    *)
(* the daemon dies.                                                        *)
(***************************************************************************)
LEMMA ReturnInv ==
  ASSUME NodeInv, CommitRollsBack \/ Retry \/ DeadLetter \/ Crash
  PROVE  NodeInv'
<1>1. h \in Handlers /\ job \in [Runs -> Jobs] /\ loaded \subseteq 1..MaxRecords
      /\ input \in [Runs -> SUBSET (1..MaxRecords)]
      /\ (h.pc # "idle" => h.run \in Runs /\ job[h.run].at \in {"held", "expired"})
  BY HandlerTypes DEF NodeInv, HandlerInv
<1>2. UNCHANGED <<tables, input>> /\ h' = IdleHandler
  BY DEF CommitRollsBack, Retry, DeadLetter, Crash, tables, ghostVars, Return
<1>3. job' \in [Runs -> Jobs] /\ SameNodes
  <2>1. CASE job' = job
    BY <1>1, <2>1 DEF SameNodes
  <2>2. CASE job' # job
    <3>1. PICK a \in {"dead", "queued"} : job' = [job EXCEPT ![h.run].at = a]
      BY <2>2 DEF CommitRollsBack, Retry, DeadLetter, Crash
    <3>2. h.run \in Runs /\ job[h.run].at # "done"
      BY <1>1, <2>2 DEF CommitRollsBack, Retry, DeadLetter, Crash
    <3> QED
      BY <1>1, <3>1, <3>2 DEF Jobs, SameNodes
  <2> QED
    BY <2>1, <2>2
<1>4. SecretsTypeOK'
  <2>1. CASE UNCHANGED secretVars
    BY <2>1 DEF NodeInv, NodesTypeOK, SecretsTypeOK, secretVars
  <2>2. CASE SecretsRestart
    BY <2>2, RestartType DEF NodeInv, NodesTypeOK
  <2> QED
    BY <2>1, <2>2 DEF CommitRollsBack, Retry, DeadLetter, Crash
<1>5. blind' = blind /\ crashes' \in 0..MaxFaults
  <2>1. blind' = blind
    BY DEF CommitRollsBack, Retry, DeadLetter, Crash, ghostVars
  <2>2. crashes' = crashes \/ (crashes' = crashes + 1 /\ blind + crashes < MaxFaults)
    BY DEF CommitRollsBack, Retry, DeadLetter, Crash
  <2>3. crashes \in 0..MaxFaults /\ blind \in 0..MaxFaults
    BY DEF NodeInv, NodesTypeOK
  <2> QED
    BY <2>1, <2>2, <2>3, NodesAssumption
<1>6. loaded' \subseteq 1..MaxRecords
  <2>1. CASE Crash
    BY <1>1, <2>1 DEF Crash, Load
  <2> QED
    BY <1>1, <2>1 DEF CommitRollsBack, Retry, DeadLetter, ghostVars
<1>7. h'.pc = "idle" /\ ~h'.ran
  BY <1>2 DEF IdleHandler
<1>8. CountsOK'
  BY CountsType DEF NodeInv, CommitRollsBack, Retry, DeadLetter, Crash, ghostVars
<1>9. NodesTypeOK'
  BY <1>2, <1>3, <1>4, <1>5, <1>6, <1>8, IdleType, QuietType
     DEF NodeInv, NodesTypeOK, CommitRollsBack, Retry, DeadLetter, Crash
<1>10. HandlerInv' /\ TapInv'
  BY <1>7 DEF HandlerInv, TapInv
<1>11. RecordInv' /\ EmitInv'
  BY <1>2, TablesKept DEF NodeInv
<1> QED
  BY <1>9, <1>10, <1>11 DEF NodeInv

(***************************************************************************)
(* The saved continuation preserves the invariant.                         *)
(***************************************************************************)
LEMMA SaveInv ==
  ASSUME NodeInv, saveFailedContinuation
  PROVE  NodeInv'
<1>1. /\ h \in Handlers /\ h.run \in Runs /\ theNode \in NodeNames /\ h.pc = "settle"
      /\ ~h.ran /\ job[h.run].at \in {"held", "expired"} /\ job \in [Runs -> Jobs]
      /\ fcont \in [Runs -> NodeNames \cup {"none"}] /\ loaded \subseteq 1..MaxRecords
  BY HandlerTypes DEF NodeInv, HandlerInv, NodesTypeOK, saveFailedContinuation, Goto
<1>2. h' = [h EXCEPT !.pc = "failJob"] /\ fcont' = [fcont EXCEPT ![h.run] = theNode]
      /\ job' = job /\ UNCHANGED <<tables, input>>
  BY DEF saveFailedContinuation, Goto, tables, ghostVars
<1>3. h' \in Handlers /\ h'.pc = "failJob" /\ h'.run = h.run /\ ~h'.ran
      /\ fcont' \in [Runs -> NodeNames \cup {"none"}] /\ fcont'[h.run] = theNode
  BY <1>1, <1>2 DEF Handlers
<1>4. SecretsTypeOK'
  BY DEF saveFailedContinuation, NodeInv, NodesTypeOK, SecretsTypeOK, secretVars
<1>5. CountsOK'
  BY CountsType DEF NodeInv, saveFailedContinuation, ghostVars
<1>6. NodesTypeOK'
  BY <1>1, <1>2, <1>3, <1>4, <1>5, QuietType
     DEF NodeInv, NodesTypeOK, saveFailedContinuation, ghostVars
<1>7. HandlerInv' /\ TapInv'
  BY <1>1, <1>2, <1>3 DEF HandlerInv, TapInv, theNode
<1>8. RecordInv' /\ EmitInv'
  BY <1>2, TablesKept DEF NodeInv
<1> QED
  BY <1>6, <1>7, <1>8 DEF NodeInv

(***************************************************************************)
(* The record of a failure preserves the invariant.                        *)
(***************************************************************************)
LEMMA FailedInv ==
  ASSUME NodeInv, commitFailed
  PROVE  NodeInv'
<1> DEFINE n == theNode
           r == h.run
           key == resolveDedupeKey(theNode, h.run)
           record == [is |-> "failed", result |-> "failed"]
<1>1. /\ h \in Handlers /\ r \in Runs /\ n \in NodeNames /\ h.pc = "failed"
      /\ ~h.ran /\ job[r].at \in {"held", "expired"} /\ job \in [Runs -> Jobs]
      /\ dedupe \in [NodeNames -> [Keys -> Records]]
      /\ result \in [NodeNames -> [Runs -> Results]]
  BY HandlerTypes DEF NodeInv, HandlerInv, commitFailed, Goto
<1>2. /\ h' = [h EXCEPT !.pc = "settle"] /\ result' = [result EXCEPT ![n][r] = "failed"]
      /\ UNCHANGED <<job, input, bookmark, fcont, loaded, emitted, behind, blind, crashes>>
      /\ UNCHANGED <<secretVars, executed, unrecorded>>
  BY DEF commitFailed, Goto, ghostVars, executionVars
<1>3. \/ key \in Keys /\ dedupe' = [dedupe EXCEPT ![n][key] = record]
      \/ dedupe' = dedupe
  BY <1>1, KeyType DEF commitFailed
<1>4. h' \in Handlers /\ h'.pc = "settle" /\ h'.run = h.run /\ ~h'.ran
  BY <1>1, <1>2 DEF Handlers
<1>5. dedupe' \in [NodeNames -> [Keys -> Records]] /\ result' \in [NodeNames -> [Runs -> Results]]
  <2>1. record \in Records /\ "failed" \in Results
    BY DEF Records, Results
  <2>2. result' \in [NodeNames -> [Runs -> Results]]
    BY <1>1, <1>2, <2>1
  <2> HIDE DEF n, key, record
  <2>3. ASSUME key \in Keys, dedupe' = [dedupe EXCEPT ![n][key] = record]
        PROVE  dedupe' \in [NodeNames -> [Keys -> Records]]
    BY <1>1, <2>1, <2>3
  <2> QED
    BY <1>1, <1>3, <2>2, <2>3
<1>6. NodesTypeOK'
  <2>1. SecretsTypeOK'
    BY <1>2 DEF NodeInv, NodesTypeOK, SecretsTypeOK, secretVars
  <2> QED
    BY <1>2, <1>4, <1>5, <2>1 DEF NodeInv, NodesTypeOK, Handlers, Records
<1>7. HandlerInv' /\ TapInv'
  BY <1>1, <1>2, <1>4 DEF HandlerInv, TapInv
<1>8. EmitInv'
  BY <1>2 DEF NodeInv, EmitInv, One
<1>9. RecordInv'
  <2>1. ASSUME NEW m \in NodeNames, NEW k \in Keys, dedupe'[m][k].is = "ok"
        PROVE  dedupe'[m][k] = dedupe[m][k]
    BY <1>1, <1>3, <2>1
  <2> QED
    BY <2>1 DEF NodeInv, RecordInv
<1> QED
  BY <1>6, <1>7, <1>8, <1>9 DEF NodeInv

(***************************************************************************)
(* What the handler of a commit holds.                                     *)
(***************************************************************************)
LEMMA AtCommit ==
  ASSUME NodeInv, CommitNodeAtom
  PROVE  /\ h \in Handlers /\ h.run \in Runs /\ theNode \in NodeNames /\ job \in [Runs -> Jobs]
         /\ h.result \in Runs /\ bookmark \in 0..MaxRecords
         /\ dedupe \in [NodeNames -> [Keys -> Records]]
         /\ result \in [NodeNames -> [Runs -> Results]]
         /\ input \in [Runs -> SUBSET (1..MaxRecords)]
         /\ h.key = resolveDedupeKey(theNode, h.run)
         /\ h.key # NoKey => h.key \in Keys
         /\ RecordsOf \subseteq 1..MaxRecords
<1>1. /\ h \in Handlers /\ job \in [Runs -> Jobs] /\ bookmark \in 0..MaxRecords
      /\ dedupe \in [NodeNames -> [Keys -> Records]]
      /\ result \in [NodeNames -> [Runs -> Results]]
      /\ input \in [Runs -> SUBSET (1..MaxRecords)]
      /\ h.pc = "commit" /\ h.run \in Runs /\ theNode \in NodeNames
      /\ h.key = resolveDedupeKey(theNode, h.run)
  BY HandlerTypes DEF NodeInv, HandlerInv, CommitNodeAtom
<1>2. h.key # NoKey => h.key \in Keys
  BY <1>1 DEF Handlers
<1>3. h.result \in Runs
  <2>1. CASE h.ran
    BY <1>1, <2>1 DEF NodeInv, HandlerInv
  <2>2. CASE ~h.ran
    <3>1. h.key \in Keys /\ dedupe[theNode][h.key] = [is |-> "ok", result |-> h.result]
      BY <1>1, <1>2, <2>2 DEF NodeInv, HandlerInv
    <3>2. dedupe[theNode][h.key].is = "ok" /\ dedupe[theNode][h.key].result = h.result
      BY <3>1
    <3> QED
      BY <1>1, <3>1, <3>2 DEF NodeInv, RecordInv
  <2> QED
    BY <2>1, <2>2
<1>4. RecordsOf \subseteq 1..MaxRecords
  BY <1>1, <1>3, NodesAssumption DEF RecordsOf, Handlers
<1> QED
  BY <1>1, <1>2, <1>3, <1>4

(***************************************************************************)
(* A commit preserves EmitInv: what a tap emits begins at the bookmark,    *)
(* and a bookmark that ends before the last record is counted.             *)
(***************************************************************************)
LEMMA CommitEmit ==
  ASSUME NodeInv, CommitNodeAtom
  PROVE  EmitInv' /\ emitted' \in [1..MaxRecords -> Nat] /\ behind' \in Nat
<1>1. /\ emitted \in [1..MaxRecords -> Nat] /\ behind \in Nat /\ h \in Handlers
      /\ bookmark \in 0..MaxRecords /\ h.prior \in Nat /\ h.upto \in Nat /\ h.state \in Nat
  BY AtCommit, NodesAssumption DEF NodeInv, NodesTypeOK, Handlers
<1>2. \A i \in 1..MaxRecords : emitted[i] <= behind + One(i <= bookmark)
  BY DEF NodeInv, EmitInv
<1>3. CASE ~(theNode = "tap" /\ h.ran)
  <2>1. UNCHANGED <<emitted, behind, bookmark>>
    BY <1>3 DEF CommitNodeAtom, BookmarkAfter
  <2> QED
    BY <1>1, <1>2, <2>1 DEF EmitInv
<1>4. CASE theNode = "tap" /\ h.ran
  <2>1. /\ h.prior = bookmark /\ h.prior <= h.upto /\ h.state <= h.upto
        /\ bookmark' = h.state /\ RecordsOf = (h.prior + 1)..h.upto
    BY <1>4 DEF NodeInv, TapInv, CommitNodeAtom, BookmarkAfter, RecordsOf
  <2>2. /\ emitted' = [i \in 1..MaxRecords |->
                         emitted[i] + (IF i \in RecordsOf THEN 1 ELSE 0)]
        /\ behind' = behind + (IF h.state < h.upto THEN 1 ELSE 0)
    BY <1>4 DEF CommitNodeAtom
  <2>3. emitted' \in [1..MaxRecords -> Nat] /\ behind' \in Nat
    BY <1>1, <2>2
  <2>4. ASSUME NEW i \in 1..MaxRecords
        PROVE  emitted'[i] <= behind' + One(i <= bookmark')
    <3>1. emitted[i] <= behind + (IF i <= bookmark THEN 1 ELSE 0) /\ emitted[i] \in Nat
      BY <1>1, <1>2 DEF One
    <3>2. emitted'[i] = emitted[i] + (IF bookmark < i /\ i <= h.upto THEN 1 ELSE 0)
      BY <1>1, <2>1, <2>2
    <3> QED
      BY <1>1, <2>1, <2>2, <3>1, <3>2 DEF One
  <2> QED
    BY <2>3, <2>4 DEF EmitInv
<1> QED
  BY <1>3, <1>4

(***************************************************************************)
(* The completion transaction preserves the invariant.                     *)
(***************************************************************************)
LEMMA CommitInv ==
  ASSUME NodeInv, CommitNodeAtom
  PROVE  NodeInv'
<1> DEFINE n == theNode
           r == h.run
<1>1. /\ h \in Handlers /\ r \in Runs /\ n \in NodeNames /\ job \in [Runs -> Jobs]
      /\ h.result \in Runs /\ bookmark \in 0..MaxRecords
      /\ dedupe \in [NodeNames -> [Keys -> Records]]
      /\ result \in [NodeNames -> [Runs -> Results]]
      /\ input \in [Runs -> SUBSET (1..MaxRecords)]
      /\ (h.key # NoKey => h.key \in Keys) /\ RecordsOf \subseteq 1..MaxRecords
  BY AtCommit
<1>2. job' \in [Runs -> Jobs]
  <2>1. After(n) \in NodeNames /\ 0 \in 0..MaxAttempts
    BY NodesAssumption DEF After, NodeNames
  <2>2. [node |-> After(n), tries |-> 0, at |-> "queued"] \in Jobs
    BY <2>1 DEF Jobs
  <2>3. [job[r] EXCEPT !.at = "done"] \in Jobs
    BY <1>1 DEF Jobs
  <2> QED
    BY <1>1, <2>2, <2>3 DEF CommitNodeAtom
<1>3. result' \in [NodeNames -> [Runs -> Results]]
  BY <1>1 DEF CommitNodeAtom, Results
<1>4. dedupe' \in [NodeNames -> [Keys -> Records]]
  <2>1. [is |-> "ok", result |-> h.result] \in Records
    BY <1>1 DEF Records, Results
  <2> QED
    BY <1>1, <2>1 DEF CommitNodeAtom, DedupeAfter
<1>5. bookmark' \in 0..MaxRecords
  BY <1>1 DEF CommitNodeAtom, BookmarkAfter, Handlers
<1>6. input' \in [Runs -> SUBSET (1..MaxRecords)]
  BY <1>1 DEF CommitNodeAtom
<1>7. h' \in Handlers /\ h'.pc = "idle" /\ ~h'.ran
  BY IdleType DEF CommitNodeAtom, Return, IdleHandler
<1>8. SecretsTypeOK'
  BY DEF CommitNodeAtom, NodeInv, NodesTypeOK, SecretsTypeOK, secretVars
<1>9. NodesTypeOK'
  BY <1>2, <1>3, <1>4, <1>5, <1>6, <1>7, <1>8, CommitEmit
     DEF CommitNodeAtom, NodeInv, NodesTypeOK, Handlers, Jobs, Records, executionVars
<1>10. HandlerInv' /\ TapInv'
  BY <1>7 DEF HandlerInv, TapInv
<1>11. RecordInv'
  <2>1. ASSUME NEW m \in NodeNames, NEW k \in Keys
        PROVE  dedupe'[m][k] = dedupe[m][k] \/ dedupe'[m][k] = [is |-> "ok", result |-> h.result]
    BY <1>1 DEF CommitNodeAtom, DedupeAfter
  <2> QED
    BY <1>1, <2>1 DEF NodeInv, RecordInv
<1> QED
  BY <1>9, <1>10, <1>11, CommitEmit DEF NodeInv

(***************************************************************************)
(* NodeInv holds at the start: nothing has completed.                      *)
(***************************************************************************)
LEMMA NodeInvInit ==
  ASSUME Init, Sealers = {} \/ SecretNames # {}
  PROVE  NodeInv
<1>1. SecretsTypeOK
  BY SecretsInitType DEF Init
<1>2. h \in Handlers /\ h.pc = "idle" /\ ~h.ran
  BY IdleType DEF Init, IdleHandler
<1>3. NodesTypeOK
  BY <1>1, <1>2, NodesAssumption DEF Init, NodesTypeOK, Handlers, NodeNames, Results, NoRecord
<1>4. HandlerInv /\ TapInv
  BY <1>2 DEF HandlerInv, TapInv
<1>5. RecordInv
  BY DEF Init, RecordInv, NoRecord
<1>6. EmitInv
  BY NodesAssumption DEF Init, EmitInv, One
<1> QED
  BY <1>3, <1>4, <1>5, <1>6 DEF NodeInv

(***************************************************************************)
(* Every step preserves NodeInv.                                           *)
(***************************************************************************)
LEMMA NodeInvNext == NodeInv /\ [Next]_vars => NodeInv'
<1> SUFFICES ASSUME NodeInv, [Next]_vars PROVE NodeInv'
  OBVIOUS
<1>1. ASSUME UNCHANGED nodeVars, SecretsTypeOK' PROVE NodeInv'
  <2>1. NodesTypeOK'
    BY <1>1 DEF NodeInv, NodesTypeOK, nodeVars
  <2>2. HandlerInv' /\ TapInv' /\ EmitInv'
    BY <1>1 DEF NodeInv, HandlerInv, TapInv, EmitInv, nodeVars, theNode, resolveDedupeKey
  <2>3. RecordInv'
    BY <1>1 DEF NodeInv, RecordInv, nodeVars
  <2> QED
    BY <2>1, <2>2, <2>3 DEF NodeInv
<1>2. CASE SecretsStep /\ UNCHANGED nodeVars
  BY <1>1, <1>2, SecretsStepType DEF NodeInv, NodesTypeOK
<1>3. CASE UNCHANGED vars
  <2>1. SecretsTypeOK'
    BY <1>3 DEF vars, secretVars, NodeInv, NodesTypeOK, SecretsTypeOK
  <2> QED
    BY <1>1, <1>3, <2>1 DEF vars
<1>4. CASE \E r \in Runs : Claim(r) \/ Expire(r)
  BY <1>4, QueueStepInv
<1>5. CASE RunNode
  BY <1>5, LookupInv, RunInv, CommitInv, ReturnInv DEF RunNode
<1>6. CASE RecordFailure
  BY <1>6, FailedInv, ReturnInv, SaveInv DEF RecordFailure
<1>7. CASE Crash
  BY <1>7, ReturnInv
<1> QED
  BY <1>2, <1>3, <1>4, <1>5, <1>6, <1>7 DEF Next

(***************************************************************************)
(* NodeInv is an invariant of Nodes.                                       *)
(***************************************************************************)
THEOREM NodesInvariance ==
  ASSUME Sealers = {} \/ SecretNames # {}
  PROVE  Spec => []NodeInv
<1>1. Init => NodeInv
  BY NodeInvInit
<1> QED
  BY <1>1, NodeInvNext, PTL DEF Spec

(***************************************************************************)
(* The types of Nodes hold in every state: in particular the result a      *)
(* skipped tap takes from its dedupe record is always that of a run.       *)
(***************************************************************************)
THEOREM NodesTypeCorrectness ==
  ASSUME Sealers = {} \/ SecretNames # {}
  PROVE  Spec => []NodesTypeOK
<1>1. NodeInv => NodesTypeOK
  BY DEF NodeInv
<1> QED
  BY <1>1, NodesInvariance, PTL

(***************************************************************************)
(* A record is in more than one result of the tap only for taps that ended *)
(* without a STATE for their last record (runSingerNode, CommitNodeAtom).  *)
(***************************************************************************)
THEOREM NoExtraCopies ==
  ASSUME Sealers = {} \/ SecretNames # {}
  PROVE  Spec => []EmittedOnce
<1>1. NodeInv => EmittedOnce
  <2> SUFFICES ASSUME NodeInv, NEW i \in 1..MaxRecords
               PROVE  emitted[i] <= 1 + behind
    BY DEF EmittedOnce
  <2>1. emitted[i] <= behind + One(i <= bookmark) /\ emitted[i] \in Nat /\ behind \in Nat
    BY DEF NodeInv, NodesTypeOK, EmitInv
  <2> QED
    BY <2>1 DEF One
<1> QED
  BY <1>1, NodesInvariance, PTL

-----------------------------------------------------------------------------
(* Executions under a dedupe key *)

\* The executions so far of n under k all have an event to pay for them.
Paid(n, k) == executed[n][k] <= blind + unrecorded

\* One execution of n under k is free: a success is recorded, or about to be.
Free(n, k) == dedupe[n][k].is = "ok" \/ (h.ran /\ theNode = n /\ h.key = k)

(***************************************************************************)
(* Where no success is recorded or about to be, everything is paid for,    *)
(* also where a failed record is about to replace the success.             *)
(***************************************************************************)
DedupeInv ==
  /\ \A n \in NodeNames : \A k \in Keys : Free(n, k) \/ Paid(n, k)
  /\ DedupeOnce
  /\ h.pc = "failed" => \A k \in Keys : resolveDedupeKey(theNode, h.run) = k => Paid(theNode, k)

(***************************************************************************)
(* A step that executes nothing keeps DedupeInv if what was free stays so, *)
(* or is paid for.                                                         *)
(***************************************************************************)
LEMMA DedupeFrame ==
  ASSUME NodesTypeOK, NodesTypeOK', DedupeInv, executed' = executed,
         blind' >= blind, unrecorded' >= unrecorded,
         \A n \in NodeNames : \A k \in Keys : Free(n, k) => Free(n, k)' \/ Paid(n, k)',
         h'.pc = "failed" =>
           /\ h'.run \in Runs
           /\ \A n \in NodeNames : \A k \in Keys :
                n = theNode' /\ resolveDedupeKey(n, h'.run) = k => Paid(n, k)'
  PROVE  DedupeInv'
<1>1. ASSUME NEW n \in NodeNames, NEW k \in Keys
      PROVE  /\ executed[n][k] \in Nat /\ blind \in Nat /\ unrecorded \in Nat
             /\ blind' \in Nat /\ unrecorded' \in Nat
  BY DEF NodesTypeOK
<1>2. ASSUME NEW n \in NodeNames, NEW k \in Keys
      PROVE  /\ Free(n, k)' \/ Paid(n, k)'
             /\ executed'[n][k] <= 1 + blind' + unrecorded'
  <2>1. Paid(n, k) => Paid(n, k)'
    BY <1>1 DEF Paid
  <2>2. Free(n, k)' \/ Paid(n, k)'
    BY <2>1 DEF DedupeInv
  <2>3. executed[n][k] <= 1 + blind + unrecorded
    BY DEF DedupeInv, DedupeOnce
  <2> QED
    BY <1>1, <2>2, <2>3
<1>3. DedupeOnce'
  BY <1>2 DEF DedupeOnce
<1>4. ASSUME h'.pc = "failed", NEW k \in Keys, resolveDedupeKey(theNode', h'.run) = k
      PROVE  (executed[theNode][k] <= blind + unrecorded)'
  <2>1. theNode' \in NodeNames
    BY <1>4 DEF NodesTypeOK, theNode
  <2>2. PICK n \in NodeNames : n = theNode'
    BY <2>1
  <2>3. Paid(n, k)'
    BY <1>4, <2>2
  <2> QED
    BY <2>2, <2>3 DEF Paid
<1>5. (h.pc = "failed" => \A k \in Keys :
        resolveDedupeKey(theNode, h.run) = k => Paid(theNode, k))'
  BY <1>4 DEF Paid, resolveDedupeKey
<1> QED
  BY <1>2, <1>3, <1>5 DEF DedupeInv

(***************************************************************************)
(* A step of a handler that ran nothing, and writes no dedupe record: what *)
(* was free stays free.                                                    *)
(***************************************************************************)
LEMMA DedupeQuiet ==
  ASSUME NodesTypeOK, NodesTypeOK', DedupeInv, ~h.ran, h'.pc # "failed",
         UNCHANGED <<dedupe, executed, unrecorded, blind>>
  PROVE  DedupeInv'
<1>1. \A n \in NodeNames : \A k \in Keys : Free(n, k) => Free(n, k)'
  BY DEF Free
<1>2. blind' >= blind /\ unrecorded' >= unrecorded
  BY DEF NodesTypeOK
<1> QED
  BY <1>1, <1>2, DedupeFrame

(***************************************************************************)
(* A handler between the lookup and the commit has found no success: the   *)
(* executions under its key are paid for.                                  *)
(***************************************************************************)
LEMMA AllPaid ==
  ASSUME NodeInv, DedupeInv, h.pc \in {"secrets", "bookmark", "run"},
         NEW k \in Keys, resolveDedupeKey(theNode, h.run) = k
  PROVE  h.key = k /\ Paid(theNode, k)
<1>1. theNode \in NodeNames /\ h.key = k /\ k # NoKey /\ ~h.ran
  BY HandlerTypes, NodesAssumption DEF NodeInv, HandlerInv
<1>2. ~Free(theNode, k)
  BY <1>1 DEF Free, NodeInv, HandlerInv
<1> QED
  BY <1>1, <1>2 DEF DedupeInv

(***************************************************************************)
(* An execution: it was not free before, and its commit will make it so.   *)
(***************************************************************************)
LEMMA DedupeRun ==
  ASSUME NodeInv, NodeInv', DedupeInv, RunTap \/ RunTarget \/ RunAction
  PROVE  DedupeInv'
<1>1. /\ h \in Handlers /\ h.pc = "run" /\ h.run \in Runs /\ theNode \in NodeNames
      /\ ~h.ran /\ h.key = resolveDedupeKey(theNode, h.run)
  BY HandlerTypes DEF NodeInv, HandlerInv, RunTap, RunTarget, RunAction
<1>2. Executes /\ UNCHANGED <<job, dedupe, blind>>
  BY DEF RunTap, RunTarget, RunAction
<1>3. h'.pc = "commit" /\ h'.ran /\ h'.run = h.run /\ h'.key = h.key
  BY <1>1 DEF RunTap, RunTarget, RunAction, Ran, Handlers
<1>4. theNode' = theNode
  BY <1>2, <1>3 DEF theNode
<1>5. PICK m \in NodeNames : m = theNode
  BY <1>1
<1>6. ASSUME NEW n \in NodeNames, NEW k \in Keys
      PROVE  /\ Free(n, k)' \/ Paid(n, k)'
             /\ executed'[n][k] <= 1 + blind' + unrecorded'
  <2>1. /\ executed \in [NodeNames -> [Keys -> Nat]] /\ blind \in Nat /\ unrecorded \in Nat
        /\ unrecorded' = unrecorded /\ blind' = blind /\ executed[n][k] \in Nat
        /\ executed[n][k] <= 1 + blind + unrecorded
    BY <1>2 DEF NodeInv, NodesTypeOK, DedupeInv, DedupeOnce, Executes
  <2>2. CASE n = m /\ k = h.key
    <3>1. executed[n][k] <= blind + unrecorded
      BY <1>1, <1>5, <2>2, AllPaid DEF Paid
    <3>2. k # NoKey
      BY NodesAssumption
    <3>3. executed' = [executed EXCEPT ![n][k] = executed[n][k] + 1]
      BY <1>2, <1>5, <2>1, <2>2, <3>2 DEF Executes
    <3>4. executed'[n][k] = executed[n][k] + 1
      BY <2>1, <3>3
    <3>5. Free(n, k)'
      BY <1>3, <1>4, <1>5, <2>2 DEF Free
    <3> QED
      BY <2>1, <3>1, <3>4, <3>5
  <2>3. CASE ~(n = m /\ k = h.key)
    <3>1. executed'[n][k] = executed[n][k]
      BY <1>1, <1>2, <1>5, <2>1, <2>3 DEF Executes, Handlers
    <3>2. Free(n, k) => Free(n, k)'
      BY <1>1, <1>2 DEF Free
    <3>3. Paid(n, k) => Paid(n, k)'
      BY <2>1, <3>1 DEF Paid
    <3> QED
      BY <2>1, <3>1, <3>2, <3>3 DEF DedupeInv
  <2> QED
    BY <2>2, <2>3
<1>7. DedupeOnce'
  BY <1>6 DEF DedupeOnce
<1> QED
  BY <1>3, <1>6, <1>7 DEF DedupeInv

(***************************************************************************)
(* A commit writes the record of what the handler ran.                     *)
(***************************************************************************)
LEMMA DedupeCommit ==
  ASSUME NodeInv, NodeInv', DedupeInv, CommitNodeAtom
  PROVE  DedupeInv'
<1>1. /\ h \in Handlers /\ theNode \in NodeNames /\ dedupe \in [NodeNames -> [Keys -> Records]]
  BY AtCommit
<1>2. PICK m \in NodeNames : m = theNode
  BY <1>1
<1>3. h'.pc = "idle" /\ UNCHANGED <<executed, unrecorded, blind>> /\ dedupe' = DedupeAfter
  BY DEF CommitNodeAtom, Return, IdleHandler, executionVars
<1>4. ASSUME NEW n \in NodeNames, NEW k \in Keys, Free(n, k)
      PROVE  Free(n, k)'
  <2>1. k # NoKey
    BY NodesAssumption
  <2>2. CASE n = m /\ k = h.key /\ h.ran
    <3>1. dedupe' = [dedupe EXCEPT ![n][k] = [is |-> "ok", result |-> h.result]]
      BY <1>2, <1>3, <2>1, <2>2 DEF DedupeAfter
    <3>2. dedupe'[n][k].is = "ok"
      BY <1>1, <3>1
    <3> QED
      BY <3>2 DEF Free
  <2>3. CASE ~(n = m /\ k = h.key /\ h.ran)
    <3>1. dedupe[n][k].is = "ok"
      BY <1>2, <1>4, <2>3 DEF Free
    <3>2. dedupe'[n][k] = dedupe[n][k]
      BY <1>1, <1>2, <1>3, <2>3 DEF DedupeAfter, Handlers
    <3> QED
      BY <3>1, <3>2 DEF Free
  <2> QED
    BY <2>2, <2>3
<1>5. blind' >= blind /\ unrecorded' >= unrecorded
  BY <1>3 DEF NodeInv, NodesTypeOK
<1> QED
  BY <1>3, <1>4, <1>5, DedupeFrame DEF NodeInv

(***************************************************************************)
(* A crash or a rollback pays for the execution it cuts off.               *)
(***************************************************************************)
LEMMA DedupeCut ==
  ASSUME NodeInv, NodeInv', DedupeInv, CommitRollsBack \/ Crash
  PROVE  DedupeInv'
<1>1. h'.pc = "idle" /\ LeavesUnrecorded /\ UNCHANGED <<dedupe, blind>>
  BY DEF CommitRollsBack, Crash, Return, IdleHandler
<1>2. executed' = executed /\ unrecorded \in Nat /\ blind \in Nat
      /\ unrecorded' = unrecorded + (IF h.ran /\ h.key # NoKey THEN 1 ELSE 0)
  BY <1>1 DEF LeavesUnrecorded, NodeInv, NodesTypeOK
<1>3. ASSUME NEW n \in NodeNames, NEW k \in Keys, Free(n, k)
      PROVE  Free(n, k)' \/ Paid(n, k)'
  <2>1. CASE dedupe[n][k].is = "ok"
    BY <1>1, <2>1 DEF Free
  <2>2. CASE h.ran /\ h.key = k
    <3>1. unrecorded' = unrecorded + 1
      BY <1>2, <2>2, NodesAssumption
    <3>2. executed[n][k] <= 1 + blind + unrecorded /\ executed[n][k] \in Nat
      BY DEF DedupeInv, DedupeOnce, NodeInv, NodesTypeOK
    <3> QED
      BY <1>1, <1>2, <3>1, <3>2 DEF Paid
  <2> QED
    BY <1>3, <2>1, <2>2 DEF Free
<1>4. blind' >= blind /\ unrecorded' >= unrecorded
  BY <1>1, <1>2
<1> QED
  BY <1>1, <1>2, <1>3, <1>4, DedupeFrame DEF NodeInv

(***************************************************************************)
(* A failure before the lookup pays for the success it may replace, and    *)
(* one after the lookup has found none.                                    *)
(***************************************************************************)
LEMMA DedupeFailing ==
  ASSUME NodeInv, NodeInv', DedupeInv, LookupFails \/ nodeEnv \/ RunFails
  PROVE  DedupeInv'
<1>1. /\ h \in Handlers /\ h.pc \in {"key", "secrets", "run"} /\ h.run \in Runs
      /\ theNode \in NodeNames /\ ~h.ran
  BY HandlerTypes DEF NodeInv, HandlerInv, LookupFails, nodeEnv, RunFails
<1>2. UNCHANGED <<job, dedupe>> /\ UNCHANGED <<executed, unrecorded>> /\ h'.run = h.run
  BY <1>1 DEF LookupFails, nodeEnv, RunFails, ghostVars, executionVars, Handlers
<1>3. theNode' = theNode
  BY <1>2 DEF theNode
<1>4. blind \in Nat /\ unrecorded \in Nat /\ blind' \in {blind, blind + 1}
  BY DEF NodeInv, NodesTypeOK, LookupFails, nodeEnv, RunFails, ghostVars
<1>5. blind' >= blind /\ unrecorded' >= unrecorded
  BY <1>2, <1>4
<1>6. \A n \in NodeNames : \A k \in Keys : Free(n, k) => Free(n, k)'
  BY <1>1, <1>2 DEF Free
<1>7. ASSUME NEW n \in NodeNames, NEW k \in Keys, n = theNode, resolveDedupeKey(n, h.run) = k
      PROVE  Paid(n, k)'
  <2>1. executed[n][k] <= 1 + blind + unrecorded /\ executed[n][k] \in Nat
    BY DEF DedupeInv, DedupeOnce, NodeInv, NodesTypeOK
  <2>2. CASE LookupFails
    <3>1. blind' = blind + 1
      BY <2>2 DEF LookupFails
    <3> QED
      BY <1>2, <1>4, <2>1, <3>1 DEF Paid
  <2>3. CASE nodeEnv \/ RunFails
    <3>1. blind' = blind /\ h.pc \in {"secrets", "run"}
      BY <2>3 DEF nodeEnv, RunFails, ghostVars
    <3>2. executed[n][k] <= blind + unrecorded
      BY <1>7, <3>1, AllPaid DEF Paid
    <3> QED
      BY <1>2, <3>1, <3>2 DEF Paid
  <2> QED
    BY <2>2, <2>3
<1> QED
  BY <1>1, <1>2, <1>3, <1>5, <1>6, <1>7, DedupeFrame DEF NodeInv

(***************************************************************************)
(* The failed record replaces a success only where that is paid for.       *)
(***************************************************************************)
LEMMA DedupeFailed ==
  ASSUME NodeInv, NodeInv', DedupeInv, commitFailed
  PROVE  DedupeInv'
<1>1. /\ h \in Handlers /\ h.pc = "failed" /\ h.run \in Runs /\ theNode \in NodeNames /\ ~h.ran
      /\ dedupe \in [NodeNames -> [Keys -> Records]]
  BY HandlerTypes DEF NodeInv, HandlerInv, commitFailed, Goto
<1>2. PICK m \in NodeNames : m = theNode
  BY <1>1
<1>3. PICK key \in Keys \cup {NoKey} : key = resolveDedupeKey(m, h.run)
  BY <1>1, KeyType
<1>4. h'.pc = "settle" /\ UNCHANGED <<executed, unrecorded, blind>>
  BY <1>1 DEF commitFailed, Goto, ghostVars, executionVars, Handlers
<1>5. \/ key \in Keys /\ dedupe' = [dedupe EXCEPT ![m][key] = [is |-> "failed", result |-> "failed"]]
      \/ dedupe' = dedupe
  BY <1>2, <1>3 DEF commitFailed
<1>6. ASSUME NEW n \in NodeNames, NEW k \in Keys, Free(n, k)
      PROVE  Free(n, k)' \/ Paid(n, k)'
  <2>1. CASE n = m /\ k = key
    <3>1. Paid(n, k)
      BY <1>1, <1>2, <1>3, <2>1 DEF DedupeInv
    <3> QED
      BY <1>4, <3>1 DEF Paid
  <2>2. CASE ~(n = m /\ k = key)
    <3>1. dedupe'[n][k] = dedupe[n][k]
      BY <1>1, <1>5, <2>2
    <3> QED
      BY <1>1, <1>6, <3>1 DEF Free
  <2> QED
    BY <2>1, <2>2
<1>7. blind' >= blind /\ unrecorded' >= unrecorded
  BY <1>4 DEF NodeInv, NodesTypeOK
<1> QED
  BY <1>4, <1>6, <1>7, DedupeFrame DEF NodeInv

(***************************************************************************)
(* An expired claim leaves the handler, and its node, as they are.         *)
(***************************************************************************)
LEMMA DedupeExpire ==
  ASSUME NodeInv, NodeInv', DedupeInv, NEW r \in Runs, Expire(r)
  PROVE  DedupeInv'
<1>1. /\ h' = h /\ UNCHANGED dedupe /\ UNCHANGED <<executed, unrecorded, blind>>
      /\ job \in [Runs -> Jobs] /\ job' = [job EXCEPT ![r].at = "expired"]
  BY HandlerTypes DEF NodeInv, Expire, ghostVars, executionVars
<1>2. h.run \in Runs => theNode' = theNode
  BY <1>1 DEF theNode, Jobs
<1>3. h.ran \/ h.pc = "failed" => h.run \in Runs
  BY DEF NodeInv, HandlerInv
<1>4. \A n \in NodeNames : \A k \in Keys : Free(n, k) => Free(n, k)'
  BY <1>1, <1>2, <1>3 DEF Free
<1>5. blind' >= blind /\ unrecorded' >= unrecorded
  BY <1>1 DEF NodeInv, NodesTypeOK
<1>6. h.pc = "failed" => \A n \in NodeNames : \A k \in Keys :
        n = theNode /\ resolveDedupeKey(n, h.run) = k => Paid(n, k)'
  BY <1>1 DEF DedupeInv, Paid
<1> QED
  BY <1>1, <1>2, <1>3, <1>4, <1>5, <1>6, DedupeFrame DEF NodeInv

(***************************************************************************)
(* Every step preserves DedupeInv.                                         *)
(***************************************************************************)
LEMMA DedupeInvNext ==
  ASSUME NodeInv, NodeInv', DedupeInv, [Next]_vars
  PROVE  DedupeInv'
<1>1. h \in Handlers /\ (h.ran => h.pc = "commit") /\ NodesTypeOK /\ NodesTypeOK'
  BY HandlerTypes DEF NodeInv, HandlerInv
<1>2. ASSUME NEW r \in Runs, Claim(r) PROVE DedupeInv'
  <2>1. ~h.ran /\ h'.pc # "failed" /\ UNCHANGED <<dedupe, executed, unrecorded, blind>>
    BY <1>1, <1>2 DEF Claim, IdleHandler, ghostVars, executionVars
  <2> QED
    BY <1>1, <2>1, DedupeQuiet
<1>3. CASE LookupDedupe \/ GetSingerState \/ Retry \/ saveFailedContinuation \/ DeadLetter
  <2>1. ~h.ran /\ UNCHANGED <<dedupe, executed, unrecorded, blind>>
    BY <1>1, <1>3 DEF LookupDedupe, GetSingerState, Retry, saveFailedContinuation, DeadLetter,
                      Goto, ghostVars, executionVars
  <2>2. h'.pc # "failed"
    <3>1. CASE LookupDedupe \/ GetSingerState \/ saveFailedContinuation
      BY <1>1, <3>1 DEF LookupDedupe, GetSingerState, saveFailedContinuation, Goto, Handlers
    <3>2. CASE Retry \/ DeadLetter
      BY <3>2 DEF Retry, DeadLetter, Return, IdleHandler
    <3> QED
      BY <1>3, <3>1, <3>2
  <2> QED
    BY <1>1, <2>1, <2>2, DedupeQuiet
<1>4. CASE UNCHANGED nodeVars
  <2>1. theNode' = theNode /\ h' = h /\ UNCHANGED dedupe /\ UNCHANGED <<executed, unrecorded, blind>>
    BY <1>4 DEF nodeVars, theNode
  <2> QED
    BY <2>1 DEF DedupeInv, DedupeOnce, Free, Paid, resolveDedupeKey
<1>5. CASE \E r \in Runs : Claim(r) \/ Expire(r)
  BY <1>2, <1>5, DedupeExpire
<1>6. CASE RunNode
  BY <1>3, <1>6, DedupeRun, DedupeCommit, DedupeCut, DedupeFailing DEF RunNode
<1>7. CASE RecordFailure
  BY <1>3, <1>7, DedupeFailed DEF RecordFailure
<1>8. CASE Crash
  BY <1>8, DedupeCut
<1> QED
  BY <1>4, <1>5, <1>6, <1>7, <1>8 DEF Next, vars

(***************************************************************************)
(* Under one dedupe key a node runs to its end once, plus once for each    *)
(* failure before the lookup of a record and for each execution that a     *)
(* crash or an expired claim cuts off from its commit (runNode,            *)
(* commitFailed, CommitNodeAtom): for any number of runs, keys and         *)
(* retries, nothing else repeats it.                                       *)
(***************************************************************************)
THEOREM SharedExecution ==
  ASSUME Sealers = {} \/ SecretNames # {}
  PROVE  Spec => []DedupeOnce
<1>1. Init => DedupeInv
  <2> SUFFICES ASSUME Init PROVE DedupeInv
    OBVIOUS
  <2>1. /\ blind = 0 /\ unrecorded = 0 /\ h.pc = "idle"
        /\ \A n \in NodeNames : \A k \in Keys : executed[n][k] = 0
    BY DEF Init, IdleHandler
  <2> QED
    BY <2>1 DEF DedupeInv, DedupeOnce, Paid
<1>2. NodeInv /\ NodeInv' /\ DedupeInv /\ [Next]_vars => DedupeInv'
  BY DedupeInvNext
<1>3. DedupeInv => DedupeOnce
  BY DEF DedupeInv
<1> QED
  BY <1>1, <1>2, <1>3, NodesInvariance, PTL DEF Spec

-----------------------------------------------------------------------------
(* No record is lost *)

\* The target has no dedupe_key, and the attempts of a failing secret end no
\* later than the queue's own (as shipped, both are 3).
TargetLoadsAll ==
  /\ \A r \in Runs : KeyExpr["target"][r] = NoExpr
  /\ SecretRetries <= MaxAttempts

(***************************************************************************)
(* A record stays loaded or on its way through a step that takes no job to *)
(* another node and dead-letters none without a saved continuation.        *)
(***************************************************************************)
LEMMA LostFrame ==
  ASSUME NodeInv, NoRecordLost, input' = input, bookmark' = bookmark,
         loaded \subseteq loaded', SameNodes,
         \A r \in Runs :
           /\ job[r].node = "target"
           /\ job[r].at = "dead" => fcont[r] = "target"
           /\ job'[r].at = "dead"
           => fcont'[r] = "target"
  PROVE  NoRecordLost'
<1> SUFFICES ASSUME NEW i \in 1..bookmark, i \notin loaded' PROVE OnItsWay(i)'
  BY DEF NoRecordLost
<1>1. PICK r \in Runs : /\ i \in input[r] /\ job[r].node = "target"
                        /\ job[r].at = "dead" => fcont[r] = "target"
  BY DEF NoRecordLost, OnItsWay
<1> QED
  BY <1>1 DEF OnItsWay, SameNodes

(***************************************************************************)
(* The steps of the handler that leave the jobs alone.                     *)
(***************************************************************************)
LEMMA LoadHandler ==
  ASSUME NodeInv, LoadInv, job' = job, input' = input, bookmark' = bookmark,
         loaded \subseteq loaded',
         fcont' = fcont \/ (h.run \in Runs /\ fcont' = [fcont EXCEPT ![h.run] = theNode]),
         h'.ran => h'.run = h.run /\ (theNode = "target" => input[h.run] \subseteq loaded')
  PROVE  LoadInv'
<1>1. NoRecordLost'
  <2>1. SameNodes
    BY DEF SameNodes
  <2>2. \A r \in Runs : job[r].node = "target" /\ fcont[r] = "target" => fcont'[r] = "target"
    BY DEF theNode, NodeInv, NodesTypeOK
  <2> QED
    BY <2>1, <2>2, LostFrame DEF LoadInv
<1>2. (h.ran /\ theNode = "target" => input[h.run] \subseteq loaded)'
  BY DEF theNode
<1> QED
  BY <1>1, <1>2 DEF LoadInv

(***************************************************************************)
(* A retry gives the job back: its attempts are never used up here.        *)
(***************************************************************************)
LEMMA RetryQueues ==
  ASSUME NodeInv, TargetLoadsAll, Retry
  PROVE  job' = job \/ job' = [job EXCEPT ![h.run].at = "queued"]
<1>1. h \in Handlers /\ h.run \in Runs /\ job[h.run] \in Jobs
  BY HandlerTypes DEF NodeInv, HandlerInv, Retry
<1>2. h.cause \in Causes /\ job[h.run].tries \in Nat
  BY <1>1 DEF Handlers, Jobs
<1>3. ~(job[h.run].tries >= MaxAttempts)
  BY <1>2, NodesAssumption DEF Retry, Hopeless, Causes, TargetLoadsAll
<1> QED
  BY <1>3 DEF Retry

(***************************************************************************)
(* A commit of the tap puts what it emitted in the target's input, and a   *)
(* commit of the target comes after the load.                              *)
(***************************************************************************)
LEMMA LoadCommit ==
  ASSUME NodeInv, LoadInv, TargetLoadsAll, CommitNodeAtom
  PROVE  LoadInv'
<1> DEFINE n == theNode
           r == h.run
<1>1. /\ h \in Handlers /\ r \in Runs /\ n \in NodeNames /\ job \in [Runs -> Jobs]
      /\ input \in [Runs -> SUBSET (1..MaxRecords)] /\ h.key = resolveDedupeKey(n, r)
      /\ bookmark \in 0..MaxRecords
  BY AtCommit
<1>2. /\ h.pc = "commit" /\ ~h'.ran /\ loaded' = loaded /\ fcont' = fcont /\ n = job[r].node
      /\ \A q \in Runs : q # r => job'[q] = job[q] /\ input'[q] = input[q]
  BY <1>1 DEF CommitNodeAtom, Return, IdleHandler, theNode
<1>3. NoRecordLost'
  <2> SUFFICES ASSUME NEW i \in 1..bookmark', i \notin loaded PROVE OnItsWay(i)'
    BY <1>2 DEF NoRecordLost
  <2>1. ASSUME i \in 1..bookmark, n # "target" \/ i \notin input[r]
        PROVE  OnItsWay(i)'
    <3>1. PICK q \in Runs : /\ i \in input[q] /\ job[q].node = "target"
                            /\ job[q].at = "dead" => fcont[q] = "target"
      BY <2>1 DEF LoadInv, NoRecordLost, OnItsWay
    <3>2. q # r
      BY <1>2, <2>1, <3>1
    <3> QED
      BY <1>2, <3>1, <3>2 DEF OnItsWay
  <2>2. CASE n = "tap" /\ h.ran
    <3>1. h.prior = bookmark /\ bookmark' = h.state /\ h.state <= h.upto
          /\ input'[r] = (h.prior + 1)..h.upto
      BY <1>1, <2>2 DEF NodeInv, TapInv, CommitNodeAtom, BookmarkAfter, RecordsOf
    <3>2. job'[r].node = "target" /\ job'[r].at = "queued"
      BY <1>1, <2>2 DEF CommitNodeAtom, After
    <3>3. CASE i <= bookmark
      BY <1>1, <2>1, <2>2, <3>3
    <3>4. CASE i > bookmark
      <4>1. h.state \in Nat /\ h.upto \in Nat /\ bookmark \in Nat
        BY <1>1, NodesAssumption DEF Handlers
      <4>2. i \in input'[r]
        BY <3>1, <3>4, <4>1
      <4> QED
        BY <1>1, <3>2, <4>2 DEF OnItsWay
    <3> QED
      BY <1>1, <3>1, <3>3, <3>4, NodesAssumption DEF Handlers
  <2>3. CASE n = "target"
    <3>1. h.key = NoKey
      <4>1. KeyExpr["target"][r] = NoExpr
        BY <1>1 DEF TargetLoadsAll
      <4>2. resolveDedupeKey("target", r) = NoKey
        BY <4>1 DEF resolveDedupeKey, NoExpr, Nothing
      <4> QED
        BY <1>1, <2>3, <4>2
    <3>2. h.ran
      BY <1>2, <3>1 DEF NodeInv, HandlerInv
    <3>3. i \notin input[r]
      BY <2>3, <3>2 DEF LoadInv
    <3> QED
      BY <2>1, <2>3, <3>3 DEF CommitNodeAtom, BookmarkAfter
  <2>4. CASE n = "action" \/ (n = "tap" /\ ~h.ran)
    BY <2>1, <2>4 DEF CommitNodeAtom, BookmarkAfter
  <2> QED
    BY <1>1, <2>2, <2>3, <2>4 DEF NodeNames
<1> QED
  BY <1>2, <1>3 DEF LoadInv

(***************************************************************************)
(* Every step preserves LoadInv.                                           *)
(***************************************************************************)
LEMMA LoadInvNext ==
  ASSUME NodeInv, LoadInv, TargetLoadsAll, [Next]_vars
  PROVE  LoadInv'
<1>1. h \in Handlers /\ job \in [Runs -> Jobs]
      /\ (h.pc # "idle" => h.run \in Runs /\ job[h.run].at \in {"held", "expired"})
      /\ (h.ran => h.pc = "commit")
  BY HandlerTypes DEF NodeInv, HandlerInv
<1>2. ASSUME NEW r \in Runs, Claim(r)
      PROVE  LoadInv'
  <2>1. \A q \in Runs : job'[q].at = "dead" => job[q].at = "dead"
    BY <1>1, <1>2 DEF Claim, Jobs
  <2>2. SameNodes /\ ~h'.ran
    BY <1>1, <1>2 DEF Claim, SameNodes, IdleHandler, Jobs
  <2>3. NoRecordLost'
    BY <1>2, <2>1, <2>2, LostFrame DEF Claim, ghostVars, LoadInv
  <2> QED
    BY <2>2, <2>3 DEF LoadInv
<1>3. ASSUME NEW r \in Runs, Expire(r)
      PROVE  LoadInv'
  <2>1. SameNodes /\ \A q \in Runs : job'[q].at = "dead" => job[q].at = "dead"
    BY <1>1, <1>3 DEF Expire, SameNodes, Jobs
  <2>2. NoRecordLost'
    BY <1>3, <2>1, LostFrame DEF Expire, ghostVars, LoadInv
  <2>3. h.ran => theNode' = theNode /\ h' = h
    BY <1>1, <1>3, <2>1 DEF Expire, theNode, SameNodes
  <2> QED
    BY <1>3, <2>2, <2>3 DEF LoadInv, Expire, ghostVars
<1>4. CASE LookupDedupe \/ LookupFails \/ nodeEnv \/ GetSingerState
  <2>1. ~h'.ran
    BY <1>1, <1>4 DEF LookupDedupe, LookupFails, nodeEnv, GetSingerState, Handlers
  <2> QED
    BY <1>4, <2>1, LoadHandler
       DEF LookupDedupe, LookupFails, nodeEnv, GetSingerState, ghostVars
<1>5. CASE RunTap \/ RunTarget \/ RunAction
  <2>1. h'.run = h.run
    BY <1>1, <1>5 DEF RunTap, RunTarget, RunAction, Ran, Handlers
  <2>2. theNode = "target" => input[h.run] \subseteq loaded'
    BY <1>5 DEF RunTap, RunTarget, RunAction, Load
  <2> QED
    BY <1>5, <2>1, <2>2, LoadHandler DEF RunTap, RunTarget, RunAction, Load, ghostVars
<1>6. CASE RunFails \/ Crash
  <2>1. ~h'.ran
    <3>1. CASE RunFails
      BY <1>1, <3>1 DEF RunFails, Handlers
    <3>2. CASE Crash
      BY <3>2 DEF Crash, IdleHandler
    <3> QED
      BY <1>6, <3>1, <3>2
  <2>2. loaded \subseteq loaded'
    BY <1>6 DEF RunFails, Crash, Load
  <2> QED
    BY <1>6, <2>1, <2>2, LoadHandler DEF RunFails, Crash
<1>7. CASE CommitNodeAtom
  BY <1>7, LoadCommit
<1>8. CASE CommitRollsBack \/ commitFailed \/ saveFailedContinuation
  <2>1. ~h'.ran
    BY <1>1, <1>8
       DEF CommitRollsBack, commitFailed, saveFailedContinuation, Goto, Return, IdleHandler, Handlers
  <2> QED
    BY <1>1, <1>8, <2>1, LoadHandler
       DEF CommitRollsBack, commitFailed, saveFailedContinuation, Goto, ghostVars
<1>9. CASE Retry
  <2>1. SameNodes /\ \A q \in Runs : job'[q].at = "dead" => job[q].at = "dead"
    BY <1>1, <1>9, RetryQueues DEF Retry, SameNodes, Jobs
  <2>2. ~h'.ran
    BY <1>9 DEF Retry, Return, IdleHandler
  <2>3. NoRecordLost'
    BY <1>9, <2>1, LostFrame DEF Retry, ghostVars, LoadInv
  <2> QED
    BY <2>2, <2>3 DEF LoadInv
<1>10. CASE DeadLetter
  <2>1. fcont[h.run] = job[h.run].node /\ h.run \in Runs
    BY <1>1, <1>10 DEF DeadLetter, NodeInv, HandlerInv, theNode
  <2>2. SameNodes /\ \A q \in Runs : q # h.run => job'[q] = job[q]
    BY <1>1, <1>10 DEF DeadLetter, SameNodes, Jobs
  <2>3. ~h'.ran
    BY <1>10 DEF DeadLetter, Return, IdleHandler
  <2>4. NoRecordLost'
    BY <1>10, <2>1, <2>2, LostFrame DEF DeadLetter, ghostVars, LoadInv
  <2> QED
    BY <2>3, <2>4 DEF LoadInv
<1>11. CASE UNCHANGED nodeVars
  BY <1>11 DEF LoadInv, NoRecordLost, OnItsWay, nodeVars, theNode
<1> QED
  BY <1>2, <1>3, <1>4, <1>5, <1>6, <1>7, <1>8, <1>9, <1>10, <1>11
     DEF Next, RunNode, RecordFailure, vars

(***************************************************************************)
(* The bookmark never gets ahead of the target: every record up to it was  *)
(* loaded, or is in the input of a target that runs or can be rerun.  The  *)
(* hypothesis is needed: a target skipped for its dedupe key loads         *)
(* nothing, and a job that the queue gives up before recordFailure does    *)
(* leaves no continuation.                                                 *)
(***************************************************************************)
THEOREM RecordsAreKept ==
  ASSUME Sealers = {} \/ SecretNames # {}, TargetLoadsAll
  PROVE  Spec => []NoRecordLost
<1>1. Init => LoadInv
  BY DEF Init, LoadInv, IdleHandler, NoRecordLost
<1>2. NodeInv /\ LoadInv /\ [Next]_vars => LoadInv'
  BY LoadInvNext
<1>3. LoadInv => NoRecordLost
  BY DEF LoadInv
<1> QED
  BY <1>1, <1>2, <1>3, NodesInvariance, PTL DEF Spec
=============================================================================
