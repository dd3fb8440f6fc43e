------------------------------ MODULE Secrets -------------------------------
(***************************************************************************)
(* Secret resolution (internal/components/secret): the resolver, its three *)
(* providers, and `servitor secret seal`, which writes the on-box store    *)
(* while the daemon reads it.                                              *)
(*                                                                         *)
(* A value is its version, 0 for none.  A write of a file is two steps,    *)
(* since os.WriteFile empties it first.  A node's read of the key and of   *)
(* the value it opens is one step: a whole key is never replaced by a      *)
(* single sealer, and without one the read fails at either file.           *)
(***************************************************************************)
EXTENDS Integers, Sequences

CONSTANTS
  SecretNames,  \* the declared secrets
  Source,       \* Source[s]: the declared source of s
  FirstValue,   \* FirstValue[s]: the value of an env or varlock secret at first
  Sealers,      \* processes that run `servitor secret seal`
  MaxVersion,   \* bound on the versions of a value
  MaxSeals      \* bound on the seals

ASSUME SecretsAssumption ==
  /\ Source \in [SecretNames -> {"env", "varlock", "onbox"}]
  /\ MaxVersion \in Nat \ {0} /\ MaxSeals \in Nat
  /\ FirstValue \in [SecretNames -> 0..MaxVersion]

VARIABLES
  source,   \* the value each env or varlock secret has outside the daemon
  up,       \* does the varlock command work?
  environ,  \* the environment the daemon was started with
  once,     \* VarlockProvider: "new", "loaded" or "failed"
  vals,     \* VarlockProvider's local copy
  keyFile,  \* the on-box store's key file: none, empty, or with a key
  sealFile, \* the on-box store's values: none, empty, or sealed under a key
  sl,       \* the sealers
  seals,    \* seals so far; also numbers the keys and values they make
  pushed    \* what the latest seal of each secret left there, 0 if it was cut

secretVars == <<source, up, environ, once, vals, keyFile, sealFile, sl, seals, pushed>>

Values == 0..MaxVersion

NoSealFile == [is |-> "none", key |-> 0, value |-> 0]

IdleSealer == [pc |-> "idle", name |-> CHOOSE s \in SecretNames : TRUE, key |-> 0, value |-> 0]

SecretsTypeOK ==
  /\ source \in [SecretNames -> Values] /\ up \in BOOLEAN
  /\ environ \in [SecretNames -> Values]
  /\ once \in {"new", "loaded", "failed"} /\ vals \in [SecretNames -> Values]
  /\ keyFile \in [is : {"none", "empty", "whole"}, key : 0..MaxSeals]
  /\ sealFile \in [SecretNames -> [is : {"none", "empty", "whole"},
                                   key : 0..MaxSeals, value : 0..MaxSeals]]
  /\ sl \in [Sealers -> [pc : {"idle", "loadKey", "openKey", "writeKey", "openValue", "writeValue"},
                         name : SecretNames, key : 0..MaxSeals, value : 0..MaxSeals]]
  /\ seals \in 0..MaxSeals
  /\ pushed \in [SecretNames -> 0..MaxSeals]

\* An on-box store with a key; its value files are whole or, where the command
\* was killed, empty or not there.  (Key and value have the number 0.)
Store(is) ==
  /\ keyFile = [is |-> "whole", key |-> 0]
  /\ sealFile = [s \in SecretNames |->
       IF Source[s] = "onbox" THEN [NoSealFile EXCEPT !.is = is] ELSE NoSealFile]

\* The daemon has just started.
SecretsInit ==
  /\ source = FirstValue
  /\ up = TRUE
  /\ environ = source
  /\ once = "new" /\ vals = [s \in SecretNames |-> 0]
  /\ \/ keyFile = [is |-> "none", key |-> 0] /\ sealFile = [s \in SecretNames |-> NoSealFile]
     \/ \E is \in {"none", "empty", "whole"} : Store(is)
  /\ sl = [x \in Sealers |-> IdleSealer]
  /\ seals = 0
  /\ pushed = [s \in SecretNames |-> 0]

-----------------------------------------------------------------------------
(* Providers *)

\* What a provider returns: a value, or how it failed.
Found(v) == IF v = 0 THEN [is |-> "missing", value |-> 0] ELSE [is |-> "value", value |-> v]
Failure(how) == [is |-> how, value |-> 0]

EnvResolve(s) == Found(environ[s])

\* sync.Once: the first call loads, for the life of the process, also a failure.
onceNext == IF once # "new" THEN once ELSE IF up THEN "loaded" ELSE "failed"
valsNext == IF once = "new" /\ up THEN source ELSE vals

VarlockResolve(s) ==
  IF onceNext = "failed" THEN Failure("unreachable") ELSE Found(valsNext[s])

\* Key, value file and decryption, in this order.  Only the key a value was
\* sealed under opens it.
OnBoxResolve(s) ==
  IF keyFile.is = "none" THEN Failure("unreachable")
  ELSE IF sealFile[s].is = "none" THEN Failure("missing")
  ELSE IF /\ keyFile.is = "whole" /\ sealFile[s].is = "whole"
          /\ sealFile[s].key = keyFile.key
       THEN [is |-> "value", value |-> sealFile[s].value]
       ELSE Failure("stale")

ProviderResolve(s) ==
  CASE Source[s] = "env"     -> EnvResolve(s)
    [] Source[s] = "varlock" -> VarlockResolve(s)
    [] Source[s] = "onbox"   -> OnBoxResolve(s)

\* Resolver.Resolve for a node's secrets, in their order: the first answer that
\* is neither a value nor missing, or else missing if any is, or else ok.
Resolve(names) ==
  LET answers == [i \in DOMAIN names |-> ProviderResolve(names[i]).is]
      errors  == {i \in DOMAIN names : answers[i] \in {"unreachable", "stale"}}
  IN  IF errors # {} THEN answers[CHOOSE i \in errors : \A j \in errors : i <= j]
      ELSE IF \E i \in DOMAIN names : answers[i] = "missing" THEN "missing"
      ELSE "ok"

\* The resolver asks the providers up to the first error.
Asked(names) ==
  {names[i] : i \in {i \in DOMAIN names :
     \A j \in 1..(i - 1) : ProviderResolve(names[j]).is \in {"value", "missing"}}}

\* ... and a varlock secret among those makes the provider load.
LoadsVarlock(names) ==
  LET asks == \E s \in Asked(names) : Source[s] = "varlock" IN
  /\ once' = IF asks THEN onceNext ELSE once
  /\ vals' = IF asks THEN valsNext ELSE vals

-----------------------------------------------------------------------------
(* What changes outside the daemon *)

\* A value is supplied or replaced where env and varlock get it.
Provide(s) ==
  /\ Source[s] = "env" \/ (Source[s] = "varlock" /\ once = "new")
  /\ source[s] < MaxVersion
  /\ source' = [source EXCEPT ![s] = @ + 1]
  /\ UNCHANGED <<up, environ, once, vals, keyFile, sealFile, sl, seals, pushed>>

\* The varlock store goes down or comes back.  It matters until it is loaded.
ToggleVarlock ==
  /\ once = "new"
  /\ up' = ~up
  /\ UNCHANGED <<source, environ, once, vals, keyFile, sealFile, sl, seals, pushed>>

\* A new process: its environment is read again, and varlock is not loaded.
SecretsRestart ==
  /\ environ' = source
  /\ once' = "new"
  /\ vals' = [s \in SecretNames |-> 0]
  /\ UNCHANGED <<source, up, keyFile, sealFile, sl, seals, pushed>>

-----------------------------------------------------------------------------
(* SealOnBox, run by x *)

SGoto(x, from, to) == sl[x].pc = from /\ sl' = [sl EXCEPT ![x].pc = to]

SealAsk(x) ==
  /\ sl[x].pc = "idle"
  /\ seals < MaxSeals
  /\ seals' = seals + 1
  /\ \E s \in SecretNames :
       /\ Source[s] = "onbox"
       /\ sl' = [sl EXCEPT ![x] = [pc |-> "loadKey", name |-> s, key |-> 0, value |-> seals']]
       /\ pushed' = [pushed EXCEPT ![s] = 0]
  /\ UNCHANGED <<source, up, environ, once, vals, keyFile, sealFile>>

\* Mutant: the value is sealed under a key that is not the store's.
LoadKeyIgnored(x) ==
  /\ sl[x].pc = "loadKey"
  /\ sl' = [sl EXCEPT ![x].pc = IF keyFile.is = "none" THEN "openKey" ELSE "openValue",
                      ![x].key = seals + 1]
  /\ UNCHANGED <<source, up, environ, once, vals, keyFile, sealFile, seals, pushed>>

\* loadOrCreateKey and encrypt.  A key file that a dying sealer left empty is
\* loaded as it is, and then aes.NewCipher refuses it.
loadOrCreateKey(x) ==
  /\ sl[x].pc = "loadKey"
  /\ sl' = CASE keyFile.is = "none"  -> [sl EXCEPT ![x].pc = "openKey", ![x].key = seals]
             [] keyFile.is = "whole" -> [sl EXCEPT ![x].pc = "openValue", ![x].key = keyFile.key]
             [] keyFile.is = "empty" -> [sl EXCEPT ![x] = IdleSealer]
  /\ UNCHANGED <<source, up, environ, once, vals, keyFile, sealFile, seals, pushed>>

OpenKey(x) ==
  /\ SGoto(x, "openKey", "writeKey")
  /\ keyFile' = [is |-> "empty", key |-> 0]
  /\ UNCHANGED <<source, up, environ, once, vals, sealFile, seals, pushed>>

WriteKey(x) ==
  /\ SGoto(x, "writeKey", "openValue")
  /\ keyFile' = [is |-> "whole", key |-> sl[x].key]
  /\ UNCHANGED <<source, up, environ, once, vals, sealFile, seals, pushed>>

OpenValue(x) ==
  /\ SGoto(x, "openValue", "writeValue")
  /\ sealFile' = [sealFile EXCEPT ![sl[x].name] = [NoSealFile EXCEPT !.is = "empty"]]
  /\ UNCHANGED <<source, up, environ, once, vals, keyFile, seals, pushed>>

WriteValue(x) ==
  LET sealed == [is |-> "whole", key |-> sl[x].key, value |-> sl[x].value] IN
  /\ sl[x].pc = "writeValue"
  /\ sl' = [sl EXCEPT ![x] = IdleSealer]
  /\ sealFile' = [sealFile EXCEPT ![sl[x].name] = sealed]
  /\ pushed' = [pushed EXCEPT ![sl[x].name] = sl[x].value]
  /\ UNCHANGED <<source, up, environ, once, vals, keyFile, seals>>

\* The command is killed.
SealDies(x) ==
  /\ sl[x].pc # "idle"
  /\ sl' = [sl EXCEPT ![x] = IdleSealer]
  /\ UNCHANGED <<source, up, environ, once, vals, keyFile, sealFile, seals, pushed>>

SealOnBox(x) ==
  SealAsk(x) \/ loadOrCreateKey(x) \/ OpenKey(x) \/ WriteKey(x) \/ OpenValue(x) \/ WriteValue(x)

SecretsStep ==
  \/ \E s \in SecretNames : Provide(s)
  \/ ToggleVarlock
  \/ \E x \in Sealers : SealOnBox(x) \/ SealDies(x)

\* A node is given one of the secrets, or the daemon is restarted.
SecretsNext ==
  \/ SecretsStep
  \/ /\ \E s \in SecretNames : LoadsVarlock(<<s>>)
     /\ UNCHANGED <<source, up, environ, keyFile, sealFile, sl, seals, pushed>>
  \/ SecretsRestart

SecretsSpec == SecretsInit /\ [][SecretsNext]_secretVars

-----------------------------------------------------------------------------
(***************************************************************************)
(* Once `servitor secret seal` has returned, every node that resolves the  *)
(* secret is given that value until the next seal of it begins, whatever   *)
(* other secrets are sealed meanwhile and wherever those commands die      *)
(* (SealOnBox, OnBoxProvider.Resolve).                                     *)
(***************************************************************************)
PushedValueServed ==
  \A s \in SecretNames :
    pushed[s] # 0 => OnBoxResolve(s) = [is |-> "value", value |-> pushed[s]]
=============================================================================
