------------------------------ MODULE McpProofs -----------------------------
(***************************************************************************)
(* ReturnsTheAnswer for any number of clients, any server and any number   *)
(* of messages of its own.                                                 *)
(*                                                                         *)
(* The inductive invariant follows the final request of the client at      *)
(* work: it is written once, it is the only one with the client's last id, *)
(* and an answer with that id that is a result was given to it.            *)
(***************************************************************************)
EXTENDS Mcp, TLAPS

Requests == [call : 1..MaxCalls, id : Nat, method : {"list", "init", "note", "call"},
             meta : BOOLEAN, session : 0..MaxCalls]

Lines == [id : Nat, is : {"error", "none", "init", "list", "call"}]

Clients == [pc : {"idle", "send", "wait", "ok", "failed"}, op : {"call", "discover"},
            mode : Modes, at : {"list", "init", "note", "final"}, id : Nat,
            session : 0..MaxCalls, answer : {"none", "init", "list", "call"}, deaf : BOOLEAN]

McpTypeOK ==
  /\ transport \in {"stdio", "http"} /\ kind \in {"stateless", "classic", "both"}
  /\ alive \in BOOLEAN
  /\ phase \in [0..MaxCalls -> {"fresh", "inited", "ready"}]
  /\ inbox \in Seq(Requests) /\ outbox \in Seq(Lines)
  /\ c \in Clients /\ calls \in 0..MaxCalls /\ own \in Nat
  /\ ran \in [1..MaxCalls -> Nat]

\* The final request has been made.
Sent == c.at = "final" /\ c.pc \in {"wait", "ok", "failed"}

FinalMethod == IF c.op = "call" THEN "call" ELSE "list"

GoodMode == kind # "both" => c.mode = kind

(***************************************************************************)
(* What the client knows of the server at each request, and its counters.  *)
(***************************************************************************)
ClientInv ==
  /\ c.pc # "idle" => calls > 0
  /\ c.session <= calls
  /\ c.at \in {"list", "init"} \/ c.mode = "stateless" => c.session = 0
  /\ c.mode = "stateless" => c.at = "final"
  /\ c.pc # "idle" /\ c.at = "final" => c.mode \in {"stateless", "classic"}
  /\ c.pc = "wait" \/ c.at = "note" => c.id > 0
  /\ \A k \in 1..MaxCalls : k > calls => ran[k] = 0 /\ phase[k] = "fresh"
  /\ transport = "stdio" /\ c.pc # "idle" /\ ~(c.at = "final" /\ c.mode = "classic") =>
       phase[calls] # "ready"

(***************************************************************************)
(* A request of the client at work: only the final one has its method, and *)
(* the client's last id.                                                   *)
(***************************************************************************)
RequestInv(r) ==
  /\ r.call <= calls /\ r.session <= calls
  /\ r.method = "note" <=> r.id = 0
  /\ transport = "stdio" => c.pc # "idle" /\ r.call = calls /\ r.session = calls
  /\ c.pc # "idle" /\ r.call = calls =>
       /\ r.id <= c.id
       /\ r.method = "call" => c.op = "call" /\ Sent
       /\ c.pc = "wait" /\ c.at = "final" /\ r.id = c.id =>
            /\ r.method = FinalMethod /\ (r.meta <=> c.mode # "classic")
            /\ transport = "http" => r.session = c.session
       /\ transport = "stdio" /\ r.method = "note" => c.at = "final" /\ c.mode = "classic"

InboxInv == \A i \in DOMAIN inbox : RequestInv(inbox[i])

(***************************************************************************)
(* A result that the client would take for its final one is that.          *)
(***************************************************************************)
LineInv(l) ==
  /\ l.is # "none" => l.id <= c.id
  /\ /\ c.pc = "wait" /\ c.at = "final" /\ l.is \notin {"none", "error"}
     /\ transport = "http" \/ l.id = c.id
     => /\ l.is = FinalMethod /\ GoodMode
        /\ c.op = "call" => ran[calls] = 1

OutboxInv ==
  /\ transport = "http" /\ c.pc # "wait" => outbox = <<>>
  /\ c.pc = "idle" => outbox = <<>>
  /\ \A i \in DOMAIN outbox : LineInv(outbox[i])

CallOf(r) == r.method = "call" /\ r.call = calls

(***************************************************************************)
(* The tool of the client at work is asked for once, and has run or not.   *)
(***************************************************************************)
CallInv ==
  c.pc # "idle" =>
    /\ ~Sent => ran[calls] = 0
    /\ ran[calls] \in {0, 1}
    /\ \A i \in DOMAIN inbox : CallOf(inbox[i]) => ran[calls] = 0
    /\ \A i, j \in DOMAIN inbox : CallOf(inbox[i]) /\ CallOf(inbox[j]) => i = j

\* No process runs without a client.
AliveInv == alive => c.pc # "idle"

McpInv ==
  /\ McpTypeOK /\ ClientInv /\ InboxInv /\ OutboxInv /\ CallInv /\ AliveInv
  /\ ReturnsTheAnswer

-----------------------------------------------------------------------------
(* Facts about the sequences of messages *)

(***************************************************************************)
(* The requests left when the server has taken one.                        *)
(***************************************************************************)
LEMMA RemoveAtIs ==
  ASSUME NEW S, NEW s \in Seq(S), NEW i \in 1..Len(s)
  PROVE  /\ RemoveAt(s, i) \in Seq(S) /\ Len(RemoveAt(s, i)) = Len(s) - 1
         /\ \A k \in 1..(Len(s) - 1) : RemoveAt(s, i)[k] = IF k < i THEN s[k] ELSE s[k + 1]
<1> DEFINE a == SubSeq(s, 1, i - 1)
           b == SubSeq(s, i + 1, Len(s))
<1>1. a \in Seq(S) /\ Len(a) = i - 1 /\ \A k \in 1..(i - 1) : a[k] = s[k]
  OBVIOUS
<1>2. b \in Seq(S) /\ Len(b) = Len(s) - i /\ \A k \in 1..(Len(s) - i) : b[k] = s[i + k]
  OBVIOUS
<1> HIDE DEF a, b
<1>3. a \o b \in Seq(S)
  BY <1>1, <1>2
<1>4. Len(a \o b) = Len(a) + Len(b)
  <2>1. a \in Seq(S) /\ b \in Seq(S)
    BY <1>1, <1>2
  <2> QED
    BY <2>1
<1>5. Len(a \o b) = Len(s) - 1
  BY <1>1, <1>2, <1>4
<1>6. \A k \in 1..(Len(s) - 1) : (a \o b)[k] = IF k < i THEN s[k] ELSE s[k + 1]
  BY <1>1, <1>2
<1> QED
  BY <1>3, <1>5, <1>6 DEF RemoveAt, a, b

(***************************************************************************)
(* A message is added at the end, and read at the front.                   *)
(***************************************************************************)
LEMMA QueueIs ==
  ASSUME NEW S, NEW s \in Seq(S)
  PROVE  /\ \A e \in S : /\ Append(s, e) \in Seq(S)
                         /\ DOMAIN Append(s, e) = 1..(Len(s) + 1)
                         /\ \A k \in 1..Len(s) : Append(s, e)[k] = s[k]
                         /\ Append(s, e)[Len(s) + 1] = e
         /\ s # <<>> => /\ Tail(s) \in Seq(S) /\ Head(s) \in S /\ Head(s) = s[1]
                        /\ 1 \in DOMAIN s
                        /\ \A k \in DOMAIN Tail(s) : k + 1 \in DOMAIN s /\ Tail(s)[k] = s[k + 1]
         /\ DOMAIN s = 1..Len(s) /\ Len(s) \in Nat
  OBVIOUS

-----------------------------------------------------------------------------
(* A step of the client preserves the invariant *)

(***************************************************************************)
(* The client goes on from an answer, or from an error, to its next        *)
(* request, or ends.                                                       *)
(***************************************************************************)
LEMMA ClientMove ==
  ASSUME McpInv, c.pc = "wait", c' \in Clients,
         UNCHANGED <<serverVars, inbox, calls>>, outbox' \in Seq(Lines),
         \A i \in DOMAIN outbox' : \E j \in DOMAIN outbox : outbox'[i] = outbox[j],
         transport = "http" => outbox' = <<>>,
         c'.op = c.op, c'.id = c.id,
         \/ /\ c'.pc = "send" /\ c.at = "list" /\ c'.at = "init"
            /\ c'.mode = c.mode /\ c'.session = c.session
         \/ /\ c'.pc = "send" /\ c.at = "list" /\ c'.at = "final"
            /\ c'.mode = "stateless" /\ c'.session = c.session
         \/ /\ c'.pc = "send" /\ c.at = "init" /\ c'.at = "note"
            /\ c'.mode = c.mode /\ c'.session \in {0, calls}
         \/ /\ c'.pc = "send" /\ c.at = "note" /\ c'.at = "final"
            /\ c'.mode = "classic" /\ c'.session = c.session
         \/ /\ c'.pc = "failed" /\ c'.at = c.at
            /\ c'.mode = c.mode /\ c'.session = c.session
         \/ /\ c'.pc = "ok" /\ c.at = "final" /\ c'.at = "final"
            /\ c'.mode = c.mode /\ c'.session = c.session
            /\ c'.answer = FinalMethod /\ GoodMode /\ (c.op = "call" => ran[calls] = 1)
  PROVE  McpInv'
<1> USE DEF serverVars
<1>1. McpTypeOK'
  BY DEF McpInv, McpTypeOK
<1>2. c \in Clients /\ calls \in Nat /\ calls > 0
  BY McpAssumption DEF McpInv, McpTypeOK, ClientInv
<1>3. ClientInv'
  BY <1>2 DEF McpInv, ClientInv
<1>4. ASSUME NEW i \in DOMAIN inbox PROVE RequestInv(inbox[i])'
  <2>1. RequestInv(inbox[i])
    BY DEF McpInv, InboxInv
  <2> QED
    BY <2>1 DEF RequestInv, Sent
<1>5. InboxInv'
  BY <1>4 DEF InboxInv, RequestInv, Sent, FinalMethod
<1>6. OutboxInv'
  <2>1. ASSUME NEW i \in DOMAIN outbox' PROVE LineInv(outbox[i])'
    <3>1. PICK j \in DOMAIN outbox : outbox'[i] = outbox[j]
      OBVIOUS
    <3>2. LineInv(outbox[j])
      BY DEF McpInv, OutboxInv
    <3> QED
      BY <3>1, <3>2 DEF LineInv
  <2> QED
    BY <2>1 DEF OutboxInv, LineInv
<1>7. CallInv'
  BY DEF McpInv, CallInv, CallOf, Sent
<1>8. ReturnsTheAnswer'
  BY DEF ReturnsTheAnswer, FinalMethod, GoodMode
<1>9. AliveInv'
  BY DEF AliveInv
<1> QED
  BY <1>1, <1>3, <1>5, <1>6, <1>7, <1>8, <1>9 DEF McpInv

(***************************************************************************)
(* The client gives up the request it waits for.                           *)
(***************************************************************************)
LEMMA SendErrorInv ==
  ASSUME McpInv, c.pc = "wait", SendError,
         UNCHANGED <<serverVars, inbox, calls>>, outbox' \in Seq(Lines),
         \A i \in DOMAIN outbox' : \E j \in DOMAIN outbox : outbox'[i] = outbox[j],
         transport = "http" => outbox' = <<>>
  PROVE  McpInv'
<1>1. c \in Clients
  BY DEF McpInv, McpTypeOK
<1>2. CASE c.at = "list"
  <2>1. c' = [c EXCEPT !.pc = "send", !.at = "init"]
    BY <1>2 DEF SendError
  <2>2. /\ c' \in Clients /\ c'.op = c.op /\ c'.id = c.id /\ c'.mode = c.mode
        /\ c'.session = c.session /\ c'.pc = "send" /\ c'.at = "init"
    BY <1>1, <2>1 DEF Clients
  <2> QED
    BY <1>2, <2>2, ClientMove
<1>3. CASE c.at # "list"
  <2>1. c' = [c EXCEPT !.pc = "failed"]
    BY <1>3 DEF SendError
  <2>2. /\ c' \in Clients /\ c'.op = c.op /\ c'.id = c.id /\ c'.mode = c.mode
        /\ c'.session = c.session /\ c'.pc = "failed" /\ c'.at = c.at
    BY <1>1, <2>1 DEF Clients
  <2> QED
    BY <2>2, ClientMove
<1> QED
  BY <1>2, <1>3

(***************************************************************************)
(* The client takes a line for the answer to the request it waits for.     *)
(***************************************************************************)
LEMMA AnsweredInv ==
  ASSUME McpInv, c.pc = "wait",
         NEW j \in DOMAIN outbox, transport = "http" \/ outbox[j].id = c.id,
         Answered(outbox[j].is),
         UNCHANGED <<serverVars, inbox, calls>>, outbox' \in Seq(Lines),
         \A i \in DOMAIN outbox' : \E k \in DOMAIN outbox : outbox'[i] = outbox[k],
         transport = "http" => outbox' = <<>>
  PROVE  McpInv'
<1> DEFINE is == outbox[j].is
<1>1. /\ c \in Clients /\ calls \in 0..MaxCalls /\ outbox[j] \in Lines
      /\ c.at \in {"list", "init", "note", "final"}
  BY DEF McpInv, McpTypeOK, Clients
<1>2. is \in {"error", "none", "init", "list", "call"}
  BY <1>1 DEF Lines
<1> HIDE DEF is
<1>3. Answered(is)
  BY DEF is
<1>4. CASE SendError
  BY <1>4, SendErrorInv
<1>5. CASE c.at = "list" /\ is # "error"
  <2>1. c' = [c EXCEPT !.pc = "send", !.at = "final", !.mode = "stateless"]
    BY <1>3, <1>5 DEF Answered
  <2>2. /\ c' \in Clients /\ c'.op = c.op /\ c'.id = c.id /\ c'.mode = "stateless"
        /\ c'.session = c.session /\ c'.pc = "send" /\ c'.at = "final"
    BY <1>1, <2>1 DEF Clients, Modes
  <2> QED
    BY <1>5, <2>2, ClientMove
<1>6. CASE c.at = "init" /\ is # "error"
  <2>1. PICK session \in {0, calls} : c' = [c EXCEPT !.pc = "send", !.at = "note", !.session = session]
    BY <1>3, <1>6 DEF Answered
  <2>2. session \in 0..MaxCalls
    BY <1>1, McpAssumption
  <2>3. /\ c' \in Clients /\ c'.op = c.op /\ c'.id = c.id /\ c'.mode = c.mode
        /\ c'.session \in {0, calls} /\ c'.pc = "send" /\ c'.at = "note"
    BY <1>1, <2>1, <2>2 DEF Clients
  <2> QED
    BY <1>6, <2>3, ClientMove
<1>7. CASE c.at = "note"
  <2>1. c' = [c EXCEPT !.pc = "send", !.at = "final", !.mode = "classic"]
    BY <1>3, <1>7 DEF Answered
  <2>2. /\ c' \in Clients /\ c'.op = c.op /\ c'.id = c.id /\ c'.mode = "classic"
        /\ c'.session = c.session /\ c'.pc = "send" /\ c'.at = "final"
    BY <1>1, <2>1 DEF Clients, Modes
  <2> QED
    BY <1>7, <2>2, ClientMove
<1>8. CASE c.at = "final" /\ is \notin {"error", "none"}
  <2>1. c' = [c EXCEPT !.pc = "ok", !.answer = is]
    BY <1>3, <1>8 DEF Answered
  <2>2. /\ c' \in Clients /\ c'.op = c.op /\ c'.id = c.id /\ c'.mode = c.mode
        /\ c'.session = c.session /\ c'.pc = "ok" /\ c'.at = "final" /\ c'.answer = is
    BY <1>1, <1>2, <1>8, <2>1 DEF Clients
  <2>3. is = FinalMethod /\ GoodMode /\ (c.op = "call" => ran[calls] = 1)
    BY <1>8 DEF McpInv, OutboxInv, LineInv, is
  <2> QED
    BY <1>8, <2>2, <2>3, ClientMove
<1>9. CASE \/ c.at \in {"list", "init"} /\ is = "error"
           \/ c.at = "final" /\ is \in {"error", "none"}
  <2>1. SendError
    BY <1>3, <1>9 DEF Answered
  <2> QED
    BY <1>4, <2>1
<1> QED
  BY <1>1, <1>5, <1>6, <1>7, <1>8, <1>9

(***************************************************************************)
(* A client begins: nothing that is under way is of it.                    *)
(***************************************************************************)
LEMMA BeginInv ==
  ASSUME McpInv, NEW op \in {"call", "discover"}, NEW mode \in Modes, Begin(op, mode)
  PROVE  McpInv'
<1>1. /\ calls \in 0..MaxCalls /\ calls' = calls + 1 /\ calls' \in 1..MaxCalls /\ c.pc = "idle"
      /\ UNCHANGED <<transport, kind, phase, own, ran, inbox, outbox>> /\ alive' \in BOOLEAN
  BY McpAssumption DEF Begin, McpInv, McpTypeOK
<1>2. IdleClient \in Clients
  BY McpAssumption DEF IdleClient, Clients, Modes
<1>3. /\ c' \in Clients /\ c'.pc = "send" /\ c'.op = op /\ c'.mode = mode /\ c'.id = 0
      /\ c'.session = 0 /\ c'.at = FirstOf(mode)
  <2>1. FirstOf(mode) \in {"list", "init", "final"}
    BY DEF FirstOf, Modes
  <2> QED
    BY <1>2, <2>1 DEF Begin, IdleClient, Clients
<1>4. /\ mode = "stateless" => c'.at = "final"
      /\ mode = "classic" => c'.at = "init"
      /\ mode = "unknown" => c'.at = "list"
  BY <1>3 DEF FirstOf
<1>5. McpTypeOK'
  BY <1>1, <1>3, McpAssumption DEF McpInv, McpTypeOK
<1>6. ran[calls'] = 0 /\ phase[calls'] = "fresh"
  BY <1>1 DEF McpInv, ClientInv
<1>7. ClientInv'
  BY <1>1, <1>3, <1>4, <1>6 DEF McpInv, ClientInv, Modes
<1>8. ASSUME NEW i \in DOMAIN inbox
      PROVE  /\ transport = "http" /\ inbox[i].call # calls'
             /\ inbox[i].call <= calls' /\ inbox[i].session <= calls'
             /\ inbox[i].method = "note" <=> inbox[i].id = 0
  <2>1. inbox[i] \in Requests /\ inbox[i].call \in Nat /\ inbox[i].session \in Nat
    <3>1. inbox[i] \in Requests
      BY DEF McpInv, McpTypeOK
    <3> QED
      BY <3>1, McpAssumption DEF Requests
  <2>2. RequestInv(inbox[i]) /\ transport \in {"stdio", "http"}
    BY DEF McpInv, McpTypeOK, InboxInv
  <2> QED
    BY <1>1, <2>1, <2>2 DEF RequestInv
<1>9. InboxInv'
  BY <1>1, <1>8 DEF InboxInv, RequestInv
<1>10. OutboxInv'
  BY <1>1 DEF McpInv, OutboxInv
<1>11. CallInv'
  BY <1>1, <1>6, <1>8 DEF CallInv, CallOf
<1>12. ReturnsTheAnswer' /\ AliveInv'
  BY <1>3 DEF ReturnsTheAnswer, AliveInv
<1> QED
  BY <1>5, <1>7, <1>9, <1>10, <1>11, <1>12 DEF McpInv

(***************************************************************************)
(* The request at hand is well formed.                                     *)
(***************************************************************************)
LEMMA RequestType ==
  ASSUME McpInv, c.pc = "send"
  PROVE  /\ Request \in Requests
         /\ Request.call = calls /\ Request.id = (IF c.at = "note" THEN 0 ELSE c.id + 1)
         /\ Request.method =
              (IF c.at = "final" THEN IF c.op = "call" THEN "call" ELSE "list" ELSE c.at)
         /\ Request.meta <=> (c.at = "list" \/ (c.at = "final" /\ c.mode # "classic"))
         /\ Request.session = (IF transport = "stdio" THEN calls ELSE c.session)
<1>1. calls \in 1..MaxCalls /\ c \in Clients
  BY McpAssumption DEF McpInv, McpTypeOK, ClientInv
<1>2. /\ calls \in 0..MaxCalls /\ c.session \in 0..MaxCalls /\ c.id + 1 \in Nat
      /\ c.at \in {"list", "init", "note", "final"}
  BY <1>1, McpAssumption DEF Clients
<1>3. Request \in Requests
  BY <1>1, <1>2 DEF Request, Requests
<1> QED
  BY <1>3 DEF Request

(***************************************************************************)
(* A request is written (or lost, to a dead process), and the client goes  *)
(* on to wait, or after `initialized` over stdio to the final request.     *)
(***************************************************************************)
LEMMA WriteInv ==
  ASSUME McpInv, c.pc = "send", UNCHANGED <<serverVars, outbox, calls>>,
         inbox' = inbox \/ inbox' = Append(inbox, Request),
         c' \in Clients, c'.op = c.op, c'.session = c.session,
         \/ /\ c'.pc = "wait" /\ c'.at = c.at /\ c'.mode = c.mode
            /\ c'.id = (IF c.at = "note" THEN c.id ELSE c.id + 1)
            /\ c.at = "note" => transport = "http"
         \/ /\ transport = "stdio" /\ c.at = "note"
            /\ c'.pc = "send" /\ c'.at = "final" /\ c'.mode = "classic" /\ c'.id = c.id
  PROVE  McpInv'
<1> USE DEF serverVars
<1>1. /\ calls \in 1..MaxCalls /\ calls \in Nat /\ c \in Clients /\ c.id \in Nat
      /\ inbox \in Seq(Requests) /\ outbox \in Seq(Lines) /\ transport \in {"stdio", "http"}
      /\ c.session \in Nat /\ c.at \in {"list", "init", "note", "final"}
  BY McpAssumption DEF McpInv, McpTypeOK, ClientInv, Clients
<1>2. inbox' \in Seq(Requests)
  <2>1. Request \in Requests
    BY RequestType
  <2>2. Append(inbox, Request) \in Seq(Requests)
    BY <1>1, <2>1
  <2> QED
    BY <1>1, <2>2
<1>3. McpTypeOK'
  BY <1>2 DEF McpInv, McpTypeOK
<1>4. ClientInv'
  BY <1>1 DEF McpInv, ClientInv
<1>5. ASSUME NEW i \in DOMAIN inbox'
      PROVE  \/ i \in DOMAIN inbox /\ inbox'[i] = inbox[i]
             \/ inbox' = Append(inbox, Request) /\ i = Len(inbox) + 1 /\ inbox'[i] = Request
  <2>1. CASE inbox' = inbox
    BY <2>1
  <2>2. CASE inbox' = Append(inbox, Request)
    <3>1. i \in 1..(Len(inbox) + 1) /\ DOMAIN inbox = 1..Len(inbox) /\ Len(inbox) \in Nat
      BY <1>1, <2>2, RequestType, QueueIs
    <3>2. i \in 1..Len(inbox) \/ i = Len(inbox) + 1
      BY <3>1
    <3> QED
      BY <1>1, <2>2, <3>1, <3>2, RequestType, QueueIs
  <2> QED
    BY <2>1, <2>2
<1>6. ASSUME NEW i \in DOMAIN inbox' PROVE RequestInv(inbox[i])'
  <2>1. CASE i \in DOMAIN inbox /\ inbox'[i] = inbox[i]
    <3>1. RequestInv(inbox[i]) /\ inbox[i] \in Requests
      BY <1>1, <2>1 DEF McpInv, InboxInv
    <3>2. inbox[i].id \in Nat
      BY <3>1 DEF Requests
    <3> QED
      BY <1>1, <2>1, <3>1, <3>2 DEF RequestInv, Sent, FinalMethod
  <2>2. CASE inbox'[i] = Request
    <3>1. c.at # "final" => ~(c'.pc = "wait" /\ c'.at = "final")
      OBVIOUS
    <3>2. c.session <= calls
      BY DEF McpInv, ClientInv
    <3> QED
      BY <1>1, <2>2, <3>1, <3>2, RequestType DEF RequestInv, Sent, FinalMethod
  <2> QED
    BY <1>5, <2>1, <2>2
<1>7. InboxInv'
  BY <1>6 DEF InboxInv, RequestInv, Sent, FinalMethod
<1>8. OutboxInv'
  <2>1. ASSUME NEW i \in DOMAIN outbox PROVE LineInv(outbox[i])'
    <3>1. LineInv(outbox[i]) /\ outbox[i] \in Lines
      BY <1>1 DEF McpInv, OutboxInv
    <3>2. outbox[i].id \in Nat
      BY <3>1 DEF Lines
    <3>3. transport = "http" => FALSE
      BY DEF McpInv, OutboxInv
    <3> QED
      BY <1>1, <3>1, <3>2, <3>3 DEF LineInv
  <2>2. transport = "http" => outbox = <<>>
    BY DEF McpInv, OutboxInv
  <2> QED
    BY <2>1, <2>2 DEF OutboxInv, LineInv
<1>9. CallInv'
  <2>1. ran[calls] = 0 /\ \A i \in DOMAIN inbox : ~CallOf(inbox[i])
    BY DEF McpInv, CallInv, InboxInv, RequestInv, CallOf, Sent
  <2>2. \A i, j \in DOMAIN inbox' : CallOf(inbox'[i]) /\ CallOf(inbox'[j]) => i = j
    BY <1>5, <2>1 DEF CallOf
  <2> QED
    BY <2>1, <2>2 DEF CallInv, CallOf
<1>10. ReturnsTheAnswer' /\ AliveInv'
  BY DEF ReturnsTheAnswer, AliveInv
<1> QED
  BY <1>3, <1>4, <1>7, <1>8, <1>9, <1>10 DEF McpInv

-----------------------------------------------------------------------------
(* A step of the server preserves the invariant *)

(***************************************************************************)
(* The final request of the client at work is accepted only in a mode the  *)
(* server speaks.                                                          *)
(***************************************************************************)
LEMMA AcceptedMode ==
  ASSUME McpInv, NEW i \in DOMAIN inbox, Accepts(inbox[i]), inbox[i].call = calls,
         c.pc = "wait", c.at = "final", inbox[i].id = c.id
  PROVE  GoodMode
<1>1. /\ RequestInv(inbox[i]) /\ c.mode \in {"stateless", "classic"}
      /\ transport \in {"stdio", "http"} /\ kind \in {"stateless", "classic", "both"}
      /\ (c.mode = "stateless" => c.session = 0)
      /\ (transport = "stdio" /\ c.mode # "classic" => phase[calls] # "ready")
  BY DEF McpInv, McpTypeOK, InboxInv, ClientInv
<1> QED
  BY <1>1 DEF GoodMode, Accepts, RequestInv

(***************************************************************************)
(* The server takes a request, and its answer goes to the client if that   *)
(* waits for it.                                                           *)
(***************************************************************************)
LEMMA HandleInv ==
  ASSUME McpInv, Handle
  PROVE  McpInv'
<1>1. PICK i \in DOMAIN inbox :
        LET r       == inbox[i]
            session == IF transport = "http" THEN r.call ELSE r.session
            awaited == \/ transport = "stdio" /\ r.method # "note"
                       \/ transport = "http" /\ c.pc = "wait" /\ r.call = calls
                          /\ r.id = IF c.at = "note" THEN 0 ELSE c.id
        IN
        /\ transport = "stdio" => alive /\ i = 1
        /\ inbox' = RemoveAt(inbox, i)
        /\ outbox' = IF awaited THEN Append(outbox, [id |-> r.id, is |-> AnswerTo(r)]) ELSE outbox
        /\ phase' = CASE r.method = "init" /\ kind # "stateless" ->
                           [phase EXCEPT ![session] = "inited"]
                      [] r.method = "note" /\ phase[r.session] = "inited" ->
                           [phase EXCEPT ![r.session] = "ready"]
                      [] OTHER -> phase
        /\ ran' = IF r.method = "call" /\ Accepts(r) THEN [ran EXCEPT ![r.call] = @ + 1] ELSE ran
  BY DEF Handle
<1> DEFINE r == inbox[i]
           line == [id |-> r.id, is |-> AnswerTo(r)]
<1>2. /\ inbox \in Seq(Requests) /\ outbox \in Seq(Lines) /\ r \in Requests /\ c \in Clients
      /\ transport \in {"stdio", "http"} /\ calls \in Nat /\ ran \in [1..MaxCalls -> Nat]
      /\ phase \in [0..MaxCalls -> {"fresh", "inited", "ready"}] /\ c.id \in Nat
      /\ kind \in {"stateless", "classic", "both"}
  BY McpAssumption DEF McpInv, McpTypeOK, Clients
<1>3. /\ RequestInv(r) /\ r.call \in 1..MaxCalls /\ r.session \in 0..MaxCalls /\ r.id \in Nat
      /\ r.method \in {"list", "init", "note", "call"} /\ r.call \in Nat /\ r.session \in Nat
      /\ r.call \in 0..MaxCalls /\ r.call <= calls /\ r.session <= calls
  <2>1. RequestInv(r)
    BY DEF McpInv, InboxInv
  <2> QED
    BY <1>2, <2>1, McpAssumption DEF Requests, RequestInv
<1>4. UNCHANGED <<transport, kind, alive, own, c, calls>>
  BY DEF Handle
<1>5. /\ inbox' \in Seq(Requests) /\ DOMAIN inbox' = 1..(Len(inbox) - 1)
      /\ i \in 1..Len(inbox) /\ Len(inbox) \in Nat /\ DOMAIN inbox = 1..Len(inbox)
      /\ \A k \in DOMAIN inbox' : inbox'[k] = IF k < i THEN inbox[k] ELSE inbox[k + 1]
  <2>1. i \in 1..Len(inbox) /\ Len(inbox) \in Nat /\ DOMAIN inbox = 1..Len(inbox)
    BY <1>2
  <2>2. inbox' = RemoveAt(inbox, i)
    BY <1>1
  <2>3. /\ inbox' \in Seq(Requests) /\ Len(inbox') = Len(inbox) - 1
        /\ \A k \in 1..(Len(inbox) - 1) : inbox'[k] = IF k < i THEN inbox[k] ELSE inbox[k + 1]
    BY <1>2, <2>1, <2>2, RemoveAtIs
  <2> QED
    BY <2>1, <2>3
<1>6. \A k \in DOMAIN inbox' : \E j \in DOMAIN inbox : j # i /\ inbox'[k] = inbox[j]
  <2> SUFFICES ASSUME NEW k \in DOMAIN inbox'
               PROVE  \E j \in DOMAIN inbox : j # i /\ inbox'[k] = inbox[j]
    OBVIOUS
  <2>1. CASE k < i
    BY <1>5, <2>1
  <2>2. CASE ~(k < i)
    <3>1. k + 1 \in DOMAIN inbox /\ k + 1 # i /\ inbox'[k] = inbox[k + 1]
      BY <1>5, <2>2
    <3> QED
      BY <3>1
  <2> QED
    BY <2>1, <2>2
<1>7. line \in Lines /\ line.id = r.id /\ line.is = AnswerTo(r)
  <2>1. AnswerTo(r) \in {"error", "none", "init", "list", "call"}
    BY <1>3 DEF AnswerTo
  <2> QED
    BY <1>3, <2>1 DEF Lines
<1>8. \/ outbox' = outbox
      \/ /\ outbox' = Append(outbox, line)
         /\ transport = "http" => c.pc = "wait" /\ r.call = calls
                                  /\ r.id = IF c.at = "note" THEN 0 ELSE c.id
  BY <1>1, <1>2
<1>9. outbox' \in Seq(Lines)
        /\ \A k \in DOMAIN outbox' : \/ k \in DOMAIN outbox /\ outbox'[k] = outbox[k]
                                     \/ outbox' = Append(outbox, line) /\ outbox'[k] = line
  <2>1. CASE outbox' = outbox
    BY <1>2, <2>1
  <2>2. CASE outbox' = Append(outbox, line)
    <3> HIDE DEF line
    <3>1. /\ Append(outbox, line) \in Seq(Lines)
          /\ DOMAIN Append(outbox, line) = 1..(Len(outbox) + 1)
          /\ \A k \in 1..Len(outbox) : Append(outbox, line)[k] = outbox[k]
          /\ Append(outbox, line)[Len(outbox) + 1] = line
          /\ DOMAIN outbox = 1..Len(outbox) /\ Len(outbox) \in Nat
      BY <1>2, <1>7, QueueIs
    <3>2. \A k \in 1..(Len(outbox) + 1) : k \in 1..Len(outbox) \/ k = Len(outbox) + 1
      BY <3>1
    <3> QED
      BY <2>2, <3>1, <3>2
  <2> QED
    BY <1>8, <2>1, <2>2
<1>10. phase' \in [0..MaxCalls -> {"fresh", "inited", "ready"}]
         /\ (\A s \in 0..MaxCalls : s > calls => phase'[s] = phase[s])
         /\ (r.method # "note" => \A s \in 0..MaxCalls : phase'[s] = "ready" => phase[s] = "ready")
  <2>1. CASE r.method = "init" /\ kind # "stateless"
    <3>1. PICK s \in {r.call, r.session} : phase' = [phase EXCEPT ![s] = "inited"]
      BY <1>1, <2>1
    <3> QED
      BY <1>2, <1>3, <3>1
  <2>2. CASE r.method = "note" /\ phase[r.session] = "inited"
    <3>1. phase' = [phase EXCEPT ![r.session] = "ready"]
      BY <1>1, <2>2
    <3> QED
      BY <1>2, <1>3, <2>2, <3>1
  <2>3. CASE ~(r.method = "init" /\ kind # "stateless")
             /\ ~(r.method = "note" /\ phase[r.session] = "inited")
    <3>1. phase' = phase
      BY <1>1, <2>3
    <3> QED
      BY <1>2, <3>1
  <2> QED
    BY <2>1, <2>2, <2>3
<1>11. /\ ran' \in [1..MaxCalls -> Nat]
       /\ \A k \in 1..MaxCalls :
            ran'[k] = IF k = r.call /\ r.method = "call" /\ Accepts(r) THEN ran[k] + 1 ELSE ran[k]
  BY <1>1, <1>2, <1>3
<1>12. McpTypeOK'
  BY <1>4, <1>5, <1>9, <1>10, <1>11 DEF McpInv, McpTypeOK
<1>13. ClientInv'
  <2>1. \A k \in 1..MaxCalls : k > calls => ran'[k] = 0 /\ phase'[k] = "fresh"
    <3>1. \A k \in 1..MaxCalls : k \in 0..MaxCalls /\ (k > calls => k # r.call)
      BY <1>2, <1>3, McpAssumption
    <3> QED
      BY <1>10, <1>11, <3>1 DEF McpInv, ClientInv
  <2>2. transport = "stdio" /\ c.pc # "idle" /\ ~(c.at = "final" /\ c.mode = "classic") =>
          phase'[calls] # "ready"
    BY <1>3, <1>10 DEF McpInv, McpTypeOK, ClientInv, RequestInv
  <2> QED
    BY <1>4, <2>1, <2>2 DEF McpInv, ClientInv
<1>14. InboxInv'
  <2>1. \A j \in DOMAIN inbox : RequestInv(inbox[j])
    BY DEF McpInv, InboxInv
  <2> QED
    BY <1>4, <1>6, <2>1 DEF InboxInv, RequestInv, Sent, FinalMethod
<1>15. c.pc # "idle" /\ r.call = calls /\ r.method = "call" =>
         /\ ran[calls] = 0
         /\ \A j \in DOMAIN inbox : j # i => ~CallOf(inbox[j])
  BY DEF McpInv, CallInv, CallOf
<1>16. CallInv'
  <2> SUFFICES ASSUME c.pc # "idle" PROVE CallInv'
    BY <1>4 DEF CallInv
  <2>1. calls \in 1..MaxCalls
    BY <1>2 DEF McpInv, McpTypeOK, ClientInv
  <2>2. /\ ~Sent => ran[calls] = 0 /\ \A j \in DOMAIN inbox : ~CallOf(inbox[j])
        /\ ran[calls] \in {0, 1}
        /\ \A j \in DOMAIN inbox : CallOf(inbox[j]) => ran[calls] = 0
    BY DEF McpInv, CallInv, InboxInv, RequestInv, CallOf
  <2>3. CASE r.call = calls /\ r.method = "call"
    <3>1. \A k \in DOMAIN inbox' : ~CallOf(inbox'[k])
      BY <1>6, <1>15, <2>3
    <3>2. ran'[calls] \in {0, 1} /\ Sent
      BY <1>11, <1>15, <2>1, <2>2, <2>3 DEF CallOf
    <3> QED
      BY <1>4, <3>1, <3>2 DEF CallInv, CallOf, Sent
  <2>4. CASE ~(r.call = calls /\ r.method = "call")
    <3>1. ran'[calls] = ran[calls]
      BY <1>11, <2>1, <2>4
    <3>2. \A k \in DOMAIN inbox' : CallOf(inbox'[k]) => ran[calls] = 0
      BY <1>6, <2>2
    <3>3. ASSUME NEW k \in DOMAIN inbox', NEW m \in DOMAIN inbox',
                 CallOf(inbox'[k]), CallOf(inbox'[m])
          PROVE  k = m
      <4> DEFINE J(n) == IF n < i THEN n ELSE n + 1
      <4>1. J(k) \in DOMAIN inbox /\ J(m) \in DOMAIN inbox
            /\ inbox'[k] = inbox[J(k)] /\ inbox'[m] = inbox[J(m)]
        BY <1>5
      <4>2. J(k) = J(m)
        BY <3>3, <4>1 DEF McpInv, CallInv
      <4> QED
        BY <1>5, <4>2
    <3> QED
      BY <1>4, <2>2, <3>1, <3>2, <3>3 DEF CallInv, CallOf, Sent
  <2> QED
    BY <2>3, <2>4
<1>17. OutboxInv'
  <2>1. ASSUME NEW k \in DOMAIN outbox, outbox'[k] = outbox[k] PROVE LineInv(outbox[k])'
    <3>1. LineInv(outbox[k])
      BY DEF McpInv, OutboxInv
    <3>2. c.pc = "wait" => calls \in 1..MaxCalls
      BY <1>2 DEF McpInv, McpTypeOK, ClientInv
    <3>3. c.pc = "wait" /\ ran[calls] = 1 => ran'[calls] = 1
      BY <1>11, <1>15, <3>2
    <3> QED
      BY <1>4, <2>1, <3>1, <3>3 DEF LineInv, FinalMethod, GoodMode
  <2>2. ASSUME outbox' = Append(outbox, line), NEW k \in DOMAIN outbox', outbox'[k] = line
        PROVE  LineInv(outbox[k])'
    <3>1. c.pc # "idle" /\ r.call = calls /\ calls \in 1..MaxCalls
      <4>1. CASE transport = "stdio"
        BY <1>3, <4>1 DEF RequestInv
      <4>2. CASE transport = "http"
        <5>1. outbox' # outbox
          BY <1>2, <1>7, <2>2, QueueIs
        <5> QED
          BY <1>3, <1>8, <4>2, <5>1
      <4> QED
        BY <1>2, <1>3, <4>1, <4>2
    <3>2. r.id <= c.id
      BY <1>3, <3>1 DEF RequestInv
    <3>3. ASSUME c.pc = "wait", c.at = "final", AnswerTo(r) \notin {"none", "error"}, r.id = c.id
          PROVE  /\ AnswerTo(r) = FinalMethod /\ GoodMode
                 /\ c.op = "call" => ran'[calls] = 1
      <4>1. r.method = FinalMethod /\ r.method \in {"list", "call"}
        BY <1>3, <3>1, <3>3 DEF RequestInv, FinalMethod
      <4>2. Accepts(r) /\ AnswerTo(r) = r.method
        BY <3>3, <4>1 DEF AnswerTo
      <4>3. GoodMode
        BY <3>1, <3>3, <4>2, AcceptedMode
      <4>4. c.op = "call" => ran'[calls] = 1
        BY <1>11, <1>15, <3>1, <4>1, <4>2 DEF FinalMethod
      <4> QED
        BY <4>1, <4>2, <4>3, <4>4
    <3>4. transport = "http" /\ c.at = "final" => r.id = c.id
      <4>1. outbox' # outbox
        BY <1>2, <1>7, <2>2, QueueIs
      <4> QED
        BY <1>8, <4>1
    <3> QED
      BY <1>4, <1>7, <2>2, <3>2, <3>3, <3>4 DEF LineInv, FinalMethod, GoodMode
  <2>3. /\ transport = "http" /\ c.pc # "wait" => outbox' = <<>>
        /\ c.pc = "idle" => outbox' = <<>>
    BY <1>2, <1>3, <1>8 DEF McpInv, OutboxInv, RequestInv
  <2> QED
    BY <1>4, <1>8, <1>9, <2>1, <2>2, <2>3 DEF OutboxInv, LineInv
<1>18. ReturnsTheAnswer'
  <2>1. c.pc = "ok" => calls \in 1..MaxCalls
    BY <1>2 DEF McpInv, McpTypeOK, ClientInv
  <2>2. c.pc = "ok" /\ ran[calls] = 1 => ran'[calls] = 1
    BY <1>11, <1>15, <2>1
  <2> QED
    BY <1>4, <2>2 DEF McpInv, ReturnsTheAnswer
<1>19. AliveInv'
  BY <1>4 DEF McpInv, AliveInv
<1> QED
  BY <1>12, <1>13, <1>14, <1>16, <1>17, <1>18, <1>19 DEF McpInv

(***************************************************************************)
(* The server sends a message of its own, or its process dies.             *)
(***************************************************************************)
LEMMA ServerInv ==
  ASSUME McpInv, SendsOwn \/ Dies
  PROVE  McpInv'
<1>1. UNCHANGED <<transport, kind, phase, ran, c, calls>> /\ alive' \in BOOLEAN
      /\ own' \in Nat /\ transport = "stdio" /\ outbox \in Seq(Lines)
  <2>1. alive \in BOOLEAN /\ own \in Nat /\ outbox \in Seq(Lines)
    BY DEF McpInv, McpTypeOK
  <2>2. CASE SendsOwn
    BY <2>1, <2>2 DEF SendsOwn
  <2>3. CASE Dies
    BY <2>1, <2>3 DEF Dies
  <2> QED
    BY <2>2, <2>3
<1>2. inbox' \in Seq(Requests)
      /\ \A i \in DOMAIN inbox' : i \in DOMAIN inbox /\ inbox'[i] = inbox[i]
  <2>1. CASE SendsOwn
    BY <2>1 DEF SendsOwn, McpInv, McpTypeOK
  <2>2. CASE Dies
    BY <2>2 DEF Dies
  <2> QED
    BY <2>1, <2>2
<1>3. outbox' \in Seq(Lines)
      /\ \A i \in DOMAIN outbox' : \/ i \in DOMAIN outbox /\ outbox'[i] = outbox[i]
                                   \/ outbox'[i].is = "none"
  <2>1. CASE Dies
    BY <1>1, <2>1 DEF Dies
  <2>2. CASE SendsOwn
    <3>1. PICK id \in Ids : outbox' = Append(outbox, [id |-> id, is |-> "none"])
      BY <2>2 DEF SendsOwn
    <3> DEFINE line == [id |-> id, is |-> "none"]
    <3>2. line \in Lines /\ line.is = "none"
      BY DEF Lines, Ids
    <3> HIDE DEF line
    <3>3. /\ Append(outbox, line) \in Seq(Lines)
          /\ DOMAIN Append(outbox, line) = 1..(Len(outbox) + 1)
          /\ \A k \in 1..Len(outbox) : Append(outbox, line)[k] = outbox[k]
          /\ Append(outbox, line)[Len(outbox) + 1] = line
          /\ DOMAIN outbox = 1..Len(outbox) /\ Len(outbox) \in Nat
      BY <1>1, <3>2, QueueIs
    <3>4. \A k \in 1..(Len(outbox) + 1) : k \in 1..Len(outbox) \/ k = Len(outbox) + 1
      BY <3>3
    <3>5. outbox' = Append(outbox, line)
      BY <3>1 DEF line
    <3> QED
      BY <3>2, <3>3, <3>4, <3>5
  <2> QED
    BY <2>1, <2>2
<1>4. McpTypeOK'
  BY <1>1, <1>2, <1>3 DEF McpInv, McpTypeOK
<1>5. ClientInv' /\ ReturnsTheAnswer'
  BY <1>1 DEF McpInv, ClientInv, ReturnsTheAnswer
<1>6. InboxInv'
  BY <1>1, <1>2 DEF McpInv, InboxInv, RequestInv, Sent, FinalMethod
<1>7. OutboxInv'
  <2>1. ASSUME c.pc = "idle" PROVE outbox' = <<>>
    <3>1. outbox = <<>> /\ inbox \in Seq(Requests)
      BY <2>1 DEF McpInv, McpTypeOK, OutboxInv
    <3>2. ~alive
      BY <2>1 DEF McpInv, AliveInv
    <3> QED
      BY <3>1, <3>2 DEF SendsOwn, Dies
  <2>2. ASSUME NEW i \in DOMAIN outbox' PROVE LineInv(outbox[i])'
    <3>1. CASE i \in DOMAIN outbox /\ outbox'[i] = outbox[i]
      <4>1. LineInv(outbox[i])
        BY <3>1 DEF McpInv, OutboxInv
      <4> QED
        BY <1>1, <3>1, <4>1 DEF LineInv, FinalMethod, GoodMode
    <3>2. CASE outbox'[i].is = "none"
      BY <3>2 DEF LineInv
    <3> QED
      BY <1>3, <3>1, <3>2
  <2> QED
    BY <1>1, <2>1, <2>2 DEF OutboxInv, LineInv
<1>8. CallInv'
  BY <1>1, <1>2 DEF McpInv, CallInv, CallOf, Sent
<1>9. AliveInv'
  BY <1>1 DEF McpInv, AliveInv, SendsOwn, Dies
<1> QED
  BY <1>4, <1>5, <1>6, <1>7, <1>8, <1>9 DEF McpInv

(***************************************************************************)
(* The client is closed.  Over HTTP its requests are still on their way.   *)
(***************************************************************************)
LEMMA CloseInv ==
  ASSUME McpInv, Close
  PROVE  McpInv'
<1>1. /\ UNCHANGED <<transport, kind, phase, own, ran, calls>> /\ alive' = FALSE
      /\ outbox' = <<>> /\ c' = IdleClient /\ calls \in 0..MaxCalls
      /\ inbox' = IF transport = "stdio" THEN <<>> ELSE inbox
  BY DEF Close, McpInv, McpTypeOK
<1>2. c' \in Clients /\ c'.pc = "idle" /\ c'.session = 0 /\ c'.at = "list" /\ c'.mode = "unknown"
  BY <1>1, McpAssumption DEF IdleClient, Clients, Modes
<1>3. McpTypeOK'
  <2>1. inbox \in Seq(Requests)
    BY DEF McpInv, McpTypeOK
  <2>2. inbox' \in Seq(Requests)
    <3>1. CASE transport = "stdio"
      BY <1>1, <3>1
    <3>2. CASE transport # "stdio"
      BY <1>1, <2>1, <3>2
    <3> QED
      BY <3>1, <3>2
  <2>3. outbox' \in Seq(Lines)
    BY <1>1
  <2>4. alive' \in BOOLEAN
    BY <1>1
  <2> QED
    BY <1>1, <1>2, <2>2, <2>3, <2>4 DEF McpInv, McpTypeOK
<1>4. ClientInv'
  BY <1>1, <1>2, McpAssumption DEF McpInv, ClientInv
<1>5. InboxInv'
  BY <1>1, <1>2 DEF McpInv, InboxInv, RequestInv
<1>6. OutboxInv' /\ CallInv' /\ ReturnsTheAnswer' /\ AliveInv'
  BY <1>1, <1>2 DEF OutboxInv, CallInv, ReturnsTheAnswer, AliveInv
<1> QED
  BY <1>3, <1>4, <1>5, <1>6 DEF McpInv

-----------------------------------------------------------------------------

(***************************************************************************)
(* McpInv holds before the first client.                                   *)
(***************************************************************************)
LEMMA McpInvInit == Init => McpInv
<1> SUFFICES ASSUME Init PROVE McpInv
  OBVIOUS
<1>1. c \in Clients /\ c.pc = "idle" /\ c.session = 0 /\ c.at = "list" /\ c.mode = "unknown"
  BY McpAssumption DEF Init, IdleClient, Clients, Modes
<1>2. McpTypeOK
  BY <1>1, McpAssumption DEF Init, McpTypeOK
<1>3. ClientInv
  BY <1>1, McpAssumption DEF Init, ClientInv
<1>4. InboxInv /\ OutboxInv /\ CallInv /\ ReturnsTheAnswer /\ AliveInv
  BY <1>1 DEF Init, InboxInv, OutboxInv, CallInv, ReturnsTheAnswer, AliveInv
<1> QED
  BY <1>2, <1>3, <1>4 DEF McpInv

(***************************************************************************)
(* Every step preserves McpInv.                                            *)
(***************************************************************************)
LEMMA McpInvNext == McpInv /\ [Next]_vars => McpInv'
<1> SUFFICES ASSUME McpInv, [Next]_vars PROVE McpInv'
  OBVIOUS
<1>1. c \in Clients /\ outbox \in Seq(Lines) /\ c.id \in Nat /\ transport \in {"stdio", "http"}
  BY DEF McpInv, McpTypeOK, Clients
<1>2. CASE Call \/ HTTPCall \/ Discover \/ HTTPDiscover
  <2>1. "unknown" \in Modes
    BY DEF Modes
  <2> QED
    BY <1>2, <2>1, BeginInv DEF Call, HTTPCall, Discover, HTTPDiscover
<1>3. CASE send \/ post
  <2>1. inbox' = inbox \/ inbox' = Append(inbox, Request)
    BY <1>3 DEF send, post, Write
  <2>2. /\ c.pc = "send" /\ UNCHANGED <<serverVars, outbox, calls>>
        /\ c.at = "note" => transport = "http"
        /\ c' = [c EXCEPT !.pc = "wait", !.id = IF c.at = "note" THEN @ ELSE @ + 1]
    BY <1>1, <1>3 DEF send, post
  <2>3. PICK id \in Nat : /\ c' = [c EXCEPT !.pc = "wait", !.id = id]
                          /\ id = IF c.at = "note" THEN c.id ELSE c.id + 1
    <3>1. CASE c.at = "note"
      <4>1. c' = [c EXCEPT !.pc = "wait", !.id = c.id]
        BY <1>1, <2>2, <3>1 DEF Clients
      <4> QED
        BY <1>1, <3>1, <4>1
    <3>2. CASE c.at # "note"
      <4>1. c.id + 1 \in Nat
        BY <1>1
      <4>2. c' = [c EXCEPT !.pc = "wait", !.id = c.id + 1]
        BY <1>1, <2>2, <3>2 DEF Clients
      <4> QED
        BY <3>2, <4>1, <4>2
    <3> QED
      BY <3>1, <3>2
  <2>4. /\ c' \in Clients /\ c'.op = c.op /\ c'.session = c.session /\ c'.pc = "wait"
        /\ c'.at = c.at /\ c'.mode = c.mode /\ c'.id = (IF c.at = "note" THEN c.id ELSE c.id + 1)
    BY <1>1, <2>3 DEF Clients
  <2> QED
    BY <2>1, <2>2, <2>4, WriteInv
<1>4. CASE Initialized
  <2>1. inbox' = inbox \/ inbox' = Append(inbox, Request)
    BY <1>4 DEF Initialized, Write
  <2>2. /\ c' \in Clients /\ c'.op = c.op /\ c'.session = c.session /\ c'.pc = "send"
        /\ c'.at = "final" /\ c'.mode = "classic" /\ c'.id = c.id
    BY <1>1, <1>4 DEF Initialized, Clients, Modes
  <2> QED
    BY <1>4, <2>1, <2>2, WriteInv DEF Initialized
<1>5. CASE Receive
  <2>1. /\ c.pc = "wait" /\ outbox # <<>> /\ outbox' = Tail(outbox) /\ transport = "stdio"
        /\ UNCHANGED <<serverVars, inbox, calls>>
    BY <1>5 DEF Receive
  <2>2. /\ outbox' \in Seq(Lines) /\ Head(outbox) = outbox[1] /\ 1 \in DOMAIN outbox
        /\ \A i \in DOMAIN outbox' : \E j \in DOMAIN outbox : outbox'[i] = outbox[j]
    BY <1>1, <2>1, QueueIs
  <2>3. CASE Matches(Head(outbox))
    BY <1>5, <2>1, <2>2, <2>3, AnsweredInv DEF Receive, Matches
  <2>4. CASE ~Matches(Head(outbox))
    <3>1. c' = c
      BY <1>5, <2>4 DEF Receive
    <3>2. \A i \in DOMAIN outbox' : LineInv(outbox'[i])
      BY <2>2 DEF McpInv, OutboxInv
    <3>3. OutboxInv'
      BY <2>1, <3>1, <3>2 DEF OutboxInv, LineInv, FinalMethod, GoodMode, serverVars
    <3> QED
      BY <2>1, <2>2, <3>1, <3>3
         DEF McpInv, McpTypeOK, ClientInv, InboxInv, RequestInv, CallInv, CallOf, Sent,
             ReturnsTheAnswer, FinalMethod, AliveInv, serverVars
  <2> QED
    BY <2>3, <2>4
<1>6. CASE LineTooLong
  <2>1. c' \in Clients /\ \A f \in {"pc", "op", "mode", "at", "id", "session", "answer"} : c'[f] = c[f]
    BY <1>1, <1>6 DEF LineTooLong, Clients
  <2>2. /\ c'.pc = c.pc /\ c'.op = c.op /\ c'.mode = c.mode /\ c'.at = c.at /\ c'.id = c.id
        /\ c'.session = c.session /\ c'.answer = c.answer
    BY <1>1, <1>6 DEF LineTooLong, Clients
  <2> QED
    BY <1>6, <2>1, <2>2
       DEF LineTooLong, McpInv, McpTypeOK, ClientInv, InboxInv, RequestInv, OutboxInv, LineInv,
           CallInv, CallOf, Sent, ReturnsTheAnswer, FinalMethod, GoodMode, AliveInv, serverVars
<1>7. CASE EndOfFile
  BY <1>1, <1>7, SendErrorInv DEF EndOfFile
<1>8. CASE RoundTrip
  <2>1. /\ c.pc = "wait" /\ outbox # <<>> /\ outbox' = <<>> /\ transport = "http"
        /\ UNCHANGED <<serverVars, inbox, calls>> /\ Answered(Head(outbox).is)
    BY <1>8 DEF RoundTrip
  <2>2. Head(outbox) = outbox[1] /\ 1 \in DOMAIN outbox
    BY <1>1, <2>1, QueueIs
  <2> QED
    BY <2>1, <2>2, AnsweredInv
<1>9. CASE RoundTripFails
  BY <1>9, SendErrorInv DEF RoundTripFails
<1>10. CASE UNCHANGED vars
  BY <1>10
     DEF vars, McpInv, McpTypeOK, ClientInv, InboxInv, RequestInv, OutboxInv, LineInv,
         CallInv, CallOf, Sent, ReturnsTheAnswer, FinalMethod, GoodMode, AliveInv, serverVars
<1> QED
  BY <1>2, <1>3, <1>4, <1>5, <1>6, <1>7, <1>8, <1>9, <1>10, HandleInv, ServerInv, CloseInv DEF Next

(***************************************************************************)
(* What a client returns is the server's answer to it, for any number of   *)
(* clients and any server: a call that succeeds ran its tool exactly once, *)
(* and a discovery returns a mode the server speaks.                       *)
(***************************************************************************)
THEOREM AnswersAreTheServers == Spec => []ReturnsTheAnswer
<1>1. McpInv => ReturnsTheAnswer
  BY DEF McpInv
<1> QED
  BY <1>1, McpInvInit, McpInvNext, PTL DEF Spec
=============================================================================
