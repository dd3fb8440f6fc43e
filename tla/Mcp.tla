-------------------------------- MODULE Mcp ---------------------------------
(***************************************************************************)
(* The MCP clients (internal/components/mcp): one tool call of a node, or  *)
(* the discovery of a server's mode and tools, over a server's stdio or    *)
(* over HTTP.                                                              *)
(*                                                                         *)
(* A client makes one JSON-RPC request at a time.  It finds out by a probe *)
(* whether the server speaks the stateless protocol or wants the classic   *)
(* handshake, unless the node's config says.  Requests and answers are     *)
(* messages on their way; the server is not of this repository, and is     *)
(* free to be slow, to die and to send messages of its own.                *)
(***************************************************************************)
EXTENDS Integers, Sequences, SequencesExt

CONSTANTS
  Transports,  \* "stdio", "http": how the server may be reached
  MaxCalls,    \* bound on the calls and discoveries
  MaxOwn       \* bound on the messages the server sends of its own accord

ASSUME McpAssumption ==
  Transports \subseteq {"stdio", "http"} /\ MaxCalls \in Nat /\ MaxOwn \in Nat

VARIABLES
  transport, \* how the server is reached
  kind,      \* what the server speaks
  alive,     \* is the server process running?  (stdio)
  phase,     \* how far the handshake of each session is, on the server's side
  inbox,     \* requests on their way to the server
  outbox,    \* its answers on their way to the client
  c,         \* the client
  calls,     \* clients so far; also names the session of each
  own,       \* messages of the server's own accord so far
  ran        \* how often the tool ran for each client

serverVars == <<transport, kind, alive, phase, own, ran>>
vars == <<serverVars, inbox, outbox, c, calls>>

\* A probe, a handshake, a final request: at most three have an id.
Ids == 0..3

\* at: the request to make or that is under way.  final is tools/call, or
\* tools/list in a discovery.  session: the Mcp-Session-Id, 0 for none.  deaf:
\* the scanner of the process's output has stopped.
IdleClient == [pc |-> "idle", op |-> "call", mode |-> "unknown", at |-> "list",
               id |-> 0, session |-> 0, answer |-> "none", deaf |-> FALSE]

Init ==
  /\ transport \in Transports
  /\ kind \in {"stateless", "classic", "both"}
  /\ alive = FALSE
  /\ phase = [s \in 0..MaxCalls |-> "fresh"]
  /\ inbox = <<>> /\ outbox = <<>>
  /\ c = IdleClient
  /\ calls = 0 /\ own = 0
  /\ ran = [k \in 1..MaxCalls |-> 0]

-----------------------------------------------------------------------------
(* The client *)

\* The next request, by the mode that the node's config or the probe gave.
FirstOf(mode) == CASE mode = "unknown"   -> "list"
                   [] mode = "classic"   -> "init"
                   [] mode = "stateless" -> "final"

Begin(op, mode) ==
  /\ c.pc = "idle"
  /\ calls < MaxCalls
  /\ calls' = calls + 1
  /\ c' = [IdleClient EXCEPT !.pc = "send", !.op = op, !.mode = mode, !.at = FirstOf(mode)]
  /\ alive' = (transport = "stdio")
  /\ UNCHANGED <<transport, kind, phase, own, ran, inbox, outbox>>

Modes == {"unknown", "stateless", "classic"}

\* The node's secrets were resolved; over stdio the server is started for it.
Call == transport = "stdio" /\ \E mode \in Modes : Begin("call", mode)

HTTPCall == transport = "http" /\ \E mode \in Modes : Begin("call", mode)

Discover == transport = "stdio" /\ Begin("discover", "unknown")

HTTPDiscover == transport = "http" /\ Begin("discover", "unknown")

\* The request at hand.  Over stdio the session is the process.
Request ==
  [call    |-> calls,
   id      |-> IF c.at = "note" THEN 0 ELSE c.id + 1,
   method  |-> IF c.at = "final" THEN IF c.op = "call" THEN "call" ELSE "list" ELSE c.at,
   meta    |-> c.at = "list" \/ (c.at = "final" /\ c.mode # "classic"),
   session |-> IF transport = "stdio" THEN calls ELSE c.session]

\* To a dead process nothing gets through.
Write == inbox' = IF alive THEN Append(inbox, Request) ELSE inbox

\* client.send, up to the read.
send ==
  /\ c.pc = "send" /\ transport = "stdio" /\ c.at # "note"
  /\ Write
  /\ c' = [c EXCEPT !.pc = "wait", !.id = @ + 1]
  /\ UNCHANGED <<serverVars, outbox, calls>>

\* `initialized` is written and not waited for.
Initialized ==
  /\ c.pc = "send" /\ transport = "stdio" /\ c.at = "note"
  /\ Write
  /\ c' = [c EXCEPT !.mode = "classic", !.at = "final"]
  /\ UNCHANGED <<serverVars, outbox, calls>>

\* httpClient.send and notify: a POST, and its response is waited for.
post ==
  /\ c.pc = "send" /\ transport = "http"
  /\ inbox' = Append(inbox, Request)
  /\ c' = [c EXCEPT !.pc = "wait", !.id = IF c.at = "note" THEN @ ELSE @ + 1]
  /\ UNCHANGED <<serverVars, outbox, calls>>

\* The probe goes on to the classic handshake; anything else fails the call.
SendError == c' = IF c.at = "list" THEN [c EXCEPT !.pc = "send", !.at = "init"]
                                   ELSE [c EXCEPT !.pc = "failed"]

\* What the caller of send makes of a response.  One without a result and
\* without an error (a request of the server's) passes for a success, until the
\* result has to be decoded.
Answered(is) ==
  CASE c.at = "list"  -> IF is = "error" THEN SendError
                         ELSE c' = [c EXCEPT !.pc = "send", !.at = "final", !.mode = "stateless"]
    [] c.at = "init"  -> IF is = "error" THEN SendError
                         ELSE c' = [c EXCEPT !.pc = "send", !.at = "note",
                                             !.session = IF transport = "http" THEN calls ELSE 0]
    [] c.at = "note"  -> c' = [c EXCEPT !.pc = "send", !.at = "final", !.mode = "classic"]
    [] c.at = "final" -> IF is \in {"error", "none"} THEN SendError
                         ELSE c' = [c EXCEPT !.pc = "ok", !.answer = is]

\* Mutant: the next line is taken for the response.
MatchesAny(line) == TRUE

Matches(line) == line.id = c.id

\* client.send reads lines until it finds the response with its id.
Receive ==
  /\ c.pc = "wait" /\ transport = "stdio" /\ outbox # <<>> /\ ~c.deaf
  /\ outbox' = Tail(outbox)
  /\ IF Matches(Head(outbox)) THEN Answered(Head(outbox).is) ELSE UNCHANGED c
  /\ UNCHANGED <<serverVars, inbox, calls>>

\* A line is longer than a bufio.Scanner takes: it reads no more.
LineTooLong ==
  /\ c.pc = "wait" /\ transport = "stdio" /\ outbox # <<>> /\ ~c.deaf
  /\ c' = [c EXCEPT !.deaf = TRUE]
  /\ UNCHANGED <<serverVars, inbox, outbox, calls>>

\* That, or the process is gone and all it wrote is read.
EndOfFile ==
  /\ c.pc = "wait" /\ transport = "stdio"
  /\ c.deaf \/ (~alive /\ outbox = <<>>)
  /\ SendError
  /\ UNCHANGED <<serverVars, inbox, outbox, calls>>

\* roundtrip: the body of the POST's own response, whatever its id.
RoundTrip ==
  /\ c.pc = "wait" /\ transport = "http" /\ outbox # <<>>
  /\ outbox' = <<>>
  /\ Answered(Head(outbox).is)
  /\ UNCHANGED <<serverVars, inbox, calls>>

\* The response does not come in time, is not a 2xx, or is a stream of several
\* messages, which readSSE joins into what is no JSON.
RoundTripFails ==
  /\ c.pc = "wait" /\ transport = "http"
  /\ c.at = "note" => outbox = <<>>  \* its body is not read
  /\ outbox' = <<>>
  /\ SendError
  /\ UNCHANGED <<serverVars, inbox, calls>>

\* The client is done, or dies with the daemon.  A server process is killed;
\* what was posted is still on its way.
Close ==
  /\ c.pc # "idle"
  /\ c' = IdleClient
  /\ alive' = FALSE
  /\ outbox' = <<>>
  /\ inbox' = IF transport = "stdio" THEN <<>> ELSE inbox
  /\ UNCHANGED <<transport, kind, phase, own, ran, calls>>

-----------------------------------------------------------------------------
(* The server *)

\* tools/list and tools/call need the protocol the server speaks.
Accepts(r) == \/ r.meta /\ kind # "classic"
              \/ kind # "stateless" /\ r.session # 0 /\ phase[r.session] = "ready"

AnswerTo(r) ==
  CASE r.method = "init" -> IF kind = "stateless" THEN "error" ELSE "init"
    [] r.method = "note" -> "none"
    [] r.method \in {"list", "call"} -> IF Accepts(r) THEN r.method ELSE "error"

\* A process reads its requests in order; posted ones arrive in any.  The HTTP
\* answer to a client that has given up goes nowhere.
Handle ==
  \E i \in DOMAIN inbox :
    LET r       == inbox[i]
        session == IF transport = "http" THEN r.call ELSE r.session
        awaited == \/ transport = "stdio" /\ r.method # "note"
                   \/ transport = "http" /\ c.pc = "wait" /\ r.call = calls
                      /\ r.id = IF c.at = "note" THEN 0 ELSE c.id
    IN
    /\ transport = "stdio" => alive /\ i = 1
    /\ inbox' = RemoveAt(inbox, i)
    /\ outbox' = IF awaited THEN Append(outbox, [id |-> r.id, is |-> AnswerTo(r)]) ELSE outbox
    /\ phase' = CASE r.method = "init" /\ kind # "stateless" -> [phase EXCEPT ![session] = "inited"]
                  [] r.method = "note" /\ phase[r.session] = "inited" -> [phase EXCEPT ![r.session] = "ready"]
                  [] OTHER -> phase
    /\ ran' = IF r.method = "call" /\ Accepts(r) THEN [ran EXCEPT ![r.call] = @ + 1] ELSE ran
  /\ UNCHANGED <<transport, kind, alive, own, c, calls>>

\* A notification or request of its own, or a line that is no JSON.
SendsOwn ==
  /\ transport = "stdio" /\ alive
  /\ own < MaxOwn
  /\ own' = own + 1
  /\ \E id \in Ids : outbox' = Append(outbox, [id |-> id, is |-> "none"])
  /\ UNCHANGED <<transport, kind, alive, phase, ran, inbox, c, calls>>

Dies ==
  /\ transport = "stdio" /\ alive
  /\ alive' = FALSE
  /\ inbox' = <<>>
  /\ UNCHANGED <<transport, kind, phase, own, ran, outbox, c, calls>>

Next ==
  \/ Call \/ Discover \/ send \/ Initialized \/ Receive \/ LineTooLong \/ EndOfFile
  \/ HTTPCall \/ HTTPDiscover \/ post \/ RoundTrip \/ RoundTripFails
  \/ Close
  \/ Handle \/ SendsOwn \/ Dies

Spec == Init /\ [][Next]_vars

-----------------------------------------------------------------------------
(***************************************************************************)
(* What a client returns is the server's answer to it: a call that         *)
(* succeeds ran its tool exactly once and returns what that run returned,  *)
(* and a discovery returns the tools and a mode that the server speaks,    *)
(* whatever the server sends of its own accord and whatever was left over  *)
(* by the probe or by earlier clients (Call, Discover, send, roundtrip).   *)
(***************************************************************************)
ReturnsTheAnswer ==
  c.pc = "ok" =>
    /\ c.answer = (IF c.op = "call" THEN "call" ELSE "list")
    /\ c.op = "call" => ran[calls] = 1
    /\ kind # "both" => c.mode = kind
=============================================================================
