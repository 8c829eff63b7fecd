------------------------------ MODULE LocalRpc ------------------------------
(***************************************************************************)
(* Requests over the local socket: the MCP server and the command line     *)
(* (mcp.rs, commands.rs, client.rs), the client and server ends of a       *)
(* connection (ipc.rs), the frames between them (protocol.rs), and the     *)
(* accept loop with its limit on workers (agent_broker.rs).  A client      *)
(* keeps one connection open as its session while it makes calls; the      *)
(* application may crash at any step and be started again.  What a request *)
(* does inside the broker is RunBroker's subject: here a Run is admitted   *)
(* or refused, and its command starts and ends.                            *)
(***************************************************************************)
EXTENDS Naturals, FiniteSets

CONSTANTS
  Clients,      \* MCP and command line processes
  None,         \* no connection
  MaxCalls,     \* bound on the calls of a client
  MaxConns,     \* bound on the connections of a behaviour
  MaxCrashes,   \* bound on the crashes of the application
  Used,         \* bounds of a behaviour: the calls and crashes it starts without,
                \* and whether its streams fail although both ends are there
  MaxSessions,  \* MAX_TRACKED_SESSIONS
  Spare         \* MAX_CONNECTION_WORKERS - MAX_TRACKED_SESSIONS

ASSUME LimitsAssumption ==
  /\ {MaxCalls, MaxConns, MaxCrashes, MaxSessions, Spare} \subseteq Nat
  /\ Used \subseteq [calls : [Clients -> 0 .. MaxCalls], crashes : 0 .. MaxCrashes,
                     faulty : BOOLEAN]
  /\ Spare > 2 /\ None \notin 1 .. MaxConns

VARIABLES
  client,    \* what each client process is doing
  conn,      \* both ends of every connection made so far
  server,    \* whether the application serves, how often it crashed, and
             \* whether streams may fail
  tracked,   \* the session connection of each client the broker tracks
  outcome,   \* what each call was told
  started    \* how often the command of each call was started

vars == <<client, conn, server, tracked, outcome, started>>

Methods == {"Status", "List", "Lock", "Run"}
Conns == 1 .. Cardinality(DOMAIN conn)

\* The server end: waiting to be accepted, its request being read, handled,
\* waiting for the user to unlock, allowed, admitted as the active run, its
\* command started, answered, held as a session, and closed.
Ends == {"backlog", "reading", "handling", "prompt", "ready", "active",
         "started", "reply", "held", "closed"}

ActiveRun == {"active", "started"}

\* What a call reports.  "service" is an error the broker gave as an answer.
Outcomes == {"none", "refused", "ok", "service", "not_started", "unknown",
             "not_applicable"}

TypeOK ==
  /\ client \in [Clients ->
       [pc : {"idle", "open", "opening", "call", "calling", "dead"},
        method : Methods, calls : 0 .. MaxCalls,
        lease : {None} \cup Conns, at : {None} \cup Conns]]
  /\ \A c \in Clients :
       (client[c].at # None) = (client[c].pc \in {"opening", "calling"})
  /\ DOMAIN conn = Conns
  /\ \A i \in Conns : conn[i] \in
       [by : Clients, call : 1 .. MaxCalls, ask : Methods \cup {"SessionOpen"},
        mine : BOOLEAN, theirs : Ends, sent : {"nothing", "whole", "bad"},
        answer : {"none", "ok", "error"}, got : {"none", "ok", "error"},
        cancelled : BOOLEAN]
  /\ server \in [up : BOOLEAN, crashes : 0 .. MaxCrashes, faulty : BOOLEAN]
  /\ tracked \in [Clients -> {None} \cup Conns]
  /\ outcome \in [Clients -> [1 .. MaxCalls -> Outcomes]]
  /\ started \in [Clients -> [1 .. MaxCalls -> Nat]]

Init ==
  /\ \E used \in Used :
       /\ client = [c \in Clients |->
                      [pc |-> "idle", method |-> "Status", calls |-> used.calls[c],
                       lease |-> None, at |-> None]]
       /\ server = [up |-> TRUE, crashes |-> used.crashes, faulty |-> used.faulty]
  /\ conn = << >>
  /\ tracked = [c \in Clients |-> None]
  /\ outcome = [c \in Clients |-> [n \in 1 .. MaxCalls |-> "none"]]
  /\ started = [c \in Clients |-> [n \in 1 .. MaxCalls |-> 0]]

-----------------------------------------------------------------------------
(* The client: mcp.rs call_tool, client.rs, LocalClient::exchange.         *)

NeedsSession(method) == method \in {"Run", "List"}

\* LocalSession::is_connected: nothing to read and not closed by the server.
Connected(i) == conn[i].theirs # "closed"

FailureMutant(c) ==
  IF client[c].method = "Run" THEN "not_started" ELSE "not_applicable"

\* local_tool_error: what is known of the execution when an exchange fails.
Failure(c) ==
  CASE client[c].pc \in {"open", "opening"} -> "not_started"
    [] client[c].pc \in {"call", "calling"} /\ client[c].method = "Run" -> "unknown"
    [] OTHER -> "not_applicable"

Ended(c, result) ==
  outcome' = [outcome EXCEPT ![c][client[c].calls] = result]

\* A message that is not JSON, not a call, or has arguments that do not parse
\* is answered without contacting the application.
CallRefused(c) ==
  /\ client[c].pc = "idle" /\ client[c].calls < MaxCalls
  /\ client' = [client EXCEPT ![c].calls = @ + 1]
  /\ outcome' = [outcome EXCEPT ![c][client[c].calls + 1] = "refused"]
  /\ UNCHANGED <<conn, server, tracked, started>>

\* A call: Run and List first need a session that is still connected.
Call(c, method) ==
  LET lost == client[c].lease # None /\ ~ Connected(client[c].lease)
      kept == IF NeedsSession(method) /\ lost THEN None ELSE client[c].lease
  IN  /\ client[c].pc = "idle" /\ client[c].calls < MaxCalls
      /\ client' = [client EXCEPT ![c] =
           [@ EXCEPT !.pc = IF NeedsSession(method) /\ kept = None
                            THEN "open" ELSE "call",
                     !.method = method, !.calls = client[c].calls + 1,
                     !.lease = kept]]
      /\ conn' = IF kept # client[c].lease
                 THEN [conn EXCEPT ![client[c].lease].mine = FALSE] ELSE conn
      /\ UNCHANGED <<server, tracked, outcome, started>>

\* Connect to the endpoint and write the frame; or nobody listens there.
Exchange(c) ==
  /\ client[c].pc \in {"open", "call"} /\ server.up
  /\ Cardinality(Conns) < MaxConns
  /\ \E sent \in {"whole", "bad"} :
       LET i == Cardinality(Conns) + 1
           new == [by |-> c, call |-> client[c].calls, mine |-> TRUE,
                   ask |-> IF client[c].pc = "open" THEN "SessionOpen"
                           ELSE client[c].method,
                   theirs |-> "backlog", sent |-> sent, answer |-> "none",
                   got |-> "none", cancelled |-> FALSE]
       IN  /\ conn' = [j \in 1 .. i |-> IF j = i THEN new ELSE conn[j]]
           /\ client' = [client EXCEPT
                ![c].pc = IF @ = "open" THEN "opening" ELSE "calling",
                ![c].at = i]
  /\ UNCHANGED <<server, tracked, outcome, started>>

NobodyListens(c) ==
  /\ client[c].pc \in {"open", "call"} /\ ~ server.up
  /\ client' = [client EXCEPT ![c].pc = "idle"]
  /\ Ended(c, Failure(c))
  /\ UNCHANGED <<conn, server, tracked, started>>

\* The answer to SessionOpen: the stream stays open as the lease.
SessionOpened(c) ==
  /\ client[c].pc = "opening" /\ conn[client[c].at].got = "ok"
  /\ client' = [client EXCEPT ![c].pc = "call", ![c].lease = client[c].at,
                              ![c].at = None]
  /\ UNCHANGED <<conn, server, tracked, outcome, started>>

Closed(i) == [conn EXCEPT ![i].mine = FALSE]

\* An answer to the call, or an error that the broker answered with.
Answered(c) ==
  /\ \/ client[c].pc = "calling" /\ conn[client[c].at].got # "none"
     \/ client[c].pc = "opening" /\ conn[client[c].at].got = "error"
  /\ Ended(c, IF conn[client[c].at].got = "ok" THEN "ok" ELSE "service")
  /\ client' = [client EXCEPT ![c].pc = "idle", ![c].at = None]
  /\ conn' = Closed(client[c].at)
  /\ UNCHANGED <<server, tracked, started>>

\* The connection ended without a whole answer: nothing is tried again.
LostReply(c) ==
  /\ client[c].pc \in {"opening", "calling"}
  /\ conn[client[c].at].theirs = "closed" /\ conn[client[c].at].got = "none"
  /\ Ended(c, Failure(c))
  /\ client' = [client EXCEPT ![c].pc = "idle", ![c].at = None]
  /\ conn' = Closed(client[c].at)
  /\ UNCHANGED <<server, tracked, started>>

\* The process ends, as the command line does after its only call.
Exit(c) ==
  /\ client[c].pc # "dead"
  /\ client' = [client EXCEPT ![c].pc = "dead", ![c].lease = None, ![c].at = None]
  /\ conn' = [i \in Conns |-> IF conn[i].by = c THEN [conn[i] EXCEPT !.mine = FALSE]
                              ELSE conn[i]]
  /\ UNCHANGED <<server, tracked, outcome, started>>

-----------------------------------------------------------------------------
(* The server: the accept loop and LocalConnection::serve.                 *)

Workers == {i \in Conns : conn[i].theirs \notin {"backlog", "closed"}}

\* A connection beyond the limit is accepted and dropped.
Accept(i) ==
  /\ server.up /\ conn[i].theirs = "backlog"
  /\ conn' = [conn EXCEPT ![i].theirs =
                IF Cardinality(Workers) < MaxSessions + Spare
                THEN "reading" ELSE "closed"]
  /\ UNCHANGED <<client, server, tracked, outcome, started>>

Goes(i, end) == conn' = [conn EXCEPT ![i].theirs = end]
Answers(i, answer) ==
  conn' = [conn EXCEPT ![i].theirs = "reply", ![i].answer = answer]

ReadRequestMutant(i) ==
  /\ conn[i].theirs = "reading"
  /\ \/ conn[i].sent = "whole" /\ Goes(i, "handling")
     \/ ~ conn[i].mine /\ Goes(i, "closed")
  /\ UNCHANGED <<client, server, tracked, outcome, started>>

\* read_request: a whole request, or one that is refused: with an answer when
\* its identity can be read, without when it cannot or the peer is gone.
ReadRequest(i) ==
  /\ conn[i].theirs = "reading"
  /\ \/ conn[i].sent = "whole" /\ Goes(i, "handling")
     \/ /\ conn[i].sent = "bad"
        /\ \/ Goes(i, "closed")
           \/ conn' = [conn EXCEPT ![i].theirs = "closed",
                         ![i].got = IF conn[i].mine THEN "error" ELSE "none"]
     \/ ~ conn[i].mine /\ Goes(i, "closed")
  /\ UNCHANGED <<client, server, tracked, outcome, started>>

\* The monitor thread sees the client's end closed, or its read fails although
\* the client is there.
Monitor(i) ==
  /\ conn[i].theirs \in Ends \ {"backlog", "reading", "closed"}
  /\ ~ conn[i].cancelled /\ (server.faulty \/ ~ conn[i].mine)
  /\ conn' = [conn EXCEPT ![i].cancelled = TRUE]
  /\ UNCHANGED <<client, server, tracked, outcome, started>>

\* purge_disconnected_clients, which every request begins with.
Purged == [c \in Clients |-> IF tracked[c] # None /\ conn[tracked[c]].cancelled
                             THEN None ELSE tracked[c]]

TrackedSessions == {c \in Clients : Purged[c] # None}

RegisterMutant(i) ==
  /\ conn[i].theirs = "handling" /\ conn[i].ask = "SessionOpen"
  /\ IF Purged[conn[i].by] # None
     THEN Answers(i, "error") /\ tracked' = Purged
     ELSE Answers(i, "ok") /\ tracked' = [Purged EXCEPT ![conn[i].by] = i]
  /\ UNCHANGED <<client, server, outcome, started>>

\* register_client_session
Register(i) ==
  /\ conn[i].theirs = "handling" /\ conn[i].ask = "SessionOpen"
  /\ IF Purged[conn[i].by] # None \/ Cardinality(TrackedSessions) >= MaxSessions
     THEN Answers(i, "error") /\ tracked' = Purged
     ELSE Answers(i, "ok") /\ tracked' = [Purged EXCEPT ![conn[i].by] = i]
  /\ UNCHANGED <<client, server, outcome, started>>

\* Status and Lock are answered without waiting for the user.
HandleShort(i) ==
  /\ conn[i].theirs = "handling" /\ conn[i].ask \in {"Status", "Lock"}
  /\ \E answer \in {"ok", "error"} : Answers(i, answer)
  /\ tracked' = Purged
  /\ UNCHANGED <<client, server, outcome, started>>

\* await_local_unlock: no prompt is needed, one is opened, or one is open.
AwaitUnlock(i) ==
  /\ conn[i].theirs = "handling" /\ NeedsSession(conn[i].ask)
  /\ \/ Goes(i, "ready")
     \/ IF \E j \in Conns : conn[j].theirs = "prompt"
        THEN Answers(i, "error") ELSE Goes(i, "prompt")
  /\ tracked' = Purged
  /\ UNCHANGED <<client, server, outcome, started>>

\* The prompt ends: unlocked, or refused, cancelled or timed out.
PromptEnds(i) ==
  /\ conn[i].theirs = "prompt"
  /\ \/ ~ conn[i].cancelled /\ Goes(i, "ready")
     \/ Answers(i, "error")
  /\ UNCHANGED <<client, server, tracked, outcome, started>>

\* A List is answered; one Run is admitted at a time.
Admit(i) ==
  /\ conn[i].theirs = "ready"
  /\ \/ conn[i].ask = "List" /\ (Answers(i, "ok") \/ Answers(i, "error"))
     \/ /\ conn[i].ask = "Run"
        /\ IF \E j \in Conns : conn[j].theirs \in ActiveRun
           THEN Answers(i, "error") ELSE Goes(i, "active")
  /\ UNCHANGED <<client, server, tracked, outcome, started>>

\* The approved command is started, unless the client has gone.
StartCommand(i) ==
  /\ conn[i].theirs = "active" /\ ~ conn[i].cancelled
  /\ Goes(i, "started")
  /\ started' = [started EXCEPT ![conn[i].by][conn[i].call] = @ + 1]
  /\ UNCHANGED <<client, server, tracked, outcome>>

\* A Run ends: with a result only if the command was started.
FinishRun(i) ==
  /\ conn[i].theirs \in ActiveRun
  /\ \/ conn[i].theirs = "started" /\ Answers(i, "ok")
     \/ Answers(i, "error")
  /\ UNCHANGED <<client, server, tracked, outcome, started>>

ReplyMutant(i) ==
  /\ conn[i].theirs = "reply"
  /\ conn' = [conn EXCEPT ![i].theirs = "closed",
                ![i].got = IF conn[i].mine THEN conn[i].answer ELSE "none"]
  /\ UNCHANGED <<client, server, tracked, outcome, started>>

\* The answer is written, which may fail or time out also when the client is
\* there; an opened session is held, and a failed one ends.
Reply(i) ==
  /\ conn[i].theirs = "reply"
  /\ \E written \in {conn[i].mine, conn[i].mine /\ ~ server.faulty} :
       LET held == conn[i].ask = "SessionOpen" /\ conn[i].answer = "ok" /\ written
       IN  conn' = [conn EXCEPT
             ![i].theirs = IF held THEN "held" ELSE "closed",
             ![i].got = IF written THEN conn[i].answer ELSE "none",
             ![i].cancelled = @ \/ (conn[i].ask = "SessionOpen" /\ ~ held)]
  /\ UNCHANGED <<client, server, tracked, outcome, started>>

\* A held session ends when its monitor cancelled it.
ReleaseSession(i) ==
  /\ conn[i].theirs = "held" /\ conn[i].cancelled
  /\ Goes(i, "closed")
  /\ UNCHANGED <<client, server, tracked, outcome, started>>

\* Every connection and every session is gone; commands are on their own.
Crash ==
  /\ server.up /\ server.crashes < MaxCrashes
  /\ server' = [server EXCEPT !.up = FALSE, !.crashes = @ + 1]
  /\ conn' = [i \in Conns |-> [conn[i] EXCEPT !.theirs = "closed"]]
  /\ tracked' = [c \in Clients |-> None]
  /\ UNCHANGED <<client, outcome, started>>

Restart ==
  /\ ~ server.up
  /\ server' = [server EXCEPT !.up = TRUE]
  /\ UNCHANGED <<client, conn, tracked, outcome, started>>

-----------------------------------------------------------------------------

ClientStep(c) ==
  \/ Exchange(c) \/ NobodyListens(c) \/ SessionOpened(c) \/ Answered(c)
  \/ LostReply(c)

ServerStep(i) ==
  \/ Accept(i) \/ ReadRequest(i) \/ Monitor(i)
  \/ Register(i) \/ HandleShort(i) \/ AwaitUnlock(i) \/ PromptEnds(i)
  \/ Admit(i) \/ FinishRun(i) \/ Reply(i) \/ ReleaseSession(i)

Next ==
  \/ \E c \in Clients :
       \/ CallRefused(c) \/ (\E method \in Methods : Call(c, method))
       \/ ClientStep(c) \/ Exit(c)
  \/ \E i \in Conns : ServerStep(i) \/ StartCommand(i)
  \/ Crash \/ Restart

\* A session that is held for a client that is there has nothing to do.
Resting(i) == conn[i].theirs = "held" /\ conn[i].mine /\ ~ conn[i].cancelled

\* Threads run, prompts and commands have timeouts; nobody must call, exit,
\* crash or start an application again, and no read of a monitor must fail.
Fairness ==
  /\ \A c \in Clients : WF_vars(ClientStep(c))
  /\ \A i \in 1 .. MaxConns : WF_vars(i \in Conns /\ ~ Resting(i) /\ ServerStep(i))

Spec == Init /\ [][Next]_vars /\ Fairness

-----------------------------------------------------------------------------
(* Properties.                                                             *)

\* The command of a call is started at most once, also when the reply is lost
\* and the application restarts (call_tool, automatic_retry false), and a
\* caller who is told that it was refused or not started is told the truth,
\* then and later: it is not started after that (local_tool_error).
ReportIsTrue ==
  \A c \in Clients : \A n \in 1 .. MaxCalls :
    /\ started[c][n] <= 1
    /\ outcome[c][n] \in {"refused", "not_started", "not_applicable"} =>
         started[c][n] = 0

\* A client that opens a session again is never turned away because of its
\* own earlier one: the server has cancelled that before the client could see
\* it end (is_connected, purge_disconnected_clients).
NoOwnConflict ==
  \A i \in Conns :
    conn[i].theirs = "handling" /\ conn[i].ask = "SessionOpen" =>
      Purged[conn[i].by] = None

\* Workers that may wait long are the sessions, one prompt and one run, so
\* there are always workers left for short requests: a Lock gets through
\* however many sessions there are (MAX_CONNECTION_WORKERS, call_tool).
SlotsRemain ==
  Cardinality({i \in Workers :
                 \/ conn[i].theirs \in {"prompt"} \cup ActiveRun
                 \/ conn[i].theirs = "held" /\ ~ conn[i].cancelled})
    <= MaxSessions + 2

\* Every call is answered: the client has no timeout of its own and relies on
\* the server to answer or to close (exchange, serve).
CallsEnd ==
  \A c \in Clients :
    client[c].pc \in {"opening", "calling"} ~> client[c].pc \in {"idle", "call", "dead"}
=============================================================================
