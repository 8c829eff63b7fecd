--------------------------- MODULE LocalRpcProofs ---------------------------
(***************************************************************************)
(* Theorems about LocalRpc, for any number of clients, calls, connections  *)
(* and crashes, and about Endpoint, the socket file that leads to it.      *)
(***************************************************************************)
EXTENDS LocalRpc, Endpoint, FiniteSetTheorems, TLAPS

-----------------------------------------------------------------------------
(* Types.                                                                  *)

(* The number of connections made so far. *)
Num == Cardinality(DOMAIN conn)

(* What a request asks, and what it is answered. *)
Asks == Methods \cup {"SessionOpen"}
Answers3 == {"none", "ok", "error"}

(* A client and a connection. *)
ClientRec ==
  [pc : {"idle", "open", "opening", "call", "calling", "dead"}, method : Methods,
   calls : 0 .. MaxCalls, lease : {None} \cup 1 .. MaxConns, at : {None} \cup 1 .. MaxConns]
ConnRec ==
  [by : Clients, call : 1 .. MaxCalls, ask : Asks, mine : BOOLEAN, theirs : Ends,
   sent : {"nothing", "whole", "bad"}, answer : Answers3, got : Answers3,
   cancelled : BOOLEAN]

(* The sets that the variables range over. *)
Shape ==
  /\ client \in [Clients -> ClientRec]
  /\ Num \in 0 .. MaxConns
  /\ conn \in [1 .. Num -> ConnRec]
  /\ server \in [up : BOOLEAN, crashes : 0 .. MaxCrashes, faulty : BOOLEAN]
  /\ tracked \in [Clients -> {None} \cup 1 .. Num]
  /\ outcome \in [Clients -> [1 .. MaxCalls -> Outcomes]]
  /\ started \in [Clients -> [1 .. MaxCalls -> Nat]]

(* What a client refers to, and that it is in a call when it is busy. *)
ClientInv ==
  \A c \in Clients :
    /\ client[c].at \in {None} \cup 1 .. Num
    /\ client[c].lease \in {None} \cup 1 .. Num
    /\ (client[c].at # None) <=> (client[c].pc \in {"opening", "calling"})
    /\ client[c].pc \notin {"idle", "dead"} => client[c].calls # 0

(* A function on 1 .. n has n arguments. *)
LEMMA NumOf ==
  ASSUME NEW n \in Nat, NEW f, DOMAIN f = 1 .. n
  PROVE  Cardinality(DOMAIN f) = n
BY FS_Interval

(* A step keeps the number of connections when it keeps their domain. *)
LEMMA NumSame ==
  ASSUME DOMAIN conn' = DOMAIN conn
  PROVE  Num' = Num
BY DEF Num

(* What a step of a worker thread on connection i leaves alone: the other  *)
(* connections, the client's end and everything that clients know.         *)
Touches(i) ==
  /\ Num' = Num
  /\ conn' \in [1 .. Num -> ConnRec]
  /\ \A j \in 1 .. Num : j # i => conn'[j] = conn[j]
  /\ conn'[i].by = conn[i].by /\ conn'[i].call = conn[i].call
  /\ conn'[i].ask = conn[i].ask /\ conn'[i].mine = conn[i].mine
  /\ conn[i].cancelled => conn'[i].cancelled
  /\ UNCHANGED <<client, server, outcome>>

(* An update of one record, whatever its fields. *)
LEMMA OneConn ==
  ASSUME Shape, NEW i \in Conns, NEW x \in ConnRec,
         conn' = [conn EXCEPT ![i] = x],
         x.by = conn[i].by, x.call = conn[i].call, x.ask = conn[i].ask,
         x.mine = conn[i].mine, conn[i].cancelled => x.cancelled,
         UNCHANGED <<client, server, outcome>>
  PROVE  Touches(i)
BY NumSame DEF Shape, Touches, Conns, Num

(* A worker goes on. *)
LEMMA ConnTheirs ==
  ASSUME Shape, NEW i \in Conns, NEW e \in Ends,
         conn' = [conn EXCEPT ![i].theirs = e],
         UNCHANGED <<client, server, outcome>>
  PROVE  Touches(i)
<1> DEFINE x == [conn[i] EXCEPT !.theirs = e]
<1>1. conn' = [conn EXCEPT ![i] = x]
  BY DEF Shape, ConnRec, Conns, Num
<1>2. x \in ConnRec
  <2>1. conn[i] \in ConnRec
    BY DEF Shape, Conns, Num
  <2> QED BY <2>1 DEF ConnRec, Ends
<1>3. /\ x.by = conn[i].by /\ x.call = conn[i].call /\ x.ask = conn[i].ask
      /\ x.mine = conn[i].mine /\ (conn[i].cancelled => x.cancelled)
  BY DEF Shape, ConnRec, Conns, Num
<1> QED BY <1>1, <1>2, <1>3, OneConn

(* It has an answer. *)
LEMMA ConnAnswer ==
  ASSUME Shape, NEW i \in Conns, NEW a \in Answers3,
         conn' = [conn EXCEPT ![i].theirs = "reply", ![i].answer = a],
         UNCHANGED <<client, server, outcome>>
  PROVE  Touches(i)
<1> DEFINE x == [conn[i] EXCEPT !.theirs = "reply", !.answer = a]
<1>1. conn' = [conn EXCEPT ![i] = x]
  BY DEF Shape, ConnRec, Conns, Num
<1>2. x \in ConnRec
  <2>1. conn[i] \in ConnRec
    BY DEF Shape, Conns, Num
  <2> QED BY <2>1 DEF ConnRec, Ends
<1>3. /\ x.by = conn[i].by /\ x.call = conn[i].call /\ x.ask = conn[i].ask
      /\ x.mine = conn[i].mine /\ (conn[i].cancelled => x.cancelled)
  BY DEF Shape, ConnRec, Conns, Num
<1> QED BY <1>1, <1>2, <1>3, OneConn

(* It closes with an answer. *)
LEMMA ConnGot ==
  ASSUME Shape, NEW i \in Conns, NEW e \in Ends, NEW g \in Answers3,
         conn' = [conn EXCEPT ![i].theirs = e, ![i].got = g],
         UNCHANGED <<client, server, outcome>>
  PROVE  Touches(i)
<1> DEFINE x == [conn[i] EXCEPT !.theirs = e, !.got = g]
<1>1. conn' = [conn EXCEPT ![i] = x]
  BY DEF Shape, ConnRec, Conns, Num
<1>2. x \in ConnRec
  <2>1. conn[i] \in ConnRec
    BY DEF Shape, Conns, Num
  <2> QED BY <2>1 DEF ConnRec, Ends
<1>3. /\ x.by = conn[i].by /\ x.call = conn[i].call /\ x.ask = conn[i].ask
      /\ x.mine = conn[i].mine /\ (conn[i].cancelled => x.cancelled)
  BY DEF Shape, ConnRec, Conns, Num
<1> QED BY <1>1, <1>2, <1>3, OneConn

(* The monitor cancels it. *)
LEMMA ConnCancelled ==
  ASSUME Shape, NEW i \in Conns,
         conn' = [conn EXCEPT ![i].cancelled = TRUE],
         UNCHANGED <<client, server, outcome>>
  PROVE  Touches(i)
<1> DEFINE x == [conn[i] EXCEPT !.cancelled = TRUE]
<1>1. conn' = [conn EXCEPT ![i] = x]
  BY DEF Shape, ConnRec, Conns, Num
<1>2. x \in ConnRec
  <2>1. conn[i] \in ConnRec
    BY DEF Shape, Conns, Num
  <2> QED BY <2>1 DEF ConnRec, Ends
<1>3. /\ x.by = conn[i].by /\ x.call = conn[i].call /\ x.ask = conn[i].ask
      /\ x.mine = conn[i].mine /\ (conn[i].cancelled => x.cancelled)
  BY DEF Shape, ConnRec, Conns, Num
<1> QED BY <1>1, <1>2, <1>3, OneConn

(* It writes the answer. *)
LEMMA ConnReply ==
  ASSUME Shape, NEW i \in Conns, NEW e \in Ends, NEW g \in Answers3, NEW k \in BOOLEAN,
         conn[i].cancelled => k,
         conn' = [conn EXCEPT ![i].theirs = e, ![i].got = g, ![i].cancelled = k],
         UNCHANGED <<client, server, outcome>>
  PROVE  Touches(i)
<1> DEFINE x == [conn[i] EXCEPT !.theirs = e, !.got = g, !.cancelled = k]
<1>1. conn' = [conn EXCEPT ![i] = x]
  BY DEF Shape, ConnRec, Conns, Num
<1>2. x \in ConnRec
  <2>1. conn[i] \in ConnRec
    BY DEF Shape, Conns, Num
  <2> QED BY <2>1 DEF ConnRec, Ends
<1>3. /\ x.by = conn[i].by /\ x.call = conn[i].call /\ x.ask = conn[i].ask
      /\ x.mine = conn[i].mine /\ (conn[i].cancelled => x.cancelled)
  BY DEF Shape, ConnRec, Conns, Num
<1> QED BY <1>1, <1>2, <1>3, OneConn

(* Every step of a worker is such a step. *)
LEMMA ServerTouches ==
  ASSUME Shape, NEW i \in Conns, ServerStep(i) \/ StartCommand(i)
  PROVE  Touches(i)
<1> USE DEF Ends, Answers3
<1>1. CASE Accept(i)
  <2>1. CASE Cardinality(Workers) < MaxSessions + Spare
    BY <1>1, <2>1, ConnTheirs DEF Accept
  <2>2. CASE ~ (Cardinality(Workers) < MaxSessions + Spare)
    BY <1>1, <2>2, ConnTheirs DEF Accept
  <2> QED BY <2>1, <2>2
<1>2. CASE ReadRequest(i)
  <2>1. CASE \E e \in Ends : Goes(i, e)
    BY <1>2, <2>1, ConnTheirs DEF ReadRequest, Goes
  <2>2. CASE \E g \in Answers3 : conn' = [conn EXCEPT ![i].theirs = "closed", ![i].got = g]
    BY <1>2, <2>2, ConnGot DEF ReadRequest
  <2>3. (IF conn[i].mine THEN "error" ELSE "none") \in Answers3
    OBVIOUS
  <2> QED BY <1>2, <2>1, <2>2, <2>3 DEF ReadRequest
<1>3. CASE Monitor(i)
  BY <1>3, ConnCancelled DEF Monitor
<1>4. CASE Register(i)
  BY <1>4, ConnAnswer DEF Register, Answers
<1>5. CASE HandleShort(i)
  BY <1>5, ConnAnswer DEF HandleShort, Answers
<1>6. CASE AwaitUnlock(i)
  BY <1>6, ConnAnswer, ConnTheirs DEF AwaitUnlock, Answers, Goes
<1>7. CASE PromptEnds(i)
  BY <1>7, ConnAnswer, ConnTheirs DEF PromptEnds, Answers, Goes
<1>8. CASE Admit(i)
  BY <1>8, ConnAnswer, ConnTheirs DEF Admit, Answers, Goes
<1>9. CASE FinishRun(i)
  BY <1>9, ConnAnswer DEF FinishRun, Answers
<1>10. CASE Reply(i)
  <2>0. PICK written \in {conn[i].mine, conn[i].mine /\ ~ server.faulty} :
          LET held == conn[i].ask = "SessionOpen" /\ conn[i].answer = "ok" /\ written
          IN  conn' = [conn EXCEPT
                ![i].theirs = IF held THEN "held" ELSE "closed",
                ![i].got = IF written THEN conn[i].answer ELSE "none",
                ![i].cancelled = @ \/ (conn[i].ask = "SessionOpen" /\ ~ held)]
    BY <1>10 DEF Reply
  <2> DEFINE held == conn[i].ask = "SessionOpen" /\ conn[i].answer = "ok" /\ written
             e == IF held THEN "held" ELSE "closed"
             g == IF written THEN conn[i].answer ELSE "none"
             k == conn[i].cancelled \/ (conn[i].ask = "SessionOpen" /\ ~ held)
  <2>1. conn[i] \in ConnRec
    BY DEF Shape, Conns, Num
  <2>2. e \in Ends /\ g \in Answers3
    BY <2>1 DEF ConnRec
  <2>3. \E b \in BOOLEAN : b = k
    OBVIOUS
  <2>4. PICK b \in BOOLEAN : b = k
    BY <2>3
  <2>5. conn' = [conn EXCEPT ![i].theirs = e, ![i].got = g, ![i].cancelled = b]
    BY <2>0, <2>4
  <2>6. conn[i].cancelled => b
    BY <2>4
  <2> HIDE DEF e, g, k, held
  <2> QED BY <1>10, <2>2, <2>5, <2>6, ConnReply DEF Reply
<1>11. CASE ReleaseSession(i)
  BY <1>11, ConnTheirs DEF ReleaseSession, Goes
<1>12. CASE StartCommand(i)
  BY <1>12, ConnTheirs DEF StartCommand, Goes
<1> QED BY <1>1, <1>2, <1>3, <1>4, <1>5, <1>6, <1>7, <1>8, <1>9, <1>10, <1>11, <1>12
        DEF ServerStep

(* Forgetting the sessions that ended leaves a table of sessions. *)
LEMMA PurgedShape ==
  ASSUME Shape
  PROVE  /\ Purged \in [Clients -> {None} \cup 1 .. Num]
         /\ \A c \in Clients : Purged[c] \in {None, tracked[c]}
BY DEF Shape, Purged

(* The connection that an exchange makes. *)
NewConn(c, sent) ==
  [by |-> c, call |-> client[c].calls, mine |-> TRUE,
   ask |-> IF client[c].pc = "open" THEN "SessionOpen" ELSE client[c].method,
   theirs |-> "backlog", sent |-> sent, answer |-> "none", got |-> "none",
   cancelled |-> FALSE]

(* An exchange adds it after the others. *)
LEMMA ExchangeAdds ==
  ASSUME Shape, ClientInv, NEW c \in Clients, Exchange(c)
  PROVE  \E sent \in {"whole", "bad"} :
           /\ Num < MaxConns /\ Num' = Num + 1
           /\ NewConn(c, sent) \in ConnRec
           /\ conn' = [j \in 1 .. Num + 1 |-> IF j = Num + 1 THEN NewConn(c, sent)
                                              ELSE conn[j]]
           /\ client' = [client EXCEPT
                ![c].pc = IF @ = "open" THEN "opening" ELSE "calling", ![c].at = Num + 1]
<1>1. Num \in Nat /\ Conns = 1 .. Num
  BY LimitsAssumption DEF Shape, Conns, Num
<1>2. Cardinality(Conns) = Num
  BY <1>1, FS_Interval
<1>3. PICK sent \in {"whole", "bad"} :
        /\ conn' = [j \in 1 .. Num + 1 |-> IF j = Num + 1 THEN NewConn(c, sent)
                                           ELSE conn[j]]
        /\ client' = [client EXCEPT
             ![c].pc = IF @ = "open" THEN "opening" ELSE "calling", ![c].at = Num + 1]
  BY <1>2 DEF Exchange, NewConn
<1>4. Num' = Num + 1
  BY <1>1, <1>3, NumOf DEF Num
<1>5. NewConn(c, sent) \in ConnRec
  <2>1. client[c] \in ClientRec /\ client[c].calls # 0
    BY DEF Shape, ClientInv, Exchange
  <2> QED BY <2>1 DEF ConnRec, NewConn, ClientRec, Asks, Answers3, Ends
<1> QED BY <1>2, <1>3, <1>4, <1>5 DEF Exchange

(* Client records change within their set. *)
LEMMA ClientUpdates ==
  ASSUME Shape, NEW c \in Clients, NEW p \in {"idle", "open", "opening", "call", "calling", "dead"},
         NEW a \in {None} \cup 1 .. MaxConns, NEW l \in {None} \cup 1 .. MaxConns
  PROVE  /\ [client EXCEPT ![c].pc = p] \in [Clients -> ClientRec]
         /\ [client EXCEPT ![c].pc = p, ![c].at = a] \in [Clients -> ClientRec]
         /\ [client EXCEPT ![c].pc = p, ![c].lease = l, ![c].at = a] \in [Clients -> ClientRec]
<1>1. client[c] \in ClientRec
  BY DEF Shape
<1>2. [client EXCEPT ![c].pc = p] = [client EXCEPT ![c] = [@ EXCEPT !.pc = p]]
  BY DEF Shape, ClientRec
<1>3. [client EXCEPT ![c].pc = p, ![c].at = a]
        = [client EXCEPT ![c] = [@ EXCEPT !.pc = p, !.at = a]]
  BY DEF Shape, ClientRec
<1>4. [client EXCEPT ![c].pc = p, ![c].lease = l, ![c].at = a]
        = [client EXCEPT ![c] = [@ EXCEPT !.pc = p, !.lease = l, !.at = a]]
  BY DEF Shape, ClientRec
<1>5. /\ [client[c] EXCEPT !.pc = p] \in ClientRec
      /\ [client[c] EXCEPT !.pc = p, !.at = a] \in ClientRec
      /\ [client[c] EXCEPT !.pc = p, !.lease = l, !.at = a] \in ClientRec
  BY <1>1 DEF ClientRec
<1> QED BY <1>2, <1>3, <1>4, <1>5 DEF Shape

(* A client gives up one of its connections. *)
LEMMA ClosedConns ==
  ASSUME Shape, NEW i \in 1 .. Num
  PROVE  /\ Closed(i) \in [1 .. Num -> ConnRec]
         /\ DOMAIN Closed(i) = DOMAIN conn
<1>1. conn \in [1 .. Num -> ConnRec] /\ conn[i] \in ConnRec
  BY DEF Shape
<1>2. [conn[i] EXCEPT !.mine = FALSE] \in ConnRec
  BY <1>1 DEF ConnRec
<1>3. Closed(i) = [conn EXCEPT ![i] = [conn[i] EXCEPT !.mine = FALSE]]
  BY <1>1 DEF Closed
<1> QED BY <1>1, <1>2, <1>3

(* A call is given its outcome. *)
LEMMA EndedShape ==
  ASSUME Shape, NEW c \in Clients, NEW x \in Outcomes, NEW n \in 1 .. MaxCalls
  PROVE  [outcome EXCEPT ![c][n] = x] \in [Clients -> [1 .. MaxCalls -> Outcomes]]
BY DEF Shape

(* No step leaves these sets. *)
LEMMA ShapeStep ==
  ASSUME Shape, ClientInv, [Next]_vars
  PROVE  Shape'
<1>1. ASSUME NEW c \in Clients, CallRefused(c) PROVE Shape'
  <2> DEFINE n == client[c].calls + 1
  <2>1. client[c] \in ClientRec /\ n \in 0 .. MaxCalls /\ n \in 1 .. MaxCalls
    BY <1>1, LimitsAssumption DEF CallRefused, Shape, ClientRec
  <2>2. client' = [client EXCEPT ![c] = [@ EXCEPT !.calls = n]]
    BY <1>1 DEF CallRefused, Shape, ClientRec
  <2>3. outcome' \in [Clients -> [1 .. MaxCalls -> Outcomes]]
    BY <1>1, <2>1, EndedShape DEF CallRefused, Outcomes
  <2> HIDE DEF n
  <2>4. [client[c] EXCEPT !.calls = n] \in ClientRec
    BY <2>1 DEF ClientRec
  <2> QED BY <1>1, <2>2, <2>3, <2>4, NumSame DEF CallRefused, Shape
<1>2. ASSUME NEW c \in Clients, NEW method \in Methods, Call(c, method) PROVE Shape'
  <2> DEFINE lost == client[c].lease # None /\ ~ Connected(client[c].lease)
             kept == IF NeedsSession(method) /\ lost THEN None ELSE client[c].lease
             p == IF NeedsSession(method) /\ kept = None THEN "open" ELSE "call"
             n == client[c].calls + 1
  <2>1. client[c] \in ClientRec /\ n \in 0 .. MaxCalls
    BY <1>2, LimitsAssumption DEF Call, Shape, ClientRec
  <2>2. kept \in {None} \cup 1 .. MaxConns /\ p \in {"open", "call"}
    BY <2>1 DEF ClientRec
  <2>3. client' = [client EXCEPT ![c] = [@ EXCEPT !.pc = p, !.method = method,
                                                 !.calls = client[c].calls + 1,
                                                 !.lease = kept]]
    BY <1>2 DEF Call
  <2>4. conn' = conn \/ (client[c].lease # None /\ conn' = Closed(client[c].lease))
    BY <1>2 DEF Call, Closed
  <2> HIDE DEF lost, kept, p
  <2>8. client' = [client EXCEPT ![c] =
                     [client[c] EXCEPT !.pc = p, !.method = method, !.calls = n, !.lease = kept]]
    BY <2>3
  <2> HIDE DEF n
  <2>5. [client[c] EXCEPT !.pc = p, !.method = method, !.calls = n, !.lease = kept] \in ClientRec
    BY <2>1, <2>2 DEF ClientRec
  <2>6. client' \in [Clients -> ClientRec]
    BY <2>8, <2>5 DEF Shape
  <2>7. conn' \in [1 .. Num -> ConnRec] /\ Num' = Num
    BY <2>4, ClosedConns, NumSame DEF Shape, ClientInv
  <2> QED BY <1>2, <2>6, <2>7 DEF Call, Shape
<1>3. ASSUME NEW c \in Clients, Exchange(c) PROVE Shape'
  <2>1. PICK sent \in {"whole", "bad"} :
          /\ Num < MaxConns /\ Num' = Num + 1
          /\ NewConn(c, sent) \in ConnRec
          /\ conn' = [j \in 1 .. Num + 1 |-> IF j = Num + 1 THEN NewConn(c, sent)
                                             ELSE conn[j]]
          /\ client' = [client EXCEPT
               ![c].pc = IF @ = "open" THEN "opening" ELSE "calling", ![c].at = Num + 1]
    BY <1>3, ExchangeAdds
  <2>2. Num \in Nat /\ MaxConns \in Nat
    BY LimitsAssumption DEF Shape
  <2>3. Num' \in 0 .. MaxConns /\ conn' \in [1 .. Num' -> ConnRec]
    BY <2>1, <2>2 DEF Shape
  <2>4. client' \in [Clients -> ClientRec]
    <3>1. PICK p \in {"opening", "calling"} :
            client' = [client EXCEPT ![c].pc = p, ![c].at = Num + 1]
      BY <2>1
    <3>2. Num + 1 \in 1 .. MaxConns
      BY <2>1, <2>2
    <3> QED BY <3>1, <3>2, ClientUpdates
  <2>5. tracked' \in [Clients -> {None} \cup 1 .. Num']
    BY <1>3, <2>1, <2>2 DEF Exchange, Shape
  <2> QED BY <1>3, <2>3, <2>4, <2>5 DEF Exchange, Shape
<1>4. ASSUME NEW c \in Clients, NobodyListens(c) PROVE Shape'
  <2>1. client' \in [Clients -> ClientRec]
    BY <1>4, ClientUpdates DEF NobodyListens
  <2>2. client[c].calls \in 1 .. MaxCalls /\ Failure(c) \in Outcomes
    BY <1>4 DEF NobodyListens, Shape, ClientInv, ClientRec, Failure, Outcomes
  <2>3. outcome' \in [Clients -> [1 .. MaxCalls -> Outcomes]]
    BY <1>4, <2>2, EndedShape DEF NobodyListens, Ended
  <2> QED BY <1>4, <2>1, <2>3, NumSame DEF NobodyListens, Shape
<1>5. ASSUME NEW c \in Clients, SessionOpened(c) PROVE Shape'
  <2>1. client[c].at \in 1 .. Num /\ client[c].at \in 1 .. MaxConns
    BY <1>5 DEF SessionOpened, Shape, ClientInv, ClientRec
  <2>2. client' \in [Clients -> ClientRec]
    BY <1>5, <2>1, ClientUpdates DEF SessionOpened
  <2> QED BY <1>5, <2>2, NumSame DEF SessionOpened, Shape
<1>6. ASSUME NEW c \in Clients, Answered(c) PROVE Shape'
  <2>1. client[c].at \in 1 .. Num /\ client[c].calls \in 1 .. MaxCalls
    BY <1>6 DEF Answered, Shape, ClientInv, ClientRec
  <2>2. client' \in [Clients -> ClientRec]
    BY <1>6, ClientUpdates DEF Answered
  <2>3. (IF conn[client[c].at].got = "ok" THEN "ok" ELSE "service") \in Outcomes
    BY DEF Outcomes, Failure
  <2>4. outcome' \in [Clients -> [1 .. MaxCalls -> Outcomes]]
    BY <1>6, <2>1, <2>3, EndedShape DEF Answered, Ended
  <2>5. conn' \in [1 .. Num -> ConnRec] /\ Num' = Num
    BY <1>6, <2>1, ClosedConns, NumSame DEF Answered
  <2> QED BY <1>6, <2>2, <2>4, <2>5 DEF Answered, Shape
<1>7. ASSUME NEW c \in Clients, LostReply(c) PROVE Shape'
  <2>1. client[c].at \in 1 .. Num /\ client[c].calls \in 1 .. MaxCalls
    BY <1>7 DEF LostReply, Shape, ClientInv, ClientRec
  <2>2. client' \in [Clients -> ClientRec]
    BY <1>7, ClientUpdates DEF LostReply
  <2>3. Failure(c) \in Outcomes
    BY DEF Outcomes, Failure
  <2>4. outcome' \in [Clients -> [1 .. MaxCalls -> Outcomes]]
    BY <1>7, <2>1, <2>3, EndedShape DEF LostReply, Ended
  <2>5. conn' \in [1 .. Num -> ConnRec] /\ Num' = Num
    BY <1>7, <2>1, ClosedConns, NumSame DEF LostReply
  <2> QED BY <1>7, <2>2, <2>4, <2>5 DEF LostReply, Shape
<1>8. ASSUME NEW c \in Clients, Exit(c) PROVE Shape'
  <2>1. client' \in [Clients -> ClientRec]
    BY <1>8, ClientUpdates DEF Exit
  <2>2. \A i \in 1 .. Num : [conn[i] EXCEPT !.mine = FALSE] \in ConnRec
    BY DEF Shape, ConnRec
  <2>3. conn' \in [1 .. Num -> ConnRec]
    BY <1>8, <2>2 DEF Exit, Shape, Conns, Num
  <2>4. Num' = Num
    BY <2>3, NumSame DEF Shape
  <2> QED BY <1>8, <2>1, <2>3, <2>4 DEF Exit, Shape
<1>9. ASSUME NEW i \in Conns, Accept(i) PROVE Shape'
  <2>1. Touches(i)
    BY <1>9, ServerTouches DEF ServerStep
  <2>2. tracked' \in [Clients -> {None} \cup 1 .. Num] /\ started' \in [Clients -> [1 .. MaxCalls -> Nat]]
    BY <1>9, PurgedShape DEF Shape, Conns, Num, ConnRec, Accept
  <2> QED BY <2>1, <2>2 DEF Shape, Touches
<1>10. ASSUME NEW i \in Conns, ReadRequest(i) PROVE Shape'
  <2>1. Touches(i)
    BY <1>10, ServerTouches DEF ServerStep
  <2>2. tracked' \in [Clients -> {None} \cup 1 .. Num] /\ started' \in [Clients -> [1 .. MaxCalls -> Nat]]
    BY <1>10, PurgedShape DEF Shape, Conns, Num, ConnRec, ReadRequest
  <2> QED BY <2>1, <2>2 DEF Shape, Touches
<1>11. ASSUME NEW i \in Conns, Monitor(i) PROVE Shape'
  <2>1. Touches(i)
    BY <1>11, ServerTouches DEF ServerStep
  <2>2. tracked' \in [Clients -> {None} \cup 1 .. Num] /\ started' \in [Clients -> [1 .. MaxCalls -> Nat]]
    BY <1>11, PurgedShape DEF Shape, Conns, Num, ConnRec, Monitor
  <2> QED BY <2>1, <2>2 DEF Shape, Touches
<1>12. ASSUME NEW i \in Conns, Register(i) PROVE Shape'
  <2>1. Touches(i)
    BY <1>12, ServerTouches DEF ServerStep
  <2>2. tracked' \in [Clients -> {None} \cup 1 .. Num] /\ started' \in [Clients -> [1 .. MaxCalls -> Nat]]
    BY <1>12, PurgedShape DEF Shape, Conns, Num, ConnRec, Register
  <2> QED BY <2>1, <2>2 DEF Shape, Touches
<1>13. ASSUME NEW i \in Conns, HandleShort(i) PROVE Shape'
  <2>1. Touches(i)
    BY <1>13, ServerTouches DEF ServerStep
  <2>2. tracked' \in [Clients -> {None} \cup 1 .. Num] /\ started' \in [Clients -> [1 .. MaxCalls -> Nat]]
    BY <1>13, PurgedShape DEF Shape, Conns, Num, ConnRec, HandleShort
  <2> QED BY <2>1, <2>2 DEF Shape, Touches
<1>14. ASSUME NEW i \in Conns, AwaitUnlock(i) PROVE Shape'
  <2>1. Touches(i)
    BY <1>14, ServerTouches DEF ServerStep
  <2>2. tracked' \in [Clients -> {None} \cup 1 .. Num] /\ started' \in [Clients -> [1 .. MaxCalls -> Nat]]
    BY <1>14, PurgedShape DEF Shape, Conns, Num, ConnRec, AwaitUnlock
  <2> QED BY <2>1, <2>2 DEF Shape, Touches
<1>15. ASSUME NEW i \in Conns, PromptEnds(i) PROVE Shape'
  <2>1. Touches(i)
    BY <1>15, ServerTouches DEF ServerStep
  <2>2. tracked' \in [Clients -> {None} \cup 1 .. Num] /\ started' \in [Clients -> [1 .. MaxCalls -> Nat]]
    BY <1>15, PurgedShape DEF Shape, Conns, Num, ConnRec, PromptEnds
  <2> QED BY <2>1, <2>2 DEF Shape, Touches
<1>16. ASSUME NEW i \in Conns, Admit(i) PROVE Shape'
  <2>1. Touches(i)
    BY <1>16, ServerTouches DEF ServerStep
  <2>2. tracked' \in [Clients -> {None} \cup 1 .. Num] /\ started' \in [Clients -> [1 .. MaxCalls -> Nat]]
    BY <1>16, PurgedShape DEF Shape, Conns, Num, ConnRec, Admit
  <2> QED BY <2>1, <2>2 DEF Shape, Touches
<1>17. ASSUME NEW i \in Conns, FinishRun(i) PROVE Shape'
  <2>1. Touches(i)
    BY <1>17, ServerTouches DEF ServerStep
  <2>2. tracked' \in [Clients -> {None} \cup 1 .. Num] /\ started' \in [Clients -> [1 .. MaxCalls -> Nat]]
    BY <1>17, PurgedShape DEF Shape, Conns, Num, ConnRec, FinishRun
  <2> QED BY <2>1, <2>2 DEF Shape, Touches
<1>18. ASSUME NEW i \in Conns, Reply(i) PROVE Shape'
  <2>1. Touches(i)
    BY <1>18, ServerTouches DEF ServerStep
  <2>2. tracked' \in [Clients -> {None} \cup 1 .. Num] /\ started' \in [Clients -> [1 .. MaxCalls -> Nat]]
    BY <1>18, PurgedShape DEF Shape, Conns, Num, ConnRec, Reply
  <2> QED BY <2>1, <2>2 DEF Shape, Touches
<1>19. ASSUME NEW i \in Conns, ReleaseSession(i) PROVE Shape'
  <2>1. Touches(i)
    BY <1>19, ServerTouches DEF ServerStep
  <2>2. tracked' \in [Clients -> {None} \cup 1 .. Num] /\ started' \in [Clients -> [1 .. MaxCalls -> Nat]]
    BY <1>19, PurgedShape DEF Shape, Conns, Num, ConnRec, ReleaseSession
  <2> QED BY <2>1, <2>2 DEF Shape, Touches
<1>20. ASSUME NEW i \in Conns, StartCommand(i) PROVE Shape'
  <2>1. Touches(i)
    BY <1>20, ServerTouches
  <2>2. conn[i].by \in Clients /\ conn[i].call \in 1 .. MaxCalls
    BY DEF Shape, Conns, Num, ConnRec
  <2>3. tracked' \in [Clients -> {None} \cup 1 .. Num]
    BY <1>20 DEF StartCommand, Shape
  <2>4. \A c \in Clients, n \in 1 .. MaxCalls : started[c][n] + 1 \in Nat
    <3>1. started \in [Clients -> [1 .. MaxCalls -> Nat]]
      BY DEF Shape
    <3>2. \A c \in Clients, n \in 1 .. MaxCalls : started[c][n] \in Nat
      BY <3>1
    <3> QED BY <3>2
  <2>5. started' \in [Clients -> [1 .. MaxCalls -> Nat]]
    BY <1>20, <2>2, <2>4 DEF StartCommand, Shape
  <2> QED BY <2>1, <2>3, <2>5 DEF Shape, Touches
<1>21. ASSUME Crash PROVE Shape'
  <2>1. ASSUME NEW i \in 1 .. Num PROVE [conn[i] EXCEPT !.theirs = "closed"] \in ConnRec
    <3>1. conn[i] \in ConnRec
      BY DEF Shape
    <3> QED BY <3>1 DEF ConnRec, Ends
  <2>2. conn' \in [1 .. Num -> ConnRec]
    BY <1>21, <2>1 DEF Crash, Shape, Conns, Num
  <2>3. Num' = Num
    BY <2>2, NumSame DEF Shape
  <2>4. server' \in [up : BOOLEAN, crashes : 0 .. MaxCrashes, faulty : BOOLEAN]
    <3>1. /\ server \in [up : BOOLEAN, crashes : 0 .. MaxCrashes, faulty : BOOLEAN]
          /\ server.crashes < MaxCrashes
          /\ server' = [server EXCEPT !.up = FALSE, !.crashes = server.crashes + 1]
      BY <1>21 DEF Crash, Shape
    <3>2. server.crashes + 1 \in 0 .. MaxCrashes
      BY <3>1, LimitsAssumption
    <3>3. server' = [up |-> FALSE, crashes |-> server.crashes + 1, faulty |-> server.faulty]
      BY <3>1
    <3> QED BY <3>1, <3>2, <3>3
  <2> QED BY <1>21, <2>2, <2>3, <2>4 DEF Crash, Shape
<1>22. ASSUME Restart PROVE Shape'
  BY <1>22, NumSame DEF Restart, Shape
<1>23. CASE UNCHANGED vars
  BY <1>23, NumSame DEF vars, Shape
<1> QED BY <1>1, <1>2, <1>3, <1>4, <1>5, <1>6, <1>7, <1>8, <1>9, <1>10,
           <1>11, <1>12, <1>13, <1>14, <1>15, <1>16, <1>17, <1>18, <1>19,
           <1>20, <1>21, <1>22, <1>23
        DEF Next, ClientStep, ServerStep

(* Every step keeps what a client refers to. *)
LEMMA ClientStays ==
  ASSUME Shape, ClientInv, [Next]_vars
  PROVE  ClientInv'
<1> USE DEF ClientInv
<1>1. ASSUME NEW c \in Clients, CallRefused(c) PROVE ClientInv'
  BY <1>1, NumSame, LimitsAssumption DEF CallRefused, Shape, ClientRec
<1>2. ASSUME NEW c \in Clients, NEW method \in Methods, Call(c, method) PROVE ClientInv'
  <2> DEFINE kept == client'[c].lease
  <2>1. Num' = Num
    BY <1>2, ShapeStep, NumSame DEF Call
  <2>2. /\ client'[c].lease \in {None, client[c].lease} /\ client'[c].pc \in {"open", "call"}
        /\ client'[c].at = client[c].at /\ client'[c].calls = client[c].calls + 1
        /\ \A d \in Clients : d # c => client'[d] = client[d]
    BY <1>2 DEF Call, Shape, ClientRec
  <2>3. client[c].calls \in Nat /\ client[c].pc = "idle"
    BY <1>2, LimitsAssumption DEF Call, Shape, ClientRec
  <2> QED BY <2>1, <2>2, <2>3
<1>3. ASSUME NEW c \in Clients, Exchange(c) PROVE ClientInv'
  <2>1. PICK sent \in {"whole", "bad"} :
          /\ Num < MaxConns /\ Num' = Num + 1
          /\ NewConn(c, sent) \in ConnRec
          /\ conn' = [j \in 1 .. Num + 1 |-> IF j = Num + 1 THEN NewConn(c, sent)
                                             ELSE conn[j]]
          /\ client' = [client EXCEPT
               ![c].pc = IF @ = "open" THEN "opening" ELSE "calling", ![c].at = Num + 1]
    BY <1>3, ExchangeAdds
  <2>2. Num \in Nat /\ MaxConns \in Nat /\ None \notin 1 .. MaxConns
    BY LimitsAssumption DEF Shape
  <2>3. Num + 1 \in 1 .. Num + 1 /\ Num + 1 # None
    BY <2>1, <2>2
  <2>4. \A x \in {None} \cup 1 .. Num : x \in {None} \cup 1 .. Num + 1
    BY <2>2
  <2>5. /\ client'[c].at = Num + 1 /\ client'[c].pc \in {"opening", "calling"}
        /\ client'[c].lease = client[c].lease /\ client'[c].calls = client[c].calls
        /\ \A d \in Clients : d # c => client'[d] = client[d]
    BY <2>1 DEF Shape, ClientRec
  <2>6. client[c].pc \notin {"idle", "dead"}
    BY <1>3 DEF Exchange
  <2> QED BY <2>1, <2>3, <2>4, <2>5, <2>6
<1>4. ASSUME NEW c \in Clients, NobodyListens(c) PROVE ClientInv'
  BY <1>4, NumSame DEF NobodyListens, Shape, ClientRec
<1>5. ASSUME NEW c \in Clients, SessionOpened(c) PROVE ClientInv'
  BY <1>5, NumSame DEF SessionOpened, Shape, ClientRec
<1>6. ASSUME NEW c \in Clients, Answered(c) PROVE ClientInv'
  BY <1>6, NumSame DEF Answered, Closed, Shape, ClientRec
<1>7. ASSUME NEW c \in Clients, LostReply(c) PROVE ClientInv'
  BY <1>7, NumSame DEF LostReply, Closed, Shape, ClientRec
<1>8. ASSUME NEW c \in Clients, Exit(c) PROVE ClientInv'
  BY <1>8, NumSame DEF Exit, Shape, ClientRec, Conns, Num
<1>9. ASSUME NEW i \in Conns, Accept(i) PROVE ClientInv'
  BY <1>9, ServerTouches DEF Touches, ServerStep
<1>10. ASSUME NEW i \in Conns, ReadRequest(i) PROVE ClientInv'
  BY <1>10, ServerTouches DEF Touches, ServerStep
<1>11. ASSUME NEW i \in Conns, Monitor(i) PROVE ClientInv'
  BY <1>11, ServerTouches DEF Touches, ServerStep
<1>12. ASSUME NEW i \in Conns, Register(i) PROVE ClientInv'
  BY <1>12, ServerTouches DEF Touches, ServerStep
<1>13. ASSUME NEW i \in Conns, HandleShort(i) PROVE ClientInv'
  BY <1>13, ServerTouches DEF Touches, ServerStep
<1>14. ASSUME NEW i \in Conns, AwaitUnlock(i) PROVE ClientInv'
  BY <1>14, ServerTouches DEF Touches, ServerStep
<1>15. ASSUME NEW i \in Conns, PromptEnds(i) PROVE ClientInv'
  BY <1>15, ServerTouches DEF Touches, ServerStep
<1>16. ASSUME NEW i \in Conns, Admit(i) PROVE ClientInv'
  BY <1>16, ServerTouches DEF Touches, ServerStep
<1>17. ASSUME NEW i \in Conns, FinishRun(i) PROVE ClientInv'
  BY <1>17, ServerTouches DEF Touches, ServerStep
<1>18. ASSUME NEW i \in Conns, Reply(i) PROVE ClientInv'
  BY <1>18, ServerTouches DEF Touches, ServerStep
<1>19. ASSUME NEW i \in Conns, ReleaseSession(i) PROVE ClientInv'
  BY <1>19, ServerTouches DEF Touches, ServerStep
<1>20. ASSUME NEW i \in Conns, StartCommand(i) PROVE ClientInv'
  BY <1>20, ServerTouches DEF Touches, ServerStep
<1>21. ASSUME Crash PROVE ClientInv'
  BY <1>21, NumSame DEF Crash, Shape, ClientRec, Conns, Num
<1>22. ASSUME Restart PROVE ClientInv'
  BY <1>22, NumSame DEF Restart
<1>23. CASE UNCHANGED vars
  BY <1>23, NumSame DEF vars
<1> QED BY <1>1, <1>2, <1>3, <1>4, <1>5, <1>6, <1>7, <1>8, <1>9, <1>10,
           <1>11, <1>12, <1>13, <1>14, <1>15, <1>16, <1>17, <1>18, <1>19,
           <1>20, <1>21, <1>22, <1>23
        DEF Next, ClientStep, ServerStep

(* The program starts in these sets. *)
LEMMA InitShape == Init => Shape /\ ClientInv
<1> SUFFICES ASSUME Init PROVE Shape /\ ClientInv
  OBVIOUS
<1>1. DOMAIN conn = {} /\ Num = 0 /\ conn = << >>
  BY FS_EmptySet DEF Init, Num
<1>2. conn \in [1 .. Num -> ConnRec] /\ Num \in 0 .. MaxConns
  BY <1>1, LimitsAssumption
<1>3. PICK used \in Used :
        /\ client = [c \in Clients |->
                       [pc |-> "idle", method |-> "Status", calls |-> used.calls[c],
                        lease |-> None, at |-> None]]
        /\ server = [up |-> TRUE, crashes |-> used.crashes, faulty |-> used.faulty]
  BY DEF Init
<1>4. used \in [calls : [Clients -> 0 .. MaxCalls], crashes : 0 .. MaxCrashes,
                faulty : BOOLEAN]
  BY <1>3, LimitsAssumption
<1>5. client \in [Clients -> ClientRec]
  BY <1>3, <1>4 DEF ClientRec, Methods
<1>6. server \in [up : BOOLEAN, crashes : 0 .. MaxCrashes, faulty : BOOLEAN]
  BY <1>3, <1>4
<1>7. /\ tracked \in [Clients -> {None} \cup 1 .. Num]
      /\ outcome \in [Clients -> [1 .. MaxCalls -> Outcomes]]
      /\ started \in [Clients -> [1 .. MaxCalls -> Nat]]
  BY DEF Init, Outcomes
<1>8. ClientInv
  BY <1>3 DEF ClientInv
<1> QED BY <1>2, <1>5, <1>6, <1>7, <1>8 DEF Shape

(* TypeOK always holds. *)
THEOREM TypesAlways == Spec => []TypeOK
<1>1. Shape /\ ClientInv /\ [Next]_vars => (Shape /\ ClientInv)'
  BY ShapeStep, ClientStays
<1>2. Shape /\ ClientInv => TypeOK
  <2> SUFFICES ASSUME Shape, ClientInv PROVE TypeOK
    OBVIOUS
  <2>1. Conns = 1 .. Num /\ DOMAIN conn = Conns
    BY DEF Conns, Num, Shape
  <2>2. client \in [Clients ->
          [pc : {"idle", "open", "opening", "call", "calling", "dead"},
           method : Methods, calls : 0 .. MaxCalls,
           lease : {None} \cup Conns, at : {None} \cup Conns]]
    BY <2>1 DEF Shape, ClientInv, ClientRec
  <2>3. \A i \in Conns : conn[i] \in
          [by : Clients, call : 1 .. MaxCalls, ask : Methods \cup {"SessionOpen"},
           mine : BOOLEAN, theirs : Ends, sent : {"nothing", "whole", "bad"},
           answer : {"none", "ok", "error"}, got : {"none", "ok", "error"},
           cancelled : BOOLEAN]
    BY <2>1 DEF Shape, ConnRec, Asks, Answers3
  <2>4. \A c \in Clients :
          (client[c].at # None) = (client[c].pc \in {"opening", "calling"})
    BY DEF ClientInv
  <2> QED BY <2>1, <2>2, <2>3, <2>4 DEF TypeOK, Shape
<1> QED BY InitShape, <1>1, <1>2, PTL DEF Spec

(* A client that is not idle is in one of its calls. *)
LEMMA BusyCalls ==
  ASSUME Shape, ClientInv, NEW c \in Clients, client[c].pc \notin {"idle", "dead"}
  PROVE  client[c].calls \in 1 .. MaxCalls
BY LimitsAssumption DEF Shape, ClientInv, ClientRec

(* Giving up a connection changes nothing of it but the client's end. *)
LEMMA ClosedKeeps ==
  ASSUME Shape, NEW i \in 1 .. Num, NEW j \in 1 .. Num
  PROVE  /\ Closed(i)[j].by = conn[j].by /\ Closed(i)[j].call = conn[j].call
         /\ Closed(i)[j].ask = conn[j].ask /\ Closed(i)[j].theirs = conn[j].theirs
         /\ Closed(i)[j].answer = conn[j].answer /\ Closed(i)[j].got = conn[j].got
         /\ Closed(i)[j].cancelled = conn[j].cancelled
BY DEF Shape, ConnRec, Closed

-----------------------------------------------------------------------------
(* Reports.                                                                *)

(* The reports that say that no command was started. *)
Negative == {"refused", "not_started", "not_applicable"}

(* A call has at most one connection besides those that open a session; it *)
(* is made once the session is there, and asks for what the client wants.  *)
(* An outcome is given to the call that ends, and a call told that nothing *)
(* was started has no connection that asks to run a command.               *)
CallsInv ==
  /\ \A c \in Clients, n \in 1 .. MaxCalls : outcome[c][n] # "none" =>
       n < client[c].calls \/ (n = client[c].calls /\ client[c].pc \in {"idle", "dead"})
  /\ \A i \in 1 .. Num : conn[i].ask # "SessionOpen" =>
       /\ conn[i].call <= client[conn[i].by].calls
       /\ conn[i].call = client[conn[i].by].calls =>
            /\ client[conn[i].by].pc \notin {"open", "opening", "call"}
            /\ conn[i].ask = client[conn[i].by].method
  /\ \A i, j \in 1 .. Num :
       /\ conn[i].ask # "SessionOpen" /\ conn[j].ask # "SessionOpen"
       /\ conn[i].by = conn[j].by /\ conn[i].call = conn[j].call
       => i = j
  /\ \A i \in 1 .. Num :
       conn[i].ask = "Run" => outcome[conn[i].by][conn[i].call] \notin Negative

(* Every step keeps it. *)
LEMMA CallsStep ==
  ASSUME Shape, ClientInv, CallsInv, [Next]_vars
  PROVE  CallsInv'
<1> USE DEF CallsInv
<1>1. ASSUME NEW c \in Clients, CallRefused(c) PROVE CallsInv'
  <2>1. Num' = Num /\ UNCHANGED conn
    BY <1>1, NumSame DEF CallRefused
  <2>2. /\ client'[c].calls = client[c].calls + 1 /\ client'[c].pc = "idle" /\ client[c].pc = "idle"
        /\ client'[c].method = client[c].method
        /\ \A d \in Clients : d # c => client'[d] = client[d]
    BY <1>1 DEF CallRefused, Shape, ClientRec
  <2>3. /\ \A n \in 1 .. MaxCalls : n # client[c].calls + 1 => outcome'[c][n] = outcome[c][n]
        /\ \A d \in Clients : d # c => outcome'[d] = outcome[d]
    BY <1>1 DEF CallRefused, Shape
  <2>4. client[c].calls \in Nat /\ MaxCalls \in Nat
    BY LimitsAssumption DEF Shape, ClientRec
  <2>5. \A i \in 1 .. Num : conn[i].by \in Clients /\ conn[i].call \in 1 .. MaxCalls
    BY DEF Shape, ConnRec
  <2>6. \A d \in Clients : client[d].calls \in Nat
    BY LimitsAssumption DEF Shape, ClientRec
  <2> QED BY <2>1, <2>2, <2>3, <2>4, <2>5, <2>6
<1>2. ASSUME NEW c \in Clients, NEW method \in Methods, Call(c, method) PROVE CallsInv'
  <2>1. conn' = conn \/ (client[c].lease # None /\ conn' = Closed(client[c].lease))
    BY <1>2 DEF Call, Closed
  <2>2. /\ Num' = Num
        /\ \A i \in 1 .. Num : /\ conn'[i].by = conn[i].by /\ conn'[i].call = conn[i].call
                               /\ conn'[i].ask = conn[i].ask
    BY <2>1, NumSame, ClosedKeeps, ClosedConns DEF ClientInv
  <2>3. /\ client'[c].calls = client[c].calls + 1 /\ client[c].pc = "idle"
        /\ \A d \in Clients : d # c => client'[d] = client[d]
    BY <1>2 DEF Call, Shape, ClientRec
  <2>4. \A d \in Clients : client[d].calls \in Nat
    BY LimitsAssumption DEF Shape, ClientRec
  <2>5. \A i \in 1 .. Num : conn[i].by \in Clients /\ conn[i].call \in 1 .. MaxCalls
    BY DEF Shape, ConnRec
  <2>6. UNCHANGED outcome /\ MaxCalls \in Nat
    BY <1>2, LimitsAssumption DEF Call
  <2> QED BY <2>2, <2>3, <2>4, <2>5, <2>6
<1>3. ASSUME NEW c \in Clients, Exchange(c) PROVE CallsInv'
  <2>1. PICK sent \in {"whole", "bad"} :
          /\ Num < MaxConns /\ Num' = Num + 1
          /\ NewConn(c, sent) \in ConnRec
          /\ conn' = [j \in 1 .. Num + 1 |-> IF j = Num + 1 THEN NewConn(c, sent)
                                             ELSE conn[j]]
          /\ client' = [client EXCEPT
               ![c].pc = IF @ = "open" THEN "opening" ELSE "calling", ![c].at = Num + 1]
    BY <1>3, ExchangeAdds
  <2>2. Num \in Nat /\ MaxConns \in Nat /\ None \notin 1 .. MaxConns
    BY LimitsAssumption DEF Shape
  <2>3. UNCHANGED outcome /\ client[c].pc \in {"open", "call"}
    BY <1>3 DEF Exchange
  <2>4. /\ client'[c].calls = client[c].calls /\ client'[c].method = client[c].method
        /\ client'[c].pc = IF client[c].pc = "open" THEN "opening" ELSE "calling"
        /\ \A d \in Clients : d # c => client'[d] = client[d]
    BY <2>1 DEF Shape, ClientRec
  <2>5. /\ \A i \in 1 .. Num : conn'[i] = conn[i]
        /\ conn'[Num + 1].by = c /\ conn'[Num + 1].call = client[c].calls
        /\ conn'[Num + 1].ask = IF client[c].pc = "open" THEN "SessionOpen" ELSE client[c].method
    BY <2>1, <2>2 DEF NewConn
  <2>6. \A i \in 1 .. Num + 1 : i \in 1 .. Num \/ i = Num + 1
    BY <2>2
  <2>7. \A i \in 1 .. Num : conn[i].by \in Clients /\ conn[i].call \in 1 .. MaxCalls
    BY DEF Shape, ConnRec
  <2>8. client[c].calls \in 1 .. MaxCalls
    BY <2>3, BusyCalls
  <2>9. outcome[c][client[c].calls] = "none"
    BY <2>3, <2>8
  <2>10. \A i \in 1 .. Num : conn[i].by = c /\ conn[i].ask # "SessionOpen" =>
           conn[i].call # client[c].calls
    BY <2>3
  <2>11. conn'[Num + 1].ask # "SessionOpen" =>
           conn'[Num + 1].ask = client[c].method /\ client'[c].pc = "calling"
    BY <2>3, <2>4, <2>5
  <2>12. \A n \in 1 .. MaxCalls, d \in Clients : outcome'[d][n] # "none" =>
          n < client'[d].calls \/ (n = client'[d].calls /\ client'[d].pc \in {"idle", "dead"})
    BY <2>3, <2>4
  <2>13. \A i \in 1 .. Num + 1 : conn'[i].ask # "SessionOpen" =>
          /\ conn'[i].call <= client'[conn'[i].by].calls
          /\ conn'[i].call = client'[conn'[i].by].calls =>
               /\ client'[conn'[i].by].pc \notin {"open", "opening", "call"}
               /\ conn'[i].ask = client'[conn'[i].by].method
    BY <2>4, <2>5, <2>6, <2>7, <2>8, <2>10, <2>11
  <2>14. \A i, j \in 1 .. Num + 1 :
          /\ conn'[i].ask # "SessionOpen" /\ conn'[j].ask # "SessionOpen"
          /\ conn'[i].by = conn'[j].by /\ conn'[i].call = conn'[j].call
          => i = j
    BY <2>5, <2>6, <2>10, <2>11
  <2>15. \A i \in 1 .. Num + 1 :
          conn'[i].ask = "Run" => outcome'[conn'[i].by][conn'[i].call] \notin Negative
    BY <2>3, <2>5, <2>6, <2>9 DEF Negative
  <2> QED BY <2>1, <2>12, <2>13, <2>14, <2>15
<1>4. ASSUME NEW c \in Clients, NobodyListens(c) PROVE CallsInv'
  <2>1. client[c].calls \in 1 .. MaxCalls /\ client[c].pc \in {"open", "call"}
    BY <1>4, BusyCalls DEF NobodyListens
  <2>2. /\ client'[c].calls = client[c].calls /\ client'[c].method = client[c].method
        /\ client'[c].pc = "idle"
        /\ \A d \in Clients : d # c => client'[d] = client[d]
    BY <1>4 DEF NobodyListens, Shape, ClientRec
  <2>3. /\ Num' = Num
        /\ \A i \in 1 .. Num : /\ conn'[i].by = conn[i].by /\ conn'[i].call = conn[i].call
                               /\ conn'[i].ask = conn[i].ask
    BY <1>4, NumSame DEF NobodyListens, Closed, Shape, ConnRec, ClientInv
  <2>4. /\ \A n \in 1 .. MaxCalls : n # client[c].calls => outcome'[c][n] = outcome[c][n]
        /\ \A d \in Clients : d # c => outcome'[d] = outcome[d]
        /\ outcome'[c][client[c].calls] = Failure(c)
    BY <1>4, <2>1 DEF NobodyListens, Ended, Shape
  <2>5. \A i \in 1 .. Num : conn[i].by \in Clients /\ conn[i].call \in 1 .. MaxCalls
    BY DEF Shape, ConnRec
  <2>6. \A i \in 1 .. Num : conn[i].ask = "Run" /\ conn[i].by = c /\ conn[i].call = client[c].calls
          => outcome'[c][client[c].calls] \notin Negative
    BY <2>1, <2>4 DEF Negative, Failure
  <2>7. \A i \in 1 .. Num :
          conn'[i].ask = "Run" => outcome'[conn'[i].by][conn'[i].call] \notin Negative
    BY <2>3, <2>4, <2>5, <2>6
  <2>8. \A d \in Clients, n \in 1 .. MaxCalls : outcome'[d][n] # "none" =>
          n < client'[d].calls \/ (n = client'[d].calls /\ client'[d].pc \in {"idle", "dead"})
    BY <2>2, <2>4
  <2>9. \A i \in 1 .. Num : conn'[i].ask # "SessionOpen" =>
          /\ conn'[i].call <= client'[conn'[i].by].calls
          /\ conn'[i].call = client'[conn'[i].by].calls =>
               /\ client'[conn'[i].by].pc \notin {"open", "opening", "call"}
               /\ conn'[i].ask = client'[conn'[i].by].method
    BY <2>2, <2>3, <2>5
  <2> QED BY <2>3, <2>7, <2>8, <2>9
<1>5. ASSUME NEW c \in Clients, SessionOpened(c) PROVE CallsInv'
  <2>1. Num' = Num /\ UNCHANGED <<conn, outcome>> /\ client[c].pc = "opening"
    BY <1>5, NumSame DEF SessionOpened
  <2>2. /\ client'[c].calls = client[c].calls /\ client'[c].method = client[c].method
        /\ client'[c].pc = "call"
        /\ \A d \in Clients : d # c => client'[d] = client[d]
    BY <1>5 DEF SessionOpened, Shape, ClientRec
  <2>3. \A i \in 1 .. Num : conn[i].by \in Clients
    BY DEF Shape, ConnRec
  <2> QED BY <2>1, <2>2, <2>3
<1>6. ASSUME NEW c \in Clients, Answered(c) PROVE CallsInv'
  <2>1. client[c].calls \in 1 .. MaxCalls /\ client[c].pc \in {"opening", "calling"}
    BY <1>6, BusyCalls DEF Answered
  <2>2. /\ client'[c].calls = client[c].calls /\ client'[c].method = client[c].method
        /\ client'[c].pc = "idle"
        /\ \A d \in Clients : d # c => client'[d] = client[d]
    BY <1>6 DEF Answered, Shape, ClientRec
  <2>3. /\ Num' = Num
        /\ \A i \in 1 .. Num : /\ conn'[i].by = conn[i].by /\ conn'[i].call = conn[i].call
                               /\ conn'[i].ask = conn[i].ask
    BY <1>6, NumSame DEF Answered, Closed, Shape, ConnRec, ClientInv
  <2>4. /\ \A n \in 1 .. MaxCalls : n # client[c].calls => outcome'[c][n] = outcome[c][n]
        /\ \A d \in Clients : d # c => outcome'[d] = outcome[d]
        /\ outcome'[c][client[c].calls] = IF conn[client[c].at].got = "ok" THEN "ok" ELSE "service"
    BY <1>6, <2>1 DEF Answered, Ended, Shape
  <2>5. \A i \in 1 .. Num : conn[i].by \in Clients /\ conn[i].call \in 1 .. MaxCalls
    BY DEF Shape, ConnRec
  <2>6. \A i \in 1 .. Num : conn[i].ask = "Run" /\ conn[i].by = c /\ conn[i].call = client[c].calls
          => outcome'[c][client[c].calls] \notin Negative
    BY <2>1, <2>4 DEF Negative, Failure
  <2>7. \A i \in 1 .. Num :
          conn'[i].ask = "Run" => outcome'[conn'[i].by][conn'[i].call] \notin Negative
    BY <2>3, <2>4, <2>5, <2>6
  <2>8. \A d \in Clients, n \in 1 .. MaxCalls : outcome'[d][n] # "none" =>
          n < client'[d].calls \/ (n = client'[d].calls /\ client'[d].pc \in {"idle", "dead"})
    BY <2>2, <2>4
  <2>9. \A i \in 1 .. Num : conn'[i].ask # "SessionOpen" =>
          /\ conn'[i].call <= client'[conn'[i].by].calls
          /\ conn'[i].call = client'[conn'[i].by].calls =>
               /\ client'[conn'[i].by].pc \notin {"open", "opening", "call"}
               /\ conn'[i].ask = client'[conn'[i].by].method
    BY <2>2, <2>3, <2>5
  <2> QED BY <2>3, <2>7, <2>8, <2>9
<1>7. ASSUME NEW c \in Clients, LostReply(c) PROVE CallsInv'
  <2>1. client[c].calls \in 1 .. MaxCalls /\ client[c].pc \in {"opening", "calling"}
    BY <1>7, BusyCalls DEF LostReply
  <2>2. /\ client'[c].calls = client[c].calls /\ client'[c].method = client[c].method
        /\ client'[c].pc = "idle"
        /\ \A d \in Clients : d # c => client'[d] = client[d]
    BY <1>7 DEF LostReply, Shape, ClientRec
  <2>3. /\ Num' = Num
        /\ \A i \in 1 .. Num : /\ conn'[i].by = conn[i].by /\ conn'[i].call = conn[i].call
                               /\ conn'[i].ask = conn[i].ask
    BY <1>7, NumSame DEF LostReply, Closed, Shape, ConnRec, ClientInv
  <2>4. /\ \A n \in 1 .. MaxCalls : n # client[c].calls => outcome'[c][n] = outcome[c][n]
        /\ \A d \in Clients : d # c => outcome'[d] = outcome[d]
        /\ outcome'[c][client[c].calls] = Failure(c)
    BY <1>7, <2>1 DEF LostReply, Ended, Shape
  <2>5. \A i \in 1 .. Num : conn[i].by \in Clients /\ conn[i].call \in 1 .. MaxCalls
    BY DEF Shape, ConnRec
  <2>6. \A i \in 1 .. Num : conn[i].ask = "Run" /\ conn[i].by = c /\ conn[i].call = client[c].calls
          => outcome'[c][client[c].calls] \notin Negative
    BY <2>1, <2>4 DEF Negative, Failure
  <2>7. \A i \in 1 .. Num :
          conn'[i].ask = "Run" => outcome'[conn'[i].by][conn'[i].call] \notin Negative
    BY <2>3, <2>4, <2>5, <2>6
  <2>8. \A d \in Clients, n \in 1 .. MaxCalls : outcome'[d][n] # "none" =>
          n < client'[d].calls \/ (n = client'[d].calls /\ client'[d].pc \in {"idle", "dead"})
    BY <2>2, <2>4
  <2>9. \A i \in 1 .. Num : conn'[i].ask # "SessionOpen" =>
          /\ conn'[i].call <= client'[conn'[i].by].calls
          /\ conn'[i].call = client'[conn'[i].by].calls =>
               /\ client'[conn'[i].by].pc \notin {"open", "opening", "call"}
               /\ conn'[i].ask = client'[conn'[i].by].method
    BY <2>2, <2>3, <2>5
  <2> QED BY <2>3, <2>7, <2>8, <2>9
<1>8. ASSUME NEW c \in Clients, Exit(c) PROVE CallsInv'
  <2>1. /\ client'[c].calls = client[c].calls /\ client'[c].method = client[c].method
        /\ client'[c].pc = "dead"
        /\ \A d \in Clients : d # c => client'[d] = client[d]
    BY <1>8 DEF Exit, Shape, ClientRec
  <2>2. /\ Num' = Num
        /\ \A i \in 1 .. Num : /\ conn'[i].by = conn[i].by /\ conn'[i].call = conn[i].call
                               /\ conn'[i].ask = conn[i].ask
    BY <1>8, NumSame DEF Exit, Shape, ConnRec, Conns, Num
  <2>3. \A i \in 1 .. Num : conn[i].by \in Clients
    BY DEF Shape, ConnRec
  <2>4. UNCHANGED outcome
    BY <1>8 DEF Exit
  <2> QED BY <2>1, <2>2, <2>3, <2>4
<1>9. ASSUME NEW i \in Conns, Accept(i) PROVE CallsInv'
  BY <1>9, ServerTouches DEF Touches, ServerStep
<1>10. ASSUME NEW i \in Conns, ReadRequest(i) PROVE CallsInv'
  BY <1>10, ServerTouches DEF Touches, ServerStep
<1>11. ASSUME NEW i \in Conns, Monitor(i) PROVE CallsInv'
  BY <1>11, ServerTouches DEF Touches, ServerStep
<1>12. ASSUME NEW i \in Conns, Register(i) PROVE CallsInv'
  BY <1>12, ServerTouches DEF Touches, ServerStep
<1>13. ASSUME NEW i \in Conns, HandleShort(i) PROVE CallsInv'
  BY <1>13, ServerTouches DEF Touches, ServerStep
<1>14. ASSUME NEW i \in Conns, AwaitUnlock(i) PROVE CallsInv'
  BY <1>14, ServerTouches DEF Touches, ServerStep
<1>15. ASSUME NEW i \in Conns, PromptEnds(i) PROVE CallsInv'
  BY <1>15, ServerTouches DEF Touches, ServerStep
<1>16. ASSUME NEW i \in Conns, Admit(i) PROVE CallsInv'
  BY <1>16, ServerTouches DEF Touches, ServerStep
<1>17. ASSUME NEW i \in Conns, FinishRun(i) PROVE CallsInv'
  BY <1>17, ServerTouches DEF Touches, ServerStep
<1>18. ASSUME NEW i \in Conns, Reply(i) PROVE CallsInv'
  BY <1>18, ServerTouches DEF Touches, ServerStep
<1>19. ASSUME NEW i \in Conns, ReleaseSession(i) PROVE CallsInv'
  BY <1>19, ServerTouches DEF Touches, ServerStep
<1>20. ASSUME NEW i \in Conns, StartCommand(i) PROVE CallsInv'
  BY <1>20, ServerTouches DEF Touches, ServerStep
<1>21. ASSUME Crash PROVE CallsInv'
  <2>a. conn \in [1 .. Num -> ConnRec] /\ Conns = 1 .. Num
    BY DEF Shape, Conns, Num
  <2>b. conn' = [i \in 1 .. Num |-> [conn[i] EXCEPT !.theirs = "closed"]]
    BY <1>21, <2>a DEF Crash
  <2>c. \A i \in 1 .. Num : /\ conn'[i].by = conn[i].by /\ conn'[i].call = conn[i].call
                            /\ conn'[i].ask = conn[i].ask
    BY <2>a, <2>b DEF ConnRec
  <2>d. DOMAIN conn' = DOMAIN conn
    BY <2>a, <2>b
  <2>1. /\ Num' = Num
        /\ \A i \in 1 .. Num : /\ conn'[i].by = conn[i].by /\ conn'[i].call = conn[i].call
                               /\ conn'[i].ask = conn[i].ask
    BY <2>c, <2>d, NumSame
  <2> QED BY <1>21, <2>1 DEF Crash
<1>22. ASSUME Restart PROVE CallsInv'
  BY <1>22, NumSame DEF Restart
<1>23. CASE UNCHANGED vars
  BY <1>23, NumSame DEF vars
<1> QED BY <1>1, <1>2, <1>3, <1>4, <1>5, <1>6, <1>7, <1>8, <1>9, <1>10,
           <1>11, <1>12, <1>13, <1>14, <1>15, <1>16, <1>17, <1>18, <1>19,
           <1>20, <1>21, <1>22, <1>23
        DEF Next, ClientStep, ServerStep

(* A client's step other than an exchange changes no connection but in     *)
(* the client's end.                                                       *)
KeepsConns ==
  /\ Num' = Num /\ UNCHANGED <<tracked, started, server>>
  /\ \A i \in 1 .. Num :
       /\ conn'[i].by = conn[i].by /\ conn'[i].call = conn[i].call
       /\ conn'[i].ask = conn[i].ask /\ conn'[i].theirs = conn[i].theirs
       /\ conn'[i].answer = conn[i].answer /\ conn'[i].got = conn[i].got
       /\ conn'[i].cancelled = conn[i].cancelled

(* Each of them does. *)
LEMMA ClientKeeps ==
  ASSUME Shape, ClientInv, NEW c \in Clients,
         \/ CallRefused(c) \/ \E method \in Methods : Call(c, method)
         \/ NobodyListens(c) \/ SessionOpened(c) \/ Answered(c) \/ LostReply(c)
         \/ Exit(c)
  PROVE  KeepsConns
<1>1. CASE CallRefused(c) \/ NobodyListens(c) \/ SessionOpened(c)
  BY <1>1, NumSame DEF CallRefused, NobodyListens, SessionOpened, KeepsConns
<1>2. ASSUME NEW method \in Methods, Call(c, method) PROVE KeepsConns
  <2>1. conn' = conn \/ (client[c].lease # None /\ conn' = Closed(client[c].lease))
    BY <1>2 DEF Call, Closed
  <2>2. UNCHANGED <<tracked, started, server>>
    BY <1>2 DEF Call
  <2> QED BY <2>1, <2>2, NumSame, ClosedKeeps, ClosedConns DEF KeepsConns, ClientInv
<1>3. CASE Answered(c) \/ LostReply(c)
  <2>1. conn' = Closed(client[c].at) /\ client[c].at \in 1 .. Num
    BY <1>3 DEF Answered, LostReply, ClientInv
  <2>2. UNCHANGED <<tracked, started, server>>
    BY <1>3 DEF Answered, LostReply
  <2> QED BY <2>1, <2>2, NumSame, ClosedKeeps, ClosedConns DEF KeepsConns
<1>4. CASE Exit(c)
  <2>1. conn' \in [1 .. Num -> ConnRec] /\ Num' = Num
    BY <1>4, ShapeStep, NumSame DEF Next, Exit, Shape, Conns, Num
  <2> QED BY <1>4, <2>1 DEF Exit, KeepsConns, Shape, ConnRec, Conns, Num
<1> QED BY <1>1, <1>2, <1>3, <1>4

(* An exchange changes none of the connections that are there. *)
LEMMA ExchangeKeeps ==
  ASSUME Shape, ClientInv, NEW c \in Clients, Exchange(c)
  PROVE  /\ Num' = Num + 1 /\ Num \in Nat /\ UNCHANGED <<tracked, started>>
         /\ \A i \in 1 .. Num : conn'[i] = conn[i]
         /\ \A i \in 1 .. Num + 1 : i \in 1 .. Num \/ i = Num + 1
         /\ 1 .. Num \subseteq 1 .. Num + 1
         /\ conn'[Num + 1].theirs = "backlog" /\ conn'[Num + 1].got = "none"
         /\ conn'[Num + 1].by = c /\ conn'[Num + 1].answer = "none"
         /\ (conn'[Num + 1].ask = "SessionOpen") => client[c].pc = "open"
<1>1. PICK sent \in {"whole", "bad"} :
        /\ Num < MaxConns /\ Num' = Num + 1
        /\ conn' = [j \in 1 .. Num + 1 |-> IF j = Num + 1 THEN NewConn(c, sent) ELSE conn[j]]
  BY ExchangeAdds
<1>2. Num \in Nat /\ client[c].method # "SessionOpen"
  <2>1. client[c] \in ClientRec /\ Num \in Nat
    BY LimitsAssumption DEF Shape
  <2> QED BY <2>1 DEF ClientRec, Methods
<1>3. conn'[Num + 1] = NewConn(c, sent) /\ \A i \in 1 .. Num : conn'[i] = conn[i]
  BY <1>1, <1>2
<1>4. NewConn(c, sent).theirs = "backlog" /\ NewConn(c, sent).got = "none"
  BY DEF NewConn
<1>5. NewConn(c, sent).by = c /\ NewConn(c, sent).answer = "none"
  BY DEF NewConn
<1>6. (NewConn(c, sent).ask = "SessionOpen") => client[c].pc = "open"
  BY <1>2 DEF NewConn
<1>7. /\ \A i \in 1 .. Num + 1 : i \in 1 .. Num \/ i = Num + 1
      /\ 1 .. Num \subseteq 1 .. Num + 1
  BY <1>2
<1> QED BY <1>1, <1>2, <1>3, <1>4, <1>5, <1>6, <1>7 DEF Exchange

(* Where the command of a Run may be started, and where it may have been. *)
Past == {"started", "reply", "held", "closed"}

(* What a worker does fits what the request asked for. *)
PlaceInv ==
  \A i \in 1 .. Num :
    /\ conn[i].theirs \in {"prompt", "ready"} => NeedsSession(conn[i].ask)
    /\ conn[i].theirs \in ActiveRun => conn[i].ask = "Run"
    /\ conn[i].theirs = "held" => conn[i].ask = "SessionOpen"

(* A command that was started was started once, by the connection of its   *)
(* call that asks to run it, which is past that point.                     *)
StartInv ==
  \A c \in Clients, n \in 1 .. MaxCalls : started[c][n] # 0 =>
    /\ started[c][n] = 1
    /\ \E i \in 1 .. Num : /\ conn[i].by = c /\ conn[i].call = n /\ conn[i].ask = "Run"
                           /\ conn[i].theirs \in Past

(* How a worker's connection moves in each step. *)
Stays(i) == /\ conn'[i].answer = conn[i].answer /\ conn'[i].got = conn[i].got
            /\ conn'[i].cancelled = conn[i].cancelled

(* The worker leaves one of these answers to be sent. *)
AnswersWith(i, answers) ==
  /\ conn'[i].theirs = "reply" /\ conn'[i].answer \in answers
  /\ conn'[i].got = conn[i].got /\ conn'[i].cancelled = conn[i].cancelled

(* The two ways in which most of them do. *)
LEMMA GoesMoves ==
  ASSUME Shape, NEW i \in Conns, NEW e, Goes(i, e)
  PROVE  conn'[i].theirs = e /\ Stays(i)
BY DEF Stays, Shape, ConnRec, Conns, Num, Goes

(* The other way. *)
LEMMA AnswersMoves ==
  ASSUME Shape, NEW i \in Conns, NEW a, Answers(i, a)
  PROVE  conn'[i].answer = a /\ AnswersWith(i, {a})
BY DEF AnswersWith, Shape, ConnRec, Conns, Num, Answers

(* All of them. *)
LEMMA Moves ==
  ASSUME Shape, NEW i \in Conns
  PROVE  /\ Accept(i) => /\ conn[i].theirs = "backlog"
                         /\ conn'[i].theirs \in {"reading", "closed"} /\ Stays(i)
         /\ ReadRequest(i) =>
              /\ conn[i].theirs = "reading" /\ conn'[i].theirs \in {"handling", "closed"}
              /\ conn'[i].theirs # "closed" => Stays(i)
              /\ conn'[i].answer = conn[i].answer /\ conn'[i].cancelled = conn[i].cancelled
         /\ Monitor(i) =>
              /\ conn'[i].theirs = conn[i].theirs /\ conn'[i].answer = conn[i].answer
              /\ conn'[i].got = conn[i].got /\ conn'[i].cancelled
              /\ conn[i].theirs \notin {"backlog", "reading", "closed"}
         /\ Register(i) => /\ conn[i].theirs = "handling" /\ conn[i].ask = "SessionOpen"
                           /\ AnswersWith(i, {"ok", "error"})
         /\ HandleShort(i) => /\ conn[i].theirs = "handling" /\ conn[i].ask \in {"Status", "Lock"}
                              /\ AnswersWith(i, {"ok", "error"})
         /\ AwaitUnlock(i) => /\ conn[i].theirs = "handling" /\ NeedsSession(conn[i].ask)
                              /\ \/ conn'[i].theirs \in {"ready", "prompt"} /\ Stays(i)
                                 \/ AnswersWith(i, {"error"})
         /\ PromptEnds(i) => /\ conn[i].theirs = "prompt"
                             /\ \/ conn'[i].theirs = "ready" /\ Stays(i)
                                \/ AnswersWith(i, {"error"})
         /\ Admit(i) => /\ conn[i].theirs = "ready"
                        /\ \/ conn'[i].theirs = "active" /\ Stays(i) /\ conn[i].ask = "Run"
                           \/ AnswersWith(i, {"ok", "error"})
         /\ FinishRun(i) => conn[i].theirs \in ActiveRun /\ AnswersWith(i, {"ok", "error"})
         /\ Reply(i) => /\ conn[i].theirs = "reply" /\ conn'[i].answer = conn[i].answer
                        /\ \/ /\ conn'[i].theirs = "held" /\ conn[i].answer = "ok"
                              /\ conn[i].ask = "SessionOpen" /\ conn'[i].got = "ok"
                              /\ conn'[i].cancelled = conn[i].cancelled
                           \/ /\ conn'[i].theirs = "closed"
                              /\ conn[i].ask = "SessionOpen" => conn'[i].cancelled
         /\ ReleaseSession(i) => /\ conn[i].theirs = "held" /\ conn[i].cancelled
                                 /\ conn'[i].theirs = "closed" /\ Stays(i)
         /\ StartCommand(i) => /\ conn[i].theirs = "active" /\ conn'[i].theirs = "started"
                               /\ Stays(i)
<1>1. ASSUME Accept(i)
      PROVE  /\ conn[i].theirs = "backlog"
             /\ conn'[i].theirs \in {"reading", "closed"} /\ Stays(i)
  BY <1>1 DEF Accept, Stays, Shape, ConnRec, Conns, Num
<1>2. ASSUME ReadRequest(i)
      PROVE  /\ conn[i].theirs = "reading" /\ conn'[i].theirs \in {"handling", "closed"}
             /\ conn'[i].theirs # "closed" => Stays(i)
             /\ conn'[i].answer = conn[i].answer /\ conn'[i].cancelled = conn[i].cancelled
  BY <1>2 DEF ReadRequest, Goes, Stays, Shape, ConnRec, Conns, Num
<1>3. ASSUME Monitor(i)
      PROVE  /\ conn'[i].theirs = conn[i].theirs /\ conn'[i].answer = conn[i].answer
             /\ conn'[i].got = conn[i].got /\ conn'[i].cancelled
             /\ conn[i].theirs \notin {"backlog", "reading", "closed"}
  BY <1>3 DEF Monitor, Stays, Shape, ConnRec, Conns, Num
<1>4. ASSUME Register(i)
      PROVE  /\ conn[i].theirs = "handling" /\ conn[i].ask = "SessionOpen"
             /\ AnswersWith(i, {"ok", "error"})
  BY <1>4, AnswersMoves DEF Register, AnswersWith
<1>5. ASSUME HandleShort(i)
      PROVE  /\ conn[i].theirs = "handling" /\ conn[i].ask \in {"Status", "Lock"}
             /\ AnswersWith(i, {"ok", "error"})
  BY <1>5, AnswersMoves DEF HandleShort, AnswersWith
<1>6. ASSUME AwaitUnlock(i)
      PROVE  /\ conn[i].theirs = "handling" /\ NeedsSession(conn[i].ask)
             /\ \/ conn'[i].theirs \in {"ready", "prompt"} /\ Stays(i)
                \/ AnswersWith(i, {"error"})
  BY <1>6, GoesMoves, AnswersMoves DEF AwaitUnlock, AnswersWith
<1>7. ASSUME PromptEnds(i)
      PROVE  /\ conn[i].theirs = "prompt"
             /\ \/ conn'[i].theirs = "ready" /\ Stays(i)
                \/ AnswersWith(i, {"error"})
  BY <1>7, GoesMoves, AnswersMoves DEF PromptEnds, AnswersWith
<1>8. ASSUME Admit(i)
      PROVE  /\ conn[i].theirs = "ready"
             /\ \/ conn'[i].theirs = "active" /\ Stays(i) /\ conn[i].ask = "Run"
                \/ AnswersWith(i, {"ok", "error"})
  BY <1>8, GoesMoves, AnswersMoves DEF Admit, AnswersWith
<1>9. ASSUME FinishRun(i) PROVE conn[i].theirs \in ActiveRun /\ AnswersWith(i, {"ok", "error"})
  BY <1>9, AnswersMoves DEF FinishRun, AnswersWith
<1>10. ASSUME Reply(i)
      PROVE  /\ conn[i].theirs = "reply" /\ conn'[i].answer = conn[i].answer
             /\ \/ /\ conn'[i].theirs = "held" /\ conn[i].answer = "ok"
                   /\ conn[i].ask = "SessionOpen" /\ conn'[i].got = "ok"
                   /\ conn'[i].cancelled = conn[i].cancelled
                \/ /\ conn'[i].theirs = "closed"
                   /\ conn[i].ask = "SessionOpen" => conn'[i].cancelled
  BY <1>10 DEF Reply, Stays, Shape, ConnRec, Conns, Num
<1>11. ASSUME ReleaseSession(i)
      PROVE  /\ conn[i].theirs = "held" /\ conn[i].cancelled
             /\ conn'[i].theirs = "closed" /\ Stays(i)
  BY <1>11, GoesMoves DEF ReleaseSession
<1>12. ASSUME StartCommand(i)
      PROVE  /\ conn[i].theirs = "active" /\ conn'[i].theirs = "started"
             /\ Stays(i)
  BY <1>12, GoesMoves DEF StartCommand
<1> QED BY <1>1, <1>2, <1>3, <1>4, <1>5, <1>6, <1>7, <1>8,
           <1>9, <1>10, <1>11, <1>12

(* Every step keeps the one *)
LEMMA PlaceStep ==
  ASSUME Shape, ClientInv, PlaceInv, [Next]_vars
  PROVE  PlaceInv'
<1> USE DEF PlaceInv, ActiveRun, NeedsSession
<1>1. ASSUME NEW c \in Clients, CallRefused(c) PROVE PlaceInv'
  BY <1>1, ClientKeeps DEF KeepsConns
<1>2. ASSUME NEW c \in Clients, NEW method \in Methods, Call(c, method) PROVE PlaceInv'
  BY <1>2, ClientKeeps DEF KeepsConns
<1>3. ASSUME NEW c \in Clients, Exchange(c) PROVE PlaceInv'
  BY <1>3, ExchangeKeeps
<1>4. ASSUME NEW c \in Clients, NobodyListens(c) PROVE PlaceInv'
  BY <1>4, ClientKeeps DEF KeepsConns
<1>5. ASSUME NEW c \in Clients, SessionOpened(c) PROVE PlaceInv'
  BY <1>5, ClientKeeps DEF KeepsConns
<1>6. ASSUME NEW c \in Clients, Answered(c) PROVE PlaceInv'
  BY <1>6, ClientKeeps DEF KeepsConns
<1>7. ASSUME NEW c \in Clients, LostReply(c) PROVE PlaceInv'
  BY <1>7, ClientKeeps DEF KeepsConns
<1>8. ASSUME NEW c \in Clients, Exit(c) PROVE PlaceInv'
  BY <1>8, ClientKeeps DEF KeepsConns
<1>9. ASSUME NEW i \in Conns, Accept(i) PROVE PlaceInv'
  BY <1>9, ServerTouches, Moves DEF Touches, ServerStep, AnswersWith
<1>10. ASSUME NEW i \in Conns, ReadRequest(i) PROVE PlaceInv'
  BY <1>10, ServerTouches, Moves DEF Touches, ServerStep, AnswersWith
<1>11. ASSUME NEW i \in Conns, Monitor(i) PROVE PlaceInv'
  BY <1>11, ServerTouches, Moves DEF Touches, ServerStep, AnswersWith
<1>12. ASSUME NEW i \in Conns, Register(i) PROVE PlaceInv'
  BY <1>12, ServerTouches, Moves DEF Touches, ServerStep, AnswersWith
<1>13. ASSUME NEW i \in Conns, HandleShort(i) PROVE PlaceInv'
  BY <1>13, ServerTouches, Moves DEF Touches, ServerStep, AnswersWith
<1>14. ASSUME NEW i \in Conns, AwaitUnlock(i) PROVE PlaceInv'
  BY <1>14, ServerTouches, Moves DEF Touches, ServerStep, AnswersWith
<1>15. ASSUME NEW i \in Conns, PromptEnds(i) PROVE PlaceInv'
  BY <1>15, ServerTouches, Moves DEF Touches, ServerStep, AnswersWith
<1>16. ASSUME NEW i \in Conns, Admit(i) PROVE PlaceInv'
  BY <1>16, ServerTouches, Moves DEF Touches, ServerStep, AnswersWith
<1>17. ASSUME NEW i \in Conns, FinishRun(i) PROVE PlaceInv'
  BY <1>17, ServerTouches, Moves DEF Touches, ServerStep, AnswersWith
<1>18. ASSUME NEW i \in Conns, Reply(i) PROVE PlaceInv'
  BY <1>18, ServerTouches, Moves DEF Touches, ServerStep, AnswersWith
<1>19. ASSUME NEW i \in Conns, ReleaseSession(i) PROVE PlaceInv'
  BY <1>19, ServerTouches, Moves DEF Touches, ServerStep, AnswersWith
<1>20. ASSUME NEW i \in Conns, StartCommand(i) PROVE PlaceInv'
  BY <1>20, ServerTouches, Moves DEF Touches, ServerStep, AnswersWith
<1>21. ASSUME Crash PROVE PlaceInv'
  BY <1>21, NumSame DEF Crash, Shape, ConnRec, Conns, Num
<1>22. ASSUME Restart PROVE PlaceInv'
  BY <1>22, NumSame DEF Restart
<1>23. CASE UNCHANGED vars
  BY <1>23, NumSame DEF vars
<1> QED BY <1>1, <1>2, <1>3, <1>4, <1>5, <1>6, <1>7, <1>8, <1>9, <1>10,
           <1>11, <1>12, <1>13, <1>14, <1>15, <1>16, <1>17, <1>18, <1>19,
           <1>20, <1>21, <1>22, <1>23
        DEF Next, ClientStep, ServerStep

(* and the other. *)
LEMMA StartStep ==
  ASSUME Shape, ClientInv, CallsInv, PlaceInv, StartInv, [Next]_vars
  PROVE  StartInv'
<1> USE DEF StartInv
<1>1. ASSUME NEW c \in Clients, CallRefused(c) PROVE StartInv'
  BY <1>1, ClientKeeps DEF KeepsConns
<1>2. ASSUME NEW c \in Clients, NEW method \in Methods, Call(c, method) PROVE StartInv'
  BY <1>2, ClientKeeps DEF KeepsConns
<1>3. ASSUME NEW c \in Clients, Exchange(c) PROVE StartInv'
  BY <1>3, ExchangeKeeps
<1>4. ASSUME NEW c \in Clients, NobodyListens(c) PROVE StartInv'
  BY <1>4, ClientKeeps DEF KeepsConns
<1>5. ASSUME NEW c \in Clients, SessionOpened(c) PROVE StartInv'
  BY <1>5, ClientKeeps DEF KeepsConns
<1>6. ASSUME NEW c \in Clients, Answered(c) PROVE StartInv'
  BY <1>6, ClientKeeps DEF KeepsConns
<1>7. ASSUME NEW c \in Clients, LostReply(c) PROVE StartInv'
  BY <1>7, ClientKeeps DEF KeepsConns
<1>8. ASSUME NEW c \in Clients, Exit(c) PROVE StartInv'
  BY <1>8, ClientKeeps DEF KeepsConns
<1>9. ASSUME NEW i \in Conns, Accept(i) PROVE StartInv'
  <2>1. Touches(i) /\ UNCHANGED started
    BY <1>9, ServerTouches DEF ServerStep, Accept
  <2>2. conn[i].theirs \in Past => conn'[i].theirs \in Past
    BY <1>9, Moves DEF Past, ActiveRun, AnswersWith
  <2> QED BY <2>1, <2>2 DEF Touches
<1>10. ASSUME NEW i \in Conns, ReadRequest(i) PROVE StartInv'
  <2>1. Touches(i) /\ UNCHANGED started
    BY <1>10, ServerTouches DEF ServerStep, ReadRequest
  <2>2. conn[i].theirs \in Past => conn'[i].theirs \in Past
    BY <1>10, Moves DEF Past, ActiveRun, AnswersWith
  <2> QED BY <2>1, <2>2 DEF Touches
<1>11. ASSUME NEW i \in Conns, Monitor(i) PROVE StartInv'
  <2>1. Touches(i) /\ UNCHANGED started
    BY <1>11, ServerTouches DEF ServerStep, Monitor
  <2>2. conn[i].theirs \in Past => conn'[i].theirs \in Past
    BY <1>11, Moves DEF Past, ActiveRun, AnswersWith
  <2> QED BY <2>1, <2>2 DEF Touches
<1>12. ASSUME NEW i \in Conns, Register(i) PROVE StartInv'
  <2>1. Touches(i) /\ UNCHANGED started
    BY <1>12, ServerTouches DEF ServerStep, Register
  <2>2. conn[i].theirs \in Past => conn'[i].theirs \in Past
    BY <1>12, Moves DEF Past, ActiveRun, AnswersWith
  <2> QED BY <2>1, <2>2 DEF Touches
<1>13. ASSUME NEW i \in Conns, HandleShort(i) PROVE StartInv'
  <2>1. Touches(i) /\ UNCHANGED started
    BY <1>13, ServerTouches DEF ServerStep, HandleShort
  <2>2. conn[i].theirs \in Past => conn'[i].theirs \in Past
    BY <1>13, Moves DEF Past, ActiveRun, AnswersWith
  <2> QED BY <2>1, <2>2 DEF Touches
<1>14. ASSUME NEW i \in Conns, AwaitUnlock(i) PROVE StartInv'
  <2>1. Touches(i) /\ UNCHANGED started
    BY <1>14, ServerTouches DEF ServerStep, AwaitUnlock
  <2>2. conn[i].theirs \in Past => conn'[i].theirs \in Past
    BY <1>14, Moves DEF Past, ActiveRun, AnswersWith
  <2> QED BY <2>1, <2>2 DEF Touches
<1>15. ASSUME NEW i \in Conns, PromptEnds(i) PROVE StartInv'
  <2>1. Touches(i) /\ UNCHANGED started
    BY <1>15, ServerTouches DEF ServerStep, PromptEnds
  <2>2. conn[i].theirs \in Past => conn'[i].theirs \in Past
    BY <1>15, Moves DEF Past, ActiveRun, AnswersWith
  <2> QED BY <2>1, <2>2 DEF Touches
<1>16. ASSUME NEW i \in Conns, Admit(i) PROVE StartInv'
  <2>1. Touches(i) /\ UNCHANGED started
    BY <1>16, ServerTouches DEF ServerStep, Admit
  <2>2. conn[i].theirs \in Past => conn'[i].theirs \in Past
    BY <1>16, Moves DEF Past, ActiveRun, AnswersWith
  <2> QED BY <2>1, <2>2 DEF Touches
<1>17. ASSUME NEW i \in Conns, FinishRun(i) PROVE StartInv'
  <2>1. Touches(i) /\ UNCHANGED started
    BY <1>17, ServerTouches DEF ServerStep, FinishRun
  <2>2. conn[i].theirs \in Past => conn'[i].theirs \in Past
    BY <1>17, Moves DEF Past, ActiveRun, AnswersWith
  <2> QED BY <2>1, <2>2 DEF Touches
<1>18. ASSUME NEW i \in Conns, Reply(i) PROVE StartInv'
  <2>1. Touches(i) /\ UNCHANGED started
    BY <1>18, ServerTouches DEF ServerStep, Reply
  <2>2. conn[i].theirs \in Past => conn'[i].theirs \in Past
    BY <1>18, Moves DEF Past, ActiveRun, AnswersWith
  <2> QED BY <2>1, <2>2 DEF Touches
<1>19. ASSUME NEW i \in Conns, ReleaseSession(i) PROVE StartInv'
  <2>1. Touches(i) /\ UNCHANGED started
    BY <1>19, ServerTouches DEF ServerStep, ReleaseSession
  <2>2. conn[i].theirs \in Past => conn'[i].theirs \in Past
    BY <1>19, Moves DEF Past, ActiveRun, AnswersWith
  <2> QED BY <2>1, <2>2 DEF Touches
<1>20. ASSUME NEW i \in Conns, StartCommand(i) PROVE StartInv'
  <2>1. Touches(i) /\ i \in 1 .. Num
    BY <1>20, ServerTouches DEF Conns, Num
  <2>2. conn[i].theirs = "active" /\ conn'[i].theirs = "started" /\ conn[i].ask = "Run"
    BY <1>20 DEF StartCommand, Goes, Shape, ConnRec, Conns, Num, PlaceInv, ActiveRun
  <2>3. conn[i].by \in Clients /\ conn[i].call \in 1 .. MaxCalls
    BY <2>1 DEF Shape, ConnRec
  <2>4. started[conn[i].by][conn[i].call] = 0
    <3>1. \A j \in 1 .. Num : conn[j].by = conn[i].by /\ conn[j].call = conn[i].call /\ conn[j].ask = "Run"
            => j = i
      BY <2>1, <2>2 DEF CallsInv
    <3> QED BY <2>2, <2>3, <3>1 DEF Past
  <2>5. /\ started'[conn[i].by][conn[i].call] = 1
        /\ \A c \in Clients, n \in 1 .. MaxCalls :
             c # conn[i].by \/ n # conn[i].call => started'[c][n] = started[c][n]
    <3>1. started \in [Clients -> [1 .. MaxCalls -> Nat]]
      BY DEF Shape
    <3>2. started' = [started EXCEPT ![conn[i].by][conn[i].call] = @ + 1]
      BY <1>20 DEF StartCommand
    <3>3. started' = [started EXCEPT ![conn[i].by] = [@ EXCEPT ![conn[i].call] = 1]]
      BY <2>4, <3>2
    <3> HIDE DEF StartInv
    <3> QED BY <2>3, <3>1, <3>3
  <2>6. "started" \in Past
    BY DEF Past
  <2>7. ASSUME NEW c \in Clients, NEW n \in 1 .. MaxCalls, started'[c][n] # 0
        PROVE  /\ started'[c][n] = 1
               /\ \E j \in 1 .. Num : /\ conn'[j].by = c /\ conn'[j].call = n
                                      /\ conn'[j].ask = "Run" /\ conn'[j].theirs \in Past
    <3>1. CASE c = conn[i].by /\ n = conn[i].call
      BY <2>1, <2>2, <2>5, <2>6, <3>1 DEF Touches
    <3>2. CASE c # conn[i].by \/ n # conn[i].call
      <4>1. started[c][n] # 0
        BY <2>5, <2>7, <3>2
      <4>2. PICK j \in 1 .. Num : conn[j].by = c /\ conn[j].call = n /\ conn[j].ask = "Run" /\ conn[j].theirs \in Past
        BY <4>1
      <4>3. j # i
        BY <4>2, <3>2
      <4> QED BY <2>1, <2>5, <3>2, <4>1, <4>2, <4>3 DEF Touches
    <3> QED BY <3>1, <3>2
  <2>8. Num' = Num
    BY <2>1 DEF Touches
  <2> QED BY <2>7, <2>8
<1>21. ASSUME Crash PROVE StartInv'
  <2>1. /\ Num' = Num /\ UNCHANGED started
        /\ \A i \in 1 .. Num : /\ conn'[i].by = conn[i].by /\ conn'[i].call = conn[i].call
                               /\ conn'[i].ask = conn[i].ask /\ conn'[i].theirs = "closed"
    <3>1. conn' = [i \in 1 .. Num |-> [conn[i] EXCEPT !.theirs = "closed"]]
      BY <1>21 DEF Crash, Conns, Num
    <3>2. \A i \in 1 .. Num : conn[i] \in ConnRec
      BY DEF Shape
    <3>3. Num' = Num /\ UNCHANGED started
      BY <1>21, <3>1, NumSame DEF Crash, Shape
    <3> HIDE DEF StartInv
    <3> QED BY <3>1, <3>2, <3>3 DEF ConnRec
  <2>2. "closed" \in Past
    BY DEF Past
  <2> QED BY <2>1, <2>2
<1>22. ASSUME Restart PROVE StartInv'
  BY <1>22, NumSame DEF Restart
<1>23. CASE UNCHANGED vars
  BY <1>23, NumSame DEF vars
<1> QED BY <1>1, <1>2, <1>3, <1>4, <1>5, <1>6, <1>7, <1>8, <1>9, <1>10,
           <1>11, <1>12, <1>13, <1>14, <1>15, <1>16, <1>17, <1>18, <1>19,
           <1>20, <1>21, <1>22, <1>23
        DEF Next, ClientStep, ServerStep

(* What the invariant of the reports consists of. *)
ReportInv == Shape /\ ClientInv /\ CallsInv /\ PlaceInv /\ StartInv

(* No command is started twice, and a caller that was told its command did *)
(* not start is right, then and later (call_tool, local_tool_error).       *)
THEOREM ReportsAreTrue == Spec => []ReportIsTrue
<1>1. Init => ReportInv
  <2> SUFFICES ASSUME Init PROVE ReportInv
    OBVIOUS
  <2>1. Shape /\ ClientInv
    BY InitShape
  <2>2. Num = 0
    BY FS_EmptySet DEF Init, Num
  <2>3. CallsInv /\ PlaceInv /\ StartInv
    BY <2>2 DEF Init, CallsInv, PlaceInv, StartInv, Outcomes
  <2> QED BY <2>1, <2>3 DEF ReportInv
<1>2. ReportInv /\ [Next]_vars => ReportInv'
  BY ShapeStep, ClientStays, CallsStep, PlaceStep, StartStep DEF ReportInv
<1>3. ReportInv => ReportIsTrue
  <2> SUFFICES ASSUME ReportInv, NEW c \in Clients, NEW n \in 1 .. MaxCalls
               PROVE  started[c][n] <= 1 /\ (outcome[c][n] \in Negative => started[c][n] = 0)
    BY DEF ReportIsTrue, Negative
  <2>1. started[c][n] # 0 => started[c][n] = 1 /\ outcome[c][n] \notin Negative
    BY DEF ReportInv, StartInv, CallsInv
  <2> QED BY <2>1
<1> QED BY <1>1, <1>2, <1>3, PTL DEF Spec

-----------------------------------------------------------------------------
(* Sessions.                                                               *)

(* A connection whose request has not been handled, one that asks for a session. *)
Unhandled(cn, i) == cn[i].theirs \in {"backlog", "reading", "handling"}
Opens(cn, i) == Unhandled(cn, i) /\ cn[i].ask = "SessionOpen"

(* The broker has forgotten the client's session, or is about to. *)
Free(tr, cn, c) == tr[c] = None \/ cn[tr[c]].cancelled

(* A client waits for its only request for a session, unless it is dead;   *)
(* the broker tracks no session that ended without being cancelled; and a  *)
(* client holds on to one that is tracked and not cancelled.               *)
SessionInv ==
  /\ \A i \in 1 .. Num :
       /\ conn[i].theirs \notin {"held", "closed"} => conn[i].got = "none"
       /\ conn[i].theirs = "held" => conn[i].got = "ok" /\ conn[i].ask = "SessionOpen"
       /\ Opens(conn, i) =>
            /\ \/ client[conn[i].by].pc = "opening" /\ client[conn[i].by].at = i
               \/ client[conn[i].by].pc = "dead"
            /\ Free(tracked, conn, conn[i].by)
  /\ \A i, j \in 1 .. Num : Opens(conn, i) /\ Opens(conn, j) /\ conn[i].by = conn[j].by => i = j
  /\ \A c \in Clients : client[c].pc \in {"open", "opening"} => client[c].lease = None
  /\ \A c \in Clients : tracked[c] # None =>
       /\ conn[tracked[c]].by = c /\ conn[tracked[c]].ask = "SessionOpen"
       /\ ~ Free(tracked, conn, c) =>
            /\ conn[tracked[c]].theirs \in {"reply", "held"}
            /\ \/ client[c].pc = "dead" \/ client[c].lease = tracked[c]
               \/ client[c].pc = "opening" /\ client[c].at = tracked[c]

(* The name of a connection is not None. *)
LEMMA ConnNotNone ==
  ASSUME Shape, NEW i \in 1 .. Num
  PROVE  i # None /\ conn[i].by \in Clients
<1>1. MaxConns \in Nat /\ None \notin 1 .. MaxConns
  BY LimitsAssumption
<1>2. Num \in 0 .. MaxConns /\ conn \in [1 .. Num -> ConnRec]
  BY DEF Shape
<1>3. i \in 1 .. MaxConns
  BY <1>1, <1>2
<1>4. conn[i].by \in Clients
  BY <1>2 DEF ConnRec
<1> QED BY <1>1, <1>3, <1>4

(* The table after the sessions that ended are forgotten. *)
LEMMA PurgedFree ==
  ASSUME Shape, NEW c \in Clients
  PROVE  /\ (Purged[c] = None) <=> Free(tracked, conn, c)
         /\ Purged[c] # None => Purged[c] = tracked[c]
BY ConnNotNone DEF Purged, Free, Shape

(* A connection moves, and the table stays. *)
LEMMA TouchedFree ==
  ASSUME Shape, NEW i \in 1 .. Num, Touches(i), UNCHANGED tracked
  PROVE  \A d \in Clients :
           /\ tracked'[d] \in {None, tracked[d]}
           /\ Free(tracked, conn, d) => Free(tracked', conn', d)
<1>1. ASSUME NEW d \in Clients, Free(tracked, conn, d) PROVE Free(tracked', conn', d)
  <2>1. tracked' = tracked /\ tracked[d] \in {None} \cup 1 .. Num
    BY DEF Shape
  <2>2. CASE tracked[d] = None
    BY <2>1, <2>2 DEF Free
  <2>3. CASE tracked[d] # None /\ tracked[d] # i
    BY <1>1, <2>1, <2>3 DEF Free, Touches
  <2>4. CASE tracked[d] # None /\ tracked[d] = i
    BY <1>1, <2>1, <2>4 DEF Free, Touches
  <2> QED BY <2>2, <2>3, <2>4
<1> QED BY <1>1

(* The table is purged. *)
LEMMA TableFree ==
  ASSUME Shape, tracked' = Purged
  PROVE  \A d \in Clients :
           /\ tracked'[d] \in {None, tracked[d]}
           /\ Free(tracked, conn, d) => Free(tracked', conn', d)
<1>1. ASSUME NEW d \in Clients
      PROVE  /\ tracked'[d] \in {None, tracked[d]}
             /\ Free(tracked, conn, d) => tracked'[d] = None
  BY PurgedFree
<1> QED BY <1>1 DEF Free

(* Every step keeps it. *)
LEMMA SessionStep ==
  ASSUME Shape, ClientInv, SessionInv, [Next]_vars
  PROVE  SessionInv'
<1> USE DEF SessionInv
<1>1. ASSUME NEW c \in Clients, CallRefused(c) PROVE SessionInv'
  <2>1. KeepsConns
    BY <1>1, ClientKeeps
  <2>2. /\ client'[c].pc = "idle" /\ client'[c].lease = client[c].lease
        /\ \A d \in Clients : d # c => client'[d] = client[d]
    BY <1>1 DEF CallRefused, Shape, ClientRec
  <2>3. \A i \in 1 .. Num : Opens(conn', i) <=> Opens(conn, i)
    BY <2>1 DEF KeepsConns, Opens, Unhandled
  <2>4. \A d \in Clients : Free(tracked', conn', d) <=> Free(tracked, conn, d)
    BY <2>1 DEF KeepsConns, Free, Shape
  <2>5. /\ \A i \in 1 .. Num : i # None /\ conn[i].by \in Clients
        /\ \A d \in Clients : tracked[d] \in {None} \cup 1 .. Num
    BY ConnNotNone DEF Shape
  <2>6. client[c].pc = "idle"
    BY <1>1 DEF CallRefused, ClientInv, Connected
  <2>7. \A i \in 1 .. Num : Opens(conn, i) => conn[i].theirs \notin {"held", "closed"}
    BY DEF Opens, Unhandled
  <2>8. \A i \in 1 .. Num : Opens(conn', i) =>
          /\ \/ client'[conn'[i].by].pc = "opening" /\ client'[conn'[i].by].at = i
             \/ client'[conn'[i].by].pc = "dead"
          /\ Free(tracked', conn', conn'[i].by)
    BY <2>1, <2>2, <2>3, <2>4, <2>5, <2>6, <2>7 DEF KeepsConns
  <2>9. \A d \in Clients : client'[d].pc \in {"open", "opening"} => client'[d].lease = None
    BY <2>2, <2>6
  <2>10. \A d \in Clients : tracked'[d] # None =>
           /\ conn'[tracked'[d]].by = d /\ conn'[tracked'[d]].ask = "SessionOpen"
           /\ ~ Free(tracked', conn', d) =>
                /\ conn'[tracked'[d]].theirs \in {"reply", "held"}
                /\ \/ client'[d].pc = "dead" \/ client'[d].lease = tracked'[d]
                   \/ client'[d].pc = "opening" /\ client'[d].at = tracked'[d]
    BY <2>1, <2>2, <2>4, <2>5, <2>6 DEF KeepsConns
  <2> QED BY <2>1, <2>3, <2>8, <2>9, <2>10 DEF KeepsConns
<1>2. ASSUME NEW c \in Clients, NEW method \in Methods, Call(c, method) PROVE SessionInv'
  <2>1. KeepsConns
    BY <1>2, ClientKeeps
  <2>2. /\ client'[c].pc \in {"open", "call"}
        /\ client'[c].lease = client[c].lease \/ client'[c].lease = None
        /\ client'[c].pc = "open" => client'[c].lease = None
        /\ \A d \in Clients : d # c => client'[d] = client[d]
    BY <1>2 DEF Call, Shape, ClientRec
  <2>3. \A i \in 1 .. Num : Opens(conn', i) <=> Opens(conn, i)
    BY <2>1 DEF KeepsConns, Opens, Unhandled
  <2>4. \A d \in Clients : Free(tracked', conn', d) <=> Free(tracked, conn, d)
    BY <2>1 DEF KeepsConns, Free, Shape
  <2>5. /\ \A i \in 1 .. Num : i # None /\ conn[i].by \in Clients
        /\ \A d \in Clients : tracked[d] \in {None} \cup 1 .. Num
    BY ConnNotNone DEF Shape
  <2>6. client[c].pc = "idle" /\ (client'[c].lease # client[c].lease =>
          conn[client[c].lease].theirs = "closed" /\ client[c].lease \in 1 .. Num)
    BY <1>2 DEF Call, ClientInv, Connected
  <2>7. \A i \in 1 .. Num : Opens(conn, i) => conn[i].theirs \notin {"held", "closed"}
    BY DEF Opens, Unhandled
  <2>8. \A i \in 1 .. Num : Opens(conn', i) =>
          /\ \/ client'[conn'[i].by].pc = "opening" /\ client'[conn'[i].by].at = i
             \/ client'[conn'[i].by].pc = "dead"
          /\ Free(tracked', conn', conn'[i].by)
    BY <2>1, <2>2, <2>3, <2>4, <2>5, <2>6, <2>7 DEF KeepsConns
  <2>9. \A d \in Clients : client'[d].pc \in {"open", "opening"} => client'[d].lease = None
    BY <2>2, <2>6
  <2>10. \A d \in Clients : tracked'[d] # None =>
           /\ conn'[tracked'[d]].by = d /\ conn'[tracked'[d]].ask = "SessionOpen"
           /\ ~ Free(tracked', conn', d) =>
                /\ conn'[tracked'[d]].theirs \in {"reply", "held"}
                /\ \/ client'[d].pc = "dead" \/ client'[d].lease = tracked'[d]
                   \/ client'[d].pc = "opening" /\ client'[d].at = tracked'[d]
    BY <2>1, <2>2, <2>4, <2>5, <2>6 DEF KeepsConns
  <2> QED BY <2>1, <2>3, <2>8, <2>9, <2>10 DEF KeepsConns
<1>3. ASSUME NEW c \in Clients, Exchange(c) PROVE SessionInv'
  <2>1. /\ Num' = Num + 1 /\ Num \in Nat /\ UNCHANGED <<tracked, started>>
        /\ \A i \in 1 .. Num : conn'[i] = conn[i]
        /\ \A i \in 1 .. Num + 1 : i \in 1 .. Num \/ i = Num + 1
        /\ 1 .. Num \subseteq 1 .. Num + 1
        /\ conn'[Num + 1].theirs = "backlog" /\ conn'[Num + 1].got = "none"
        /\ conn'[Num + 1].by = c /\ conn'[Num + 1].answer = "none"
        /\ (conn'[Num + 1].ask = "SessionOpen") => client[c].pc = "open"
    BY <1>3, ExchangeKeeps
  <2>2. /\ client[c].pc \in {"open", "call"} /\ client'[c].lease = client[c].lease
        /\ client'[c].pc = IF client[c].pc = "open" THEN "opening" ELSE "calling"
        /\ client'[c].at = Num + 1
        /\ \A d \in Clients : d # c => client'[d] = client[d]
    <3>1. client[c].pc \in {"open", "call"}
      BY <1>3 DEF Exchange
    <3>2. client' = [client EXCEPT
            ![c].pc = IF @ = "open" THEN "opening" ELSE "calling", ![c].at = Num + 1]
      BY <1>3, ExchangeAdds
    <3> QED BY <3>1, <3>2 DEF Shape, ClientRec
  <2>3. \A i \in 1 .. Num : Opens(conn', i) <=> Opens(conn, i)
    BY <2>1 DEF Opens, Unhandled
  <2>4. \A d \in Clients : Free(tracked', conn', d) <=> Free(tracked, conn, d)
    BY <2>1 DEF Free, Shape
  <2>5. /\ \A i \in 1 .. Num : i # None /\ conn[i].by \in Clients
        /\ \A d \in Clients : tracked[d] \in {None} \cup 1 .. Num
    BY ConnNotNone DEF Shape
  <2>6. client[c].pc = "open" => Free(tracked, conn, c)
    BY <2>2, <2>5 DEF Free
  <2>7. Opens(conn', Num + 1) => client[c].pc = "open"
    BY <2>1 DEF Opens
  <2>8. \A i \in 1 .. Num : Opens(conn, i) => conn[i].by # c
    BY <2>2
  <2>9. \A i \in 1 .. Num + 1 :
          /\ conn'[i].theirs \notin {"held", "closed"} => conn'[i].got = "none"
          /\ conn'[i].theirs = "held" => conn'[i].got = "ok" /\ conn'[i].ask = "SessionOpen"
          /\ Opens(conn', i) =>
               /\ \/ client'[conn'[i].by].pc = "opening" /\ client'[conn'[i].by].at = i
                  \/ client'[conn'[i].by].pc = "dead"
               /\ Free(tracked', conn', conn'[i].by)
    BY <2>1, <2>2, <2>3, <2>4, <2>5, <2>6, <2>7, <2>8
  <2>10. \A i, j \in 1 .. Num + 1 : Opens(conn', i) /\ Opens(conn', j) /\ conn'[i].by = conn'[j].by => i = j
    BY <2>1, <2>3, <2>8
  <2>11. \A d \in Clients : client'[d].pc \in {"open", "opening"} => client'[d].lease = None
    BY <2>2
  <2>12. \A d \in Clients : tracked'[d] # None =>
           /\ conn'[tracked'[d]].by = d /\ conn'[tracked'[d]].ask = "SessionOpen"
           /\ ~ Free(tracked', conn', d) =>
                /\ conn'[tracked'[d]].theirs \in {"reply", "held"}
                /\ \/ client'[d].pc = "dead" \/ client'[d].lease = tracked'[d]
                   \/ client'[d].pc = "opening" /\ client'[d].at = tracked'[d]
    BY <2>1, <2>2, <2>4, <2>5
  <2> QED BY <2>1, <2>9, <2>10, <2>11, <2>12
<1>4. ASSUME NEW c \in Clients, NobodyListens(c) PROVE SessionInv'
  <2>1. KeepsConns
    BY <1>4, ClientKeeps
  <2>2. /\ client'[c].pc = "idle" /\ client'[c].lease = client[c].lease
        /\ \A d \in Clients : d # c => client'[d] = client[d]
    BY <1>4 DEF NobodyListens, Shape, ClientRec
  <2>3. \A i \in 1 .. Num : Opens(conn', i) <=> Opens(conn, i)
    BY <2>1 DEF KeepsConns, Opens, Unhandled
  <2>4. \A d \in Clients : Free(tracked', conn', d) <=> Free(tracked, conn, d)
    BY <2>1 DEF KeepsConns, Free, Shape
  <2>5. /\ \A i \in 1 .. Num : i # None /\ conn[i].by \in Clients
        /\ \A d \in Clients : tracked[d] \in {None} \cup 1 .. Num
    BY ConnNotNone DEF Shape
  <2>6. client[c].pc \in {"open", "call"}
    BY <1>4 DEF NobodyListens, ClientInv, Connected
  <2>7. \A i \in 1 .. Num : Opens(conn, i) => conn[i].theirs \notin {"held", "closed"}
    BY DEF Opens, Unhandled
  <2>8. \A i \in 1 .. Num : Opens(conn', i) =>
          /\ \/ client'[conn'[i].by].pc = "opening" /\ client'[conn'[i].by].at = i
             \/ client'[conn'[i].by].pc = "dead"
          /\ Free(tracked', conn', conn'[i].by)
    BY <2>1, <2>2, <2>3, <2>4, <2>5, <2>6, <2>7 DEF KeepsConns
  <2>9. \A d \in Clients : client'[d].pc \in {"open", "opening"} => client'[d].lease = None
    BY <2>2, <2>6
  <2>10. \A d \in Clients : tracked'[d] # None =>
           /\ conn'[tracked'[d]].by = d /\ conn'[tracked'[d]].ask = "SessionOpen"
           /\ ~ Free(tracked', conn', d) =>
                /\ conn'[tracked'[d]].theirs \in {"reply", "held"}
                /\ \/ client'[d].pc = "dead" \/ client'[d].lease = tracked'[d]
                   \/ client'[d].pc = "opening" /\ client'[d].at = tracked'[d]
    BY <2>1, <2>2, <2>4, <2>5, <2>6 DEF KeepsConns
  <2> QED BY <2>1, <2>3, <2>8, <2>9, <2>10 DEF KeepsConns
<1>5. ASSUME NEW c \in Clients, SessionOpened(c) PROVE SessionInv'
  <2>1. KeepsConns
    BY <1>5, ClientKeeps
  <2>2. /\ client'[c].pc = "call" /\ client'[c].lease = client[c].at
        /\ \A d \in Clients : d # c => client'[d] = client[d]
    BY <1>5 DEF SessionOpened, Shape, ClientRec
  <2>3. \A i \in 1 .. Num : Opens(conn', i) <=> Opens(conn, i)
    BY <2>1 DEF KeepsConns, Opens, Unhandled
  <2>4. \A d \in Clients : Free(tracked', conn', d) <=> Free(tracked, conn, d)
    BY <2>1 DEF KeepsConns, Free, Shape
  <2>5. /\ \A i \in 1 .. Num : i # None /\ conn[i].by \in Clients
        /\ \A d \in Clients : tracked[d] \in {None} \cup 1 .. Num
    BY ConnNotNone DEF Shape
  <2>6. client[c].pc = "opening" /\ conn[client[c].at].got = "ok" /\ client[c].at \in 1 .. Num
    BY <1>5 DEF SessionOpened, ClientInv, Connected
  <2>7. \A i \in 1 .. Num : Opens(conn, i) => conn[i].theirs \notin {"held", "closed"}
    BY DEF Opens, Unhandled
  <2>8. \A i \in 1 .. Num : Opens(conn', i) =>
          /\ \/ client'[conn'[i].by].pc = "opening" /\ client'[conn'[i].by].at = i
             \/ client'[conn'[i].by].pc = "dead"
          /\ Free(tracked', conn', conn'[i].by)
    BY <2>1, <2>2, <2>3, <2>4, <2>5, <2>6, <2>7 DEF KeepsConns
  <2>9. \A d \in Clients : client'[d].pc \in {"open", "opening"} => client'[d].lease = None
    BY <2>2, <2>6
  <2>10. \A d \in Clients : tracked'[d] # None =>
           /\ conn'[tracked'[d]].by = d /\ conn'[tracked'[d]].ask = "SessionOpen"
           /\ ~ Free(tracked', conn', d) =>
                /\ conn'[tracked'[d]].theirs \in {"reply", "held"}
                /\ \/ client'[d].pc = "dead" \/ client'[d].lease = tracked'[d]
                   \/ client'[d].pc = "opening" /\ client'[d].at = tracked'[d]
    BY <2>1, <2>2, <2>4, <2>5, <2>6 DEF KeepsConns
  <2> QED BY <2>1, <2>3, <2>8, <2>9, <2>10 DEF KeepsConns
<1>6. ASSUME NEW c \in Clients, Answered(c) PROVE SessionInv'
  <2>1. KeepsConns
    BY <1>6, ClientKeeps
  <2>2. /\ client'[c].pc = "idle" /\ client'[c].lease = client[c].lease
        /\ \A d \in Clients : d # c => client'[d] = client[d]
    BY <1>6 DEF Answered, Shape, ClientRec
  <2>3. \A i \in 1 .. Num : Opens(conn', i) <=> Opens(conn, i)
    BY <2>1 DEF KeepsConns, Opens, Unhandled
  <2>4. \A d \in Clients : Free(tracked', conn', d) <=> Free(tracked, conn, d)
    BY <2>1 DEF KeepsConns, Free, Shape
  <2>5. /\ \A i \in 1 .. Num : i # None /\ conn[i].by \in Clients
        /\ \A d \in Clients : tracked[d] \in {None} \cup 1 .. Num
    BY ConnNotNone DEF Shape
  <2>6. /\ client[c].pc \in {"opening", "calling"} /\ client[c].at \in 1 .. Num
        /\ client[c].pc = "opening" => conn[client[c].at].got = "error"
    BY <1>6 DEF Answered, ClientInv, Connected
  <2>7. \A i \in 1 .. Num : Opens(conn, i) => conn[i].theirs \notin {"held", "closed"}
    BY DEF Opens, Unhandled
  <2>8. \A i \in 1 .. Num : Opens(conn', i) =>
          /\ \/ client'[conn'[i].by].pc = "opening" /\ client'[conn'[i].by].at = i
             \/ client'[conn'[i].by].pc = "dead"
          /\ Free(tracked', conn', conn'[i].by)
    BY <2>1, <2>2, <2>3, <2>4, <2>5, <2>6, <2>7 DEF KeepsConns
  <2>9. \A d \in Clients : client'[d].pc \in {"open", "opening"} => client'[d].lease = None
    BY <2>2, <2>6
  <2>10. \A d \in Clients : tracked'[d] # None =>
           /\ conn'[tracked'[d]].by = d /\ conn'[tracked'[d]].ask = "SessionOpen"
           /\ ~ Free(tracked', conn', d) =>
                /\ conn'[tracked'[d]].theirs \in {"reply", "held"}
                /\ \/ client'[d].pc = "dead" \/ client'[d].lease = tracked'[d]
                   \/ client'[d].pc = "opening" /\ client'[d].at = tracked'[d]
    BY <2>1, <2>2, <2>4, <2>5, <2>6 DEF KeepsConns
  <2> QED BY <2>1, <2>3, <2>8, <2>9, <2>10 DEF KeepsConns
<1>7. ASSUME NEW c \in Clients, LostReply(c) PROVE SessionInv'
  <2>1. KeepsConns
    BY <1>7, ClientKeeps
  <2>2. /\ client'[c].pc = "idle" /\ client'[c].lease = client[c].lease
        /\ \A d \in Clients : d # c => client'[d] = client[d]
    BY <1>7 DEF LostReply, Shape, ClientRec
  <2>3. \A i \in 1 .. Num : Opens(conn', i) <=> Opens(conn, i)
    BY <2>1 DEF KeepsConns, Opens, Unhandled
  <2>4. \A d \in Clients : Free(tracked', conn', d) <=> Free(tracked, conn, d)
    BY <2>1 DEF KeepsConns, Free, Shape
  <2>5. /\ \A i \in 1 .. Num : i # None /\ conn[i].by \in Clients
        /\ \A d \in Clients : tracked[d] \in {None} \cup 1 .. Num
    BY ConnNotNone DEF Shape
  <2>6. /\ client[c].pc \in {"opening", "calling"} /\ client[c].at \in 1 .. Num
        /\ conn[client[c].at].theirs = "closed"
    BY <1>7 DEF LostReply, ClientInv, Connected
  <2>7. \A i \in 1 .. Num : Opens(conn, i) => conn[i].theirs \notin {"held", "closed"}
    BY DEF Opens, Unhandled
  <2>8. \A i \in 1 .. Num : Opens(conn', i) =>
          /\ \/ client'[conn'[i].by].pc = "opening" /\ client'[conn'[i].by].at = i
             \/ client'[conn'[i].by].pc = "dead"
          /\ Free(tracked', conn', conn'[i].by)
    BY <2>1, <2>2, <2>3, <2>4, <2>5, <2>6, <2>7 DEF KeepsConns
  <2>9. \A d \in Clients : client'[d].pc \in {"open", "opening"} => client'[d].lease = None
    BY <2>2, <2>6
  <2>10. \A d \in Clients : tracked'[d] # None =>
           /\ conn'[tracked'[d]].by = d /\ conn'[tracked'[d]].ask = "SessionOpen"
           /\ ~ Free(tracked', conn', d) =>
                /\ conn'[tracked'[d]].theirs \in {"reply", "held"}
                /\ \/ client'[d].pc = "dead" \/ client'[d].lease = tracked'[d]
                   \/ client'[d].pc = "opening" /\ client'[d].at = tracked'[d]
    BY <2>1, <2>2, <2>4, <2>5, <2>6 DEF KeepsConns
  <2> QED BY <2>1, <2>3, <2>8, <2>9, <2>10 DEF KeepsConns
<1>8. ASSUME NEW c \in Clients, Exit(c) PROVE SessionInv'
  <2>1. KeepsConns
    BY <1>8, ClientKeeps
  <2>2. /\ client'[c].pc = "dead"
        /\ \A d \in Clients : d # c => client'[d] = client[d]
    BY <1>8 DEF Exit, Shape, ClientRec
  <2>3. \A i \in 1 .. Num : Opens(conn', i) <=> Opens(conn, i)
    BY <2>1 DEF KeepsConns, Opens, Unhandled
  <2>4. \A d \in Clients : Free(tracked', conn', d) <=> Free(tracked, conn, d)
    BY <2>1 DEF KeepsConns, Free, Shape
  <2>5. /\ \A i \in 1 .. Num : i # None /\ conn[i].by \in Clients
        /\ \A d \in Clients : tracked[d] \in {None} \cup 1 .. Num
    BY ConnNotNone DEF Shape
  <2>6. client[c].pc # "dead"
    BY <1>8 DEF Exit, ClientInv, Connected
  <2>7. \A i \in 1 .. Num : Opens(conn, i) => conn[i].theirs \notin {"held", "closed"}
    BY DEF Opens, Unhandled
  <2>8. \A i \in 1 .. Num : Opens(conn', i) =>
          /\ \/ client'[conn'[i].by].pc = "opening" /\ client'[conn'[i].by].at = i
             \/ client'[conn'[i].by].pc = "dead"
          /\ Free(tracked', conn', conn'[i].by)
    BY <2>1, <2>2, <2>3, <2>4, <2>5, <2>6, <2>7 DEF KeepsConns
  <2>9. \A d \in Clients : client'[d].pc \in {"open", "opening"} => client'[d].lease = None
    BY <2>2, <2>6
  <2>10. \A d \in Clients : tracked'[d] # None =>
           /\ conn'[tracked'[d]].by = d /\ conn'[tracked'[d]].ask = "SessionOpen"
           /\ ~ Free(tracked', conn', d) =>
                /\ conn'[tracked'[d]].theirs \in {"reply", "held"}
                /\ \/ client'[d].pc = "dead" \/ client'[d].lease = tracked'[d]
                   \/ client'[d].pc = "opening" /\ client'[d].at = tracked'[d]
    BY <2>1, <2>2, <2>4, <2>5, <2>6 DEF KeepsConns
  <2> QED BY <2>1, <2>3, <2>8, <2>9, <2>10 DEF KeepsConns
<1>9. ASSUME NEW i \in Conns, Accept(i) PROVE SessionInv'
  <2>1. Touches(i) /\ i \in 1 .. Num
    BY <1>9, ServerTouches DEF ServerStep, Conns, Num
  <2>2. \A j \in 1 .. Num : Opens(conn', j) => Opens(conn, j)
    BY <1>9, <2>1, Moves DEF Touches, Opens, Unhandled, AnswersWith, ActiveRun
  <2>3. UNCHANGED tracked
    BY <1>9 DEF Accept
  <2>4. \A d \in Clients : tracked'[d] \in {None, tracked[d]} /\ (Free(tracked, conn, d) => Free(tracked', conn', d))
    BY <2>1, <2>3, TouchedFree
  <2>5. /\ \A j \in 1 .. Num : conn[j].by \in Clients
        /\ \A d \in Clients : tracked[d] \in {None} \cup 1 .. Num
    BY ConnNotNone DEF Shape
  <2>6. \A j \in 1 .. Num :
          /\ conn'[j].theirs \notin {"held", "closed"} => conn'[j].got = "none"
          /\ conn'[j].theirs = "held" => conn'[j].got = "ok" /\ conn'[j].ask = "SessionOpen"
    BY <1>9, <2>1, Moves DEF Touches, Stays, AnswersWith, ActiveRun
  <2>7. \A j \in 1 .. Num : j # i \/ conn[j].theirs \notin {"reply", "held"}
          \/ conn[j].ask # "SessionOpen"
          \/ conn'[j].cancelled \/ conn'[j].theirs \in {"reply", "held"}
    BY <1>9, <2>1, Moves DEF Touches, Stays, AnswersWith, ActiveRun, SessionInv
  <2>8. \A d \in Clients : tracked'[d] # None =>
          /\ conn'[tracked'[d]].by = d /\ conn'[tracked'[d]].ask = "SessionOpen"
          /\ ~ Free(tracked', conn', d) =>
               /\ conn'[tracked'[d]].theirs \in {"reply", "held"}
               /\ \/ client'[d].pc = "dead" \/ client'[d].lease = tracked'[d]
                  \/ client'[d].pc = "opening" /\ client'[d].at = tracked'[d]
    BY <2>1, <2>4, <2>5, <2>7 DEF Touches, Free
  <2> QED BY <2>1, <2>2, <2>4, <2>5, <2>6, <2>8 DEF Touches
<1>10. ASSUME NEW i \in Conns, ReadRequest(i) PROVE SessionInv'
  <2>1. Touches(i) /\ i \in 1 .. Num
    BY <1>10, ServerTouches DEF ServerStep, Conns, Num
  <2>2. \A j \in 1 .. Num : Opens(conn', j) => Opens(conn, j)
    BY <1>10, <2>1, Moves DEF Touches, Opens, Unhandled, AnswersWith, ActiveRun
  <2>3. UNCHANGED tracked
    BY <1>10 DEF ReadRequest
  <2>4. \A d \in Clients : tracked'[d] \in {None, tracked[d]} /\ (Free(tracked, conn, d) => Free(tracked', conn', d))
    BY <2>1, <2>3, TouchedFree
  <2>5. /\ \A j \in 1 .. Num : conn[j].by \in Clients
        /\ \A d \in Clients : tracked[d] \in {None} \cup 1 .. Num
    BY ConnNotNone DEF Shape
  <2>6. \A j \in 1 .. Num :
          /\ conn'[j].theirs \notin {"held", "closed"} => conn'[j].got = "none"
          /\ conn'[j].theirs = "held" => conn'[j].got = "ok" /\ conn'[j].ask = "SessionOpen"
    BY <1>10, <2>1, Moves DEF Touches, Stays, AnswersWith, ActiveRun
  <2>7. \A j \in 1 .. Num : j # i \/ conn[j].theirs \notin {"reply", "held"}
          \/ conn[j].ask # "SessionOpen"
          \/ conn'[j].cancelled \/ conn'[j].theirs \in {"reply", "held"}
    BY <1>10, <2>1, Moves DEF Touches, Stays, AnswersWith, ActiveRun, SessionInv
  <2>8. \A d \in Clients : tracked'[d] # None =>
          /\ conn'[tracked'[d]].by = d /\ conn'[tracked'[d]].ask = "SessionOpen"
          /\ ~ Free(tracked', conn', d) =>
               /\ conn'[tracked'[d]].theirs \in {"reply", "held"}
               /\ \/ client'[d].pc = "dead" \/ client'[d].lease = tracked'[d]
                  \/ client'[d].pc = "opening" /\ client'[d].at = tracked'[d]
    BY <2>1, <2>4, <2>5, <2>7 DEF Touches, Free
  <2> QED BY <2>1, <2>2, <2>4, <2>5, <2>6, <2>8 DEF Touches
<1>11. ASSUME NEW i \in Conns, Monitor(i) PROVE SessionInv'
  <2>1. Touches(i) /\ i \in 1 .. Num
    BY <1>11, ServerTouches DEF ServerStep, Conns, Num
  <2>2. \A j \in 1 .. Num : Opens(conn', j) => Opens(conn, j)
    BY <1>11, <2>1, Moves DEF Touches, Opens, Unhandled, AnswersWith, ActiveRun
  <2>3. UNCHANGED tracked
    BY <1>11 DEF Monitor
  <2>4. \A d \in Clients : tracked'[d] \in {None, tracked[d]} /\ (Free(tracked, conn, d) => Free(tracked', conn', d))
    BY <2>1, <2>3, TouchedFree
  <2>5. /\ \A j \in 1 .. Num : conn[j].by \in Clients
        /\ \A d \in Clients : tracked[d] \in {None} \cup 1 .. Num
    BY ConnNotNone DEF Shape
  <2>6. \A j \in 1 .. Num :
          /\ conn'[j].theirs \notin {"held", "closed"} => conn'[j].got = "none"
          /\ conn'[j].theirs = "held" => conn'[j].got = "ok" /\ conn'[j].ask = "SessionOpen"
    BY <1>11, <2>1, Moves DEF Touches, Stays, AnswersWith, ActiveRun
  <2>7. \A j \in 1 .. Num : j # i \/ conn[j].theirs \notin {"reply", "held"}
          \/ conn[j].ask # "SessionOpen"
          \/ conn'[j].cancelled \/ conn'[j].theirs \in {"reply", "held"}
    BY <1>11, <2>1, Moves DEF Touches, Stays, AnswersWith, ActiveRun, SessionInv
  <2>8. \A d \in Clients : tracked'[d] # None =>
          /\ conn'[tracked'[d]].by = d /\ conn'[tracked'[d]].ask = "SessionOpen"
          /\ ~ Free(tracked', conn', d) =>
               /\ conn'[tracked'[d]].theirs \in {"reply", "held"}
               /\ \/ client'[d].pc = "dead" \/ client'[d].lease = tracked'[d]
                  \/ client'[d].pc = "opening" /\ client'[d].at = tracked'[d]
    BY <2>1, <2>4, <2>5, <2>7 DEF Touches, Free
  <2> QED BY <2>1, <2>2, <2>4, <2>5, <2>6, <2>8 DEF Touches
<1>12. ASSUME NEW i \in Conns, Register(i) PROVE SessionInv'
  <2>1. Touches(i) /\ i \in 1 .. Num
    BY <1>12, ServerTouches DEF ServerStep, Conns, Num
  <2>2. /\ Opens(conn, i) /\ ~ Opens(conn', i) /\ conn'[i].theirs = "reply" /\ conn'[i].got = conn[i].got
        /\ \A j \in 1 .. Num : j # i => (Opens(conn', j) <=> Opens(conn, j))
    BY <1>12, <2>1, Moves DEF Touches, Opens, Unhandled, AnswersWith
  <2>3. tracked' = Purged \/ tracked' = [Purged EXCEPT ![conn[i].by] = i]
    BY <1>12 DEF Register
  <2>4. /\ \A j \in 1 .. Num : conn[j].by \in Clients
        /\ \A d \in Clients : tracked[d] \in {None} \cup 1 .. Num
    BY ConnNotNone DEF Shape
  <2>5. \A d \in Clients : d # conn[i].by =>
          tracked'[d] \in {None, tracked[d]} /\ (Free(tracked, conn, d) => Free(tracked', conn', d))
    <3>1. \A d \in Clients : d # conn[i].by => tracked'[d] = Purged[d]
      BY <2>3 DEF Purged
    <3>2. \A d \in Clients :
            Purged[d] \in {None, tracked[d]} /\ (Free(tracked, conn, d) => Purged[d] = None)
      BY PurgedFree
    <3> HIDE DEF SessionInv
    <3>3. ASSUME NEW d \in Clients, d # conn[i].by
          PROVE  /\ tracked'[d] \in {None, tracked[d]}
                 /\ Free(tracked, conn, d) => tracked'[d] = None
      BY <3>1, <3>2, <3>3
    <3> QED BY <3>3 DEF Free
  <2>6. tracked'[conn[i].by] \in {None, i}
    BY <2>1, <2>2, <2>3, <2>4, PurgedFree DEF Purged
  <2>7. \A j \in 1 .. Num :
          /\ conn'[j].theirs \notin {"held", "closed"} => conn'[j].got = "none"
          /\ conn'[j].theirs = "held" => conn'[j].got = "ok" /\ conn'[j].ask = "SessionOpen"
    BY <2>1, <2>2 DEF Touches, Opens, Unhandled
  <2>8. \A j \in 1 .. Num : Opens(conn', j) => j # i /\ conn[j].by # conn[i].by
    BY <2>1, <2>2
  <2>9. \A j \in 1 .. Num : Opens(conn', j) =>
          /\ \/ client'[conn'[j].by].pc = "opening" /\ client'[conn'[j].by].at = j
             \/ client'[conn'[j].by].pc = "dead"
          /\ Free(tracked', conn', conn'[j].by)
    BY <2>1, <2>2, <2>4, <2>5, <2>8 DEF Touches
  <2>10. \A d \in Clients : tracked'[d] # None =>
           /\ conn'[tracked'[d]].by = d /\ conn'[tracked'[d]].ask = "SessionOpen"
           /\ ~ Free(tracked', conn', d) =>
                /\ conn'[tracked'[d]].theirs \in {"reply", "held"}
                /\ \/ client'[d].pc = "dead" \/ client'[d].lease = tracked'[d]
                   \/ client'[d].pc = "opening" /\ client'[d].at = tracked'[d]
    <3>1. ASSUME NEW d \in Clients, d # conn[i].by, tracked'[d] # None
          PROVE  /\ conn'[tracked'[d]].by = d /\ conn'[tracked'[d]].ask = "SessionOpen"
                 /\ ~ Free(tracked', conn', d) =>
                      /\ conn'[tracked'[d]].theirs \in {"reply", "held"}
                      /\ \/ client'[d].pc = "dead" \/ client'[d].lease = tracked'[d]
                         \/ client'[d].pc = "opening" /\ client'[d].at = tracked'[d]
      BY <2>1, <2>4, <2>5, <3>1 DEF Touches
    <3>2. /\ conn'[i].by = conn[i].by /\ conn'[i].ask = "SessionOpen"
          /\ \/ client'[conn[i].by].pc = "opening" /\ client'[conn[i].by].at = i
             \/ client'[conn[i].by].pc = "dead"
      BY <2>1, <2>2 DEF Touches, Opens
    <3> QED BY <2>2, <2>4, <2>6, <3>1, <3>2
  <2> QED BY <2>1, <2>2, <2>7, <2>9, <2>10 DEF Touches
<1>13. ASSUME NEW i \in Conns, HandleShort(i) PROVE SessionInv'
  <2>1. Touches(i) /\ i \in 1 .. Num
    BY <1>13, ServerTouches DEF ServerStep, Conns, Num
  <2>2. \A j \in 1 .. Num : Opens(conn', j) => Opens(conn, j)
    BY <1>13, <2>1, Moves DEF Touches, Opens, Unhandled, AnswersWith, ActiveRun
  <2>3. tracked' = Purged
    BY <1>13 DEF HandleShort
  <2>4. \A d \in Clients : tracked'[d] \in {None, tracked[d]} /\ (Free(tracked, conn, d) => Free(tracked', conn', d))
    BY <2>3, TableFree
  <2>5. /\ \A j \in 1 .. Num : conn[j].by \in Clients
        /\ \A d \in Clients : tracked[d] \in {None} \cup 1 .. Num
    BY ConnNotNone DEF Shape
  <2>6. \A j \in 1 .. Num :
          /\ conn'[j].theirs \notin {"held", "closed"} => conn'[j].got = "none"
          /\ conn'[j].theirs = "held" => conn'[j].got = "ok" /\ conn'[j].ask = "SessionOpen"
    BY <1>13, <2>1, Moves DEF Touches, Stays, AnswersWith, ActiveRun
  <2>7. \A j \in 1 .. Num : j # i \/ conn[j].theirs \notin {"reply", "held"}
          \/ conn[j].ask # "SessionOpen"
          \/ conn'[j].cancelled \/ conn'[j].theirs \in {"reply", "held"}
    BY <1>13, <2>1, Moves DEF Touches, Stays, AnswersWith, ActiveRun, SessionInv
  <2>8. \A d \in Clients : tracked'[d] # None =>
          /\ conn'[tracked'[d]].by = d /\ conn'[tracked'[d]].ask = "SessionOpen"
          /\ ~ Free(tracked', conn', d) =>
               /\ conn'[tracked'[d]].theirs \in {"reply", "held"}
               /\ \/ client'[d].pc = "dead" \/ client'[d].lease = tracked'[d]
                  \/ client'[d].pc = "opening" /\ client'[d].at = tracked'[d]
    BY <2>1, <2>4, <2>5, <2>7 DEF Touches, Free
  <2> QED BY <2>1, <2>2, <2>4, <2>5, <2>6, <2>8 DEF Touches
<1>14. ASSUME NEW i \in Conns, AwaitUnlock(i) PROVE SessionInv'
  <2>1. Touches(i) /\ i \in 1 .. Num
    BY <1>14, ServerTouches DEF ServerStep, Conns, Num
  <2>2. \A j \in 1 .. Num : Opens(conn', j) => Opens(conn, j)
    BY <1>14, <2>1, Moves DEF Touches, Opens, Unhandled, AnswersWith, ActiveRun
  <2>3. tracked' = Purged
    BY <1>14 DEF AwaitUnlock
  <2>4. \A d \in Clients : tracked'[d] \in {None, tracked[d]} /\ (Free(tracked, conn, d) => Free(tracked', conn', d))
    BY <2>3, TableFree
  <2>5. /\ \A j \in 1 .. Num : conn[j].by \in Clients
        /\ \A d \in Clients : tracked[d] \in {None} \cup 1 .. Num
    BY ConnNotNone DEF Shape
  <2>6. \A j \in 1 .. Num :
          /\ conn'[j].theirs \notin {"held", "closed"} => conn'[j].got = "none"
          /\ conn'[j].theirs = "held" => conn'[j].got = "ok" /\ conn'[j].ask = "SessionOpen"
    BY <1>14, <2>1, Moves DEF Touches, Stays, AnswersWith, ActiveRun
  <2>7. \A j \in 1 .. Num : j # i \/ conn[j].theirs \notin {"reply", "held"}
          \/ conn[j].ask # "SessionOpen"
          \/ conn'[j].cancelled \/ conn'[j].theirs \in {"reply", "held"}
    BY <1>14, <2>1, Moves DEF Touches, Stays, AnswersWith, ActiveRun, SessionInv
  <2>8. \A d \in Clients : tracked'[d] # None =>
          /\ conn'[tracked'[d]].by = d /\ conn'[tracked'[d]].ask = "SessionOpen"
          /\ ~ Free(tracked', conn', d) =>
               /\ conn'[tracked'[d]].theirs \in {"reply", "held"}
               /\ \/ client'[d].pc = "dead" \/ client'[d].lease = tracked'[d]
                  \/ client'[d].pc = "opening" /\ client'[d].at = tracked'[d]
    BY <2>1, <2>4, <2>5, <2>7 DEF Touches, Free
  <2> QED BY <2>1, <2>2, <2>4, <2>5, <2>6, <2>8 DEF Touches
<1>15. ASSUME NEW i \in Conns, PromptEnds(i) PROVE SessionInv'
  <2>1. Touches(i) /\ i \in 1 .. Num
    BY <1>15, ServerTouches DEF ServerStep, Conns, Num
  <2>2. \A j \in 1 .. Num : Opens(conn', j) => Opens(conn, j)
    BY <1>15, <2>1, Moves DEF Touches, Opens, Unhandled, AnswersWith, ActiveRun
  <2>3. UNCHANGED tracked
    BY <1>15 DEF PromptEnds
  <2>4. \A d \in Clients : tracked'[d] \in {None, tracked[d]} /\ (Free(tracked, conn, d) => Free(tracked', conn', d))
    BY <2>1, <2>3, TouchedFree
  <2>5. /\ \A j \in 1 .. Num : conn[j].by \in Clients
        /\ \A d \in Clients : tracked[d] \in {None} \cup 1 .. Num
    BY ConnNotNone DEF Shape
  <2>6. \A j \in 1 .. Num :
          /\ conn'[j].theirs \notin {"held", "closed"} => conn'[j].got = "none"
          /\ conn'[j].theirs = "held" => conn'[j].got = "ok" /\ conn'[j].ask = "SessionOpen"
    BY <1>15, <2>1, Moves DEF Touches, Stays, AnswersWith, ActiveRun
  <2>7. \A j \in 1 .. Num : j # i \/ conn[j].theirs \notin {"reply", "held"}
          \/ conn[j].ask # "SessionOpen"
          \/ conn'[j].cancelled \/ conn'[j].theirs \in {"reply", "held"}
    BY <1>15, <2>1, Moves DEF Touches, Stays, AnswersWith, ActiveRun, SessionInv
  <2>8. \A d \in Clients : tracked'[d] # None =>
          /\ conn'[tracked'[d]].by = d /\ conn'[tracked'[d]].ask = "SessionOpen"
          /\ ~ Free(tracked', conn', d) =>
               /\ conn'[tracked'[d]].theirs \in {"reply", "held"}
               /\ \/ client'[d].pc = "dead" \/ client'[d].lease = tracked'[d]
                  \/ client'[d].pc = "opening" /\ client'[d].at = tracked'[d]
    BY <2>1, <2>4, <2>5, <2>7 DEF Touches, Free
  <2> QED BY <2>1, <2>2, <2>4, <2>5, <2>6, <2>8 DEF Touches
<1>16. ASSUME NEW i \in Conns, Admit(i) PROVE SessionInv'
  <2>1. Touches(i) /\ i \in 1 .. Num
    BY <1>16, ServerTouches DEF ServerStep, Conns, Num
  <2>2. \A j \in 1 .. Num : Opens(conn', j) => Opens(conn, j)
    BY <1>16, <2>1, Moves DEF Touches, Opens, Unhandled, AnswersWith, ActiveRun
  <2>3. UNCHANGED tracked
    BY <1>16 DEF Admit
  <2>4. \A d \in Clients : tracked'[d] \in {None, tracked[d]} /\ (Free(tracked, conn, d) => Free(tracked', conn', d))
    BY <2>1, <2>3, TouchedFree
  <2>5. /\ \A j \in 1 .. Num : conn[j].by \in Clients
        /\ \A d \in Clients : tracked[d] \in {None} \cup 1 .. Num
    BY ConnNotNone DEF Shape
  <2>6. \A j \in 1 .. Num :
          /\ conn'[j].theirs \notin {"held", "closed"} => conn'[j].got = "none"
          /\ conn'[j].theirs = "held" => conn'[j].got = "ok" /\ conn'[j].ask = "SessionOpen"
    BY <1>16, <2>1, Moves DEF Touches, Stays, AnswersWith, ActiveRun
  <2>7. \A j \in 1 .. Num : j # i \/ conn[j].theirs \notin {"reply", "held"}
          \/ conn[j].ask # "SessionOpen"
          \/ conn'[j].cancelled \/ conn'[j].theirs \in {"reply", "held"}
    BY <1>16, <2>1, Moves DEF Touches, Stays, AnswersWith, ActiveRun, SessionInv
  <2>8. \A d \in Clients : tracked'[d] # None =>
          /\ conn'[tracked'[d]].by = d /\ conn'[tracked'[d]].ask = "SessionOpen"
          /\ ~ Free(tracked', conn', d) =>
               /\ conn'[tracked'[d]].theirs \in {"reply", "held"}
               /\ \/ client'[d].pc = "dead" \/ client'[d].lease = tracked'[d]
                  \/ client'[d].pc = "opening" /\ client'[d].at = tracked'[d]
    BY <2>1, <2>4, <2>5, <2>7 DEF Touches, Free
  <2> QED BY <2>1, <2>2, <2>4, <2>5, <2>6, <2>8 DEF Touches
<1>17. ASSUME NEW i \in Conns, FinishRun(i) PROVE SessionInv'
  <2>1. Touches(i) /\ i \in 1 .. Num
    BY <1>17, ServerTouches DEF ServerStep, Conns, Num
  <2>2. \A j \in 1 .. Num : Opens(conn', j) => Opens(conn, j)
    BY <1>17, <2>1, Moves DEF Touches, Opens, Unhandled, AnswersWith, ActiveRun
  <2>3. UNCHANGED tracked
    BY <1>17 DEF FinishRun
  <2>4. \A d \in Clients : tracked'[d] \in {None, tracked[d]} /\ (Free(tracked, conn, d) => Free(tracked', conn', d))
    BY <2>1, <2>3, TouchedFree
  <2>5. /\ \A j \in 1 .. Num : conn[j].by \in Clients
        /\ \A d \in Clients : tracked[d] \in {None} \cup 1 .. Num
    BY ConnNotNone DEF Shape
  <2>6. \A j \in 1 .. Num :
          /\ conn'[j].theirs \notin {"held", "closed"} => conn'[j].got = "none"
          /\ conn'[j].theirs = "held" => conn'[j].got = "ok" /\ conn'[j].ask = "SessionOpen"
    BY <1>17, <2>1, Moves DEF Touches, Stays, AnswersWith, ActiveRun
  <2>7. \A j \in 1 .. Num : j # i \/ conn[j].theirs \notin {"reply", "held"}
          \/ conn[j].ask # "SessionOpen"
          \/ conn'[j].cancelled \/ conn'[j].theirs \in {"reply", "held"}
    BY <1>17, <2>1, Moves DEF Touches, Stays, AnswersWith, ActiveRun, SessionInv
  <2>8. \A d \in Clients : tracked'[d] # None =>
          /\ conn'[tracked'[d]].by = d /\ conn'[tracked'[d]].ask = "SessionOpen"
          /\ ~ Free(tracked', conn', d) =>
               /\ conn'[tracked'[d]].theirs \in {"reply", "held"}
               /\ \/ client'[d].pc = "dead" \/ client'[d].lease = tracked'[d]
                  \/ client'[d].pc = "opening" /\ client'[d].at = tracked'[d]
    BY <2>1, <2>4, <2>5, <2>7 DEF Touches, Free
  <2> QED BY <2>1, <2>2, <2>4, <2>5, <2>6, <2>8 DEF Touches
<1>18. ASSUME NEW i \in Conns, Reply(i) PROVE SessionInv'
  <2>1. Touches(i) /\ i \in 1 .. Num
    BY <1>18, ServerTouches DEF ServerStep, Conns, Num
  <2>2. \A j \in 1 .. Num : Opens(conn', j) => Opens(conn, j)
    BY <1>18, <2>1, Moves DEF Touches, Opens, Unhandled, AnswersWith, ActiveRun
  <2>3. UNCHANGED tracked
    BY <1>18 DEF Reply
  <2>4. \A d \in Clients : tracked'[d] \in {None, tracked[d]} /\ (Free(tracked, conn, d) => Free(tracked', conn', d))
    BY <2>1, <2>3, TouchedFree
  <2>5. /\ \A j \in 1 .. Num : conn[j].by \in Clients
        /\ \A d \in Clients : tracked[d] \in {None} \cup 1 .. Num
    BY ConnNotNone DEF Shape
  <2>6. \A j \in 1 .. Num :
          /\ conn'[j].theirs \notin {"held", "closed"} => conn'[j].got = "none"
          /\ conn'[j].theirs = "held" => conn'[j].got = "ok" /\ conn'[j].ask = "SessionOpen"
    BY <1>18, <2>1, Moves DEF Touches, Stays, AnswersWith, ActiveRun
  <2>7. \A j \in 1 .. Num : j # i \/ conn[j].theirs \notin {"reply", "held"}
          \/ conn[j].ask # "SessionOpen"
          \/ conn'[j].cancelled \/ conn'[j].theirs \in {"reply", "held"}
    BY <1>18, <2>1, Moves DEF Touches, Stays, AnswersWith, ActiveRun, SessionInv
  <2>8. \A d \in Clients : tracked'[d] # None =>
          /\ conn'[tracked'[d]].by = d /\ conn'[tracked'[d]].ask = "SessionOpen"
          /\ ~ Free(tracked', conn', d) =>
               /\ conn'[tracked'[d]].theirs \in {"reply", "held"}
               /\ \/ client'[d].pc = "dead" \/ client'[d].lease = tracked'[d]
                  \/ client'[d].pc = "opening" /\ client'[d].at = tracked'[d]
    BY <2>1, <2>4, <2>5, <2>7 DEF Touches, Free
  <2> QED BY <2>1, <2>2, <2>4, <2>5, <2>6, <2>8 DEF Touches
<1>19. ASSUME NEW i \in Conns, ReleaseSession(i) PROVE SessionInv'
  <2>1. Touches(i) /\ i \in 1 .. Num
    BY <1>19, ServerTouches DEF ServerStep, Conns, Num
  <2>2. \A j \in 1 .. Num : Opens(conn', j) => Opens(conn, j)
    BY <1>19, <2>1, Moves DEF Touches, Opens, Unhandled, AnswersWith, ActiveRun
  <2>3. UNCHANGED tracked
    BY <1>19 DEF ReleaseSession
  <2>4. \A d \in Clients : tracked'[d] \in {None, tracked[d]} /\ (Free(tracked, conn, d) => Free(tracked', conn', d))
    BY <2>1, <2>3, TouchedFree
  <2>5. /\ \A j \in 1 .. Num : conn[j].by \in Clients
        /\ \A d \in Clients : tracked[d] \in {None} \cup 1 .. Num
    BY ConnNotNone DEF Shape
  <2>6. \A j \in 1 .. Num :
          /\ conn'[j].theirs \notin {"held", "closed"} => conn'[j].got = "none"
          /\ conn'[j].theirs = "held" => conn'[j].got = "ok" /\ conn'[j].ask = "SessionOpen"
    BY <1>19, <2>1, Moves DEF Touches, Stays, AnswersWith, ActiveRun
  <2>7. \A j \in 1 .. Num : j # i \/ conn[j].theirs \notin {"reply", "held"}
          \/ conn[j].ask # "SessionOpen"
          \/ conn'[j].cancelled \/ conn'[j].theirs \in {"reply", "held"}
    BY <1>19, <2>1, Moves DEF Touches, Stays, AnswersWith, ActiveRun, SessionInv
  <2>8. \A d \in Clients : tracked'[d] # None =>
          /\ conn'[tracked'[d]].by = d /\ conn'[tracked'[d]].ask = "SessionOpen"
          /\ ~ Free(tracked', conn', d) =>
               /\ conn'[tracked'[d]].theirs \in {"reply", "held"}
               /\ \/ client'[d].pc = "dead" \/ client'[d].lease = tracked'[d]
                  \/ client'[d].pc = "opening" /\ client'[d].at = tracked'[d]
    BY <2>1, <2>4, <2>5, <2>7 DEF Touches, Free
  <2> QED BY <2>1, <2>2, <2>4, <2>5, <2>6, <2>8 DEF Touches
<1>20. ASSUME NEW i \in Conns, StartCommand(i) PROVE SessionInv'
  <2>1. Touches(i) /\ i \in 1 .. Num
    BY <1>20, ServerTouches DEF ServerStep, Conns, Num
  <2>2. \A j \in 1 .. Num : Opens(conn', j) => Opens(conn, j)
    BY <1>20, <2>1, Moves DEF Touches, Opens, Unhandled, AnswersWith, ActiveRun
  <2>3. UNCHANGED tracked
    BY <1>20 DEF StartCommand
  <2>4. \A d \in Clients : tracked'[d] \in {None, tracked[d]} /\ (Free(tracked, conn, d) => Free(tracked', conn', d))
    BY <2>1, <2>3, TouchedFree
  <2>5. /\ \A j \in 1 .. Num : conn[j].by \in Clients
        /\ \A d \in Clients : tracked[d] \in {None} \cup 1 .. Num
    BY ConnNotNone DEF Shape
  <2>6. \A j \in 1 .. Num :
          /\ conn'[j].theirs \notin {"held", "closed"} => conn'[j].got = "none"
          /\ conn'[j].theirs = "held" => conn'[j].got = "ok" /\ conn'[j].ask = "SessionOpen"
    BY <1>20, <2>1, Moves DEF Touches, Stays, AnswersWith, ActiveRun
  <2>7. \A j \in 1 .. Num : j # i \/ conn[j].theirs \notin {"reply", "held"}
          \/ conn[j].ask # "SessionOpen"
          \/ conn'[j].cancelled \/ conn'[j].theirs \in {"reply", "held"}
    BY <1>20, <2>1, Moves DEF Touches, Stays, AnswersWith, ActiveRun, SessionInv
  <2>8. \A d \in Clients : tracked'[d] # None =>
          /\ conn'[tracked'[d]].by = d /\ conn'[tracked'[d]].ask = "SessionOpen"
          /\ ~ Free(tracked', conn', d) =>
               /\ conn'[tracked'[d]].theirs \in {"reply", "held"}
               /\ \/ client'[d].pc = "dead" \/ client'[d].lease = tracked'[d]
                  \/ client'[d].pc = "opening" /\ client'[d].at = tracked'[d]
    BY <2>1, <2>4, <2>5, <2>7 DEF Touches, Free
  <2> QED BY <2>1, <2>2, <2>4, <2>5, <2>6, <2>8 DEF Touches
<1>21. ASSUME Crash PROVE SessionInv'
  <2>1. /\ Num' = Num /\ UNCHANGED client /\ tracked' = [c \in Clients |-> None]
        /\ \A i \in 1 .. Num : conn'[i].theirs = "closed" /\ conn'[i].by = conn[i].by
    <3>1. conn' = [i \in 1 .. Num |-> [conn[i] EXCEPT !.theirs = "closed"]]
      BY <1>21 DEF Crash, Conns, Num
    <3>2. \A i \in 1 .. Num : conn[i] \in ConnRec
      BY DEF Shape
    <3>3. Num' = Num /\ UNCHANGED client /\ tracked' = [c \in Clients |-> None]
      BY <1>21, <3>1, NumSame DEF Crash, Shape
    <3> HIDE DEF SessionInv
    <3> QED BY <3>1, <3>2, <3>3 DEF ConnRec
  <2>2. \A i \in 1 .. Num : ~ Opens(conn', i)
    BY <2>1 DEF Opens, Unhandled
  <2> QED BY <2>1, <2>2 DEF Free
<1>22. ASSUME Restart PROVE SessionInv'
  BY <1>22, NumSame DEF Restart, Free, Opens, Unhandled
<1>23. CASE UNCHANGED vars
  BY <1>23, NumSame DEF vars, Free, Opens, Unhandled
<1> QED BY <1>1, <1>2, <1>3, <1>4, <1>5, <1>6, <1>7, <1>8, <1>9, <1>10,
           <1>11, <1>12, <1>13, <1>14, <1>15, <1>16, <1>17, <1>18, <1>19,
           <1>20, <1>21, <1>22, <1>23
        DEF Next, ClientStep, ServerStep

(* No request of a client for a session meets an earlier session of the    *)
(* client that still counts (is_connected, purge_disconnected_clients).    *)
THEOREM NoConflictWithOneself == Spec => []NoOwnConflict
<1> DEFINE Inv == Shape /\ ClientInv /\ SessionInv
<1>1. Init => Inv
  <2> SUFFICES ASSUME Init PROVE Inv
    OBVIOUS
  <2>1. Shape /\ ClientInv
    BY InitShape
  <2>2. Num = 0
    BY FS_EmptySet DEF Init, Num
  <2>3. \A c \in Clients : client[c].pc = "idle" /\ tracked[c] = None
    BY DEF Init
  <2>4. SessionInv
    BY <2>2, <2>3 DEF SessionInv
  <2> QED BY <2>1, <2>4
<1>2. Inv /\ [Next]_vars => Inv'
  BY ShapeStep, ClientStays, SessionStep
<1>3. Inv => NoOwnConflict
  <2> SUFFICES ASSUME Inv, NEW i \in Conns, conn[i].theirs = "handling",
                      conn[i].ask = "SessionOpen"
               PROVE  Purged[conn[i].by] = None
    BY DEF NoOwnConflict
  <2>1. i \in 1 .. Num /\ Opens(conn, i)
    BY DEF Conns, Num, Opens, Unhandled
  <2>2. conn[i].by \in Clients /\ Free(tracked, conn, conn[i].by)
    BY <2>1, ConnNotNone DEF SessionInv
  <2> QED BY <2>2, PurgedFree
<1> QED BY <1>1, <1>2, <1>3, PTL DEF Spec

-----------------------------------------------------------------------------
(* Workers.                                                                *)

(* The clients whose sessions count. *)
Live(tr, cn) == {c \in Clients : ~ Free(tr, cn, c)}

(* Connection i has opened a session that was not cancelled. *)
Open(cn, i) ==
  /\ cn[i].ask = "SessionOpen" /\ ~ cn[i].cancelled
  /\ cn[i].theirs = "held" \/ (cn[i].theirs = "reply" /\ cn[i].answer = "ok")

(* The broker tracks at most MaxSessions sessions, among them every open   *)
(* one; one connection waits at a prompt and one runs a command.           *)
SlotsInv ==
  /\ IsFiniteSet(Live(tracked, conn)) /\ Cardinality(Live(tracked, conn)) <= MaxSessions
  /\ \A i, j \in 1 .. Num : conn[i].theirs = "prompt" /\ conn[j].theirs = "prompt" => i = j
  /\ \A i, j \in 1 .. Num :
       conn[i].theirs \in ActiveRun /\ conn[j].theirs \in ActiveRun => i = j
  /\ \A i \in 1 .. Num : Open(conn, i) => tracked[conn[i].by] = i

(* Fewer sessions are no more. *)
LEMMA LiveShrinks ==
  ASSUME NEW S, NEW T, IsFiniteSet(S), Cardinality(S) <= MaxSessions, T \subseteq S
  PROVE  IsFiniteSet(T) /\ Cardinality(T) <= MaxSessions
<1>1. /\ IsFiniteSet(T) /\ Cardinality(T) <= Cardinality(S)
      /\ Cardinality(T) \in Nat /\ Cardinality(S) \in Nat
  BY FS_Subset, FS_CardinalityType
<1> QED BY <1>1, LimitsAssumption

(* One more is at most one more. *)
LEMMA LiveGrows ==
  ASSUME NEW S, NEW T, NEW c, IsFiniteSet(S), Cardinality(S) < MaxSessions,
         T \subseteq S \cup {c}
  PROVE  IsFiniteSet(T) /\ Cardinality(T) <= MaxSessions
<1>1. /\ IsFiniteSet(S \cup {c}) /\ Cardinality(S) \in Nat
      /\ Cardinality(S \cup {c}) = IF c \in S THEN Cardinality(S) ELSE Cardinality(S) + 1
  BY FS_AddElement, FS_CardinalityType
<1>2. Cardinality(S \cup {c}) <= MaxSessions
  BY <1>1, LimitsAssumption
<1> QED BY <1>1, <1>2, LiveShrinks

(* What the broker counts. *)
LEMMA TrackedIsLive == Shape => TrackedSessions = Live(tracked, conn)
BY PurgedFree DEF TrackedSessions, Live

(* Every step keeps it. *)
LEMMA SlotsStep ==
  ASSUME Shape, ClientInv, PlaceInv, SlotsInv, [Next]_vars
  PROVE  SlotsInv'
<1> USE DEF SlotsInv
<1>1. ASSUME NEW c \in Clients, CallRefused(c) PROVE SlotsInv'
  <2>1. KeepsConns
    BY <1>1, ClientKeeps
  <2>2. \A i \in 1 .. Num : Open(conn', i) => Open(conn, i)
    BY <2>1 DEF KeepsConns, Open
  <2>3. \A d \in Clients : Free(tracked, conn, d) => Free(tracked', conn', d)
    BY <2>1 DEF KeepsConns, Free, Shape
  <2>4. IsFiniteSet(Live(tracked', conn')) /\ Cardinality(Live(tracked', conn')) <= MaxSessions
    <3>1. Live(tracked', conn') \subseteq Live(tracked, conn)
      BY <2>3 DEF Live
    <3> QED BY <3>1, LiveShrinks
  <2> QED BY <2>1, <2>2, <2>4 DEF KeepsConns
<1>2. ASSUME NEW c \in Clients, NEW method \in Methods, Call(c, method) PROVE SlotsInv'
  <2>1. KeepsConns
    BY <1>2, ClientKeeps
  <2>2. \A i \in 1 .. Num : Open(conn', i) => Open(conn, i)
    BY <2>1 DEF KeepsConns, Open
  <2>3. \A d \in Clients : Free(tracked, conn, d) => Free(tracked', conn', d)
    BY <2>1 DEF KeepsConns, Free, Shape
  <2>4. IsFiniteSet(Live(tracked', conn')) /\ Cardinality(Live(tracked', conn')) <= MaxSessions
    <3>1. Live(tracked', conn') \subseteq Live(tracked, conn)
      BY <2>3 DEF Live
    <3> QED BY <3>1, LiveShrinks
  <2> QED BY <2>1, <2>2, <2>4 DEF KeepsConns
<1>3. ASSUME NEW c \in Clients, Exchange(c) PROVE SlotsInv'
  <2>1. /\ Num' = Num + 1 /\ UNCHANGED tracked
        /\ \A i \in 1 .. Num : conn'[i] = conn[i]
        /\ \A i \in 1 .. Num + 1 : i \in 1 .. Num \/ i = Num + 1
        /\ conn'[Num + 1].theirs = "backlog"
    BY <1>3, ExchangeKeeps
  <2>2. ~ Open(conn', Num + 1) /\ \A i \in 1 .. Num : Open(conn', i) => Open(conn, i)
    BY <2>1 DEF Open
  <2>3. \A d \in Clients : Free(tracked, conn, d) => Free(tracked', conn', d)
    BY <2>1 DEF Free, Shape
  <2>4. IsFiniteSet(Live(tracked', conn')) /\ Cardinality(Live(tracked', conn')) <= MaxSessions
    <3>1. Live(tracked', conn') \subseteq Live(tracked, conn)
      BY <2>3 DEF Live
    <3> QED BY <3>1, LiveShrinks
  <2> QED BY <2>1, <2>2, <2>4 DEF ActiveRun
<1>4. ASSUME NEW c \in Clients, NobodyListens(c) PROVE SlotsInv'
  <2>1. KeepsConns
    BY <1>4, ClientKeeps
  <2>2. \A i \in 1 .. Num : Open(conn', i) => Open(conn, i)
    BY <2>1 DEF KeepsConns, Open
  <2>3. \A d \in Clients : Free(tracked, conn, d) => Free(tracked', conn', d)
    BY <2>1 DEF KeepsConns, Free, Shape
  <2>4. IsFiniteSet(Live(tracked', conn')) /\ Cardinality(Live(tracked', conn')) <= MaxSessions
    <3>1. Live(tracked', conn') \subseteq Live(tracked, conn)
      BY <2>3 DEF Live
    <3> QED BY <3>1, LiveShrinks
  <2> QED BY <2>1, <2>2, <2>4 DEF KeepsConns
<1>5. ASSUME NEW c \in Clients, SessionOpened(c) PROVE SlotsInv'
  <2>1. KeepsConns
    BY <1>5, ClientKeeps
  <2>2. \A i \in 1 .. Num : Open(conn', i) => Open(conn, i)
    BY <2>1 DEF KeepsConns, Open
  <2>3. \A d \in Clients : Free(tracked, conn, d) => Free(tracked', conn', d)
    BY <2>1 DEF KeepsConns, Free, Shape
  <2>4. IsFiniteSet(Live(tracked', conn')) /\ Cardinality(Live(tracked', conn')) <= MaxSessions
    <3>1. Live(tracked', conn') \subseteq Live(tracked, conn)
      BY <2>3 DEF Live
    <3> QED BY <3>1, LiveShrinks
  <2> QED BY <2>1, <2>2, <2>4 DEF KeepsConns
<1>6. ASSUME NEW c \in Clients, Answered(c) PROVE SlotsInv'
  <2>1. KeepsConns
    BY <1>6, ClientKeeps
  <2>2. \A i \in 1 .. Num : Open(conn', i) => Open(conn, i)
    BY <2>1 DEF KeepsConns, Open
  <2>3. \A d \in Clients : Free(tracked, conn, d) => Free(tracked', conn', d)
    BY <2>1 DEF KeepsConns, Free, Shape
  <2>4. IsFiniteSet(Live(tracked', conn')) /\ Cardinality(Live(tracked', conn')) <= MaxSessions
    <3>1. Live(tracked', conn') \subseteq Live(tracked, conn)
      BY <2>3 DEF Live
    <3> QED BY <3>1, LiveShrinks
  <2> QED BY <2>1, <2>2, <2>4 DEF KeepsConns
<1>7. ASSUME NEW c \in Clients, LostReply(c) PROVE SlotsInv'
  <2>1. KeepsConns
    BY <1>7, ClientKeeps
  <2>2. \A i \in 1 .. Num : Open(conn', i) => Open(conn, i)
    BY <2>1 DEF KeepsConns, Open
  <2>3. \A d \in Clients : Free(tracked, conn, d) => Free(tracked', conn', d)
    BY <2>1 DEF KeepsConns, Free, Shape
  <2>4. IsFiniteSet(Live(tracked', conn')) /\ Cardinality(Live(tracked', conn')) <= MaxSessions
    <3>1. Live(tracked', conn') \subseteq Live(tracked, conn)
      BY <2>3 DEF Live
    <3> QED BY <3>1, LiveShrinks
  <2> QED BY <2>1, <2>2, <2>4 DEF KeepsConns
<1>8. ASSUME NEW c \in Clients, Exit(c) PROVE SlotsInv'
  <2>1. KeepsConns
    BY <1>8, ClientKeeps
  <2>2. \A i \in 1 .. Num : Open(conn', i) => Open(conn, i)
    BY <2>1 DEF KeepsConns, Open
  <2>3. \A d \in Clients : Free(tracked, conn, d) => Free(tracked', conn', d)
    BY <2>1 DEF KeepsConns, Free, Shape
  <2>4. IsFiniteSet(Live(tracked', conn')) /\ Cardinality(Live(tracked', conn')) <= MaxSessions
    <3>1. Live(tracked', conn') \subseteq Live(tracked, conn)
      BY <2>3 DEF Live
    <3> QED BY <3>1, LiveShrinks
  <2> QED BY <2>1, <2>2, <2>4 DEF KeepsConns
<1>9. ASSUME NEW i \in Conns, Accept(i) PROVE SlotsInv'
  <2>1. Touches(i) /\ i \in 1 .. Num
    BY <1>9, ServerTouches DEF ServerStep, Conns, Num
  <2>2. UNCHANGED tracked
    BY <1>9 DEF Accept
  <2>3. /\ \A j \in 1 .. Num : conn[j].by \in Clients
        /\ \A d \in Clients : tracked[d] \in {None} \cup 1 .. Num
        /\ \A d \in Clients : Free(tracked, conn, d) => Purged[d] = None
        /\ \A d \in Clients : ~ Free(tracked, conn, d) => Purged[d] = tracked[d]
    BY ConnNotNone, PurgedFree DEF Shape
  <2>4. \A d \in Clients : Free(tracked, conn, d) => Free(tracked', conn', d)
    BY <2>1, <2>2, <2>3 DEF Touches, Free
  <2>5. Live(tracked', conn') \subseteq Live(tracked, conn)
    BY <2>4 DEF Live
  <2>6. IsFiniteSet(Live(tracked', conn')) /\ Cardinality(Live(tracked', conn')) <= MaxSessions
    BY <2>5, LiveShrinks
  <2>7. conn'[i].theirs = "prompt" =>
          conn[i].theirs = "prompt" \/ \A j \in 1 .. Num : conn[j].theirs # "prompt"
    BY <1>9, Moves DEF AnswersWith
  <2>8. conn'[i].theirs \in ActiveRun =>
          conn[i].theirs \in ActiveRun \/ \A j \in 1 .. Num : conn[j].theirs \notin ActiveRun
    BY <1>9, Moves DEF AnswersWith, ActiveRun
  <2>9. Open(conn', i) => Open(conn, i)
    BY <1>9, <2>1, Moves DEF AnswersWith, Stays, Touches, Open, ActiveRun, NeedsSession, PlaceInv
  <2>10. \A j \in 1 .. Num : Open(conn', j) => Open(conn, j)
    BY <2>1, <2>9 DEF Touches, Open
  <2>11. \A j \in 1 .. Num : Open(conn', j) => tracked'[conn'[j].by] = j
    <3>1. ASSUME NEW j \in 1 .. Num, Open(conn', j) PROVE tracked'[conn'[j].by] = j
      <4>1. Open(conn, j) /\ tracked[conn[j].by] = j /\ conn'[j].by = conn[j].by
        BY <2>1, <2>10, <3>1 DEF Touches
      <4>2. ~ Free(tracked, conn, conn[j].by)
        BY <4>1, ConnNotNone DEF Free, Open
      <4> QED BY <2>2, <2>3, <4>1, <4>2
    <3> QED BY <3>1
  <2> QED BY <2>1, <2>6, <2>7, <2>8, <2>11 DEF Touches
<1>10. ASSUME NEW i \in Conns, ReadRequest(i) PROVE SlotsInv'
  <2>1. Touches(i) /\ i \in 1 .. Num
    BY <1>10, ServerTouches DEF ServerStep, Conns, Num
  <2>2. UNCHANGED tracked
    BY <1>10 DEF ReadRequest
  <2>3. /\ \A j \in 1 .. Num : conn[j].by \in Clients
        /\ \A d \in Clients : tracked[d] \in {None} \cup 1 .. Num
        /\ \A d \in Clients : Free(tracked, conn, d) => Purged[d] = None
        /\ \A d \in Clients : ~ Free(tracked, conn, d) => Purged[d] = tracked[d]
    BY ConnNotNone, PurgedFree DEF Shape
  <2>4. \A d \in Clients : Free(tracked, conn, d) => Free(tracked', conn', d)
    BY <2>1, <2>2, <2>3 DEF Touches, Free
  <2>5. Live(tracked', conn') \subseteq Live(tracked, conn)
    BY <2>4 DEF Live
  <2>6. IsFiniteSet(Live(tracked', conn')) /\ Cardinality(Live(tracked', conn')) <= MaxSessions
    BY <2>5, LiveShrinks
  <2>7. conn'[i].theirs = "prompt" =>
          conn[i].theirs = "prompt" \/ \A j \in 1 .. Num : conn[j].theirs # "prompt"
    BY <1>10, Moves DEF AnswersWith
  <2>8. conn'[i].theirs \in ActiveRun =>
          conn[i].theirs \in ActiveRun \/ \A j \in 1 .. Num : conn[j].theirs \notin ActiveRun
    BY <1>10, Moves DEF AnswersWith, ActiveRun
  <2>9. Open(conn', i) => Open(conn, i)
    BY <1>10, <2>1, Moves DEF AnswersWith, Stays, Touches, Open, ActiveRun, NeedsSession, PlaceInv
  <2>10. \A j \in 1 .. Num : Open(conn', j) => Open(conn, j)
    BY <2>1, <2>9 DEF Touches, Open
  <2>11. \A j \in 1 .. Num : Open(conn', j) => tracked'[conn'[j].by] = j
    <3>1. ASSUME NEW j \in 1 .. Num, Open(conn', j) PROVE tracked'[conn'[j].by] = j
      <4>1. Open(conn, j) /\ tracked[conn[j].by] = j /\ conn'[j].by = conn[j].by
        BY <2>1, <2>10, <3>1 DEF Touches
      <4>2. ~ Free(tracked, conn, conn[j].by)
        BY <4>1, ConnNotNone DEF Free, Open
      <4> QED BY <2>2, <2>3, <4>1, <4>2
    <3> QED BY <3>1
  <2> QED BY <2>1, <2>6, <2>7, <2>8, <2>11 DEF Touches
<1>11. ASSUME NEW i \in Conns, Monitor(i) PROVE SlotsInv'
  <2>1. Touches(i) /\ i \in 1 .. Num
    BY <1>11, ServerTouches DEF ServerStep, Conns, Num
  <2>2. UNCHANGED tracked
    BY <1>11 DEF Monitor
  <2>3. /\ \A j \in 1 .. Num : conn[j].by \in Clients
        /\ \A d \in Clients : tracked[d] \in {None} \cup 1 .. Num
        /\ \A d \in Clients : Free(tracked, conn, d) => Purged[d] = None
        /\ \A d \in Clients : ~ Free(tracked, conn, d) => Purged[d] = tracked[d]
    BY ConnNotNone, PurgedFree DEF Shape
  <2>4. \A d \in Clients : Free(tracked, conn, d) => Free(tracked', conn', d)
    BY <2>1, <2>2, <2>3 DEF Touches, Free
  <2>5. Live(tracked', conn') \subseteq Live(tracked, conn)
    BY <2>4 DEF Live
  <2>6. IsFiniteSet(Live(tracked', conn')) /\ Cardinality(Live(tracked', conn')) <= MaxSessions
    BY <2>5, LiveShrinks
  <2>7. conn'[i].theirs = "prompt" =>
          conn[i].theirs = "prompt" \/ \A j \in 1 .. Num : conn[j].theirs # "prompt"
    BY <1>11, Moves DEF AnswersWith
  <2>8. conn'[i].theirs \in ActiveRun =>
          conn[i].theirs \in ActiveRun \/ \A j \in 1 .. Num : conn[j].theirs \notin ActiveRun
    BY <1>11, Moves DEF AnswersWith, ActiveRun
  <2>9. Open(conn', i) => Open(conn, i)
    BY <1>11, <2>1, Moves DEF AnswersWith, Stays, Touches, Open, ActiveRun, NeedsSession, PlaceInv
  <2>10. \A j \in 1 .. Num : Open(conn', j) => Open(conn, j)
    BY <2>1, <2>9 DEF Touches, Open
  <2>11. \A j \in 1 .. Num : Open(conn', j) => tracked'[conn'[j].by] = j
    <3>1. ASSUME NEW j \in 1 .. Num, Open(conn', j) PROVE tracked'[conn'[j].by] = j
      <4>1. Open(conn, j) /\ tracked[conn[j].by] = j /\ conn'[j].by = conn[j].by
        BY <2>1, <2>10, <3>1 DEF Touches
      <4>2. ~ Free(tracked, conn, conn[j].by)
        BY <4>1, ConnNotNone DEF Free, Open
      <4> QED BY <2>2, <2>3, <4>1, <4>2
    <3> QED BY <3>1
  <2> QED BY <2>1, <2>6, <2>7, <2>8, <2>11 DEF Touches
<1>12. ASSUME NEW i \in Conns, Register(i) PROVE SlotsInv'
  <2>1. Touches(i) /\ i \in 1 .. Num
    BY <1>12, ServerTouches DEF ServerStep, Conns, Num
  <2>2. /\ \A j \in 1 .. Num : conn[j].by \in Clients
        /\ \A d \in Clients : Free(tracked, conn, d) => Purged[d] = None
        /\ \A d \in Clients : ~ Free(tracked, conn, d) => Purged[d] = tracked[d]
    BY ConnNotNone, PurgedFree
  <2>3. conn'[i].theirs = "reply" /\ ~ Open(conn, i)
    BY <1>12, Moves DEF AnswersWith, Open
  <2>4. \A d \in Clients : d # conn[i].by /\ Free(tracked, conn, d) => Free(tracked', conn', d)
    <3>1. \A d \in Clients : d # conn[i].by => tracked'[d] = Purged[d]
      BY <1>12 DEF Register, Purged
    <3> QED BY <2>2, <3>1 DEF Free
  <2>5. \A j \in 1 .. Num : j # i => (Open(conn', j) <=> Open(conn, j))
    BY <2>1 DEF Touches, Open
  <2>6. CASE tracked' = Purged /\ Answers(i, "error")
    <3>1. ~ Open(conn', i)
      <4>1. conn'[i].answer = "error"
        BY <2>6, AnswersMoves
      <4> QED BY <2>3, <4>1 DEF Open
    <3>2. \A d \in Clients : Free(tracked, conn, d) => Free(tracked', conn', d)
      BY <2>6, TableFree
    <3>3. IsFiniteSet(Live(tracked', conn')) /\ Cardinality(Live(tracked', conn')) <= MaxSessions
      <4>1. Live(tracked', conn') \subseteq Live(tracked, conn)
        BY <3>2 DEF Live
      <4> QED BY <4>1, LiveShrinks
    <3>4. ASSUME NEW j \in 1 .. Num, Open(conn', j) PROVE tracked'[conn'[j].by] = j
      <4>1. j # i /\ Open(conn, j) /\ tracked[conn[j].by] = j /\ conn'[j].by = conn[j].by
        BY <2>1, <2>5, <3>1, <3>4 DEF Touches
      <4>2. ~ Free(tracked, conn, conn[j].by)
        BY <4>1, ConnNotNone DEF Free, Open
      <4> QED BY <2>2, <2>6, <4>1, <4>2
    <3> QED BY <2>1, <2>3, <3>3, <3>4 DEF Touches, ActiveRun
  <2>7. CASE /\ Purged[conn[i].by] = None /\ Cardinality(TrackedSessions) < MaxSessions
             /\ tracked' = [Purged EXCEPT ![conn[i].by] = i]
    <3>1. IsFiniteSet(Live(tracked', conn')) /\ Cardinality(Live(tracked', conn')) <= MaxSessions
      <4>1. Live(tracked', conn') \subseteq Live(tracked, conn) \cup {conn[i].by}
        BY <2>4 DEF Live
      <4>2. Cardinality(Live(tracked, conn)) < MaxSessions
        BY <2>7, TrackedIsLive
      <4> QED BY <4>1, <4>2, LiveGrows
    <3>2. tracked'[conn'[i].by] = i
      BY <2>1, <2>2, <2>7 DEF Touches, Purged
    <3>3. ASSUME NEW j \in 1 .. Num, j # i, Open(conn', j) PROVE tracked'[conn'[j].by] = j
      <4>1. Open(conn, j) /\ tracked[conn[j].by] = j /\ conn'[j].by = conn[j].by
        BY <2>1, <2>5, <3>3 DEF Touches
      <4>2. ~ Free(tracked, conn, conn[j].by)
        BY <4>1, ConnNotNone DEF Free, Open
      <4>3. Purged[conn[j].by] = j /\ conn[j].by # conn[i].by
        BY <2>2, <2>7, <4>1, <4>2, ConnNotNone
      <4> QED BY <2>2, <2>7, <4>1, <4>3 DEF Purged
    <3> QED BY <2>1, <2>3, <3>1, <3>2, <3>3 DEF Touches, ActiveRun
  <2>8. \/ tracked' = Purged /\ Answers(i, "error")
        \/ /\ Purged[conn[i].by] = None /\ ~ (Cardinality(TrackedSessions) >= MaxSessions)
           /\ tracked' = [Purged EXCEPT ![conn[i].by] = i]
    BY <1>12 DEF Register
  <2>9. Cardinality(TrackedSessions) \in Nat /\ MaxSessions \in Nat
    BY TrackedIsLive, FS_CardinalityType, LimitsAssumption
  <2>10. ~ (Cardinality(TrackedSessions) >= MaxSessions) => Cardinality(TrackedSessions) < MaxSessions
    BY <2>9
  <2> QED BY <2>6, <2>7, <2>8, <2>10
<1>13. ASSUME NEW i \in Conns, HandleShort(i) PROVE SlotsInv'
  <2>1. Touches(i) /\ i \in 1 .. Num
    BY <1>13, ServerTouches DEF ServerStep, Conns, Num
  <2>2. tracked' = Purged
    BY <1>13 DEF HandleShort
  <2>3. /\ \A j \in 1 .. Num : conn[j].by \in Clients
        /\ \A d \in Clients : tracked[d] \in {None} \cup 1 .. Num
        /\ \A d \in Clients : Free(tracked, conn, d) => Purged[d] = None
        /\ \A d \in Clients : ~ Free(tracked, conn, d) => Purged[d] = tracked[d]
    BY ConnNotNone, PurgedFree DEF Shape
  <2>4. \A d \in Clients : Free(tracked, conn, d) => Free(tracked', conn', d)
    BY <2>1, <2>2, <2>3 DEF Touches, Free
  <2>5. Live(tracked', conn') \subseteq Live(tracked, conn)
    BY <2>4 DEF Live
  <2>6. IsFiniteSet(Live(tracked', conn')) /\ Cardinality(Live(tracked', conn')) <= MaxSessions
    BY <2>5, LiveShrinks
  <2>7. conn'[i].theirs = "prompt" =>
          conn[i].theirs = "prompt" \/ \A j \in 1 .. Num : conn[j].theirs # "prompt"
    BY <1>13, Moves DEF AnswersWith
  <2>8. conn'[i].theirs \in ActiveRun =>
          conn[i].theirs \in ActiveRun \/ \A j \in 1 .. Num : conn[j].theirs \notin ActiveRun
    BY <1>13, Moves DEF AnswersWith, ActiveRun
  <2>9. Open(conn', i) => Open(conn, i)
    BY <1>13, <2>1, Moves DEF AnswersWith, Stays, Touches, Open, ActiveRun, NeedsSession, PlaceInv
  <2>10. \A j \in 1 .. Num : Open(conn', j) => Open(conn, j)
    BY <2>1, <2>9 DEF Touches, Open
  <2>11. \A j \in 1 .. Num : Open(conn', j) => tracked'[conn'[j].by] = j
    <3>1. ASSUME NEW j \in 1 .. Num, Open(conn', j) PROVE tracked'[conn'[j].by] = j
      <4>1. Open(conn, j) /\ tracked[conn[j].by] = j /\ conn'[j].by = conn[j].by
        BY <2>1, <2>10, <3>1 DEF Touches
      <4>2. ~ Free(tracked, conn, conn[j].by)
        BY <4>1, ConnNotNone DEF Free, Open
      <4> QED BY <2>2, <2>3, <4>1, <4>2
    <3> QED BY <3>1
  <2> QED BY <2>1, <2>6, <2>7, <2>8, <2>11 DEF Touches
<1>14. ASSUME NEW i \in Conns, AwaitUnlock(i) PROVE SlotsInv'
  <2>1. Touches(i) /\ i \in 1 .. Num
    BY <1>14, ServerTouches DEF ServerStep, Conns, Num
  <2>2. tracked' = Purged
    BY <1>14 DEF AwaitUnlock
  <2>3. /\ \A j \in 1 .. Num : conn[j].by \in Clients
        /\ \A d \in Clients : tracked[d] \in {None} \cup 1 .. Num
        /\ \A d \in Clients : Free(tracked, conn, d) => Purged[d] = None
        /\ \A d \in Clients : ~ Free(tracked, conn, d) => Purged[d] = tracked[d]
    BY ConnNotNone, PurgedFree DEF Shape
  <2>4. \A d \in Clients : Free(tracked, conn, d) => Free(tracked', conn', d)
    BY <2>1, <2>2, <2>3 DEF Touches, Free
  <2>5. Live(tracked', conn') \subseteq Live(tracked, conn)
    BY <2>4 DEF Live
  <2>6. IsFiniteSet(Live(tracked', conn')) /\ Cardinality(Live(tracked', conn')) <= MaxSessions
    BY <2>5, LiveShrinks
  <2>7. conn'[i].theirs = "prompt" =>
          conn[i].theirs = "prompt" \/ \A j \in 1 .. Num : conn[j].theirs # "prompt"
    BY <1>14, Moves, GoesMoves, AnswersMoves DEF AnswersWith, AwaitUnlock, Conns, Num
  <2>8. conn'[i].theirs \in ActiveRun =>
          conn[i].theirs \in ActiveRun \/ \A j \in 1 .. Num : conn[j].theirs \notin ActiveRun
    BY <1>14, Moves DEF AnswersWith, ActiveRun
  <2>9. Open(conn', i) => Open(conn, i)
    BY <1>14, <2>1, Moves DEF AnswersWith, Stays, Touches, Open, ActiveRun, NeedsSession, PlaceInv
  <2>10. \A j \in 1 .. Num : Open(conn', j) => Open(conn, j)
    BY <2>1, <2>9 DEF Touches, Open
  <2>11. \A j \in 1 .. Num : Open(conn', j) => tracked'[conn'[j].by] = j
    <3>1. ASSUME NEW j \in 1 .. Num, Open(conn', j) PROVE tracked'[conn'[j].by] = j
      <4>1. Open(conn, j) /\ tracked[conn[j].by] = j /\ conn'[j].by = conn[j].by
        BY <2>1, <2>10, <3>1 DEF Touches
      <4>2. ~ Free(tracked, conn, conn[j].by)
        BY <4>1, ConnNotNone DEF Free, Open
      <4> QED BY <2>2, <2>3, <4>1, <4>2
    <3> QED BY <3>1
  <2> QED BY <2>1, <2>6, <2>7, <2>8, <2>11 DEF Touches
<1>15. ASSUME NEW i \in Conns, PromptEnds(i) PROVE SlotsInv'
  <2>1. Touches(i) /\ i \in 1 .. Num
    BY <1>15, ServerTouches DEF ServerStep, Conns, Num
  <2>2. UNCHANGED tracked
    BY <1>15 DEF PromptEnds
  <2>3. /\ \A j \in 1 .. Num : conn[j].by \in Clients
        /\ \A d \in Clients : tracked[d] \in {None} \cup 1 .. Num
        /\ \A d \in Clients : Free(tracked, conn, d) => Purged[d] = None
        /\ \A d \in Clients : ~ Free(tracked, conn, d) => Purged[d] = tracked[d]
    BY ConnNotNone, PurgedFree DEF Shape
  <2>4. \A d \in Clients : Free(tracked, conn, d) => Free(tracked', conn', d)
    BY <2>1, <2>2, <2>3 DEF Touches, Free
  <2>5. Live(tracked', conn') \subseteq Live(tracked, conn)
    BY <2>4 DEF Live
  <2>6. IsFiniteSet(Live(tracked', conn')) /\ Cardinality(Live(tracked', conn')) <= MaxSessions
    BY <2>5, LiveShrinks
  <2>7. conn'[i].theirs = "prompt" =>
          conn[i].theirs = "prompt" \/ \A j \in 1 .. Num : conn[j].theirs # "prompt"
    BY <1>15, Moves DEF AnswersWith
  <2>8. conn'[i].theirs \in ActiveRun =>
          conn[i].theirs \in ActiveRun \/ \A j \in 1 .. Num : conn[j].theirs \notin ActiveRun
    BY <1>15, Moves DEF AnswersWith, ActiveRun
  <2>9. Open(conn', i) => Open(conn, i)
    BY <1>15, <2>1, Moves DEF AnswersWith, Stays, Touches, Open, ActiveRun, NeedsSession, PlaceInv
  <2>10. \A j \in 1 .. Num : Open(conn', j) => Open(conn, j)
    BY <2>1, <2>9 DEF Touches, Open
  <2>11. \A j \in 1 .. Num : Open(conn', j) => tracked'[conn'[j].by] = j
    <3>1. ASSUME NEW j \in 1 .. Num, Open(conn', j) PROVE tracked'[conn'[j].by] = j
      <4>1. Open(conn, j) /\ tracked[conn[j].by] = j /\ conn'[j].by = conn[j].by
        BY <2>1, <2>10, <3>1 DEF Touches
      <4>2. ~ Free(tracked, conn, conn[j].by)
        BY <4>1, ConnNotNone DEF Free, Open
      <4> QED BY <2>2, <2>3, <4>1, <4>2
    <3> QED BY <3>1
  <2> QED BY <2>1, <2>6, <2>7, <2>8, <2>11 DEF Touches
<1>16. ASSUME NEW i \in Conns, Admit(i) PROVE SlotsInv'
  <2>1. Touches(i) /\ i \in 1 .. Num
    BY <1>16, ServerTouches DEF ServerStep, Conns, Num
  <2>2. UNCHANGED tracked
    BY <1>16 DEF Admit
  <2>3. /\ \A j \in 1 .. Num : conn[j].by \in Clients
        /\ \A d \in Clients : tracked[d] \in {None} \cup 1 .. Num
        /\ \A d \in Clients : Free(tracked, conn, d) => Purged[d] = None
        /\ \A d \in Clients : ~ Free(tracked, conn, d) => Purged[d] = tracked[d]
    BY ConnNotNone, PurgedFree DEF Shape
  <2>4. \A d \in Clients : Free(tracked, conn, d) => Free(tracked', conn', d)
    BY <2>1, <2>2, <2>3 DEF Touches, Free
  <2>5. Live(tracked', conn') \subseteq Live(tracked, conn)
    BY <2>4 DEF Live
  <2>6. IsFiniteSet(Live(tracked', conn')) /\ Cardinality(Live(tracked', conn')) <= MaxSessions
    BY <2>5, LiveShrinks
  <2>7. conn'[i].theirs = "prompt" =>
          conn[i].theirs = "prompt" \/ \A j \in 1 .. Num : conn[j].theirs # "prompt"
    BY <1>16, Moves DEF AnswersWith
  <2>8. conn'[i].theirs \in ActiveRun =>
          conn[i].theirs \in ActiveRun \/ \A j \in 1 .. Num : conn[j].theirs \notin ActiveRun
    BY <1>16, Moves, GoesMoves, AnswersMoves DEF AnswersWith, ActiveRun, Admit, Conns, Num
  <2>9. Open(conn', i) => Open(conn, i)
    BY <1>16, <2>1, Moves DEF AnswersWith, Stays, Touches, Open, ActiveRun, NeedsSession, PlaceInv
  <2>10. \A j \in 1 .. Num : Open(conn', j) => Open(conn, j)
    BY <2>1, <2>9 DEF Touches, Open
  <2>11. \A j \in 1 .. Num : Open(conn', j) => tracked'[conn'[j].by] = j
    <3>1. ASSUME NEW j \in 1 .. Num, Open(conn', j) PROVE tracked'[conn'[j].by] = j
      <4>1. Open(conn, j) /\ tracked[conn[j].by] = j /\ conn'[j].by = conn[j].by
        BY <2>1, <2>10, <3>1 DEF Touches
      <4>2. ~ Free(tracked, conn, conn[j].by)
        BY <4>1, ConnNotNone DEF Free, Open
      <4> QED BY <2>2, <2>3, <4>1, <4>2
    <3> QED BY <3>1
  <2> QED BY <2>1, <2>6, <2>7, <2>8, <2>11 DEF Touches
<1>17. ASSUME NEW i \in Conns, FinishRun(i) PROVE SlotsInv'
  <2>1. Touches(i) /\ i \in 1 .. Num
    BY <1>17, ServerTouches DEF ServerStep, Conns, Num
  <2>2. UNCHANGED tracked
    BY <1>17 DEF FinishRun
  <2>3. /\ \A j \in 1 .. Num : conn[j].by \in Clients
        /\ \A d \in Clients : tracked[d] \in {None} \cup 1 .. Num
        /\ \A d \in Clients : Free(tracked, conn, d) => Purged[d] = None
        /\ \A d \in Clients : ~ Free(tracked, conn, d) => Purged[d] = tracked[d]
    BY ConnNotNone, PurgedFree DEF Shape
  <2>4. \A d \in Clients : Free(tracked, conn, d) => Free(tracked', conn', d)
    BY <2>1, <2>2, <2>3 DEF Touches, Free
  <2>5. Live(tracked', conn') \subseteq Live(tracked, conn)
    BY <2>4 DEF Live
  <2>6. IsFiniteSet(Live(tracked', conn')) /\ Cardinality(Live(tracked', conn')) <= MaxSessions
    BY <2>5, LiveShrinks
  <2>7. conn'[i].theirs = "prompt" =>
          conn[i].theirs = "prompt" \/ \A j \in 1 .. Num : conn[j].theirs # "prompt"
    BY <1>17, Moves DEF AnswersWith
  <2>8. conn'[i].theirs \in ActiveRun =>
          conn[i].theirs \in ActiveRun \/ \A j \in 1 .. Num : conn[j].theirs \notin ActiveRun
    BY <1>17, Moves DEF AnswersWith, ActiveRun
  <2>9. Open(conn', i) => Open(conn, i)
    BY <1>17, <2>1, Moves DEF AnswersWith, Stays, Touches, Open, ActiveRun, NeedsSession, PlaceInv
  <2>10. \A j \in 1 .. Num : Open(conn', j) => Open(conn, j)
    BY <2>1, <2>9 DEF Touches, Open
  <2>11. \A j \in 1 .. Num : Open(conn', j) => tracked'[conn'[j].by] = j
    <3>1. ASSUME NEW j \in 1 .. Num, Open(conn', j) PROVE tracked'[conn'[j].by] = j
      <4>1. Open(conn, j) /\ tracked[conn[j].by] = j /\ conn'[j].by = conn[j].by
        BY <2>1, <2>10, <3>1 DEF Touches
      <4>2. ~ Free(tracked, conn, conn[j].by)
        BY <4>1, ConnNotNone DEF Free, Open
      <4> QED BY <2>2, <2>3, <4>1, <4>2
    <3> QED BY <3>1
  <2> QED BY <2>1, <2>6, <2>7, <2>8, <2>11 DEF Touches
<1>18. ASSUME NEW i \in Conns, Reply(i) PROVE SlotsInv'
  <2>1. Touches(i) /\ i \in 1 .. Num
    BY <1>18, ServerTouches DEF ServerStep, Conns, Num
  <2>2. UNCHANGED tracked
    BY <1>18 DEF Reply
  <2>3. /\ \A j \in 1 .. Num : conn[j].by \in Clients
        /\ \A d \in Clients : tracked[d] \in {None} \cup 1 .. Num
        /\ \A d \in Clients : Free(tracked, conn, d) => Purged[d] = None
        /\ \A d \in Clients : ~ Free(tracked, conn, d) => Purged[d] = tracked[d]
    BY ConnNotNone, PurgedFree DEF Shape
  <2>4. \A d \in Clients : Free(tracked, conn, d) => Free(tracked', conn', d)
    BY <2>1, <2>2, <2>3 DEF Touches, Free
  <2>5. Live(tracked', conn') \subseteq Live(tracked, conn)
    BY <2>4 DEF Live
  <2>6. IsFiniteSet(Live(tracked', conn')) /\ Cardinality(Live(tracked', conn')) <= MaxSessions
    BY <2>5, LiveShrinks
  <2>7. conn'[i].theirs = "prompt" =>
          conn[i].theirs = "prompt" \/ \A j \in 1 .. Num : conn[j].theirs # "prompt"
    BY <1>18, Moves DEF AnswersWith
  <2>8. conn'[i].theirs \in ActiveRun =>
          conn[i].theirs \in ActiveRun \/ \A j \in 1 .. Num : conn[j].theirs \notin ActiveRun
    BY <1>18, Moves DEF AnswersWith, ActiveRun
  <2>9. Open(conn', i) => Open(conn, i)
    BY <1>18, <2>1, Moves DEF AnswersWith, Stays, Touches, Open, ActiveRun, NeedsSession, PlaceInv
  <2>10. \A j \in 1 .. Num : Open(conn', j) => Open(conn, j)
    BY <2>1, <2>9 DEF Touches, Open
  <2>11. \A j \in 1 .. Num : Open(conn', j) => tracked'[conn'[j].by] = j
    <3>1. ASSUME NEW j \in 1 .. Num, Open(conn', j) PROVE tracked'[conn'[j].by] = j
      <4>1. Open(conn, j) /\ tracked[conn[j].by] = j /\ conn'[j].by = conn[j].by
        BY <2>1, <2>10, <3>1 DEF Touches
      <4>2. ~ Free(tracked, conn, conn[j].by)
        BY <4>1, ConnNotNone DEF Free, Open
      <4> QED BY <2>2, <2>3, <4>1, <4>2
    <3> QED BY <3>1
  <2> QED BY <2>1, <2>6, <2>7, <2>8, <2>11 DEF Touches
<1>19. ASSUME NEW i \in Conns, ReleaseSession(i) PROVE SlotsInv'
  <2>1. Touches(i) /\ i \in 1 .. Num
    BY <1>19, ServerTouches DEF ServerStep, Conns, Num
  <2>2. UNCHANGED tracked
    BY <1>19 DEF ReleaseSession
  <2>3. /\ \A j \in 1 .. Num : conn[j].by \in Clients
        /\ \A d \in Clients : tracked[d] \in {None} \cup 1 .. Num
        /\ \A d \in Clients : Free(tracked, conn, d) => Purged[d] = None
        /\ \A d \in Clients : ~ Free(tracked, conn, d) => Purged[d] = tracked[d]
    BY ConnNotNone, PurgedFree DEF Shape
  <2>4. \A d \in Clients : Free(tracked, conn, d) => Free(tracked', conn', d)
    BY <2>1, <2>2, <2>3 DEF Touches, Free
  <2>5. Live(tracked', conn') \subseteq Live(tracked, conn)
    BY <2>4 DEF Live
  <2>6. IsFiniteSet(Live(tracked', conn')) /\ Cardinality(Live(tracked', conn')) <= MaxSessions
    BY <2>5, LiveShrinks
  <2>7. conn'[i].theirs = "prompt" =>
          conn[i].theirs = "prompt" \/ \A j \in 1 .. Num : conn[j].theirs # "prompt"
    BY <1>19, Moves DEF AnswersWith
  <2>8. conn'[i].theirs \in ActiveRun =>
          conn[i].theirs \in ActiveRun \/ \A j \in 1 .. Num : conn[j].theirs \notin ActiveRun
    BY <1>19, Moves DEF AnswersWith, ActiveRun
  <2>9. Open(conn', i) => Open(conn, i)
    BY <1>19, <2>1, Moves DEF AnswersWith, Stays, Touches, Open, ActiveRun, NeedsSession, PlaceInv
  <2>10. \A j \in 1 .. Num : Open(conn', j) => Open(conn, j)
    BY <2>1, <2>9 DEF Touches, Open
  <2>11. \A j \in 1 .. Num : Open(conn', j) => tracked'[conn'[j].by] = j
    <3>1. ASSUME NEW j \in 1 .. Num, Open(conn', j) PROVE tracked'[conn'[j].by] = j
      <4>1. Open(conn, j) /\ tracked[conn[j].by] = j /\ conn'[j].by = conn[j].by
        BY <2>1, <2>10, <3>1 DEF Touches
      <4>2. ~ Free(tracked, conn, conn[j].by)
        BY <4>1, ConnNotNone DEF Free, Open
      <4> QED BY <2>2, <2>3, <4>1, <4>2
    <3> QED BY <3>1
  <2> QED BY <2>1, <2>6, <2>7, <2>8, <2>11 DEF Touches
<1>20. ASSUME NEW i \in Conns, StartCommand(i) PROVE SlotsInv'
  <2>1. Touches(i) /\ i \in 1 .. Num
    BY <1>20, ServerTouches DEF ServerStep, Conns, Num
  <2>2. UNCHANGED tracked
    BY <1>20 DEF StartCommand
  <2>3. /\ \A j \in 1 .. Num : conn[j].by \in Clients
        /\ \A d \in Clients : tracked[d] \in {None} \cup 1 .. Num
        /\ \A d \in Clients : Free(tracked, conn, d) => Purged[d] = None
        /\ \A d \in Clients : ~ Free(tracked, conn, d) => Purged[d] = tracked[d]
    BY ConnNotNone, PurgedFree DEF Shape
  <2>4. \A d \in Clients : Free(tracked, conn, d) => Free(tracked', conn', d)
    BY <2>1, <2>2, <2>3 DEF Touches, Free
  <2>5. Live(tracked', conn') \subseteq Live(tracked, conn)
    BY <2>4 DEF Live
  <2>6. IsFiniteSet(Live(tracked', conn')) /\ Cardinality(Live(tracked', conn')) <= MaxSessions
    BY <2>5, LiveShrinks
  <2>7. conn'[i].theirs = "prompt" =>
          conn[i].theirs = "prompt" \/ \A j \in 1 .. Num : conn[j].theirs # "prompt"
    BY <1>20, Moves DEF AnswersWith
  <2>8. conn'[i].theirs \in ActiveRun =>
          conn[i].theirs \in ActiveRun \/ \A j \in 1 .. Num : conn[j].theirs \notin ActiveRun
    BY <1>20, Moves DEF AnswersWith, ActiveRun
  <2>9. Open(conn', i) => Open(conn, i)
    BY <1>20, <2>1, Moves DEF AnswersWith, Stays, Touches, Open, ActiveRun, NeedsSession, PlaceInv
  <2>10. \A j \in 1 .. Num : Open(conn', j) => Open(conn, j)
    BY <2>1, <2>9 DEF Touches, Open
  <2>11. \A j \in 1 .. Num : Open(conn', j) => tracked'[conn'[j].by] = j
    <3>1. ASSUME NEW j \in 1 .. Num, Open(conn', j) PROVE tracked'[conn'[j].by] = j
      <4>1. Open(conn, j) /\ tracked[conn[j].by] = j /\ conn'[j].by = conn[j].by
        BY <2>1, <2>10, <3>1 DEF Touches
      <4>2. ~ Free(tracked, conn, conn[j].by)
        BY <4>1, ConnNotNone DEF Free, Open
      <4> QED BY <2>2, <2>3, <4>1, <4>2
    <3> QED BY <3>1
  <2> QED BY <2>1, <2>6, <2>7, <2>8, <2>11 DEF Touches
<1>21. ASSUME Crash PROVE SlotsInv'
  <2>1. /\ Num' = Num /\ tracked' = [c \in Clients |-> None]
        /\ \A i \in 1 .. Num : conn'[i].theirs = "closed"
    <3>1. conn' = [i \in 1 .. Num |-> [conn[i] EXCEPT !.theirs = "closed"]]
      BY <1>21 DEF Crash, Conns, Num
    <3>2. \A i \in 1 .. Num : conn[i] \in ConnRec
      BY DEF Shape
    <3>3. Num' = Num /\ tracked' = [c \in Clients |-> None]
      BY <1>21, <3>1, NumSame DEF Crash, Shape
    <3> HIDE DEF SlotsInv
    <3> QED BY <3>1, <3>2, <3>3 DEF ConnRec
  <2>2. Live(tracked', conn') = {}
    BY <2>1 DEF Live, Free
  <2>3. IsFiniteSet(Live(tracked', conn')) /\ Cardinality(Live(tracked', conn')) <= MaxSessions
    BY <2>2, LiveShrinks
  <2>4. \A i \in 1 .. Num : ~ Open(conn', i)
    BY <2>1 DEF Open
  <2> QED BY <2>1, <2>3, <2>4 DEF ActiveRun
<1>22. ASSUME Restart PROVE SlotsInv'
  BY <1>22, NumSame DEF Restart
<1>23. CASE UNCHANGED vars
  BY <1>23, NumSame DEF vars
<1> QED BY <1>1, <1>2, <1>3, <1>4, <1>5, <1>6, <1>7, <1>8, <1>9, <1>10,
           <1>11, <1>12, <1>13, <1>14, <1>15, <1>16, <1>17, <1>18, <1>19,
           <1>20, <1>21, <1>22, <1>23
        DEF Next, ClientStep, ServerStep

(* A set without two members has at most one. *)
LEMMA AtMostOne ==
  ASSUME NEW S, \A x, y \in S : x = y
  PROVE  IsFiniteSet(S) /\ Cardinality(S) \in {0, 1}
<1>1. CASE S = {}
  BY <1>1, FS_EmptySet
<1>2. CASE S # {}
  <2>1. PICK x : S = {x}
    BY <1>2
  <2> QED BY <2>1, FS_Singleton
<1> QED BY <1>1, <1>2

(* The sessions, one prompt and one run are all that can hold a worker for *)
(* long (MAX_CONNECTION_WORKERS, register_client_session).                 *)
THEOREM WorkersRemain == Spec => []SlotsRemain
<1> DEFINE Inv == Shape /\ ClientInv /\ PlaceInv /\ SlotsInv
<1>1. Init => Inv
  <2> SUFFICES ASSUME Init PROVE Inv
    OBVIOUS
  <2>1. Shape /\ ClientInv
    BY InitShape
  <2>2. Num = 0
    BY FS_EmptySet DEF Init, Num
  <2>3. Live(tracked, conn) = {}
    BY DEF Init, Live, Free
  <2>4. IsFiniteSet(Live(tracked, conn)) /\ Cardinality(Live(tracked, conn)) <= MaxSessions
    BY <2>3, FS_EmptySet, LimitsAssumption
  <2>5. SlotsInv /\ PlaceInv
    BY <2>2, <2>4 DEF SlotsInv, PlaceInv
  <2> QED BY <2>1, <2>5
<1>2. Inv /\ [Next]_vars => Inv'
  BY ShapeStep, ClientStays, PlaceStep, SlotsStep
<1>3. Inv => SlotsRemain
  <2> SUFFICES ASSUME Inv PROVE SlotsRemain
    OBVIOUS
  <2> DEFINE P == {i \in 1 .. Num : conn[i].theirs = "prompt"}
             A == {i \in 1 .. Num : conn[i].theirs \in ActiveRun}
             H == {i \in 1 .. Num : conn[i].theirs = "held" /\ ~ conn[i].cancelled
                                      /\ conn[i].ask = "SessionOpen"}
             W == {i \in Workers : \/ conn[i].theirs \in {"prompt"} \cup ActiveRun
                                   \/ conn[i].theirs = "held" /\ ~ conn[i].cancelled}
             L == Live(tracked, conn)
  <2>1. IsFiniteSet(P) /\ Cardinality(P) \in {0, 1} /\ IsFiniteSet(A) /\ Cardinality(A) \in {0, 1}
    BY AtMostOne DEF SlotsInv
  <2>2. IsFiniteSet(H) /\ Cardinality(H) <= Cardinality(L)
    <3> DEFINE f == [i \in H |-> conn[i].by]
    <3>1. \A i \in H : conn[i].by \in L /\ tracked[conn[i].by] = i
      BY ConnNotNone DEF SlotsInv, Open, Live, Free
    <3>2. f \in Injection(H, L)
      BY <3>1 DEF Injection, IsInjective
    <3>3. IsFiniteSet(L)
      BY DEF SlotsInv
    <3> QED BY <3>2, <3>3, FS_Injection
  <2>3. W \subseteq (P \cup A) \cup H
    BY DEF Workers, Conns, Num, PlaceInv
  <2>4. /\ Cardinality(L) \in Nat /\ Cardinality(L) <= MaxSessions /\ MaxSessions \in Nat
        /\ Cardinality(H) \in Nat /\ Cardinality(P) \in Nat /\ Cardinality(A) \in Nat
    BY <2>1, <2>2, FS_CardinalityType, LimitsAssumption DEF SlotsInv
  <2>5. /\ IsFiniteSet(P \cup A) /\ Cardinality(P \cap A) \in Nat
        /\ Cardinality(P \cup A) = Cardinality(P) + Cardinality(A) - Cardinality(P \cap A)
    <3>1. IsFiniteSet(P \cap A)
      BY <2>1, FS_Subset
    <3> QED BY <2>1, <3>1, FS_Union, FS_CardinalityType
  <2>6. /\ IsFiniteSet((P \cup A) \cup H) /\ Cardinality((P \cup A) \cap H) \in Nat
        /\ Cardinality((P \cup A) \cup H)
             = Cardinality(P \cup A) + Cardinality(H) - Cardinality((P \cup A) \cap H)
    <3>1. IsFiniteSet((P \cup A) \cap H)
      BY <2>5, FS_Subset
    <3> QED BY <2>2, <2>5, <3>1, FS_Union, FS_CardinalityType
  <2>7. IsFiniteSet(W) /\ Cardinality(W) <= Cardinality((P \cup A) \cup H) /\ Cardinality(W) \in Nat
    BY <2>3, <2>6, FS_Subset, FS_CardinalityType
  <2>8. Cardinality(W) <= MaxSessions + 2
    <3> HIDE DEF P, A, H, W, L
    <3> QED BY <2>1, <2>2, <2>4, <2>5, <2>6, <2>7
  <2> QED BY <2>8 DEF SlotsRemain
<1> QED BY <1>1, <1>2, <1>3, PTL DEF Spec

-----------------------------------------------------------------------------
(* The socket file (Endpoint), for any number of applications and starts.  *)
(* The instance lock makes the starts of one vault exclude each other, but *)
(* an exit gives the lock back before its socket is gone: what keeps the   *)
(* next start away from that socket is the probe.                          *)

(* No step leaves the types of the state. *)
LEMMA PathTypeStep ==
  ASSUME EndpointTypeOK, [EndpointNext]_EndpointVars
  PROVE  EndpointTypeOK'
<1> USE AppsAssumption DEF EndpointTypeOK, Steps, NoFile, AppGoes, Fails, Drops
<1>1. ASSUME NEW a \in Apps, Acquire(a) PROVE EndpointTypeOK'
  BY <1>1 DEF Acquire
<1>2. ASSUME NEW a \in Apps, Look(a) PROVE EndpointTypeOK'
  BY <1>2 DEF Look
<1>3. ASSUME NEW a \in Apps, Probe(a) PROVE EndpointTypeOK'
  BY <1>3 DEF Probe
<1>4. ASSUME NEW a \in Apps, RemoveStale(a) PROVE EndpointTypeOK'
  <2>1. CASE Fails(a)
    BY <1>4, <2>1 DEF RemoveStale
  <2>2. CASE /\ file' = NoFile /\ AppGoes(a, "clear")
             /\ UNCHANGED <<holds, open>>
    BY <1>4, <2>2 DEF RemoveStale
  <2> QED BY <1>4, <2>1, <2>2 DEF RemoveStale
<1>5. ASSUME NEW a \in Apps, Bind(a) PROVE EndpointTypeOK'
  <2>1. CASE Fails(a)
    BY <1>5, <2>1 DEF Bind
  <2>2. CASE /\ file' = [of |-> a, private |-> FALSE] /\ open' = open \cup {a}
             /\ AppGoes(a, "bound") /\ UNCHANGED holds
    <3>1. file' \in [of : Apps \cup {NoApp}, private : BOOLEAN]
      BY <2>2
    <3> QED BY <1>5, <2>2, <3>1 DEF Bind
  <2> QED BY <1>5, <2>1, <2>2 DEF Bind
<1>6. ASSUME NEW a \in Apps, Publish(a) PROVE EndpointTypeOK'
  BY <1>6 DEF Publish
<1>7. ASSUME NEW a \in Apps, ReleaseLock(a) PROVE EndpointTypeOK'
  BY <1>7 DEF ReleaseLock
<1>8. ASSUME NEW a \in Apps, DropCheck(a) PROVE EndpointTypeOK'
  BY <1>8 DEF DropCheck
<1>9. ASSUME NEW a \in Apps, DropRemove(a) PROVE EndpointTypeOK'
  BY <1>9 DEF DropRemove
<1>10. ASSUME NEW a \in Apps, CloseListener(a) PROVE EndpointTypeOK'
  BY <1>10 DEF CloseListener
<1>11. ASSUME NEW a \in Apps, CrashApp(a) PROVE EndpointTypeOK'
  BY <1>11 DEF CrashApp
<1>12. ASSUME NEW a \in Apps, Leave(a) PROVE EndpointTypeOK'
  BY <1>12 DEF Leave
<1>13. CASE UNCHANGED EndpointVars
  BY <1>13 DEF EndpointVars
<1> QED BY <1>1, <1>2, <1>3, <1>4, <1>5, <1>6, <1>7, <1>8, <1>9, <1>10, <1>11, <1>12, <1>13
        DEF EndpointNext, Start, Stop

(* The types hold in every state. *)
LEMMA PathTypeAlways == EndpointSpec => []EndpointTypeOK
<1>1. EndpointInit => EndpointTypeOK
  BY AppsAssumption DEF EndpointInit, EndpointTypeOK, Steps, NoFile
<1>2. EndpointTypeOK /\ [EndpointNext]_EndpointVars => EndpointTypeOK'
  BY PathTypeStep
<1> QED BY <1>1, <1>2, PTL DEF EndpointSpec

-----------------------------------------------------------------------------
(* Who owns the path.                                                      *)

(* The applications are those of one vault. *)
SameVault == \A a, b \in Apps : VaultOf[a] = VaultOf[b]

(* The lock is held from its acquisition to the exit, by one application. *)
PathLockInv ==
  /\ \A a \in Apps : a \in holds <=> app[a] \in {"locked", "probing", "refused", "clear",
                                                "bound", "serving"}
  /\ \A a, b \in holds : a = b

(* From bind to the removal at exit the path names the application's own   *)
(* socket, and an application about to remove a stale socket removes one   *)
(* that has no listener: nobody can have put another there since the probe.*)
PathInv ==
  \A a \in Apps :
    /\ app[a] = "bound" => file = [of |-> a, private |-> FALSE]
    /\ app[a] \in {"serving", "exiting", "checked"} => file = [of |-> a, private |-> TRUE]
    /\ app[a] = "refused" => ~ Answering

(* With one vault the lock excludes. *)
LEMMA PathLockStep ==
  ASSUME SameVault, EndpointTypeOK, PathLockInv, [EndpointNext]_EndpointVars
  PROVE  PathLockInv'
<1> USE AppsAssumption DEF EndpointTypeOK, PathLockInv, Steps, AppGoes, Fails, Drops
<1>1. ASSUME NEW a \in Apps, Acquire(a) PROVE PathLockInv'
  BY <1>1 DEF Acquire, SameVault
<1>2. ASSUME NEW a \in Apps, Look(a) PROVE PathLockInv'
  BY <1>2 DEF Look
<1>3. ASSUME NEW a \in Apps, Probe(a) PROVE PathLockInv'
  BY <1>3 DEF Probe
<1>4. ASSUME NEW a \in Apps, RemoveStale(a) PROVE PathLockInv'
  BY <1>4 DEF RemoveStale
<1>5. ASSUME NEW a \in Apps, Bind(a) PROVE PathLockInv'
  BY <1>5 DEF Bind
<1>6. ASSUME NEW a \in Apps, Publish(a) PROVE PathLockInv'
  BY <1>6 DEF Publish
<1>7. ASSUME NEW a \in Apps, ReleaseLock(a) PROVE PathLockInv'
  BY <1>7 DEF ReleaseLock
<1>8. ASSUME NEW a \in Apps, Stop(a) PROVE PathLockInv'
  BY <1>8 DEF Stop, DropCheck, DropRemove, CloseListener
<1>9. ASSUME NEW a \in Apps, CrashApp(a) PROVE PathLockInv'
  BY <1>9 DEF CrashApp
<1>10. ASSUME NEW a \in Apps, Leave(a) PROVE PathLockInv'
  BY <1>10 DEF Leave
<1>11. CASE UNCHANGED EndpointVars
  BY <1>11 DEF EndpointVars
<1> QED BY <1>1, <1>2, <1>3, <1>4, <1>5, <1>6, <1>7, <1>8, <1>9, <1>10, <1>11
        DEF EndpointNext, Start

(* Every step leaves the path to whoever is using it. *)
LEMMA PathStep ==
  ASSUME EndpointTypeOK, PathLockInv, PathInv, [EndpointNext]_EndpointVars
  PROVE  PathInv'
<1> USE AppsAssumption DEF EndpointTypeOK, PathLockInv, PathInv, Answering, NoFile,
    AppGoes, Fails, Drops
<1>1. ASSUME NEW a \in Apps, Acquire(a) PROVE PathInv'
  BY <1>1 DEF Acquire
<1>2. ASSUME NEW a \in Apps, Look(a) PROVE PathInv'
  BY <1>2 DEF Look
<1>3. ASSUME NEW a \in Apps, Probe(a) PROVE PathInv'
  BY <1>3 DEF Probe
<1>4. ASSUME NEW a \in Apps, RemoveStale(a) PROVE PathInv'
  BY <1>4 DEF RemoveStale
<1>5. ASSUME NEW a \in Apps, Bind(a) PROVE PathInv'
  BY <1>5 DEF Bind
<1>6. ASSUME NEW a \in Apps, Publish(a) PROVE PathInv'
  BY <1>6 DEF Publish
<1>7. ASSUME NEW a \in Apps, ReleaseLock(a) PROVE PathInv'
  BY <1>7 DEF ReleaseLock
<1>8. ASSUME NEW a \in Apps, DropCheck(a) PROVE PathInv'
  BY <1>8 DEF DropCheck
<1>9. ASSUME NEW a \in Apps, DropRemove(a) PROVE PathInv'
  BY <1>9 DEF DropRemove
<1>10. ASSUME NEW a \in Apps, CloseListener(a) PROVE PathInv'
  BY <1>10 DEF CloseListener
<1>11. ASSUME NEW a \in Apps, CrashApp(a) PROVE PathInv'
  BY <1>11 DEF CrashApp
<1>12. ASSUME NEW a \in Apps, Leave(a) PROVE PathInv'
  BY <1>12 DEF Leave
<1>13. CASE UNCHANGED EndpointVars
  BY <1>13 DEF EndpointVars
<1> QED BY <1>1, <1>2, <1>3, <1>4, <1>5, <1>6, <1>7, <1>8, <1>9, <1>10, <1>11, <1>12, <1>13
        DEF EndpointNext, Start, Stop

(* Whatever starts, exits and crashes overlap, the application that serves *)
(* is the one clients find at the path (bind, Drop for LocalServer).       *)
THEOREM ServerIsAlwaysReachable ==
  ASSUME SameVault
  PROVE  EndpointSpec => []ServingIsReachable
<1>1. EndpointInit => PathLockInv /\ PathInv
  BY DEF EndpointInit, PathLockInv, PathInv
<1>2. EndpointTypeOK /\ PathLockInv /\ PathInv /\ [EndpointNext]_EndpointVars
        => PathLockInv' /\ PathInv'
  BY PathLockStep, PathStep
<1>3. PathInv => ServingIsReachable
  BY DEF PathInv, ServingIsReachable
<1> QED BY <1>1, <1>2, <1>3, PathTypeAlways, PTL DEF EndpointSpec
=============================================================================
