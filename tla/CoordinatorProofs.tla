------------------------- MODULE CoordinatorProofs -------------------------
(***************************************************************************)
(* What the methods of ApprovalCoordinator keep, whoever calls them: the   *)
(* types of its state, and where an entry of the grant table or the        *)
(* published request of the next state comes from.                         *)
(***************************************************************************)
EXTENDS ApprovalCoordinator, TLAPS

-----------------------------------------------------------------------------
(* Types of the grant table's operators.                                   *)

(* The empty entry is a deadline and the empty table a table. *)
LEMMA NoGrantType == NoGrant \in Deadline /\ NoGrants \in Table
BY DEF NoGrant, NoGrants, Deadline, DeadlineKinds, Table

(* purge_expired leaves a table. *)
LEMMA ExpireType ==
  ASSUME NEW g \in Table
  PROVE  Expire(g) \in Table
BY NoGrantType DEF Expire, PurgeExpired, Table

(* Writing one deadline for some secrets of one client leaves a table. *)
LEMMA InsertType ==
  ASSUME NEW g \in Table, NEW c \in Clients, NEW S \in SUBSET Secrets, NEW d \in Deadline
  PROVE  Insert(g, c, S, d, elapsed, wall) \in Table
<1> DEFINE h == PurgeExpired(g, elapsed, wall)
<1>1. h \in Table
  BY ExpireType DEF Expire
<1>2. [h EXCEPT ![c] = [s \in Secrets |-> IF s \in S THEN d ELSE h[c][s]]] \in Table
  <2> HIDE DEF h
  <2> QED BY <1>1 DEF Table
<1> QED BY <1>2 DEF Insert

(* The four ways to grant leave a table, given natural clocks. *)
LEMMA GrantTypes ==
  ASSUME NEW g \in Table, NEW c \in Clients, NEW S \in SUBSET Secrets, NEW n \in Nat,
         elapsed \in Nat, wall \in Nat
  PROVE  /\ GrantFor(g, c, S, n, elapsed, wall) \in Table
         /\ GrantUntil(g, c, S, n, elapsed, wall) \in Table
         /\ GrantSession(g, c, S, elapsed, wall) \in Table
         /\ GrantUnattendedUntil(g, c, S, n, elapsed, wall) \in Table
<1>1. /\ [kind |-> "elapsed", wall |-> 0, elapsed |-> elapsed + n, since |-> elapsed] \in Deadline
      /\ [kind |-> "wall", wall |-> n, elapsed |-> 0, since |-> elapsed] \in Deadline
      /\ [kind |-> "session", wall |-> 0, elapsed |-> 0, since |-> elapsed] \in Deadline
      /\ [kind |-> "unattended", wall |-> n,
          elapsed |-> elapsed + (IF n > wall THEN n - wall ELSE 0),
          since |-> elapsed] \in Deadline
  BY DEF Deadline, DeadlineKinds
<1> QED BY <1>1, InsertType DEF GrantFor, GrantUntil, GrantSession, GrantUnattendedUntil

(* Every revocation leaves a table. *)
LEMMA RevokeClientType ==
  ASSUME NEW g \in Table, NEW c \in Clients
  PROVE  RevokeClientGrants(g, c) \in Table
BY NoGrantType DEF RevokeClientGrants, Table

(* revoke_secret leaves a table. *)
LEMMA RevokeSecretType ==
  ASSUME NEW g \in Table, NEW s \in Secrets
  PROVE  RevokeSecretGrants(g, s) \in Table
BY NoGrantType DEF RevokeSecretGrants, Table

(* revoke_pair leaves a table. *)
LEMMA RevokePairType ==
  ASSUME NEW g \in Table, NEW c \in Clients, NEW s \in Secrets
  PROVE  RevokePairGrant(g, c, s, elapsed, wall) \in Table
<1> DEFINE h == PurgeExpired(g, elapsed, wall)
<1>1. h \in Table
  BY ExpireType DEF Expire
<1>2. [h EXCEPT ![c][s] = NoGrant] \in Table
  <2> HIDE DEF h
  <2> QED BY <1>1, NoGrantType DEF Table
<1> QED BY <1>2 DEF RevokePairGrant

(* retain_unattended leaves a table. *)
LEMMA RetainUnattendedType ==
  ASSUME NEW g \in Table
  PROVE  RetainUnattended(g, elapsed, wall) \in Table
BY NoGrantType DEF RetainUnattended, Table

(* What purge_disconnected_clients leaves has the types of the state. *)
LEMMA PurgedTypes ==
  ASSUME CoreTypeOK
  PROVE  /\ PurgedSessions \in [Clients -> SessionState]
         /\ PurgedGrants \in Table
         /\ PurgedPending \in PendingState
         /\ PurgedPending.id = pending.id
<1>1. PurgedSessions \in [Clients -> SessionState]
  BY DEF CoreTypeOK, PurgedSessions, NoSession, SessionState
<1>2. PurgedGrants \in Table
  BY NoGrantType DEF CoreTypeOK, PurgedGrants, Table
<1>3. CASE pending.client \in Gone
  <2>1. pending # NoPending
    BY <1>3, ConstantsAssumption DEF Gone, NoPending
  <2>2. Cancel \in Decision
    BY DEF Cancel, Decision, DecisionKinds
  <2> QED BY <1>1, <1>2, <1>3, <2>1, <2>2 DEF CoreTypeOK, PurgedPending, PendingState
<1>4. CASE pending.client \notin Gone
  BY <1>1, <1>2, <1>4 DEF CoreTypeOK, PurgedPending
<1> QED BY <1>3, <1>4

(* The decisions, null values and access states have their types. *)
LEMMA ValueTypes ==
  /\ NoDecision \in Decision /\ Cancel \in Decision /\ Deny \in Decision
  /\ [kind |-> "granted", arg |-> 0] \in Decision
  /\ NoPending \in PendingState /\ NoSession \in SessionState
  /\ Active \in AppAccess
BY ConstantsAssumption
   DEF NoDecision, Cancel, Deny, Decision, DecisionKinds, Approving, NoPending,
       PendingState, NoSession, SessionState, Active, AppAccess

(* A published request has an id, a client and secrets of the right types. *)
LEMMA PendingFields ==
  ASSUME NEW p \in PendingState
  PROVE  /\ p.decision \in Decision
         /\ p.id \in Nat /\ p.vault \in Nat
         /\ p.client \in Clients \cup {NoClient}
         /\ p.secrets \subseteq Secrets /\ p.requested \subseteq Secrets
         /\ p.id = 0 <=> p = NoPending
         /\ p.client = NoClient <=> p = NoPending
         /\ p.decision # NoDecision => p # NoPending
BY ConstantsAssumption, ValueTypes DEF PendingState, NoPending

(* Overriding the decision of a request leaves a request. *)
LEMMA DecideType ==
  ASSUME NEW p \in PendingState, NEW d \in Decision, p # NoPending
  PROVE  [p EXCEPT !.decision = d] \in PendingState
BY DEF PendingState

(* Cancelling a request leaves a request, and no request leaves none. *)
LEMMA CancelType ==
  ASSUME NEW p \in PendingState
  PROVE  CancelPendingState(p) \in PendingState
BY DecideType, PendingFields, ValueTypes DEF CancelPendingState

(* A decided approval is about clients and secrets. *)
LEMMA ApprovedType ==
  ASSUME NEW p \in PendingState
  PROVE  Approved(p) \subseteq Clients \X Secrets
<1>1. CASE p.decision.kind \in Approving
  <2>1. p.client \in Clients /\ p.secrets \subseteq Secrets
    BY <1>1, PendingFields DEF NoDecision, Approving
  <2> QED BY <1>1, <2>1 DEF Approved
<1>2. CASE p.decision.kind \notin Approving
  BY <1>2 DEF Approved
<1> QED BY <1>1, <1>2

(* The part of CoreTypeOK about the coordinator's own variables. *)
CoreType ==
  /\ grants \in Table
  /\ vault \in Nat
  /\ pending \in PendingState
  /\ sessions \in [Clients -> SessionState]
  /\ sessionsClosed \in BOOLEAN
  /\ appAccess \in AppAccess
  /\ lockEpoch \in Nat /\ revision \in Nat
  /\ nextId \in Nat \ {0} /\ nextConn \in Nat \ {0}
  /\ consent \subseteq Clients \X Secrets
  /\ manual \in BOOLEAN

(* Purging keeps the coordinator's types. *)
LEMMA PurgeKeepsType ==
  ASSUME CoreTypeOK, PurgeDisconnected \/ PurgeAll
  PROVE  CoreType'
BY PurgedTypes, ExpireType DEF CoreTypeOK, CoreType, PurgeDisconnected, PurgeAll

(* authorize keeps the coordinator's types. *)
LEMMA AuthorizeKeepsType ==
  ASSUME CoreTypeOK, NEW c \in Clients, NEW v \in Nat, NEW S \in SUBSET Secrets,
         \/ AuthorizeUnattended(c, v, S) \/ AuthorizeGranted(c, v, S)
         \/ AuthorizePublish(c, v, S) \/ AuthorizeRefused(c, v, S)
  PROVE  CoreType'
<1>1. GrantsFor(v) \in Table /\ Expire(GrantsFor(v)) \in Table
  BY PurgedTypes, NoGrantType, ExpireType DEF GrantsFor
<1>2. ConsentFor(v) \subseteq Clients \X Secrets /\ v \in Nat
  BY DEF ConsentFor, CoreTypeOK
<1>3. CASE AuthorizeUnattended(c, v, S) \/ AuthorizeRefused(c, v, S)
  BY <1>3, PurgeKeepsType DEF AuthorizeUnattended, AuthorizeRefused
<1>4. CASE AuthorizeGranted(c, v, S)
  BY <1>1, <1>2, <1>4, PurgedTypes DEF AuthorizeGranted, CoreTypeOK, CoreType
<1>5. CASE AuthorizePublish(c, v, S)
  <2>1. Missing(GrantsFor(v), c, S, elapsed, wall) \in SUBSET Secrets
    BY DEF Missing
  <2>2. pending' \in PendingState
    BY <1>2, <1>5, <2>1, ValueTypes DEF AuthorizePublish, PendingState, CoreTypeOK
  <2> QED BY <1>1, <1>2, <1>5, <2>2, PurgedTypes DEF AuthorizePublish, CoreTypeOK, CoreType
<1> QED BY <1>3, <1>4, <1>5

(* Polling keeps the coordinator's types. *)
LEMMA PollKeepsType ==
  ASSUME CoreTypeOK, NEW id, NEW c, NEW S,
         PollWithdraw(id) \/ PollAccepted(id, c, S) \/ PollRefused(id, c, S)
  PROVE  CoreType'
<1>1. Expire(PurgedGrants) \in Table
  BY PurgedTypes, ExpireType
<1>2. CASE PollWithdraw(id)
  BY <1>1, <1>2, PurgedTypes, ValueTypes DEF PollWithdraw, CoreTypeOK, CoreType
<1>3. CASE PollRefused(id, c, S)
  BY <1>1, <1>3, PurgedTypes, ValueTypes DEF PollRefused, TakeDecision, CoreTypeOK, CoreType
<1>4. CASE PollAccepted(id, c, S)
  <2> DEFINE p == PurgedPending
             d == DecisionFor(id)
  <2>1. d \in Decision /\ p \in PendingState
    BY PurgedTypes, ValueTypes, PendingFields DEF DecisionFor
  <2>2. GrantsAfter(p, d) \in Table
    <3>1. CASE d.kind \in Approving
      <4>1. p.client \in Clients /\ p.secrets \in SUBSET Secrets /\ d.arg \in Nat
        BY <2>1, <3>1, PendingFields DEF DecisionFor, NoDecision, Approving, Decision
      <4> QED BY <3>1, <4>1, GrantTypes, PurgedTypes DEF GrantsAfter, Approving, CoreTypeOK
    <3> QED BY <1>1, <3>1 DEF GrantsAfter, Approving
  <2> QED BY <1>4, <2>2, PurgedTypes, ValueTypes DEF PollAccepted, TakeDecision, CoreTypeOK, CoreType
<1> QED BY <1>2, <1>3, <1>4

(* Connecting, disconnecting and closing sessions keep the types. *)
LEMMA SessionsKeepType ==
  ASSUME CoreTypeOK,
         \/ \E c \in Clients : RegisterClientSession(c) \/ Disconnect(c)
         \/ CloseClientSessions
  PROVE  CoreType'
<1>1. ASSUME NEW c \in Clients, RegisterClientSession(c) PROVE CoreType'
  <2>1. sessions' \in [Clients -> SessionState]
    BY <1>1, PurgedTypes DEF RegisterClientSession, SessionState, CoreTypeOK
  <2>2. grants' \in Table
    BY <1>1, PurgedTypes, RevokeClientType DEF RegisterClientSession
  <2> QED BY <1>1, <2>1, <2>2, PurgedTypes DEF RegisterClientSession, CoreTypeOK, CoreType
<1>2. ASSUME NEW c \in Clients, Disconnect(c) PROVE CoreType'
  BY <1>2 DEF Disconnect, CoreTypeOK, CoreType, SessionState
<1>3. CASE CloseClientSessions
  <2>1. grants' \in Table
    BY <1>3, NoGrantType DEF CloseClientSessions, CoreTypeOK, Table
  <2>2. pending' \in PendingState
    BY <1>3, DecideType, ValueTypes, PendingFields, ConstantsAssumption
       DEF CloseClientSessions, CoreTypeOK
  <2>3. sessions' \in [Clients -> SessionState]
    BY <1>3, ValueTypes DEF CloseClientSessions
  <2> QED BY <1>3, <2>1, <2>2, <2>3 DEF CloseClientSessions, CoreTypeOK, CoreType
<1> QED BY <1>1, <1>2, <1>3

(* Deciding on a request and cancelling it keep the types. *)
LEMMA DecisionsKeepType ==
  ASSUME CoreTypeOK, NEW r, r.id # 0 => r.client \in Clients /\ r.secrets \subseteq Secrets,
         (\E d \in Decision : SetDecision(r, d)) \/ CancelPending
  PROVE  CoreType'
<1>1. ASSUME NEW d \in Decision, SetDecision(r, d) PROVE CoreType'
  <2>1. pending' \in PendingState
    BY <1>1, PurgedTypes, PendingFields, DecideType, ValueTypes DEF SetDecision
  <2>2. r.client \in Clients /\ r.secrets \subseteq Secrets
    BY <1>1 DEF SetDecision
  <2>3. consent' \subseteq Clients \X Secrets
    BY <1>1, <2>2 DEF SetDecision, CoreTypeOK
  <2> QED BY <1>1, <2>1, <2>3, PurgedTypes, ExpireType DEF SetDecision, CoreTypeOK, CoreType
<1>2. CASE CancelPending
  BY <1>2, CancelType, ExpireType DEF CancelPending, CoreTypeOK, CoreType
<1> QED BY <1>1, <1>2

(* The steps of an app lock and the reset after a vault lock keep the types. *)
LEMMA LocksKeepType ==
  ASSUME CoreTypeOK, NEW e,
         \/ \E preserve \in BOOLEAN : BeginAppLock(preserve)
         \/ ResetAfterVaultLock
         \/ FinishAppLock(e) \/ UnlockApp(e)
  PROVE  CoreType'
<1>1. ASSUME NEW preserve \in BOOLEAN, BeginAppLock(preserve) PROVE CoreType'
  <2>1. appAccess' \in AppAccess
    BY <1>1 DEF BeginAppLock, AppAccess, CoreTypeOK
  <2>2. grants' \in Table
    BY <1>1, RetainUnattendedType, NoGrantType DEF BeginAppLock, CoreTypeOK
  <2>3. consent' \subseteq Clients \X Secrets
    BY <1>1 DEF BeginAppLock, CoreTypeOK
  <2>4. manual' \in BOOLEAN
    BY <1>1 DEF BeginAppLock
  <2>5. pending' \in PendingState
    BY <1>1, CancelType DEF BeginAppLock, CoreTypeOK
  <2> QED BY <1>1, <2>1, <2>2, <2>3, <2>4, <2>5 DEF BeginAppLock, CoreTypeOK, CoreType
<1>2. CASE ResetAfterVaultLock
  BY <1>2, CancelType, ValueTypes, NoGrantType DEF ResetAfterVaultLock, CoreTypeOK, CoreType
<1>3. CASE FinishAppLock(e) \/ UnlockApp(e)
  BY <1>3, ValueTypes DEF FinishAppLock, UnlockApp, CoreTypeOK, CoreType, AppAccess
<1> QED BY <1>1, <1>2, <1>3

(* Revocations and edits of secrets keep the types. *)
LEMMA RevokePairKeepsType ==
  ASSUME CoreTypeOK, NEW c \in Clients, NEW s \in Secrets, RevokePair(c, s)
  PROVE  CoreType'
BY CancelType, RevokePairType DEF RevokePair, CoreTypeOK, CoreType

(* An edit or deletion of a secret keeps the types. *)
LEMMA MutationKeepsType ==
  ASSUME CoreTypeOK, NEW s \in Secrets, CoordinateSecretMutation(s)
  PROVE  CoreType'
BY CancelType, RevokeSecretType, ExpireType DEF CoordinateSecretMutation, CoreTypeOK, CoreType

(* Revoking a session keeps the types. *)
LEMMA RevokeClientKeepsType ==
  ASSUME CoreTypeOK, NEW c \in Clients, RevokeClient(c)
  PROVE  CoreType'
BY CancelType, RevokeClientType, ExpireType DEF RevokeClient, CoreTypeOK, CoreType

(* Revoking everything keeps the types. *)
LEMMA RevokeAllKeepsType ==
  ASSUME CoreTypeOK, RevokeAll
  PROVE  CoreType'
BY ApprovedType, NoGrantType DEF RevokeAll, CoreTypeOK, CoreType

(* Capturing a context and granting from it keep the types. *)
LEMMA UnattendedKeepsType ==
  ASSUME CoreTypeOK, NEW k,
         \/ \E c \in Clients, v \in Nat : CaptureUnattended(c, v)
         \/ \E S \in SUBSET Secrets, deadline \in Nat : GrantUnattended(k, S, deadline)
  PROVE  CoreType'
<1>1. ASSUME NEW c \in Clients, NEW v \in Nat, CaptureUnattended(c, v)
      PROVE  CoreType'
  <2>1. grants' \in Table
    BY <1>1, PurgedTypes, NoGrantType DEF CaptureUnattended, GrantsFor
  <2>2. consent' \subseteq Clients \X Secrets
    BY <1>1, PurgedTypes, ApprovedType DEF CaptureUnattended, CoreTypeOK
  <2> QED BY <1>1, <2>1, <2>2, PurgedTypes DEF CaptureUnattended, CoreTypeOK, CoreType
<1>2. ASSUME NEW S \in SUBSET Secrets, NEW deadline \in Nat,
             GrantUnattended(k, S, deadline)
      PROVE  CoreType'
  <2>1. k.client \in Clients
    BY <1>2 DEF GrantUnattended, ContextCurrent
  <2>2. grants' \in Table
    BY <1>2, <2>1, PurgedTypes, GrantTypes DEF GrantUnattended, CoreTypeOK
  <2>3. pending' \in PendingState
    BY <1>2, <2>1, PurgedTypes, PendingFields, DecideType, ValueTypes, ConstantsAssumption
       DEF GrantUnattended
  <2>4. consent' \subseteq Clients \X Secrets
    BY <1>2, <2>1 DEF GrantUnattended, CoreTypeOK
  <2> QED BY <1>2, <2>2, <2>3, <2>4, PurgedTypes DEF GrantUnattended, CoreTypeOK, CoreType
<1> QED BY <1>1, <1>2

-----------------------------------------------------------------------------
(* The table's operators, entry by entry.                                  *)

(* purge_disconnected_clients empties the entries of the clients that are gone. *)
LEMMA PurgedEntry ==
  ASSUME CoreTypeOK, NEW c \in Clients, NEW s \in Secrets
  PROVE  PurgedGrants[c][s] = IF c \in Gone THEN NoGrant ELSE grants[c][s]
BY DEF PurgedGrants

(* purge_expired keeps the entries that are running. *)
LEMMA ExpiredEntry ==
  ASSUME NEW g, NEW c \in Clients, NEW s \in Secrets
  PROVE  Expire(g)[c][s] = IF Running(g[c][s], elapsed, wall) THEN g[c][s] ELSE NoGrant
BY DEF Expire, PurgeExpired

(* purge_expired writes nothing new. *)
LEMMA ExpiredOrKept ==
  ASSUME NEW g, NEW c \in Clients, NEW s \in Secrets
  PROVE  Expire(g)[c][s] = NoGrant \/ Expire(g)[c][s] = g[c][s]
BY ExpiredEntry

(* A grant writes the entries of its client and secrets and purges the rest. *)
LEMMA InsertedEntry ==
  ASSUME NEW g, NEW k \in Clients, NEW S, NEW d, NEW c \in Clients, NEW s \in Secrets
  PROVE  Insert(g, k, S, d, elapsed, wall)[c][s] =
           IF c = k /\ s \in S THEN d ELSE Expire(g)[c][s]
BY DEF Insert, Expire, PurgeExpired

-----------------------------------------------------------------------------
(* The origin of an entry after a step.                                    *)

(* It was there before, and nothing the step did takes it away. *)
Kept(c, s) ==
  /\ grants'[c][s] = grants[c][s]
  /\ sessions[c].conn # 0 => sessions'[c].conn # 0
  /\ c \in Gone => c \in Gone'
  /\ <<c, s>> \in consent => <<c, s>> \in consent' \/ c \in Gone'
  /\ \/ IsAppActive'
     \/ ~ IsAppActive /\ manual' = manual
     \/ grants[c][s].kind = "unattended" /\ manual' = FALSE

(* A waiting worker picked up an approval of the published request. *)
FromRequest(c, s) ==
  /\ pending.decision.kind \in Approving
  /\ c = pending.client /\ c \notin Gone /\ s \in pending.secrets
  /\ grants'[c][s].kind \in {"elapsed", "wall", "session"}
  /\ grants'[c][s].kind = "session" => Tracked(c)
  /\ sessions' = PurgedSessions
  /\ consent' = consent /\ appAccess' = appAccess

(* The window granted unattended access. *)
FromContext(c, s) ==
  /\ IsAppActive /\ appAccess' = appAccess
  /\ Tracked(c) /\ sessions' = PurgedSessions
  /\ grants'[c][s].kind = "unattended"
  /\ grants'[c][s].elapsed <= grants'[c][s].since + MaxUnattended
  /\ <<c, s>> \in consent'

(* Where a grant of the next state comes from. *)
Earlier(c, s) ==
  \/ grants'[c][s].kind = "none"
  \/ Kept(c, s)
  \/ FromRequest(c, s)
Origin(c, s) == Earlier(c, s) \/ FromContext(c, s)

(* A step that purges, and then only drops entries, keeps what it leaves. *)
LEMMA PurgingOrigin ==
  ASSUME CoreTypeOK, NEW c \in Clients, NEW s \in Secrets,
         grants'[c][s] = NoGrant \/ grants'[c][s] = PurgedGrants[c][s],
         sessions' = PurgedSessions,
         <<c, s>> \in consent /\ grants'[c][s] # NoGrant => <<c, s>> \in consent',
         appAccess' = appAccess, manual' = manual
  PROVE  Earlier(c, s)
<1>1. CASE grants'[c][s] = NoGrant
  BY <1>1 DEF Earlier, NoGrant
<1>2. CASE grants'[c][s] # NoGrant
  <2>1. grants'[c][s] = grants[c][s] /\ c \notin Gone
    BY <1>2, PurgedEntry
  <2>2. sessions'[c] = sessions[c]
    BY <2>1 DEF PurgedSessions
  <2> QED BY <1>2, <2>1, <2>2 DEF Earlier, Kept, IsAppActive
<1> QED BY <1>1, <1>2

(* The same for a step that does not purge. *)
LEMMA DroppingOrigin ==
  ASSUME CoreTypeOK, NEW c \in Clients, NEW s \in Secrets,
         grants'[c][s] = NoGrant \/ grants'[c][s] = grants[c][s],
         sessions' = sessions,
         <<c, s>> \in consent /\ grants'[c][s].kind # "none" => <<c, s>> \in consent',
         appAccess' = appAccess, manual' = manual
  PROVE  Earlier(c, s)
BY DEF Earlier, Kept, IsAppActive, Gone, NoGrant

(* Queries and refused calls. *)
LEMMA PurgeOrigin ==
  ASSUME CoreTypeOK, PurgeDisconnected \/ PurgeAll, NEW c \in Clients, NEW s \in Secrets
  PROVE  Earlier(c, s)
<1>1. grants'[c][s] = NoGrant \/ grants'[c][s] = PurgedGrants[c][s]
  BY ExpiredOrKept DEF PurgeDisconnected, PurgeAll
<1>2. /\ sessions' = PurgedSessions /\ consent' = consent
      /\ appAccess' = appAccess /\ manual' = manual
  BY DEF PurgeDisconnected, PurgeAll
<1> QED BY <1>1, <1>2, PurgingOrigin

(* authorize. *)
LEMMA AuthorizeOrigin ==
  ASSUME CoreTypeOK, NEW k \in Clients, NEW v, NEW S,
         \/ AuthorizeUnattended(k, v, S) \/ AuthorizeGranted(k, v, S)
         \/ AuthorizePublish(k, v, S) \/ AuthorizeRefused(k, v, S),
         NEW c \in Clients, NEW s \in Secrets
  PROVE  Earlier(c, s)
<1>1. CASE AuthorizeUnattended(k, v, S) \/ AuthorizeRefused(k, v, S)
  BY <1>1, PurgeOrigin DEF AuthorizeUnattended, AuthorizeRefused
<1>2. CASE AuthorizeGranted(k, v, S) \/ AuthorizePublish(k, v, S)
  <2>1. grants' = Expire(GrantsFor(v)) /\ sessions' = PurgedSessions
        /\ consent' = ConsentFor(v) /\ appAccess' = appAccess /\ manual' = manual
    BY <1>2 DEF AuthorizeGranted, AuthorizePublish
  <2>2. CASE vault = v
    <3>1. grants'[c][s] = NoGrant \/ grants'[c][s] = PurgedGrants[c][s]
      BY <2>1, <2>2, ExpiredOrKept DEF GrantsFor
    <3> QED BY <2>1, <2>2, <3>1, PurgingOrigin DEF ConsentFor
  <2>3. CASE vault # v
    <3>1. grants'[c][s] = NoGrant
      BY <2>1, <2>3, ExpiredEntry DEF GrantsFor, NoGrants
    <3> QED BY <3>1 DEF Earlier, NoGrant
  <2> QED BY <2>2, <2>3
<1> QED BY <1>1, <1>2

(* The turns of authorize's loop. *)
LEMMA PollOrigin ==
  ASSUME CoreTypeOK, NEW id, NEW k, NEW S,
         PollWithdraw(id) \/ PollAccepted(id, k, S) \/ PollRefused(id, k, S),
         NEW c \in Clients, NEW s \in Secrets
  PROVE  Earlier(c, s)
<1>1. CASE PollWithdraw(id)
  <2>1. grants'[c][s] = NoGrant \/ grants'[c][s] = PurgedGrants[c][s]
    BY <1>1, ExpiredOrKept DEF PollWithdraw
  <2>2. /\ sessions' = PurgedSessions /\ consent' = consent
        /\ appAccess' = appAccess /\ manual' = manual
    BY <1>1 DEF PollWithdraw
  <2> QED BY <2>1, <2>2, PurgingOrigin
<1>2. CASE PollRefused(id, k, S)
  <2>1. grants'[c][s] = NoGrant \/ grants'[c][s] = PurgedGrants[c][s]
    BY <1>2, ExpiredOrKept DEF PollRefused
  <2>2. /\ sessions' = PurgedSessions /\ consent' = consent
        /\ appAccess' = appAccess /\ manual' = manual
    BY <1>2 DEF PollRefused, TakeDecision
  <2> QED BY <2>1, <2>2, PurgingOrigin
<1>3. CASE PollAccepted(id, k, S)
  <2> DEFINE p == PurgedPending
             d == DecisionFor(id)
  <2>1. /\ grants' = GrantsAfter(p, d) /\ sessions' = PurgedSessions
        /\ consent' = consent /\ appAccess' = appAccess /\ manual' = manual
    BY <1>3 DEF PollAccepted, TakeDecision
  <2>2. CASE d.kind \in Approving
    <3>1. d = p.decision
      BY <2>2 DEF DecisionFor, NoDecision, Approving
    <3>2. p = pending /\ pending.client \notin Gone
      BY <2>2, <3>1 DEF PurgedPending, Cancel, Approving, CoreTypeOK, PendingState
    <3>3. pending.client \in Clients
      BY <2>2, <3>1, <3>2, PendingFields DEF CoreTypeOK, NoDecision, Approving
    <3>4. PICK e : /\ grants' = Insert(PurgedGrants, pending.client, pending.secrets, e,
                                       elapsed, wall)
                   /\ e.kind \in {"elapsed", "wall", "session"}
                   /\ e.kind = "session" => d.kind = "session"
      BY <2>1, <2>2, <3>2 DEF GrantsAfter, GrantFor, GrantUntil, GrantSession, Approving
    <3>5. d.kind = "session" => Tracked(pending.client)
      BY <1>3, <3>2 DEF PollAccepted
    <3>6. CASE c = pending.client /\ s \in pending.secrets
      <4>1. Insert(PurgedGrants, pending.client, pending.secrets, e, elapsed, wall)
              [pending.client][s] = e
        BY <3>3, <3>6 DEF Insert, PurgeExpired
      <4>2. grants'[c][s] = e
        BY <3>4, <3>6, <4>1
      <4> QED BY <2>1, <2>2, <3>1, <3>2, <3>4, <3>5, <3>6, <4>2 DEF Earlier, FromRequest
    <3>7. CASE ~ (c = pending.client /\ s \in pending.secrets)
      <4>1. grants'[c][s] = Expire(PurgedGrants)[c][s]
        BY <3>3, <3>4, <3>7, InsertedEntry
      <4>2. grants'[c][s] = NoGrant \/ grants'[c][s] = PurgedGrants[c][s]
        BY <4>1, ExpiredOrKept
      <4> QED BY <2>1, <4>2, PurgingOrigin
    <3> QED BY <3>6, <3>7
  <2>3. CASE d.kind \notin Approving
    <3>1. grants' = Expire(PurgedGrants)
      BY <2>1, <2>3 DEF GrantsAfter, Approving
    <3>2. grants'[c][s] = NoGrant \/ grants'[c][s] = PurgedGrants[c][s]
      BY <3>1, ExpiredOrKept
    <3> QED BY <2>1, <3>2, PurgingOrigin
  <2> QED BY <2>2, <2>3
<1> QED BY <1>1, <1>2, <1>3

(* Connecting, disconnecting and closing sessions. *)
LEMMA RegisterOrigin ==
  ASSUME CoreTypeOK, NEW k \in Clients, RegisterClientSession(k),
         NEW c \in Clients, NEW s \in Secrets
  PROVE  Earlier(c, s)
<1>1. CASE c = k
  <2>1. grants'[c][s] = NoGrant
    BY <1>1, PurgedTypes DEF RegisterClientSession, RevokeClientGrants, Table
  <2> QED BY <2>1 DEF Earlier, NoGrant
<1>2. CASE c # k
  <2>1. grants'[c][s] = PurgedGrants[c][s] /\ sessions'[c] = PurgedSessions[c]
    BY <1>2, PurgedTypes DEF RegisterClientSession, RevokeClientGrants, Table
  <2>2. <<c, s>> \in consent => <<c, s>> \in consent'
    BY <1>2 DEF RegisterClientSession
  <2>3. appAccess' = appAccess /\ manual' = manual
    BY DEF RegisterClientSession
  <2>4. CASE c \in Gone
    BY <2>1, <2>4, PurgedEntry DEF Earlier, NoGrant
  <2>5. CASE c \notin Gone
    <3>1. grants'[c][s] = grants[c][s] /\ sessions'[c] = sessions[c]
      BY <2>1, <2>5, PurgedEntry DEF PurgedSessions
    <3> QED BY <2>2, <2>3, <2>5, <3>1 DEF Earlier, Kept, IsAppActive
  <2> QED BY <2>4, <2>5
<1> QED BY <1>1, <1>2

(* A disconnect only sets the token of the session. *)
LEMMA DisconnectOrigin ==
  ASSUME CoreTypeOK, NEW k \in Clients, Disconnect(k), NEW c \in Clients, NEW s \in Secrets
  PROVE  Earlier(c, s)
<1>1. /\ grants' = grants /\ appAccess' = appAccess /\ manual' = manual
      /\ sessions'[c].conn = sessions[c].conn
      /\ sessions[c].cancelled => sessions'[c].cancelled
  BY DEF Disconnect, CoreTypeOK, SessionState
<1>2. c = k => c \in Gone'
  BY DEF Disconnect, Tracked, Gone, CoreTypeOK, SessionState
<1>3. c \in Gone => c \in Gone'
  BY <1>1 DEF Gone
<1>4. c # k /\ <<c, s>> \in consent => <<c, s>> \in consent'
  BY DEF Disconnect
<1> QED BY <1>1, <1>2, <1>3, <1>4 DEF Earlier, Kept, IsAppActive

(* Closing all sessions drops the grants of every client that has one. *)
LEMMA CloseOrigin ==
  ASSUME CoreTypeOK, CloseClientSessions, NEW c \in Clients, NEW s \in Secrets
  PROVE  Earlier(c, s)
<1>1. CASE sessions[c].conn # 0
  BY <1>1 DEF CloseClientSessions, Earlier, NoGrant
<1>2. CASE sessions[c].conn = 0
  <2>1. grants'[c][s] = grants[c][s] /\ appAccess' = appAccess /\ manual' = manual
    BY <1>2 DEF CloseClientSessions
  <2>2. <<c, s>> \in consent => <<c, s>> \in consent'
    BY <1>2 DEF CloseClientSessions
  <2>3. c \notin Gone
    BY <1>2 DEF Gone
  <2> QED BY <1>2, <2>1, <2>2, <2>3 DEF Earlier, Kept, IsAppActive
<1> QED BY <1>1, <1>2

(* Decisions and their cancellation. *)
LEMMA DecisionOrigin ==
  ASSUME CoreTypeOK, NEW r, NEW d, SetDecision(r, d), NEW c \in Clients, NEW s \in Secrets
  PROVE  Earlier(c, s)
<1>1. grants'[c][s] = NoGrant \/ grants'[c][s] = PurgedGrants[c][s]
  BY ExpiredOrKept DEF SetDecision
<1>2. /\ sessions' = PurgedSessions /\ appAccess' = appAccess /\ manual' = manual
      /\ consent \subseteq consent'
  BY DEF SetDecision
<1> QED BY <1>1, <1>2, PurgingOrigin

(* cancel_pending drops expired entries and writes none. *)
LEMMA CancelOrigin ==
  ASSUME CoreTypeOK, CancelPending, NEW c \in Clients, NEW s \in Secrets
  PROVE  Earlier(c, s)
<1>1. grants'[c][s] = NoGrant \/ grants'[c][s] = grants[c][s]
  BY ExpiredOrKept DEF CancelPending
<1>2. <<c, s>> \in consent /\ grants'[c][s].kind # "none" => <<c, s>> \in consent'
  BY <1>1 DEF CancelPending, OnlyPending, NoGrant
<1>3. sessions' = sessions /\ appAccess' = appAccess /\ manual' = manual
  BY DEF CancelPending
<1> QED BY <1>1, <1>2, <1>3, DroppingOrigin

(* App locks and vault locks. *)
LEMMA AppLockOrigin ==
  ASSUME CoreTypeOK, NEW preserve \in BOOLEAN, BeginAppLock(preserve),
         NEW c \in Clients, NEW s \in Secrets
  PROVE  Earlier(c, s)
<1>1. CASE preserve /\ IsUnattended(grants[c][s], elapsed, wall)
  <2>1. grants'[c][s] = grants[c][s] /\ grants[c][s].kind = "unattended"
    BY <1>1 DEF BeginAppLock, RetainUnattended, IsUnattended
  <2>2. <<c, s>> \in consent => <<c, s>> \in consent'
    BY <1>1 DEF BeginAppLock
  <2>3. sessions' = sessions /\ manual' = FALSE
    BY <1>1 DEF BeginAppLock
  <2> QED BY <2>1, <2>2, <2>3 DEF Earlier, Kept, Gone
<1>2. CASE ~ (preserve /\ IsUnattended(grants[c][s], elapsed, wall))
  <2>1. grants'[c][s] = NoGrant
    BY <1>2 DEF BeginAppLock, RetainUnattended, NoGrants
  <2> QED BY <2>1 DEF Earlier, NoGrant
<1> QED BY <1>1, <1>2

(* finish_app_lock and unlock_app leave the table alone, a vault lock empties it. *)
LEMMA LockStepOrigin ==
  ASSUME CoreTypeOK, NEW c \in Clients, NEW s \in Secrets, NEW e,
         \/ FinishAppLock(e) \/ UnlockApp(e)
         \/ ResetAfterVaultLock
  PROVE  Earlier(c, s)
<1>1. CASE ResetAfterVaultLock
  BY <1>1 DEF ResetAfterVaultLock, NoGrants, NoGrant, Earlier
<1>2. CASE FinishAppLock(e)
  BY <1>2 DEF FinishAppLock, Earlier, Kept, Gone, IsAppActive
<1>3. CASE UnlockApp(e)
  BY <1>3 DEF UnlockApp, Active, Earlier, Kept, Gone, IsAppActive
<1> QED BY <1>1, <1>2, <1>3

(* Revocations and edits of secrets. *)
LEMMA RevokeOrigin ==
  ASSUME CoreTypeOK, NEW c \in Clients, NEW s \in Secrets,
         \/ RevokeAll
         \/ \E k \in Clients, z \in Secrets : RevokePair(k, z)
         \/ \E k \in Clients : RevokeClient(k)
         \/ \E z \in Secrets : CoordinateSecretMutation(z)
  PROVE  Earlier(c, s)
<1>1. CASE RevokeAll
  BY <1>1 DEF RevokeAll, NoGrants, NoGrant, Earlier
<1>2. ASSUME NEW k \in Clients, NEW z \in Secrets, RevokePair(k, z)
      PROVE  Earlier(c, s)
  <2>1. /\ grants'[c][s] = NoGrant \/ grants'[c][s] = grants[c][s]
        /\ c = k /\ s = z => grants'[c][s] = NoGrant
    BY <1>2 DEF RevokePair, RevokePairGrant, PurgeExpired
  <2>2. <<c, s>> \in consent /\ grants'[c][s].kind # "none" => <<c, s>> \in consent'
    BY <1>2, <2>1 DEF RevokePair, OnlyPending, NoGrant
  <2>3. sessions' = sessions /\ appAccess' = appAccess /\ manual' = manual
    BY <1>2 DEF RevokePair
  <2> QED BY <2>1, <2>2, <2>3, DroppingOrigin
<1>3. ASSUME NEW k \in Clients, RevokeClient(k)
      PROVE  Earlier(c, s)
  <2>1. /\ grants'[c][s] = NoGrant \/ grants'[c][s] = grants[c][s]
        /\ c = k => grants'[c][s] = NoGrant
    BY <1>3 DEF RevokeClient, RevokeClientGrants, Expire, PurgeExpired, CoreTypeOK, Table
  <2>2. <<c, s>> \in consent /\ grants'[c][s].kind # "none" => <<c, s>> \in consent'
    BY <1>3, <2>1 DEF RevokeClient, NoGrant
  <2>3. sessions' = sessions /\ appAccess' = appAccess /\ manual' = manual
    BY <1>3 DEF RevokeClient
  <2> QED BY <2>1, <2>2, <2>3, DroppingOrigin
<1>4. ASSUME NEW z \in Secrets, CoordinateSecretMutation(z)
      PROVE  Earlier(c, s)
  <2>1. /\ grants'[c][s] = NoGrant \/ grants'[c][s] = grants[c][s]
        /\ s = z => grants'[c][s] = NoGrant
    BY <1>4 DEF CoordinateSecretMutation, RevokeSecretGrants, Expire, PurgeExpired, CoreTypeOK, Table
  <2>2. <<c, s>> \in consent /\ grants'[c][s].kind # "none" => <<c, s>> \in consent'
    BY <1>4, <2>1 DEF CoordinateSecretMutation, OnlyPending, NoGrant
  <2>3. sessions' = sessions /\ appAccess' = appAccess /\ manual' = manual
    BY <1>4 DEF CoordinateSecretMutation
  <2> QED BY <2>1, <2>2, <2>3, DroppingOrigin
<1> QED BY <1>1, <1>2, <1>3, <1>4

(* Unattended access. *)
LEMMA CaptureOrigin ==
  ASSUME CoreTypeOK, NEW k \in Clients, NEW v, CaptureUnattended(k, v),
         NEW c \in Clients, NEW s \in Secrets
  PROVE  Earlier(c, s)
<1>1. CASE vault = v
  BY <1>1, PurgingOrigin DEF CaptureUnattended, GrantsFor
<1>2. CASE vault # v
  <2>1. grants'[c][s] = NoGrant
    BY <1>2 DEF CaptureUnattended, GrantsFor, NoGrants
  <2> QED BY <2>1 DEF Earlier, NoGrant
<1> QED BY <1>1, <1>2

(* grant_unattended writes entries for the client of its context only. *)
LEMMA UnattendedOrigin ==
  ASSUME CoreTypeOK, NEW x, NEW S \in SUBSET Secrets, NEW deadline \in Nat,
         GrantUnattended(x, S, deadline),
         NEW c \in Clients, NEW s \in Secrets
  PROVE  Origin(c, s)
<1> DEFINE k == x.client
           e == [kind |-> "unattended", wall |-> deadline,
                 elapsed |-> elapsed + (IF deadline > wall THEN deadline - wall ELSE 0),
                 since |-> elapsed]
<1>1. /\ k \in Clients /\ Tracked(k) /\ IsAppActive
      /\ deadline > wall /\ deadline - wall <= MaxUnattended
      /\ sessions' = PurgedSessions /\ appAccess' = appAccess /\ manual' = manual
      /\ consent' = consent \cup ({k} \X S)
  BY DEF GrantUnattended, ContextCurrent
<1>2. grants' = Insert(PurgedGrants, k, S, e, elapsed, wall)
  BY DEF GrantUnattended, GrantUnattendedUntil
<1>3. /\ e.kind = "unattended"
      /\ e.elapsed <= e.since + MaxUnattended
  BY <1>1, ConstantsAssumption DEF CoreTypeOK
<1> HIDE DEF e
<1>4. CASE c = k /\ s \in S
  <2>1. Insert(PurgedGrants, k, S, e, elapsed, wall)[k][s] = e
    BY <1>1, <1>4 DEF Insert, PurgeExpired
  <2>2. grants'[c][s] = e
    BY <1>2, <1>4, <2>1
  <2> QED BY <1>1, <1>3, <1>4, <2>2 DEF Origin, FromContext
<1>5. CASE ~ (c = k /\ s \in S)
  <2>1. grants'[c][s] = Expire(PurgedGrants)[c][s]
    BY <1>1, <1>2, <1>5, InsertedEntry
  <2>2. grants'[c][s] = NoGrant \/ grants'[c][s] = PurgedGrants[c][s]
    BY <2>1, ExpiredOrKept
  <2> QED BY <1>1, <2>2, PurgingOrigin DEF Origin
<1> QED BY <1>4, <1>5

-----------------------------------------------------------------------------
(* The published request.                                                  *)

(* Two values of the published request that differ in the decision only. *)
SameRequest(p, q) ==
  q.id = p.id /\ q.client = p.client /\ q.secrets = p.secrets /\ q.requested = p.requested

(* Deciding changes nothing else of a request. *)
LEMMA DecideFields ==
  ASSUME NEW p \in PendingState, NEW d
  PROVE  /\ SameRequest(p, [p EXCEPT !.decision = d])
         /\ [p EXCEPT !.decision = d].decision = d
BY DEF PendingState, NoPending, SameRequest

(* purge_disconnected_clients cancels the request of a client that is gone. *)
LEMMA PurgedRequest ==
  ASSUME CoreTypeOK
  PROVE  /\ SameRequest(pending, PurgedPending)
         /\ pending.client \in Gone => PurgedPending.decision = Cancel
         /\ pending.client \notin Gone => PurgedPending = pending
BY DecideFields DEF PurgedPending, CoreTypeOK, SameRequest

(* Cancelling keeps the request and overrides its decision. *)
LEMMA CancelledRequest ==
  ASSUME CoreTypeOK
  PROVE  /\ SameRequest(pending, CancelPendingState(pending))
         /\ \/ CancelPendingState(pending).decision = Cancel
            \/ pending = NoPending /\ CancelPendingState(pending) = NoPending
BY DecideFields, PendingFields DEF CancelPendingState, CoreTypeOK, SameRequest

(* Only a worker that starts to wait or stops waiting replaces or removes  *)
(* the request: whatever else happens to it, it stays published.           *)
LEMMA RequestStays ==
  ASSUME CoreTypeOK,
         \/ PurgeDisconnected \/ PurgeAll
         \/ \E r, d : SetDecision(r, d)
         \/ CancelPending
         \/ \E c, v : CaptureUnattended(c, v)
         \/ \E k, S, deadline : GrantUnattended(k, S, deadline)
         \/ \E c \in Clients : RegisterClientSession(c) \/ Disconnect(c)
         \/ CloseClientSessions
         \/ \E preserve \in BOOLEAN : BeginAppLock(preserve)
         \/ ResetAfterVaultLock \/ RevokeAll
         \/ \E c \in Clients, s \in Secrets : RevokePair(c, s)
         \/ \E c \in Clients : RevokeClient(c)
         \/ \E s \in Secrets : CoordinateSecretMutation(s)
         \/ \E e : FinishAppLock(e) \/ UnlockApp(e)
         \/ UNCHANGED pending
  PROVE  SameRequest(pending, pending')
<1> DEFINE Same(q) == SameRequest(pending, q)
<1>1. Same(pending) /\ Same(PurgedPending) /\ Same(CancelPendingState(pending))
  BY PurgedRequest, CancelledRequest DEF SameRequest
<1>2. \A d : Same([pending EXCEPT !.decision = d]) /\ Same([PurgedPending EXCEPT !.decision = d])
  BY <1>1, DecideFields, PurgedTypes DEF SameRequest, CoreTypeOK
<1>3. \/ pending' = pending \/ pending' = PurgedPending
      \/ pending' = CancelPendingState(pending)
      \/ \E d : pending' = [pending EXCEPT !.decision = d]
      \/ \E d : pending' = [PurgedPending EXCEPT !.decision = d]
  BY DEF PurgeDisconnected, PurgeAll, SetDecision, CancelPending, CaptureUnattended,
         GrantUnattended, RegisterClientSession, Disconnect, CloseClientSessions, BeginAppLock,
         ResetAfterVaultLock, RevokeAll, RevokePair, RevokeClient, CoordinateSecretMutation,
         FinishAppLock, UnlockApp
<1> QED BY <1>1, <1>2, <1>3
=============================================================================
