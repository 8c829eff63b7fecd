------------------------ MODULE ApprovalCoordinator ------------------------
(***************************************************************************)
(* The ApprovalCoordinator of ladon-app (approval.rs): its state and its   *)
(* methods.  All of the state is behind one mutex, so a method is one      *)
(* step; authorize is the exception: it publishes a request, releases the  *)
(* mutex, and from then on polls it.                                       *)
(*                                                                         *)
(* The methods constrain the coordinator's own variables (coreVars) only:  *)
(* Approval adds arbitrary callers, RunBroker the broker's threads.        *)
(* Display metadata (labels, annotations, activity times) is left out.     *)
(***************************************************************************)
EXTENDS GrantStore, FiniteSets

CONSTANTS NoClient,       \* stands for Option::None of a client
          MaxUnattended,  \* the 24-hour limit of grant_unattended
          MaxTracked      \* MAX_TRACKED_SESSIONS

ASSUME ConstantsAssumption ==
  /\ NoClient \notin Clients
  /\ MaxUnattended \in Nat
  /\ MaxTracked \in Nat

VARIABLES
  grants,          \* GrantStore::deadlines
  vault,           \* vault_session_id; 0 is None
  pending,         \* the one published request and its decision
  sessions,        \* client_sessions and SessionDetails::connection_id
  sessionsClosed,  \* sessions_closed
  appAccess,       \* app_access
  lockEpoch,       \* lock_epoch
  revision,        \* revision
  nextId,          \* fresh request ids (Uuid::new_v4)
  nextConn,        \* fresh connection ids (Uuid::new_v4)
  elapsed,         \* the monotonic clock
  wall,            \* the wall clock
  consent,         \* history: pairs the user approved and nobody withdrew since
  manual           \* history: the last app lock was a manual one

coreVars == <<grants, vault, pending, sessions, sessionsClosed, appAccess,
              lockEpoch, revision, nextId, nextConn, consent, manual>>
Clocks == <<elapsed, wall>>

-----------------------------------------------------------------------------
(* Types and null values. *)

Approving == {"approve", "until", "session"}
DecisionKinds == Approving \cup {"none", "granted", "deny", "cancel"}
Decision == [kind : DecisionKinds, arg : Nat]
NoDecision == [kind |-> "none", arg |-> 0]
Cancel == [kind |-> "cancel", arg |-> 0]
Deny == [kind |-> "deny", arg |-> 0]

NoPending == [id |-> 0, vault |-> 0, client |-> NoClient, secrets |-> {},
              requested |-> {}, decision |-> NoDecision]
PendingState ==
  {NoPending} \cup [id : Nat \ {0}, vault : Nat, client : Clients,
                   secrets : SUBSET Secrets, requested : SUBSET Secrets,
                   decision : Decision]

SessionState == [conn : Nat, cancelled : BOOLEAN]
NoSession == [conn |-> 0, cancelled |-> FALSE]

AppAccess == [phase : {"active", "locking", "locked"}, epoch : Nat]
Active == [phase |-> "active", epoch |-> 0]

(* `fresh' is history: nothing was revoked, locked or disconnected since   *)
(* the context was captured.                                               *)
UnattendedContext == [client : Clients \cup {NoClient}, vault : Nat,
                      revision : Nat, epoch : Nat, conn : Nat, fresh : BOOLEAN]
NoContext == [client |-> NoClient, vault |-> 0, revision |-> 0, epoch |-> 0,
              conn |-> 0, fresh |-> FALSE]

CoreTypeOK ==
  /\ grants \in Table
  /\ vault \in Nat
  /\ pending \in PendingState
  /\ sessions \in [Clients -> SessionState]
  /\ sessionsClosed \in BOOLEAN
  /\ appAccess \in AppAccess
  /\ lockEpoch \in Nat /\ revision \in Nat
  /\ nextId \in Nat \ {0} /\ nextConn \in Nat \ {0}
  /\ elapsed \in Nat /\ wall \in Nat
  /\ consent \subseteq Clients \X Secrets
  /\ manual \in BOOLEAN

CoreInit ==
  /\ grants = NoGrants
  /\ vault = 0
  /\ pending = NoPending
  /\ sessions = [c \in Clients |-> NoSession]
  /\ sessionsClosed = FALSE
  /\ appAccess = Active
  /\ lockEpoch = 0 /\ revision = 0
  /\ nextId = 1 /\ nextConn = 1
  /\ elapsed = 0
  /\ consent = {}
  /\ manual = FALSE

-----------------------------------------------------------------------------
(* purge_disconnected_clients: what the methods that call it see.          *)

Gone == {c \in Clients : sessions[c].conn # 0 /\ sessions[c].cancelled}
Tracked(c) == sessions[c].conn # 0 /\ ~ sessions[c].cancelled

PurgedSessions == [c \in Clients |-> IF c \in Gone THEN NoSession ELSE sessions[c]]
PurgedGrants ==
  [c \in Clients |-> IF c \in Gone THEN [s \in Secrets |-> NoGrant] ELSE grants[c]]
PurgedPending ==
  IF pending.client \in Gone THEN [pending EXCEPT !.decision = Cancel] ELSE pending

IsAppActive == appAccess.phase = "active"

ClientHasUnattended(c) ==
  Tracked(c) /\ HasUnattended(PurgedGrants, c, elapsed, wall)

Expire(g) == PurgeExpired(g, elapsed, wall)

(* The decision of a request that exists; None stays None. *)
CancelPendingState(p) == IF p.id = 0 THEN p ELSE [p EXCEPT !.decision = Cancel]

(* The pairs an approval that was decided, but not picked up, will grant. *)
Approved(p) ==
  IF p.decision.kind \in Approving THEN {p.client} \X p.secrets ELSE {}

(* The pairs only the published request could still grant. *)
OnlyPending(p, g) ==
  {q \in Clients \X Secrets :
     q[1] = p.client /\ q[2] \in p.secrets /\ g[q[1]][q[2]].kind = "none"}

-----------------------------------------------------------------------------
(* Methods.                                                                *)

(* Mutant: a disconnect forgets the session and leaves its grants. *)
PurgeDisconnectedMutant ==
  /\ sessions' = PurgedSessions
  /\ pending' = PurgedPending
  /\ UNCHANGED <<vault, sessionsClosed, appAccess, lockEpoch, revision,
                 nextId, nextConn, grants, consent, manual>>

(* Every method that purges and then refuses, and every query that only    *)
(* purges: pending, sessions, client_session_connected.                    *)
PurgeDisconnected ==
  /\ sessions' = PurgedSessions
  /\ grants' = PurgedGrants
  /\ pending' = PurgedPending
  /\ UNCHANGED <<vault, sessionsClosed, appAccess, lockEpoch, revision,
                 nextId, nextConn, consent, manual>>

(* The queries that read the table, which drop expired entries as well:    *)
(* active_grants, observe_client, has_unattended, unattended_covers.       *)
PurgeAll ==
  /\ sessions' = PurgedSessions
  /\ grants' = Expire(PurgedGrants)
  /\ pending' = PurgedPending
  /\ UNCHANGED <<vault, sessionsClosed, appAccess, lockEpoch, revision,
                 nextId, nextConn, consent, manual>>

(* authorize while the app is not active: only unattended access counts. *)
LockedAccess(c, v, S) ==
  /\ vault = v
  /\ ClientHasUnattended(c)
  /\ MissingUnattended(PurgedGrants, c, S, elapsed, wall) = {}

AuthorizeUnattended(c, v, S) ==
  /\ ~ IsAppActive
  /\ LockedAccess(c, v, S)
  /\ PurgeAll

(* authorize while the app is active and no request is published: a new    *)
(* vault session drops every grant first.                                  *)
GrantsFor(v) == IF vault = v THEN PurgedGrants ELSE NoGrants
ConsentFor(v) == IF vault = v THEN consent ELSE {}

AuthorizeGranted(c, v, S) ==
  /\ IsAppActive
  /\ PurgedPending.id = 0
  /\ Missing(GrantsFor(v), c, S, elapsed, wall) = {}
  /\ vault' = v
  /\ grants' = Expire(GrantsFor(v))
  /\ sessions' = PurgedSessions
  /\ consent' = ConsentFor(v)
  /\ UNCHANGED <<pending, sessionsClosed, appAccess, lockEpoch, revision,
                 nextId, nextConn, manual>>

AuthorizePublish(c, v, S) ==
  LET missing == Missing(GrantsFor(v), c, S, elapsed, wall) IN
  /\ IsAppActive
  /\ PurgedPending.id = 0
  /\ missing # {}
  /\ vault' = v
  /\ grants' = Expire(GrantsFor(v))
  /\ sessions' = PurgedSessions
  /\ pending' = [id |-> nextId, vault |-> v, client |-> c, secrets |-> missing,
                 requested |-> S, decision |-> NoDecision]
  /\ nextId' = nextId + 1
  /\ consent' = ConsentFor(v)
  /\ UNCHANGED <<sessionsClosed, appAccess, lockEpoch, revision, nextConn, manual>>

(* VaultLocked while the app is not active, Busy while a request is out. *)
AuthorizeRefused(c, v, S) ==
  \/ ~ IsAppActive /\ ~ (vault = v /\ Tracked(c)) /\ PurgeDisconnected
  \/ ~ IsAppActive /\ vault = v /\ Tracked(c) /\ ~ LockedAccess(c, v, S) /\ PurgeAll
  \/ IsAppActive /\ PurgedPending.id # 0 /\ PurgeDisconnected

(* Mutant: the request stays published after its worker gave up. *)
PollWithdrawMutant(id) == PurgeDisconnected

(* One turn of authorize's loop: the run was cancelled, or the two minutes *)
(* passed with no decision.                                                *)
PollWithdraw(id) ==
  /\ sessions' = PurgedSessions
  /\ IF PurgedPending.id = id
     THEN pending' = NoPending /\ grants' = Expire(PurgedGrants)
     ELSE pending' = PurgedPending /\ grants' = PurgedGrants
  /\ UNCHANGED <<vault, sessionsClosed, appAccess, lockEpoch, revision,
                 nextId, nextConn, consent, manual>>

DecisionFor(id) == IF PurgedPending.id = id THEN PurgedPending.decision ELSE NoDecision

(* What the table becomes when decision d on the request p is picked up. *)
GrantsAfter(p, d) ==
  CASE d.kind = "approve" -> GrantFor(PurgedGrants, p.client, p.secrets, d.arg, elapsed, wall)
    [] d.kind = "until"   -> GrantUntil(PurgedGrants, p.client, p.secrets, d.arg, elapsed, wall)
    [] d.kind = "session" -> GrantSession(PurgedGrants, p.client, p.secrets, elapsed, wall)
    [] OTHER              -> Expire(PurgedGrants)

TakeDecision ==
  /\ pending' = NoPending
  /\ sessions' = PurgedSessions
  /\ UNCHANGED <<vault, sessionsClosed, appAccess, lockEpoch, revision,
                 nextId, nextConn, consent, manual>>

(* The loop picks up a decision that lets the run go on. *)
PollAccepted(id, c, S) ==
  LET d == DecisionFor(id) IN
  /\ \/ d.kind \in {"approve", "until"}
     \/ d.kind = "session" /\ Tracked(PurgedPending.client)
     \/ d.kind = "granted" /\ Missing(PurgedGrants, c, S, elapsed, wall) = {}
  /\ grants' = GrantsAfter(PurgedPending, d)
  /\ TakeDecision

(* Mutant: the loop does not look for a cancelled request. *)
PollRefusedMutant(id, c, S) ==
  /\ DecisionFor(id).kind = "deny"
  /\ grants' = Expire(PurgedGrants)
  /\ TakeDecision

(* The loop picks up a decision that ends the run. *)
PollRefused(id, c, S) ==
  LET d == DecisionFor(id) IN
  /\ \/ d.kind \in {"deny", "cancel"} /\ grants' = Expire(PurgedGrants)
     \/ d.kind = "session" /\ ~ Tracked(PurgedPending.client) /\ grants' = PurgedGrants
     \/ /\ d.kind = "granted"
        /\ Missing(PurgedGrants, c, S, elapsed, wall) # {}
        /\ grants' = Expire(PurgedGrants)
  /\ TakeDecision

(* Mutant: a ticket is trusted as long as the vault session lasts. *)
RedeemOKMutant(c, v, S) == IsAppActive /\ vault = v

(* with_valid_grant: the condition under which the operation runs, inside  *)
(* the mutex.                                                              *)
RedeemOK(c, v, S) ==
  /\ IsAppActive \/ (ClientHasUnattended(c)
                     /\ MissingUnattended(PurgedGrants, c, S, elapsed, wall) = {})
  /\ vault = v
  /\ Missing(PurgedGrants, c, S, elapsed, wall) = {}

(* What either outcome leaves behind: the table is read, and so purged, as *)
(* far as the conditions are evaluated.                                    *)
RedeemEffect(c, v) ==
  IF (IF IsAppActive THEN vault = v ELSE Tracked(c)) THEN PurgeAll ELSE PurgeDisconnected

RegisterClientSession(c) ==
  /\ ~ sessionsClosed
  /\ PurgedSessions[c].conn = 0
  /\ Cardinality({d \in Clients : PurgedSessions[d].conn # 0}) < MaxTracked
  /\ sessions' = [PurgedSessions EXCEPT ![c] = [conn |-> nextConn, cancelled |-> FALSE]]
  /\ nextConn' = nextConn + 1
  /\ grants' = RevokeClientGrants(PurgedGrants, c)
  /\ pending' = PurgedPending
  /\ consent' = consent \ (({c} \X Secrets) \ Approved(PurgedPending))
  /\ UNCHANGED <<vault, sessionsClosed, appAccess, lockEpoch, revision, nextId, manual>>

(* The IPC monitor sees the peer's end of file and cancels its token; the  *)
(* coordinator notices at its next purge.                                  *)
Disconnect(c) ==
  /\ Tracked(c)
  /\ sessions' = [sessions EXCEPT ![c].cancelled = TRUE]
  /\ consent' = consent \ ({c} \X Secrets)
  /\ UNCHANGED <<grants, vault, pending, sessionsClosed, appAccess, lockEpoch,
                 revision, nextId, nextConn, manual>>

CloseClientSessions ==
  LET tracked == {c \in Clients : sessions[c].conn # 0} IN
  /\ sessionsClosed' = TRUE
  /\ sessions' = [c \in Clients |-> NoSession]
  /\ grants' = [c \in Clients |-> IF c \in tracked THEN [s \in Secrets |-> NoGrant]
                                                   ELSE grants[c]]
  /\ pending' = IF pending.client \in tracked
                THEN [pending EXCEPT !.decision = Cancel] ELSE pending
  /\ consent' = consent \ (tracked \X Secrets)
  /\ UNCHANGED <<vault, appAccess, lockEpoch, revision, nextId, nextConn, manual>>

(* approve, approve_for, approve_until, approve_session and deny on the    *)
(* request r the window displayed; any other outcome is PurgeDisconnected. *)
SetDecision(r, d) ==
  /\ PurgedPending.id = r.id /\ r.id # 0
  /\ PurgedPending.decision = NoDecision
  /\ d.kind = "session" => Tracked(PurgedPending.client)
  /\ pending' = [PurgedPending EXCEPT !.decision = d]
  /\ sessions' = PurgedSessions
  /\ grants' = IF d.kind \in Approving THEN PurgedGrants ELSE Expire(PurgedGrants)
  /\ consent' = IF d.kind \in Approving THEN consent \cup ({r.client} \X r.secrets)
                                        ELSE consent
  /\ UNCHANGED <<vault, sessionsClosed, appAccess, lockEpoch, revision,
                 nextId, nextConn, manual>>

CancelPending ==
  /\ pending.id # 0
  /\ pending' = CancelPendingState(pending)
  /\ grants' = Expire(grants)
  /\ consent' = consent \ OnlyPending(pending, grants)
  /\ UNCHANGED <<vault, sessions, sessionsClosed, appAccess, lockEpoch, revision,
                 nextId, nextConn, manual>>

(* Mutant: the lock leaves the published request to its worker. *)
BeginAppLockMutant(preserve) ==
  /\ IsAppActive
  /\ lockEpoch' = lockEpoch + 1
  /\ appAccess' = [phase |-> "locking", epoch |-> lockEpoch + 1]
  /\ grants' = IF preserve THEN RetainUnattended(grants, elapsed, wall) ELSE NoGrants
  /\ consent' = IF preserve
                THEN {p \in consent : IsUnattended(grants[p[1]][p[2]], elapsed, wall)}
                ELSE {}
  /\ manual' = ~ preserve
  /\ UNCHANGED <<vault, pending, sessions, sessionsClosed, revision, nextId, nextConn>>

(* begin_app_lock and begin_auto_app_lock. *)
BeginAppLock(preserve) ==
  /\ IsAppActive
  /\ lockEpoch' = lockEpoch + 1
  /\ appAccess' = [phase |-> "locking", epoch |-> lockEpoch + 1]
  /\ pending' = CancelPendingState(pending)
  /\ grants' = IF preserve THEN RetainUnattended(grants, elapsed, wall) ELSE NoGrants
  /\ consent' = IF preserve
                THEN {p \in consent : IsUnattended(grants[p[1]][p[2]], elapsed, wall)}
                ELSE {}
  /\ manual' = ~ preserve
  /\ UNCHANGED <<vault, sessions, sessionsClosed, revision, nextId, nextConn>>

FinishAppLock(epoch) ==
  /\ appAccess = [phase |-> "locking", epoch |-> epoch]
  /\ appAccess' = [phase |-> "locked", epoch |-> epoch]
  /\ UNCHANGED <<grants, vault, pending, sessions, sessionsClosed, lockEpoch,
                 revision, nextId, nextConn, consent, manual>>

UnlockApp(epoch) ==
  /\ appAccess = [phase |-> "locked", epoch |-> epoch]
  /\ appAccess' = Active
  /\ UNCHANGED <<grants, vault, pending, sessions, sessionsClosed, lockEpoch,
                 revision, nextId, nextConn, consent, manual>>

ResetAfterVaultLock ==
  /\ lockEpoch' = lockEpoch + 1
  /\ appAccess' = Active
  /\ pending' = CancelPendingState(pending)
  /\ grants' = NoGrants
  /\ vault' = 0
  /\ consent' = {}
  /\ UNCHANGED <<sessions, sessionsClosed, revision, nextId, nextConn, manual>>

(* revoke_all leaves the published request alone: its callers cancel that  *)
(* first, in a critical section of their own.                              *)
RevokeAll ==
  /\ revision' = revision + 1
  /\ grants' = NoGrants
  /\ consent' = Approved(pending)
  /\ UNCHANGED <<vault, pending, sessions, sessionsClosed, appAccess, lockEpoch,
                 nextId, nextConn, manual>>

(* Mutant: a revocation leaves a decided request alone. *)
RevokePairMutant(c, s) ==
  /\ revision' = revision + 1
  /\ grants' = RevokePairGrant(grants, c, s, elapsed, wall)
  /\ consent' = consent \ {<<c, s>>}
  /\ UNCHANGED <<vault, pending, sessions, sessionsClosed, appAccess, lockEpoch,
                 nextId, nextConn, manual>>

RevokePair(c, s) ==
  LET hit == pending.client = c /\ s \in pending.requested IN
  /\ revision' = revision + 1
  /\ pending' = IF hit THEN CancelPendingState(pending) ELSE pending
  /\ grants' = RevokePairGrant(grants, c, s, elapsed, wall)
  /\ consent' = (consent \ {<<c, s>>})
                  \ (IF hit THEN OnlyPending(pending, grants) ELSE {})
  /\ UNCHANGED <<vault, sessions, sessionsClosed, appAccess, lockEpoch,
                 nextId, nextConn, manual>>

RevokeClient(c) ==
  /\ revision' = revision + 1
  /\ pending' = IF pending.client = c THEN CancelPendingState(pending) ELSE pending
  /\ grants' = Expire(RevokeClientGrants(grants, c))
  /\ consent' = consent \ ({c} \X Secrets)
  /\ UNCHANGED <<vault, sessions, sessionsClosed, appAccess, lockEpoch,
                 nextId, nextConn, manual>>

(* coordinate_secret_mutation around an edit or a deletion of secret s     *)
(* whose preparation succeeded.                                            *)
CoordinateSecretMutation(s) ==
  LET hit == s \in pending.requested IN
  /\ revision' = revision + 1
  /\ pending' = IF hit THEN CancelPendingState(pending) ELSE pending
  /\ grants' = Expire(RevokeSecretGrants(grants, s))
  /\ consent' = (consent \ (Clients \X {s}))
                  \ (IF hit THEN OnlyPending(pending, grants) ELSE {})
  /\ UNCHANGED <<vault, sessions, sessionsClosed, appAccess, lockEpoch,
                 nextId, nextConn, manual>>

(* capture_unattended_with: v is the session of the unlocked controller,   *)
(* read inside the mutex.                                                  *)
CaptureUnattended(c, v) ==
  /\ IsAppActive
  /\ Tracked(c)
  /\ vault' = v
  /\ grants' = GrantsFor(v)
  /\ sessions' = PurgedSessions
  /\ pending' = PurgedPending
  /\ consent' = IF vault = v THEN consent ELSE Approved(PurgedPending)
  /\ UNCHANGED <<sessionsClosed, appAccess, lockEpoch, revision, nextId,
                 nextConn, manual>>

ContextOf(c, v) ==
  [client |-> c, vault |-> v, revision |-> revision, epoch |-> lockEpoch,
   conn |-> sessions[c].conn, fresh |-> TRUE]

(* Mutant: the context's revision is not compared. *)
ContextCurrentMutant(k) ==
  /\ IsAppActive
  /\ vault = k.vault
  /\ lockEpoch = k.epoch
  /\ k.client \in Clients /\ Tracked(k.client)
  /\ sessions[k.client].conn = k.conn

(* The conditions of grant_unattended on the context it is given. *)
ContextCurrent(k) ==
  /\ IsAppActive
  /\ vault = k.vault
  /\ lockEpoch = k.epoch
  /\ revision = k.revision
  /\ k.client \in Clients /\ Tracked(k.client)
  /\ sessions[k.client].conn = k.conn

GrantUnattended(k, S, deadline) ==
  LET p == PurgedPending
      covered == p.client = k.client /\ p.decision = NoDecision /\ p.requested \subseteq S
  IN
  /\ deadline > wall /\ deadline - wall <= MaxUnattended
  /\ S # {}
  /\ ContextCurrent(k)
  /\ grants' = GrantUnattendedUntil(PurgedGrants, k.client, S, deadline, elapsed, wall)
  /\ pending' = IF covered THEN [p EXCEPT !.decision = [kind |-> "granted", arg |-> 0]] ELSE p
  /\ sessions' = PurgedSessions
  /\ consent' = consent \cup ({k.client} \X S)
  /\ UNCHANGED <<vault, sessionsClosed, appAccess, lockEpoch, revision, nextId,
                 nextConn, manual>>
=============================================================================
