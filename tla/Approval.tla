------------------------------ MODULE Approval ------------------------------
(***************************************************************************)
(* The ApprovalCoordinator with every caller it may have: worker threads   *)
(* that run authorize and redeem the ticket it returns, the desktop        *)
(* window, which decides on the request it last displayed and grants       *)
(* unattended access from a context it captured earlier, clients that      *)
(* connect and disconnect, locks, revocations and edits at any time, and   *)
(* both clocks.                                                            *)
(***************************************************************************)
EXTENDS ApprovalCoordinator

CONSTANTS Threads,        \* RPC worker threads that call authorize
          Lifetimes,      \* lifetimes the window offers (approve, approve_for)
          MaxVault,       \* bound: vault session ids 1..MaxVault; 0 is None
          MaxElapsed,     \* bound on the monotonic clock
          MaxWall,        \* bound on the wall clock
          MaxId,          \* bound on approval request ids
          MaxConn,        \* bound on connection ids
          MaxEpoch,       \* bound on lock_epoch
          MaxRevision     \* bound on revision

ASSUME BoundsAssumption ==
  /\ Lifetimes \subseteq Nat
  /\ MaxVault \in Nat /\ MaxElapsed \in Nat /\ MaxWall \in Nat
  /\ MaxId \in Nat /\ MaxConn \in Nat /\ MaxEpoch \in Nat /\ MaxRevision \in Nat

VARIABLES
  threads,         \* what each worker is doing with authorize
  shown,           \* the request the window displayed last
  context          \* the UnattendedContext the window holds

vars == <<coreVars, elapsed, wall, threads, shown, context>>

NoCall == [pc |-> "idle", id |-> 0, client |-> NoClient, vault |-> 0,
           secrets |-> {}, cancelled |-> FALSE]
Call ==
  {NoCall} \cup [pc : {"waiting", "ticket"}, id : Nat, client : Clients,
                vault : Nat, secrets : SUBSET Secrets, cancelled : BOOLEAN]

NothingShown == [id |-> 0, client |-> NoClient, secrets |-> {}]
Shown == {NothingShown} \cup [id : Nat \ {0}, client : Clients, secrets : SUBSET Secrets]

TypeOK ==
  /\ CoreTypeOK
  /\ threads \in [Threads -> Call]
  /\ shown \in Shown
  /\ context \in UnattendedContext

Init ==
  /\ CoreInit
  /\ wall \in 0..MaxWall
  /\ threads = [t \in Threads |-> NoCall]
  /\ shown = NothingShown
  /\ context = NoContext

-----------------------------------------------------------------------------
(* The callers.                                                            *)

Window == <<shown, context>>

(* A worker calls authorize for the secrets S of a run. *)
NewCall(pc, id, c, v, S) ==
  [pc |-> pc, id |-> id, client |-> c, vault |-> v, secrets |-> S, cancelled |-> FALSE]

Authorize(t, c, v, S) ==
  /\ threads[t].pc = "idle"
  /\ \/ /\ AuthorizeUnattended(c, v, S) \/ AuthorizeGranted(c, v, S)
        /\ threads' = [threads EXCEPT ![t] = NewCall("ticket", 0, c, v, S)]
     \/ /\ nextId <= MaxId /\ AuthorizePublish(c, v, S)
        /\ threads' = [threads EXCEPT ![t] = NewCall("waiting", nextId, c, v, S)]
     \/ AuthorizeRefused(c, v, S) /\ UNCHANGED threads
  /\ UNCHANGED <<Clocks, Window>>

PollCancelled(t) ==
  /\ threads[t].pc = "waiting" /\ threads[t].cancelled
  /\ PollWithdraw(threads[t].id)
  /\ threads' = [threads EXCEPT ![t] = NoCall]
  /\ UNCHANGED <<Clocks, Window>>

PollDecision(t) ==
  LET call == threads[t] IN
  /\ call.pc = "waiting" /\ ~ call.cancelled
  /\ \/ /\ PollAccepted(call.id, call.client, call.secrets)
        /\ threads' = [threads EXCEPT ![t].pc = "ticket", ![t].id = 0]
     \/ /\ PollRefused(call.id, call.client, call.secrets)
        /\ threads' = [threads EXCEPT ![t] = NoCall]
  /\ UNCHANGED <<Clocks, Window>>

PollTimeout(t) ==
  /\ threads[t].pc = "waiting" /\ ~ threads[t].cancelled
  /\ DecisionFor(threads[t].id) = NoDecision
  /\ PollWithdraw(threads[t].id)
  /\ threads' = [threads EXCEPT ![t] = NoCall]
  /\ UNCHANGED <<Clocks, Window>>

(* The run's cancellation token is set while authorize waits. *)
CancelRun(t) ==
  /\ threads[t].pc = "waiting" /\ ~ threads[t].cancelled
  /\ threads' = [threads EXCEPT ![t].cancelled = TRUE]
  /\ UNCHANGED <<coreVars, Clocks, Window>>

(* The worker redeems its ticket, to resolve the bindings or to launch. *)
Redeem(t) ==
  LET call == threads[t] IN
  /\ call.pc = "ticket"
  /\ RedeemEffect(call.client, call.vault)
  /\ threads' = IF RedeemOK(call.client, call.vault, call.secrets)
                THEN threads ELSE [threads EXCEPT ![t] = NoCall]
  /\ UNCHANGED <<Clocks, Window>>

FinishRun(t) ==
  /\ threads[t].pc = "ticket"
  /\ threads' = [threads EXCEPT ![t] = NoCall]
  /\ UNCHANGED <<coreVars, Clocks, Window>>

(* The window displays the undecided request. *)
ShowPending ==
  /\ PurgedPending.id # 0 /\ PurgedPending.decision = NoDecision
  /\ PurgeDisconnected
  /\ shown' = [id |-> pending.id, client |-> pending.client, secrets |-> pending.secrets]
  /\ UNCHANGED <<Clocks, threads, context>>

UserDecisions ==
  {[kind |-> "approve", arg |-> l] : l \in Lifetimes}
    \cup {[kind |-> "until", arg |-> w] : w \in 0..MaxWall}
    \cup {[kind |-> "session", arg |-> 0], Deny}

Decide(d) ==
  /\ SetDecision(shown, d)
  /\ UNCHANGED <<Clocks, threads, Window>>

Capture(c, v) ==
  /\ CaptureUnattended(c, v)
  /\ context' = ContextOf(c, v)
  /\ UNCHANGED <<Clocks, threads, shown>>

ConfirmUnattended(S, deadline) ==
  /\ GrantUnattended(context, S, deadline)
  /\ UNCHANGED <<Clocks, threads, Window>>

Query ==
  /\ PurgeDisconnected \/ PurgeAll
  /\ UNCHANGED <<Clocks, threads, Window>>

Register(c) ==
  /\ nextConn <= MaxConn
  /\ RegisterClientSession(c)
  /\ UNCHANGED <<Clocks, threads, Window>>

Interrupted == [context EXCEPT !.fresh = FALSE]

DisconnectClient(c) ==
  /\ Disconnect(c)
  /\ context' = IF context.client = c THEN Interrupted ELSE context
  /\ UNCHANGED <<Clocks, threads, shown>>

(* Whatever takes access away also outdates the context the window holds. *)
TakeAway ==
  /\ \/ CloseClientSessions
     \/ /\ lockEpoch < MaxEpoch
        /\ (\E preserve \in BOOLEAN : BeginAppLock(preserve)) \/ ResetAfterVaultLock
     \/ /\ revision < MaxRevision
        /\ \/ RevokeAll
           \/ \E c \in Clients, s \in Secrets : RevokePair(c, s)
           \/ \E c \in Clients : RevokeClient(c)
           \/ \E s \in Secrets : CoordinateSecretMutation(s)
  /\ context' = Interrupted
  /\ UNCHANGED <<Clocks, threads, shown>>

AppLockStep ==
  /\ FinishAppLock(appAccess.epoch) \/ UnlockApp(appAccess.epoch)
  /\ UNCHANGED <<Clocks, threads, Window>>

CancelRequest == CancelPending /\ UNCHANGED <<Clocks, threads, Window>>

(* Time passes. *)
Tick ==
  /\ elapsed < MaxElapsed /\ wall < MaxWall
  /\ elapsed' = elapsed + 1 /\ wall' = wall + 1
  /\ UNCHANGED <<coreVars, threads, Window>>

(* The wall clock is set, forwards or backwards. *)
SetWall ==
  /\ \E w \in 0..MaxWall : wall' = w
  /\ UNCHANGED <<coreVars, elapsed, threads, Window>>

Poll(t) == PollCancelled(t) \/ PollDecision(t)

Next ==
  \/ \E t \in Threads :
       \/ \E c \in Clients, v \in 1..MaxVault, S \in (SUBSET Secrets) \ {{}} : Authorize(t, c, v, S)
       \/ Poll(t) \/ PollTimeout(t) \/ CancelRun(t) \/ Redeem(t) \/ FinishRun(t)
  \/ ShowPending
  \/ \E d \in UserDecisions : Decide(d)
  \/ \E c \in Clients, v \in 1..MaxVault : Capture(c, v)
  \/ \E S \in SUBSET Secrets, deadline \in 0..MaxWall : ConfirmUnattended(S, deadline)
  \/ Query
  \/ \E c \in Clients : Register(c) \/ DisconnectClient(c)
  \/ TakeAway \/ AppLockStep \/ CancelRequest
  \/ Tick \/ SetWall

Spec == Init /\ [][Next]_vars

(* A waiting worker keeps polling: it sleeps at most 20 ms between turns.  *)
FairSpec == Spec /\ \A t \in Threads : WF_vars(Poll(t))

-----------------------------------------------------------------------------
(* Properties.                                                             *)

(* Every entry of the grant table that survives the next purge is one the  *)
(* user approved on a request or an unattended form that showed it, and    *)
(* that no revocation, lock, edit of the secret, vault change or           *)
(* disconnect has taken back since: an approval decided before revoke_pair,*)
(* begin_app_lock, purge_disconnected_clients... is never granted after    *)
(* it, because they cancel the decided request.  revoke_all and            *)
(* capture_unattended leave such a request to a critical section of their  *)
(* callers, so its consent stays until then; RunBroker!RevokedNeverRuns    *)
(* looks at the callers as a whole.                                        *)
ConsentBacked ==
  \A c \in Clients, s \in Secrets :
    PurgedGrants[c][s].kind # "none" => <<c, s>> \in consent

(* A ticket that with_valid_grant would accept now stands for secrets the  *)
(* user still consents to, however long ago authorize issued it.           *)
RedeemConsented ==
  \A t \in Threads : LET call == threads[t] IN
    call.pc = "ticket" /\ RedeemOK(call.client, call.vault, call.secrets)
      => {call.client} \X call.secrets \subseteq consent

(* While the app is locked or locking, no request can be answered and no   *)
(* grant exists but unattended ones; after a manual lock there is none.    *)
LockedOnlyUnattended ==
  ~ IsAppActive =>
    /\ pending.id # 0 => pending.decision = Cancel
    /\ \A c \in Clients, s \in Secrets :
         grants[c][s].kind \in (IF manual THEN {"none"} ELSE {"none", "unattended"})

(* Session and unattended grants never outlive the connection they were    *)
(* given to: their client has a tracked session.                           *)
SessionGrantsTracked ==
  \A c \in Clients, s \in Secrets :
    grants[c][s].kind \in {"session", "unattended"} => sessions[c].conn # 0

(* The published request belongs to exactly one worker that is waiting for *)
(* it, and every waiting worker has its request published: nothing drops a *)
(* request under its waiter or leaves one behind that blocks all others.   *)
PendingOwned ==
  /\ pending.id # 0 => \E t \in Threads : /\ threads[t].pc = "waiting"
                                          /\ threads[t].id = pending.id
  /\ \A t \in Threads : threads[t].pc = "waiting" =>
       /\ threads[t].id = pending.id /\ pending.id # 0
       /\ threads[t].client = pending.client
       /\ pending.secrets \subseteq threads[t].secrets

(* An unattended grant is usable for less than the 24-hour limit after it  *)
(* was given, whatever is done to the wall clock meanwhile.                *)
UnattendedCeiling ==
  \A c \in Clients, s \in Secrets :
    IsUnattended(grants[c][s], elapsed, wall)
      => elapsed - grants[c][s].since < MaxUnattended

(* A context captured before a revocation, a lock, an edit of a secret or  *)
(* a reconnect of its client never passes the checks of grant_unattended.  *)
StaleContextRefused == ContextCurrent(context) => context.fresh

(* A request that was decided or whose run was cancelled is answered: its  *)
(* worker stops waiting.                                                   *)
DecisionDelivered ==
  \A t \in Threads :
    (threads[t].pc = "waiting" /\ (threads[t].cancelled \/ pending.decision # NoDecision))
      ~> threads[t].pc # "waiting"
=============================================================================
