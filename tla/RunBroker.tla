----------------------------- MODULE RunBroker -----------------------------
(***************************************************************************)
(* The broker of ladon-app (agent_broker.rs): the threads that share the   *)
(* ApprovalCoordinator, the RunCoordinator, the UiLockCoordinator, the     *)
(* UnlockRequests (unlock_request.rs) and the VaultController.  RPC        *)
(* workers run commands and lock the vault; the GUI thread answers         *)
(* requests, revokes, locks, exits; an app lock continues in a thread of   *)
(* its own.  A step is one critical section of one of the mutexes, so      *)
(* between any two steps of a procedure every other thread may move.       *)
(*                                                                         *)
(* The clocks stand still here (grants that expire are Approval's          *)
(* subject), and the window answers the request that is published (stale   *)
(* answers are Approval's subject too).                                    *)
(***************************************************************************)
EXTENDS ApprovalCoordinator

CONSTANTS Workers,      \* RPC connection workers
          RunWorkers,   \* bound: those that may serve a run request
          LockWorkers,  \* bound: those that may serve a lock request
          Gui, Locker,  \* the GUI thread and the app lock's thread
          NoWorker,     \* no worker
          Bindings,     \* bound: the sets of secrets a run may bind
          MaxRuns,      \* bound: run requests
          MaxLocks,     \* bound: lock requests
          MaxOps,       \* bound: operations the user starts in the window
          MaxUnlocks,   \* bound: times the vault is unlocked
          MaxConn       \* bound on connection ids

ASSUME ProcessAssumption ==
  /\ NoWorker \notin Workers /\ Gui \notin Workers /\ Locker \notin Workers
  /\ Gui # Locker
  /\ RunWorkers \subseteq Workers /\ LockWorkers \subseteq Workers
  /\ Bindings \subseteq SUBSET Secrets
  /\ MaxRuns \in Nat /\ MaxLocks \in Nat /\ MaxOps \in Nat
  /\ MaxUnlocks \in Nat /\ MaxConn \in Nat

VARIABLES
  session,    \* VaultController::session_id; 0 unless the vault is unlocked
  failed,     \* history: a failed commit, and not a lock, closed the vault
  active,     \* RunCoordinatorState::active: the worker, and secret_ids is Some
  blockNew,   \* RunCoordinatorState::block_new
  ui,         \* UiLockState
  unlock,     \* UnlockRequests: epoch, the waiting worker, its decision
  stop,       \* shutting_down
  desk,       \* DesktopLockState, its epoch, pending_app_lock and its result
  lastPhase,  \* the window's last_phase is Unlocked
  pc, op,     \* each thread's next critical section, and its procedure
  call,       \* per worker: the request it serves
  target,     \* what the GUI thread's procedure is about
  lost,       \* history: pairs the app lock under way takes away
  child,      \* workers whose child process is alive
  forbidden,  \* history: pairs whose revocation or lock has completed
  count       \* requests and operations so far

vaultVars == <<session, failed>>
runVars == <<active, blockNew, child>>
uiVars == <<ui, unlock>>
windowVars == <<desk, lastPhase>>
vars == <<coreVars, Clocks, vaultVars, runVars, uiVars, stop, windowVars,
          pc, op, call, target, lost, forbidden, count>>

Procs == Workers \cup {Gui, Locker}
Pairs == Clients \X Secrets

NoRun == [worker |-> NoWorker, known |-> FALSE]
NoRequest == [client |-> NoClient, secrets |-> {}, vault |-> 0, id |-> 0,
              serial |-> 0, epoch |-> 0, request |-> 0, cancelled |-> FALSE]
NoTarget == [client |-> NoClient, secrets |-> {}, worker |-> NoWorker, serial |-> 0]
DeskActive == [phase |-> "active", epoch |-> 0, waiting |-> FALSE, ok |-> FALSE]

Init ==
  /\ CoreInit /\ wall = 0
  /\ session = 0 /\ failed = FALSE
  /\ active = NoRun /\ blockNew = FALSE /\ child = {}
  /\ ui = [requested |-> 0, acknowledged |-> 0, ready |-> 0,
           local |-> FALSE, connected |-> TRUE]
  /\ unlock = [epoch |-> 0, worker |-> NoWorker, decision |-> "none"]
  /\ stop = FALSE
  /\ desk = DeskActive /\ lastPhase = FALSE
  /\ pc = [p \in Procs |-> "idle"] /\ op = [p \in Procs |-> "none"]
  /\ call = [w \in Workers |-> NoRequest]
  /\ target = NoTarget /\ lost = {} /\ forbidden = {}
  /\ count = [runs |-> 0, locks |-> 0, ops |-> 0, unlocks |-> 0]

-----------------------------------------------------------------------------
(* The procedures: for each, the critical section that follows another.    *)

LockFlow ==
  [cancelFirst |-> "revokeFirst", revokeFirst |-> "cancelRun",
   cancelRun |-> "waitLocal", waitLocal |-> "cancelUnlock",
   cancelUnlock |-> "cancelPending", cancelPending |-> "revokeAll",
   revokeAll |-> "block", block |-> "quiesce", quiesce |-> "lockVault",
   lockVault |-> "reset", reset |-> "releaseBlock",
   releaseBlock |-> "releaseLocal", releaseLocal |-> "clear", clear |-> "idle"]

RevokeFlow ==
  [cancelFirst |-> "revokeFirst", revokeFirst |-> "cancelRun",
   cancelRun |-> "waitLocal", waitLocal |-> "cancelPending",
   cancelPending |-> "block", block |-> "quiesce", quiesce |-> "revokeAll",
   revokeAll |-> "releaseBlock", releaseBlock |-> "releaseLocal",
   releaseLocal |-> "clear", clear |-> "idle"]

TargetFlow ==
  [tryLocal |-> "block", block |-> "quiesce", quiesce |-> "revokeTarget",
   revokeTarget |-> "releaseBlock", releaseBlock |-> "releaseLocal",
   releaseLocal |-> "idle"]

Flow ==
  [rpcLock |-> [beginRequest |-> "cancelPending", cancelPending |-> "revokeAll",
                revokeAll |-> "block", block |-> "quiesce", quiesce |-> "lockVault",
                lockVault |-> "reset", reset |-> "finishRequest",
                finishRequest |-> "awaitAck", awaitAck |-> "releaseBlock",
                releaseBlock |-> "idle"],
   lock |-> LockFlow,
   exit |-> [LockFlow EXCEPT !.clear = "disconnect"],
   revoke |-> [RevokeFlow EXCEPT !.releaseLocal = "idle"],
   sync |-> RevokeFlow,
   pair |-> TargetFlow,
   client |-> TargetFlow,
   appLock |-> [tryLocal |-> "beginLock", beginLock |-> "cancelRun", cancelRun |-> "spawn"],
   autoLock |-> [tryLocal |-> "beginLock", beginLock |-> "snapshot",
                 snapshot |-> "covers", covers |-> "spawn"],
   idleLock |-> [idleVault |-> "reset", reset |-> "releaseBlock",
                 releaseBlock |-> "clear", clear |-> "idle"],
   drop |-> [disconnect |-> "stop", stop |-> "closeSessions",
             closeSessions |-> "cancelFirst", cancelFirst |-> "revokeFirst",
             revokeFirst |-> "cancelPending", cancelPending |-> "block",
             block |-> "quiesce", quiesce |-> "releaseBlock",
             releaseBlock |-> "join", join |-> "gone"],
   appLockThread |-> [block |-> "quiesce", quiesce |-> "finishLock",
                      finishLock |-> "releaseLocal", releaseLocal |-> "releaseBlock",
                      releaseBlock |-> "idle"],
   autoLockThread |-> [drain |-> "finishLock", finishLock |-> "releaseLocal",
                       releaseLocal |-> "idle"]]

At(p, step) == pc[p] = step
Goto(p, step) == pc' = [pc EXCEPT ![p] = step]
Go(p) == Goto(p, Flow[op[p]][pc[p]])

(* RunCancellation::cancel on the tokens of the workers W. *)
CancelTokens(W) ==
  call' = [w \in Workers |-> IF w \in W THEN [call[w] EXCEPT !.cancelled = TRUE]
                                        ELSE call[w]]
ActiveWorker == {active.worker} \ {NoWorker}

ExternalLock == ui.requested > ui.acknowledged
UnlockBlocked == ~ ui.connected \/ ui.local \/ ExternalLock

(* UnlockRequests::cancel. *)
CancelledUnlock ==
  [unlock EXCEPT !.epoch = @ + 1,
                 !.decision = IF unlock.worker = NoWorker THEN "none" ELSE "cancel"]
NoPrompt == [unlock EXCEPT !.worker = NoWorker, !.decision = "none"]

-----------------------------------------------------------------------------
(* RPC workers that run a command.                                         *)

RunFrame == <<Clocks, vaultVars, ui, stop, windowVars, target, lost, forbidden>>

(* handle_method up to await_local_unlock. *)
StartRun(w, c, S) ==
  /\ w \in RunWorkers /\ At(w, "idle") /\ ~ stop /\ count.runs < MaxRuns
  /\ PurgeAll
  /\ call' = [call EXCEPT ![w] = [NoRequest EXCEPT !.client = c, !.secrets = S,
                                                  !.serial = count.runs + 1]]
  /\ op' = [op EXCEPT ![w] = "run"]
  /\ Goto(w, "hasUnattended")
  /\ count' = [count EXCEPT !.runs = @ + 1]
  /\ UNCHANGED <<RunFrame, runVars, unlock>>

(* The connection's token is cancelled when the client hangs up. *)
Hangup(w) ==
  /\ op[w] \in {"run", "list"} /\ ~ call[w].cancelled
  /\ CancelTokens({w})
  /\ UNCHANGED <<coreVars, RunFrame, runVars, unlock, pc, op, count>>

ReadUnattended(c) == IF Tracked(c) THEN PurgeAll ELSE PurgeDisconnected

(* A failed request: before the lease, and with it. *)
Fail(w) ==
  /\ Goto(w, "idle")
  /\ op' = [op EXCEPT ![w] = "none"]
  /\ call' = [call EXCEPT ![w] = NoRequest]
Proceed(w, step) == Goto(w, step) /\ UNCHANGED <<op, call>>

HasUnattendedStep(w) ==
  /\ At(w, "hasUnattended")
  /\ ReadUnattended(call[w].client)
  /\ Proceed(w, IF ClientHasUnattended(call[w].client) THEN "unattendedPhase" ELSE "readEpoch")
  /\ UNCHANGED <<RunFrame, runVars, unlock, count>>

(* The rest of await_local_unlock: reads of one mutex at a time. *)
AwaitUnlock(w) ==
  /\ \/ At(w, "unattendedPhase") /\ Proceed(w, IF session # 0 THEN "start" ELSE "readEpoch")
     \/ /\ At(w, "readEpoch")
        /\ call' = [call EXCEPT ![w].epoch = unlock.epoch]
        /\ Goto(w, "appActive") /\ UNCHANGED op
     \/ At(w, "appActive") /\ Proceed(w, IF IsAppActive THEN "phase" ELSE "blocked")
     \/ At(w, "phase") /\ Proceed(w, IF session # 0 THEN "start" ELSE "blocked")
     \/ At(w, "blocked") /\ ~ (stop \/ UnlockBlocked) /\ Proceed(w, "publish")
     \/ At(w, "blocked") /\ (stop \/ UnlockBlocked) /\ Fail(w)
     \/ At(w, "recheck") /\ ~ (stop \/ UnlockBlocked) /\ Proceed(w, "requireActive")
     \/ At(w, "recheck") /\ (stop \/ UnlockBlocked) /\ Fail(w)
     \/ At(w, "requireActive") /\ IsAppActive /\ Proceed(w, "requirePhase")
     \/ At(w, "requireActive") /\ ~ IsAppActive /\ Fail(w)
     \/ At(w, "requirePhase") /\ session # 0 /\ Proceed(w, "start")
     \/ At(w, "requirePhase") /\ session = 0 /\ Fail(w)
  /\ UNCHANGED <<coreVars, RunFrame, runVars, unlock, count>>

(* Mutant: a prompt is published whatever happened since the epoch was read. *)
PublishUnlockMutant(w) ==
  /\ At(w, "publish")
  /\ IF unlock.worker = NoWorker
     THEN /\ unlock' = [unlock EXCEPT !.worker = w, !.decision = "none"]
          /\ Proceed(w, "wake")
     ELSE Fail(w) /\ UNCHANGED unlock
  /\ UNCHANGED <<coreVars, RunFrame, runVars, count>>

(* UnlockRequests::wait. *)
PublishUnlock(w) ==
  /\ At(w, "publish")
  /\ IF unlock.epoch = call[w].epoch /\ unlock.worker = NoWorker
     THEN /\ unlock' = [unlock EXCEPT !.worker = w, !.decision = "none"]
          /\ Proceed(w, "wake")
     ELSE Fail(w) /\ UNCHANGED unlock
  /\ UNCHANGED <<coreVars, RunFrame, runVars, count>>

WakeWindow(w) ==
  /\ At(w, "wake")
  /\ unlock' = IF stop \/ UnlockBlocked THEN CancelledUnlock ELSE unlock
  /\ Proceed(w, "prompt")
  /\ UNCHANGED <<coreVars, RunFrame, runVars, count>>

(* The prompt ends: cancelled, after two minutes, or decided. *)
EndPrompt(w) ==
  /\ At(w, "prompt") /\ (call[w].cancelled \/ unlock.decision # "none")
  /\ IF ~ call[w].cancelled /\ unlock.decision = "allow" THEN Proceed(w, "recheck") ELSE Fail(w)
  /\ unlock' = NoPrompt
  /\ UNCHANGED <<coreVars, RunFrame, runVars, count>>

PromptTimeout(w) ==
  /\ At(w, "prompt") /\ ~ call[w].cancelled
  /\ Fail(w)
  /\ unlock' = NoPrompt
  /\ UNCHANGED <<coreVars, RunFrame, runVars, count>>

(* RunCoordinator::try_start. *)
TryStart(w) ==
  /\ At(w, "start") /\ op[w] = "run"
  /\ IF blockNew \/ active # NoRun
     THEN Fail(w) /\ UNCHANGED active
     ELSE active' = [worker |-> w, known |-> FALSE] /\ Proceed(w, "access")
  /\ UNCHANGED <<coreVars, RunFrame, blockNew, child, unlock, count>>

(* Mutant: require_client_access lets every client through. *)
RequireClientAccessMutant(w) ==
  LET c == call[w].client IN
  /\ At(w, "access") \/ At(w, "launchAccess")
  /\ ReadUnattended(c)
  /\ Proceed(w, IF At(w, "access") THEN "admitted" ELSE "spawn")
  /\ UNCHANGED <<RunFrame, runVars, unlock, count>>

(* require_client_access, on admission and before a run with no bindings   *)
(* is launched.                                                            *)
RequireClientAccess(w) ==
  LET c == call[w].client IN
  /\ At(w, "access") \/ At(w, "launchAccess")
  /\ IF IsAppActive THEN PurgeDisconnected ELSE ReadUnattended(c)
  /\ Proceed(w, IF ~ (IsAppActive \/ ClientHasUnattended(c)) THEN "dropLease"
                ELSE IF At(w, "access") THEN "admitted" ELSE "spawn")
  /\ UNCHANGED <<RunFrame, runVars, unlock, count>>

(* shutting_down again, and the plan of a run that binds secrets. *)
Admitted(w) ==
  /\ At(w, "admitted")
  /\ Proceed(w, IF stop THEN "dropLease"
                ELSE IF call[w].secrets # {} THEN "plan" ELSE "context")
  /\ UNCHANGED <<coreVars, RunFrame, runVars, unlock, count>>

ApprovalPlan(w) ==
  /\ At(w, "plan")
  /\ call' = [call EXCEPT ![w].vault = session]
  /\ Goto(w, IF session = 0 THEN "dropLease" ELSE "context")
  /\ UNCHANGED <<coreVars, RunFrame, runVars, unlock, op, count>>

SetSecretContext(w) ==
  /\ At(w, "context")
  /\ active' = [active EXCEPT !.known = TRUE]
  /\ Proceed(w, IF call[w].secrets # {} THEN "authorize" ELSE "resolve")
  /\ UNCHANGED <<coreVars, RunFrame, blockNew, child, unlock, count>>

AuthorizeStep(w) ==
  LET c == call[w].client
      v == call[w].vault
      S == call[w].secrets
  IN
  /\ At(w, "authorize")
  /\ \/ /\ AuthorizeUnattended(c, v, S) \/ AuthorizeGranted(c, v, S)
        /\ Proceed(w, "resolve")
     \/ /\ AuthorizePublish(c, v, S)
        /\ call' = [call EXCEPT ![w].id = nextId]
        /\ Goto(w, "poll") /\ UNCHANGED op
     \/ AuthorizeRefused(c, v, S) /\ Proceed(w, "dropLease")
  /\ UNCHANGED <<RunFrame, runVars, unlock, count>>

PollStep(w) ==
  LET r == call[w] IN
  /\ At(w, "poll")
  /\ \/ r.cancelled /\ PollWithdraw(r.id) /\ Proceed(w, "dropLease")
     \/ ~ r.cancelled /\ PollAccepted(r.id, r.client, r.secrets) /\ Proceed(w, "resolve")
     \/ ~ r.cancelled /\ PollRefused(r.id, r.client, r.secrets) /\ Proceed(w, "dropLease")
  /\ UNCHANGED <<RunFrame, runVars, unlock, count>>

PollTimeoutStep(w) ==
  /\ At(w, "poll") /\ ~ call[w].cancelled
  /\ DecisionFor(call[w].id) = NoDecision
  /\ PollWithdraw(call[w].id)
  /\ Proceed(w, "dropLease")
  /\ UNCHANGED <<RunFrame, runVars, unlock, count>>

(* run_guarded: the bindings are resolved under with_valid_grant. *)
ResolveBindings(w) ==
  LET r == call[w] IN
  /\ At(w, "resolve")
  /\ IF r.secrets = {}
     THEN /\ Proceed(w, IF session = 0 THEN "dropLease" ELSE "launchAccess")
          /\ UNCHANGED coreVars
     ELSE /\ RedeemEffect(r.client, r.vault)
          /\ Proceed(w, IF RedeemOK(r.client, r.vault, r.secrets) /\ session # 0
                        THEN "launch" ELSE "dropLease")
  /\ UNCHANGED <<RunFrame, runVars, unlock, count>>

(* spawn_child, under with_valid_grant when secrets are bound. *)
Launch(w) ==
  LET r == call[w]
      ok == ~ r.cancelled
            /\ (At(w, "launch") => RedeemOK(r.client, r.vault, r.secrets))
  IN
  /\ At(w, "launch") \/ At(w, "spawn")
  /\ IF At(w, "launch") THEN RedeemEffect(r.client, r.vault) ELSE UNCHANGED coreVars
  /\ Proceed(w, IF ok THEN "child" ELSE "dropLease")
  /\ child' = IF ok THEN child \cup {w} ELSE child
  /\ UNCHANGED <<RunFrame, active, blockNew, unlock, count>>

(* validate_filesystem, the preparation of the child or its spawn fails. *)
RunError(w) ==
  /\ pc[w] \in {"resolve", "launch", "launchAccess", "spawn"}
  /\ Proceed(w, "dropLease")
  /\ UNCHANGED <<coreVars, RunFrame, runVars, unlock, count>>

ChildEnds(w) ==
  /\ At(w, "child")
  /\ child' = child \ {w}
  /\ Proceed(w, "dropLease")
  /\ UNCHANGED <<coreVars, RunFrame, active, blockNew, unlock, count>>

(* wait_for_child: the process group is killed once the token is           *)
(* cancelled; a child may also exit, or run into its timeout.              *)
ChildExits(w) == ChildEnds(w)
ChildKilled(w) == call[w].cancelled /\ ChildEnds(w)

DropLease(w) ==
  /\ At(w, "dropLease")
  /\ active' = NoRun
  /\ Fail(w)
  /\ UNCHANGED <<coreVars, RunFrame, blockNew, child, unlock, count>>

-----------------------------------------------------------------------------
(* The critical sections of the locking and revoking procedures, whichever *)
(* thread p runs them.                                                     *)

ProcFrame == <<Clocks, stop, windowVars, op, target, lost, count>>

(* RpcMethod::Lock: the result of observe_client is ignored. *)
StartLock(w) ==
  /\ w \in LockWorkers /\ At(w, "idle") /\ pc[Gui] # "gone" /\ count.locks < MaxLocks
  /\ PurgeAll
  /\ op' = [op EXCEPT ![w] = "rpcLock"]
  /\ Goto(w, "beginRequest")
  /\ count' = [count EXCEPT !.locks = @ + 1]
  /\ UNCHANGED <<Clocks, vaultVars, runVars, uiVars, stop, windowVars, call,
                 target, lost, forbidden>>

(* begin_request; after a disconnect the lock goes on without the window. *)
BeginRequest(w) ==
  /\ At(w, "beginRequest")
  /\ ~ ui.connected \/ ~ (ExternalLock \/ ui.local)
  /\ IF ui.connected
     THEN /\ ui' = [ui EXCEPT !.requested = @ + 1]
          /\ unlock' = CancelledUnlock
          /\ call' = [call EXCEPT ![w].request = ui.requested + 1]
     ELSE UNCHANGED <<uiVars, call>>
  /\ Go(w)
  /\ UNCHANGED <<coreVars, ProcFrame, vaultVars, runVars, forbidden>>

CancelPendingStep(p) ==
  /\ At(p, "cancelFirst") \/ At(p, "cancelPending")
  /\ CancelPending \/ (pending.id = 0 /\ UNCHANGED coreVars)
  /\ Go(p)
  /\ UNCHANGED <<ProcFrame, vaultVars, runVars, uiVars, call, forbidden>>

(* revoke_grants is done with its second revoke_all. *)
RevokeAllStep(p) ==
  /\ At(p, "revokeFirst") \/ At(p, "revokeAll")
  /\ RevokeAll
  /\ Go(p)
  /\ forbidden' = IF At(p, "revokeAll") /\ op[p] \in {"revoke", "sync"} THEN Pairs ELSE forbidden
  /\ UNCHANGED <<ProcFrame, vaultVars, runVars, uiVars, call>>

CancelRunStep(p) ==
  /\ At(p, "cancelRun")
  /\ CancelTokens(ActiveWorker)
  /\ Go(p)
  /\ UNCHANGED <<coreVars, ProcFrame, vaultVars, runVars, uiVars, forbidden>>

(* Mutant: is_none in place of is_none_or in block_for_revoke. *)
ConcernsMutant(p) ==
  /\ active # NoRun
  /\ op[p] \in {"client", "pair"} => call[active.worker].client = target.client
  /\ op[p] = "pair" => ~ active.known

(* Whether the block waits for the active run to end: block_new_runs for   *)
(* any run, block_for_client_revoke for the client's, block_for_revoke for *)
(* one that may use the secret.                                            *)
Concerns(p) ==
  /\ active # NoRun
  /\ op[p] \in {"client", "pair"} => call[active.worker].client = target.client
  /\ op[p] = "pair" =>
       ~ active.known \/ target.secrets \cap call[active.worker].secrets # {}

Block(p) ==
  /\ At(p, "block") /\ ~ blockNew
  /\ blockNew' = TRUE
  /\ CancelTokens(IF Concerns(p) THEN ActiveWorker ELSE {})
  /\ Goto(p, IF Concerns(p) THEN "quiesce" ELSE Flow[op[p]].quiesce)
  /\ UNCHANGED <<coreVars, ProcFrame, vaultVars, active, child, uiVars, forbidden>>

(* Mutant: a socket lock tells the active run to stop and does not wait. *)
QuiesceMutant(p) ==
  /\ At(p, "quiesce") /\ (op[p] = "rpcLock" \/ active = NoRun)
  /\ Go(p)
  /\ UNCHANGED <<coreVars, ProcFrame, vaultVars, runVars, uiVars, call, forbidden>>

(* Mutant: the broker is dropped without waiting for the active run. *)
QuiesceDropMutant(p) ==
  /\ At(p, "quiesce") /\ (op[p] = "drop" \/ active = NoRun)
  /\ Go(p)
  /\ UNCHANGED <<coreVars, ProcFrame, vaultVars, runVars, uiVars, call, forbidden>>

Quiesce(p) ==
  /\ At(p, "quiesce") /\ active = NoRun
  /\ Go(p)
  /\ UNCHANGED <<coreVars, ProcFrame, vaultVars, runVars, uiVars, call, forbidden>>

LockVault(p) ==
  /\ At(p, "lockVault")
  /\ session' = 0 /\ failed' = FALSE
  /\ Go(p)
  /\ UNCHANGED <<coreVars, ProcFrame, runVars, uiVars, call, forbidden>>

Reset(p) ==
  /\ At(p, "reset")
  /\ ResetAfterVaultLock
  /\ forbidden' = Pairs
  /\ IF p \in Workers /\ call[p].request = 0 THEN Goto(p, "releaseBlock") ELSE Go(p)
  /\ UNCHANGED <<ProcFrame, vaultVars, runVars, uiVars, call>>

FinishRequest(w) ==
  /\ At(w, "finishRequest")
  /\ ui' = [ui EXCEPT !.ready = call[w].request]
  /\ Go(w)
  /\ UNCHANGED <<coreVars, ProcFrame, vaultVars, runVars, unlock, call, forbidden>>

AwaitAck(w) ==
  /\ At(w, "awaitAck")
  /\ ui.acknowledged >= call[w].request \/ ~ ui.connected
  /\ Go(w)
  /\ UNCHANGED <<coreVars, ProcFrame, vaultVars, runVars, uiVars, call, forbidden>>

(* RunBlock and UiLocalOperation are dropped. *)
ReleaseBlock(p) ==
  /\ At(p, "releaseBlock")
  /\ blockNew' = FALSE
  /\ Go(p)
  /\ op' = IF p \in Workers THEN [op EXCEPT ![p] = "none"] ELSE op
  /\ call' = IF p \in Workers THEN [call EXCEPT ![p] = NoRequest] ELSE call
  /\ UNCHANGED <<coreVars, Clocks, stop, windowVars, target, lost, count,
                 vaultVars, active, child, uiVars, forbidden>>

ReleaseLocal(p) ==
  /\ At(p, "releaseLocal")
  /\ ui' = [ui EXCEPT !.local = FALSE]
  /\ Go(p)
  /\ UNCHANGED <<coreVars, ProcFrame, vaultVars, runVars, unlock, call, forbidden>>

-----------------------------------------------------------------------------
(* The app lock's thread.                                                  *)

(* An automatic lock waits only for a run that was cancelled. *)
Drain ==
  /\ At(Locker, "drain")
  /\ \A w \in ActiveWorker : ~ call[w].cancelled
  /\ Go(Locker)
  /\ UNCHANGED <<coreVars, ProcFrame, vaultVars, runVars, uiVars, call, forbidden>>

(* The attempt's result is sent with the thread's last step. *)
FinishLock ==
  LET ok == appAccess = [phase |-> "locking", epoch |-> desk.epoch] IN
  /\ At(Locker, "finishLock")
  /\ IF ok THEN FinishAppLock(desk.epoch) ELSE UNCHANGED coreVars
  /\ forbidden' = IF ok THEN forbidden \cup lost ELSE forbidden
  /\ desk' = [desk EXCEPT !.ok = ok]
  /\ Go(Locker)
  /\ UNCHANGED <<Clocks, stop, lastPhase, op, target, lost, count, vaultVars,
                 runVars, uiVars, call>>

-----------------------------------------------------------------------------
(* The GUI thread.                                                         *)

WindowActive == At(Gui, "idle") /\ desk.phase = "active" /\ lastPhase
ClearedDesk == [desk EXCEPT !.phase = "active", !.waiting = FALSE]

(* A procedure of the window starts, for the user or for a frame. *)
Start(name, step) ==
  /\ Goto(Gui, step)
  /\ op' = [op EXCEPT ![Gui] = name]

UserStarts(name, step) ==
  /\ At(Gui, "idle") /\ count.ops < MaxOps
  /\ count' = [count EXCEPT !.ops = @ + 1]
  /\ Start(name, step)

GuiFrame == <<coreVars, Clocks, vaultVars, runVars, uiVars, stop, call, lost, forbidden>>

(* lock_immediately: the tray, the lock button, too many wrong PINs. *)
HardLock ==
  /\ UserStarts("lock", "cancelFirst")
  /\ UNCHANGED <<GuiFrame, windowVars, target>>

(* lock_app, while the app is locked already and while it is not; without  *)
(* a way to unlock the app again it is HardLock.                           *)
LockApp ==
  /\ \/ desk.phase # "active" /\ UserStarts("revoke", "cancelFirst")
     \/ desk.phase = "active" /\ UserStarts("appLock", "tryLocal")
  /\ UNCHANGED <<GuiFrame, windowVars, target>>

(* handle_idle_timeout with a session confirmation. *)
AutoLock ==
  /\ session # 0 /\ desk.phase = "active"
  /\ UserStarts("autoLock", "tryLocal")
  /\ UNCHANGED <<GuiFrame, windowVars, target>>

(* handle_idle_timeout without one: auto_lock_controller_if_idle. *)
IdleLock ==
  /\ session # 0 /\ ~ blockNew /\ active = NoRun
  /\ UserStarts("idleLock", "idleVault")
  /\ blockNew' = TRUE
  /\ UNCHANGED <<coreVars, Clocks, vaultVars, active, child, uiVars, stop, call,
                 lost, forbidden, windowVars, target>>

(* auto_lock_if_idle: secret activity since may have renewed the session. *)
IdleVault ==
  /\ At(Gui, "idleVault")
  /\ \/ session' = 0 /\ failed' = FALSE /\ Go(Gui)
     \/ UNCHANGED vaultVars /\ Goto(Gui, "releaseIdle")
  /\ UNCHANGED <<coreVars, ProcFrame, runVars, uiVars, call, forbidden>>

ReleaseIdle ==
  /\ At(Gui, "releaseIdle")
  /\ blockNew' = FALSE
  /\ Goto(Gui, "idle")
  /\ UNCHANGED <<coreVars, ProcFrame, vaultVars, active, child, uiVars, call, forbidden>>

(* revoke_all_agent_grants, revoke_grant and revoke_session. *)
RevokeAllGrants ==
  /\ WindowActive /\ UserStarts("revoke", "cancelFirst")
  /\ UNCHANGED <<GuiFrame, windowVars, target>>

RevokeGrant(c, s) ==
  /\ WindowActive /\ UserStarts("pair", "tryLocal")
  /\ target' = [NoTarget EXCEPT !.client = c, !.secrets = {s}]
  /\ UNCHANGED <<GuiFrame, windowVars>>

RevokeSession(c) ==
  /\ WindowActive /\ UserStarts("client", "tryLocal")
  /\ target' = [NoTarget EXCEPT !.client = c, !.secrets = Secrets]
  /\ UNCHANGED <<GuiFrame, windowVars>>

(* on_exit, after process_external_lock. *)
Ready == ui.ready = ui.requested /\ ExternalLock

Exit ==
  /\ ~ Ready
  /\ UserStarts("exit", "cancelFirst")
  /\ UNCHANGED <<GuiFrame, windowVars, target>>

(* try_begin_local_operation; a failed app lock becomes a hard lock, a     *)
(* failed revocation is reported.                                          *)
TryLocal ==
  /\ At(Gui, "tryLocal")
  /\ IF ExternalLock \/ ui.local
     THEN /\ UNCHANGED ui
          /\ IF op[Gui] \in {"appLock", "autoLock"}
             THEN Start("lock", "cancelFirst")
             ELSE Goto(Gui, "idle") /\ UNCHANGED op
     ELSE ui' = [ui EXCEPT !.local = TRUE] /\ Go(Gui) /\ UNCHANGED op
  /\ UNCHANGED <<coreVars, Clocks, stop, windowVars, target, lost, count,
                 vaultVars, runVars, unlock, call, forbidden>>

(* Mutant: the window waits for an external lock too. *)
WaitLocalMutant ==
  /\ At(Gui, "waitLocal")
  /\ ~ ExternalLock /\ ~ ui.local
  /\ ui' = [ui EXCEPT !.local = TRUE] /\ Go(Gui)
  /\ UNCHANGED <<coreVars, ProcFrame, vaultVars, runVars, unlock, call, forbidden>>

(* wait_begin_local_operation never waits for an external lock. *)
WaitLocal ==
  /\ At(Gui, "waitLocal")
  /\ ExternalLock \/ ~ ui.local
  /\ IF ExternalLock
     THEN Goto(Gui, IF op[Gui] = "revoke" THEN "idle" ELSE "clear") /\ UNCHANGED ui
     ELSE ui' = [ui EXCEPT !.local = TRUE] /\ Go(Gui)
  /\ UNCHANGED <<coreVars, ProcFrame, vaultVars, runVars, unlock, call, forbidden>>

CancelUnlock ==
  /\ At(Gui, "cancelUnlock")
  /\ unlock' = CancelledUnlock
  /\ Go(Gui)
  /\ UNCHANGED <<coreVars, ProcFrame, vaultVars, runVars, ui, call, forbidden>>

RevokeTarget ==
  /\ At(Gui, "revokeTarget")
  /\ \/ op[Gui] = "pair" /\ \E s \in target.secrets : RevokePair(target.client, s)
     \/ op[Gui] = "client" /\ RevokeClient(target.client)
  /\ Go(Gui)
  /\ forbidden' = forbidden \cup ({target.client} \X target.secrets)
  /\ UNCHANGED <<ProcFrame, vaultVars, runVars, uiVars, call>>

(* begin_app_lock and begin_auto_app_lock of the coordinator; `lost' is    *)
(* what the lock takes away.                                               *)
BeginLock ==
  LET auto == op[Gui] = "autoLock" IN
  /\ At(Gui, "beginLock")
  /\ IF IsAppActive
     THEN /\ BeginAppLock(auto)
          /\ desk' = [desk EXCEPT !.epoch = lockEpoch + 1]
          /\ lost' = {q \in Pairs : grants'[q[1]][q[2]].kind = "none"}
          /\ Go(Gui) /\ UNCHANGED <<op, ui>>
     ELSE /\ ui' = [ui EXCEPT !.local = FALSE]
          /\ Start("lock", "cancelFirst")
          /\ UNCHANGED <<coreVars, desk, lost>>
  /\ UNCHANGED <<Clocks, stop, lastPhase, target, count, vaultVars, runVars,
                 unlock, call, forbidden>>

(* begin_auto_app_lock copies the active run, asks the coordinator whether *)
(* unattended access covers it, and cancels its token if not.              *)
Snapshot ==
  /\ At(Gui, "snapshot")
  /\ target' = IF active = NoRun THEN NoTarget
               ELSE LET r == call[active.worker] IN
                    [client |-> r.client, worker |-> active.worker, serial |-> r.serial,
                     secrets |-> IF active.known THEN r.secrets ELSE {}]
  /\ IF active = NoRun THEN Goto(Gui, "spawn") ELSE Go(Gui)
  /\ UNCHANGED <<GuiFrame, windowVars, op, count>>

Covers ==
  LET c == target.client
      covered == ClientHasUnattended(c)
                 /\ MissingUnattended(PurgedGrants, c, target.secrets, elapsed, wall) = {}
      same == call[target.worker].serial = target.serial
  IN
  /\ At(Gui, "covers")
  /\ ReadUnattended(c)
  /\ CancelTokens(IF covered \/ ~ same THEN {} ELSE {target.worker})
  /\ Go(Gui)
  /\ UNCHANGED <<ProcFrame, vaultVars, runVars, uiVars, forbidden>>

(* The rest of the lock runs in a thread of its own. *)
Spawn ==
  /\ At(Gui, "spawn") /\ At(Locker, "idle")
  /\ op' = [op EXCEPT ![Locker] = IF op[Gui] = "appLock" THEN "appLockThread"
                                                         ELSE "autoLockThread"]
  /\ pc' = [pc EXCEPT ![Locker] = IF op[Gui] = "appLock" THEN "block" ELSE "drain",
                      ![Gui] = "idle"]
  /\ desk' = [desk EXCEPT !.phase = "locking", !.waiting = TRUE]
  /\ UNCHANGED <<GuiFrame, lastPhase, target, count>>

(* process_app_lock_result. *)
AppLockResult ==
  /\ At(Gui, "idle") /\ desk.waiting /\ At(Locker, "idle")
  /\ desk' = [desk EXCEPT !.waiting = FALSE,
                          !.phase = IF desk.ok THEN "locked" ELSE @]
  /\ IF desk.ok THEN UNCHANGED <<pc, op>> ELSE Start("lock", "cancelFirst")
  /\ UNCHANGED <<GuiFrame, lastPhase, target, count>>

(* finish_app_unlock. *)
UnlockDesk ==
  /\ At(Gui, "idle") /\ desk.phase = "locked" /\ lastPhase /\ session # 0
  /\ UnlockApp(desk.epoch)
  /\ desk' = [desk EXCEPT !.phase = "active"]
  /\ UNCHANGED <<Clocks, vaultVars, runVars, uiVars, stop, lastPhase, pc, op, call,
                 target, lost, forbidden, count>>

(* clear_sensitive_state; after the last lock the broker is dropped. *)
Clear ==
  /\ At(Gui, "clear")
  /\ desk' = ClearedDesk
  /\ Go(Gui)
  /\ UNCHANGED <<GuiFrame, lastPhase, op, target, count>>

(* Mutant: the window clears its own state and leaves the broker alone. *)
SynchronizePhaseMutant ==
  /\ At(Gui, "idle") /\ lastPhase # (session # 0)
  /\ lastPhase' = (session # 0)
  /\ desk' = IF lastPhase THEN ClearedDesk ELSE desk
  /\ UNCHANGED <<GuiFrame, pc, op, target, count>>

(* synchronize_phase. *)
SynchronizePhase ==
  /\ At(Gui, "idle") /\ lastPhase # (session # 0)
  /\ lastPhase' = (session # 0)
  /\ desk' = IF lastPhase /\ ExternalLock THEN ClearedDesk ELSE desk
  /\ IF lastPhase /\ ~ ExternalLock THEN Start("sync", "cancelFirst") ELSE UNCHANGED <<pc, op>>
  /\ UNCHANGED <<GuiFrame, target, count>>

(* process_external_lock. *)
ProcessExternalLock ==
  /\ At(Gui, "idle") /\ Ready
  /\ desk' = ClearedDesk /\ lastPhase' = FALSE
  /\ ui' = [ui EXCEPT !.acknowledged = ui.requested, !.ready = 0]
  /\ UNCHANGED <<coreVars, Clocks, vaultVars, runVars, unlock, stop, pc, op, call,
                 target, lost, forbidden, count>>

UnlockVault ==
  /\ At(Gui, "idle") /\ session = 0 /\ ~ lastPhase /\ count.unlocks < MaxUnlocks
  /\ session' = count.unlocks + 1 /\ failed' = FALSE
  /\ count' = [count EXCEPT !.unlocks = @ + 1]
  /\ UNCHANGED <<coreVars, Clocks, runVars, uiVars, stop, windowVars, pc, op, call,
                 target, lost, forbidden>>

(* show_unlock_request: granted by itself once the vault is open. *)
ResolveUnlock(allow) ==
  /\ At(Gui, "idle") /\ unlock.worker # NoWorker /\ unlock.decision = "none"
  /\ allow = (desk.phase = "active" /\ session # 0)
  /\ unlock' = [unlock EXCEPT !.decision = IF allow THEN "allow" ELSE "deny"]
  /\ UNCHANGED <<coreVars, Clocks, vaultVars, runVars, ui, stop, windowVars, pc, op,
                 call, target, lost, forbidden, count>>

AnswerFrame == <<Clocks, runVars, uiVars, stop, windowVars, pc, op, call, target, lost, count>>

(* The user decides the published request. *)
Decide(d) ==
  /\ WindowActive
  /\ SetDecision(pending, d)
  /\ forbidden' = forbidden \ consent'
  /\ UNCHANGED <<AnswerFrame, vaultVars>>

(* The user opens, and confirms, the unattended access of a session. *)
CaptureAccess(c) ==
  /\ WindowActive /\ session # 0 /\ vault # session
  /\ CaptureUnattended(c, session)
  /\ UNCHANGED <<AnswerFrame, vaultVars, forbidden>>

GrantAccess(c, S) ==
  /\ WindowActive /\ session # 0 /\ vault = session
  /\ GrantUnattended(ContextOf(c, session), S, wall + MaxUnattended)
  /\ forbidden' = forbidden \ consent'
  /\ UNCHANGED <<AnswerFrame, vaultVars>>

(* update_secret and delete_secret; a commit that fails closes the vault. *)
MutateSecret(s) ==
  /\ WindowActive /\ session # 0 /\ count.ops < MaxOps
  /\ CoordinateSecretMutation(s)
  /\ \/ UNCHANGED vaultVars
     \/ session' = 0 /\ failed' = TRUE
  /\ count' = [count EXCEPT !.ops = @ + 1]
  /\ UNCHANGED <<Clocks, runVars, uiVars, stop, windowVars, pc, op, call, target,
                 lost, forbidden>>

(* Drop for LocalBrokerHandle. *)
DisconnectUi ==
  /\ At(Gui, "disconnect")
  /\ ui' = [ui EXCEPT !.connected = FALSE]
  /\ unlock' = CancelledUnlock
  /\ op' = [op EXCEPT ![Gui] = "drop"]
  /\ Goto(Gui, Flow.drop.disconnect)
  /\ UNCHANGED <<coreVars, Clocks, stop, windowVars, target, lost, count, vaultVars,
                 runVars, call, forbidden>>

StopServing ==
  /\ At(Gui, "stop")
  /\ stop' = TRUE
  /\ Go(Gui)
  /\ UNCHANGED <<coreVars, Clocks, windowVars, op, target, lost, count, vaultVars,
                 runVars, uiVars, call, forbidden>>

CloseSessions ==
  /\ At(Gui, "closeSessions")
  /\ CloseClientSessions
  /\ Go(Gui)
  /\ UNCHANGED <<ProcFrame, vaultVars, runVars, uiVars, call, forbidden>>

Join ==
  /\ At(Gui, "join") /\ \A w \in Workers : At(w, "idle")
  /\ Go(Gui)
  /\ UNCHANGED <<coreVars, ProcFrame, vaultVars, runVars, uiVars, call, forbidden>>

(* The listener thread, once it has seen the flag. *)
ListenerCancel ==
  /\ stop /\ \E w \in ActiveWorker : ~ call[w].cancelled
  /\ CancelTokens(ActiveWorker)
  /\ UNCHANGED <<coreVars, ProcFrame, pc, vaultVars, runVars, uiVars, forbidden>>

-----------------------------------------------------------------------------
(* Clients that keep a session open.                                       *)

SessionFrame == <<Clocks, vaultVars, runVars, uiVars, stop, windowVars, pc, op, call,
                  target, lost, forbidden, count>>

SessionOpen(c) ==
  /\ ~ stop /\ nextConn <= MaxConn
  /\ RegisterClientSession(c)
  /\ UNCHANGED SessionFrame

SessionEnd(c) ==
  /\ Disconnect(c)
  /\ UNCHANGED SessionFrame

-----------------------------------------------------------------------------

RunStep(w) ==
  \/ HasUnattendedStep(w) \/ AwaitUnlock(w) \/ PublishUnlock(w) \/ WakeWindow(w)
  \/ EndPrompt(w) \/ TryStart(w) \/ RequireClientAccess(w) \/ Admitted(w)
  \/ ApprovalPlan(w) \/ SetSecretContext(w) \/ AuthorizeStep(w) \/ PollStep(w)
  \/ ResolveBindings(w) \/ Launch(w) \/ RunError(w) \/ ChildKilled(w) \/ DropLease(w)

ProcStep(p) ==
  \/ CancelPendingStep(p) \/ RevokeAllStep(p) \/ CancelRunStep(p) \/ Block(p)
  \/ Quiesce(p) \/ LockVault(p) \/ Reset(p) \/ ReleaseBlock(p) \/ ReleaseLocal(p)

WorkerStep(w) ==
  \/ RunStep(w) \/ ProcStep(w) \/ BeginRequest(w) \/ FinishRequest(w) \/ AwaitAck(w)

LockerStep == ProcStep(Locker) \/ Drain \/ FinishLock

GuiStep ==
  \/ ProcStep(Gui) \/ TryLocal \/ WaitLocal \/ CancelUnlock \/ RevokeTarget
  \/ BeginLock \/ Snapshot \/ Covers \/ Spawn \/ IdleVault \/ ReleaseIdle
  \/ Clear \/ DisconnectUi \/ StopServing \/ CloseSessions \/ Join

(* What a frame does unasked. *)
FrameStep == ProcessExternalLock \/ SynchronizePhase \/ AppLockResult

Timeout(w) == PromptTimeout(w) \/ PollTimeoutStep(w)

Request(w) ==
  \/ \E c \in Clients, S \in Bindings : StartRun(w, c, S)
  \/ StartLock(w) \/ Hangup(w) \/ ChildExits(w)

User ==
  \/ HardLock \/ LockApp \/ AutoLock \/ IdleLock \/ RevokeAllGrants \/ Exit
  \/ UnlockDesk \/ UnlockVault
  \/ \E allow \in BOOLEAN : ResolveUnlock(allow)
  \/ \E d \in {[kind |-> "approve", arg |-> 1], Deny} : Decide(d)
  \/ \E c \in Clients : CaptureAccess(c) \/ RevokeSession(c)
  \/ \E c \in Clients, S \in SUBSET Secrets : GrantAccess(c, S)
  \/ \E c \in Clients, s \in Secrets : RevokeGrant(c, s)
  \/ \E s \in Secrets : MutateSecret(s)

Next ==
  \/ \E w \in Workers : WorkerStep(w) \/ Timeout(w) \/ Request(w)
  \/ LockerStep \/ GuiStep \/ FrameStep \/ User \/ ListenerCancel
  \/ \E c \in Clients : SessionOpen(c) \/ SessionEnd(c)

Spec == Init /\ [][Next]_vars

(* Threads are scheduled, timers fire and the window is repainted once a   *)
(* second; nothing is assumed of clients, children or the user.            *)
FairSpec ==
  /\ Spec
  /\ \A w \in Workers : WF_vars(WorkerStep(w) \/ Timeout(w))
  /\ WF_vars(LockerStep) /\ WF_vars(GuiStep \/ FrameStep)

-----------------------------------------------------------------------------
(* Properties.                                                             *)

Steps == UNION {DOMAIN Flow[o] : o \in DOMAIN Flow}
RunSteps == {"hasUnattended", "unattendedPhase", "readEpoch", "appActive", "phase",
             "blocked", "publish", "wake", "prompt", "recheck", "requireActive",
             "requirePhase", "start", "access", "admitted", "plan", "context",
             "authorize", "poll", "resolve", "launch", "launchAccess", "spawn",
             "child", "dropLease"}

(* Every variable has its type; a worker has a child only where its request *)
(* is in the child's part of run_guarded, with the lease.                   *)
TypeOK ==
  /\ CoreTypeOK
  /\ session \in Nat /\ failed \in BOOLEAN
  /\ active \in [worker : Workers \cup {NoWorker}, known : BOOLEAN]
  /\ blockNew \in BOOLEAN /\ stop \in BOOLEAN /\ lastPhase \in BOOLEAN
  /\ ui \in [requested : Nat, acknowledged : Nat, ready : Nat,
             local : BOOLEAN, connected : BOOLEAN]
  /\ unlock \in [epoch : Nat, worker : Workers \cup {NoWorker},
                 decision : {"none", "allow", "deny", "cancel"}]
  /\ desk \in [phase : {"active", "locking", "locked"}, epoch : Nat,
               waiting : BOOLEAN, ok : BOOLEAN]
  /\ pc \in [Procs -> Steps \cup RunSteps \cup {"idle", "releaseIdle", "gone"}]
  /\ op \in [Procs -> DOMAIN Flow \cup {"none", "run"}]
  /\ call \in [Workers -> [client : Clients \cup {NoClient}, secrets : SUBSET Secrets,
                          vault : Nat, id : Nat, serial : Nat, epoch : Nat,
                          request : Nat, cancelled : BOOLEAN]]
  /\ lost \subseteq Pairs /\ forbidden \subseteq Pairs
  /\ child \subseteq {w \in Workers : pc[w] = "child" /\ active.worker = w}

(* Once a revocation, an app lock or a vault lock has completed, no child   *)
(* process that was given a secret it took away is alive, until the user    *)
(* grants that secret to that client again.                                 *)
RevokedNeverRuns ==
  \A w \in child : ({call[w].client} \X call[w].secrets) \cap forbidden = {}

(* While the vault is locked (and was not closed by a failed commit) no     *)
(* child is alive, not even one without secrets.                            *)
LockedVaultIsQuiet == session = 0 /\ ~ failed => child = {}

(* While the app is locked by hand, no child is alive.                      *)
ManualLockIsQuiet == appAccess.phase = "locked" /\ manual => child = {}

(* While an RPC lock is under way, no unlock prompt is open to the user:    *)
(* the lock cancels the one that is, and the epoch refuses a later one.     *)
NoPromptUnderLock ==
  ExternalLock => unlock.worker = NoWorker \/ unlock.decision # "none"

(* When the broker has been dropped as far as joining its threads, no child *)
(* is alive and none will be.                                               *)
ShutdownIsQuiet == pc[Gui] \in {"join", "gone"} => child = {}

(* Every lock, revocation and shutdown ends, whoever runs it: the RPC lock  *)
(* waits for the window, the window for local operations and blocks, all of *)
(* them for the active run.                                                 *)
LocksReturn ==
  \A p \in Procs :
    op[p] # "run" /\ pc[p] # "idle" ~> pc[p] \in {"idle", "gone"}

(* A commit that fails closes the vault without stopping the active run;    *)
(* the window notices and stops it.                                         *)
FailedVaultGetsQuiet == failed ~> child = {}
=============================================================================
