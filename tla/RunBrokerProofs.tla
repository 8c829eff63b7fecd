-------------------------- MODULE RunBrokerProofs --------------------------
(***************************************************************************)
(* Theorems about RunBroker, for any number of workers, clients, secrets,  *)
(* requests and operations.                                                *)
(***************************************************************************)
EXTENDS AgentList, CoordinatorProofs

-----------------------------------------------------------------------------
(* Where a thread may be.                                                  *)

GuiOps == {"lock", "exit", "revoke", "sync", "pair", "client", "appLock", "autoLock",
           "idleLock", "drop"}
LockerOps == {"appLockThread", "autoLockThread"}
FlowOps == GuiOps \cup LockerOps \cup {"rpcLock"}

(* The critical sections of procedure o, the last ones included. *)
StepOf(o, s) ==
  \/ s \in DOMAIN Flow[o]
  \/ o = "exit" /\ s = "disconnect"
  \/ o = "drop" /\ s = "gone"
  \/ o = "idleLock" /\ s = "releaseIdle"
  \/ o \in {"appLock", "autoLock"} /\ s = "spawn"

(* The steps at which a procedure keeps new runs blocked (it has a         *)
(* RunBlock).                                                              *)
HeldStep(o, s) ==
  \/ s \in {"quiesce", "lockVault", "reset", "finishRequest", "awaitAck",
            "revokeTarget", "idleVault", "releaseIdle", "releaseBlock"}
  \/ s = "revokeAll" /\ o \in {"revoke", "sync"}
  \/ s \in {"finishLock", "releaseLocal"} /\ o = "appLockThread"

(* The steps at which a run has the lease, at which it will start a child  *)
(* without asking for the vault again, and those after the last look at    *)
(* shutting_down.                                                          *)
LeaseSteps == {"access", "admitted", "plan", "context", "authorize", "poll", "resolve",
               "launch", "launchAccess", "spawn", "child", "dropLease"}
HotSteps == {"launch", "launchAccess", "spawn", "child"}
WarmSteps == LeaseSteps \ {"access", "admitted", "dropLease"}

(* The steps after set_secret_context. *)
KnownSteps == {"authorize", "poll", "resolve", "launch", "launchAccess", "spawn", "child"}

(* What follows step s of procedure o: another step of it, or the end; the *)
(* block is taken at `block' and given back at `releaseBlock' only.        *)
FlowFact(o, s) ==
  LET t == Flow[o][s] IN
  /\ t = "idle" \/ StepOf(o, t)
  /\ s \notin {"block", "releaseBlock"} => (HeldStep(o, t) <=> HeldStep(o, s))
  /\ s = "block" => t = "quiesce" /\ "quiesce" \in DOMAIN Flow[o]
  /\ s # "block" => t # "quiesce"
  /\ s = "releaseBlock" => ~ HeldStep(o, t)
  /\ o = "rpcLock" => (t = "idle" <=> s = "releaseBlock")
  /\ s = "lockVault" => o \in {"rpcLock", "lock", "exit"}
  /\ s = "reset" => o \in {"rpcLock", "lock", "exit", "idleLock"}
  /\ s = "idleVault" => o = "idleLock"

(* Every table of Flow is as FlowFact says. *)
LEMMA FlowFacts == \A o \in FlowOps : \A s \in DOMAIN Flow[o] : FlowFact(o, s)
<1>1. \A s \in DOMAIN Flow["rpcLock"] : FlowFact("rpcLock", s)
  BY DEF Flow, LockFlow, RevokeFlow, TargetFlow, FlowFact, StepOf, HeldStep
<1>2. \A s \in DOMAIN Flow["lock"] : FlowFact("lock", s)
  BY DEF Flow, LockFlow, RevokeFlow, TargetFlow, FlowFact, StepOf, HeldStep
<1>3. \A s \in DOMAIN Flow["exit"] : FlowFact("exit", s)
  BY DEF Flow, LockFlow, RevokeFlow, TargetFlow, FlowFact, StepOf, HeldStep
<1>4. \A s \in DOMAIN Flow["revoke"] : FlowFact("revoke", s)
  BY DEF Flow, LockFlow, RevokeFlow, TargetFlow, FlowFact, StepOf, HeldStep
<1>5. \A s \in DOMAIN Flow["sync"] : FlowFact("sync", s)
  BY DEF Flow, LockFlow, RevokeFlow, TargetFlow, FlowFact, StepOf, HeldStep
<1>6. \A s \in DOMAIN Flow["pair"] : FlowFact("pair", s)
  BY DEF Flow, LockFlow, RevokeFlow, TargetFlow, FlowFact, StepOf, HeldStep
<1>7. \A s \in DOMAIN Flow["client"] : FlowFact("client", s)
  BY DEF Flow, LockFlow, RevokeFlow, TargetFlow, FlowFact, StepOf, HeldStep
<1>8. \A s \in DOMAIN Flow["appLock"] : FlowFact("appLock", s)
  BY DEF Flow, LockFlow, RevokeFlow, TargetFlow, FlowFact, StepOf, HeldStep
<1>9. \A s \in DOMAIN Flow["autoLock"] : FlowFact("autoLock", s)
  BY DEF Flow, LockFlow, RevokeFlow, TargetFlow, FlowFact, StepOf, HeldStep
<1>10. \A s \in DOMAIN Flow["idleLock"] : FlowFact("idleLock", s)
  BY DEF Flow, LockFlow, RevokeFlow, TargetFlow, FlowFact, StepOf, HeldStep
<1>11. \A s \in DOMAIN Flow["drop"] : FlowFact("drop", s)
  BY DEF Flow, LockFlow, RevokeFlow, TargetFlow, FlowFact, StepOf, HeldStep
<1>12. \A s \in DOMAIN Flow["appLockThread"] : FlowFact("appLockThread", s)
  BY DEF Flow, LockFlow, RevokeFlow, TargetFlow, FlowFact, StepOf, HeldStep
<1>13. \A s \in DOMAIN Flow["autoLockThread"] : FlowFact("autoLockThread", s)
  BY DEF Flow, LockFlow, RevokeFlow, TargetFlow, FlowFact, StepOf, HeldStep
<1> QED
  BY <1>1, <1>2, <1>3, <1>4, <1>5, <1>6, <1>7, <1>8, <1>9, <1>10, <1>11, <1>12, <1>13 DEF FlowOps, GuiOps, LockerOps

-----------------------------------------------------------------------------
(* The shape of the state.                                                 *)

RunRec == {NoRun} \cup [worker : Workers, known : BOOLEAN]
UiRec == [requested : Nat, acknowledged : Nat, ready : Nat, local : BOOLEAN,
          connected : BOOLEAN]
UnlockRec == [epoch : Nat, worker : Workers \cup {NoWorker},
              decision : {"none", "allow", "deny", "cancel"}]
DeskRec == [phase : {"active", "locking", "locked"}, epoch : Nat, waiting : BOOLEAN,
            ok : BOOLEAN]
CallRec == [client : Clients \cup {NoClient}, secrets : SUBSET Secrets, vault : Nat,
            id : Nat, serial : Nat, epoch : Nat, request : Nat, cancelled : BOOLEAN]
TargetRec == [client : Clients \cup {NoClient}, secrets : SUBSET Secrets,
              worker : Workers \cup {NoWorker}, serial : Nat]
CountRec == [runs : Nat, locks : Nat, ops : Nat, unlocks : Nat]

(* f is a function on S. *)
OnAll(f, S) == f = [x \in S |-> f[x]]

(* The threads' own state. *)
ThreadsOK ==
  /\ OnAll(pc, Procs) /\ OnAll(op, Procs)
  /\ call \in [Workers -> CallRec]
  /\ active \in RunRec /\ blockNew \in BOOLEAN /\ child \subseteq Workers
  /\ target \in TargetRec

(* What they share besides the coordinator. *)
SharedOK ==
  /\ session \in Nat /\ failed \in BOOLEAN
  /\ ui \in UiRec /\ unlock \in UnlockRec
  /\ stop \in BOOLEAN /\ lastPhase \in BOOLEAN
  /\ desk \in DeskRec
  /\ lost \subseteq Pairs /\ forbidden \subseteq Pairs
  /\ count \in CountRec

(* The steps of a list request that a run does not have. *)
ListSteps == {"listState", "listGrants", "listVault", "listed"}

RequestSteps == RunSteps \cup ListSteps

(* Step s of procedure o is one that thread p may be at. *)
Placed(p, o, s) ==
  \/ /\ p \in Workers
     /\ \/ o = "none" /\ s = "idle"
        \/ o \in {"run", "list"} /\ s \in RunSteps
        \/ o = "list" /\ s \in ListSteps
        \/ o = "rpcLock" /\ s \in DOMAIN Flow["rpcLock"]
  \/ p = Gui /\ (s = "idle" \/ (o \in GuiOps /\ StepOf(o, s)))
  \/ p = Locker /\ (s = "idle" \/ (o \in LockerOps /\ s \in DOMAIN Flow[o]))

(* Where the threads are, and whom they serve. *)
ControlInv ==
  /\ \A p \in Procs : Placed(p, op[p], pc[p])
  /\ \A w \in Workers : op[w] \in {"run", "list"} => call[w].client \in Clients
  /\ op[Gui] \in {"pair", "client"} => target.client \in Clients

Shaped == CoreTypeOK /\ ThreadsOK /\ SharedOK /\ ControlInv

(* The steps of a run and those of an RPC lock have different names. *)
LEMMA StepNames ==
  /\ RunSteps \cap DOMAIN Flow["rpcLock"] = {}
  /\ ListSteps \cap (RunSteps \cup DOMAIN Flow["rpcLock"]) = {}
  /\ "idle" \notin RunSteps /\ "idle" \notin DOMAIN Flow["rpcLock"]
  /\ "idle" \notin ListSteps
BY DEF RunSteps, ListSteps, Flow

(* A worker at a step of a run serves a client. *)
LEMMA RunAt ==
  ASSUME ControlInv, NEW w \in Workers, pc[w] \in RunSteps
  PROVE  op[w] \in {"run", "list"} /\ call[w].client \in Clients
<1>1. Placed(w, op[w], pc[w]) /\ w # Gui /\ w # Locker
  BY ProcessAssumption DEF ControlInv, Procs
<1> QED BY <1>1, StepNames DEF ControlInv, Placed

(* The steps that only procedures have. *)
ProcNames == {"cancelFirst", "cancelPending", "revokeFirst", "revokeAll", "cancelRun",
              "block", "quiesce", "lockVault", "reset", "releaseBlock", "releaseLocal",
              "beginRequest", "finishRequest", "awaitAck", "tryLocal", "waitLocal",
              "cancelUnlock", "revokeTarget", "beginLock", "snapshot", "covers",
              "idleVault", "clear", "stop", "closeSessions", "join", "drain", "finishLock"}

(* A thread at one of them runs a procedure with that step. *)
LEMMA ProcAt ==
  ASSUME ControlInv, NEW p \in Procs, pc[p] \in ProcNames
  PROVE  /\ op[p] \in FlowOps /\ pc[p] \in DOMAIN Flow[op[p]]
         /\ FlowFact(op[p], pc[p])
         /\ p \in Workers => op[p] = "rpcLock"
         /\ p = Gui => op[p] \in GuiOps
         /\ p = Locker => op[p] \in LockerOps
<1>1. /\ pc[p] \notin RunSteps /\ pc[p] \notin ListSteps /\ pc[p] # "idle"
      /\ Placed(p, op[p], pc[p])
  BY DEF ProcNames, RunSteps, ListSteps, ControlInv
<1>2. CASE p \in Workers
  BY <1>1, <1>2, FlowFacts, ProcessAssumption DEF Placed, FlowOps
<1>3. CASE p = Gui
  BY <1>1, <1>3, FlowFacts, ProcessAssumption
     DEF Placed, FlowOps, StepOf, ProcNames
<1>4. CASE p = Locker
  BY <1>1, <1>4, FlowFacts, ProcessAssumption DEF Placed, FlowOps
<1> QED BY <1>2, <1>3, <1>4 DEF Procs

(* Writing one value of a function. *)
LEMMA OnAllMoved ==
  ASSUME NEW f, NEW S, OnAll(f, S), NEW x \in S, NEW y
  PROVE  /\ OnAll([f EXCEPT ![x] = y], S)
         /\ [f EXCEPT ![x] = y][x] = y
         /\ \A z \in S \ {x} : [f EXCEPT ![x] = y][z] = f[z]
BY DEF OnAll

-----------------------------------------------------------------------------
(* The steps of a run.                                                     *)

(* Worker w goes from one step of its run to another, or ends it. *)
RunMoves(w) ==
  LET s == pc[w]
      t == pc'[w]
  IN
  /\ s \in RunSteps /\ (t \in RunSteps \/ t = "idle")
  /\ pc' = [pc EXCEPT ![w] = t]
  /\ op' = IF t = "idle" THEN [op EXCEPT ![w] = "none"] ELSE op
  /\ UNCHANGED <<RunFrame, blockNew, count>>

(* The lease is taken at `start', given back at `dropLease', and what only *)
(* its holder may do is done with it.                                      *)
RunLeases(w) ==
  LET s == pc[w]
      t == pc'[w]
  IN
  /\ \/ s \notin LeaseSteps /\ t \notin LeaseSteps /\ active' = active
     \/ /\ s \notin LeaseSteps /\ t = "access" /\ ~ blockNew /\ active = NoRun
        /\ active' = [worker |-> w, known |-> FALSE]
     \/ /\ s \in LeaseSteps \ {"dropLease"} /\ t \in LeaseSteps \ {"access"}
        /\ \/ active' = active /\ s # "context"
           \/ active' = [active EXCEPT !.known = TRUE] /\ s = "context"
     \/ s = "dropLease" /\ t = "idle" /\ active' = NoRun
  /\ t \in HotSteps => s \in HotSteps \/ session # 0
  /\ t \in WarmSteps => s \in WarmSteps \/ ~ stop
  /\ \/ child' = child /\ s # "child" /\ t # "child"
     \/ t = "child" /\ s \in {"launch", "spawn"} /\ child' = child \cup {w}
     \/ s = "child" /\ t # "child" /\ child' = child \ {w}

(* The request keeps what was asked; it is forgotten at the end. *)
RunCalls(w) ==
  LET s == pc[w]
      t == pc'[w]
      r == call[w]
      q == call'[w]
  IN
  /\ call' = [call EXCEPT ![w] = q] /\ q \in CallRec
  /\ t = "idle" => q = NoRequest
  /\ t # "idle" =>
       /\ q.client = r.client /\ q.secrets = r.secrets /\ q.serial = r.serial
       /\ q.request = r.request /\ q.cancelled = r.cancelled
       /\ q.epoch = IF s = "readEpoch" THEN unlock.epoch ELSE r.epoch
       /\ q.id = IF t = "poll" THEN nextId ELSE r.id
       /\ s = "readEpoch" => t = "appActive"

(* What a run does to the unlock prompt. *)
RunPrompts(w) ==
  LET s == pc[w]
      t == pc'[w]
  IN
  /\ t = "publish" => ~ ExternalLock
  /\ \/ unlock' = unlock
     \/ /\ s = "publish" /\ unlock.epoch = call[w].epoch
        /\ unlock' = [unlock EXCEPT !.worker = w, !.decision = "none"]
     \/ unlock' = CancelledUnlock
     \/ unlock' = NoPrompt

(* What a run has seen before it goes on: its client's access, the vault,  *)
(* its grants; its request, if it published one, is gone when it stops     *)
(* waiting.                                                                *)
RunGuards(w) ==
  LET s == pc[w]
      t == pc'[w]
      r == call[w]
  IN
  /\ s = "access" => t \in {"admitted", "dropLease"}
  /\ t = "admitted" => IsAppActive \/ ClientHasUnattended(r.client)
  /\ t \in KnownSteps => s \in KnownSteps \cup {"context"}
  /\ s = "launch" /\ t = "child" => RedeemOK(r.client, r.vault, r.secrets)
  /\ t = "launchAccess" => r.secrets = {}
  /\ t = "spawn" => s = "launchAccess"
  /\ s = "poll" => pending'.id = 0 \/ pending'.id # r.id
  /\ t = "poll" => s = "authorize"

RunEffect(w) == RunMoves(w) /\ RunLeases(w) /\ RunCalls(w) /\ RunPrompts(w)
RunMove(w) == RunEffect(w) /\ RunGuards(w)

(* The fields of a request after one of them is written. *)
LEMMA CallFields ==
  /\ NoRequest \in CallRec
  /\ \A r \in CallRec, n \in Nat :
       /\ [r EXCEPT !.epoch = n] \in CallRec /\ [r EXCEPT !.id = n] \in CallRec
       /\ [r EXCEPT !.vault = n] \in CallRec /\ [r EXCEPT !.cancelled = TRUE] \in CallRec
       /\ [r EXCEPT !.request = n] \in CallRec
<1>1. NoRequest \in CallRec
  BY DEF NoRequest, CallRec
<1>2. ASSUME NEW r \in CallRec, NEW n \in Nat
      PROVE  /\ [r EXCEPT !.epoch = n] \in CallRec /\ [r EXCEPT !.id = n] \in CallRec
             /\ [r EXCEPT !.vault = n] \in CallRec /\ [r EXCEPT !.cancelled = TRUE] \in CallRec
             /\ [r EXCEPT !.request = n] \in CallRec
  BY DEF CallRec
<1> QED BY <1>1, <1>2

(* What a request remembers of the vault, and of the published request. *)
LEMMA CallWritten ==
  ASSUME NEW r \in CallRec, NEW n \in Nat, NEW q,
         q = [r EXCEPT !.vault = n] \/ q = [r EXCEPT !.id = n]
  PROVE  q \in CallRec
BY CallFields

(* A run that goes on. *)
LEMMA ProceedMoves ==
  ASSUME Shaped, NEW w \in Workers, NEW t, t # "idle", t # "poll", pc[w] # "readEpoch",
         Proceed(w, t)
  PROVE  /\ pc'[w] = t /\ pc' = [pc EXCEPT ![w] = t] /\ op' = op
         /\ RunCalls(w)
<1>1. pc'[w] = t /\ pc' = [pc EXCEPT ![w] = t] /\ op' = op /\ call' = call
  BY DEF Proceed, Goto, Shaped, ThreadsOK, OnAll, Procs
<1>2. call[w] \in CallRec /\ call' = [call EXCEPT ![w] = call'[w]]
  BY <1>1 DEF Shaped, ThreadsOK
<1> QED BY <1>1, <1>2 DEF RunCalls

(* A run that ends. *)
LEMMA FailMoves ==
  ASSUME Shaped, NEW w \in Workers, Fail(w), pc[w] # "readEpoch"
  PROVE  /\ pc'[w] = "idle" /\ pc' = [pc EXCEPT ![w] = "idle"]
         /\ op' = [op EXCEPT ![w] = "none"]
         /\ RunCalls(w)
<1>1. pc'[w] = "idle" /\ pc' = [pc EXCEPT ![w] = "idle"] /\ op' = [op EXCEPT ![w] = "none"]
  BY DEF Fail, Goto, Shaped, ThreadsOK, OnAll, Procs
<1>2. call'[w] = NoRequest /\ call' = [call EXCEPT ![w] = NoRequest]
  BY DEF Fail, Shaped, ThreadsOK
<1> QED BY <1>1, <1>2, CallFields DEF RunCalls

(* Waiting for the vault. *)
LEMMA AwaitMove ==
  ASSUME Shaped, NEW w \in Workers,
         HasUnattendedStep(w) \/ AwaitUnlock(w) \/ PublishUnlock(w) \/ WakeWindow(w)
           \/ EndPrompt(w) \/ PromptTimeout(w)
  PROVE  RunEffect(w)
<1>1. CASE HasUnattendedStep(w)
  <2>1. RunMoves(w)
    BY <1>1 DEF HasUnattendedStep, At, Proceed, Goto, RunMoves, RunSteps, runVars, Shaped, ThreadsOK, OnAll, Procs
  <2>2. RunLeases(w)
    BY <1>1 DEF HasUnattendedStep, At, Proceed, Goto, RunLeases, LeaseSteps, HotSteps, WarmSteps, runVars, Shaped, ThreadsOK, OnAll, Procs
  <2>3. RunCalls(w)
    BY <1>1 DEF HasUnattendedStep, At, Proceed, Goto, RunCalls, Shaped, ThreadsOK, OnAll, Procs
  <2>4. RunPrompts(w)
    BY <1>1 DEF HasUnattendedStep, At, Proceed, Goto, RunPrompts, Shaped, ThreadsOK, OnAll, Procs
  <2> QED BY <2>1, <2>2, <2>3, <2>4 DEF RunEffect
<1>2. CASE AwaitUnlock(w)
  <2>1. RunMoves(w)
    BY <1>2 DEF AwaitUnlock, At, Fail, Proceed, Goto, RunMoves, RunSteps, runVars, Shaped, ThreadsOK, OnAll, Procs
  <2>2. RunLeases(w)
    BY <1>2 DEF AwaitUnlock, At, Fail, Proceed, Goto, RunLeases, LeaseSteps, HotSteps, WarmSteps, runVars, Shaped, ThreadsOK, OnAll, Procs
  <2>3. RunCalls(w)
    <3>1. CASE pc[w] # "readEpoch"
      <4>1. Fail(w) \/ \E t \in RunSteps \ {"poll"} : Proceed(w, t)
        BY <1>2, <3>1 DEF AwaitUnlock, At, RunSteps
      <4> QED BY <3>1, <4>1, FailMoves, ProceedMoves, StepNames
    <3>2. CASE pc[w] = "readEpoch"
      <4>1. /\ pc'[w] = "appActive"
            /\ call' = [call EXCEPT ![w].epoch = unlock.epoch]
        BY <1>2, <3>2 DEF AwaitUnlock, At, Goto, Shaped, ThreadsOK, OnAll, Procs
      <4>2. call[w] \in CallRec /\ unlock.epoch \in Nat
        BY DEF Shaped, ThreadsOK, SharedOK, UnlockRec
      <4>3. call'[w] = [call[w] EXCEPT !.epoch = unlock.epoch]
            /\ call' = [call EXCEPT ![w] = call'[w]]
        BY <4>1 DEF Shaped, ThreadsOK
      <4> DEFINE r == call[w]
                 q == call'[w]
      <4>4. /\ q.client = r.client /\ q.secrets = r.secrets /\ q.serial = r.serial
            /\ q.request = r.request /\ q.cancelled = r.cancelled /\ q.epoch = unlock.epoch
            /\ q.id = r.id
        BY <4>2, <4>3 DEF CallRec
      <4>5. q \in CallRec
        BY <4>2, <4>3, CallFields
      <4> QED BY <3>2, <4>1, <4>3, <4>4, <4>5 DEF RunCalls
    <3> QED BY <3>1, <3>2
  <2>4. RunPrompts(w)
    BY <1>2 DEF AwaitUnlock, At, Fail, Proceed, Goto, RunPrompts, UnlockBlocked, Shaped, ThreadsOK, OnAll, Procs
  <2> QED BY <2>1, <2>2, <2>3, <2>4 DEF RunEffect
<1>3. CASE PublishUnlock(w)
  <2>1. RunMoves(w)
    BY <1>3 DEF PublishUnlock, At, Fail, Proceed, Goto, RunMoves, RunSteps, runVars, Shaped, ThreadsOK, OnAll, Procs
  <2>2. RunLeases(w)
    BY <1>3 DEF PublishUnlock, At, Fail, Proceed, Goto, RunLeases, LeaseSteps, HotSteps, WarmSteps, runVars, Shaped, ThreadsOK, OnAll, Procs
  <2>3. RunCalls(w)
    BY <1>3, FailMoves, ProceedMoves DEF PublishUnlock, At
  <2>4. RunPrompts(w)
    BY <1>3 DEF PublishUnlock, At, Fail, Proceed, Goto, RunPrompts, Shaped, ThreadsOK, OnAll, Procs
  <2> QED BY <2>1, <2>2, <2>3, <2>4 DEF RunEffect
<1>4. CASE WakeWindow(w)
  <2>1. RunMoves(w)
    BY <1>4 DEF WakeWindow, At, Fail, Proceed, Goto, RunMoves, RunSteps, runVars, Shaped, ThreadsOK, OnAll, Procs
  <2>2. RunLeases(w)
    BY <1>4 DEF WakeWindow, At, Fail, Proceed, Goto, RunLeases, LeaseSteps, HotSteps, WarmSteps, runVars, Shaped, ThreadsOK, OnAll, Procs
  <2>3. RunCalls(w)
    BY <1>4, FailMoves, ProceedMoves DEF WakeWindow, At
  <2>4. RunPrompts(w)
    BY <1>4 DEF WakeWindow, At, Fail, Proceed, Goto, RunPrompts, Shaped, ThreadsOK, OnAll, Procs
  <2> QED BY <2>1, <2>2, <2>3, <2>4 DEF RunEffect
<1>5. CASE EndPrompt(w) \/ PromptTimeout(w)
  <2>1. RunMoves(w)
    BY <1>5 DEF EndPrompt, PromptTimeout, At, Fail, Proceed, Goto, RunMoves, RunSteps, runVars, Shaped, ThreadsOK, OnAll, Procs
  <2>2. RunLeases(w)
    BY <1>5 DEF EndPrompt, PromptTimeout, At, Fail, Proceed, Goto, RunLeases, LeaseSteps, HotSteps, WarmSteps, runVars, Shaped, ThreadsOK, OnAll, Procs
  <2>3. RunCalls(w)
    BY <1>5, FailMoves, ProceedMoves DEF EndPrompt, PromptTimeout, At
  <2>4. RunPrompts(w)
    BY <1>5 DEF EndPrompt, PromptTimeout, At, Fail, Proceed, Goto, RunPrompts, Shaped, ThreadsOK, OnAll, Procs
  <2> QED BY <2>1, <2>2, <2>3, <2>4 DEF RunEffect
<1> QED BY <1>1, <1>2, <1>3, <1>4, <1>5

(* The steps with the lease that read or write nothing but the coordinator. *)
LEMMA LeaseMove ==
  ASSUME Shaped, NEW w \in Workers,
         TryStart(w) \/ RequireClientAccess(w) \/ Admitted(w) \/ SetSecretContext(w)
           \/ PollStep(w) \/ PollTimeoutStep(w) \/ ResolveBindings(w) \/ Launch(w)
           \/ RunError(w) \/ ChildEnds(w) \/ DropLease(w)
  PROVE  RunEffect(w)
<1> USE DEF At, Shaped, ThreadsOK, OnAll, Procs
<1>1. CASE TryStart(w)
  <2>1. RunMoves(w)
    BY <1>1 DEF TryStart, Fail, Proceed, Goto, RunMoves, RunSteps
  <2>2. RunLeases(w)
    BY <1>1 DEF TryStart, Fail, Proceed, Goto, RunLeases, LeaseSteps, HotSteps, WarmSteps
  <2>3. RunCalls(w)
    BY <1>1, FailMoves, ProceedMoves DEF TryStart
  <2>4. RunPrompts(w)
    BY <1>1 DEF TryStart, Fail, Proceed, Goto, RunPrompts
  <2> QED BY <2>1, <2>2, <2>3, <2>4 DEF RunEffect
<1>2. CASE RequireClientAccess(w)
  <2>1. RunMoves(w)
    BY <1>2 DEF RequireClientAccess, Fail, Proceed, Goto, RunMoves, RunSteps, runVars
  <2>2. RunLeases(w)
    BY <1>2 DEF RequireClientAccess, Fail, Proceed, Goto, RunLeases, LeaseSteps, HotSteps, WarmSteps, runVars
  <2>3. RunCalls(w)
    BY <1>2, FailMoves, ProceedMoves DEF RequireClientAccess
  <2>4. RunPrompts(w)
    BY <1>2 DEF RequireClientAccess, Fail, Proceed, Goto, RunPrompts
  <2> QED BY <2>1, <2>2, <2>3, <2>4 DEF RunEffect
<1>3. CASE Admitted(w)
  <2>1. RunMoves(w)
    BY <1>3 DEF Admitted, Fail, Proceed, Goto, RunMoves, RunSteps, runVars
  <2>2. RunLeases(w)
    BY <1>3 DEF Admitted, Fail, Proceed, Goto, RunLeases, LeaseSteps, HotSteps, WarmSteps, runVars
  <2>3. RunCalls(w)
    BY <1>3, FailMoves, ProceedMoves DEF Admitted
  <2>4. RunPrompts(w)
    BY <1>3 DEF Admitted, Fail, Proceed, Goto, RunPrompts
  <2> QED BY <2>1, <2>2, <2>3, <2>4 DEF RunEffect
<1>4. CASE SetSecretContext(w)
  <2>1. RunMoves(w)
    BY <1>4 DEF SetSecretContext, Fail, Proceed, Goto, RunMoves, RunSteps, runVars
  <2>2. RunLeases(w)
    BY <1>4 DEF SetSecretContext, Fail, Proceed, Goto, RunLeases, LeaseSteps, HotSteps, WarmSteps, runVars
  <2>3. RunCalls(w)
    BY <1>4, FailMoves, ProceedMoves DEF SetSecretContext
  <2>4. RunPrompts(w)
    BY <1>4 DEF SetSecretContext, Fail, Proceed, Goto, RunPrompts
  <2> QED BY <2>1, <2>2, <2>3, <2>4 DEF RunEffect
<1>5. CASE PollStep(w)
  <2>1. RunMoves(w)
    BY <1>5 DEF PollStep, Fail, Proceed, Goto, RunMoves, RunSteps, runVars
  <2>2. RunLeases(w)
    BY <1>5 DEF PollStep, Fail, Proceed, Goto, RunLeases, LeaseSteps, HotSteps, WarmSteps, runVars
  <2>3. RunCalls(w)
    BY <1>5, FailMoves, ProceedMoves DEF PollStep
  <2>4. RunPrompts(w)
    BY <1>5 DEF PollStep, Fail, Proceed, Goto, RunPrompts
  <2> QED BY <2>1, <2>2, <2>3, <2>4 DEF RunEffect
<1>6. CASE PollTimeoutStep(w)
  <2>1. RunMoves(w)
    BY <1>6 DEF PollTimeoutStep, Fail, Proceed, Goto, RunMoves, RunSteps, runVars
  <2>2. RunLeases(w)
    BY <1>6 DEF PollTimeoutStep, Fail, Proceed, Goto, RunLeases, LeaseSteps, HotSteps, WarmSteps, runVars
  <2>3. RunCalls(w)
    BY <1>6, FailMoves, ProceedMoves DEF PollTimeoutStep
  <2>4. RunPrompts(w)
    BY <1>6 DEF PollTimeoutStep, Fail, Proceed, Goto, RunPrompts
  <2> QED BY <2>1, <2>2, <2>3, <2>4 DEF RunEffect
<1>7. CASE ResolveBindings(w)
  <2>1. RunMoves(w)
    BY <1>7 DEF ResolveBindings, Fail, Proceed, Goto, RunMoves, RunSteps, runVars
  <2>2. RunLeases(w)
    BY <1>7 DEF ResolveBindings, Fail, Proceed, Goto, RunLeases, LeaseSteps, HotSteps, WarmSteps, runVars
  <2>3. RunCalls(w)
    BY <1>7, FailMoves, ProceedMoves DEF ResolveBindings
  <2>4. RunPrompts(w)
    BY <1>7 DEF ResolveBindings, Fail, Proceed, Goto, RunPrompts
  <2> QED BY <2>1, <2>2, <2>3, <2>4 DEF RunEffect
<1>8. CASE Launch(w)
  <2>1. RunMoves(w)
    BY <1>8 DEF Launch, Fail, Proceed, Goto, RunMoves, RunSteps, runVars
  <2>2. RunLeases(w)
    BY <1>8 DEF Launch, Fail, Proceed, Goto, RunLeases, LeaseSteps, HotSteps, WarmSteps, runVars
  <2>3. RunCalls(w)
    BY <1>8, FailMoves, ProceedMoves DEF Launch
  <2>4. RunPrompts(w)
    BY <1>8 DEF Launch, Fail, Proceed, Goto, RunPrompts
  <2> QED BY <2>1, <2>2, <2>3, <2>4 DEF RunEffect
<1>9. CASE RunError(w)
  <2>1. RunMoves(w)
    BY <1>9 DEF RunError, Fail, Proceed, Goto, RunMoves, RunSteps, runVars
  <2>2. RunLeases(w)
    BY <1>9 DEF RunError, Fail, Proceed, Goto, RunLeases, LeaseSteps, HotSteps, WarmSteps, runVars
  <2>3. RunCalls(w)
    BY <1>9, FailMoves, ProceedMoves DEF RunError
  <2>4. RunPrompts(w)
    BY <1>9 DEF RunError, Fail, Proceed, Goto, RunPrompts
  <2> QED BY <2>1, <2>2, <2>3, <2>4 DEF RunEffect
<1>10. CASE ChildEnds(w)
  <2>1. RunMoves(w)
    BY <1>10 DEF ChildEnds, Fail, Proceed, Goto, RunMoves, RunSteps, runVars
  <2>2. RunLeases(w)
    BY <1>10 DEF ChildEnds, Fail, Proceed, Goto, RunLeases, LeaseSteps, HotSteps, WarmSteps, runVars
  <2>3. RunCalls(w)
    BY <1>10, FailMoves, ProceedMoves DEF ChildEnds
  <2>4. RunPrompts(w)
    BY <1>10 DEF ChildEnds, Fail, Proceed, Goto, RunPrompts
  <2> QED BY <2>1, <2>2, <2>3, <2>4 DEF RunEffect
<1>11. CASE DropLease(w)
  <2>1. RunMoves(w)
    BY <1>11 DEF DropLease, Fail, Proceed, Goto, RunMoves, RunSteps, runVars
  <2>2. RunLeases(w)
    BY <1>11 DEF DropLease, Fail, Proceed, Goto, RunLeases, LeaseSteps, HotSteps, WarmSteps, runVars
  <2>3. RunCalls(w)
    BY <1>11, FailMoves, ProceedMoves DEF DropLease
  <2>4. RunPrompts(w)
    BY <1>11 DEF DropLease, Fail, Proceed, Goto, RunPrompts
  <2> QED BY <2>1, <2>2, <2>3, <2>4 DEF RunEffect
<1> QED BY <1>1, <1>2, <1>3, <1>4, <1>5, <1>6, <1>7, <1>8, <1>9, <1>10, <1>11

(* The plan of a run remembers the vault session. *)
LEMMA PlanMove ==
  ASSUME Shaped, NEW w \in Workers, ApprovalPlan(w)
  PROVE  RunEffect(w)
<1> USE DEF At, Shaped, ThreadsOK, OnAll, Procs
<1>1. RunMoves(w)
  BY DEF ApprovalPlan, Goto, RunMoves, RunSteps, runVars
<1>2. RunLeases(w)
  BY DEF ApprovalPlan, Goto, RunLeases, LeaseSteps, HotSteps, WarmSteps, runVars
<1>3. RunCalls(w)
  <2> DEFINE r == call[w]
             q == call'[w]
  <2>1. /\ q = [r EXCEPT !.vault = session] /\ call' = [call EXCEPT ![w] = q]
        /\ r \in CallRec /\ session \in Nat
    BY DEF ApprovalPlan, SharedOK
  <2>2. /\ q.client = r.client /\ q.secrets = r.secrets /\ q.serial = r.serial
        /\ q.request = r.request /\ q.cancelled = r.cancelled /\ q.epoch = r.epoch
        /\ q.id = r.id
    BY <2>1 DEF CallRec
  <2>3. q \in CallRec
    BY <2>1, CallWritten
  <2>4. pc[w] = "plan" /\ pc'[w] \in {"dropLease", "context"}
    BY DEF ApprovalPlan, Goto
  <2> QED BY <2>1, <2>2, <2>3, <2>4 DEF RunCalls
<1>4. RunPrompts(w)
  BY DEF ApprovalPlan, Goto, RunPrompts
<1> QED BY <1>1, <1>2, <1>3, <1>4 DEF RunEffect

(* authorize; a published request gets a fresh id. *)
LEMMA AuthorizeMove ==
  ASSUME Shaped, NEW w \in Workers, AuthorizeStep(w)
  PROVE  RunEffect(w)
<1> USE DEF At, Shaped, ThreadsOK, OnAll, Procs
<1>1. RunMoves(w)
  BY DEF AuthorizeStep, Proceed, Goto, RunMoves, RunSteps, runVars
<1>2. RunLeases(w)
  BY DEF AuthorizeStep, Proceed, Goto, RunLeases, LeaseSteps, HotSteps, WarmSteps, runVars
<1>3. RunCalls(w)
  <2>1. CASE Proceed(w, "resolve") \/ Proceed(w, "dropLease")
    BY <2>1, ProceedMoves DEF AuthorizeStep
  <2>2. CASE call' = [call EXCEPT ![w].id = nextId] /\ Goto(w, "poll")
    <3> DEFINE r == call[w]
               q == call'[w]
    <3>1. /\ q = [r EXCEPT !.id = nextId] /\ call' = [call EXCEPT ![w] = q]
          /\ r \in CallRec /\ nextId \in Nat
      BY <2>2 DEF CoreTypeOK
    <3>2. /\ q.client = r.client /\ q.secrets = r.secrets /\ q.serial = r.serial
          /\ q.request = r.request /\ q.cancelled = r.cancelled /\ q.epoch = r.epoch
          /\ q.id = nextId
      BY <3>1 DEF CallRec
    <3>3. q \in CallRec
      BY <3>1, CallWritten
    <3>4. pc[w] = "authorize" /\ pc'[w] = "poll"
      BY <2>2 DEF AuthorizeStep, Goto
    <3> QED BY <3>1, <3>2, <3>3, <3>4 DEF RunCalls
  <2> QED BY <2>1, <2>2 DEF AuthorizeStep
<1>4. RunPrompts(w)
  BY DEF AuthorizeStep, Proceed, Goto, RunPrompts
<1> QED BY <1>1, <1>2, <1>3, <1>4 DEF RunEffect

(* What a run has seen. *)
LEMMA GuardMove ==
  ASSUME Shaped, NEW w \in Workers, RunStep(w) \/ Timeout(w) \/ ChildExits(w)
  PROVE  RunGuards(w)
<1> USE DEF At, Shaped, ThreadsOK, OnAll, Procs, KnownSteps
<1>1. CASE HasUnattendedStep(w) \/ AwaitUnlock(w)
  BY <1>1 DEF HasUnattendedStep, AwaitUnlock, Fail, Proceed, Goto, RunGuards
<1>2. CASE PublishUnlock(w) \/ WakeWindow(w) \/ EndPrompt(w) \/ PromptTimeout(w) \/ TryStart(w)
  BY <1>2 DEF PublishUnlock, WakeWindow, EndPrompt, PromptTimeout, TryStart, Fail, Proceed, Goto,
       RunGuards
<1>3. CASE RequireClientAccess(w)
  BY <1>3 DEF RequireClientAccess, Proceed, Goto, RunGuards
<1>4. CASE Admitted(w) \/ ApprovalPlan(w) \/ SetSecretContext(w)
  BY <1>4 DEF Admitted, ApprovalPlan, SetSecretContext, Proceed, Goto, RunGuards
<1>5. CASE AuthorizeStep(w)
  BY <1>5 DEF AuthorizeStep, Proceed, Goto, RunGuards
<1>6. CASE PollStep(w) \/ PollTimeoutStep(w)
  <2>1. pc[w] = "poll" /\ pc'[w] \in {"dropLease", "resolve"}
    BY <1>6 DEF PollStep, PollTimeoutStep, Proceed, Goto
  <2>2. \/ PollWithdraw(call[w].id)
        \/ PollAccepted(call[w].id, call[w].client, call[w].secrets)
        \/ PollRefused(call[w].id, call[w].client, call[w].secrets)
    BY <1>6 DEF PollStep, PollTimeoutStep
  <2>3. pending'.id = 0 \/ pending'.id # call[w].id
    BY <2>2 DEF PollWithdraw, PollAccepted, PollRefused, TakeDecision, NoPending
  <2> QED BY <2>1, <2>3 DEF RunGuards
<1>7. CASE ResolveBindings(w) \/ Launch(w)
  BY <1>7 DEF ResolveBindings, Launch, Proceed, Goto, RunGuards
<1>8. CASE RunError(w) \/ ChildEnds(w) \/ DropLease(w)
  BY <1>8 DEF RunError, ChildEnds, DropLease, Fail, Proceed, Goto, RunGuards
<1> QED BY <1>1, <1>2, <1>3, <1>4, <1>5, <1>6, <1>7, <1>8
           DEF RunStep, Timeout, ChildExits, ChildKilled

(* Every step of a run. *)
LEMMA RunStepMoves ==
  ASSUME Shaped, NEW w \in Workers, RunStep(w) \/ Timeout(w) \/ ChildExits(w)
  PROVE  RunMove(w)
BY AwaitMove, LeaseMove, PlanMove, AuthorizeMove, GuardMove
   DEF RunStep, Timeout, ChildExits, ChildKilled, RunMove

-----------------------------------------------------------------------------
(* What a step does to the coordinator.                                    *)

(* The methods only a run calls: authorize and its loop. *)
RunOnlyMethod ==
  \/ \E c \in Clients, v \in Nat, S \in SUBSET Secrets :
       \/ AuthorizeUnattended(c, v, S) \/ AuthorizeGranted(c, v, S)
       \/ AuthorizePublish(c, v, S) \/ AuthorizeRefused(c, v, S)
  \/ \E id \in Nat, c \in Clients, S \in SUBSET Secrets :
       PollWithdraw(id) \/ PollAccepted(id, c, S) \/ PollRefused(id, c, S)

(* The methods that take things away, or only look. *)
StayMethod ==
  \/ UNCHANGED coreVars
  \/ PurgeDisconnected \/ PurgeAll
  \/ \E c \in Clients : RegisterClientSession(c) \/ Disconnect(c)
  \/ CloseClientSessions
  \/ CancelPending
  \/ \E preserve \in BOOLEAN : BeginAppLock(preserve)
  \/ \E e \in Nat : FinishAppLock(e) \/ UnlockApp(e)
  \/ ResetAfterVaultLock \/ RevokeAll
  \/ \E c \in Clients, s \in Secrets : RevokePair(c, s)
  \/ \E c \in Clients : RevokeClient(c)
  \/ \E s \in Secrets : CoordinateSecretMutation(s)
  \/ \E c \in Clients, v \in Nat : CaptureUnattended(c, v)

PlainMethod == RunOnlyMethod \/ StayMethod

(* The methods that may take a consent. *)
ConsentMethod ==
  \/ \E d \in Decision : SetDecision(pending, d)
  \/ \E k \in UnattendedContext, S \in SUBSET Secrets, n \in Nat : GrantUnattended(k, S, n)

CoreMethod == PlainMethod \/ ConsentMethod

(* Every method keeps the coordinator's types. *)
LEMMA MethodType ==
  ASSUME CoreTypeOK, CoreMethod, UNCHANGED Clocks
  PROVE  CoreTypeOK'
<1>1. elapsed' = elapsed /\ wall' = wall /\ elapsed \in Nat /\ wall \in Nat
  BY DEF Clocks, CoreTypeOK
<1>2. CoreType'
  <2>1. CASE UNCHANGED coreVars
    BY <2>1 DEF coreVars, CoreType, CoreTypeOK
  <2>2. CASE PurgeDisconnected \/ PurgeAll
    BY <2>2, PurgeKeepsType
  <2>3. CASE \E c \in Clients, v \in Nat, S \in SUBSET Secrets :
               \/ AuthorizeUnattended(c, v, S) \/ AuthorizeGranted(c, v, S)
               \/ AuthorizePublish(c, v, S) \/ AuthorizeRefused(c, v, S)
    BY <2>3, AuthorizeKeepsType
  <2>4. CASE \E id \in Nat, c \in Clients, S \in SUBSET Secrets :
               PollWithdraw(id) \/ PollAccepted(id, c, S) \/ PollRefused(id, c, S)
    BY <2>4, PollKeepsType
  <2>5. CASE \/ \E c \in Clients : RegisterClientSession(c) \/ Disconnect(c)
             \/ CloseClientSessions
    BY <2>5, SessionsKeepType
  <2>6. CASE (\E d \in Decision : SetDecision(pending, d)) \/ CancelPending
    <3>1. pending.id # 0 => pending.client \in Clients /\ pending.secrets \subseteq Secrets
      BY PendingFields DEF CoreTypeOK
    <3> QED BY <2>6, <3>1, DecisionsKeepType
  <2>7. CASE \/ \E preserve \in BOOLEAN : BeginAppLock(preserve)
             \/ ResetAfterVaultLock
             \/ \E e \in Nat : FinishAppLock(e) \/ UnlockApp(e)
    BY <2>7, LocksKeepType
  <2>8. CASE RevokeAll \/ \E c \in Clients : RevokeClient(c)
    BY <2>8, RevokeAllKeepsType, RevokeClientKeepsType
  <2>9. CASE \E c \in Clients, s \in Secrets : RevokePair(c, s)
    BY <2>9, RevokePairKeepsType
  <2>10. CASE \E s \in Secrets : CoordinateSecretMutation(s)
    BY <2>10, MutationKeepsType
  <2>11. CASE \/ \E c \in Clients, v \in Nat : CaptureUnattended(c, v)
              \/ \E k \in UnattendedContext, S \in SUBSET Secrets, n \in Nat :
                   GrantUnattended(k, S, n)
    BY <2>11, UnattendedKeepsType
  <2> QED BY <2>1, <2>2, <2>3, <2>4, <2>5, <2>6, <2>7, <2>8, <2>9, <2>10, <2>11 DEF CoreMethod, PlainMethod, RunOnlyMethod,
           StayMethod, ConsentMethod
<1> QED BY <1>1, <1>2 DEF CoreType, CoreTypeOK

(* Where a grant comes from, unless the method takes a consent. *)
LEMMA PlainOrigin ==
  ASSUME CoreTypeOK, PlainMethod, NEW c \in Clients, NEW s \in Secrets
  PROVE  Earlier(c, s)
<1>1. CASE UNCHANGED coreVars
  <2>1. /\ grants' = grants /\ sessions' = sessions /\ consent' = consent
        /\ appAccess' = appAccess /\ manual' = manual
    BY <1>1 DEF coreVars
  <2>2. (c \in Gone => c \in Gone') /\ (IsAppActive <=> IsAppActive')
    BY <2>1 DEF Gone, IsAppActive
  <2> QED BY <2>1, <2>2 DEF Earlier, Kept
<1>2. CASE PurgeDisconnected \/ PurgeAll
  BY <1>2, PurgeOrigin
<1>3. CASE \E k \in Clients, v \in Nat, S \in SUBSET Secrets :
             \/ AuthorizeUnattended(k, v, S) \/ AuthorizeGranted(k, v, S)
             \/ AuthorizePublish(k, v, S) \/ AuthorizeRefused(k, v, S)
  BY <1>3, AuthorizeOrigin
<1>4. CASE \E id \in Nat, k \in Clients, S \in SUBSET Secrets :
             PollWithdraw(id) \/ PollAccepted(id, k, S) \/ PollRefused(id, k, S)
  BY <1>4, PollOrigin
<1>5. CASE \/ \E k \in Clients : RegisterClientSession(k) \/ Disconnect(k)
           \/ CloseClientSessions
  BY <1>5, RegisterOrigin, DisconnectOrigin, CloseOrigin
<1>6. CASE CancelPending
  BY <1>6, CancelOrigin
<1>7. CASE \/ \E preserve \in BOOLEAN : BeginAppLock(preserve)
           \/ ResetAfterVaultLock
           \/ \E e \in Nat : FinishAppLock(e) \/ UnlockApp(e)
  BY <1>7, AppLockOrigin, LockStepOrigin
<1>8. CASE \/ RevokeAll \/ \E k \in Clients : RevokeClient(k)
           \/ \E k \in Clients, z \in Secrets : RevokePair(k, z)
           \/ \E z \in Secrets : CoordinateSecretMutation(z)
  BY <1>8, RevokeOrigin
<1>9. CASE \E k \in Clients, v \in Nat : CaptureUnattended(k, v)
  BY <1>9, CaptureOrigin
<1> QED BY <1>1, <1>2, <1>3, <1>4, <1>5, <1>6, <1>7, <1>8, <1>9
        DEF PlainMethod, RunOnlyMethod, StayMethod

(* Where a grant comes from, whatever the method. *)
LEMMA MethodOrigin ==
  ASSUME CoreTypeOK, CoreMethod, NEW c \in Clients, NEW s \in Secrets
  PROVE  Origin(c, s)
<1>1. CASE PlainMethod
  BY <1>1, PlainOrigin DEF Origin
<1>2. CASE \E d \in Decision : SetDecision(pending, d)
  BY <1>2, DecisionOrigin DEF Origin
<1>3. CASE \E k \in UnattendedContext, S \in SUBSET Secrets, n \in Nat : GrantUnattended(k, S, n)
  BY <1>3, UnattendedOrigin DEF Origin
<1> QED BY <1>1, <1>2, <1>3 DEF CoreMethod, ConsentMethod

(* A run calls authorize, polls, redeems, or only purges. *)
LEMMA RunMethod ==
  ASSUME Shaped, NEW w \in Workers, RunStep(w) \/ Timeout(w) \/ ChildExits(w)
  PROVE  PlainMethod
<1> DEFINE r == call[w]
<1>1. r.vault \in Nat /\ r.secrets \in SUBSET Secrets /\ r.id \in Nat
  BY DEF Shaped, ThreadsOK, CallRec
<1>2. CASE \/ HasUnattendedStep(w) \/ AwaitUnlock(w) \/ PublishUnlock(w) \/ WakeWindow(w)
           \/ EndPrompt(w) \/ TryStart(w) \/ RequireClientAccess(w) \/ Admitted(w)
           \/ ApprovalPlan(w) \/ SetSecretContext(w) \/ ResolveBindings(w) \/ Launch(w)
           \/ RunError(w) \/ ChildEnds(w) \/ DropLease(w) \/ PromptTimeout(w)
  <2>1. UNCHANGED coreVars \/ PurgeDisconnected \/ PurgeAll
    BY <1>2 DEF HasUnattendedStep, AwaitUnlock, PublishUnlock, WakeWindow, EndPrompt, TryStart,
         RequireClientAccess, Admitted, ApprovalPlan, SetSecretContext, ResolveBindings, Launch,
         RunError, ChildEnds, DropLease, PromptTimeout, ReadUnattended, RedeemEffect
  <2> QED BY <2>1 DEF PlainMethod, StayMethod
<1>3. CASE AuthorizeStep(w)
  <2>1. r.client \in Clients
    BY <1>3, RunAt DEF AuthorizeStep, At, RunSteps, Shaped
  <2>2. \/ AuthorizeUnattended(r.client, r.vault, r.secrets)
        \/ AuthorizeGranted(r.client, r.vault, r.secrets)
        \/ AuthorizePublish(r.client, r.vault, r.secrets)
        \/ AuthorizeRefused(r.client, r.vault, r.secrets)
    BY <1>3 DEF AuthorizeStep
  <2> HIDE DEF r
  <2> QED BY <1>1, <2>1, <2>2 DEF PlainMethod, RunOnlyMethod
<1>4. CASE PollStep(w) \/ PollTimeoutStep(w)
  <2>1. r.client \in Clients
    BY <1>4, RunAt DEF PollStep, PollTimeoutStep, At, RunSteps, Shaped
  <2>2. \/ PollWithdraw(r.id) \/ PollAccepted(r.id, r.client, r.secrets)
        \/ PollRefused(r.id, r.client, r.secrets)
    BY <1>4 DEF PollStep, PollTimeoutStep
  <2> HIDE DEF r
  <2> QED BY <1>1, <2>1, <2>2 DEF PlainMethod, RunOnlyMethod
<1> QED BY <1>2, <1>3, <1>4 DEF RunStep, Timeout, ChildExits, ChildKilled

(* A procedure's step calls one method or none. *)
LEMMA ProcMethod ==
  ASSUME Shaped, NEW p, ProcStep(p)
  PROVE  StayMethod /\ UNCHANGED Clocks
BY DEF ProcStep, CancelPendingStep, RevokeAllStep, CancelRunStep, Block, Quiesce, LockVault,
       Reset, ReleaseBlock, ReleaseLocal, ProcFrame, StayMethod

(* The steps of the other threads, by what they are for. *)
RequestStep(w) == BeginRequest(w) \/ FinishRequest(w) \/ AwaitAck(w)
GuiProc ==
  \/ TryLocal \/ WaitLocal \/ CancelUnlock \/ RevokeTarget \/ BeginLock \/ Snapshot \/ Covers
  \/ IdleVault \/ ReleaseIdle \/ Clear \/ DisconnectUi \/ StopServing \/ CloseSessions \/ Join
UserBegins ==
  \/ HardLock \/ LockApp \/ AutoLock \/ IdleLock \/ RevokeAllGrants \/ Exit
  \/ \E c \in Clients : RevokeSession(c)
  \/ \E c \in Clients, s \in Secrets : RevokeGrant(c, s)
UserAnswers ==
  \/ UnlockDesk \/ UnlockVault
  \/ \E allow \in BOOLEAN : ResolveUnlock(allow)
  \/ \E d \in {[kind |-> "approve", arg |-> 1], Deny} : Decide(d)
  \/ \E c \in Clients : CaptureAccess(c)
  \/ \E c \in Clients, S \in SUBSET Secrets : GrantAccess(c, S)
  \/ \E s \in Secrets : MutateSecret(s)
Peers == \E c \in Clients : SessionOpen(c) \/ SessionEnd(c)

(* Every step is one of these. *)
LEMMA NextCases ==
  ASSUME Next
  PROVE  \/ \E w \in Workers : RunStep(w) \/ Timeout(w) \/ ChildExits(w)
         \/ \E p \in Procs : ProcStep(p)
         \/ \E w \in Workers : RequestStep(w)
         \/ \E w \in Workers, c \in Clients, S \in Bindings : StartRun(w, c, S)
         \/ \E w \in Workers : StartLock(w) \/ Hangup(w)
         \/ Drain \/ FinishLock \/ GuiProc \/ Spawn \/ FrameStep
         \/ UserBegins \/ UserAnswers \/ ListenerCancel \/ Peers
BY DEF Next, WorkerStep, Request, LockerStep, GuiStep, User, RequestStep, GuiProc, UserBegins,
       UserAnswers, Peers, Procs

(* Every step calls at most one method of the coordinator, and the clocks  *)
(* stand still; what the user consents to is forbidden no longer.          *)
LEMMA NextMethods ==
  ASSUME Shaped, Next
  PROVE  /\ \/ \E w \in Workers : (RunStep(w) \/ Timeout(w) \/ ChildExits(w)) /\ PlainMethod
            \/ StayMethod
            \/ (ConsentMethod /\ forbidden' = forbidden \ consent')
         /\ UNCHANGED Clocks
<1>1. CASE \E w \in Workers : RunStep(w) \/ Timeout(w) \/ ChildExits(w)
  BY <1>1, RunMethod, RunStepMoves DEF RunMove, RunEffect, RunMoves, RunFrame
<1>2. CASE \E p \in Procs : ProcStep(p)
  BY <1>2, ProcMethod
<1>3. CASE \E w \in Workers : RequestStep(w)
  BY <1>3 DEF RequestStep, BeginRequest, FinishRequest, AwaitAck, ProcFrame, StayMethod
<1>4. CASE \/ \E w \in Workers, c \in Clients, S \in Bindings : StartRun(w, c, S)
           \/ \E w \in Workers : StartLock(w) \/ Hangup(w)
  BY <1>4 DEF StartRun, StartLock, Hangup, RunFrame, StayMethod
<1>5. CASE Drain \/ FinishLock
  <2>1. desk.epoch \in Nat
    BY DEF Shaped, SharedOK, DeskRec
  <2> QED BY <1>5, <2>1 DEF Drain, FinishLock, ProcFrame, StayMethod
<1>6. CASE GuiProc
  <2>1. CASE RevokeTarget
    <3>1. /\ target.client \in Clients /\ target.secrets \subseteq Secrets
      BY <2>1 DEF RevokeTarget, Shaped, ControlInv, ThreadsOK, TargetRec
    <3> QED BY <2>1, <3>1 DEF RevokeTarget, ProcFrame, StayMethod
  <2>2. CASE BeginLock
    BY <2>2 DEF BeginLock, StayMethod
  <2>3. CASE ~ RevokeTarget /\ ~ BeginLock
    BY <1>6, <2>3 DEF GuiProc, TryLocal, WaitLocal, CancelUnlock, Snapshot, Covers,
         IdleVault, ReleaseIdle, Clear, DisconnectUi, StopServing, CloseSessions, Join,
         ReadUnattended, GuiFrame, ProcFrame, StayMethod
  <2> QED BY <2>1, <2>2, <2>3
<1>7. CASE Spawn \/ FrameStep \/ UserBegins \/ ListenerCancel \/ Peers
  BY <1>7 DEF Spawn, FrameStep, UserBegins, ListenerCancel, Peers, ProcessExternalLock,
       SynchronizePhase, AppLockResult, HardLock, LockApp, AutoLock, IdleLock,
       RevokeAllGrants, Exit, RevokeSession, RevokeGrant, SessionOpen, SessionEnd,
       SessionFrame, GuiFrame, ProcFrame, StayMethod
<1>8. CASE UserAnswers
  <2>1. /\ desk.epoch \in Nat /\ session \in Nat /\ wall + MaxUnattended \in Nat
        /\ Deny \in Decision /\ [kind |-> "approve", arg |-> 1] \in Decision
    BY ConstantsAssumption, ValueTypes
       DEF Shaped, SharedOK, DeskRec, CoreTypeOK, Decision, DecisionKinds, Approving
  <2>2. CASE UnlockDesk \/ UnlockVault \/ \E allow \in BOOLEAN : ResolveUnlock(allow)
    BY <2>1, <2>2 DEF UnlockDesk, UnlockVault, ResolveUnlock, StayMethod
  <2>3. CASE \E d \in {[kind |-> "approve", arg |-> 1], Deny} : Decide(d)
    BY <2>1, <2>3 DEF Decide, AnswerFrame, ConsentMethod
  <2>4. CASE \E c \in Clients : CaptureAccess(c)
    BY <2>1, <2>4 DEF CaptureAccess, AnswerFrame, StayMethod
  <2>5. ASSUME NEW c \in Clients, NEW S \in SUBSET Secrets, GrantAccess(c, S)
        PROVE  /\ ConsentMethod /\ forbidden' = forbidden \ consent'
               /\ UNCHANGED Clocks
    <3>1. ContextOf(c, session) \in UnattendedContext
      BY <2>1 DEF ContextOf, UnattendedContext, Shaped, CoreTypeOK, SessionState
    <3>2. GrantUnattended(ContextOf(c, session), S, wall + MaxUnattended) /\ UNCHANGED Clocks
          /\ forbidden' = forbidden \ consent'
      BY <2>5 DEF GrantAccess, AnswerFrame
    <3> QED BY <2>1, <3>1, <3>2 DEF ConsentMethod
  <2>6. CASE \E s \in Secrets : MutateSecret(s)
    BY <2>6 DEF MutateSecret, StayMethod
  <2> QED BY <1>8, <2>2, <2>3, <2>4, <2>5, <2>6 DEF UserAnswers
<1> QED BY <1>1, <1>2, <1>3, <1>4, <1>5, <1>6, <1>7, <1>8, NextCases

(* Every step calls at most one method, and the clocks stand still. *)
LEMMA NextMethod ==
  ASSUME Shaped, Next
  PROVE  CoreMethod /\ UNCHANGED Clocks
BY NextMethods DEF CoreMethod, PlainMethod

-----------------------------------------------------------------------------
(* Which thread moves, and what becomes of the run block.                  *)

(* Only thread p moves. *)
Only(p) ==
  /\ OnAll(pc', Procs) /\ OnAll(op', Procs)
  /\ \A q \in Procs \ {p} : pc'[q] = pc[q] /\ op'[q] = op[q]
  /\ Placed(p, op'[p], pc'[p])
  /\ p \in Workers => pc[p] \notin LeaseSteps /\ pc'[p] \notin LeaseSteps
  /\ p \in Workers => pc[p] \notin RequestSteps /\ pc'[p] \notin RequestSteps \ {"hasUnattended"}
  /\ UNCHANGED <<active, child>>

Advances(p) ==
  /\ Only(p) /\ blockNew' = blockNew
  /\ HeldStep(op'[p], pc'[p]) <=> HeldStep(op[p], pc[p])
  /\ HeldStep(op[p], pc[p]) => op'[p] = op[p]
  /\ pc[p] = "quiesce" => active = NoRun

Takes(p) ==
  /\ Only(p) /\ ~ blockNew /\ blockNew' = TRUE
  /\ HeldStep(op'[p], pc'[p])
  /\ pc'[p] = "quiesce" \/ active = NoRun \/ op'[p] \in {"pair", "client"}

Releases(p) ==
  /\ Only(p) /\ blockNew' = FALSE
  /\ HeldStep(op[p], pc[p]) /\ ~ HeldStep(op'[p], pc'[p])

Still == UNCHANGED <<pc, op, active, child, blockNew>>

ThreadStep ==
  \/ \E w \in Workers : RunMove(w)
  \/ \E p \in Procs : Advances(p) \/ Takes(p) \/ Releases(p)
  \/ Spawn
  \/ Still

(* The steps of the procedures are not those of a run. *)
LEMMA HeldNames ==
  ASSUME NEW o, NEW s \in RunSteps \cup ListSteps \cup {"idle"}
  PROVE  ~ HeldStep(o, s)
BY DEF RunSteps, ListSteps, HeldStep

(* The lease is taken with steps of a run only. *)
LEMMA LeaseNames ==
  ASSUME NEW s \in LeaseSteps
  PROVE  /\ s \in RunSteps /\ s # "hasUnattended" /\ s # "idle" /\ s \notin ListSteps
         /\ s \notin DOMAIN Flow["rpcLock"] /\ s \notin ProcNames
BY DEF LeaseSteps, RunSteps, ListSteps, Flow, ProcNames

(* A jump to a step where the thread may be. *)
LEMMA GotoMoves ==
  ASSUME Shaped, NEW p \in Procs, NEW t, NEW o, Goto(p, t), Placed(p, o, t),
         op' = [op EXCEPT ![p] = o] \/ (op' = op /\ o = op[p]),
         p \in Workers => pc[p] \notin RequestSteps /\ t \notin RequestSteps \ {"hasUnattended"},
         UNCHANGED <<active, child>>
  PROVE  Only(p) /\ pc'[p] = t /\ op'[p] = o
<1>1. OnAll(pc, Procs) /\ OnAll(op, Procs)
  BY DEF Shaped, ThreadsOK
<1>2. OnAll(pc', Procs) /\ pc'[p] = t /\ \A q \in Procs \ {p} : pc'[q] = pc[q]
  <2>1. pc' = [pc EXCEPT ![p] = t]
    BY DEF Goto
  <2> DEFINE f == [pc EXCEPT ![p] = t]
  <2>2. OnAll(f, Procs) /\ f[p] = t /\ \A q \in Procs \ {p} : f[q] = pc[q]
    BY <1>1, OnAllMoved
  <2> HIDE DEF f
  <2> QED BY <2>1, <2>2 DEF f
<1>3. OnAll(op', Procs) /\ op'[p] = o /\ \A q \in Procs \ {p} : op'[q] = op[q]
  <2> DEFINE f == [op EXCEPT ![p] = o]
  <2>1. OnAll(f, Procs) /\ f[p] = o /\ \A q \in Procs \ {p} : f[q] = op[q]
    BY <1>1, OnAllMoved
  <2>2. op' = f \/ (op' = op /\ o = op[p])
    OBVIOUS
  <2> HIDE DEF f
  <2> QED BY <1>1, <2>1, <2>2
<1>4. p \in Workers => pc[p] \notin LeaseSteps /\ t \notin LeaseSteps
  BY LeaseNames DEF RequestSteps
<1> QED BY <1>2, <1>3, <1>4 DEF Only

(* A step of a procedure that is followed by the next one of its table. *)
LEMMA GoMoves ==
  ASSUME Shaped, NEW p \in Procs, pc[p] \in ProcNames, Go(p), op' = op,
         p \in Workers => pc[p] # "releaseBlock",
         UNCHANGED <<active, child>>
  PROVE  /\ Only(p) /\ pc'[p] = Flow[op[p]][pc[p]] /\ op'[p] = op[p]
         /\ FlowFact(op[p], pc[p]) /\ op[p] \in FlowOps
<1> DEFINE t == Flow[op[p]][pc[p]]
<1>1. /\ op[p] \in FlowOps /\ pc[p] \in DOMAIN Flow[op[p]]
      /\ FlowFact(op[p], pc[p])
      /\ p \in Workers => op[p] = "rpcLock"
      /\ p = Gui => op[p] \in GuiOps
      /\ p = Locker => op[p] \in LockerOps
  BY ProcAt DEF Shaped
<1>2. /\ t = "idle" \/ StepOf(op[p], t)
      /\ op[p] = "rpcLock" => (t = "idle" <=> pc[p] = "releaseBlock")
  BY <1>1 DEF FlowFact
<1>3. Goto(p, t)
  BY DEF Go
<1> HIDE DEF t
<1>4. Placed(p, op[p], t)
  BY <1>1, <1>2 DEF Placed, StepOf, Procs, LockerOps
<1>5. p \in Workers => pc[p] \notin RequestSteps /\ t \notin RequestSteps \ {"hasUnattended"}
  BY <1>1, <1>2, StepNames DEF StepOf, RequestSteps
<1>6. Only(p) /\ pc'[p] = t /\ op'[p] = op[p]
  BY <1>3, <1>4, <1>5, GotoMoves
<1> QED BY <1>1, <1>6 DEF t

(* Such a step neither takes nor gives back the block. *)
LEMMA GoAdvances ==
  ASSUME Shaped, NEW p \in Procs, pc[p] \in ProcNames \ {"block", "releaseBlock"}, Go(p),
         op' = op, UNCHANGED <<active, child, blockNew>>,
         pc[p] = "quiesce" => active = NoRun
  PROVE  Advances(p)
<1>1. /\ Only(p) /\ pc'[p] = Flow[op[p]][pc[p]] /\ op'[p] = op[p]
      /\ FlowFact(op[p], pc[p])
  BY GoMoves
<1>2. HeldStep(op'[p], pc'[p]) <=> HeldStep(op[p], pc[p])
  BY <1>1 DEF FlowFact
<1> QED BY <1>1, <1>2 DEF Advances

(* The steps the procedures share. *)
LEMMA ProcThread ==
  ASSUME Shaped, NEW p \in Procs, ProcStep(p)
  PROVE  Advances(p) \/ Takes(p) \/ Releases(p)
<1>1. CASE \/ CancelPendingStep(p) \/ RevokeAllStep(p) \/ CancelRunStep(p) \/ Quiesce(p)
           \/ LockVault(p) \/ ReleaseLocal(p) \/ (Reset(p) /\ Go(p))
  BY <1>1, GoAdvances DEF CancelPendingStep, RevokeAllStep, CancelRunStep, Quiesce, LockVault,
       ReleaseLocal, Reset, At, ProcNames, ProcFrame, runVars
<1>2. CASE Reset(p) /\ ~ Go(p)
  <2>1. /\ p \in Workers /\ Goto(p, "releaseBlock") /\ op' = op /\ pc[p] = "reset"
        /\ UNCHANGED <<active, child, blockNew>>
    BY <1>2 DEF Reset, At, ProcFrame, runVars
  <2>2. op[p] = "rpcLock"
    BY <2>1, ProcAt DEF Shaped, ProcNames
  <2>3. Placed(p, op[p], "releaseBlock")
    BY <2>1, <2>2 DEF Placed, Flow
  <2>4. Only(p) /\ pc'[p] = "releaseBlock" /\ op'[p] = op[p]
    BY <2>1, <2>3, GotoMoves DEF RequestSteps, RunSteps, ListSteps
  <2> QED BY <2>1, <2>4 DEF Advances, HeldStep
<1>3. CASE Block(p)
  <2> DEFINE o == op[p]
  <2>1. /\ pc[p] = "block" /\ ~ blockNew /\ blockNew' = TRUE /\ op' = op
        /\ UNCHANGED <<active, child>>
    BY <1>3 DEF Block, At, ProcFrame
  <2>2. /\ o \in FlowOps /\ "block" \in DOMAIN Flow[o]
        /\ FlowFact(o, "block")
        /\ p \in Workers => o = "rpcLock"
        /\ p = Gui => o \in GuiOps
        /\ p = Locker => o \in LockerOps
    BY <2>1, ProcAt DEF Shaped, ProcNames
  <2>3. /\ "quiesce" \in DOMAIN Flow[o] /\ FlowFact(o, "quiesce")
    BY <2>2, FlowFacts DEF FlowFact
  <2>4. /\ Flow[o].quiesce = "idle" \/ StepOf(o, Flow[o].quiesce)
        /\ HeldStep(o, Flow[o].quiesce)
        /\ o = "rpcLock" => Flow[o].quiesce # "idle"
    BY <2>3 DEF FlowFact, HeldStep
  <2> HIDE DEF o
  <2>5. CASE Concerns(p)
    <3>1. Goto(p, "quiesce")
      BY <1>3, <2>5 DEF Block
    <3>2. Placed(p, o, "quiesce")
      BY <2>2, <2>3 DEF Placed, StepOf, Procs
    <3>3. Only(p) /\ pc'[p] = "quiesce" /\ op'[p] = o
      BY <2>1, <3>1, <3>2, GotoMoves DEF o, RequestSteps, RunSteps, ListSteps
    <3> QED BY <2>1, <3>3 DEF Takes, HeldStep
  <2>6. CASE ~ Concerns(p)
    <3>1. Goto(p, Flow[o].quiesce)
      BY <1>3, <2>6 DEF Block, o
    <3>2. Placed(p, o, Flow[o].quiesce)
      BY <2>2, <2>4 DEF Placed, StepOf, Procs, LockerOps
    <3>3. p \in Workers => /\ pc[p] \notin RequestSteps
                            /\ Flow[o].quiesce \notin RequestSteps \ {"hasUnattended"}
      BY <2>1, <2>2, <2>4, StepNames DEF StepOf, RequestSteps, RunSteps, ListSteps
    <3>4. Only(p) /\ pc'[p] = Flow[o].quiesce /\ op'[p] = o
      BY <2>1, <3>1, <3>2, <3>3, GotoMoves DEF o
    <3>5. active = NoRun \/ o \in {"pair", "client"}
      BY <2>6 DEF Concerns, o
    <3> QED BY <2>1, <2>4, <3>4, <3>5 DEF Takes
  <2> QED BY <2>5, <2>6
<1>4. CASE ReleaseBlock(p)
  <2>1. /\ pc[p] = "releaseBlock" /\ blockNew' = FALSE /\ Go(p)
        /\ UNCHANGED <<active, child>>
        /\ op' = IF p \in Workers THEN [op EXCEPT ![p] = "none"] ELSE op
    BY <1>4 DEF ReleaseBlock, At
  <2>2. HeldStep(op[p], pc[p])
    BY <2>1 DEF HeldStep
  <2>3. CASE p \in Workers
    <3>1. op[p] = "rpcLock"
      BY <2>1, <2>3, ProcAt DEF Shaped, ProcNames
    <3>2. Goto(p, "idle")
      BY <2>1, <3>1 DEF Go, Flow
    <3>3. Placed(p, "none", "idle")
      BY <2>3 DEF Placed
    <3>4. Only(p) /\ pc'[p] = "idle" /\ op'[p] = "none"
      BY <2>1, <2>3, <3>2, <3>3, GotoMoves DEF RequestSteps, RunSteps, ListSteps
    <3> QED BY <2>1, <2>2, <3>4 DEF Releases, HeldStep
  <2>4. CASE p \notin Workers
    <3>1. /\ Only(p) /\ pc'[p] = Flow[op[p]][pc[p]] /\ op'[p] = op[p]
          /\ FlowFact(op[p], pc[p])
      BY <2>1, <2>4, GoMoves DEF ProcNames
    <3>2. ~ HeldStep(op'[p], pc'[p])
      BY <2>1, <3>1 DEF FlowFact
    <3> QED BY <2>1, <2>2, <3>1, <3>2 DEF Releases
  <2> QED BY <2>3, <2>4
<1> QED BY <1>1, <1>2, <1>3, <1>4 DEF ProcStep

(* The steps of an RPC lock that wait for the window, and the requests. *)
LEMMA RequestThread ==
  ASSUME Shaped, NEW w \in Workers,
         RequestStep(w) \/ StartLock(w) \/ Hangup(w)
           \/ \E c \in Clients, S \in Bindings : StartRun(w, c, S)
  PROVE  Advances(w) \/ Still
<1>1. w \in Procs
  BY DEF Procs
<1>2. CASE RequestStep(w)
  BY <1>1, <1>2, GoAdvances DEF RequestStep, BeginRequest, FinishRequest, AwaitAck, At,
       ProcNames, ProcFrame, runVars
<1>3. CASE StartLock(w)
  <2>1. /\ pc[w] = "idle" /\ Goto(w, "beginRequest") /\ op' = [op EXCEPT ![w] = "rpcLock"]
        /\ UNCHANGED <<active, child, blockNew>>
    BY <1>3 DEF StartLock, At, runVars
  <2>2. Placed(w, "rpcLock", "beginRequest")
    BY DEF Placed, Flow
  <2>3. Only(w) /\ pc'[w] = "beginRequest" /\ op'[w] = "rpcLock"
    BY <1>1, <2>1, <2>2, GotoMoves DEF RequestSteps, RunSteps, ListSteps
  <2> QED BY <2>1, <2>3 DEF Advances, HeldStep
<1>4. CASE \E c \in Clients, S \in Bindings : StartRun(w, c, S)
  <2>1. /\ pc[w] = "idle" /\ Goto(w, "hasUnattended") /\ op' = [op EXCEPT ![w] = "run"]
        /\ UNCHANGED <<active, child, blockNew>>
    BY <1>4 DEF StartRun, At, runVars
  <2>2. Placed(w, "run", "hasUnattended")
    BY DEF Placed, RunSteps
  <2>3. Only(w) /\ pc'[w] = "hasUnattended" /\ op'[w] = "run"
    BY <1>1, <2>1, <2>2, GotoMoves DEF RequestSteps, RunSteps, ListSteps
  <2> QED BY <2>1, <2>3 DEF Advances, HeldStep
<1>5. CASE Hangup(w)
  BY <1>5 DEF Hangup, Still, runVars
<1> QED BY <1>2, <1>3, <1>4, <1>5

(* A step of the window that ends a procedure, starts one or goes to a     *)
(* step without the block.                                                 *)
LEMMA GuiJumps ==
  ASSUME Shaped, NEW t, NEW o, Goto(Gui, t), Placed(Gui, o, t),
         op' = [op EXCEPT ![Gui] = o] \/ (op' = op /\ o = op[Gui]),
         ~ HeldStep(op[Gui], pc[Gui]), ~ HeldStep(o, t),
         UNCHANGED <<active, child, blockNew>>
  PROVE  Advances(Gui)
<1>1. Gui \in Procs
  BY DEF Procs
<1>2. Only(Gui) /\ pc'[Gui] = t /\ op'[Gui] = o
  BY <1>1, GotoMoves, ProcessAssumption
<1>3. pc[Gui] # "quiesce"
  BY DEF HeldStep
<1> QED BY <1>2, <1>3 DEF Advances

(* Where the window may start or stop. *)
LEMMA GuiPlaces ==
  /\ \A o : Placed(Gui, o, "idle") /\ ~ HeldStep(o, "idle")
  /\ \A o \in {"lock", "exit", "revoke", "sync"} :
       Placed(Gui, o, "cancelFirst") /\ ~ HeldStep(o, "cancelFirst")
  /\ \A o \in {"pair", "client", "appLock", "autoLock"} :
       Placed(Gui, o, "tryLocal") /\ ~ HeldStep(o, "tryLocal")
  /\ \A o \in {"lock", "exit", "sync"} : Placed(Gui, o, "clear") /\ ~ HeldStep(o, "clear")
  /\ \A o \in {"appLock", "autoLock"} : Placed(Gui, o, "spawn") /\ ~ HeldStep(o, "spawn")
  /\ Placed(Gui, "idleLock", "idleVault") /\ Placed(Gui, "idleLock", "releaseIdle")
  /\ Placed(Gui, "drop", "stop") /\ ~ HeldStep("drop", "stop")
BY DEF Placed, HeldStep, GuiOps, StepOf, Flow, LockFlow, RevokeFlow, TargetFlow

(* The window's own steps of a procedure. *)
LEMMA GuiThread ==
  ASSUME Shaped, GuiProc
  PROVE  Advances(Gui) \/ Releases(Gui)
<1>0. Gui \in Procs
  BY DEF Procs
<1>1. CASE \/ CancelUnlock \/ RevokeTarget \/ Covers \/ Clear \/ StopServing \/ CloseSessions \/ Join
           \/ (TryLocal /\ Go(Gui) /\ op' = op) \/ (WaitLocal /\ Go(Gui))
           \/ (BeginLock /\ Go(Gui) /\ op' = op) \/ (Snapshot /\ Go(Gui))
           \/ (IdleVault /\ Go(Gui))
  BY <1>0, <1>1, GoAdvances DEF CancelUnlock, RevokeTarget, Covers, Clear, StopServing,
       CloseSessions, Join, TryLocal, WaitLocal, BeginLock, Snapshot, IdleVault, At, ProcNames,
       ProcFrame, GuiFrame, runVars
<1>2. CASE TryLocal /\ ~ (Go(Gui) /\ op' = op)
  <2>1. /\ pc[Gui] = "tryLocal" /\ UNCHANGED <<active, child, blockNew>>
        /\ \/ Start("lock", "cancelFirst")
           \/ Goto(Gui, "idle") /\ op' = op
    BY <1>2 DEF TryLocal, At, runVars
  <2>2. ~ HeldStep(op[Gui], pc[Gui])
    BY <2>1 DEF HeldStep
  <2> QED BY <2>1, <2>2, GuiJumps, GuiPlaces DEF Start
<1>3. CASE WaitLocal /\ ~ Go(Gui)
  <2>1. /\ pc[Gui] = "waitLocal" /\ UNCHANGED <<active, child, blockNew, op>>
        /\ Goto(Gui, IF op[Gui] = "revoke" THEN "idle" ELSE "clear")
    BY <1>3 DEF WaitLocal, At, ProcFrame, runVars
  <2>2. ~ HeldStep(op[Gui], pc[Gui])
    BY <2>1 DEF HeldStep
  <2>3. op[Gui] \in {"lock", "exit", "revoke", "sync"}
    <3>1. op[Gui] \in GuiOps /\ "waitLocal" \in DOMAIN Flow[op[Gui]]
      BY <1>0, <2>1, ProcAt DEF Shaped, ProcNames
    <3> QED BY <3>1 DEF GuiOps, Flow, LockFlow, RevokeFlow, TargetFlow
  <2> QED BY <2>1, <2>2, <2>3, GuiJumps, GuiPlaces
<1>4. CASE BeginLock /\ ~ (Go(Gui) /\ op' = op)
  <2>1. /\ pc[Gui] = "beginLock" /\ UNCHANGED <<active, child, blockNew>>
        /\ Start("lock", "cancelFirst")
    BY <1>4 DEF BeginLock, At, runVars
  <2>2. ~ HeldStep(op[Gui], pc[Gui])
    BY <2>1 DEF HeldStep
  <2> QED BY <2>1, <2>2, GuiJumps, GuiPlaces DEF Start
<1>5. CASE Snapshot /\ ~ Go(Gui)
  <2>1. /\ pc[Gui] = "snapshot" /\ UNCHANGED <<active, child, blockNew, op>>
        /\ Goto(Gui, "spawn")
    BY <1>5 DEF Snapshot, At, GuiFrame, runVars
  <2>2. ~ HeldStep(op[Gui], pc[Gui])
    BY <2>1 DEF HeldStep
  <2>3. op[Gui] = "autoLock"
    <3>1. op[Gui] \in GuiOps /\ "snapshot" \in DOMAIN Flow[op[Gui]]
      BY <1>0, <2>1, ProcAt DEF Shaped, ProcNames
    <3> QED BY <3>1 DEF GuiOps, Flow, LockFlow, RevokeFlow, TargetFlow
  <2> QED BY <2>1, <2>2, <2>3, GuiJumps, GuiPlaces
<1>6. CASE IdleVault /\ ~ Go(Gui)
  <2>1. /\ pc[Gui] = "idleVault" /\ UNCHANGED <<active, child, blockNew, op>>
        /\ Goto(Gui, "releaseIdle")
    BY <1>6 DEF IdleVault, At, ProcFrame, runVars
  <2>2. op[Gui] = "idleLock"
    <3>1. FlowFact(op[Gui], "idleVault")
      BY <1>0, <2>1, ProcAt DEF Shaped, ProcNames
    <3> QED BY <3>1 DEF FlowFact
  <2>3. Only(Gui) /\ pc'[Gui] = "releaseIdle" /\ op'[Gui] = op[Gui]
    BY <1>0, <2>1, <2>2, GotoMoves, GuiPlaces, ProcessAssumption
  <2> QED BY <2>1, <2>3 DEF Advances, HeldStep
<1>7. CASE ReleaseIdle
  <2>1. /\ pc[Gui] = "releaseIdle" /\ UNCHANGED <<active, child, op>> /\ blockNew' = FALSE
        /\ Goto(Gui, "idle")
    BY <1>7 DEF ReleaseIdle, At, ProcFrame
  <2>2. Only(Gui) /\ pc'[Gui] = "idle" /\ op'[Gui] = op[Gui]
    BY <1>0, <2>1, GotoMoves, GuiPlaces, ProcessAssumption
  <2> QED BY <2>1, <2>2, GuiPlaces DEF Releases, HeldStep
<1>8. CASE DisconnectUi
  <2>1. /\ pc[Gui] = "disconnect" /\ UNCHANGED <<active, child, blockNew>>
        /\ Goto(Gui, "stop") /\ op' = [op EXCEPT ![Gui] = "drop"]
    BY <1>8 DEF DisconnectUi, At, runVars, Flow
  <2>2. ~ HeldStep(op[Gui], pc[Gui])
    BY <2>1 DEF HeldStep
  <2> QED BY <2>1, <2>2, GuiJumps, GuiPlaces
<1> QED BY <1>1, <1>2, <1>3, <1>4, <1>5, <1>6, <1>7, <1>8 DEF GuiProc

(* What starts in the window. *)
LEMMA WindowThread ==
  ASSUME Shaped, FrameStep \/ UserBegins
  PROVE  Advances(Gui) \/ Takes(Gui) \/ Still
<1>1. CASE ~ IdleLock
  <2>1. /\ UNCHANGED <<active, child, blockNew>> /\ pc[Gui] = "idle"
        /\ \/ UNCHANGED <<pc, op>>
           \/ \E o \in {"lock", "exit", "revoke", "sync"} : Start(o, "cancelFirst")
           \/ \E o \in {"pair", "client", "appLock", "autoLock"} : Start(o, "tryLocal")
    BY <1>1 DEF FrameStep, UserBegins, ProcessExternalLock, SynchronizePhase, AppLockResult,
         HardLock, LockApp, AutoLock, RevokeAllGrants, Exit, RevokeSession, RevokeGrant,
         UserStarts, WindowActive, At, GuiFrame, runVars
  <2>2. ~ HeldStep(op[Gui], pc[Gui])
    BY <2>1 DEF HeldStep
  <2> QED BY <2>1, <2>2, GuiJumps, GuiPlaces DEF Start, Still
<1>2. CASE IdleLock
  <2>1. /\ ~ blockNew /\ active = NoRun /\ blockNew' = TRUE
        /\ UNCHANGED <<active, child>> /\ Gui \in Procs
        /\ Goto(Gui, "idleVault") /\ op' = [op EXCEPT ![Gui] = "idleLock"]
    BY <1>2 DEF IdleLock, UserStarts, Start, Procs
  <2>2. Only(Gui) /\ pc'[Gui] = "idleVault" /\ op'[Gui] = "idleLock"
    BY <2>1, GotoMoves, GuiPlaces, ProcessAssumption
  <2> QED BY <2>1, <2>2 DEF Takes, HeldStep
<1> QED BY <1>1, <1>2

(* Every step moves threads in one of these ways. *)
LEMMA NextThread ==
  ASSUME Shaped, Next
  PROVE  ThreadStep
<1>1. Gui \in Procs /\ Locker \in Procs /\ \A w \in Workers : w \in Procs
  BY DEF Procs
<1>2. CASE Drain \/ FinishLock
  <2>1. Advances(Locker)
    BY <1>1, <1>2, GoAdvances DEF Drain, FinishLock, At, ProcNames, ProcFrame, runVars
  <2> QED BY <1>1, <2>1 DEF ThreadStep
<1>3. CASE UserAnswers \/ ListenerCancel \/ Peers
  BY <1>3 DEF ThreadStep, Still, UserAnswers, ListenerCancel, Peers, UnlockDesk, UnlockVault,
       ResolveUnlock, Decide, CaptureAccess, GrantAccess, MutateSecret, SessionOpen, SessionEnd,
       SessionFrame, AnswerFrame, ProcFrame, runVars
<1> QED BY <1>1, <1>2, <1>3, NextCases, RunStepMoves, ProcThread, RequestThread, GuiThread,
           WindowThread DEF ThreadStep

-----------------------------------------------------------------------------
(* What becomes of the requests.                                           *)

(* The same request, perhaps cancelled, perhaps with a lock's number. *)
SameCall(r, q) ==
  /\ q.client = r.client /\ q.secrets = r.secrets /\ q.serial = r.serial
  /\ q.vault = r.vault /\ q.id = r.id /\ q.epoch = r.epoch
  /\ r.cancelled => q.cancelled

(* A run begins, a lock ends, or the request goes on. *)
CallStep(w) ==
  \/ RunMove(w)
  \/ SameCall(call[w], call'[w])
  \/ /\ pc[w] = "idle" /\ op'[w] = "run" /\ pc'[w] = "hasUnattended"
     /\ call'[w].client \in Clients /\ call'[w].epoch = 0
  \/ pc[w] = "releaseBlock" /\ op'[w] = "none" /\ call'[w] = NoRequest

(* Cancelled tokens. *)
LEMMA TokensCancelled ==
  ASSUME call \in [Workers -> CallRec], NEW W, CancelTokens(W)
  PROVE  /\ call' \in [Workers -> CallRec]
         /\ \A w \in Workers :
              /\ SameCall(call[w], call'[w])
              /\ call'[w].cancelled <=> call[w].cancelled \/ w \in W
              /\ w \notin W => call'[w] = call[w]
<1>1. ASSUME NEW w \in Workers
      PROVE  /\ call'[w] \in CallRec /\ SameCall(call[w], call'[w])
             /\ call'[w].cancelled <=> call[w].cancelled \/ w \in W
             /\ w \notin W => call'[w] = call[w]
  <2>1. /\ call[w] \in CallRec
        /\ call'[w] = IF w \in W THEN [call[w] EXCEPT !.cancelled = TRUE] ELSE call[w]
    BY DEF CancelTokens
  <2> DEFINE r == call[w]
             q == call'[w]
  <2> HIDE DEF r, q
  <2>2. /\ q \in CallRec /\ SameCall(r, q)
        /\ q.cancelled <=> r.cancelled \/ w \in W
        /\ w \notin W => q = r
    BY <2>1 DEF r, q, CallRec, SameCall
  <2> QED BY <2>2 DEF r, q
<1>2. call' = [w \in Workers |-> call'[w]]
  BY DEF CancelTokens
<1> QED BY <1>1, <1>2

(* A request that is not touched. *)
LEMMA CallSame ==
  ASSUME NEW r
  PROVE  SameCall(r, r)
BY DEF SameCall

(* Every step does one of these to every request. *)
LEMMA NextCalls ==
  ASSUME Shaped, Next, NEW w
  PROVE  call' \in [Workers -> CallRec] /\ (w \in Workers => CallStep(w))
<1> USE CallSame
<1>0. call \in [Workers -> CallRec]
  BY DEF Shaped, ThreadsOK
<1>1. ASSUME NEW v \in Workers, RunStep(v) \/ Timeout(v) \/ ChildExits(v)
      PROVE  call' \in [Workers -> CallRec] /\ (w \in Workers => CallStep(w))
  <2>1. RunMove(v)
    BY <1>1, RunStepMoves
  <2>2. call' = [call EXCEPT ![v] = call'[v]] /\ call'[v] \in CallRec
    BY <2>1 DEF RunMove, RunEffect, RunCalls
  <2>3. call' \in [Workers -> CallRec] /\ (w \in Workers \ {v} => call'[w] = call[w])
    BY <1>0, <2>2
  <2> QED BY <2>1, <2>3 DEF CallStep
<1>2. CASE \E W : CancelTokens(W)
  BY <1>0, <1>2, TokensCancelled DEF CallStep
<1>3. CASE UNCHANGED call
  BY <1>0, <1>3 DEF CallStep
<1>4. ASSUME NEW v \in Workers, BeginRequest(v)
      PROVE  call' \in [Workers -> CallRec] /\ (w \in Workers => CallStep(w))
  <2>1. CASE ~ ui.connected
    BY <1>3, <1>4, <2>1 DEF BeginRequest
  <2>2. CASE ui.connected
    <3> DEFINE r == call[v]
               q == call'[v]
    <3>1. /\ call' = [call EXCEPT ![v].request = ui.requested + 1] /\ ui.requested + 1 \in Nat
      BY <1>4, <2>2 DEF BeginRequest, Shaped, SharedOK, UiRec
    <3>2. /\ r \in CallRec /\ q = [r EXCEPT !.request = ui.requested + 1]
          /\ call' = [call EXCEPT ![v] = q]
      BY <1>0, <3>1
    <3> HIDE DEF r, q
    <3>3. q \in CallRec /\ SameCall(r, q)
      BY <3>1, <3>2 DEF CallRec, SameCall
    <3>4. call' \in [Workers -> CallRec] /\ (w # v => call'[w] = call[w])
      BY <1>0, <3>2, <3>3
    <3> QED BY <3>3, <3>4 DEF r, q, CallStep
  <2> QED BY <2>1, <2>2
<1>5. ASSUME NEW p \in Procs, ReleaseBlock(p)
      PROVE  call' \in [Workers -> CallRec] /\ (w \in Workers => CallStep(w))
  <2>1. CASE p \notin Workers
    BY <1>3, <1>5, <2>1 DEF ReleaseBlock
  <2>2. CASE p \in Workers
    <3>1. /\ call' = [call EXCEPT ![p] = NoRequest] /\ op' = [op EXCEPT ![p] = "none"]
          /\ pc[p] = "releaseBlock" /\ OnAll(op, Procs)
      BY <1>5, <2>2 DEF ReleaseBlock, At, Shaped, ThreadsOK
    <3>2. op'[p] = "none"
      BY <3>1 DEF OnAll
    <3>3. call' \in [Workers -> CallRec] /\ (w # p => call'[w] = call[w]) /\ call'[p] = NoRequest
      BY <1>0, <2>2, <3>1, CallFields
    <3> QED BY <3>1, <3>2, <3>3 DEF CallStep
  <2> QED BY <2>1, <2>2
<1>6. ASSUME NEW v \in Workers, NEW c \in Clients, NEW S \in Bindings, StartRun(v, c, S)
      PROVE  call' \in [Workers -> CallRec] /\ (w \in Workers => CallStep(w))
  <2> DEFINE q == [NoRequest EXCEPT !.client = c, !.secrets = S, !.serial = count.runs + 1]
  <2>1. q \in CallRec /\ q.client = c /\ q.epoch = 0
    <3>1. S \subseteq Secrets /\ count.runs + 1 \in Nat
      BY ProcessAssumption DEF Shaped, SharedOK, CountRec
    <3> QED BY <3>1 DEF NoRequest, CallRec
  <2>2. /\ call' = [call EXCEPT ![v] = q] /\ op' = [op EXCEPT ![v] = "run"] /\ pc[v] = "idle"
        /\ pc' = [pc EXCEPT ![v] = "hasUnattended"] /\ OnAll(op, Procs) /\ OnAll(pc, Procs)
        /\ v \in Procs
    BY <1>6 DEF StartRun, At, Goto, Shaped, ThreadsOK, Procs
  <2>3. op'[v] = "run" /\ pc'[v] = "hasUnattended"
    BY <2>2 DEF OnAll
  <2> HIDE DEF q
  <2>4. call' \in [Workers -> CallRec] /\ (w # v => call'[w] = call[w]) /\ call'[v] = q
    BY <1>0, <2>1, <2>2
  <2> QED BY <2>1, <2>2, <2>3, <2>4 DEF CallStep
<1>7. CASE \E p \in Procs : ProcStep(p)
  BY <1>7, <1>2, <1>3, <1>5 DEF ProcStep, CancelPendingStep, RevokeAllStep, CancelRunStep,
       Block, Quiesce, LockVault, Reset, ReleaseLocal
<1>8. CASE \E v \in Workers : RequestStep(v) \/ StartLock(v) \/ Hangup(v)
  BY <1>8, <1>2, <1>3, <1>4 DEF RequestStep, FinishRequest, AwaitAck, StartLock, Hangup
<1>9. CASE Drain \/ FinishLock \/ GuiProc \/ Spawn \/ ListenerCancel
  BY <1>9, <1>2, <1>3 DEF Drain, FinishLock, GuiProc, Spawn, ListenerCancel, TryLocal,
       WaitLocal, CancelUnlock, RevokeTarget, BeginLock, Snapshot, Covers, IdleVault,
       ReleaseIdle, Clear, DisconnectUi, StopServing, CloseSessions, Join, GuiFrame
<1>10. CASE FrameStep \/ UserBegins \/ UserAnswers \/ Peers
  BY <1>10, <1>3 DEF FrameStep, UserBegins, UserAnswers, Peers, ProcessExternalLock,
       SynchronizePhase, AppLockResult, HardLock, LockApp, AutoLock, IdleLock, RevokeAllGrants,
       Exit, RevokeSession, RevokeGrant, UnlockDesk, UnlockVault, ResolveUnlock, Decide,
       CaptureAccess, GrantAccess, MutateSecret, SessionOpen, SessionEnd, SessionFrame,
       AnswerFrame, GuiFrame
<1> QED BY <1>1, <1>6, <1>7, <1>8, <1>9, <1>10, NextCases

-----------------------------------------------------------------------------
(* What becomes of the vault, the window's coordinator and the flag.       *)

VaultStep ==
  \/ UNCHANGED <<session, failed>>
  \/ session' = 0 /\ failed' = FALSE /\ \E p \in Procs : pc[p] \in {"lockVault", "idleVault"}
  \/ session' \in Nat \ {0} /\ failed' = FALSE
  \/ session' = 0 /\ failed' = TRUE

StopStep == stop' = stop \/ (stop' = TRUE /\ pc[Gui] = "stop")

(* A procedure, or the user's edit, closes the vault; the user opens it. *)
LEMMA NextVault ==
  ASSUME Shaped, Next
  PROVE  VaultStep /\ StopStep
<1>1. CASE \E w \in Workers : RunStep(w) \/ Timeout(w) \/ ChildExits(w)
  BY <1>1, RunStepMoves DEF RunMove, RunEffect, RunMoves, RunFrame, VaultStep, StopStep, vaultVars
<1>2. CASE \E p \in Procs : ProcStep(p)
  BY <1>2 DEF ProcStep, CancelPendingStep, RevokeAllStep, CancelRunStep, Block, Quiesce,
       LockVault, Reset, ReleaseBlock, ReleaseLocal, At, ProcFrame, vaultVars, VaultStep, StopStep
<1>3. CASE \/ \E w \in Workers : RequestStep(w) \/ StartLock(w) \/ Hangup(w)
           \/ \E w \in Workers, c \in Clients, S \in Bindings : StartRun(w, c, S)
           \/ Drain \/ FinishLock \/ Spawn \/ FrameStep \/ UserBegins \/ ListenerCancel \/ Peers
  BY <1>3 DEF RequestStep, BeginRequest, FinishRequest, AwaitAck, StartLock, Hangup, StartRun,
       Drain, FinishLock, Spawn, FrameStep, UserBegins, ListenerCancel, Peers,
       ProcessExternalLock, SynchronizePhase, AppLockResult, HardLock, LockApp, AutoLock,
       IdleLock, RevokeAllGrants, Exit, RevokeSession, RevokeGrant, SessionOpen, SessionEnd,
       SessionFrame, RunFrame, GuiFrame, ProcFrame, vaultVars, VaultStep, StopStep
<1>4. CASE GuiProc
  BY <1>4 DEF GuiProc, TryLocal, WaitLocal, CancelUnlock, RevokeTarget, BeginLock, Snapshot,
       Covers, IdleVault, ReleaseIdle, Clear, DisconnectUi, StopServing, CloseSessions, Join,
       At, GuiFrame, ProcFrame, vaultVars, VaultStep, StopStep, Procs
<1>5. CASE UserAnswers
  <2>1. count.unlocks \in Nat
    BY DEF Shaped, SharedOK, CountRec
  <2> QED BY <1>5, <2>1 DEF UserAnswers, UnlockDesk, UnlockVault, ResolveUnlock, Decide,
       CaptureAccess, GrantAccess, MutateSecret, AnswerFrame, vaultVars, VaultStep, StopStep
<1> QED BY <1>1, <1>2, <1>3, <1>4, <1>5, NextCases

(* What a step other than a run's does to the prompt, and what any step    *)
(* does to the numbers of the RPC locks.                                   *)
PromptStep ==
  \/ unlock' = unlock
  \/ unlock' = CancelledUnlock
  \/ \E w \in Workers : RunMove(w)
  \/ \E d \in {"allow", "deny"} : unlock' = [unlock EXCEPT !.decision = d]

LockStep ==
  \/ ui'.requested = ui.requested /\ ui'.acknowledged = ui.acknowledged
  \/ ui'.requested = ui.requested /\ ui'.acknowledged = ui.requested
  \/ ui'.requested = ui.requested + 1 /\ unlock' = CancelledUnlock

(* The fields of UiLockState after a step writes some. *)
LEMMA UiFields ==
  ASSUME NEW u \in UiRec
  PROVE  /\ \A b \in BOOLEAN :
              /\ [u EXCEPT !.local = b] \in UiRec
              /\ [u EXCEPT !.local = b].local = b
              /\ [u EXCEPT !.local = b].requested = u.requested
              /\ [u EXCEPT !.local = b].acknowledged = u.acknowledged
         /\ \A n \in Nat :
              /\ [u EXCEPT !.ready = n] \in UiRec
              /\ [u EXCEPT !.ready = n].local = u.local
              /\ [u EXCEPT !.ready = n].requested = u.requested
              /\ [u EXCEPT !.ready = n].acknowledged = u.acknowledged
         /\ \A b \in BOOLEAN :
              /\ [u EXCEPT !.connected = b] \in UiRec
              /\ [u EXCEPT !.connected = b].local = u.local
              /\ [u EXCEPT !.connected = b].requested = u.requested
              /\ [u EXCEPT !.connected = b].acknowledged = u.acknowledged
         /\ \A n \in Nat :
              /\ [u EXCEPT !.requested = n] \in UiRec
              /\ [u EXCEPT !.requested = n].local = u.local
              /\ [u EXCEPT !.requested = n].requested = n
         /\ [u EXCEPT !.acknowledged = u.requested, !.ready = 0] \in UiRec
         /\ [u EXCEPT !.acknowledged = u.requested, !.ready = 0].local = u.local
         /\ [u EXCEPT !.acknowledged = u.requested, !.ready = 0].requested = u.requested
         /\ [u EXCEPT !.acknowledged = u.requested, !.ready = 0].acknowledged = u.requested
BY DEF UiRec

(* The fields of the unlock request after a step writes some. *)
LEMMA UnlockFields ==
  ASSUME NEW u \in UnlockRec, NEW d \in {"none", "allow", "deny", "cancel"}
  PROVE  /\ [u EXCEPT !.decision = d] \in UnlockRec
         /\ \A w \in Workers : [u EXCEPT !.worker = w, !.decision = "none"] \in UnlockRec
         /\ [u EXCEPT !.worker = NoWorker, !.decision = "none"] \in UnlockRec
         /\ [u EXCEPT !.epoch = u.epoch + 1, !.decision = d] \in UnlockRec
         /\ [u EXCEPT !.epoch = u.epoch + 1, !.decision = d].epoch = u.epoch + 1
         /\ [u EXCEPT !.epoch = u.epoch + 1, !.decision = d].worker = u.worker
         /\ [u EXCEPT !.epoch = u.epoch + 1, !.decision = d].decision = d
<1>1. [u EXCEPT !.decision = d] \in UnlockRec
  BY DEF UnlockRec
<1>2. ASSUME NEW w \in Workers
      PROVE  [u EXCEPT !.worker = w, !.decision = "none"] \in UnlockRec
  BY DEF UnlockRec
<1>3. [u EXCEPT !.worker = NoWorker, !.decision = "none"] \in UnlockRec
  BY DEF UnlockRec
<1>4. u.epoch + 1 \in Nat
  BY DEF UnlockRec
<1>5. ASSUME NEW n \in Nat
      PROVE  /\ [u EXCEPT !.epoch = n, !.decision = d] \in UnlockRec
             /\ [u EXCEPT !.epoch = n, !.decision = d].epoch = n
             /\ [u EXCEPT !.epoch = n, !.decision = d].worker = u.worker
             /\ [u EXCEPT !.epoch = n, !.decision = d].decision = d
  BY <1>5 DEF UnlockRec
<1> QED BY <1>1, <1>2, <1>3, <1>4, <1>5

(* UnlockRequests::cancel takes a decision if a worker waits for one. *)
LEMMA Cancelled ==
  ASSUME unlock \in UnlockRec
  PROVE  /\ CancelledUnlock \in UnlockRec
         /\ CancelledUnlock.epoch = unlock.epoch + 1
         /\ CancelledUnlock.worker = unlock.worker
         /\ unlock.worker # NoWorker => CancelledUnlock.decision = "cancel"
<1> DEFINE d == IF unlock.worker = NoWorker THEN "none" ELSE "cancel"
<1>1. d \in {"none", "allow", "deny", "cancel"}
  OBVIOUS
<1>2. CancelledUnlock = [unlock EXCEPT !.epoch = unlock.epoch + 1, !.decision = d]
  BY DEF CancelledUnlock, UnlockRec
<1>3. unlock.worker # NoWorker => d = "cancel"
  OBVIOUS
<1> HIDE DEF d
<1> QED BY <1>1, <1>2, <1>3, UnlockFields

(* Every step leaves the window's coordinator and the prompt well formed. *)
LEMMA NextUi ==
  ASSUME Shaped, Next
  PROVE  ui' \in UiRec /\ unlock' \in UnlockRec /\ PromptStep /\ LockStep
<1>0. ui \in UiRec /\ unlock \in UnlockRec /\ ui.requested + 1 \in Nat
  BY DEF Shaped, SharedOK, UiRec
<1>1. ASSUME NEW w \in Workers, RunStep(w) \/ Timeout(w) \/ ChildExits(w)
      PROVE  ui' \in UiRec /\ unlock' \in UnlockRec /\ PromptStep /\ LockStep
  <2>1. RunMove(w)
    BY <1>1, RunStepMoves
  <2>2. ui' = ui
    BY <2>1 DEF RunMove, RunEffect, RunMoves, RunFrame
  <2>3. \/ unlock' = unlock
        \/ unlock' = [unlock EXCEPT !.worker = w, !.decision = "none"]
        \/ unlock' = CancelledUnlock
        \/ unlock' = [unlock EXCEPT !.worker = NoWorker, !.decision = "none"]
    BY <2>1 DEF RunMove, RunEffect, RunPrompts, NoPrompt
  <2>4. /\ [unlock EXCEPT !.worker = w, !.decision = "none"] \in UnlockRec
        /\ [unlock EXCEPT !.worker = NoWorker, !.decision = "none"] \in UnlockRec
    BY <1>0, UnlockFields
  <2>5. unlock' \in UnlockRec
    BY <1>0, <2>3, <2>4, Cancelled
  <2> QED BY <1>0, <2>1, <2>2, <2>5 DEF PromptStep, LockStep
<1>2. CASE UNCHANGED ui /\ UNCHANGED unlock
  BY <1>0, <1>2 DEF PromptStep, LockStep
<1>3. CASE (\E b \in BOOLEAN : ui' = [ui EXCEPT !.local = b]) /\ UNCHANGED unlock
  <2>1. PICK b \in BOOLEAN : ui' = [ui EXCEPT !.local = b]
    BY <1>3
  <2>2. ui' \in UiRec /\ ui'.requested = ui.requested /\ ui'.acknowledged = ui.acknowledged
    BY <1>0, <2>1 DEF UiRec
  <2> QED BY <1>0, <1>3, <2>2 DEF PromptStep, LockStep
<1>4. CASE UNCHANGED ui /\ unlock' = CancelledUnlock
  BY <1>0, <1>4, Cancelled DEF PromptStep, LockStep
<1>5. CASE \E p \in Procs : ProcStep(p)
  BY <1>2, <1>3, <1>5 DEF ProcStep, CancelPendingStep, RevokeAllStep, CancelRunStep, Block,
       Quiesce, LockVault, Reset, ReleaseBlock, ReleaseLocal, uiVars
<1>6. ASSUME NEW w \in Workers, RequestStep(w)
      PROVE  ui' \in UiRec /\ unlock' \in UnlockRec /\ PromptStep /\ LockStep
  <2>1. CASE BeginRequest(w) /\ ui.connected
    <3>1. ui' = [ui EXCEPT !.requested = ui.requested + 1] /\ unlock' = CancelledUnlock
      BY <1>0, <2>1 DEF BeginRequest, UiRec
    <3> QED BY <1>0, <3>1, UiFields, Cancelled DEF PromptStep, LockStep
  <2>2. CASE FinishRequest(w)
    <3>1. ui' = [ui EXCEPT !.ready = call[w].request] /\ unlock' = unlock
          /\ call[w].request \in Nat
      BY <2>2 DEF FinishRequest, Shaped, ThreadsOK, CallRec
    <3> QED BY <1>0, <3>1, UiFields DEF PromptStep, LockStep
  <2> QED BY <1>2, <1>6, <2>1, <2>2 DEF RequestStep, BeginRequest, AwaitAck, uiVars
<1>7. CASE GuiProc /\ ~ DisconnectUi
  BY <1>2, <1>3, <1>4, <1>7 DEF GuiProc, TryLocal, WaitLocal, CancelUnlock, RevokeTarget,
       BeginLock, Snapshot, Covers, IdleVault, ReleaseIdle, Clear, StopServing, CloseSessions,
       Join, GuiFrame, uiVars
<1>8. CASE DisconnectUi
  BY <1>0, <1>8, UiFields, Cancelled DEF DisconnectUi, PromptStep, LockStep
<1>9. CASE \/ \E w \in Workers : StartLock(w) \/ Hangup(w)
           \/ \E w \in Workers, c \in Clients, S \in Bindings : StartRun(w, c, S)
           \/ Drain \/ FinishLock \/ Spawn \/ SynchronizePhase \/ AppLockResult
           \/ UserBegins \/ ListenerCancel \/ Peers
  BY <1>2, <1>9 DEF StartLock, Hangup, StartRun,
       Drain, FinishLock, Spawn, UserBegins, ListenerCancel, Peers,
       SynchronizePhase, AppLockResult, HardLock, LockApp, AutoLock,
       IdleLock, RevokeAllGrants, Exit, RevokeSession, RevokeGrant, SessionOpen, SessionEnd,
       SessionFrame, RunFrame, GuiFrame, uiVars
<1>10. CASE ProcessExternalLock
  BY <1>0, <1>10, UiFields DEF ProcessExternalLock, PromptStep, LockStep
<1>11. CASE \E allow \in BOOLEAN : ResolveUnlock(allow)
  BY <1>0, <1>11, UnlockFields DEF ResolveUnlock, PromptStep, LockStep
<1>12. CASE UserAnswers /\ ~ \E allow \in BOOLEAN : ResolveUnlock(allow)
  BY <1>2, <1>12 DEF UserAnswers, UnlockDesk, UnlockVault, Decide,
       CaptureAccess, GrantAccess, MutateSecret, AnswerFrame, uiVars
<1> QED BY <1>1, <1>5, <1>6, <1>7, <1>8, <1>9, <1>10, <1>11, <1>12, NextCases DEF FrameStep

(* The fields of the window's state after a step writes some. *)
LEMMA DeskFields ==
  ASSUME NEW u \in DeskRec, NEW n \in Nat, NEW b \in BOOLEAN,
         NEW f \in {"active", "locking", "locked"}
  PROVE  /\ [u EXCEPT !.epoch = n] \in DeskRec
         /\ [u EXCEPT !.ok = b] \in DeskRec
         /\ [u EXCEPT !.phase = f] \in DeskRec
         /\ [u EXCEPT !.phase = f, !.waiting = b] \in DeskRec
         /\ [u EXCEPT !.waiting = b, !.phase = f] \in DeskRec
BY DEF DeskRec

(* The window's own state. *)
LEMMA NextDesk ==
  ASSUME Shaped, Next
  PROVE  desk' \in DeskRec /\ lastPhase' \in BOOLEAN
<1>0. /\ desk \in DeskRec /\ lastPhase \in BOOLEAN /\ lockEpoch + 1 \in Nat
      /\ desk.phase \in {"active", "locking", "locked"}
  BY DEF Shaped, SharedOK, CoreTypeOK, DeskRec
<1>1. CASE UNCHANGED <<desk, lastPhase>>
  BY <1>0, <1>1
<1>2. CASE \E w \in Workers : RunStep(w) \/ Timeout(w) \/ ChildExits(w)
  BY <1>1, <1>2, RunStepMoves DEF RunMove, RunEffect, RunMoves, RunFrame, windowVars
<1>3. CASE \E p \in Procs : ProcStep(p)
  BY <1>1, <1>3 DEF ProcStep, CancelPendingStep, RevokeAllStep, CancelRunStep, Block, Quiesce,
       LockVault, Reset, ReleaseBlock, ReleaseLocal, ProcFrame, windowVars
<1>4. CASE \/ \E w \in Workers : RequestStep(w) \/ StartLock(w) \/ Hangup(w)
           \/ \E w \in Workers, c \in Clients, S \in Bindings : StartRun(w, c, S)
           \/ Drain \/ UserBegins \/ ListenerCancel \/ Peers
  BY <1>1, <1>4 DEF RequestStep, BeginRequest, FinishRequest, AwaitAck, StartLock, Hangup,
       StartRun, Drain, UserBegins, ListenerCancel, Peers, HardLock, LockApp, AutoLock,
       IdleLock, RevokeAllGrants, Exit, RevokeSession, RevokeGrant, SessionOpen, SessionEnd,
       SessionFrame, RunFrame, ProcFrame, windowVars
<1>5. CASE GuiProc /\ ~ BeginLock /\ ~ Clear
  BY <1>1, <1>5 DEF GuiProc, TryLocal, WaitLocal, CancelUnlock, RevokeTarget,
       Snapshot, Covers, IdleVault, ReleaseIdle, DisconnectUi, StopServing, CloseSessions,
       Join, ProcFrame, windowVars
<1>6. CASE FinishLock \/ BeginLock \/ Clear \/ Spawn
  BY <1>0, <1>6, DeskFields DEF FinishLock, BeginLock, Clear, Spawn, ClearedDesk
<1>7. CASE FrameStep
  BY <1>0, <1>7, DeskFields DEF FrameStep, ProcessExternalLock, SynchronizePhase, AppLockResult,
       ClearedDesk
<1>8. CASE UserAnswers
  BY <1>0, <1>8, DeskFields DEF UserAnswers, UnlockDesk, UnlockVault, ResolveUnlock, Decide,
       CaptureAccess, GrantAccess, MutateSecret, AnswerFrame, windowVars
<1> QED BY <1>2, <1>3, <1>4, <1>5, <1>6, <1>7, <1>8, NextCases

(* The fields of the counters after a step writes one. *)
LEMMA CountFields ==
  ASSUME NEW u \in CountRec
  PROVE  /\ [u EXCEPT !.runs = @ + 1] \in CountRec
         /\ [u EXCEPT !.locks = @ + 1] \in CountRec
         /\ [u EXCEPT !.ops = @ + 1] \in CountRec
         /\ [u EXCEPT !.unlocks = @ + 1] \in CountRec
BY DEF CountRec

(* The histories and the counters. *)
LEMMA NextHistory ==
  ASSUME Shaped, Next
  PROVE  lost' \subseteq Pairs /\ forbidden' \subseteq Pairs /\ count' \in CountRec
<1>0. lost \subseteq Pairs /\ forbidden \subseteq Pairs /\ count \in CountRec
  BY DEF Shaped, SharedOK
<1>1. CASE \E w \in Workers : RunStep(w) \/ Timeout(w) \/ ChildExits(w)
  BY <1>0, <1>1, RunStepMoves DEF RunMove, RunEffect, RunMoves, RunFrame
<1>2. CASE \E p \in Procs : ProcStep(p)
  BY <1>0, <1>2 DEF ProcStep, CancelPendingStep, RevokeAllStep, CancelRunStep, Block, Quiesce,
       LockVault, Reset, ReleaseBlock, ReleaseLocal, ProcFrame
<1>3. CASE \/ \E w \in Workers : RequestStep(w) \/ StartLock(w) \/ Hangup(w)
           \/ \E w \in Workers, c \in Clients, S \in Bindings : StartRun(w, c, S)
           \/ Drain \/ FinishLock \/ Spawn \/ FrameStep \/ ListenerCancel \/ Peers
  BY <1>0, <1>3, CountFields DEF RequestStep, BeginRequest, FinishRequest, AwaitAck, StartLock,
       Hangup, StartRun, Drain, FinishLock, Spawn, FrameStep, ListenerCancel, Peers,
       ProcessExternalLock, SynchronizePhase, AppLockResult, SessionOpen, SessionEnd,
       SessionFrame, RunFrame, GuiFrame, ProcFrame
<1>4. CASE UserBegins
  BY <1>0, <1>4, CountFields DEF UserBegins, HardLock, LockApp, AutoLock, IdleLock,
       RevokeAllGrants, Exit, RevokeSession, RevokeGrant, UserStarts, GuiFrame
<1>5. CASE GuiProc /\ ~ RevokeTarget /\ ~ BeginLock
  BY <1>0, <1>5 DEF GuiProc, TryLocal, WaitLocal, CancelUnlock, Snapshot, Covers, IdleVault,
       ReleaseIdle, Clear, DisconnectUi, StopServing, CloseSessions, Join, GuiFrame, ProcFrame
<1>6. CASE RevokeTarget \/ BeginLock
  <2>1. RevokeTarget => target.client \in Clients /\ target.secrets \subseteq Secrets
    BY DEF RevokeTarget, Shaped, ControlInv, ThreadsOK, TargetRec
  <2> QED BY <1>0, <1>6, <2>1 DEF RevokeTarget, BeginLock, ProcFrame, Pairs
<1>7. CASE UserAnswers
  BY <1>0, <1>7, CountFields DEF UserAnswers, UnlockDesk, UnlockVault, ResolveUnlock, Decide,
       CaptureAccess, GrantAccess, MutateSecret, AnswerFrame
<1> QED BY <1>1, <1>2, <1>3, <1>4, <1>5, <1>6, <1>7, NextCases

(* What the window's procedure is about. *)
LEMMA NextTarget ==
  ASSUME Shaped, Next
  PROVE  /\ target' \in TargetRec
         /\ op'[Gui] \in {"pair", "client"} =>
              target'.client \in Clients \/ (target' = target /\ op'[Gui] = op[Gui])
         /\ \/ target' = target /\ (op'[Gui] = op[Gui] \/ op'[Gui] \notin {"pair", "client"})
            \/ Snapshot /\ op[Gui] = "autoLock" /\ op'[Gui] = "autoLock"
            \/ pc[Gui] = "idle" /\ op'[Gui] = "client" /\ target'.secrets = Secrets
            \/ pc[Gui] = "idle" /\ op'[Gui] = "pair" /\ \E s \in Secrets : target'.secrets = {s}
<1>0. target \in TargetRec /\ OnAll(op, Procs) /\ Gui \in Procs /\ Locker \in Procs
      /\ Gui \notin Workers /\ Gui # Locker
  BY ProcessAssumption DEF Shaped, ThreadsOK, Procs
<1>1. CASE UNCHANGED target /\ op'[Gui] = op[Gui]
  BY <1>0, <1>1
<1>2. CASE UNCHANGED target /\ op'[Gui] \notin {"pair", "client"}
  BY <1>0, <1>2
<1>3. CASE \E w \in Workers : RunStep(w) \/ Timeout(w) \/ ChildExits(w)
  <2>1. target' = target /\ op'[Gui] = op[Gui]
    BY <1>0, <1>3, RunStepMoves DEF RunMove, RunEffect, RunMoves, RunFrame, OnAll
  <2> QED BY <1>1, <2>1
<1>4. CASE \E p \in Procs : ProcStep(p)
  <2>1. target' = target /\ op'[Gui] = op[Gui]
    BY <1>0, <1>4 DEF ProcStep, CancelPendingStep, RevokeAllStep, CancelRunStep, Block, Quiesce,
       LockVault, Reset, ReleaseBlock, ReleaseLocal, ProcFrame, OnAll
  <2> QED BY <1>1, <2>1
<1>5. CASE \/ \E w \in Workers : RequestStep(w) \/ StartLock(w) \/ Hangup(w)
           \/ \E w \in Workers, c \in Clients, S \in Bindings : StartRun(w, c, S)
           \/ Drain \/ FinishLock \/ ListenerCancel \/ Peers \/ UserAnswers \/ Spawn
  <2>1. target' = target /\ op'[Gui] = op[Gui]
    BY <1>0, <1>5 DEF RequestStep, BeginRequest, FinishRequest, AwaitAck, StartLock,
       Hangup, StartRun, Drain, FinishLock, ListenerCancel, Peers, UserAnswers, UnlockDesk,
       UnlockVault, ResolveUnlock, Decide, CaptureAccess, GrantAccess, MutateSecret, Spawn,
       AnswerFrame, SessionOpen, SessionEnd, SessionFrame, RunFrame, ProcFrame, OnAll
  <2> QED BY <1>1, <2>1
<1>6. CASE FrameStep \/ (GuiProc /\ ~ Snapshot)
  <2>1. target' = target /\ (op'[Gui] = op[Gui] \/ op'[Gui] \notin {"pair", "client"})
    BY <1>0, <1>6 DEF FrameStep, ProcessExternalLock, SynchronizePhase, AppLockResult, Start,
       GuiProc, TryLocal, WaitLocal, CancelUnlock, RevokeTarget, BeginLock, Covers, IdleVault,
       ReleaseIdle, Clear, DisconnectUi, StopServing, CloseSessions, Join, GuiFrame, ProcFrame, OnAll
  <2> QED BY <1>1, <1>2, <2>1
<1>7. CASE Snapshot
  <2>1. op'[Gui] = op[Gui] /\ pc[Gui] = "snapshot"
    BY <1>7 DEF Snapshot, At
  <2>2. op[Gui] = "autoLock"
    <3>1. op[Gui] \in GuiOps /\ "snapshot" \in DOMAIN Flow[op[Gui]]
      BY <1>0, <2>1, ProcAt DEF Shaped, ProcNames
    <3> QED BY <3>1 DEF GuiOps, Flow, LockFlow, RevokeFlow, TargetFlow
  <2>3. CASE active = NoRun
    <3>1. target' = NoTarget
      BY <1>7, <2>3 DEF Snapshot
    <3>2. NoTarget \in TargetRec
      BY DEF NoTarget, TargetRec
    <3> QED BY <1>7, <2>1, <2>2, <3>1, <3>2
  <2>4. CASE active # NoRun
    <3> DEFINE r == call[active.worker]
               S == IF active.known THEN r.secrets ELSE {}
    <3>1. /\ active.worker \in Workers /\ call \in [Workers -> CallRec]
      BY <2>4 DEF Shaped, ThreadsOK, RunRec
    <3>2. /\ r.client \in Clients \cup {NoClient} /\ r.serial \in Nat /\ S \in SUBSET Secrets
      BY <3>1 DEF CallRec
    <3>3. target' = [client |-> r.client, worker |-> active.worker, serial |-> r.serial,
                     secrets |-> S]
      BY <1>7, <2>4 DEF Snapshot
    <3> HIDE DEF r, S
    <3>4. target' \in TargetRec
      BY <3>1, <3>2, <3>3 DEF TargetRec
    <3> QED BY <1>7, <2>1, <2>2, <3>4
  <2> QED BY <2>3, <2>4
<1>8. CASE UserBegins
  <2>1. CASE \/ \E c \in Clients : RevokeSession(c)
             \/ \E c \in Clients, s \in Secrets : RevokeGrant(c, s)
    <3>0. pc[Gui] = "idle"
      BY <2>1 DEF RevokeSession, RevokeGrant, WindowActive, At
    <3>1. PICK c \in Clients, S \in SUBSET Secrets :
            /\ target' = [NoTarget EXCEPT !.client = c, !.secrets = S]
            /\ \/ op'[Gui] = "client" /\ S = Secrets
               \/ op'[Gui] = "pair" /\ \E s \in Secrets : S = {s}
      <4>1. ASSUME NEW c \in Clients, RevokeSession(c)
            PROVE  /\ target' = [NoTarget EXCEPT !.client = c, !.secrets = Secrets]
                   /\ op'[Gui] = "client"
        BY <1>0, <4>1 DEF RevokeSession, UserStarts, Start, OnAll
      <4>2. ASSUME NEW c \in Clients, NEW s \in Secrets, RevokeGrant(c, s)
            PROVE  /\ target' = [NoTarget EXCEPT !.client = c, !.secrets = {s}]
                   /\ op'[Gui] = "pair"
        BY <1>0, <4>2 DEF RevokeGrant, UserStarts, Start, OnAll
      <4>3. ASSUME NEW s \in Secrets PROVE {s} \in SUBSET Secrets
        OBVIOUS
      <4> HIDE DEF NoTarget
      <4> QED BY <2>1, <4>1, <4>2, <4>3
    <3>2. target' \in TargetRec /\ target'.client = c /\ target'.secrets = S
      BY <3>1 DEF NoTarget, TargetRec
    <3> QED BY <3>0, <3>1, <3>2
  <2>2. CASE HardLock \/ LockApp \/ AutoLock \/ IdleLock \/ RevokeAllGrants \/ Exit
    <3>1. target' = target /\ op'[Gui] \notin {"pair", "client"}
      BY <1>0, <2>2 DEF HardLock, LockApp, AutoLock, IdleLock, RevokeAllGrants, Exit,
           UserStarts, Start, OnAll
    <3> QED BY <1>2, <3>1
  <2> QED BY <1>8, <2>1, <2>2 DEF UserBegins
<1> QED BY <1>3, <1>4, <1>5, <1>6, <1>7, <1>8, NextCases

-----------------------------------------------------------------------------
(* The shape of the state, the lease and the block.                        *)

(* The lease belongs to the run that is at one of its steps, and a child   *)
(* to a run at `child'.                                                    *)
LeaseInv ==
  /\ \A w \in Workers : active.worker = w <=> pc[w] \in LeaseSteps
  /\ \A w \in child : pc[w] = "child"

(* New runs are blocked exactly while one thread has the block; past       *)
(* `quiesce' no run is active, unless the block is for one client or pair. *)
BlockInv ==
  /\ blockNew <=> \E p \in Procs : HeldStep(op[p], pc[p])
  /\ \A p, q \in Procs : HeldStep(op[p], pc[p]) /\ HeldStep(op[q], pc[q]) => p = q
  /\ \A p \in Procs :
       HeldStep(op[p], pc[p]) /\ pc[p] # "quiesce" /\ op[p] \notin {"pair", "client"} =>
         active = NoRun

(* A worker that moves and is not running is not at a step of the lease.   *)
LEMMA RunPlaced ==
  ASSUME Shaped, NEW w \in Workers, RunMove(w)
  PROVE  /\ OnAll(pc', Procs) /\ OnAll(op', Procs)
         /\ \A q \in Procs \ {w} : pc'[q] = pc[q] /\ op'[q] = op[q]
         /\ Placed(w, op'[w], pc'[w])
         /\ ~ HeldStep(op[w], pc[w]) /\ ~ HeldStep(op'[w], pc'[w])
         /\ op'[w] \in {"run", "list"} => op[w] = op'[w] /\ pc'[w] # "idle"
<1>1. w \in Procs /\ OnAll(pc, Procs) /\ OnAll(op, Procs)
  BY DEF Procs, Shaped, ThreadsOK
<1>2. op[w] \in {"run", "list"} /\ pc[w] \in RunSteps
  BY RunAt DEF RunMove, RunEffect, RunMoves, Shaped
<1>3. /\ pc' = [pc EXCEPT ![w] = pc'[w]]
      /\ op' = IF pc'[w] = "idle" THEN [op EXCEPT ![w] = "none"] ELSE op
      /\ pc'[w] \in RunSteps \/ pc'[w] = "idle"
  BY DEF RunMove, RunEffect, RunMoves
<1>4. OnAll(pc', Procs) /\ \A q \in Procs \ {w} : pc'[q] = pc[q]
  BY <1>1, <1>3 DEF OnAll
<1>5. /\ OnAll(op', Procs) /\ \A q \in Procs \ {w} : op'[q] = op[q]
      /\ op'[w] = IF pc'[w] = "idle" THEN "none" ELSE op[w]
  BY <1>1, <1>3 DEF OnAll
<1>6. Placed(w, op'[w], pc'[w])
  BY <1>2, <1>3, <1>5 DEF Placed
<1> QED BY <1>2, <1>3, <1>4, <1>5, <1>6, HeldNames

(* The window hands its lock over to a thread of its own. *)
LEMMA SpawnMoves ==
  ASSUME Shaped, Spawn
  PROVE  /\ OnAll(pc', Procs) /\ OnAll(op', Procs)
         /\ \A q \in Procs \ {Gui, Locker} : pc'[q] = pc[q] /\ op'[q] = op[q]
         /\ pc[Gui] = "spawn" /\ pc[Locker] = "idle" /\ pc'[Gui] = "idle" /\ op'[Gui] = op[Gui]
         /\ op[Gui] \in {"appLock", "autoLock"}
         /\ op[Gui] = "appLock" => op'[Locker] = "appLockThread" /\ pc'[Locker] = "block"
         /\ op[Gui] = "autoLock" => op'[Locker] = "autoLockThread" /\ pc'[Locker] = "drain"
         /\ UNCHANGED <<active, child, blockNew>>
<1>1. /\ Gui \in Procs /\ Locker \in Procs /\ Gui # Locker
      /\ OnAll(pc, Procs) /\ OnAll(op, Procs)
  BY ProcessAssumption DEF Procs, Shaped, ThreadsOK
<1>2. /\ pc[Gui] = "spawn" /\ pc[Locker] = "idle" /\ UNCHANGED <<active, child, blockNew>>
      /\ op' = [op EXCEPT ![Locker] = IF op[Gui] = "appLock" THEN "appLockThread"
                                                             ELSE "autoLockThread"]
      /\ pc' = [pc EXCEPT ![Locker] = IF op[Gui] = "appLock" THEN "block" ELSE "drain",
                          ![Gui] = "idle"]
  BY DEF Spawn, At, GuiFrame, runVars
<1>3. op[Gui] \in {"appLock", "autoLock"}
  <2>1. op[Gui] \in GuiOps /\ StepOf(op[Gui], "spawn")
    BY <1>1, <1>2, ProcessAssumption DEF Shaped, ControlInv, Placed
  <2> QED BY <2>1 DEF GuiOps, StepOf, Flow, LockFlow, RevokeFlow, TargetFlow
<1> QED BY <1>1, <1>2, <1>3 DEF OnAll

(* The threads stay where they may be. *)
LEMMA ThreadPlaced ==
  ASSUME Shaped, ThreadStep
  PROVE  /\ OnAll(pc', Procs) /\ OnAll(op', Procs)
         /\ \A p \in Procs : Placed(p, op'[p], pc'[p])
<1>0. OnAll(pc, Procs) /\ OnAll(op, Procs) /\ \A p \in Procs : Placed(p, op[p], pc[p])
  BY DEF Shaped, ThreadsOK, ControlInv
<1>1. CASE \E w \in Workers : RunMove(w)
  BY <1>0, <1>1, RunPlaced
<1>2. CASE \E p \in Procs : Only(p)
  BY <1>0, <1>2 DEF Only
<1>3. CASE Spawn
  <2>1. Placed(Gui, op'[Gui], pc'[Gui])
    BY <1>3, SpawnMoves DEF Placed
  <2>2. Placed(Locker, op'[Locker], pc'[Locker])
    BY <1>3, SpawnMoves DEF Placed, LockerOps, Flow
  <2> QED BY <1>0, <1>3, <2>1, <2>2, SpawnMoves
<1>4. CASE Still
  BY <1>0, <1>4 DEF Still
<1> QED BY <1>1, <1>2, <1>3, <1>4 DEF ThreadStep, Advances, Takes, Releases

(* The lease stays with one run. *)
LEMMA LeaseStays ==
  ASSUME Shaped, LeaseInv, ThreadStep
  PROVE  LeaseInv' /\ active' \in RunRec /\ child' \subseteq Workers
<1>0. /\ active \in RunRec /\ child \subseteq Workers /\ NoWorker \notin Workers
      /\ Gui \notin Workers /\ Locker \notin Workers /\ Workers \subseteq Procs
  BY ProcessAssumption DEF Shaped, ThreadsOK, Procs
<1>1. ASSUME NEW w \in Workers, RunMove(w)
      PROVE  LeaseInv' /\ active' \in RunRec /\ child' \subseteq Workers
  <2>1. \A v \in Workers \ {w} : pc'[v] = pc[v]
    BY <1>0, <1>1, RunPlaced
  <2>2. RunLeases(w)
    BY <1>1 DEF RunMove, RunEffect
  <2>3. /\ pc[w] \in LeaseSteps => active \in [worker : Workers, known : BOOLEAN]
                                   /\ active.worker = w
        /\ "access" \in LeaseSteps /\ "dropLease" \in LeaseSteps /\ "idle" \notin LeaseSteps
        /\ "child" \in LeaseSteps
    BY <1>0 DEF LeaseInv, RunRec, NoRun, LeaseSteps
  <2>4. active' \in RunRec /\ \A v \in Workers : active'.worker = v <=> pc'[v] \in LeaseSteps
    <3>1. CASE pc[w] \notin LeaseSteps /\ pc'[w] \notin LeaseSteps /\ active' = active
      BY <1>0, <2>1, <3>1 DEF LeaseInv
    <3>2. CASE /\ pc[w] \notin LeaseSteps /\ pc'[w] = "access" /\ active = NoRun
               /\ active' = [worker |-> w, known |-> FALSE]
      BY <1>0, <2>1, <2>3, <3>2 DEF LeaseInv, RunRec, NoRun
    <3>3. CASE /\ pc[w] \in LeaseSteps \ {"dropLease"} /\ pc'[w] \in LeaseSteps \ {"access"}
               /\ active' = active
      BY <1>0, <2>1, <3>3 DEF LeaseInv
    <3>4. CASE /\ pc[w] \in LeaseSteps \ {"dropLease"} /\ pc'[w] \in LeaseSteps \ {"access"}
               /\ active' = [active EXCEPT !.known = TRUE]
      <4>1. active' \in RunRec /\ active'.worker = active.worker
        BY <2>3, <3>4 DEF RunRec
      <4> QED BY <2>1, <3>4, <4>1 DEF LeaseInv
    <3>5. CASE pc[w] = "dropLease" /\ pc'[w] = "idle" /\ active' = NoRun
      <4>1. \A v \in Workers \ {w} : pc[v] \notin LeaseSteps
        BY <2>3, <3>5 DEF LeaseInv
      <4> QED BY <1>0, <2>1, <2>3, <3>5, <4>1 DEF RunRec, NoRun
    <3> QED BY <2>2, <3>1, <3>2, <3>3, <3>4, <3>5 DEF RunLeases
  <2>5. child' \subseteq Workers /\ \A v \in child' : pc'[v] = "child"
    BY <1>0, <2>1, <2>2 DEF LeaseInv, RunLeases
  <2> QED BY <2>4, <2>5 DEF LeaseInv
<1>2. ASSUME NEW p \in Procs, Only(p)
      PROVE  LeaseInv' /\ active' \in RunRec /\ child' \subseteq Workers
  <2>1. /\ \A w \in Workers : pc'[w] \in LeaseSteps <=> pc[w] \in LeaseSteps
        /\ \A w \in Workers : pc[w] = "child" => pc'[w] = "child"
    BY <1>0, <1>2 DEF Only, LeaseSteps
  <2> QED BY <1>0, <1>2, <2>1 DEF Only, LeaseInv
<1>3. CASE Spawn
  BY <1>0, <1>3, SpawnMoves DEF LeaseInv
<1>4. CASE Still
  BY <1>0, <1>4 DEF Still, LeaseInv
<1> QED BY <1>1, <1>2, <1>3, <1>4 DEF ThreadStep, Advances, Takes, Releases

(* The block stays with one thread. *)
LEMMA BlockStays ==
  ASSUME Shaped, LeaseInv, BlockInv, ThreadStep
  PROVE  BlockInv' /\ blockNew' \in BOOLEAN
<1>0. blockNew \in BOOLEAN /\ Workers \subseteq Procs /\ Gui \in Procs /\ Locker \in Procs
  BY DEF Shaped, ThreadsOK, Procs
<1>1. ASSUME NEW w \in Workers, RunMove(w)
      PROVE  BlockInv' /\ blockNew' \in BOOLEAN
  <2>1. /\ \A q \in Procs \ {w} : pc'[q] = pc[q] /\ op'[q] = op[q]
        /\ ~ HeldStep(op[w], pc[w]) /\ ~ HeldStep(op'[w], pc'[w])
    BY <1>1, RunPlaced
  <2>2. blockNew' = blockNew
    BY <1>1 DEF RunMove, RunEffect, RunMoves
  <2>3. active = NoRun => active' = NoRun \/ ~ blockNew
    <3>1. pc[w] \in LeaseSteps => active # NoRun
      BY ProcessAssumption DEF LeaseInv, NoRun
    <3> QED BY <1>1, <3>1 DEF RunMove, RunEffect, RunLeases
  <2> QED BY <1>0, <2>1, <2>2, <2>3 DEF BlockInv
<1>2. ASSUME NEW p \in Procs, Advances(p)
      PROVE  BlockInv' /\ blockNew' \in BOOLEAN
  BY <1>0, <1>2 DEF Advances, Only, BlockInv
<1>3. ASSUME NEW p \in Procs, Takes(p)
      PROVE  BlockInv' /\ blockNew' \in BOOLEAN
  BY <1>0, <1>3 DEF Takes, Only, BlockInv
<1>4. ASSUME NEW p \in Procs, Releases(p)
      PROVE  BlockInv' /\ blockNew' \in BOOLEAN
  BY <1>0, <1>4 DEF Releases, Only, BlockInv
<1>5. CASE Spawn
  <2>1. /\ ~ HeldStep(op[Gui], pc[Gui]) /\ ~ HeldStep(op[Locker], pc[Locker])
        /\ ~ HeldStep(op'[Gui], pc'[Gui]) /\ ~ HeldStep(op'[Locker], pc'[Locker])
    BY <1>5, SpawnMoves DEF HeldStep
  <2> QED BY <1>0, <1>5, <2>1, SpawnMoves DEF BlockInv
<1>6. CASE Still
  BY <1>0, <1>6 DEF Still, BlockInv
<1> QED BY <1>1, <1>2, <1>3, <1>4, <1>5, <1>6 DEF ThreadStep

(* A worker begins to serve a run with StartRun only. *)
LEMMA WorkerOps ==
  ASSUME Shaped, Next, NEW w \in Workers
  PROVE  \/ op'[w] = op[w] \/ op'[w] \in {"none", "rpcLock"}
         \/ \E c \in Clients, S \in Bindings : StartRun(w, c, S)
<1>0. OnAll(op, Procs) /\ w \in Procs /\ w # Gui /\ w # Locker
  BY ProcessAssumption DEF Shaped, ThreadsOK, Procs
<1>1. CASE \E v \in Workers : RunStep(v) \/ Timeout(v) \/ ChildExits(v)
  BY <1>0, <1>1, RunStepMoves DEF RunMove, RunEffect, RunMoves, OnAll
<1>2. CASE \E p \in Procs : ProcStep(p)
  BY <1>0, <1>2 DEF ProcStep, CancelPendingStep, RevokeAllStep, CancelRunStep, Block, Quiesce,
       LockVault, Reset, ReleaseBlock, ReleaseLocal, ProcFrame, OnAll
<1>3. CASE \/ \E v \in Workers : RequestStep(v) \/ StartLock(v) \/ Hangup(v)
           \/ Drain \/ FinishLock \/ ListenerCancel \/ Peers \/ UserAnswers \/ Spawn
  BY <1>0, <1>3 DEF RequestStep, BeginRequest, FinishRequest, AwaitAck, StartLock,
       Hangup, Drain, FinishLock, ListenerCancel, Peers, UserAnswers, UnlockDesk,
       UnlockVault, ResolveUnlock, Decide, CaptureAccess, GrantAccess, MutateSecret, Spawn,
       AnswerFrame, SessionOpen, SessionEnd, SessionFrame, ProcFrame, OnAll
<1>4. CASE FrameStep \/ GuiProc
  BY <1>0, <1>4 DEF FrameStep, ProcessExternalLock, SynchronizePhase, AppLockResult, Start,
       GuiProc, TryLocal, WaitLocal, CancelUnlock, RevokeTarget, BeginLock, Snapshot, Covers,
       IdleVault, ReleaseIdle, Clear, DisconnectUi, StopServing, CloseSessions, Join, ProcFrame,
       OnAll
<1>5. CASE UserBegins
  BY <1>0, <1>5 DEF UserBegins, HardLock, LockApp, AutoLock, IdleLock, RevokeAllGrants, Exit,
       RevokeSession, RevokeGrant, UserStarts, Start, OnAll
<1>6. CASE \E v \in Workers, c \in Clients, S \in Bindings : StartRun(v, c, S)
  <2>1. PICK v \in Workers, c \in Clients, S \in Bindings : StartRun(v, c, S)
    BY <1>6
  <2>2. v # w => op'[w] = op[w]
    BY <1>0, <2>1 DEF StartRun, OnAll
  <2> QED BY <2>1, <2>2
<1> QED BY <1>1, <1>2, <1>3, <1>4, <1>5, <1>6, NextCases

(* The clients served are clients. *)
LEMMA ServedStay ==
  ASSUME Shaped, Next
  PROVE  /\ \A w \in Workers : op'[w] \in {"run", "list"} => call'[w].client \in Clients
         /\ op'[Gui] \in {"pair", "client"} => target'.client \in Clients
<1>1. ASSUME NEW w \in Workers, op'[w] \in {"run", "list"}
      PROVE  call'[w].client \in Clients
  <2>1. CASE RunMove(w)
    <3>1. op[w] = op'[w] /\ pc'[w] # "idle"
      BY <1>1, <2>1, RunPlaced
    <3> QED BY <1>1, <2>1, <3>1 DEF RunMove, RunEffect, RunCalls, Shaped, ControlInv
  <2>2. CASE SameCall(call[w], call'[w]) /\ op'[w] = op[w]
    BY <1>1, <2>2 DEF SameCall, Shaped, ControlInv
  <2>3. CASE \E c \in Clients, S \in Bindings : StartRun(w, c, S)
    <3>1. PICK c \in Clients, S \in Bindings : StartRun(w, c, S)
      BY <2>3
    <3>2. call'[w] = [NoRequest EXCEPT !.client = c, !.secrets = S, !.serial = count.runs + 1]
      BY <3>1 DEF StartRun, Shaped, ThreadsOK
    <3> QED BY <3>2 DEF NoRequest
  <2> QED BY <1>1, <2>1, <2>2, <2>3, NextCalls, WorkerOps DEF CallStep
<1>2. op'[Gui] \in {"pair", "client"} => target'.client \in Clients
  BY NextTarget DEF Shaped, ControlInv
<1> QED BY <1>1, <1>2

(* The invariant about control: the shape of the state, the lease and the  *)
(* block.                                                                  *)
BrokerInv == Shaped /\ LeaseInv /\ BlockInv

(* At the start every thread is idle. *)
LEMMA BrokerInit == Init => BrokerInv
<1> SUFFICES ASSUME Init PROVE BrokerInv
  OBVIOUS
<1>1. CoreTypeOK
  <2>1. /\ grants \in Table /\ pending \in PendingState /\ appAccess \in AppAccess
        /\ sessions \in [Clients -> SessionState]
    BY NoGrantType, ValueTypes DEF Init, CoreInit
  <2>2. /\ sessionsClosed \in BOOLEAN /\ manual \in BOOLEAN
        /\ consent \subseteq Clients \X Secrets
    BY DEF Init, CoreInit
  <2>3. /\ vault \in Nat /\ lockEpoch \in Nat /\ revision \in Nat /\ nextId \in Nat \ {0}
        /\ nextConn \in Nat \ {0} /\ elapsed \in Nat /\ wall \in Nat
    BY DEF Init, CoreInit
  <2> QED BY <2>1, <2>2, <2>3 DEF CoreTypeOK
<1>2. /\ \A p \in Procs : pc[p] = "idle" /\ op[p] = "none" /\ ~ HeldStep(op[p], pc[p])
      /\ OnAll(pc, Procs) /\ OnAll(op, Procs)
  BY DEF Init, OnAll, HeldStep
<1>3. ThreadsOK
  <2>1. NoTarget \in TargetRec
    BY DEF NoTarget, TargetRec
  <2>2. call \in [Workers -> CallRec]
    BY CallFields DEF Init
  <2> QED BY <1>2, <2>1, <2>2 DEF Init, ThreadsOK, RunRec
<1>4. SharedOK
  <2>1. ui \in UiRec
    BY DEF Init, UiRec
  <2>2. unlock \in UnlockRec
    BY DEF Init, UnlockRec
  <2>3. desk \in DeskRec /\ count \in CountRec
    BY DEF Init, DeskActive, DeskRec, CountRec
  <2> QED BY <2>1, <2>2, <2>3 DEF Init, SharedOK
<1>5. ControlInv
  BY <1>2 DEF ControlInv, Placed, Procs
<1>6. LeaseInv
  BY <1>2, ProcessAssumption DEF Init, LeaseInv, NoRun, LeaseSteps, Procs
<1>7. BlockInv
  BY <1>2 DEF Init, BlockInv
<1> QED BY <1>1, <1>3, <1>4, <1>5, <1>6, <1>7 DEF BrokerInv, Shaped

(* Every step keeps the shape, the lease and the block. *)
LEMMA BrokerNext ==
  ASSUME BrokerInv, [Next]_vars
  PROVE  BrokerInv'
<1>1. CASE UNCHANGED vars
  <2>1. CoreTypeOK' /\ ThreadsOK' /\ SharedOK' /\ ControlInv'
    BY <1>1 DEF BrokerInv, Shaped, vars, coreVars, Clocks, vaultVars, runVars, uiVars, windowVars,
         CoreTypeOK, ThreadsOK, SharedOK, ControlInv
  <2>2. LeaseInv' /\ BlockInv'
    BY <1>1 DEF BrokerInv, vars, runVars, LeaseInv, BlockInv
  <2> QED BY <2>1, <2>2 DEF BrokerInv, Shaped
<1>2. CASE Next
  <2>0. Shaped /\ LeaseInv /\ BlockInv /\ ThreadStep
    BY <1>2, NextThread DEF BrokerInv
  <2>1. CoreTypeOK'
    BY <1>2, <2>0, NextMethod, MethodType DEF Shaped
  <2>2. LeaseInv' /\ BlockInv' /\ active' \in RunRec /\ child' \subseteq Workers /\ blockNew' \in BOOLEAN
    BY <2>0, LeaseStays, BlockStays
  <2>3. OnAll(pc', Procs) /\ OnAll(op', Procs) /\ \A p \in Procs : Placed(p, op'[p], pc'[p])
    BY <2>0, ThreadPlaced
  <2>4. call' \in [Workers -> CallRec]
    BY <1>2, <2>0, NextCalls
  <2>5. target' \in TargetRec
    BY <1>2, <2>0, NextTarget
  <2>6. ThreadsOK'
    BY <2>2, <2>3, <2>4, <2>5 DEF ThreadsOK
  <2>7. SharedOK'
    <3>1. ui' \in UiRec /\ unlock' \in UnlockRec
      BY <1>2, <2>0, NextUi
    <3>2. desk' \in DeskRec /\ lastPhase' \in BOOLEAN
      BY <1>2, <2>0, NextDesk
    <3>3. lost' \subseteq Pairs /\ forbidden' \subseteq Pairs /\ count' \in CountRec
      BY <1>2, <2>0, NextHistory
    <3>4. session' \in Nat /\ failed' \in BOOLEAN /\ stop' \in BOOLEAN
      <4>1. VaultStep /\ StopStep /\ SharedOK
        BY <1>2, <2>0, NextVault DEF Shaped
      <4>2. session' \in Nat
        BY <4>1 DEF VaultStep, SharedOK
      <4>3. failed' \in BOOLEAN
        BY <4>1, Zenon DEF VaultStep, SharedOK
      <4>4. stop' \in BOOLEAN
        BY <4>1, Zenon DEF StopStep, SharedOK
      <4> QED BY <4>2, <4>3, <4>4
    <3> QED BY <3>1, <3>2, <3>3, <3>4 DEF SharedOK, Pairs
  <2>8. ControlInv'
    BY <1>2, <2>0, <2>3, ServedStay DEF ControlInv, Placed
  <2> QED BY <2>1, <2>2, <2>6, <2>7, <2>8 DEF BrokerInv, Shaped
<1> QED BY <1>1, <1>2

-----------------------------------------------------------------------------
(* A locked vault has no child.                                            *)

(* While the vault is locked no run is past its last look at it. *)
QuietInv == session = 0 /\ ~ failed => \A w \in Workers : pc[w] \notin HotSteps

(* A step that is not a run's brings no worker to the lease. *)
LEMMA NotARun ==
  ASSUME Shaped, ThreadStep, \A w \in Workers : ~ RunMove(w)
  PROVE  /\ \A w \in Workers : pc'[w] \in LeaseSteps => pc'[w] = pc[w]
         /\ UNCHANGED <<active, child>>
<1>0. Workers \subseteq Procs /\ Gui \notin Workers /\ Locker \notin Workers
  BY ProcessAssumption DEF Procs
<1>1. CASE \E p \in Procs : Only(p)
  BY <1>0, <1>1 DEF Only
<1>2. CASE Spawn
  BY <1>0, <1>2, SpawnMoves
<1>3. CASE Still
  BY <1>3 DEF Still
<1> QED BY <1>1, <1>2, <1>3 DEF ThreadStep, Advances, Takes, Releases

(* A thread that has blocked new runs, for good, has no run to fear. *)
LEMMA NoneActive ==
  ASSUME BrokerInv, active = NoRun
  PROVE  \A w \in Workers : pc[w] \notin LeaseSteps
BY ProcessAssumption DEF BrokerInv, LeaseInv, NoRun

(* Who closes the vault has the block and no active run; a run that goes  *)
(* on to launch has seen the vault open.                                   *)
LEMMA QuietNext ==
  ASSUME BrokerInv, QuietInv, [Next]_vars
  PROVE  QuietInv'
<1>1. CASE UNCHANGED vars
  BY <1>1 DEF QuietInv, vars, vaultVars
<1>2. CASE Next
  <2>0. Shaped /\ ThreadStep /\ VaultStep /\ HotSteps \subseteq LeaseSteps
    BY <1>2, NextThread, NextVault DEF BrokerInv, HotSteps, LeaseSteps
  <2>1. SUFFICES ASSUME session' = 0, ~ failed', NEW w \in Workers, pc'[w] \in HotSteps
                 PROVE  FALSE
    BY DEF QuietInv
  <2>2. CASE UNCHANGED <<session, failed>>
    <3>1. pc[w] \notin HotSteps
      BY <2>1, <2>2 DEF QuietInv
    <3>2. ~ RunMove(w)
      BY <2>1, <2>2, <3>1 DEF RunMove, RunEffect, RunLeases
    <3>3. ASSUME NEW v \in Workers, RunMove(v)
          PROVE  FALSE
      <4>1. pc'[w] = pc[w]
        BY <2>0, <3>2, <3>3, RunPlaced DEF Procs
      <4> QED BY <2>1, <3>1, <4>1
    <3> QED BY <2>0, <2>1, <3>1, <3>3, NotARun
  <2>3. CASE ~ UNCHANGED <<session, failed>>
    <3>1. PICK p \in Procs : pc[p] \in {"lockVault", "idleVault"}
      BY <2>0, <2>1, <2>3 DEF VaultStep
    <3>2. op[p] \notin {"pair", "client"}
      <4>1. FlowFact(op[p], pc[p])
        BY <3>1, ProcAt DEF BrokerInv, Shaped, ProcNames
      <4> QED BY <3>1, <4>1 DEF FlowFact
    <3>3. active = NoRun
      BY <3>1, <3>2 DEF BrokerInv, BlockInv, HeldStep
    <3>4. \A v \in Workers : ~ RunMove(v)
      BY <2>3 DEF RunMove, RunEffect, RunMoves, RunFrame, vaultVars
    <3> QED BY <2>0, <2>1, <3>3, <3>4, NotARun, NoneActive
  <2> QED BY <2>2, <2>3
<1> QED BY <1>1, <1>2

(* While the vault is locked, and not closed by a failed commit, no child  *)
(* process is alive: the lock blocks new runs, waits for the active one    *)
(* (RunCoordinator) and only then closes the vault, and a run looks at the *)
(* vault again after it got its lease.                                     *)
THEOREM LockedVaultQuiet == Spec => []LockedVaultIsQuiet
<1>1. Init => BrokerInv /\ QuietInv
  <2>1. Init => QuietInv
    BY DEF Init, QuietInv, HotSteps, Procs
  <2> QED BY <2>1, BrokerInit
<1>2. BrokerInv /\ QuietInv /\ [Next]_vars => (BrokerInv /\ QuietInv)'
  BY BrokerNext, QuietNext
<1>3. BrokerInv /\ QuietInv => LockedVaultIsQuiet
  BY DEF BrokerInv, Shaped, ThreadsOK, LeaseInv, QuietInv, LockedVaultIsQuiet, HotSteps
<1> QED BY <1>1, <1>2, <1>3, PTL DEF Spec

-----------------------------------------------------------------------------
(* The broker is dropped.                                                  *)

DropLate == {"closeSessions", "cancelFirst", "revokeFirst", "cancelPending", "block",
             "quiesce", "releaseBlock", "join", "gone"}
DropLast == {"releaseBlock", "join", "gone"}

(* Serving has stopped before the block is taken, and past the block no    *)
(* run is past its last look at the flag.                                  *)
DropInv ==
  op[Gui] = "drop" =>
    /\ pc[Gui] \in DropLate => stop
    /\ pc[Gui] \in DropLast => \A w \in Workers : pc[w] \notin WarmSteps

(* The window moves by its own steps only. *)
LEMMA GuiMoves ==
  ASSUME Shaped, Next
  PROVE  \/ pc'[Gui] = pc[Gui] /\ op'[Gui] = op[Gui]
         \/ ProcStep(Gui) \/ GuiProc \/ Spawn \/ FrameStep \/ UserBegins
<1>0. Gui \in Procs /\ Locker \in Procs /\ Gui \notin Workers /\ Gui # Locker
      /\ Workers \subseteq Procs
  BY ProcessAssumption DEF Procs
<1>1. CASE \E w \in Workers : RunStep(w) \/ Timeout(w) \/ ChildExits(w)
  BY <1>0, <1>1, RunStepMoves, RunPlaced
<1>2. ASSUME NEW p \in Procs, ProcStep(p), p # Gui
      PROVE  pc'[Gui] = pc[Gui] /\ op'[Gui] = op[Gui]
  BY <1>0, <1>2, ProcThread DEF Advances, Takes, Releases, Only
<1>3. CASE \/ \E w \in Workers : RequestStep(w) \/ StartLock(w) \/ Hangup(w)
           \/ \E w \in Workers, c \in Clients, S \in Bindings : StartRun(w, c, S)
  BY <1>0, <1>3, RequestThread DEF Advances, Only, Still
<1>4. CASE Drain \/ FinishLock
  <2>1. Advances(Locker)
    BY <1>0, <1>4, GoAdvances DEF Drain, FinishLock, At, ProcNames, ProcFrame, runVars
  <2> QED BY <1>0, <2>1 DEF Advances, Only
<1>5. CASE UserAnswers \/ ListenerCancel \/ Peers
  BY <1>5 DEF UserAnswers, ListenerCancel, Peers, UnlockDesk, UnlockVault,
       ResolveUnlock, Decide, CaptureAccess, GrantAccess, MutateSecret, SessionOpen, SessionEnd,
       SessionFrame, AnswerFrame, ProcFrame
<1> QED BY <1>1, <1>2, <1>3, <1>4, <1>5, NextCases

(* The last steps of the shutdown come one after the other. *)
LEMMA NextDrop ==
  ASSUME Shaped, Next, op'[Gui] = "drop", pc'[Gui] \in DropLate
  PROVE  /\ op[Gui] = "drop"
         /\ pc[Gui] \in DropLate \/ (pc[Gui] = "stop" /\ stop' /\ pc'[Gui] \notin DropLast)
         /\ pc'[Gui] \in DropLast => pc[Gui] \in DropLast \/ active = NoRun
<1>0. /\ Gui \in Procs /\ Gui \notin Workers /\ Gui # Locker
      /\ OnAll(pc, Procs) /\ OnAll(op, Procs)
      /\ op[Gui] = "drop" => pc[Gui] = "idle" \/ StepOf("drop", pc[Gui])
  BY ProcessAssumption DEF Procs, Shaped, ThreadsOK, ControlInv, Placed
<1>1. CASE pc'[Gui] = pc[Gui] /\ op'[Gui] = op[Gui]
  BY <1>1
<1>2. CASE ProcStep(Gui)
  <2>1. op'[Gui] = op[Gui]
    BY <1>0, <1>2 DEF ProcStep, CancelPendingStep, RevokeAllStep, CancelRunStep, Block, Quiesce,
         LockVault, Reset, ReleaseBlock, ReleaseLocal, ProcFrame
  <2>2. op[Gui] = "drop"
    BY <2>1
  <2>3. /\ pc[Gui] \notin {"revokeAll", "cancelRun", "lockVault", "reset", "releaseLocal"}
        /\ Flow["drop"].quiesce = "releaseBlock"
    BY <1>0, <2>2 DEF StepOf, Flow
  <2>4. \/ /\ pc[Gui] \in {"cancelFirst", "cancelPending", "revokeFirst", "releaseBlock"}
           /\ pc'[Gui] = Flow["drop"][pc[Gui]]
        \/ pc[Gui] = "block" /\ (pc'[Gui] = "quiesce" \/ active = NoRun)
        \/ pc[Gui] = "quiesce" /\ active = NoRun
    <3>1. CASE CancelPendingStep(Gui) \/ RevokeAllStep(Gui) \/ ReleaseBlock(Gui)
      BY <1>0, <2>2, <2>3, <3>1 DEF CancelPendingStep, RevokeAllStep, ReleaseBlock, At, Go, Goto, OnAll
    <3>2. CASE Block(Gui)
      BY <1>0, <2>2, <3>2 DEF Block, At, Goto, Concerns, OnAll
    <3>3. CASE Quiesce(Gui)
      BY <3>3 DEF Quiesce, At
    <3>4. CASE CancelRunStep(Gui) \/ LockVault(Gui) \/ Reset(Gui) \/ ReleaseLocal(Gui)
      BY <2>3, <3>4 DEF CancelRunStep, LockVault, Reset, ReleaseLocal, At
    <3> QED BY <1>2, <3>1, <3>2, <3>3, <3>4 DEF ProcStep
  <2> QED BY <2>2, <2>4 DEF DropLate, DropLast, Flow
<1>3. CASE GuiProc
  <2>1. CASE StopServing \/ CloseSessions \/ Join
    <3>1. /\ op' = op /\ pc'[Gui] = Flow[op[Gui]][pc[Gui]]
          /\ \/ pc[Gui] = "stop" /\ stop' = TRUE
             \/ pc[Gui] \in {"closeSessions", "join"}
      BY <1>0, <2>1 DEF StopServing, CloseSessions, Join, At, Go, Goto, ProcFrame, OnAll
    <3>2. op[Gui] = "drop"
      BY <3>1
    <3> QED BY <3>1, <3>2 DEF DropLate, DropLast, Flow
  <2>2. CASE DisconnectUi
    BY <1>0, <2>2 DEF DisconnectUi, Goto, Flow, OnAll, DropLate
  <2>3. CASE ~ StopServing /\ ~ CloseSessions /\ ~ Join /\ ~ DisconnectUi
    <3>1. /\ op'[Gui] = op[Gui] \/ op'[Gui] = "lock"
          /\ pc[Gui] \in {"tryLocal", "waitLocal", "cancelUnlock", "revokeTarget", "beginLock",
                          "snapshot", "covers", "idleVault", "releaseIdle", "clear"}
      BY <1>0, <1>3, <2>3 DEF GuiProc, TryLocal, WaitLocal, CancelUnlock, RevokeTarget,
           BeginLock, Snapshot, Covers, IdleVault, ReleaseIdle, Clear, At, Start, GuiFrame,
           ProcFrame, OnAll
    <3>2. op[Gui] = "drop"
      BY <3>1
    <3> QED BY <1>0, <3>1, <3>2 DEF StepOf, Flow
  <2> QED BY <2>1, <2>2, <2>3
<1>4. CASE Spawn
  BY <1>4, SpawnMoves DEF DropLate
<1>5. CASE FrameStep \/ UserBegins
  BY <1>0, <1>1, <1>5 DEF FrameStep, UserBegins, ProcessExternalLock, SynchronizePhase,
       AppLockResult, HardLock, LockApp, AutoLock, IdleLock, RevokeAllGrants, Exit, RevokeSession,
       RevokeGrant, UserStarts, Start, GuiFrame, OnAll
<1> QED BY <1>1, <1>2, <1>3, <1>4, <1>5, GuiMoves

(* The shutdown sets the flag, takes the block, waits and gives it back, in *)
(* this order; a run is admitted without the flag only.                    *)
LEMMA DropNext ==
  ASSUME BrokerInv, DropInv, [Next]_vars
  PROVE  DropInv'
<1>1. CASE UNCHANGED vars
  BY <1>1 DEF DropInv, vars
<1>2. CASE Next
  <2>0. Shaped /\ ThreadStep /\ StopStep /\ WarmSteps \subseteq LeaseSteps /\ DropLast \subseteq DropLate
    BY <1>2, NextThread, NextVault DEF BrokerInv, WarmSteps, LeaseSteps, DropLast, DropLate
  <2>1. SUFFICES ASSUME op'[Gui] = "drop", pc'[Gui] \in DropLate
                 PROVE  /\ stop'
                        /\ pc'[Gui] \in DropLast => \A w \in Workers : pc'[w] \notin WarmSteps
    BY <2>0 DEF DropInv
  <2>2. /\ op[Gui] = "drop"
        /\ pc[Gui] \in DropLate \/ (pc[Gui] = "stop" /\ stop' /\ pc'[Gui] \notin DropLast)
        /\ pc'[Gui] \in DropLast => pc[Gui] \in DropLast \/ active = NoRun
    BY <1>2, <2>0, <2>1, NextDrop
  <2>3. stop'
    BY <2>0, <2>2 DEF DropInv, StopStep
  <2>4. ASSUME pc'[Gui] \in DropLast, NEW w \in Workers, pc'[w] \in WarmSteps
        PROVE  FALSE
    <3>1. pc[w] \notin WarmSteps
      BY <2>0, <2>2, <2>4, NoneActive DEF DropInv
    <3>2. stop
      <4>1. pc[Gui] \in DropLate
        BY <2>2, <2>4
      <4> QED BY <2>2, <4>1 DEF DropInv
    <3>3. ~ RunMove(w)
      BY <2>4, <3>1, <3>2 DEF RunMove, RunEffect, RunLeases
    <3>4. ASSUME NEW v \in Workers, RunMove(v)
          PROVE  FALSE
      <4>1. pc'[w] = pc[w]
        BY <2>0, <3>3, <3>4, RunPlaced DEF Procs
      <4> QED BY <2>4, <3>1, <4>1
    <3> QED BY <2>0, <2>4, <3>1, <3>4, NotARun
  <2> QED BY <2>3, <2>4
<1> QED BY <1>1, <1>2

(* Once the drop of the broker waits for its threads, no child process is  *)
(* alive, and none will be: the flag is set before the block is taken, and *)
(* a run that gets the lease after the block is gone sees the flag         *)
(* (Drop for LocalBrokerHandle).                                           *)
THEOREM ShutdownQuiet == Spec => []ShutdownIsQuiet
<1>1. Init => BrokerInv /\ DropInv
  <2>1. Init => DropInv
    BY DEF Init, DropInv, Procs
  <2> QED BY <2>1, BrokerInit
<1>2. BrokerInv /\ DropInv /\ [Next]_vars => (BrokerInv /\ DropInv)'
  BY BrokerNext, DropNext
<1>3. BrokerInv /\ DropInv => ShutdownIsQuiet
  <2> SUFFICES ASSUME BrokerInv, DropInv, pc[Gui] \in {"join", "gone"}
               PROVE  child = {}
    BY DEF ShutdownIsQuiet
  <2>1. op[Gui] \in GuiOps /\ StepOf(op[Gui], pc[Gui])
    BY ProcessAssumption DEF BrokerInv, Shaped, ControlInv, Placed, Procs
  <2>2. op[Gui] = "drop"
    BY <2>1 DEF GuiOps, StepOf, Flow, LockFlow, RevokeFlow, TargetFlow
  <2>3. \A w \in Workers : pc[w] \notin WarmSteps
    BY <2>2 DEF DropInv, DropLast
  <2> QED BY <2>3 DEF BrokerInv, Shaped, ThreadsOK, LeaseInv, WarmSteps, LeaseSteps
<1> QED BY <1>1, <1>2, <1>3, PTL DEF Spec

-----------------------------------------------------------------------------
(* Unlock prompts.                                                         *)

(* A worker about to publish a prompt while an RPC lock is under way has   *)
(* read the epoch before the lock advanced it.                             *)
PromptInv ==
  /\ \A w \in Workers : call[w].epoch <= unlock.epoch
  /\ ExternalLock => \A w \in Workers : pc[w] = "publish" => call[w].epoch < unlock.epoch
  /\ NoPromptUnderLock

(* Only a run publishes. *)
LEMMA PublishMoves ==
  ASSUME Shaped, Next, NEW w \in Workers, pc'[w] = "publish", ~ RunMove(w)
  PROVE  pc[w] = "publish" /\ SameCall(call[w], call'[w])
<1>0. w \in Procs /\ w # Gui /\ w # Locker
  BY ProcessAssumption DEF Procs
<1>1. ThreadStep /\ CallStep(w)
  BY NextThread, NextCalls
<1>2. op'[w] \in {"run", "list"}
  <2>1. Placed(w, op'[w], pc'[w])
    BY <1>0, <1>1, ThreadPlaced
  <2>2. "publish" \notin ListSteps /\ "publish" \notin DOMAIN Flow["rpcLock"]
    BY DEF ListSteps, Flow
  <2> QED BY <1>0, <2>1, <2>2 DEF Placed
<1>3. SameCall(call[w], call'[w])
  BY <1>1, <1>2 DEF CallStep
<1>4. pc[w] = "publish"
  <2>1. CASE \E v \in Workers : RunMove(v)
    BY <1>0, <2>1, RunPlaced
  <2>2. CASE \E p \in Procs : Only(p)
    <3>1. PICK p \in Procs : Only(p)
      BY <2>2
    <3>2. CASE p = w
      BY <3>1, <3>2 DEF Only, RequestSteps, RunSteps
    <3> QED BY <1>0, <3>1, <3>2 DEF Only
  <2>3. CASE Spawn \/ Still
    BY <1>0, <2>3, SpawnMoves DEF Still
  <2> QED BY <1>1, <2>1, <2>2, <2>3 DEF ThreadStep, Advances, Takes, Releases
<1> QED BY <1>3, <1>4

(* The prompt a worker publishes. *)
LEMMA PublishedFields ==
  ASSUME NEW u \in UnlockRec, NEW w \in Workers \cup {NoWorker}
  PROVE  /\ [u EXCEPT !.worker = w, !.decision = "none"].epoch = u.epoch
         /\ [u EXCEPT !.worker = w, !.decision = "none"].worker = w
BY DEF UnlockRec

(* A step advances the epoch or leaves it; every prompt it leaves was      *)
(* there, or was cancelled, or decided, or is published under the epoch    *)
(* its worker read.                                                        *)
LEMMA NextPrompt ==
  ASSUME Shaped, Next
  PROVE  /\ unlock.epoch \in Nat /\ unlock'.epoch \in Nat
         /\ \/ unlock'.epoch = unlock.epoch
            \/ unlock'.epoch = unlock.epoch + 1
         /\ \/ unlock'.worker = unlock.worker /\ unlock'.decision = unlock.decision
            \/ unlock'.worker = NoWorker
            \/ unlock'.decision # "none"
            \/ \E w \in Workers : RunMove(w) /\ pc[w] = "publish" /\ unlock.epoch = call[w].epoch
<1>0. unlock \in UnlockRec /\ unlock' \in UnlockRec /\ PromptStep
  BY NextUi DEF Shaped, SharedOK
<1>1. unlock.epoch \in Nat /\ unlock'.epoch \in Nat
  BY <1>0 DEF UnlockRec
<1>2. CASE unlock' = unlock
  BY <1>1, <1>2
<1>3. CASE unlock' = CancelledUnlock
  BY <1>0, <1>1, <1>3, Cancelled
<1>4. CASE \E d \in {"allow", "deny"} : unlock' = [unlock EXCEPT !.decision = d]
  BY <1>0, <1>1, <1>4 DEF UnlockRec
<1>5. ASSUME NEW w \in Workers, RunMove(w), pc[w] = "publish", unlock.epoch = call[w].epoch,
             unlock' = [unlock EXCEPT !.worker = w, !.decision = "none"]
      PROVE  unlock'.epoch = unlock.epoch
  BY <1>0, <1>5, PublishedFields
<1>6. CASE unlock' = NoPrompt
  <2>1. unlock' = [unlock EXCEPT !.worker = NoWorker, !.decision = "none"]
    BY <1>6 DEF NoPrompt
  <2>2. unlock'.epoch = unlock.epoch /\ unlock'.worker = NoWorker
    BY <1>0, <2>1, PublishedFields
  <2> QED BY <1>1, <2>2
<1>7. ASSUME NEW w \in Workers, RunMove(w)
      PROVE  \/ unlock' = unlock \/ unlock' = CancelledUnlock \/ unlock' = NoPrompt
             \/ /\ pc[w] = "publish" /\ unlock.epoch = call[w].epoch
                /\ unlock' = [unlock EXCEPT !.worker = w, !.decision = "none"]
  BY <1>7 DEF RunMove, RunEffect, RunPrompts
<1> QED BY <1>0, <1>1, <1>2, <1>3, <1>4, <1>5, <1>6, <1>7 DEF PromptStep

(* The epoch a worker knows is old or current. *)
LEMMA EpochsKept ==
  ASSUME Shaped, Next, \A w \in Workers : call[w].epoch <= unlock.epoch
  PROVE  \A w \in Workers : call'[w].epoch <= unlock'.epoch
<1> SUFFICES ASSUME NEW w \in Workers
             PROVE  call'[w].epoch <= unlock'.epoch
  OBVIOUS
<1>1. CallStep(w) /\ call[w].epoch \in Nat /\ call[w].epoch <= unlock.epoch
  BY NextCalls DEF Shaped, ThreadsOK, CallRec
<1>2. unlock.epoch \in Nat /\ unlock'.epoch \in Nat /\ unlock.epoch <= unlock'.epoch
  BY NextPrompt
<1>3. call'[w].epoch \in {0, call[w].epoch, unlock.epoch}
  <2>1. NoRequest.epoch = 0
    BY DEF NoRequest
  <2> QED BY <1>1, <2>1 DEF CallStep, SameCall, RunMove, RunEffect, RunCalls
<1> QED BY <1>1, <1>2, <1>3

(* An RPC lock makes the epochs that were read before it old, and a worker *)
(* looks for one after it read the epoch.                                  *)
LEMMA PromptNext ==
  ASSUME BrokerInv, PromptInv, [Next]_vars
  PROVE  PromptInv'
<1>1. CASE UNCHANGED vars
  BY <1>1 DEF PromptInv, NoPromptUnderLock, ExternalLock, vars, uiVars
<1>2. CASE Next
  <2>0. Shaped /\ LockStep /\ unlock \in UnlockRec /\ ui \in UiRec
    BY <1>2, NextUi DEF BrokerInv, Shaped, SharedOK
  <2>1. \A w \in Workers : call'[w].epoch <= unlock'.epoch
    BY <1>2, <2>0, EpochsKept DEF PromptInv
  <2>2. \/ ui'.requested = ui.requested /\ ui'.acknowledged = ui.acknowledged
        \/ ~ ExternalLock'
        \/ unlock' = CancelledUnlock /\ \A w \in Workers : ~ RunMove(w)
    <3>1. ui.requested \in Nat
      BY <2>0 DEF UiRec
    <3>2. ui'.requested = ui.requested + 1 => \A w \in Workers : ~ RunMove(w)
      BY <3>1 DEF RunMove, RunEffect, RunMoves, RunFrame
    <3> QED BY <2>0, <3>1, <3>2 DEF LockStep, ExternalLock
  <2>3. CASE ui'.requested = ui.requested /\ ui'.acknowledged = ui.acknowledged
    <3>1. ExternalLock' <=> ExternalLock
      BY <2>3 DEF ExternalLock
    <3>2. ASSUME ExternalLock, NEW w \in Workers, pc'[w] = "publish"
          PROVE  call'[w].epoch < unlock'.epoch
      <4>1. ~ RunMove(w)
        BY <3>2 DEF RunMove, RunEffect, RunPrompts
      <4>2. pc[w] = "publish" /\ SameCall(call[w], call'[w])
        BY <1>2, <2>0, <3>2, <4>1, PublishMoves
      <4>3. call'[w].epoch = call[w].epoch /\ call[w].epoch < unlock.epoch
        BY <3>2, <4>2 DEF PromptInv, SameCall
      <4>4. /\ unlock.epoch \in Nat /\ unlock'.epoch \in Nat /\ unlock.epoch <= unlock'.epoch
            /\ call[w].epoch \in Nat
        BY <1>2, <2>0, NextPrompt DEF Shaped, ThreadsOK, CallRec
      <4> QED BY <4>3, <4>4
    <3>3. ASSUME ExternalLock
          PROVE  unlock'.worker = NoWorker \/ unlock'.decision # "none"
      <4>1. ASSUME NEW w \in Workers, pc[w] = "publish", unlock.epoch = call[w].epoch
            PROVE  FALSE
        <5>1. call[w].epoch < unlock.epoch /\ unlock.epoch \in Nat
          BY <2>0, <3>3, <4>1 DEF PromptInv, UnlockRec
        <5> QED BY <4>1, <5>1
      <4> QED BY <1>2, <2>0, <3>3, <4>1, NextPrompt DEF PromptInv, NoPromptUnderLock
    <3> QED BY <2>1, <3>1, <3>2, <3>3 DEF PromptInv, NoPromptUnderLock
  <2>4. CASE ~ ExternalLock'
    BY <2>1, <2>4 DEF PromptInv, NoPromptUnderLock
  <2>5. CASE unlock' = CancelledUnlock /\ \A w \in Workers : ~ RunMove(w)
    <3>1. /\ unlock'.epoch = unlock.epoch + 1 /\ unlock.epoch \in Nat
          /\ unlock'.worker = NoWorker \/ unlock'.decision # "none"
      BY <2>0, <2>5, Cancelled DEF UnlockRec
    <3>2. ASSUME NEW w \in Workers, pc'[w] = "publish"
          PROVE  call'[w].epoch < unlock'.epoch
      <4>1. SameCall(call[w], call'[w])
        BY <1>2, <2>0, <2>5, <3>2, PublishMoves
      <4>2. call'[w].epoch <= unlock.epoch /\ call'[w].epoch \in Nat
        BY <2>0, <4>1 DEF PromptInv, SameCall, Shaped, ThreadsOK, CallRec
      <4> QED BY <3>1, <4>2
    <3> QED BY <2>1, <3>1, <3>2 DEF PromptInv, NoPromptUnderLock
  <2> QED BY <2>2, <2>3, <2>4, <2>5
<1> QED BY <1>1, <1>2

(* While an RPC lock is under way no unlock prompt is open to the user:    *)
(* the lock cancels the prompt that is and advances the epoch, and a       *)
(* worker that looked for a lock before it began publishes under the old   *)
(* epoch, which UnlockRequests::wait refuses.                              *)
THEOREM PromptsRefused == Spec => []NoPromptUnderLock
<1>1. Init => BrokerInv /\ PromptInv
  <2>1. Init => PromptInv
    BY DEF Init, PromptInv, NoPromptUnderLock, NoRequest, ExternalLock
  <2> QED BY <2>1, BrokerInit
<1>2. BrokerInv /\ PromptInv /\ [Next]_vars => (BrokerInv /\ PromptInv)'
  BY BrokerNext, PromptNext
<1>3. PromptInv => NoPromptUnderLock
  BY DEF PromptInv
<1> QED BY <1>1, <1>2, <1>3, PTL DEF Spec

-----------------------------------------------------------------------------
(* What a step does to the published request and to the app's access.      *)

(* The request stays, and a decision is only ever cancelled. *)
RequestKept ==
  /\ SameRequest(pending, pending')
  /\ pending'.decision \in {pending.decision, Cancel} \/ pending.decision = NoDecision

RequestNew ==
  /\ pending'.id = nextId /\ pending'.secrets \subseteq pending'.requested
  /\ pending'.decision = NoDecision
  /\ IsAppActive /\ appAccess' = appAccess

(* The request is gone, kept, or new. *)
RequestOrigin == pending' = NoPending \/ RequestKept \/ RequestNew

(* An approval was there already. *)
DecisionOld ==
  pending'.decision.kind \in Approving => RequestKept /\ pending'.decision = pending.decision

(* A method that purges, cancels or leaves alone the request. *)
LEMMA RequestLeft ==
  ASSUME CoreTypeOK,
         pending' \in {pending, PurgedPending, CancelPendingState(pending),
                       [pending EXCEPT !.decision = Cancel]}
  PROVE  RequestOrigin /\ DecisionOld
<1>0. pending \in PendingState
  BY DEF CoreTypeOK
<1>1. SameRequest(pending, pending')
  <2>1. CASE pending' = pending
    BY <2>1 DEF SameRequest
  <2>2. CASE pending' = [pending EXCEPT !.decision = Cancel]
    BY <1>0, <2>2, DecideFields
  <2> QED BY <2>1, <2>2, PurgedRequest, CancelledRequest
<1>2. pending'.decision \in {pending.decision, Cancel}
  BY PurgedRequest, CancelledRequest, DecideFields DEF CoreTypeOK
<1> QED BY <1>1, <1>2 DEF RequestOrigin, DecisionOld, RequestKept, Cancel, Approving

(* Where the request comes from, unless the method takes a consent. *)
LEMMA PlainRequest ==
  ASSUME CoreTypeOK, PlainMethod
  PROVE  RequestOrigin /\ DecisionOld
<1>1. CASE \E c \in Clients, v \in Nat, S \in SUBSET Secrets : AuthorizePublish(c, v, S)
  <2>1. RequestNew
    BY <1>1 DEF AuthorizePublish, RequestNew, Missing
  <2> QED BY <2>1 DEF RequestOrigin, DecisionOld, RequestNew, NoDecision, Approving
<1>2. CASE \E id \in Nat, c \in Clients, S \in SUBSET Secrets :
             PollWithdraw(id) \/ PollAccepted(id, c, S) \/ PollRefused(id, c, S)
  <2>1. pending' = NoPending \/ pending' = PurgedPending
    BY <1>2 DEF PollWithdraw, PollAccepted, PollRefused, TakeDecision
  <2> QED BY <2>1, RequestLeft DEF RequestOrigin, DecisionOld, NoPending, NoDecision, Approving
<1>3. CASE \/ UNCHANGED coreVars \/ PurgeDisconnected \/ PurgeAll
           \/ \E c \in Clients, v \in Nat, S \in SUBSET Secrets :
                \/ AuthorizeUnattended(c, v, S) \/ AuthorizeGranted(c, v, S)
                \/ AuthorizeRefused(c, v, S)
           \/ \E c \in Clients : RegisterClientSession(c) \/ Disconnect(c) \/ RevokeClient(c)
           \/ CloseClientSessions \/ CancelPending
           \/ \E preserve \in BOOLEAN : BeginAppLock(preserve)
           \/ \E e \in Nat : FinishAppLock(e) \/ UnlockApp(e)
           \/ ResetAfterVaultLock \/ RevokeAll
           \/ \E c \in Clients, s \in Secrets : RevokePair(c, s)
           \/ \E s \in Secrets : CoordinateSecretMutation(s)
           \/ \E c \in Clients, v \in Nat : CaptureUnattended(c, v)
  <2>1. pending' \in {pending, PurgedPending, CancelPendingState(pending),
                      [pending EXCEPT !.decision = Cancel]}
    BY <1>3 DEF coreVars, PurgeDisconnected, PurgeAll, AuthorizeUnattended, AuthorizeGranted,
         AuthorizeRefused, RegisterClientSession, Disconnect, RevokeClient, CloseClientSessions,
         CancelPending, BeginAppLock, FinishAppLock, UnlockApp, ResetAfterVaultLock, RevokeAll,
         RevokePair, CoordinateSecretMutation, CaptureUnattended
  <2> QED BY <2>1, RequestLeft
<1> QED BY <1>1, <1>2, <1>3 DEF PlainMethod, RunOnlyMethod, StayMethod

(* A consent leaves the request, and may be the decision on it. *)
LEMMA ConsentRequest ==
  ASSUME CoreTypeOK, ConsentMethod
  PROVE  /\ RequestKept
         /\ \/ DecisionOld
            \/ {pending.client} \X pending.secrets \subseteq consent'
            \/ pending'.decision.kind \notin Approving
<1>1. ASSUME NEW d \in Decision, SetDecision(pending, d)
      PROVE  /\ RequestKept
             /\ \/ DecisionOld
                \/ {pending.client} \X pending.secrets \subseteq consent'
                \/ pending'.decision.kind \notin Approving
  <2>1. /\ PurgedPending.decision = NoDecision
        /\ pending' = [PurgedPending EXCEPT !.decision = d]
        /\ d.kind \in Approving => {pending.client} \X pending.secrets \subseteq consent'
    BY <1>1 DEF SetDecision
  <2>2. PurgedPending = pending
    BY <2>1, PurgedRequest DEF Cancel, NoDecision
  <2>3. SameRequest(pending, pending') /\ pending'.decision = d
    BY <2>1, <2>2, DecideFields DEF CoreTypeOK
  <2> QED BY <1>1, <2>1, <2>2, <2>3 DEF RequestKept
<1>2. ASSUME NEW k \in UnattendedContext, NEW S \in SUBSET Secrets, NEW n \in Nat,
             GrantUnattended(k, S, n)
      PROVE  /\ RequestKept
             /\ \/ DecisionOld
                \/ {pending.client} \X pending.secrets \subseteq consent'
                \/ pending'.decision.kind \notin Approving
  <2>1. \/ pending' = PurgedPending
        \/ /\ PurgedPending.decision = NoDecision
           /\ pending' = [PurgedPending EXCEPT !.decision = [kind |-> "granted", arg |-> 0]]
    BY <1>2 DEF GrantUnattended
  <2>2. CASE pending' = PurgedPending
    BY <2>2, PurgedRequest, RequestLeft DEF RequestKept
  <2>3. CASE /\ PurgedPending.decision = NoDecision
             /\ pending' = [PurgedPending EXCEPT !.decision = [kind |-> "granted", arg |-> 0]]
    <3>1. PurgedPending = pending
      BY <2>3, PurgedRequest DEF Cancel, NoDecision
    <3>2. SameRequest(pending, pending') /\ pending'.decision.kind = "granted"
      BY <2>3, <3>1, DecideFields DEF CoreTypeOK
    <3> QED BY <2>3, <3>1, <3>2 DEF RequestKept, Approving
  <2> QED BY <2>1, <2>2, <2>3
<1> QED BY <1>1, <1>2 DEF ConsentMethod

(* Where the request comes from, whatever the method. *)
LEMMA MethodRequest ==
  ASSUME CoreTypeOK, CoreMethod
  PROVE  RequestOrigin
BY PlainRequest, ConsentRequest DEF CoreMethod, RequestOrigin

(* What becomes of the app's access, of the kind of the last lock and of   *)
(* what the lock takes away.                                               *)
AppStep ==
  \/ UNCHANGED <<appAccess, manual, lost>>
  \/ IsAppActive' /\ UNCHANGED <<manual, lost>>
  \/ BeginLock /\ BeginAppLock(op[Gui] = "autoLock")
  \/ FinishLock /\ FinishAppLock(desk.epoch) /\ UNCHANGED <<manual, lost>>

(* The methods a run calls leave the app's access alone. *)
LEMMA RunApp ==
  ASSUME Shaped, NEW w \in Workers, RunStep(w) \/ Timeout(w) \/ ChildExits(w)
  PROVE  UNCHANGED <<appAccess, manual, lost>>
<1>1. UNCHANGED lost
  BY RunStepMoves DEF RunMove, RunEffect, RunMoves, RunFrame
<1>2. UNCHANGED <<appAccess, manual>>
  BY DEF RunStep, Timeout, ChildExits, ChildKilled, ChildEnds, HasUnattendedStep, AwaitUnlock,
         PublishUnlock, WakeWindow, EndPrompt, PromptTimeout, TryStart, RequireClientAccess,
         Admitted, ApprovalPlan, SetSecretContext, AuthorizeStep, PollStep, PollTimeoutStep,
         ResolveBindings, Launch, RunError, DropLease, ReadUnattended, RedeemEffect, PurgeAll,
         PurgeDisconnected, AuthorizeUnattended, AuthorizeGranted, AuthorizePublish,
         AuthorizeRefused, PollWithdraw, PollAccepted, PollRefused, TakeDecision, coreVars
<1> QED BY <1>1, <1>2

(* A lock of the app begins in the window and ends in its thread; the app  *)
(* opens again by the user's hand or with the vault's lock.                *)
LEMMA NextApp ==
  ASSUME Shaped, Next
  PROVE  AppStep
<1>1. CASE \E w \in Workers : RunStep(w) \/ Timeout(w) \/ ChildExits(w)
  BY <1>1, RunApp DEF AppStep
<1>2. CASE \E p \in Procs : ProcStep(p)
  BY <1>2 DEF ProcStep, CancelPendingStep, RevokeAllStep, CancelRunStep, Block, Quiesce,
       LockVault, Reset, ReleaseBlock, ReleaseLocal, ProcFrame, AppStep, coreVars,
       CancelPending, RevokeAll, ResetAfterVaultLock, Active, IsAppActive
<1>3. CASE \/ \E w \in Workers : RequestStep(w) \/ StartLock(w) \/ Hangup(w)
           \/ \E w \in Workers, c \in Clients, S \in Bindings : StartRun(w, c, S)
  BY <1>3 DEF RequestStep, BeginRequest, FinishRequest, AwaitAck, StartLock, Hangup, StartRun,
       ProcFrame, RunFrame, PurgeAll, coreVars, AppStep
<1>4. CASE Drain \/ Spawn \/ FrameStep \/ UserBegins \/ ListenerCancel
  BY <1>4 DEF Drain, Spawn, FrameStep, UserBegins, ListenerCancel, ProcessExternalLock,
       SynchronizePhase, AppLockResult, HardLock, LockApp, AutoLock, IdleLock, RevokeAllGrants,
       Exit, RevokeSession, RevokeGrant, GuiFrame, ProcFrame, coreVars, AppStep
<1>5. CASE FinishLock
  BY <1>5 DEF FinishLock, FinishAppLock, AppStep, coreVars
<1>6. CASE BeginLock
  BY <1>6 DEF BeginLock, AppStep, coreVars
<1>7. CASE GuiProc /\ ~ BeginLock
  BY <1>7 DEF GuiProc, TryLocal, WaitLocal, CancelUnlock, RevokeTarget, Snapshot, Covers,
       IdleVault, ReleaseIdle, Clear, DisconnectUi, StopServing, CloseSessions, Join,
       ReadUnattended, PurgeAll, PurgeDisconnected, RevokePair, RevokeClient,
       CloseClientSessions, GuiFrame, ProcFrame, coreVars, AppStep
<1>8. CASE UserAnswers
  <2>1. CASE UnlockDesk
    BY <2>1 DEF UnlockDesk, UnlockApp, Active, IsAppActive, AppStep
  <2>2. CASE UnlockVault \/ \E allow \in BOOLEAN : ResolveUnlock(allow)
    BY <2>2 DEF UnlockVault, ResolveUnlock, coreVars, AppStep
  <2>3. CASE \E d \in {[kind |-> "approve", arg |-> 1], Deny} : Decide(d)
    BY <2>3 DEF Decide, SetDecision, AnswerFrame, AppStep
  <2>4. CASE \E c \in Clients, S \in SUBSET Secrets : GrantAccess(c, S)
    BY <2>4 DEF GrantAccess, GrantUnattended, AnswerFrame, AppStep
  <2>5. CASE \/ \E c \in Clients : CaptureAccess(c)
             \/ \E s \in Secrets : MutateSecret(s)
    BY <2>5 DEF CaptureAccess, CaptureUnattended, MutateSecret, CoordinateSecretMutation,
         AnswerFrame, AppStep
  <2> QED BY <1>8, <2>1, <2>2, <2>3, <2>4, <2>5 DEF UserAnswers
<1>9. CASE Peers
  BY <1>9 DEF Peers, SessionOpen, SessionEnd, SessionFrame, RegisterClientSession, Disconnect,
       AppStep
<1> QED BY <1>1, <1>2, <1>3, <1>4, <1>5, <1>6, <1>7, <1>8, <1>9, NextCases

-----------------------------------------------------------------------------
(* The window's local operations (UiLocalOperation).                       *)

(* The steps at which a procedure has the local operation; the window      *)
(* hands it over to the app lock's thread.                                 *)
LocalStep(o, s) ==
  \/ /\ o \in {"lock", "exit"}
     /\ s \in {"cancelUnlock", "cancelPending", "revokeAll", "block", "quiesce", "lockVault",
               "reset", "releaseBlock", "releaseLocal"}
  \/ /\ o \in {"revoke", "sync"}
     /\ s \in {"cancelPending", "block", "quiesce", "revokeAll", "releaseBlock", "releaseLocal"}
  \/ /\ o \in {"pair", "client"}
     /\ s \in {"block", "quiesce", "revokeTarget", "releaseBlock", "releaseLocal"}
  \/ /\ o \in {"appLock", "autoLock"}
     /\ s \in {"beginLock", "cancelRun", "snapshot", "covers", "spawn"}
  \/ o = "appLockThread" /\ s \in {"block", "quiesce", "finishLock", "releaseLocal"}
  \/ o = "autoLockThread" /\ s \in {"drain", "finishLock", "releaseLocal"}

OwnsLocal(p) == LocalStep(op[p], pc[p])

(* The local operation is under way exactly while the window or the app    *)
(* lock's thread has it, and only one of them does.                        *)
LocalInv ==
  /\ ui.local <=> OwnsLocal(Gui) \/ OwnsLocal(Locker)
  /\ ~ (OwnsLocal(Gui) /\ OwnsLocal(Locker))

(* A table takes the operation at `tryLocal' or `waitLocal' and gives it   *)
(* back at `releaseLocal'.                                                 *)
LocalFact(o, s) ==
  LET t == Flow[o][s] IN
  /\ s \in {"tryLocal", "waitLocal"} => LocalStep(o, t) /\ ~ LocalStep(o, s)
  /\ s = "releaseLocal" => LocalStep(o, s) /\ ~ LocalStep(o, t)
  /\ s \notin {"tryLocal", "waitLocal", "releaseLocal"} => (LocalStep(o, t) <=> LocalStep(o, s))
  /\ s = "block" => t = "quiesce" /\ "quiesce" \in DOMAIN Flow[o]

(* Every table of the window and of the app lock's thread does. *)
LEMMA LocalFacts ==
  \A o \in GuiOps \cup LockerOps : \A s \in DOMAIN Flow[o] : LocalFact(o, s)
<1>1. \A s \in DOMAIN LockFlow : LocalFact("lock", s)
  BY DEF LocalFact, LocalStep, Flow, LockFlow
<1>2. \A s \in DOMAIN Flow["exit"] : LocalFact("exit", s)
  BY DEF LocalFact, LocalStep, Flow, LockFlow
<1>3. \A s \in DOMAIN Flow["revoke"] : LocalFact("revoke", s)
  BY DEF LocalFact, LocalStep, Flow, RevokeFlow
<1>4. \A s \in DOMAIN Flow["sync"] : LocalFact("sync", s)
  BY DEF LocalFact, LocalStep, Flow, RevokeFlow
<1>5. /\ \A s \in DOMAIN Flow["pair"] : LocalFact("pair", s)
      /\ \A s \in DOMAIN Flow["client"] : LocalFact("client", s)
  BY DEF LocalFact, LocalStep, Flow, TargetFlow
<1>6. /\ \A s \in DOMAIN Flow["appLock"] : LocalFact("appLock", s)
      /\ \A s \in DOMAIN Flow["autoLock"] : LocalFact("autoLock", s)
  BY DEF LocalFact, LocalStep, Flow
<1>7. \A s \in DOMAIN Flow["idleLock"] : LocalFact("idleLock", s)
  BY DEF LocalFact, LocalStep, Flow
<1>8. \A s \in DOMAIN Flow["drop"] : LocalFact("drop", s)
  BY DEF LocalFact, LocalStep, Flow
<1>9. /\ \A s \in DOMAIN Flow["appLockThread"] : LocalFact("appLockThread", s)
      /\ \A s \in DOMAIN Flow["autoLockThread"] : LocalFact("autoLockThread", s)
  BY DEF LocalFact, LocalStep, Flow
<1>10. Flow["lock"] = LockFlow
  BY DEF Flow
<1> QED BY <1>1, <1>2, <1>3, <1>4, <1>5, <1>6, <1>7, <1>8, <1>9, <1>10 DEF GuiOps, LockerOps

(* The app lock's thread moves by its own steps only. *)
LEMMA LockerMoves ==
  ASSUME Shaped, Next
  PROVE  \/ pc'[Locker] = pc[Locker] /\ op'[Locker] = op[Locker]
         \/ ProcStep(Locker) \/ Drain \/ FinishLock \/ Spawn
<1>0. Gui \in Procs /\ Locker \in Procs /\ Locker \notin Workers /\ Gui # Locker
      /\ Workers \subseteq Procs
  BY ProcessAssumption DEF Procs
<1>1. CASE \E w \in Workers : RunStep(w) \/ Timeout(w) \/ ChildExits(w)
  BY <1>0, <1>1, RunStepMoves, RunPlaced
<1>2. ASSUME NEW p \in Procs, ProcStep(p), p # Locker
      PROVE  pc'[Locker] = pc[Locker] /\ op'[Locker] = op[Locker]
  BY <1>0, <1>2, ProcThread DEF Advances, Takes, Releases, Only
<1>3. CASE \/ \E w \in Workers : RequestStep(w) \/ StartLock(w) \/ Hangup(w)
           \/ \E w \in Workers, c \in Clients, S \in Bindings : StartRun(w, c, S)
  BY <1>0, <1>3, RequestThread DEF Advances, Only, Still
<1>4. CASE GuiProc \/ FrameStep \/ UserBegins
  BY <1>0, <1>4, GuiThread, WindowThread DEF Advances, Takes, Releases, Only, Still
<1>5. CASE UserAnswers \/ ListenerCancel \/ Peers
  BY <1>5 DEF UserAnswers, ListenerCancel, Peers, UnlockDesk, UnlockVault,
       ResolveUnlock, Decide, CaptureAccess, GrantAccess, MutateSecret, SessionOpen, SessionEnd,
       SessionFrame, AnswerFrame, ProcFrame
<1> QED BY <1>1, <1>2, <1>3, <1>4, <1>5, NextCases

(* The local operation stays where it is. *)
Stays == ui'.local = ui.local /\ \A p \in {Gui, Locker} : OwnsLocal(p)' <=> OwnsLocal(p)

Hands ==
  /\ ui'.local = ui.local /\ OwnsLocal(Gui) /\ ~ OwnsLocal(Gui)'
  /\ ~ OwnsLocal(Locker) /\ OwnsLocal(Locker)'

TakesLocal(p, q) ==
  /\ ~ ui.local /\ ui'.local = TRUE /\ OwnsLocal(p)'
  /\ OwnsLocal(q)' <=> OwnsLocal(q)

GivesLocal(p, q) ==
  /\ ui'.local = FALSE /\ OwnsLocal(p) /\ ~ OwnsLocal(p)'
  /\ OwnsLocal(q)' <=> OwnsLocal(q)

LocalMove ==
  \/ Stays \/ Hands \/ TakesLocal(Gui, Locker)
  \/ GivesLocal(Gui, Locker) \/ GivesLocal(Locker, Gui)

(* A step of a table that neither takes nor gives it back. *)
LEMMA LocalGo ==
  ASSUME Shaped, NEW p \in {Gui, Locker}, pc[p] \in ProcNames, Go(p), op' = op
  PROVE  /\ LocalFact(op[p], pc[p]) /\ pc'[p] = Flow[op[p]][pc[p]]
         /\ pc[p] \notin {"tryLocal", "waitLocal", "releaseLocal"} =>
              (OwnsLocal(p)' <=> OwnsLocal(p))
<1>1. p \in Procs /\ OnAll(pc, Procs) /\ ControlInv
  BY DEF Procs, Shaped, ThreadsOK
<1>2. op[p] \in GuiOps \cup LockerOps /\ pc[p] \in DOMAIN Flow[op[p]]
  BY <1>1, ProcAt, ProcessAssumption
<1>3. LocalFact(op[p], pc[p])
  BY <1>2, LocalFacts
<1>4. pc'[p] = Flow[op[p]][pc[p]]
  BY <1>1 DEF Go, Goto, OnAll
<1> QED BY <1>3, <1>4 DEF LocalFact, OwnsLocal

(* The steps the procedures share. *)
LEMMA ProcLocal ==
  ASSUME Shaped, NEW p \in {Gui, Locker}, ProcStep(p)
  PROVE  \/ ui' = ui /\ (OwnsLocal(p)' <=> OwnsLocal(p))
         \/ ui'.local = FALSE /\ OwnsLocal(p) /\ ~ OwnsLocal(p)'
<1>0. p \in Procs /\ OnAll(pc, Procs) /\ ControlInv /\ p \notin Workers
  BY ProcessAssumption DEF Procs, Shaped, ThreadsOK
<1>1. CASE \/ CancelPendingStep(p) \/ RevokeAllStep(p) \/ CancelRunStep(p) \/ Quiesce(p)
           \/ LockVault(p) \/ Reset(p) \/ ReleaseBlock(p)
  <2>1. /\ pc[p] \in ProcNames \ {"tryLocal", "waitLocal", "releaseLocal"} /\ Go(p) /\ op' = op
        /\ ui' = ui
    BY <1>0, <1>1 DEF CancelPendingStep, RevokeAllStep, CancelRunStep, Quiesce, LockVault, Reset,
         ReleaseBlock, ProcFrame, uiVars, At, ProcNames
  <2> QED BY <2>1, LocalGo
<1>2. CASE Block(p)
  <2>1. /\ pc[p] = "block" /\ op' = op /\ ui' = ui
        /\ pc'[p] = "quiesce" \/ pc'[p] = Flow[op[p]].quiesce
    BY <1>0, <1>2 DEF Block, At, Goto, ProcFrame, uiVars, OnAll
  <2>2. op[p] \in GuiOps \cup LockerOps /\ pc[p] \in DOMAIN Flow[op[p]]
    BY <1>0, <2>1, ProcAt, ProcessAssumption DEF ProcNames
  <2>3. LocalFact(op[p], "block") /\ LocalFact(op[p], "quiesce")
    BY <2>1, <2>2, LocalFacts DEF LocalFact
  <2>4. /\ LocalStep(op[p], "quiesce") <=> LocalStep(op[p], "block")
        /\ LocalStep(op[p], Flow[op[p]].quiesce) <=> LocalStep(op[p], "block")
    BY <2>3 DEF LocalFact
  <2> QED BY <2>1, <2>4 DEF OwnsLocal
<1>3. CASE ReleaseLocal(p)
  <2>1. /\ pc[p] = "releaseLocal" /\ Go(p) /\ op' = op /\ ui' = [ui EXCEPT !.local = FALSE]
    BY <1>3 DEF ReleaseLocal, At, ProcFrame
  <2>2. ui'.local = FALSE
    BY <2>1 DEF Shaped, SharedOK, UiRec
  <2>3. LocalFact(op[p], pc[p]) /\ pc'[p] = Flow[op[p]][pc[p]]
    BY <2>1, LocalGo DEF ProcNames
  <2> QED BY <2>1, <2>2, <2>3 DEF LocalFact, OwnsLocal
<1> QED BY <1>1, <1>2, <1>3 DEF ProcStep

(* The window's own steps. *)
LEMMA GuiLocal ==
  ASSUME Shaped, GuiProc
  PROVE  \/ ui'.local = ui.local /\ (OwnsLocal(Gui)' <=> OwnsLocal(Gui))
         \/ ~ ui.local /\ ui'.local = TRUE /\ OwnsLocal(Gui)'
         \/ ui'.local = FALSE /\ OwnsLocal(Gui) /\ ~ OwnsLocal(Gui)'
<1>0. /\ Gui \in Procs /\ OnAll(pc, Procs) /\ OnAll(op, Procs) /\ ControlInv /\ ui \in UiRec
      /\ pc[Gui] = "idle" \/ (op[Gui] \in GuiOps /\ StepOf(op[Gui], pc[Gui]))
  BY ProcessAssumption DEF Procs, Shaped, ThreadsOK, SharedOK, ControlInv, Placed
<1>1. CASE \/ CancelUnlock \/ RevokeTarget \/ Covers \/ Clear \/ StopServing \/ CloseSessions
           \/ Join \/ (Snapshot /\ Go(Gui)) \/ (IdleVault /\ Go(Gui))
           \/ (BeginLock /\ Go(Gui) /\ op' = op)
  <2>1. /\ pc[Gui] \in ProcNames \ {"tryLocal", "waitLocal", "releaseLocal"} /\ Go(Gui)
        /\ op' = op
    BY <1>1 DEF CancelUnlock, RevokeTarget, Covers, Clear, StopServing, CloseSessions, Join,
         Snapshot, IdleVault, BeginLock, ProcFrame, At, ProcNames
  <2>2. CASE ui' = ui
    BY <2>1, <2>2, LocalGo
  <2>3. CASE BeginLock /\ ui' # ui
    <3>1. Start("lock", "cancelFirst") /\ pc[Gui] = "beginLock"
      BY <2>3 DEF BeginLock, At
    <3>2. pc'[Gui] = "cancelFirst" /\ op'[Gui] = "lock"
      BY <1>0, <3>1 DEF Start, Goto, OnAll
    <3>3. op[Gui] = "lock" /\ "beginLock" \in DOMAIN Flow[op[Gui]]
      BY <1>0, <2>1, <3>1, <3>2, ProcAt DEF ProcNames
    <3> QED BY <3>3 DEF Flow, LockFlow
  <2> QED BY <1>1, <2>2, <2>3 DEF CancelUnlock, RevokeTarget, Covers, Clear, StopServing,
         CloseSessions, Join, Snapshot, IdleVault, GuiFrame, uiVars
<1>2. CASE (TryLocal \/ WaitLocal) /\ ui' # ui
  <2>1. /\ pc[Gui] \in {"tryLocal", "waitLocal"} /\ Go(Gui) /\ op' = op
        /\ ~ ui.local /\ ui' = [ui EXCEPT !.local = TRUE]
    <3>1. CASE TryLocal
      BY <1>2, <3>1 DEF TryLocal, At
    <3>2. CASE WaitLocal
      BY <1>2, <3>2 DEF WaitLocal, At, ProcFrame
    <3> QED BY <1>2, <3>1, <3>2
  <2>2. ui'.local = TRUE
    BY <1>0, <2>1 DEF UiRec
  <2>3. LocalFact(op[Gui], pc[Gui]) /\ pc'[Gui] = Flow[op[Gui]][pc[Gui]]
    BY <2>1, LocalGo DEF ProcNames
  <2> QED BY <2>1, <2>2, <2>3 DEF LocalFact, OwnsLocal
<1>3. CASE (TryLocal \/ WaitLocal) /\ ui' = ui
  <2>1. /\ pc[Gui] \in {"tryLocal", "waitLocal"} /\ pc'[Gui] \in {"cancelFirst", "idle", "clear"}
    <3>1. CASE TryLocal
      <4>1. ExternalLock \/ ui.local
        BY <1>0, <1>3, <3>1 DEF TryLocal, UiRec
      <4> QED BY <1>0, <3>1, <4>1 DEF TryLocal, At, Start, Goto, OnAll
    <3>2. CASE WaitLocal
      <4>1. ExternalLock
        BY <1>0, <1>3, <3>2 DEF WaitLocal, UiRec
      <4> QED BY <1>0, <3>2, <4>1 DEF WaitLocal, At, Goto, OnAll
    <3> QED BY <1>3, <3>1, <3>2
  <2>2. ~ OwnsLocal(Gui) /\ ~ OwnsLocal(Gui)'
    BY <2>1 DEF OwnsLocal, LocalStep
  <2> QED BY <1>3, <2>2
<1>4. CASE BeginLock /\ ~ (Go(Gui) /\ op' = op)
  <2>1. /\ pc[Gui] = "beginLock" /\ ui' = [ui EXCEPT !.local = FALSE]
        /\ Start("lock", "cancelFirst")
    BY <1>4 DEF BeginLock, At
  <2>2. ui'.local = FALSE /\ pc'[Gui] = "cancelFirst"
    BY <1>0, <2>1 DEF UiRec, Start, Goto, OnAll
  <2>3. op[Gui] \in {"appLock", "autoLock"}
    <3>1. op[Gui] \in GuiOps /\ "beginLock" \in DOMAIN Flow[op[Gui]]
      BY <1>0, <2>1, ProcAt DEF ProcNames
    <3> QED BY <3>1 DEF GuiOps, Flow, LockFlow, RevokeFlow, TargetFlow
  <2> QED BY <2>1, <2>2, <2>3 DEF OwnsLocal, LocalStep
<1>5. CASE Snapshot /\ ~ Go(Gui)
  <2>1. /\ pc[Gui] = "snapshot" /\ op' = op /\ ui' = ui /\ pc'[Gui] = "spawn"
    BY <1>0, <1>5 DEF Snapshot, At, GuiFrame, uiVars, Goto, OnAll
  <2>2. op[Gui] = "autoLock"
    <3>1. op[Gui] \in GuiOps /\ "snapshot" \in DOMAIN Flow[op[Gui]]
      BY <1>0, <2>1, ProcAt DEF ProcNames
    <3> QED BY <3>1 DEF GuiOps, Flow, LockFlow, RevokeFlow, TargetFlow
  <2> QED BY <2>1, <2>2 DEF OwnsLocal, LocalStep
<1>6. CASE (IdleVault /\ ~ Go(Gui)) \/ ReleaseIdle
  <2>1. /\ pc[Gui] \in {"idleVault", "releaseIdle"} /\ pc'[Gui] \in {"releaseIdle", "idle"}
        /\ ui' = ui
    BY <1>0, <1>6 DEF IdleVault, ReleaseIdle, At, Goto, OnAll, uiVars
  <2> QED BY <2>1 DEF OwnsLocal, LocalStep
<1>7. CASE DisconnectUi
  <2>1. pc[Gui] = "disconnect" /\ pc'[Gui] = "stop" /\ ui' = [ui EXCEPT !.connected = FALSE]
    BY <1>0, <1>7 DEF DisconnectUi, At, Goto, OnAll, Flow
  <2>2. ui'.local = ui.local
    BY <1>0, <2>1 DEF UiRec
  <2> QED BY <2>1, <2>2 DEF OwnsLocal, LocalStep
<1> QED BY <1>1, <1>2, <1>3, <1>4, <1>5, <1>6, <1>7 DEF GuiProc

(* Every step moves the local operation in one of these ways. *)
LEMMA NextLocal ==
  ASSUME Shaped, Next
  PROVE  LocalMove
<1>0. /\ Gui \in Procs /\ Locker \in Procs /\ Gui # Locker /\ Workers \subseteq Procs
      /\ Gui \notin Workers /\ Locker \notin Workers /\ ui \in UiRec
      /\ OnAll(pc, Procs) /\ OnAll(op, Procs)
  BY ProcessAssumption DEF Procs, Shaped, SharedOK, ThreadsOK
<1>1. ASSUME NEW p, pc'[p] = pc[p] /\ op'[p] = op[p]
      PROVE  OwnsLocal(p)' <=> OwnsLocal(p)
  BY <1>1 DEF OwnsLocal
<1>2. CASE \E w \in Workers : RunStep(w) \/ Timeout(w) \/ ChildExits(w)
  <2>1. PICK w \in Workers : RunStep(w) \/ Timeout(w) \/ ChildExits(w)
    BY <1>2
  <2>2. /\ ui' = ui /\ pc'[Gui] = pc[Gui] /\ op'[Gui] = op[Gui]
        /\ pc'[Locker] = pc[Locker] /\ op'[Locker] = op[Locker]
    BY <1>0, <2>1, RunStepMoves, RunPlaced DEF RunMove, RunEffect, RunMoves, RunFrame
  <2> QED BY <1>1, <2>2 DEF LocalMove, Stays
<1>3. ASSUME NEW w \in Workers, ProcStep(w)
      PROVE  LocalMove
  <2>1. /\ pc'[Gui] = pc[Gui] /\ op'[Gui] = op[Gui]
        /\ pc'[Locker] = pc[Locker] /\ op'[Locker] = op[Locker]
    BY <1>0, <1>3, ProcThread DEF Advances, Takes, Releases, Only
  <2>2. pc[w] # "releaseLocal"
    <3>1. pc[w] \in ProcNames => pc[w] \in DOMAIN Flow["rpcLock"]
      BY <1>0, ProcAt DEF Shaped
    <3> QED BY <3>1 DEF Flow, ProcNames
  <2>3. ui' = ui
    BY <1>3, <2>2 DEF ProcStep, CancelPendingStep, RevokeAllStep, CancelRunStep, Block, Quiesce,
         LockVault, Reset, ReleaseBlock, ReleaseLocal, At, uiVars
  <2> QED BY <1>1, <2>1, <2>3 DEF LocalMove, Stays
<1>4. CASE ProcStep(Gui)
  <2>1. pc'[Locker] = pc[Locker] /\ op'[Locker] = op[Locker]
    BY <1>0, <1>4, ProcThread DEF Advances, Takes, Releases, Only
  <2> QED BY <1>1, <1>4, <2>1, ProcLocal DEF LocalMove, Stays, GivesLocal
<1>5. CASE ProcStep(Locker)
  <2>1. pc'[Gui] = pc[Gui] /\ op'[Gui] = op[Gui]
    BY <1>0, <1>5, ProcThread DEF Advances, Takes, Releases, Only
  <2> QED BY <1>1, <1>5, <2>1, ProcLocal DEF LocalMove, Stays, GivesLocal
<1>6. CASE GuiProc
  <2>1. pc'[Locker] = pc[Locker] /\ op'[Locker] = op[Locker]
    BY <1>0, <1>6, GuiThread DEF Advances, Releases, Only
  <2> QED BY <1>1, <1>6, <2>1, GuiLocal DEF LocalMove, Stays, TakesLocal, GivesLocal
<1>7. CASE Drain \/ FinishLock
  <2>1. /\ pc[Locker] \in ProcNames \ {"tryLocal", "waitLocal", "releaseLocal"} /\ Go(Locker)
        /\ op' = op /\ ui' = ui
    BY <1>7 DEF Drain, FinishLock, At, ProcFrame, uiVars, ProcNames
  <2>2. pc'[Gui] = pc[Gui]
    BY <1>0, <2>1 DEF Go, Goto, OnAll
  <2>3. OwnsLocal(Locker)' <=> OwnsLocal(Locker)
    BY <2>1, LocalGo
  <2> QED BY <1>1, <2>1, <2>2, <2>3 DEF LocalMove, Stays
<1>8. CASE Spawn
  <2>1. ui' = ui
    BY <1>8 DEF Spawn, GuiFrame, uiVars
  <2> QED BY <1>8, <2>1, SpawnMoves DEF LocalMove, Hands, OwnsLocal, LocalStep
<1>9. CASE FrameStep \/ UserBegins
  <2>1. ui'.local = ui.local
    <3>1. CASE ProcessExternalLock
      BY <1>0, <3>1 DEF ProcessExternalLock, UiRec
    <3>2. CASE ~ ProcessExternalLock
      <4>1. ui' = ui
        BY <1>9, <3>2 DEF FrameStep, UserBegins, SynchronizePhase, AppLockResult, HardLock,
             LockApp, AutoLock, IdleLock, RevokeAllGrants, Exit, RevokeSession, RevokeGrant,
             GuiFrame, uiVars
      <4> QED BY <4>1
    <3> QED BY <3>1, <3>2
  <2>2. /\ pc[Gui] = "idle"
        /\ pc'[Gui] \in {"idle", "cancelFirst", "tryLocal", "idleVault"}
    BY <1>0, <1>9 DEF FrameStep, UserBegins, ProcessExternalLock, SynchronizePhase,
         AppLockResult, HardLock, LockApp, AutoLock, IdleLock, RevokeAllGrants, Exit,
         RevokeSession, RevokeGrant, UserStarts, Start, Goto, At, WindowActive, OnAll
  <2>3. ~ OwnsLocal(Gui) /\ ~ OwnsLocal(Gui)'
    BY <2>2 DEF OwnsLocal, LocalStep
  <2>4. pc'[Locker] = pc[Locker] /\ op'[Locker] = op[Locker]
    BY <1>0, <1>9, WindowThread DEF Advances, Takes, Only, Still
  <2> QED BY <1>1, <2>1, <2>3, <2>4 DEF LocalMove, Stays
<1>10. CASE \/ \E w \in Workers : RequestStep(w) \/ StartLock(w) \/ Hangup(w)
            \/ \E w \in Workers, c \in Clients, S \in Bindings : StartRun(w, c, S)
  <2>1. /\ pc'[Gui] = pc[Gui] /\ op'[Gui] = op[Gui]
        /\ pc'[Locker] = pc[Locker] /\ op'[Locker] = op[Locker]
    BY <1>0, <1>10, RequestThread DEF Advances, Only, Still
  <2>2. \/ ui' = ui \/ \E n : ui' = [ui EXCEPT !.requested = n] \/ ui' = [ui EXCEPT !.ready = n]
    BY <1>10 DEF RequestStep, BeginRequest, FinishRequest, AwaitAck, StartLock, Hangup, StartRun,
         RunFrame, uiVars
  <2>3. ui'.local = ui.local
    BY <1>0, <2>2 DEF UiRec
  <2> QED BY <1>1, <2>1, <2>3 DEF LocalMove, Stays
<1>11. CASE UserAnswers \/ ListenerCancel \/ Peers
  <2>1. UNCHANGED <<ui, pc, op>>
    BY <1>11 DEF UserAnswers, ListenerCancel, Peers, UnlockDesk, UnlockVault, ResolveUnlock,
         Decide, CaptureAccess, GrantAccess, MutateSecret, SessionOpen, SessionEnd, SessionFrame,
         AnswerFrame, ProcFrame, uiVars
  <2> QED BY <2>1 DEF LocalMove, Stays, OwnsLocal
<1>12. CASE \E p \in Procs : ProcStep(p)
  BY <1>12, <1>3, <1>4, <1>5 DEF Procs
<1> QED BY <1>2, <1>6, <1>7, <1>8, <1>9, <1>10, <1>11, <1>12, NextCases

(* The local operation stays with one of the two. *)
LEMMA LocalNext ==
  ASSUME Shaped, LocalInv, [Next]_vars
  PROVE  LocalInv'
<1>1. CASE Next
  <2>1. ui.local \in BOOLEAN
    BY DEF Shaped, SharedOK, UiRec
  <2> QED BY <1>1, <2>1, NextLocal DEF LocalMove, LocalInv, Stays, Hands, TakesLocal, GivesLocal
<1>2. CASE UNCHANGED vars
  BY <1>2 DEF vars, uiVars, LocalInv, OwnsLocal
<1> QED BY <1>1, <1>2

-----------------------------------------------------------------------------
(* The app is locked.                                                      *)

AutoSteps == {"snapshot", "covers", "spawn"}

(* How the window comes to the steps of an automatic lock after its start. *)
LEMMA GuiAuto ==
  ASSUME Shaped, Next, op'[Gui] = "autoLock", pc'[Gui] \in AutoSteps
  PROVE  /\ op[Gui] = "autoLock"
         /\ \/ pc[Gui] = pc'[Gui]
            \/ pc'[Gui] = "snapshot" /\ BeginLock /\ BeginAppLock(TRUE)
            \/ Snapshot /\ (pc'[Gui] = "covers" \/ (pc'[Gui] = "spawn" /\ active = NoRun))
            \/ Covers /\ pc'[Gui] = "spawn"
<1>0. /\ Gui \in Procs /\ OnAll(pc, Procs) /\ OnAll(op, Procs)
      /\ op[Gui] = "autoLock" => pc[Gui] = "idle" \/ StepOf("autoLock", pc[Gui])
      /\ Gui \notin Workers /\ Gui # Locker
  BY ProcessAssumption DEF Procs, Shaped, ThreadsOK, ControlInv, Placed
<1>1. CASE pc'[Gui] = pc[Gui] /\ op'[Gui] = op[Gui]
  BY <1>1
<1>2. CASE ProcStep(Gui)
  <2>1. op'[Gui] = op[Gui]
    BY <1>0, <1>2 DEF ProcStep, CancelPendingStep, RevokeAllStep, CancelRunStep, Block, Quiesce,
         LockVault, Reset, ReleaseBlock, ReleaseLocal, ProcFrame
  <2>2. op[Gui] = "autoLock" /\ pc[Gui] \in {"cancelFirst", "cancelPending", "revokeFirst",
          "revokeAll", "cancelRun", "block", "quiesce", "lockVault", "reset", "releaseBlock",
          "releaseLocal"}
    BY <1>2, <2>1 DEF ProcStep, CancelPendingStep, RevokeAllStep, CancelRunStep, Block, Quiesce,
         LockVault, Reset, ReleaseBlock, ReleaseLocal, At
  <2> QED BY <1>0, <2>2 DEF StepOf, Flow
<1>3. CASE GuiProc
  <2>1. CASE BeginLock
    <3>1. pc[Gui] = "beginLock" /\ IsAppActive
      BY <1>0, <2>1 DEF BeginLock, At, Start, OnAll
    <3>2. BeginAppLock(op[Gui] = "autoLock") /\ op' = op /\ pc'[Gui] = Flow[op[Gui]]["beginLock"]
      BY <1>0, <2>1, <3>1 DEF BeginLock, At, Go, Goto, OnAll
    <3>3. op[Gui] = "autoLock" /\ (op[Gui] = "autoLock") = TRUE /\ pc'[Gui] = "snapshot"
      BY <3>2 DEF Flow
    <3> QED BY <2>1, <3>2, <3>3
  <2>2. CASE Snapshot
    <3>1. /\ op' = op /\ pc[Gui] = "snapshot"
          /\ \/ active = NoRun /\ pc'[Gui] = "spawn"
             \/ pc'[Gui] = Flow[op[Gui]]["snapshot"]
      BY <1>0, <2>2 DEF Snapshot, At, Go, Goto, OnAll
    <3>2. op[Gui] = "autoLock" /\ Flow["autoLock"]["snapshot"] = "covers"
      BY <3>1 DEF Flow
    <3> QED BY <2>2, <3>1, <3>2
  <2>3. CASE Covers
    <3>1. op' = op /\ pc[Gui] = "covers" /\ pc'[Gui] = Flow[op[Gui]]["covers"]
      BY <1>0, <2>3 DEF Covers, At, Go, Goto, OnAll, ProcFrame
    <3>2. op[Gui] = "autoLock" /\ Flow["autoLock"]["covers"] = "spawn"
      BY <3>1 DEF Flow
    <3> QED BY <2>3, <3>1, <3>2
  <2>4. CASE ~ BeginLock /\ ~ Snapshot /\ ~ Covers
    <3>1. CASE TryLocal
      <4>1. pc'[Gui] \in {"cancelFirst", "idle"} \/ (op[Gui] = "autoLock" /\ pc'[Gui] = "beginLock")
        BY <1>0, <3>1 DEF TryLocal, At, Start, Go, Goto, OnAll, Flow
      <4> QED BY <4>1 DEF AutoSteps
    <3>2. CASE DisconnectUi
      BY <1>0, <3>2 DEF DisconnectUi, OnAll
    <3>3. CASE ~ TryLocal /\ ~ DisconnectUi
      <4>1. /\ op'[Gui] = op[Gui]
            /\ pc[Gui] \in {"waitLocal", "cancelUnlock", "revokeTarget", "idleVault",
                            "releaseIdle", "clear", "stop", "closeSessions", "join"}
        BY <1>0, <1>3, <2>4, <3>3 DEF GuiProc, WaitLocal, CancelUnlock, RevokeTarget, IdleVault,
             ReleaseIdle, Clear, StopServing, CloseSessions, Join, At, GuiFrame, ProcFrame
      <4>2. op[Gui] = "autoLock"
        BY <4>1
      <4> QED BY <1>0, <4>1, <4>2 DEF StepOf, Flow
    <3> QED BY <3>1, <3>2, <3>3
  <2> QED BY <2>1, <2>2, <2>3, <2>4
<1>4. CASE Spawn
  BY <1>4, SpawnMoves DEF AutoSteps
<1>5. CASE FrameStep \/ UserBegins
  <2>1. \/ pc'[Gui] = pc[Gui] /\ op'[Gui] = op[Gui]
        \/ pc'[Gui] \in {"cancelFirst", "tryLocal", "idleVault"}
    BY <1>0, <1>5 DEF FrameStep, UserBegins, ProcessExternalLock, SynchronizePhase,
         AppLockResult, HardLock, LockApp, AutoLock, IdleLock, RevokeAllGrants, Exit,
         RevokeSession, RevokeGrant, UserStarts, Start, Goto, OnAll
  <2> QED BY <1>1, <2>1 DEF AutoSteps
<1> QED BY <1>1, <1>2, <1>3, <1>4, <1>5, GuiMoves

(* How the thread of an automatic lock comes to its steps. *)
LEMMA LockerAuto ==
  ASSUME Shaped, Next, op'[Locker] = "autoLockThread", pc'[Locker] \in {"drain", "finishLock"}
  PROVE  \/ op[Locker] = "autoLockThread" /\ pc[Locker] = pc'[Locker]
         \/ Spawn /\ op[Gui] = "autoLock" /\ pc[Gui] = "spawn" /\ pc'[Locker] = "drain"
         \/ op[Locker] = "autoLockThread" /\ Drain /\ pc'[Locker] = "finishLock"
<1>0. /\ Locker \in Procs /\ OnAll(pc, Procs) /\ OnAll(op, Procs) /\ Locker \notin Workers
      /\ Gui # Locker
      /\ op[Locker] = "autoLockThread" =>
           pc[Locker] = "idle" \/ pc[Locker] \in DOMAIN Flow["autoLockThread"]
  BY ProcessAssumption DEF Procs, Shaped, ThreadsOK, ControlInv, Placed
<1>1. CASE pc'[Locker] = pc[Locker] /\ op'[Locker] = op[Locker]
  BY <1>1
<1>2. CASE ProcStep(Locker)
  <2>1. op'[Locker] = op[Locker]
    BY <1>0, <1>2 DEF ProcStep, CancelPendingStep, RevokeAllStep, CancelRunStep, Block, Quiesce,
         LockVault, Reset, ReleaseBlock, ReleaseLocal, ProcFrame
  <2>2. op[Locker] = "autoLockThread"
    BY <2>1
  <2>3. pc[Locker] \notin {"cancelFirst", "cancelPending", "revokeFirst", "revokeAll",
          "cancelRun", "block", "quiesce", "lockVault", "reset", "releaseBlock"}
    BY <1>0, <2>2 DEF Flow
  <2>4. ReleaseLocal(Locker)
    BY <1>2, <2>3 DEF ProcStep, CancelPendingStep, RevokeAllStep, CancelRunStep, Block, Quiesce,
         LockVault, Reset, ReleaseBlock, At
  <2>5. pc'[Locker] = "idle"
    BY <1>0, <2>2, <2>4 DEF ReleaseLocal, At, Go, Goto, OnAll, Flow
  <2> QED BY <2>5
<1>3. CASE Drain
  BY <1>0, <1>3 DEF Drain, At, Go, Goto, OnAll, Flow, ProcFrame
<1>4. CASE FinishLock
  <2>1. op[Locker] = "autoLockThread" /\ pc'[Locker] = "releaseLocal"
    BY <1>0, <1>4 DEF FinishLock, At, Go, Goto, OnAll, Flow
  <2> QED BY <2>1
<1>5. CASE Spawn
  BY <1>5, SpawnMoves
<1> QED BY <1>1, <1>2, <1>3, <1>4, <1>5, LockerMoves

(* A lock of the app has cancelled the published request, and leaves only  *)
(* unattended grants, a manual one none; what it took away stays away.     *)
AppInv ==
  ~ IsAppActive =>
    /\ pending.id = 0 \/ pending.decision = Cancel
    /\ \A c \in Clients, s \in Secrets :
         /\ grants[c][s].kind \in {"none", "unattended"}
         /\ manual => grants[c][s].kind = "none"
         /\ <<c, s>> \in lost => grants[c][s].kind = "none"

(* Nothing is granted, approved or asked while the app is locked. *)
LEMMA AppNext ==
  ASSUME Shaped, AppInv, [Next]_vars
  PROVE  AppInv'
<1>1. CASE UNCHANGED vars
  <2>1. UNCHANGED <<appAccess, pending, grants, manual, lost>>
    BY <1>1 DEF vars, coreVars
  <2> QED BY <2>1 DEF AppInv, IsAppActive
<1>2. CASE Next
  <2>0. CoreTypeOK /\ AppStep /\ CoreMethod /\ RequestOrigin
    BY <1>2, NextApp, NextMethod, MethodRequest DEF Shaped
  <2>1. SUFFICES ASSUME ~ IsAppActive'
                 PROVE  /\ pending'.id = 0 \/ pending'.decision = Cancel
                        /\ \A c \in Clients, s \in Secrets :
                             /\ grants'[c][s].kind \in {"none", "unattended"}
                             /\ manual' => grants'[c][s].kind = "none"
                             /\ <<c, s>> \in lost' => grants'[c][s].kind = "none"
    BY DEF AppInv, IsAppActive
  <2>2. CASE BeginLock /\ BeginAppLock(op[Gui] = "autoLock")
    <3>1. IsAppActive /\ pending' = CancelPendingState(pending)
      BY <2>2 DEF BeginAppLock
    <3>2. pending'.id = 0 \/ pending'.decision = Cancel
      BY <2>0, <3>1, CancelledRequest DEF NoPending
    <3>3. \A q \in lost' : grants'[q[1]][q[2]].kind = "none"
      BY <2>2, <3>1 DEF BeginLock
    <3>4. ASSUME NEW c \in Clients, NEW s \in Secrets
          PROVE  /\ grants'[c][s].kind \in {"none", "unattended"}
                 /\ manual' => grants'[c][s].kind = "none"
                 /\ <<c, s>> \in lost' => grants'[c][s].kind = "none"
      <4>1. Earlier(c, s)
        BY <2>0, <2>2, AppLockOrigin
      <4>2. appAccess' # appAccess
        BY <2>1, <3>1 DEF IsAppActive
      <4>3. \/ grants'[c][s].kind = "none"
            \/ grants'[c][s].kind = "unattended" /\ manual' = FALSE
        BY <2>1, <3>1, <4>1, <4>2 DEF Earlier, Kept, FromRequest
      <4>4. <<c, s>> \in lost' => grants'[c][s].kind = "none"
        BY <3>3
      <4> QED BY <4>3, <4>4
    <3> QED BY <3>2, <3>4
  <2>3. CASE ~ IsAppActive /\ UNCHANGED <<manual, lost>>
    <3>1. pending.id = 0 \/ pending.decision = Cancel
      BY <2>3 DEF AppInv
    <3>2. pending \in PendingState /\ (pending.id = 0 => pending = NoPending)
      BY <2>0, PendingFields DEF CoreTypeOK
    <3>3. pending'.id = 0 \/ pending'.decision = Cancel
      BY <2>0, <2>3, <3>1, <3>2 DEF RequestOrigin, RequestKept, RequestNew, SameRequest, NoPending,
           Cancel, NoDecision
    <3>4. pending.decision.kind \notin Approving
      BY <3>1, <3>2 DEF NoPending, NoDecision, Cancel, Approving
    <3>5. ASSUME NEW c \in Clients, NEW s \in Secrets
          PROVE  /\ grants'[c][s].kind \in {"none", "unattended"}
                 /\ manual' => grants'[c][s].kind = "none"
                 /\ <<c, s>> \in lost' => grants'[c][s].kind = "none"
      <4>1. Origin(c, s)
        BY <2>0, MethodOrigin
      <4>2. grants'[c][s].kind = "none" \/ grants'[c][s] = grants[c][s]
        BY <2>1, <2>3, <3>4, <4>1 DEF Origin, Earlier, Kept, FromRequest, FromContext
      <4> QED BY <2>3, <4>2 DEF AppInv
    <3> QED BY <3>3, <3>5
  <2>4. CASE FinishLock /\ FinishAppLock(desk.epoch) /\ UNCHANGED <<manual, lost>>
    <3>1. ~ IsAppActive
      BY <2>4 DEF FinishAppLock, IsAppActive
    <3> QED BY <2>3, <2>4, <3>1
  <2>5. CASE UNCHANGED <<appAccess, manual, lost>>
    BY <2>1, <2>3, <2>5 DEF IsAppActive
  <2> QED BY <2>0, <2>1, <2>2, <2>4, <2>5 DEF AppStep
<1> QED BY <1>1, <1>2

(* While an automatic lock is under way, it is the last one that began. *)
AutoInv ==
  (\/ op[Gui] = "autoLock" /\ pc[Gui] \in AutoSteps
   \/ op[Locker] = "autoLockThread" /\ pc[Locker] \in {"drain", "finishLock"}) => ~ manual

(* Another lock of the app cannot begin while the local operation is taken. *)
LEMMA AutoNext ==
  ASSUME Shaped, LocalInv, AutoInv, [Next]_vars
  PROVE  AutoInv'
<1>1. CASE UNCHANGED vars
  BY <1>1 DEF AutoInv, vars, coreVars
<1>2. CASE Next
  <2>0. AppStep
    BY <1>2, NextApp
  <2>1. CASE BeginLock /\ BeginAppLock(op[Gui] = "autoLock")
    <3>1. pc[Gui] = "beginLock" /\ manual' = (op[Gui] # "autoLock")
      BY <2>1 DEF BeginLock, BeginAppLock, At
    <3>2. op[Gui] \in {"appLock", "autoLock"}
      <4>1. op[Gui] \in GuiOps /\ "beginLock" \in DOMAIN Flow[op[Gui]]
        BY <3>1, ProcAt DEF Procs, Shaped, ProcNames
      <4> QED BY <4>1 DEF GuiOps, Flow, LockFlow, RevokeFlow, TargetFlow
    <3>3. ~ OwnsLocal(Locker)
      BY <3>1, <3>2 DEF LocalInv, OwnsLocal, LocalStep
    <3>4. ~ (op[Locker] = "autoLockThread" /\ pc[Locker] \in {"drain", "finishLock"})
      BY <3>3 DEF OwnsLocal, LocalStep
    <3>5. ~ (op'[Locker] = "autoLockThread" /\ pc'[Locker] \in {"drain", "finishLock"})
      BY <1>2, <3>1, <3>4, LockerAuto DEF Drain, At
    <3>6. op'[Gui] = "autoLock" /\ pc'[Gui] \in AutoSteps => op[Gui] = "autoLock"
      BY <1>2, GuiAuto
    <3> QED BY <3>1, <3>5, <3>6 DEF AutoInv
  <2>2. CASE manual' = manual
    <3>1. ASSUME op'[Gui] = "autoLock", pc'[Gui] \in AutoSteps
          PROVE  ~ manual'
      <4>1. CASE BeginAppLock(TRUE)
        BY <4>1 DEF BeginAppLock
      <4>2. CASE Snapshot \/ Covers \/ pc[Gui] = pc'[Gui]
        <5>1. op[Gui] = "autoLock" /\ pc[Gui] \in AutoSteps
          BY <1>2, <3>1, <4>2, GuiAuto DEF Snapshot, Covers, At, AutoSteps
        <5> QED BY <2>2, <5>1 DEF AutoInv
      <4> QED BY <1>2, <3>1, <4>1, <4>2, GuiAuto
    <3>2. ASSUME op'[Locker] = "autoLockThread", pc'[Locker] \in {"drain", "finishLock"}
          PROVE  ~ manual'
      <4>1. \/ op[Locker] = "autoLockThread" /\ pc[Locker] \in {"drain", "finishLock"}
            \/ op[Gui] = "autoLock" /\ pc[Gui] = "spawn"
        BY <1>2, <3>2, LockerAuto DEF Drain, At
      <4> QED BY <2>2, <4>1 DEF AutoInv, AutoSteps
    <3> QED BY <3>1, <3>2 DEF AutoInv
  <2> QED BY <2>0, <2>1, <2>2 DEF AppStep
<1> QED BY <1>1, <1>2

(* While the app is locked by hand, no run is past its admission. *)
ManualInv ==
  appAccess.phase = "locked" /\ manual =>
    \A w \in Workers : pc[w] \notin LeaseSteps \ {"access", "dropLease"}

(* The lock completes without a run, and admits none without access. *)
LEMMA ManualNext ==
  ASSUME BrokerInv, LocalInv, AppInv, AutoInv, ManualInv, [Next]_vars
  PROVE  ManualInv'
<1> DEFINE Inside == LeaseSteps \ {"access", "dropLease"}
<1>1. CASE UNCHANGED vars
  BY <1>1 DEF ManualInv, vars, coreVars
<1>2. CASE Next
  <2>0. Shaped /\ ThreadStep /\ AppStep
    BY <1>2, NextThread, NextApp DEF BrokerInv
  <2>1. SUFFICES ASSUME appAccess'.phase = "locked", manual', NEW w \in Workers, pc'[w] \in Inside
                 PROVE  FALSE
    BY DEF ManualInv
  <2>2. CASE UNCHANGED <<appAccess, manual, lost>>
    <3>1. pc[w] \notin Inside /\ ~ IsAppActive /\ manual
      BY <2>1, <2>2 DEF ManualInv, IsAppActive
    <3>2. \A c \in Clients : ~ ClientHasUnattended(c)
      <4>1. \A c \in Clients, s \in Secrets : PurgedGrants[c][s].kind = "none"
        <5>1. CoreTypeOK /\ \A c \in Clients, s \in Secrets : grants[c][s].kind = "none"
          BY <3>1 DEF AppInv, BrokerInv, Shaped
        <5> QED BY <5>1, PurgedEntry DEF NoGrant
      <4> QED BY <4>1 DEF ClientHasUnattended, HasUnattended, IsUnattended
    <3>3. ~ RunMove(w)
      <4>1. SUFFICES ASSUME RunMove(w)
                     PROVE  FALSE
        OBVIOUS
      <4>2. pc[w] \in LeaseSteps \ {"dropLease"} /\ pc[w] = "access"
        BY <2>1, <3>1, <4>1, LeaseNames DEF RunMove, RunEffect, RunLeases
      <4>3. pc'[w] = "admitted"
        BY <2>1, <4>1, <4>2 DEF RunMove, RunGuards
      <4>4. IsAppActive \/ ClientHasUnattended(call[w].client)
        BY <4>1, <4>3 DEF RunMove, RunGuards
      <4>5. call[w].client \in Clients
        BY <2>0, <4>2, RunAt DEF Shaped, RunSteps
      <4> QED BY <3>1, <3>2, <4>4, <4>5
    <3>4. ASSUME NEW v \in Workers, RunMove(v)
          PROVE  FALSE
      <4>1. pc'[w] = pc[w]
        BY <2>0, <3>3, <3>4, RunPlaced DEF Procs
      <4> QED BY <2>1, <3>1, <4>1
    <3> QED BY <2>0, <2>1, <3>1, <3>4, NotARun
  <2>3. CASE FinishLock /\ manual' = manual
    <3>1. pc[Locker] = "finishLock" /\ Locker \in Procs /\ UNCHANGED <<active, child>>
      BY <2>3 DEF FinishLock, At, Procs, runVars
    <3>2. op[Locker] \in LockerOps
      BY <2>0, <3>1, ProcAt DEF Shaped, ProcNames
    <3>3. op[Locker] = "appLockThread"
      BY <2>1, <2>3, <3>1, <3>2 DEF AutoInv, LockerOps
    <3>4. active = NoRun
      BY <3>1, <3>3 DEF BrokerInv, BlockInv, HeldStep
    <3>5. pc'[w] = pc[w]
      BY <2>0, <2>3, ProcessAssumption DEF FinishLock, Go, Goto, Shaped, ThreadsOK, OnAll, Procs
    <3> QED BY <2>1, <3>4, <3>5, NoneActive
  <2>4. ~ IsAppActive' /\ ~ BeginAppLock(op[Gui] = "autoLock")
    <3>1. ASSUME BeginAppLock(op[Gui] = "autoLock")
          PROVE  FALSE
      <4>1. appAccess' = [phase |-> "locking", epoch |-> lockEpoch + 1]
        BY <3>1 DEF BeginAppLock
      <4> QED BY <2>1, <4>1
    <3> QED BY <2>1, <3>1 DEF IsAppActive
  <2> QED BY <2>0, <2>2, <2>3, <2>4 DEF AppStep
<1> QED BY <1>1, <1>2

(* While the app is locked by hand, no child is alive: the lock blocks new *)
(* runs and waits for the active one before it completes, and a run that   *)
(* gets the lease later finds neither an open app nor unattended access    *)
(* (require_client_access).                                                *)
THEOREM ManualLockQuiet == Spec => []ManualLockIsQuiet
<1> DEFINE Inv == BrokerInv /\ LocalInv /\ AppInv /\ AutoInv /\ ManualInv
<1>1. Init => Inv
  <2>1. Init => LocalInv
    BY DEF Init, LocalInv, OwnsLocal, LocalStep, Procs
  <2>2. Init => AppInv /\ ManualInv
    BY DEF Init, CoreInit, AppInv, ManualInv, IsAppActive, Active
  <2>3. Init => AutoInv
    BY DEF Init, CoreInit, AutoInv
  <2> QED BY <2>1, <2>2, <2>3, BrokerInit
<1>2. Inv /\ [Next]_vars => Inv'
  BY BrokerNext, LocalNext, AppNext, AutoNext, ManualNext DEF BrokerInv
<1>3. Inv => ManualLockIsQuiet
  BY DEF BrokerInv, Shaped, ThreadsOK, LeaseInv, ManualInv, ManualLockIsQuiet, LeaseSteps
<1> QED BY <1>1, <1>2, <1>3, PTL DEF Spec

-----------------------------------------------------------------------------
(* Revoked access.                                                         *)

(* A run that does not move keeps its place, its request, its lease and    *)
(* its child, whatever the other threads do.                               *)
LEMMA WorkerStays ==
  ASSUME BrokerInv, Next, NEW w \in Workers, ~ RunMove(w),
         pc[w] \in LeaseSteps \/ pc'[w] \in LeaseSteps
  PROVE  /\ pc'[w] = pc[w] /\ SameCall(call[w], call'[w])
         /\ active' = active /\ active.worker = w
         /\ w \in child' <=> w \in child
<1>0. /\ w \in Procs /\ w # Gui /\ w # Locker /\ NoWorker \notin Workers
      /\ Shaped /\ ThreadStep /\ CallStep(w)
  BY ProcessAssumption, NextThread, NextCalls DEF BrokerInv, Procs
<1>1. pc'[w] = pc[w] /\ (UNCHANGED <<active, child>> \/ \E v \in Workers : v # w /\ RunMove(v))
  <2>1. CASE \E v \in Workers : RunMove(v)
    BY <1>0, <2>1, RunPlaced
  <2>2. CASE \E p \in Procs : Only(p)
    <3>1. PICK p \in Procs : Only(p)
      BY <2>2
    <3>2. p # w
      BY <3>1, LeaseNames DEF Only
    <3> QED BY <1>0, <3>1, <3>2 DEF Only
  <2>3. CASE Spawn \/ Still
    BY <1>0, <2>3, SpawnMoves DEF Still
  <2> QED BY <1>0, <2>1, <2>2, <2>3 DEF ThreadStep, Advances, Takes, Releases
<1>2. pc[w] \in LeaseSteps /\ active.worker = w
  BY <1>1 DEF BrokerInv, LeaseInv
<1>3. SameCall(call[w], call'[w])
  <2>1. pc[w] \notin {"idle", "releaseBlock"}
    BY <1>2 DEF LeaseSteps
  <2> QED BY <1>0, <2>1 DEF CallStep
<1>4. active' = active /\ (w \in child' <=> w \in child)
  <2>1. SUFFICES ASSUME NEW v \in Workers, v # w, RunMove(v)
                 PROVE  active' = active /\ (w \in child' <=> w \in child)
    BY <1>1
  <2>2. pc[v] \notin LeaseSteps /\ active # NoRun
    BY <1>0, <1>2, <2>1 DEF BrokerInv, LeaseInv, NoRun
  <2>3. RunLeases(v)
    BY <2>1 DEF RunMove, RunEffect
  <2>4. active' = active
    BY <2>2, <2>3 DEF RunLeases, LeaseSteps
  <2>5. w \in child' <=> w \in child
    BY <2>1, <2>3 DEF RunLeases
  <2> QED BY <2>4, <2>5
<1> QED BY <1>1, <1>2, <1>3, <1>4

(* While new runs are blocked no run becomes the active one, and the one   *)
(* that is stays what it is until it ends.                                 *)
LEMMA ActiveStays ==
  ASSUME BrokerInv, Next, blockNew
  PROVE  \/ active' = NoRun
         \/ LET w == active.worker IN
            /\ active # NoRun /\ w \in Workers /\ active'.worker = w
            /\ call'[w].client = call[w].client /\ call'[w].secrets = call[w].secrets
            /\ active.known => active'.known
<1>0. Shaped /\ ThreadStep /\ active \in RunRec
  BY NextThread DEF BrokerInv, Shaped, ThreadsOK
<1>1. CASE active = NoRun
  <2>1. \A v \in Workers : pc[v] \notin LeaseSteps
    BY <1>1, NoneActive
  <2>2. CASE \E v \in Workers : RunMove(v)
    BY <1>1, <2>1, <2>2 DEF RunMove, RunEffect, RunLeases, LeaseSteps
  <2>3. CASE \A v \in Workers : ~ RunMove(v)
    BY <1>0, <1>1, <2>3, NotARun
  <2> QED BY <2>2, <2>3
<1>2. CASE active # NoRun
  <2>1. PICK w \in Workers : w = active.worker
    BY <1>0, <1>2 DEF RunRec
  <2>2. pc[w] \in LeaseSteps
    BY <2>1 DEF BrokerInv, LeaseInv
  <2>3. CASE RunMove(w)
    <3>1. RunLeases(w) /\ RunCalls(w)
      BY <2>3 DEF RunMove, RunEffect
    <3>2. CASE pc'[w] = "idle"
      BY <2>2, <3>1, <3>2 DEF RunLeases, LeaseSteps
    <3>3. CASE pc'[w] # "idle"
      <4>1. call'[w].client = call[w].client /\ call'[w].secrets = call[w].secrets
        BY <3>1, <3>3 DEF RunCalls
      <4>2. active' = active \/ active' = [active EXCEPT !.known = TRUE]
        BY <2>2, <3>1, <3>3 DEF RunLeases
      <4>3. active'.worker = active.worker /\ (active.known => active'.known)
        BY <1>0, <1>2, <4>2 DEF RunRec
      <4> QED BY <1>2, <2>1, <4>1, <4>3
    <3> QED BY <3>2, <3>3
  <2>4. CASE ~ RunMove(w)
    BY <1>2, <2>1, <2>2, <2>4, WorkerStays DEF SameCall
  <2> QED BY <2>3, <2>4
<1> QED BY <1>1, <1>2

(* A run past set_secret_context has told the coordinator its secrets; one *)
(* launched without a ticket has none.                                     *)
KnownInv ==
  \A w \in Workers :
    /\ pc[w] \in KnownSteps => active.known
    /\ pc[w] \in {"launchAccess", "spawn"} => call[w].secrets = {}

(* Only set_secret_context, and a launch without secrets, lead there. *)
LEMMA KnownNext ==
  ASSUME BrokerInv, KnownInv, [Next]_vars
  PROVE  KnownInv'
<1>1. CASE UNCHANGED vars
  BY <1>1 DEF KnownInv, vars, runVars
<1>2. CASE Next
  <2>0. active \in RunRec /\ KnownSteps \subseteq LeaseSteps
    BY DEF BrokerInv, Shaped, ThreadsOK, KnownSteps, LeaseSteps
  <2>1. SUFFICES ASSUME NEW w \in Workers, pc'[w] \in KnownSteps
                 PROVE  /\ active'.known
                        /\ pc'[w] \in {"launchAccess", "spawn"} => call'[w].secrets = {}
    BY DEF KnownInv, KnownSteps
  <2>2. CASE RunMove(w)
    <3>1. RunLeases(w) /\ RunCalls(w) /\ RunGuards(w)
      BY <2>2 DEF RunMove, RunEffect
    <3>2. pc[w] \in KnownSteps \cup {"context"}
      BY <2>1, <3>1 DEF RunGuards
    <3>3. \/ active' = active /\ pc[w] # "context"
          \/ active' = [active EXCEPT !.known = TRUE]
      BY <2>1, <3>1, <3>2 DEF RunLeases, LeaseSteps, KnownSteps
    <3>4. active'.known
      <4>1. active # NoRun
        BY <3>2, NoneActive DEF LeaseSteps, KnownSteps
      <4> QED BY <2>0, <3>2, <3>3, <4>1 DEF KnownInv, RunRec
    <3>5. call'[w].secrets = call[w].secrets
      BY <2>1, <3>1 DEF RunCalls, KnownSteps
    <3>6. pc'[w] \in {"launchAccess", "spawn"} => call[w].secrets = {}
      BY <3>1 DEF RunGuards, KnownInv
    <3> QED BY <3>4, <3>5, <3>6
  <2>3. CASE ~ RunMove(w)
    <3>1. pc'[w] = pc[w] /\ SameCall(call[w], call'[w]) /\ active' = active
      BY <1>2, <2>0, <2>1, <2>3, WorkerStays
    <3> QED BY <2>1, <3>1 DEF KnownInv, SameCall
  <2> QED BY <2>2, <2>3
<1> QED BY <1>1, <1>2

(* The request that is published is one a worker waits for. *)
OwnerInv ==
  pending.id # 0 => \E w \in Workers : pc[w] = "poll" /\ call[w].id = pending.id

(* A run's step replaces the request only where it starts to wait. *)
LEMMA RunPublishes ==
  ASSUME Shaped, NEW w \in Workers, RunStep(w) \/ Timeout(w) \/ ChildExits(w)
  PROVE  \/ pending' = NoPending
         \/ SameRequest(pending, pending')
         \/ RunMove(w) /\ pc'[w] = "poll" /\ pending'.id = nextId
<1>0. CoreTypeOK /\ w \in Procs /\ OnAll(pc, Procs) /\ RunMove(w)
  BY RunStepMoves DEF Shaped, ThreadsOK, Procs
<1>1. CASE AuthorizeStep(w) /\ pc'[w] = "poll"
  <2>1. AuthorizePublish(call[w].client, call[w].vault, call[w].secrets)
    BY <1>0, <1>1 DEF AuthorizeStep, Proceed, Goto, OnAll
  <2> QED BY <1>0, <1>1, <2>1 DEF AuthorizePublish
<1>2. CASE AuthorizeStep(w) /\ pc'[w] # "poll"
  <2>1. \/ PurgeAll \/ PurgeDisconnected \/ UNCHANGED pending
    BY <1>0, <1>2 DEF AuthorizeStep, Goto, OnAll, AuthorizeUnattended, AuthorizeGranted,
         AuthorizeRefused
  <2> QED BY <1>0, <2>1, RequestStays
<1>3. CASE PollStep(w) \/ PollTimeoutStep(w)
  <2>1. pending' = NoPending \/ pending' = PurgedPending
    BY <1>3 DEF PollStep, PollTimeoutStep, PollWithdraw, PollAccepted, PollRefused, TakeDecision
  <2> QED BY <1>0, <2>1, PurgedRequest
<1>4. CASE ~ AuthorizeStep(w) /\ ~ PollStep(w) /\ ~ PollTimeoutStep(w)
  <2>1. PurgeAll \/ PurgeDisconnected \/ UNCHANGED pending
    BY <1>4 DEF RunStep, Timeout, ChildExits, ChildKilled, ChildEnds, HasUnattendedStep,
         AwaitUnlock, PublishUnlock, WakeWindow, EndPrompt, PromptTimeout, TryStart,
         RequireClientAccess, Admitted, ApprovalPlan, SetSecretContext, ResolveBindings, Launch,
         RunError, DropLease, ReadUnattended, RedeemEffect, coreVars
  <2> QED BY <1>0, <2>1, RequestStays
<1> QED BY <1>1, <1>2, <1>3, <1>4

(* The request is published by the worker that waits for it, and stays     *)
(* until that worker stops waiting.                                        *)
LEMMA OwnerNext ==
  ASSUME BrokerInv, OwnerInv, [Next]_vars
  PROVE  OwnerInv'
<1>1. CASE UNCHANGED vars
  BY <1>1 DEF OwnerInv, vars, coreVars
<1>2. CASE Next
  <2>0. Shaped /\ CoreTypeOK
    BY DEF BrokerInv, Shaped
  <2>1. \/ pending' = NoPending
        \/ SameRequest(pending, pending')
        \/ \E w \in Workers : RunMove(w) /\ pc'[w] = "poll" /\ pending'.id = nextId
    <3>1. CASE \E w \in Workers : RunStep(w) \/ Timeout(w) \/ ChildExits(w)
      BY <2>0, <3>1, RunPublishes
    <3>2. CASE StayMethod
      BY <2>0, <3>2, RequestStays DEF StayMethod, coreVars
    <3>3. CASE ConsentMethod
      BY <2>0, <3>3, RequestStays DEF ConsentMethod
    <3> QED BY <1>2, <2>0, <3>1, <3>2, <3>3, NextMethods
  <2>2. CASE pending' = NoPending
    BY <2>2 DEF OwnerInv, NoPending
  <2>3. CASE SameRequest(pending, pending') /\ pending'.id # 0
    <3>1. PICK w \in Workers : pc[w] = "poll" /\ call[w].id = pending.id
      BY <2>3 DEF OwnerInv, SameRequest
    <3>2. ~ RunMove(w)
      BY <2>3, <3>1 DEF RunMove, RunGuards, SameRequest
    <3>3. pc'[w] = "poll" /\ call'[w].id = call[w].id
      BY <1>2, <3>1, <3>2, WorkerStays DEF LeaseSteps, SameCall
    <3> QED BY <2>3, <3>1, <3>3 DEF OwnerInv, SameRequest
  <2>4. CASE \E w \in Workers : RunMove(w) /\ pc'[w] = "poll" /\ pending'.id = nextId
    BY <2>4 DEF RunMove, RunEffect, RunCalls, OwnerInv
  <2> QED BY <2>1, <2>2, <2>3, <2>4 DEF OwnerInv
<1> QED BY <1>1, <1>2

-----------------------------------------------------------------------------
(* What the window revokes.                                                *)

(* The secrets of the pair or the client to be revoked; when they are, no  *)
(* run that may use them is active.                                        *)
TargetInv ==
  /\ op[Gui] = "pair" => \E s \in Secrets : target.secrets = {s}
  /\ op[Gui] = "client" => target.secrets = Secrets
  /\ pc[Gui] = "revokeTarget" => ~ Concerns(Gui)

(* The block waits for such a run, or finds none. *)
LEMMA BlockTarget ==
  ASSUME Shaped, Block(Gui), pc'[Gui] = "revokeTarget"
  PROVE  ~ Concerns(Gui)'
<1>0. /\ Gui \in Procs /\ OnAll(pc, Procs) /\ call \in [Workers -> CallRec] /\ active \in RunRec
      /\ NoWorker \notin Workers
  BY ProcessAssumption DEF Shaped, ThreadsOK, Procs
<1>1. UNCHANGED <<op, target, active>>
  BY DEF Block, ProcFrame
<1>2. ~ Concerns(Gui)
  BY <1>0 DEF Block, Goto, OnAll
<1>3. \A w \in Workers : SameCall(call[w], call'[w])
  <2>1. \E W : CancelTokens(W)
    BY DEF Block
  <2> QED BY <1>0, <2>1, TokensCancelled
<1>4. CASE active = NoRun
  BY <1>1, <1>4 DEF Concerns
<1>5. CASE active.worker \in Workers
  BY <1>1, <1>2, <1>3, <1>5 DEF Concerns, SameCall
<1> QED BY <1>0, <1>4, <1>5 DEF RunRec

(* How the window comes to `revokeTarget'. *)
LEMMA GuiRevokes ==
  ASSUME Shaped, Next, pc'[Gui] = "revokeTarget"
  PROVE  \/ pc[Gui] = "revokeTarget" /\ op'[Gui] = op[Gui]
         \/ Block(Gui)
         \/ active' = NoRun
<1>0. Gui \in Procs /\ OnAll(pc, Procs) /\ OnAll(op, Procs) /\ Gui \notin Workers
  BY ProcessAssumption DEF Shaped, ThreadsOK, Procs
<1>1. CASE ProcStep(Gui)
  <2>1. CASE Quiesce(Gui)
    BY <2>1 DEF Quiesce, runVars
  <2>2. CASE Block(Gui)
    BY <2>2
  <2>3. CASE ~ Quiesce(Gui) /\ ~ Block(Gui)
    <3>1. pc[Gui] \in ProcNames /\ pc[Gui] # "quiesce" /\ Go(Gui)
      BY <1>0, <1>1, <2>3 DEF ProcStep, CancelPendingStep, RevokeAllStep, CancelRunStep, LockVault,
           Reset, ReleaseBlock, ReleaseLocal, At, ProcNames
    <3>2. op[Gui] \in GuiOps /\ pc[Gui] \in DOMAIN Flow[op[Gui]]
      BY <1>0, <3>1, ProcAt DEF Shaped
    <3>3. Flow[op[Gui]][pc[Gui]] = "revokeTarget"
      BY <1>0, <3>1 DEF Go, Goto, OnAll
    <3> QED BY <3>1, <3>2, <3>3 DEF GuiOps, Flow, LockFlow, RevokeFlow, TargetFlow
  <2> QED BY <2>1, <2>2, <2>3
<1>2. CASE GuiProc
  <2>1. CASE Go(Gui) /\ pc[Gui] \in ProcNames \ {"quiesce"}
    <3>2. op[Gui] \in GuiOps /\ pc[Gui] \in DOMAIN Flow[op[Gui]]
      BY <1>0, <2>1, ProcAt DEF Shaped
    <3>3. Flow[op[Gui]][pc[Gui]] = "revokeTarget"
      BY <1>0, <2>1 DEF Go, Goto, OnAll
    <3> QED BY <2>1, <3>2, <3>3 DEF GuiOps, Flow, LockFlow, RevokeFlow, TargetFlow
  <2>2. CASE ~ (Go(Gui) /\ pc[Gui] \in ProcNames \ {"quiesce"})
    <3>1. \/ Goto(Gui, "idle") \/ Goto(Gui, "cancelFirst") \/ Goto(Gui, "clear")
          \/ Goto(Gui, "releaseIdle") \/ Goto(Gui, "spawn") \/ Goto(Gui, Flow.drop.disconnect)
      BY <1>2, <2>2 DEF GuiProc, TryLocal, WaitLocal, CancelUnlock, RevokeTarget, BeginLock,
           Snapshot, Covers, IdleVault, ReleaseIdle, Clear, DisconnectUi, StopServing,
           CloseSessions, Join, Start, At, ProcNames
    <3>2. Flow.drop.disconnect = "stop"
      BY DEF Flow
    <3> QED BY <1>0, <3>1, <3>2 DEF Goto, OnAll
  <2> QED BY <2>1, <2>2
<1>3. CASE Spawn
  BY <1>3, SpawnMoves
<1>4. CASE FrameStep
  BY <1>0, <1>4 DEF FrameStep, ProcessExternalLock, SynchronizePhase, AppLockResult, Start, Goto,
       OnAll, At
<1>5. CASE UserBegins
  BY <1>0, <1>5 DEF UserBegins, HardLock, LockApp, AutoLock, IdleLock, RevokeAllGrants, Exit,
       RevokeSession, RevokeGrant, UserStarts, Start, Goto, OnAll, At
<1> QED BY <1>1, <1>2, <1>3, <1>4, <1>5, GuiMoves

(* The target stays until it is revoked, and so does the block. *)
LEMMA TargetNext ==
  ASSUME BrokerInv, TargetInv, [Next]_vars
  PROVE  TargetInv'
<1>1. CASE UNCHANGED vars
  BY <1>1 DEF TargetInv, Concerns, vars, runVars
<1>2. CASE Next
  <2>0. Shaped /\ Gui \in Procs
    BY DEF BrokerInv, Procs
  <2>1. /\ op'[Gui] = "pair" => \E s \in Secrets : target'.secrets = {s}
        /\ op'[Gui] = "client" => target'.secrets = Secrets
    BY <1>2, <2>0, NextTarget DEF TargetInv
  <2>2. ASSUME pc'[Gui] = "revokeTarget"
        PROVE  ~ Concerns(Gui)'
    <3>1. CASE Block(Gui)
      BY <2>0, <2>2, <3>1, BlockTarget
    <3>2. CASE active' = NoRun
      BY <3>2 DEF Concerns
    <3>3. CASE pc[Gui] = "revokeTarget" /\ op'[Gui] = op[Gui] /\ active' # NoRun
      <4>1. op[Gui] \in {"pair", "client"}
        <5>1. op[Gui] \in GuiOps /\ "revokeTarget" \in DOMAIN Flow[op[Gui]]
          BY <2>0, <3>3, ProcAt DEF Shaped, ProcNames
        <5> QED BY <5>1 DEF GuiOps, Flow, LockFlow, RevokeFlow, TargetFlow
      <4>2. target' = target
        BY <1>2, <2>0, <3>3, <4>1, NextTarget DEF Snapshot, At
      <4>3. blockNew
        BY <2>0, <3>3 DEF BrokerInv, BlockInv, HeldStep
      <4>4. PICK w \in Workers :
              /\ active # NoRun /\ active.worker = w /\ active'.worker = w
              /\ call'[w].client = call[w].client /\ call'[w].secrets = call[w].secrets
              /\ active.known => active'.known
        BY <1>2, <3>3, <4>3, ActiveStays
      <4>5. ~ Concerns(Gui)
        BY <3>3 DEF TargetInv
      <4> QED BY <3>3, <4>1, <4>2, <4>4, <4>5 DEF Concerns
    <3> QED BY <1>2, <2>0, <2>2, <3>1, <3>2, <3>3, GuiRevokes
  <2> QED BY <2>1, <2>2 DEF TargetInv
<1> QED BY <1>1, <1>2

-----------------------------------------------------------------------------
(* What an automatic lock leaves running.                                  *)

(* A child that was given a secret the app lock takes away. *)
Exposed(w) == w \in child /\ ({call[w].client} \X call[w].secrets) \cap lost # {}

(* An automatic lock that is under way finds such a child in its copy of   *)
(* the active run, cancels it, and waits for it.                           *)
ExposedInv ==
  appAccess.phase = "locking" =>
    \A w \in Workers : Exposed(w) =>
      /\ op[Gui] = "autoLock" /\ pc[Gui] = "covers" =>
           target = [client |-> call[w].client, worker |-> w, serial |-> call[w].serial,
                     secrets |-> call[w].secrets]
      /\ op[Gui] = "autoLock" /\ pc[Gui] = "spawn" => call[w].cancelled
      /\ op[Locker] = "autoLockThread" /\ pc[Locker] = "drain" => call[w].cancelled
      /\ ~ (op[Locker] = "autoLockThread" /\ pc[Locker] = "finishLock")

(* A child is alive after a step: it was before, or its run has just seen  *)
(* every grant it needs.                                                   *)
LEMMA ChildOrigin ==
  ASSUME BrokerInv, KnownInv, Next, NEW w \in Workers, w \in child'
  PROVE  \/ /\ w \in child /\ ~ RunMove(w) /\ SameCall(call[w], call'[w])
            /\ pc[w] = "child" /\ active.worker = w
         \/ /\ RunMove(w)
            /\ call'[w].client = call[w].client /\ call'[w].secrets = call[w].secrets
            /\ \A s \in call[w].secrets :
                 s \in Secrets /\ call[w].client \in Clients
                 /\ grants[call[w].client][s].kind # "none"
<1>0. BrokerInv' /\ Shaped /\ CoreTypeOK
  BY BrokerNext DEF BrokerInv, Shaped
<1>1. pc'[w] = "child"
  BY <1>0 DEF BrokerInv, LeaseInv
<1>2. CASE ~ RunMove(w)
  BY <1>1, <1>2, WorkerStays DEF LeaseSteps, BrokerInv, LeaseInv
<1>3. CASE RunMove(w)
  <2>1. pc[w] \in {"launch", "spawn"} /\ RunGuards(w) /\ RunCalls(w)
    BY <1>1, <1>3 DEF RunMove, RunEffect, RunLeases
  <2>2. call'[w].client = call[w].client /\ call'[w].secrets = call[w].secrets
    BY <1>1, <2>1 DEF RunCalls
  <2>3. CASE pc[w] = "spawn"
    BY <1>3, <2>2, <2>3 DEF KnownInv
  <2>4. CASE pc[w] = "launch"
    <3>1. RedeemOK(call[w].client, call[w].vault, call[w].secrets)
      BY <1>1, <2>1, <2>4 DEF RunGuards
    <3>2. call[w].client \in Clients /\ call[w].secrets \subseteq Secrets
      BY <1>0, <2>4, RunAt DEF Shaped, ThreadsOK, CallRec, RunSteps
    <3>3. ASSUME NEW s \in call[w].secrets
          PROVE  grants[call[w].client][s].kind # "none"
      <4>1. Running(PurgedGrants[call[w].client][s], elapsed, wall)
        BY <3>1 DEF RedeemOK, Missing
      <4> QED BY <1>0, <3>2, <4>1, PurgedEntry DEF Running, NoGrant
    <3> QED BY <1>3, <2>2, <3>2, <3>3
  <2> QED BY <2>1, <2>3, <2>4
<1> QED BY <1>2, <1>3

(* The lock's own look at the active run: an exposed run is not covered by *)
(* unattended access, and so is cancelled.                                 *)
LEMMA CoversCancels ==
  ASSUME Shaped, AppInv, ~ IsAppActive, Covers, NEW w \in Workers, Exposed(w),
         target = [client |-> call[w].client, worker |-> w, serial |-> call[w].serial,
                   secrets |-> call[w].secrets]
  PROVE  call'[w].cancelled
<1>0. CoreTypeOK /\ call \in [Workers -> CallRec] /\ lost \subseteq Pairs
  BY DEF Shaped, ThreadsOK, SharedOK
<1>1. PICK s \in call[w].secrets : <<call[w].client, s>> \in lost
  BY DEF Exposed
<1>2. call[w].client \in Clients /\ s \in Secrets
  BY <1>0, <1>1 DEF Pairs
<1>3. PurgedGrants[call[w].client][s].kind = "none"
  BY <1>0, <1>1, <1>2, PurgedEntry DEF AppInv, NoGrant
<1>4. s \in MissingUnattended(PurgedGrants, call[w].client, call[w].secrets, elapsed, wall)
  BY <1>1, <1>3 DEF MissingUnattended, IsUnattended
<1>5. /\ target.client = call[w].client /\ target.worker = w /\ target.serial = call[w].serial
      /\ target.secrets = call[w].secrets
  OBVIOUS
<1>6. CancelTokens({w})
  BY <1>4, <1>5 DEF Covers
<1> QED BY <1>0, <1>6, TokensCancelled

(* The copy, the cancellation and the wait come in this order. *)
LEMMA ExposedNext ==
  ASSUME BrokerInv, LocalInv, AppInv, KnownInv, ExposedInv, [Next]_vars
  PROVE  ExposedInv'
<1>1. CASE UNCHANGED vars
  BY <1>1 DEF ExposedInv, Exposed, vars, coreVars, runVars
<1>2. CASE Next
  <2>0. Shaped /\ AppStep /\ NoWorker \notin Workers
    BY <1>2, NextApp, ProcessAssumption DEF BrokerInv
  <2>1. SUFFICES ASSUME appAccess'.phase = "locking", NEW w \in Workers, Exposed(w)'
        PROVE  /\ op'[Gui] = "autoLock" /\ pc'[Gui] = "covers" =>
                    target' = [client |-> call'[w].client, worker |-> w,
                               serial |-> call'[w].serial, secrets |-> call'[w].secrets]
               /\ op'[Gui] = "autoLock" /\ pc'[Gui] = "spawn" => call'[w].cancelled
               /\ op'[Locker] = "autoLockThread" /\ pc'[Locker] = "drain" => call'[w].cancelled
               /\ ~ (op'[Locker] = "autoLockThread" /\ pc'[Locker] = "finishLock")
    BY DEF ExposedInv
  <2>2. CASE UNCHANGED <<appAccess, manual, lost>>
    <3>0. appAccess.phase = "locking" /\ ~ IsAppActive /\ lost' = lost /\ lost \subseteq Pairs
      BY <2>0, <2>1, <2>2 DEF IsAppActive, Shaped, SharedOK
    <3>1. PICK s \in call'[w].secrets : <<call'[w].client, s>> \in lost
      BY <2>1, <3>0 DEF Exposed
    <3>2. w \in child /\ SameCall(call[w], call'[w]) /\ active.worker = w /\ pc[w] = "child"
      <4>1. w \in child'
        BY <2>1 DEF Exposed
      <4>2. SUFFICES ASSUME /\ call'[w].client = call[w].client
                            /\ call'[w].secrets = call[w].secrets
                            /\ call[w].client \in Clients /\ s \in Secrets
                            /\ grants[call[w].client][s].kind # "none"
                     PROVE  FALSE
        BY <1>2, <3>1, <4>1, ChildOrigin
      <4> QED BY <3>0, <3>1, <4>2 DEF AppInv
    <3>3. Exposed(w) /\ active # NoRun /\ active.known
      BY <2>0, <3>1, <3>2 DEF Exposed, SameCall, NoRun, KnownInv, KnownSteps
    <3>4. /\ op[Gui] = "autoLock" /\ pc[Gui] = "covers" =>
                target = [client |-> call[w].client, worker |-> w, serial |-> call[w].serial,
                          secrets |-> call[w].secrets]
          /\ op[Gui] = "autoLock" /\ pc[Gui] = "spawn" => call[w].cancelled
          /\ op[Locker] = "autoLockThread" /\ pc[Locker] = "drain" => call[w].cancelled
          /\ ~ (op[Locker] = "autoLockThread" /\ pc[Locker] = "finishLock")
      BY <3>0, <3>3 DEF ExposedInv
    <3>5. ASSUME op'[Gui] = "autoLock", pc'[Gui] = "covers"
          PROVE  target' = [client |-> call'[w].client, worker |-> w,
                            serial |-> call'[w].serial, secrets |-> call'[w].secrets]
      <4>1. op[Gui] = "autoLock" /\ (pc[Gui] = "covers" \/ Snapshot)
        BY <1>2, <2>0, <3>5, GuiAuto DEF AutoSteps
      <4>2. CASE pc[Gui] = "covers"
        <5>1. target' = target
          BY <1>2, <2>0, <3>5, <4>1, <4>2, NextTarget DEF Snapshot, At
        <5> QED BY <3>2, <3>4, <4>1, <4>2, <5>1 DEF SameCall
      <4>3. CASE Snapshot
        <5>1. target' = [client |-> call[w].client, worker |-> w, serial |-> call[w].serial,
                         secrets |-> call[w].secrets]
          BY <3>2, <3>3, <4>3 DEF Snapshot
        <5> QED BY <3>2, <5>1 DEF SameCall
      <4> QED BY <4>1, <4>2, <4>3
    <3>6. ASSUME op'[Gui] = "autoLock", pc'[Gui] = "spawn"
          PROVE  call'[w].cancelled
      <4>1. op[Gui] = "autoLock" /\ (pc[Gui] = "spawn" \/ Covers)
        BY <1>2, <2>0, <3>3, <3>6, GuiAuto DEF AutoSteps
      <4>2. CASE pc[Gui] = "spawn"
        BY <3>2, <3>4, <4>1, <4>2 DEF SameCall
      <4>3. CASE Covers
        <5>1. pc[Gui] = "covers"
          BY <4>3 DEF Covers, At
        <5> QED BY <2>0, <3>0, <3>3, <3>4, <4>1, <4>3, <5>1, CoversCancels
      <4> QED BY <4>1, <4>2, <4>3
    <3>7. ASSUME op'[Locker] = "autoLockThread", pc'[Locker] = "drain"
          PROVE  call'[w].cancelled
      <4>1. call[w].cancelled
        BY <1>2, <2>0, <3>4, <3>7, LockerAuto
      <4> QED BY <3>2, <4>1 DEF SameCall
    <3>8. ~ (op'[Locker] = "autoLockThread" /\ pc'[Locker] = "finishLock")
      <4>1. SUFFICES ASSUME op'[Locker] = "autoLockThread", pc'[Locker] = "finishLock"
                     PROVE  FALSE
        OBVIOUS
      <4>2. op[Locker] = "autoLockThread" /\ Drain
        BY <1>2, <2>0, <3>4, <4>1, LockerAuto
      <4>3. pc[Locker] = "drain" /\ ~ call[w].cancelled
        BY <2>0, <3>2, <4>2 DEF Drain, At, ActiveWorker
      <4> QED BY <3>4, <4>2, <4>3
    <3> QED BY <3>5, <3>6, <3>7, <3>8
  <2>3. CASE BeginLock /\ BeginAppLock(op[Gui] = "autoLock")
    <3>0. /\ Gui \in Procs /\ Locker \in Procs /\ Gui # Locker
          /\ OnAll(pc, Procs) /\ OnAll(op, Procs)
      BY <2>0, ProcessAssumption DEF Procs, Shaped, ThreadsOK
    <3>1. pc[Gui] = "beginLock" /\ op[Gui] \in {"appLock", "autoLock"}
      <4>1. pc[Gui] = "beginLock"
        BY <2>3 DEF BeginLock, At
      <4>2. op[Gui] \in GuiOps /\ "beginLock" \in DOMAIN Flow[op[Gui]]
        BY <2>0, <3>0, <4>1, ProcAt DEF Shaped, ProcNames
      <4> QED BY <4>1, <4>2 DEF GuiOps, Flow, LockFlow, RevokeFlow, TargetFlow
    <3>2. pc'[Gui] \notin {"covers", "spawn"}
      <4>1. Goto(Gui, "cancelFirst") \/ Goto(Gui, Flow[op[Gui]]["beginLock"])
        BY <2>3, <3>1 DEF BeginLock, Start, Go
      <4>2. Flow[op[Gui]]["beginLock"] \in {"cancelRun", "snapshot"}
        BY <3>1 DEF Flow
      <4> QED BY <3>0, <4>1, <4>2 DEF Goto, OnAll
    <3>3. pc'[Locker] = pc[Locker] /\ op'[Locker] = op[Locker]
      BY <2>3, <3>0 DEF BeginLock, Start, Go, Goto, OnAll
    <3>4. ~ OwnsLocal(Locker)
      BY <3>1 DEF LocalInv, OwnsLocal, LocalStep
    <3> QED BY <3>2, <3>3, <3>4 DEF OwnsLocal, LocalStep
  <2>4. ~ IsAppActive' /\ ~ FinishAppLock(desk.epoch)
    <3>1. ASSUME FinishAppLock(desk.epoch)
          PROVE  FALSE
      <4>1. appAccess' = [phase |-> "locked", epoch |-> desk.epoch]
        BY <3>1 DEF FinishAppLock
      <4> QED BY <2>1, <4>1
    <3> QED BY <2>1, <3>1 DEF IsAppActive
  <2> QED BY <2>0, <2>2, <2>3, <2>4 DEF AppStep
<1> QED BY <1>1, <1>2

-----------------------------------------------------------------------------
(* Revoked access is never used.                                           *)

(* A pair whose revocation has completed has no grant, no decided request  *)
(* that would give it one, and no child.                                   *)
ForbiddenInv ==
  /\ pending.secrets \subseteq pending.requested
  /\ \A c \in Clients, s \in Secrets :
       <<c, s>> \in forbidden => grants[c][s].kind = "none" /\ <<c, s>> \notin Approved(pending)
  /\ RevokedNeverRuns

(* What completes. *)
Completes ==
  \/ \E p \in Procs : RevokeAllStep(p) /\ pc[p] = "revokeAll" /\ op[p] \in {"revoke", "sync"}
  \/ \E p \in Procs : Reset(p)
  \/ RevokeTarget
  \/ FinishLock /\ FinishAppLock(desk.epoch) /\ forbidden' = forbidden \cup lost

(* Nothing else forbids a pair. *)
LEMMA NextForbids ==
  ASSUME Shaped, Next
  PROVE  forbidden' \subseteq forbidden \/ Completes
<1>1. CASE \E w \in Workers : RunStep(w) \/ Timeout(w) \/ ChildExits(w)
  BY <1>1, RunStepMoves DEF RunMove, RunEffect, RunMoves, RunFrame
<1>2. CASE \E p \in Procs : ProcStep(p)
  BY <1>2 DEF Completes, ProcStep, CancelPendingStep, RevokeAllStep, CancelRunStep, Block, Quiesce,
       LockVault, Reset, ReleaseBlock, ReleaseLocal, ProcFrame, At
<1>3. CASE \/ \E w \in Workers : RequestStep(w) \/ StartLock(w) \/ Hangup(w)
           \/ \E w \in Workers, c \in Clients, S \in Bindings : StartRun(w, c, S)
           \/ Drain \/ Spawn \/ FrameStep \/ ListenerCancel \/ Peers \/ UserBegins
  BY <1>3 DEF RequestStep, BeginRequest, FinishRequest, AwaitAck, StartLock,
       Hangup, StartRun, Drain, Spawn, FrameStep, ListenerCancel, Peers,
       ProcessExternalLock, SynchronizePhase, AppLockResult, SessionOpen, SessionEnd,
       SessionFrame, RunFrame, GuiFrame, ProcFrame, UserBegins, HardLock, LockApp, AutoLock,
       IdleLock, RevokeAllGrants, Exit, RevokeSession, RevokeGrant
<1>4. CASE FinishLock
  BY <1>4 DEF FinishLock, Completes
<1>5. CASE GuiProc
  BY <1>5 DEF Completes, GuiProc, TryLocal, WaitLocal, CancelUnlock, BeginLock, Snapshot, Covers,
       IdleVault, ReleaseIdle, Clear, DisconnectUi, StopServing, CloseSessions, Join, GuiFrame,
       ProcFrame
<1>6. CASE UserAnswers
  BY <1>6 DEF UserAnswers, UnlockDesk, UnlockVault, ResolveUnlock, Decide,
       CaptureAccess, GrantAccess, MutateSecret, AnswerFrame
<1> QED BY <1>1, <1>2, <1>3, <1>4, <1>5, <1>6, NextCases

(* A pair that stays forbidden gets neither a grant nor an approval.       *)
LEMMA ForbiddenStays ==
  ASSUME Shaped, ForbiddenInv, Next, NEW c \in Clients, NEW s \in Secrets,
         <<c, s>> \in forbidden, <<c, s>> \in forbidden'
  PROVE  grants'[c][s].kind = "none" /\ <<c, s>> \notin Approved(pending')
<1>0. CoreTypeOK /\ grants[c][s].kind = "none" /\ <<c, s>> \notin Approved(pending)
  BY DEF Shaped, ForbiddenInv
<1>1. ~ FromRequest(c, s)
  BY <1>0 DEF FromRequest, Approved
<1>2. Earlier(c, s) => grants'[c][s].kind = "none"
  BY <1>0, <1>1 DEF Earlier, Kept
<1>3. DecisionOld => <<c, s>> \notin Approved(pending')
  BY <1>0 DEF DecisionOld, RequestKept, SameRequest, Approved
<1>4. CASE PlainMethod
  BY <1>0, <1>2, <1>3, <1>4, PlainOrigin, PlainRequest
<1>5. CASE ConsentMethod /\ forbidden' = forbidden \ consent'
  <2>1. <<c, s>> \notin consent'
    BY <1>5
  <2>2. Earlier(c, s)
    BY <1>0, <1>5, <2>1, MethodOrigin DEF CoreMethod, Origin, FromContext
  <2>3. <<c, s>> \notin Approved(pending')
    BY <1>0, <1>3, <1>5, <2>1, ConsentRequest DEF RequestKept, SameRequest, Approved
  <2> QED BY <1>2, <2>2, <2>3
<1> QED BY <1>4, <1>5, NextMethods DEF PlainMethod

(* Who completes a revocation of everything has no run to fear, and so no  *)
(* request.                                                                *)
LEMMA CompletesAlone ==
  ASSUME BrokerInv, OwnerInv, NEW p \in Procs,
         pc[p] = "reset" \/ (pc[p] = "revokeAll" /\ op[p] \in {"revoke", "sync"})
  PROVE  active = NoRun /\ child = {} /\ pending = NoPending
<1>1. op[p] \notin {"pair", "client"}
  BY ProcAt DEF BrokerInv, Shaped, ProcNames, FlowFact
<1>2. active = NoRun
  BY <1>1 DEF BrokerInv, BlockInv, HeldStep
<1>3. child = {}
  BY <1>2, NoneActive DEF BrokerInv, LeaseInv, LeaseSteps, Shaped, ThreadsOK
<1>4. pending.id = 0
  BY <1>2, NoneActive DEF OwnerInv, LeaseSteps
<1> QED BY <1>2, <1>3, <1>4 DEF BrokerInv, Shaped, CoreTypeOK, PendingState

(* What a completed revocation, or lock, took away is gone when it         *)
(* completes: the grants, the approvals nobody picked up yet, the children.*)
LEMMA NewlyForbidden ==
  ASSUME BrokerInv, OwnerInv, KnownInv, TargetInv, AppInv, ExposedInv, ForbiddenInv,
         Completes, NEW c \in Clients, NEW s \in Secrets,
         <<c, s>> \notin forbidden, <<c, s>> \in forbidden'
  PROVE  /\ grants'[c][s].kind = "none" /\ <<c, s>> \notin Approved(pending')
         /\ \A w \in child' : ~ (call'[w].client = c /\ s \in call'[w].secrets)
<1>0. /\ Shaped /\ CoreTypeOK /\ pending \in PendingState /\ child \subseteq Workers
      /\ Gui \in Procs /\ Locker \in Procs /\ NoWorker \notin Workers
  BY ProcessAssumption DEF BrokerInv, Shaped, CoreTypeOK, ThreadsOK, Procs
<1>1. NoGrants[c][s].kind = "none" /\ Approved(NoPending) = {}
  BY DEF NoGrants, NoGrant, Approved, NoPending, NoDecision, Approving
<1>2. <<c, s>> \notin Approved(CancelPendingState(pending))
  <2>1. CancelPendingState(pending).decision = Cancel \/ CancelPendingState(pending) = NoPending
    BY <1>0, CancelledRequest
  <2> QED BY <1>1, <2>1 DEF Approved, Cancel, Approving
<1>3. ASSUME NEW p \in Procs, RevokeAllStep(p), pc[p] = "revokeAll", op[p] \in {"revoke", "sync"}
      PROVE  /\ grants'[c][s].kind = "none" /\ <<c, s>> \notin Approved(pending') /\ child' = {}
  <2>1. child = {} /\ pending = NoPending
    BY <1>3, CompletesAlone
  <2> QED BY <1>1, <1>3, <2>1 DEF RevokeAllStep, RevokeAll, runVars
<1>4. ASSUME NEW p \in Procs, Reset(p)
      PROVE  /\ grants'[c][s].kind = "none" /\ <<c, s>> \notin Approved(pending') /\ child' = {}
  <2>1. child = {}
    BY <1>4, CompletesAlone DEF Reset, At
  <2> QED BY <1>1, <1>2, <1>4, <2>1 DEF Reset, ResetAfterVaultLock, runVars
<1>5. CASE RevokeTarget
  <2>0. /\ pc[Gui] = "revokeTarget" /\ op[Gui] \in {"pair", "client"}
        /\ c = target.client /\ s \in target.secrets
        /\ UNCHANGED <<child, call>>
    BY <1>5 DEF RevokeTarget, At, runVars
  <2>1. ASSUME NEW w \in child', call'[w].client = c, s \in call'[w].secrets
        PROVE  FALSE
    <3>1. w \in Workers /\ w \in child /\ pc[w] = "child" /\ active.worker = w
      BY <1>0, <2>0, <2>1 DEF BrokerInv, LeaseInv, LeaseSteps
    <3>2. active # NoRun /\ active.known
      BY <1>0, <3>1 DEF NoRun, KnownInv, KnownSteps
    <3>3. ~ Concerns(Gui)
      BY <2>0 DEF TargetInv
    <3> QED BY <2>0, <2>1, <3>1, <3>2, <3>3 DEF Concerns
  <2>2. CASE op[Gui] = "pair"
    <3>1. RevokePair(c, s)
      BY <1>5, <2>0, <2>2 DEF RevokeTarget, TargetInv
    <3>2. grants'[c][s].kind = "none"
      <4>1. grants' = [Expire(grants) EXCEPT ![c][s] = NoGrant]
        BY <3>1 DEF RevokePair, RevokePairGrant, Expire
      <4>2. Expire(grants) \in [Clients -> [Secrets -> Deadline]]
        BY <1>0, ExpireType DEF CoreTypeOK, Table
      <4> QED BY <4>1, <4>2 DEF NoGrant
    <3>3. <<c, s>> \notin Approved(pending')
      <4>1. CASE pending.client = c /\ s \in pending.requested
        BY <1>2, <3>1, <4>1 DEF RevokePair
      <4>2. CASE ~ (pending.client = c /\ s \in pending.requested)
        <5>1. pending' = pending
          BY <3>1, <4>2 DEF RevokePair
        <5> QED BY <4>2, <5>1 DEF Approved, ForbiddenInv
      <4> QED BY <4>1, <4>2
    <3> QED BY <2>1, <3>2, <3>3
  <2>3. CASE op[Gui] = "client"
    <3>1. RevokeClient(c)
      BY <1>5, <2>0, <2>3 DEF RevokeTarget
    <3>2. grants'[c][s].kind = "none"
      <4>1. grants' = Expire(RevokeClientGrants(grants, c))
        BY <3>1 DEF RevokeClient
      <4>2. RevokeClientGrants(grants, c)[c][s] = NoGrant
        BY <1>0 DEF RevokeClientGrants, CoreTypeOK, Table
      <4> QED BY <4>1, <4>2, ExpiredOrKept DEF NoGrant
    <3>3. <<c, s>> \notin Approved(pending')
      BY <1>2, <3>1 DEF RevokeClient, Approved
    <3> QED BY <2>1, <3>2, <3>3
  <2> QED BY <2>0, <2>2, <2>3
<1>6. CASE FinishLock /\ FinishAppLock(desk.epoch) /\ forbidden' = forbidden \cup lost
  <2>0. /\ pc[Locker] = "finishLock" /\ <<c, s>> \in lost /\ appAccess.phase = "locking"
        /\ UNCHANGED <<child, call, grants, pending>>
    BY <1>6 DEF FinishLock, FinishAppLock, At, runVars
  <2>1. grants[c][s].kind = "none" /\ (pending.id = 0 \/ pending.decision = Cancel)
    BY <2>0 DEF AppInv, IsAppActive
  <2>2. <<c, s>> \notin Approved(pending)
    <3>1. pending = NoPending \/ pending.decision = Cancel
      BY <1>0, <2>1 DEF PendingState
    <3> QED BY <1>1, <3>1 DEF Approved, Cancel, Approving
  <2>3. ASSUME NEW w \in child', call'[w].client = c, s \in call'[w].secrets
        PROVE  FALSE
    <3>1. w \in Workers /\ w \in child /\ pc[w] = "child"
      BY <1>0, <2>0, <2>3 DEF BrokerInv, LeaseInv
    <3>2. op[Locker] \in LockerOps
      BY <1>0, <2>0, ProcAt, ProcessAssumption DEF Shaped, ProcNames
    <3>3. op[Locker] # "appLockThread"
      BY <1>0, <2>0, <3>1, NoneActive DEF BrokerInv, BlockInv, HeldStep, LeaseSteps
    <3>4. Exposed(w)
      BY <2>0, <2>3, <3>1 DEF Exposed
    <3> QED BY <2>0, <3>1, <3>2, <3>3, <3>4 DEF ExposedInv, LockerOps
  <2> QED BY <2>0, <2>1, <2>2, <2>3
<1> QED BY <1>3, <1>4, <1>5, <1>6 DEF Completes

(* Nothing comes back by itself. *)
LEMMA ForbiddenNext ==
  ASSUME BrokerInv, OwnerInv, KnownInv, TargetInv, AppInv, ExposedInv, ForbiddenInv, [Next]_vars
  PROVE  ForbiddenInv'
<1>1. CASE UNCHANGED vars
  BY <1>1 DEF ForbiddenInv, RevokedNeverRuns, vars, coreVars, runVars
<1>2. CASE Next
  <2>0. Shaped /\ CoreTypeOK /\ BrokerInv' /\ forbidden' \subseteq Pairs /\ child' \subseteq Workers
    BY <1>2, NextHistory, BrokerNext DEF BrokerInv, Shaped, ThreadsOK
  <2>1. pending'.secrets \subseteq pending'.requested
    <3>1. RequestOrigin
      BY <1>2, <2>0, NextMethod, MethodRequest
    <3> QED BY <3>1 DEF RequestOrigin, RequestKept, RequestNew, SameRequest, NoPending, ForbiddenInv
  <2>2. ASSUME NEW c \in Clients, NEW s \in Secrets, <<c, s>> \in forbidden'
        PROVE  grants'[c][s].kind = "none" /\ <<c, s>> \notin Approved(pending')
    BY <1>2, <2>0, <2>2, ForbiddenStays, NewlyForbidden, NextForbids
  <2>3. ASSUME NEW w \in child', NEW c \in Clients, NEW s \in Secrets, <<c, s>> \in forbidden',
               call'[w].client = c, s \in call'[w].secrets
        PROVE  FALSE
    <3>1. <<c, s>> \in forbidden
      BY <1>2, <2>0, <2>3, NewlyForbidden, NextForbids
    <3>2. CASE w \in child /\ SameCall(call[w], call'[w])
      BY <2>3, <3>1, <3>2 DEF ForbiddenInv, RevokedNeverRuns, SameCall
    <3>3. CASE /\ call'[w].client = call[w].client /\ call'[w].secrets = call[w].secrets
               /\ \A x \in call[w].secrets : grants[call[w].client][x].kind # "none"
      BY <2>3, <3>1, <3>3 DEF ForbiddenInv
    <3> QED BY <1>2, <2>0, <2>3, <3>2, <3>3, ChildOrigin
  <2>4. RevokedNeverRuns'
    BY <2>0, <2>3 DEF RevokedNeverRuns, Pairs
  <2> QED BY <2>1, <2>2, <2>4 DEF ForbiddenInv
<1> QED BY <1>1, <1>2

(* Once a revocation, an app lock or a vault lock has completed, no child  *)
(* process that was given a secret it took away is alive, and none will    *)
(* be, until the user grants the secret to that client again: whichever    *)
(* thread completes it has blocked or cancelled and awaited the run        *)
(* (RunCoordinator), and a run that starts its child later redeems grants  *)
(* that are no longer there (with_valid_grant).                            *)
THEOREM RevokedStaysRevoked == Spec => []RevokedNeverRuns
<1> DEFINE Inv == /\ BrokerInv /\ LocalInv /\ AppInv /\ KnownInv /\ OwnerInv
                  /\ TargetInv /\ ExposedInv /\ ForbiddenInv
<1>1. Init => Inv
  <2>1. Init => LocalInv
    BY DEF Init, LocalInv, OwnsLocal, LocalStep, Procs
  <2>2. Init => AppInv /\ ExposedInv
    BY DEF Init, CoreInit, AppInv, ExposedInv, IsAppActive, Active
  <2>3. Init => KnownInv /\ TargetInv
    BY DEF Init, KnownInv, KnownSteps, TargetInv, Procs
  <2>4. Init => OwnerInv /\ ForbiddenInv
    BY DEF Init, CoreInit, OwnerInv, ForbiddenInv, RevokedNeverRuns, NoPending
  <2> QED BY <2>1, <2>2, <2>3, <2>4, BrokerInit
<1>2. Inv /\ [Next]_vars => Inv'
  BY BrokerNext, LocalNext, AppNext, KnownNext, OwnerNext, TargetNext, ExposedNext, ForbiddenNext
     DEF BrokerInv
<1>3. Inv => RevokedNeverRuns
  BY DEF ForbiddenInv
<1> QED BY <1>1, <1>2, <1>3, PTL DEF Spec

-----------------------------------------------------------------------------
(* The list request.                                                       *)

(* Worker w goes to step t of a list request, or ends it. *)
ListMoves(w) ==
  LET t == pc'[w]
      o == op'[w]
  IN
  /\ pc[w] \in ListSteps \cup {"idle", "start"}
  /\ t \in ListSteps \cup {"idle", "hasUnattended"}
  /\ pc' = [pc EXCEPT ![w] = t] /\ op' = [op EXCEPT ![w] = o]
  /\ o \in {"none", "list"} /\ Placed(w, o, t)
  /\ call' \in [Workers -> CallRec]
  /\ \A v \in Workers \ {w} : call'[v] = call[v]
  /\ o = "list" => call'[w].client \in Clients
  /\ PurgeAll \/ PurgeDisconnected \/ UNCHANGED coreVars
  /\ UNCHANGED <<RunFrame, runVars, unlock>> /\ count' \in CountRec

(* A worker at a step of a list request serves one. *)
LEMMA ListAt ==
  ASSUME Shaped, NEW w \in Workers, pc[w] \in ListSteps
  PROVE  op[w] = "list" /\ call[w].client \in Clients
<1>1. w \in Procs /\ w # Gui /\ w # Locker
  BY ProcessAssumption DEF Procs
<1>2. op[w] = "list"
  BY <1>1, StepNames DEF Shaped, ControlInv, Placed
<1> QED BY <1>2 DEF Shaped, ControlInv

(* A request that ends. *)
LEMMA ListEnds ==
  ASSUME Shaped, NEW w \in Workers, Fail(w)
  PROVE  /\ pc'[w] = "idle" /\ op'[w] = "none"
         /\ pc' = [pc EXCEPT ![w] = "idle"] /\ op' = [op EXCEPT ![w] = "none"]
         /\ Placed(w, "none", "idle")
         /\ call' \in [Workers -> CallRec] /\ \A v \in Workers \ {w} : call'[v] = call[v]
<1>1. w \in Procs /\ OnAll(pc, Procs) /\ OnAll(op, Procs) /\ call \in [Workers -> CallRec]
  BY DEF Shaped, ThreadsOK, Procs
<1>2. call' = [call EXCEPT ![w] = NoRequest] /\ NoRequest \in CallRec
  BY CallFields DEF Fail
<1>3. call' \in [Workers -> CallRec] /\ \A v \in Workers \ {w} : call'[v] = call[v]
  BY <1>1, <1>2
<1>4. Placed(w, "none", "idle")
  BY DEF Placed
<1> QED BY <1>1, <1>3, <1>4 DEF Fail, Goto, OnAll

(* A request that goes on. *)
LEMMA ListGoesOn ==
  ASSUME Shaped, NEW w \in Workers, NEW t \in ListSteps, op[w] = "list", Proceed(w, t)
  PROVE  /\ pc'[w] = t /\ op'[w] = "list"
         /\ pc' = [pc EXCEPT ![w] = t] /\ op' = [op EXCEPT ![w] = "list"]
         /\ Placed(w, "list", t)
         /\ call' \in [Workers -> CallRec] /\ call' = call /\ call[w].client \in Clients
<1>1. w \in Procs /\ OnAll(pc, Procs) /\ OnAll(op, Procs) /\ call \in [Workers -> CallRec]
  BY DEF Shaped, ThreadsOK, Procs
<1>2. op' = op /\ call' = call /\ pc' = [pc EXCEPT ![w] = t]
  BY DEF Proceed, Goto
<1>3. op' = [op EXCEPT ![w] = "list"] /\ op'[w] = "list" /\ pc'[w] = t
  BY <1>1, <1>2 DEF OnAll
<1>4. Placed(w, "list", t)
  BY DEF Placed
<1>5. call[w].client \in Clients
  BY DEF Shaped, ControlInv
<1> QED BY <1>1, <1>2, <1>3, <1>4, <1>5

(* Every step of a list request. *)
LEMMA ListStepMoves ==
  ASSUME Shaped, NEW w \in Workers, ListStep(w) \/ \E c \in Clients : StartList(w, c)
  PROVE  ListMoves(w)
<1>0. w \in Procs /\ OnAll(pc, Procs) /\ OnAll(op, Procs) /\ call \in [Workers -> CallRec]
  BY DEF Shaped, ThreadsOK, Procs
<1>1. CASE ListStep(w)
  <2>1. /\ pc[w] \in ListSteps \cup {"start"} /\ op[w] = "list"
    <3>1. CASE ListAccess(w)
      BY <3>1 DEF ListAccess, At, Listing
    <3>2. CASE ~ ListAccess(w)
      <4>1. pc[w] \in ListSteps
        BY <1>1, <3>2 DEF ListStep, ListState, ListGrants, ListVault, ListReply, At, ListSteps
      <4> QED BY <4>1, ListAt
    <3> QED BY <3>1, <3>2
  <2>2. PurgeAll \/ PurgeDisconnected \/ UNCHANGED coreVars
    BY <1>1 DEF ListStep, ListAccess, ListState, ListGrants, ListVault, ListReply, ReadUnattended
  <2>3. UNCHANGED <<RunFrame, runVars, unlock>> /\ count' \in CountRec
    BY <1>1 DEF ListStep, ListAccess, ListState, ListGrants, ListVault, ListReply, Frame,
         Shaped, SharedOK
  <2>4. Fail(w) \/ \E t \in ListSteps : Proceed(w, t)
    BY <1>1 DEF ListStep, ListAccess, ListState, ListGrants, ListVault, ListReply, ListSteps
  <2>5. CASE Fail(w)
    BY <2>1, <2>2, <2>3, <2>5, ListEnds DEF ListMoves
  <2>6. CASE \E t \in ListSteps : Proceed(w, t)
    <3>1. PICK t \in ListSteps : Proceed(w, t)
      BY <2>6
    <3> QED BY <2>1, <2>2, <2>3, <3>1, ListGoesOn DEF ListMoves
  <2> QED BY <2>4, <2>5, <2>6
<1>2. ASSUME NEW c \in Clients, StartList(w, c)
      PROVE  ListMoves(w)
  <2>1. /\ pc[w] = "idle" /\ pc' = [pc EXCEPT ![w] = "hasUnattended"]
        /\ op' = [op EXCEPT ![w] = "list"] /\ PurgeAll
        /\ UNCHANGED <<RunFrame, runVars, unlock>>
        /\ call' = [call EXCEPT ![w] = [NoRequest EXCEPT !.client = c]]
        /\ count' = [count EXCEPT !.runs = @ + 1]
    BY <1>2 DEF StartList, At, Goto
  <2>2. [NoRequest EXCEPT !.client = c] \in CallRec /\ [NoRequest EXCEPT !.client = c].client = c
    BY DEF NoRequest, CallRec
  <2>3. call' \in [Workers -> CallRec] /\ call'[w].client = c
        /\ \A v \in Workers \ {w} : call'[v] = call[v]
    <3> DEFINE q == [NoRequest EXCEPT !.client = c]
    <3>1. call' = [call EXCEPT ![w] = q] /\ q \in CallRec /\ q.client = c
      BY <2>1, <2>2
    <3> HIDE DEF q
    <3> QED BY <1>0, <3>1
  <2>4. count' \in CountRec
    BY <2>1, CountFields DEF Shaped, SharedOK
  <2>5. pc'[w] = "hasUnattended" /\ op'[w] = "list"
    BY <1>0, <2>1 DEF OnAll
  <2>6. Placed(w, "list", "hasUnattended")
    BY DEF Placed, RunSteps
  <2> QED BY <2>1, <2>3, <2>4, <2>5, <2>6 DEF ListMoves
<1> QED BY <1>1, <1>2

(* A list request has no lease and blocks no run. *)
LEMMA ListBroker ==
  ASSUME BrokerInv, NEW w \in Workers, ListMoves(w)
  PROVE  BrokerInv'
<1>0. /\ Shaped /\ w \in Procs /\ w # Gui /\ w # Locker /\ OnAll(pc, Procs) /\ OnAll(op, Procs)
  BY ProcessAssumption DEF BrokerInv, Shaped, ThreadsOK, Procs
<1>1. UNCHANGED <<active, blockNew, child, target, lost, forbidden, stop, session, failed, ui,
                  unlock, desk, lastPhase>> /\ UNCHANGED Clocks
  BY DEF ListMoves, RunFrame, runVars, vaultVars, windowVars
<1>2. OnAll(pc', Procs) /\ OnAll(op', Procs)
      /\ \A p \in Procs \ {w} : pc'[p] = pc[p] /\ op'[p] = op[p]
  BY <1>0 DEF ListMoves, OnAll
<1>3. \A p \in Procs : Placed(p, op'[p], pc'[p])
  BY <1>0, <1>2 DEF ListMoves, Shaped, ControlInv
<1>4. CoreTypeOK'
  <2>1. CoreMethod
    BY DEF ListMoves, CoreMethod, PlainMethod, StayMethod
  <2> QED BY <1>0, <1>1, <2>1, MethodType DEF Shaped
<1>5. ThreadsOK'
  BY <1>0, <1>1, <1>2 DEF ThreadsOK, Shaped, ListMoves
<1>6. SharedOK'
  BY <1>0, <1>1 DEF SharedOK, Shaped, ListMoves
<1>7. ControlInv'
  <2>1. \A v \in Workers : op'[v] \in {"run", "list"} => call'[v].client \in Clients
    <3>1. ASSUME NEW v \in Workers \ {w}, op'[v] \in {"run", "list"}
          PROVE  call'[v].client \in Clients
      BY <1>0, <1>2, <3>1 DEF ListMoves, Shaped, ControlInv, Procs
    <3>2. op'[w] # "run"
      BY DEF ListMoves
    <3> QED BY <3>1, <3>2 DEF ListMoves
  <2>2. op'[Gui] \in {"pair", "client"} => target'.client \in Clients
    BY <1>0, <1>1, <1>2 DEF Shaped, ControlInv, Procs
  <2> QED BY <1>3, <2>1, <2>2 DEF ControlInv
<1>8. LeaseInv'
  <2>1. pc[w] \notin LeaseSteps /\ pc'[w] \notin LeaseSteps
    BY LeaseNames DEF ListMoves, LeaseSteps
  <2>2. \A v \in Workers : pc'[v] \in LeaseSteps <=> pc[v] \in LeaseSteps
    BY <1>2, <2>1 DEF Procs
  <2>3. \A v \in child' : v \in Workers /\ v # w /\ pc'[v] = pc[v]
    BY <1>0, <1>1, <1>2, <2>1 DEF BrokerInv, LeaseInv, LeaseSteps, Shaped, ThreadsOK, Procs
  <2> QED BY <1>1, <2>2, <2>3 DEF BrokerInv, LeaseInv
<1>9. BlockInv'
  <2>1. ~ HeldStep(op[w], pc[w]) /\ ~ HeldStep(op'[w], pc'[w])
    BY HeldNames DEF ListMoves, RunSteps
  <2>2. \A p \in Procs : /\ HeldStep(op'[p], pc'[p]) <=> HeldStep(op[p], pc[p])
                         /\ HeldStep(op[p], pc[p]) => op'[p] = op[p] /\ pc'[p] = pc[p]
    BY <1>2, <2>1
  <2> QED BY <1>1, <2>2 DEF BrokerInv, BlockInv
<1> QED BY <1>4, <1>5, <1>6, <1>7, <1>8, <1>9 DEF BrokerInv, Shaped

(* Unattended access belongs to a session that is tracked, or that is gone *)
(* and not yet purged.                                                     *)
SessionInv ==
  \A c \in Clients, s \in Secrets :
    grants[c][s].kind = "unattended" => sessions[c].conn # 0

(* What the answer is filtered by, and the answer, were the client's. *)
ListInv ==
  /\ \A w \in Workers : pc[w] = "listVault" => authorized[w] \subseteq allowed[w]
  /\ ListWithinAuthority

(* The fields the list request adds are functions on the workers. *)
ListTyped ==
  OnAll(authorized, Workers) /\ OnAll(answer, Workers) /\ OnAll(allowed, Workers)

(* No method leaves unattended access to a session that is forgotten. *)
LEMMA SessionNext ==
  ASSUME CoreTypeOK, CoreMethod, SessionInv
  PROVE  SessionInv'
<1>1. SUFFICES ASSUME NEW c \in Clients, NEW s \in Secrets, grants'[c][s].kind = "unattended"
               PROVE  sessions'[c].conn # 0
  BY DEF SessionInv
<1>2. Origin(c, s)
  BY MethodOrigin
<1>3. Tracked(c) => PurgedSessions[c] = sessions[c] /\ sessions[c].conn # 0
  BY DEF Tracked, PurgedSessions, Gone
<1>4. CASE Kept(c, s)
  BY <1>1, <1>4 DEF Kept, SessionInv
<1>5. CASE FromContext(c, s)
  BY <1>3, <1>5 DEF FromContext
<1> QED BY <1>1, <1>2, <1>4, <1>5 DEF Origin, Earlier, FromRequest

(* The grants a locked app lists are its client's unattended access. *)
LEMMA ListedGrants ==
  ASSUME CoreTypeOK, SessionInv, NEW c \in Clients
  PROVE  UnattendedIds(PurgedGrants, c) \subseteq Listable(c)
<1>1. SUFFICES ASSUME NEW s \in UnattendedIds(PurgedGrants, c), ~ IsAppActive
               PROVE  ClientHasUnattended(c)
  BY DEF Listable, UnattendedIds
<1>2. s \in Secrets /\ IsUnattended(PurgedGrants[c][s], elapsed, wall)
  BY <1>1 DEF UnattendedIds, MissingUnattended
<1>3. c \notin Gone /\ grants[c][s].kind = "unattended"
  BY <1>2, PurgedEntry DEF IsUnattended, NoGrant
<1>4. Tracked(c)
  BY <1>2, <1>3 DEF SessionInv, Gone, Tracked
<1> QED BY <1>2, <1>4 DEF ClientHasUnattended, HasUnattended

(* The answer is read off what the client may list. *)
LEMMA ListStepInv ==
  ASSUME BrokerInv, SessionInv, ListInv, ListTyped, ListNext, NEW w \in Workers,
         ListStep(w) \/ \E c \in Clients : StartList(w, c)
  PROVE  /\ pc'[w] = "listVault" => authorized'[w] \subseteq allowed'[w]
         /\ pc'[w] = "listed" => answer'[w] \subseteq allowed'[w]
<1>0. Shaped /\ CoreTypeOK /\ ListMoves(w) /\ w \in Procs /\ OnAll(pc, Procs)
  BY ListStepMoves DEF BrokerInv, Shaped, ThreadsOK, Procs
<1>1. op'[w] = "list" /\ op[w] = "list" =>
        allowed[w] \cup Listable(call[w].client) \subseteq allowed'[w]
  BY DEF ListNext, Listing
<1>2. ASSUME NEW t \in {"listVault", "listed"}, pc'[w] = t
      PROVE  op'[w] = "list" /\ (pc[w] \in ListSteps => op[w] = "list" /\ call[w].client \in Clients)
  <2>1. op'[w] # "none"
    BY <1>0, <1>2, ProcessAssumption DEF ListMoves, Placed, RunSteps, Flow
  <2> QED BY <1>0, <2>1, ListAt DEF ListMoves
<1>3. CASE ListState(w)
  <2>1. pc[w] = "listState"
    BY <1>3 DEF ListState, At
  <2>2. pc'[w] # "listed"
    BY <1>0, <1>3 DEF ListState, Proceed, Goto, OnAll
  <2>3. ASSUME pc'[w] = "listVault"
        PROVE  authorized'[w] \subseteq allowed'[w]
    <3>1. IsAppActive
      BY <1>0, <1>3, <2>3 DEF ListState, Proceed, Goto, OnAll
    <3>2. authorized'[w] = Secrets
      BY <1>3, <3>1 DEF ListState, ListTyped, OnAll
    <3>3. Listable(call[w].client) = Secrets
      BY <3>1 DEF Listable
    <3> QED BY <1>1, <1>2, <2>1, <2>3, <3>2, <3>3 DEF ListSteps
  <2> QED BY <2>2, <2>3
<1>4. CASE ListGrants(w)
  <2>1. pc[w] = "listGrants" /\ pc'[w] = "listVault"
    BY <1>0, <1>4 DEF ListGrants, At, Proceed, Goto, OnAll
  <2>2. authorized'[w] = UnattendedIds(PurgedGrants, call[w].client)
    BY <1>4 DEF ListGrants, ListTyped, OnAll
  <2>3. op'[w] = "list" /\ op[w] = "list" /\ call[w].client \in Clients
    BY <1>2, <2>1 DEF ListSteps
  <2>4. authorized'[w] \subseteq Listable(call[w].client)
    BY <1>0, <2>2, <2>3, ListedGrants
  <2> QED BY <1>1, <2>1, <2>3, <2>4
<1>5. CASE ListVault(w)
  <2>1. pc[w] = "listVault" /\ pc'[w] \in {"idle", "listed"}
    BY <1>0, <1>5 DEF ListVault, At, Proceed, Fail, Goto, OnAll
  <2>2. ASSUME pc'[w] = "listed"
        PROVE  answer'[w] \subseteq allowed'[w]
    <3>1. answer'[w] = authorized[w]
      BY <1>0, <1>5, <2>2 DEF ListVault, Fail, Goto, ListTyped, OnAll
    <3>2. authorized[w] \subseteq allowed[w]
      BY <2>1 DEF ListInv
    <3> QED BY <1>1, <1>2, <2>1, <2>2, <3>1, <3>2 DEF ListSteps
  <2> QED BY <2>1, <2>2
<1>6. CASE ListAccess(w) \/ ListReply(w) \/ \E c \in Clients : StartList(w, c)
  BY <1>0, <1>6 DEF ListAccess, ListReply, StartList, Proceed, Fail, Goto, OnAll
<1> QED BY <1>3, <1>4, <1>5, <1>6 DEF ListStep

(* A request that another thread's step finds on its way stays there. *)
LEMMA ListWaits ==
  ASSUME Shaped, Next, NEW w \in Workers, pc'[w] \in ListSteps
  PROVE  pc[w] = pc'[w]
<1>0. w \in Procs /\ w # Gui /\ w # Locker /\ ThreadStep
  BY ProcessAssumption, NextThread DEF Procs
<1>1. CASE \E v \in Workers : RunMove(v)
  <2>1. ~ RunMove(w)
    BY StepNames DEF RunMove, RunEffect, RunMoves
  <2> QED BY <1>0, <1>1, <2>1, RunPlaced
<1>2. CASE \E p \in Procs : Only(p)
  <2>1. PICK p \in Procs : Only(p)
    BY <1>2
  <2>2. p # w
    BY <2>1 DEF Only, RequestSteps, ListSteps
  <2> QED BY <1>0, <2>1, <2>2 DEF Only
<1>3. CASE Spawn \/ Still
  BY <1>0, <1>3, SpawnMoves DEF Still
<1> QED BY <1>0, <1>1, <1>2, <1>3 DEF ThreadStep, Advances, Takes, Releases

(* What was the client's stays on record until the request is answered. *)
LEMMA ListNextInv ==
  ASSUME BrokerInv, SessionInv, ListInv, ListTyped, ListNext
  PROVE  BrokerInv' /\ SessionInv' /\ ListInv' /\ ListTyped'
<1>0. Shaped /\ CoreTypeOK
  BY DEF BrokerInv, Shaped
<1>1. BrokerInv' /\ CoreMethod
  <2>1. CASE Next
    BY <1>0, <2>1, BrokerNext, NextMethod
  <2>2. CASE \E w \in Workers : ListStep(w) \/ \E c \in Clients : StartList(w, c)
    <3>1. PICK w \in Workers : ListMoves(w)
      BY <1>0, <2>2, ListStepMoves
    <3>2. CoreMethod
      BY <3>1 DEF ListMoves, CoreMethod, PlainMethod, StayMethod
    <3> QED BY <3>1, <3>2, ListBroker
  <2> QED BY <2>1, <2>2 DEF ListNext
<1>2. SessionInv'
  BY <1>0, <1>1, SessionNext
<1>3. ListTyped'
  <2>1. OnAll(allowed', Workers)
    BY DEF ListNext, OnAll
  <2>2. OnAll(authorized', Workers) /\ OnAll(answer', Workers)
    <3>1. CASE UNCHANGED <<authorized, answer>>
      BY <3>1 DEF ListTyped, OnAll
    <3>2. CASE \E w \in Workers : ListStep(w) \/ \E c \in Clients : StartList(w, c)
      BY <3>2 DEF ListStep, ListAccess, ListState, ListGrants, ListVault, ListReply, StartList,
           ListTyped, OnAll
    <3> QED BY <3>1, <3>2 DEF ListNext
  <2> QED BY <2>1, <2>2 DEF ListTyped
<1>4. ASSUME NEW w \in Workers, pc'[w] \in {"listVault", "listed"}
      PROVE  /\ pc'[w] = "listVault" => authorized'[w] \subseteq allowed'[w]
             /\ pc'[w] = "listed" => answer'[w] \subseteq allowed'[w]
  <2>1. CASE ListStep(w) \/ \E c \in Clients : StartList(w, c)
    BY <2>1, ListStepInv
  <2>2. CASE ~ (ListStep(w) \/ \E c \in Clients : StartList(w, c))
    <3>1. pc'[w] = pc[w] /\ authorized'[w] = authorized[w] /\ answer'[w] = answer[w]
      <4>1. CASE Next /\ UNCHANGED <<authorized, answer>>
        BY <1>0, <1>4, <4>1, ListWaits DEF ListSteps
      <4>2. CASE \E v \in Workers : ListStep(v) \/ \E c \in Clients : StartList(v, c)
        <5>1. PICK v \in Workers : v # w /\ (ListStep(v) \/ \E c \in Clients : StartList(v, c))
          BY <2>2, <4>2
        <5>2. ListMoves(v) /\ w \in Procs /\ OnAll(pc, Procs)
          BY <1>0, <5>1, ListStepMoves DEF Shaped, ThreadsOK, Procs
        <5>3. pc'[w] = pc[w]
          BY <5>1, <5>2 DEF ListMoves, OnAll
        <5>4. authorized'[w] = authorized[w] /\ answer'[w] = answer[w]
          BY <5>1 DEF ListStep, ListAccess, ListState, ListGrants, ListVault, ListReply, StartList,
               ListTyped, OnAll
        <5> QED BY <5>3, <5>4
      <4> QED BY <4>1, <4>2 DEF ListNext
    <3>2. op'[w] = "list"
      <4>1. Shaped'
        BY <1>1 DEF BrokerInv
      <4>2. Placed(w, op'[w], pc'[w]) /\ w # Gui /\ w # Locker
        BY <4>1, ProcessAssumption DEF Shaped, ControlInv, Procs
      <4> QED BY <1>4, <4>2, StepNames DEF Placed, ListSteps
    <3>3. allowed[w] \subseteq allowed'[w]
      BY <3>2 DEF ListNext
    <3> QED BY <1>4, <3>1, <3>3 DEF ListInv, ListWithinAuthority, At
  <2> QED BY <2>1, <2>2
<1>5. ListInv'
  BY <1>4 DEF ListInv, ListWithinAuthority, At
<1> QED BY <1>1, <1>2, <1>3, <1>5

(* The answer to a list request names only secrets that were the client's  *)
(* to list at some moment while it was served, by an open app or by        *)
(* unattended access, whatever was locked, unlocked or revoked between the *)
(* request's critical sections (RpcMethod::List).                          *)
THEOREM ListAuthorized == ListSpec => []ListWithinAuthority
<1> DEFINE Inv == BrokerInv /\ SessionInv /\ ListInv /\ ListTyped
<1>1. ListInit => Inv
  <2>1. SUFFICES ASSUME ListInit
                 PROVE  Inv
    OBVIOUS
  <2>2. BrokerInv
    BY <2>1, BrokerInit DEF ListInit
  <2>3. SessionInv
    BY <2>1 DEF ListInit, Init, CoreInit, SessionInv, NoGrants, NoGrant
  <2>4. \A w \in Workers : pc[w] = "idle"
    BY <2>1 DEF ListInit, Init, Procs
  <2>5. ListInv
    BY <2>4 DEF ListInv, ListWithinAuthority, At
  <2>6. ListTyped
    BY <2>1 DEF ListInit, ListTyped, OnAll
  <2> QED BY <2>2, <2>3, <2>5, <2>6
<1>2. Inv /\ [ListNext]_<<vars, listVars>> => Inv'
  <2>1. SUFFICES ASSUME Inv, UNCHANGED <<vars, listVars>>
                 PROVE  Inv'
    BY ListNextInv
  <2>2. BrokerInv'
    BY <2>1, BrokerNext
  <2> QED BY <2>1, <2>2 DEF SessionInv, ListInv, ListWithinAuthority, At, ListTyped, OnAll,
                            vars, coreVars, listVars
<1>3. Inv => ListWithinAuthority
  BY DEF ListInv
<1> QED BY <1>1, <1>2, <1>3, PTL DEF ListSpec

-----------------------------------------------------------------------------
(* Types.                                                                  *)

(* The procedures the threads run; a list request is AgentList's. *)
OpInv == \A p \in Procs : op[p] \in FlowOps \cup {"none", "run"}

(* A thread begins a procedure of its own. *)
LEMMA OpNext ==
  ASSUME Shaped, OpInv, [Next]_vars
  PROVE  OpInv'
<1>1. CASE UNCHANGED vars
  BY <1>1 DEF OpInv, vars
<1>2. CASE Next
  <2>0. /\ Gui \in Procs /\ Locker \in Procs /\ Gui # Locker /\ Gui \notin Workers
        /\ OnAll(op, Procs)
    BY ProcessAssumption DEF Procs, Shaped, ThreadsOK
  <2>1. ASSUME NEW w \in Workers
        PROVE  op'[w] \in FlowOps \cup {"none", "run"}
    <3>1. CASE op'[w] = op[w] \/ op'[w] \in {"none", "rpcLock"}
      BY <3>1 DEF OpInv, Procs, FlowOps
    <3>2. CASE \E c \in Clients, S \in Bindings : StartRun(w, c, S)
      BY <2>0, <3>2 DEF StartRun, OnAll, Procs
    <3> QED BY <1>2, <3>1, <3>2, WorkerOps
  <2>2. op'[Gui] \in FlowOps \cup {"none", "run"}
    <3>1. CASE ProcStep(Gui)
      <4>1. op'[Gui] = op[Gui]
        BY <2>0, <3>1 DEF ProcStep, CancelPendingStep, RevokeAllStep, CancelRunStep, Block, Quiesce,
           LockVault, Reset, ReleaseBlock, ReleaseLocal, ProcFrame
      <4> QED BY <2>0, <4>1 DEF OpInv
    <3>2. CASE GuiProc
      <4>1. op'[Gui] \in {op[Gui], "lock", "drop"}
        BY <2>0, <3>2 DEF GuiProc, TryLocal, WaitLocal, CancelUnlock, RevokeTarget, BeginLock,
           Snapshot, Covers, IdleVault, ReleaseIdle, Clear, DisconnectUi, StopServing,
           CloseSessions, Join, Start, ProcFrame, OnAll
      <4> QED BY <2>0, <4>1 DEF OpInv, FlowOps, GuiOps
    <3>3. CASE Spawn
      BY <2>0, <3>3, SpawnMoves DEF OpInv
    <3>4. CASE FrameStep
      <4>1. op'[Gui] \in {op[Gui], "lock", "sync"}
        BY <2>0, <3>4 DEF FrameStep, ProcessExternalLock, SynchronizePhase, AppLockResult, Start,
           OnAll
      <4> QED BY <2>0, <4>1 DEF OpInv, FlowOps, GuiOps
    <3>5. CASE UserBegins
      <4>1. op'[Gui] \in GuiOps
        BY <2>0, <3>5 DEF UserBegins, HardLock, LockApp, AutoLock, IdleLock, RevokeAllGrants, Exit,
           RevokeSession, RevokeGrant, UserStarts, Start, OnAll, GuiOps
      <4> QED BY <4>1 DEF FlowOps
    <3> QED BY <1>2, <2>0, <3>1, <3>2, <3>3, <3>4, <3>5, GuiMoves DEF OpInv
  <2>3. op'[Locker] \in FlowOps \cup {"none", "run"}
    <3>1. CASE ProcStep(Locker) \/ Drain \/ FinishLock
      <4>1. op'[Locker] = op[Locker]
        BY <2>0, <3>1, ProcessAssumption DEF ProcStep, CancelPendingStep, RevokeAllStep,
           CancelRunStep, Block, Quiesce, LockVault, Reset, ReleaseBlock, ReleaseLocal, ProcFrame,
           Drain, FinishLock
      <4> QED BY <2>0, <4>1 DEF OpInv
    <3>2. CASE Spawn
      BY <3>2, SpawnMoves DEF FlowOps, LockerOps
    <3> QED BY <1>2, <2>0, <3>1, <3>2, LockerMoves DEF OpInv
  <2> QED BY <2>1, <2>2, <2>3 DEF OpInv, Procs
<1> QED BY <1>1, <1>2

(* Where a thread may be has the types the specification states. *)
LEMMA PlacedTypes ==
  ASSUME NEW p, NEW o, NEW s, Placed(p, o, s)
  PROVE  s \in Steps \cup RunSteps \cup ListSteps \cup {"idle", "releaseIdle", "gone"}
<1>1. \A x \in FlowOps : x \in DOMAIN Flow /\ DOMAIN Flow[x] \subseteq Steps
  BY DEF FlowOps, GuiOps, LockerOps, Flow, Steps
<1>2. "disconnect" \in Steps /\ "spawn" \in RunSteps
  <2>1. "drop" \in DOMAIN Flow /\ "disconnect" \in DOMAIN Flow["drop"]
    BY DEF Flow
  <2> QED BY <2>1 DEF Steps, RunSteps
<1>3. CASE o \in FlowOps /\ StepOf(o, s)
  BY <1>1, <1>2, <1>3 DEF StepOf
<1>4. CASE o \in FlowOps /\ s \in DOMAIN Flow[o]
  BY <1>1, <1>4
<1> QED BY <1>3, <1>4 DEF Placed, FlowOps

(* Every variable has its type, and a child belongs to the run with the    *)
(* lease (RunCoordinator, run_guarded).                                    *)
THEOREM BrokerTypes == Spec => []TypeOK
<1> DEFINE Inv == BrokerInv /\ OpInv
<1>1. Init => Inv
  BY BrokerInit DEF Init, OpInv
<1>2. Inv /\ [Next]_vars => Inv'
  BY BrokerNext, OpNext DEF BrokerInv
<1>3. Inv => TypeOK
  <2>1. SUFFICES ASSUME Inv
                 PROVE  TypeOK
    OBVIOUS
  <2>2. /\ CoreTypeOK /\ session \in Nat /\ failed \in BOOLEAN
        /\ blockNew \in BOOLEAN /\ stop \in BOOLEAN /\ lastPhase \in BOOLEAN
        /\ lost \subseteq Pairs /\ forbidden \subseteq Pairs
    BY <2>1 DEF BrokerInv, Shaped, ThreadsOK, SharedOK
  <2>3. active \in [worker : Workers \cup {NoWorker}, known : BOOLEAN]
    <3>1. NoRun \in [worker : Workers \cup {NoWorker}, known : BOOLEAN]
      BY DEF NoRun
    <3>2. active \in RunRec
      BY <2>1 DEF BrokerInv, Shaped, ThreadsOK
    <3>3. CASE active \in [worker : Workers, known : BOOLEAN]
      BY <3>3
    <3> QED BY <3>1, <3>2, <3>3 DEF RunRec
  <2>4. ui \in UiRec /\ unlock \in UnlockRec /\ desk \in DeskRec /\ call \in [Workers -> CallRec]
    BY <2>1 DEF BrokerInv, Shaped, ThreadsOK, SharedOK
  <2>5. op \in [Procs -> DOMAIN Flow \cup {"none", "run"}]
    <3>1. FlowOps \subseteq DOMAIN Flow
      BY DEF FlowOps, GuiOps, LockerOps, Flow
    <3>2. OnAll(op, Procs) /\ \A p \in Procs : op[p] \in DOMAIN Flow \cup {"none", "run"}
      BY <2>1, <3>1 DEF BrokerInv, Shaped, ThreadsOK, OpInv
    <3> QED BY <3>2 DEF OnAll
  <2>6. pc \in [Procs -> Steps \cup RunSteps \cup {"idle", "releaseIdle", "gone"}]
    <3>1. ASSUME NEW p \in Procs
          PROVE  pc[p] \in Steps \cup RunSteps \cup {"idle", "releaseIdle", "gone"}
      <4>1. Placed(p, op[p], pc[p])
        BY <2>1 DEF BrokerInv, Shaped, ControlInv
      <4>2. pc[p] \in ListSteps => p \in Workers /\ op[p] = "list"
        <5>1. SUFFICES ASSUME pc[p] \in ListSteps
                       PROVE  p \in Workers
          BY <2>1, ListAt DEF BrokerInv
        <5>2. \A o \in FlowOps : ~ StepOf(o, pc[p]) /\ pc[p] \notin DOMAIN Flow[o]
          BY <5>1 DEF ListSteps, StepOf, FlowOps, GuiOps, LockerOps, Flow, LockFlow, RevokeFlow,
               TargetFlow
        <5> QED BY <4>1, <5>1, <5>2, StepNames DEF Placed, FlowOps
      <4>3. op[p] # "list"
        BY <2>1 DEF OpInv, FlowOps, GuiOps, LockerOps
      <4> QED BY <4>1, <4>2, <4>3, PlacedTypes
    <3>2. OnAll(pc, Procs)
      BY <2>1 DEF BrokerInv, Shaped, ThreadsOK
    <3> QED BY <3>1, <3>2 DEF OnAll
  <2>7. child \subseteq {w \in Workers : pc[w] = "child" /\ active.worker = w}
    BY <2>1 DEF BrokerInv, Shaped, ThreadsOK, LeaseInv, LeaseSteps
  <2> QED BY <2>2, <2>3, <2>4, <2>5, <2>6, <2>7 DEF TypeOK, UiRec, UnlockRec, DeskRec, CallRec
<1> QED BY <1>1, <1>2, <1>3, PTL DEF Spec

=============================================================================
