--------------------------- MODULE ApprovalProofs ---------------------------
(***************************************************************************)
(* Theorems about Approval, for every value of its constants.  GrantStep   *)
(* says where an entry of the grant table after a step can come from;      *)
(* every invariant about grants then follows from its cases.               *)
(***************************************************************************)
EXTENDS Approval, CoordinatorProofs

(* The coordinator's state is typed when all of the state is. *)
LEMMA CoreTyped == TypeOK => CoreTypeOK
BY DEF TypeOK

(* What the callers start with, and what the user may decide, has its type. *)
LEMMA CallerValues ==
  /\ UserDecisions \subseteq Decision
  /\ NoCall \in Call /\ NothingShown \in Shown /\ NoContext \in UnattendedContext
BY ConstantsAssumption, BoundsAssumption
   DEF UserDecisions, Deny, Decision, DecisionKinds, Approving, NoCall, Call,
       NothingShown, Shown, NoContext, UnattendedContext

(* The window's request, once it has one, names a client and secrets. *)
LEMMA ShownFields ==
  ASSUME TypeOK
  PROVE  shown.id # 0 => shown.client \in Clients /\ shown.secrets \subseteq Secrets
BY DEF TypeOK, Shown, NothingShown

(* The types of what the callers hold. *)
CallerType ==
  /\ elapsed \in Nat /\ wall \in Nat
  /\ threads \in [Threads -> Call]
  /\ shown \in Shown
  /\ context \in UnattendedContext

(* TypeOK is the coordinator's part and the callers' part. *)
LEMMA TypeSplit == TypeOK <=> CoreType /\ CallerType
BY DEF TypeOK, CoreTypeOK, CoreType, CallerType

(* A step leaves TypeOK true if it leaves the coordinator's types and the  *)
(* callers' types true, one step per action of Next.                       *)
LEMMA TypeStep == TypeOK /\ [Next]_vars => TypeOK'
<1> SUFFICES ASSUME TypeOK, [Next]_vars PROVE CoreType' /\ CallerType'
  BY TypeSplit DEF TypeOK, CoreTypeOK, CoreType, CallerType
<1> CoreTypeOK
  BY CoreTyped
<1>1. ASSUME NEW t \in Threads, NEW c \in Clients, NEW v \in 1..MaxVault,
             NEW S \in SUBSET Secrets, Authorize(t, c, v, S)
      PROVE  CoreType' /\ CallerType'
  <2>1. CoreType'
    BY <1>1, AuthorizeKeepsType, PurgeKeepsType, BoundsAssumption DEF Authorize
  <2>2. threads' \in [Threads -> Call]
    <3>1. /\ NewCall("ticket", 0, c, v, S) \in Call
          /\ NewCall("waiting", nextId, c, v, S) \in Call
      BY ConstantsAssumption, BoundsAssumption DEF NewCall, Call, TypeOK, CoreTypeOK
    <3> QED BY <1>1, <3>1 DEF Authorize, TypeOK, CoreTypeOK
  <2> QED BY <1>1, <2>1, <2>2 DEF Authorize, Clocks, Window, TypeOK, CoreTypeOK, CallerType
<1>2. ASSUME NEW t \in Threads, Poll(t) \/ PollTimeout(t)
      PROVE  CoreType' /\ CallerType'
  <2>1. CoreType'
    BY <1>2, PollKeepsType DEF Poll, PollCancelled, PollDecision, PollTimeout
  <2>2. threads' \in [Threads -> Call]
    BY <1>2, CallerValues DEF Poll, PollCancelled, PollDecision, PollTimeout, Call, TypeOK, CoreTypeOK, NoCall
  <2> QED BY <1>2, <2>1, <2>2
          DEF Poll, PollCancelled, PollDecision, PollTimeout, Clocks, Window, TypeOK, CoreTypeOK, CallerType
<1>3. ASSUME NEW t \in Threads, CancelRun(t) \/ FinishRun(t)
      PROVE  CoreType' /\ CallerType'
  <2>1. threads' \in [Threads -> Call]
    <3>1. CASE CancelRun(t)
      <4>1. threads[t] # NoCall /\ threads[t] \in Call
        BY <3>1 DEF CancelRun, NoCall, TypeOK, CoreTypeOK
      <4>2. [threads[t] EXCEPT !.cancelled = TRUE] \in Call
        BY <4>1 DEF Call
      <4> QED BY <3>1, <4>2 DEF CancelRun, TypeOK, CoreTypeOK
    <3>2. CASE FinishRun(t)
      BY <3>2, CallerValues DEF FinishRun, TypeOK, CoreTypeOK
    <3> QED BY <1>3, <3>1, <3>2
  <2> QED BY <1>3, <2>1
          DEF CancelRun, FinishRun, coreVars, Clocks, Window, TypeOK, CoreTypeOK, CoreType, CallerType
<1>4. ASSUME NEW t \in Threads, Redeem(t)
      PROVE  CoreType' /\ CallerType'
  <2>1. CoreType'
    BY <1>4, PurgeKeepsType DEF Redeem, RedeemEffect
  <2>2. threads' \in [Threads -> Call]
    BY <1>4, CallerValues DEF Redeem, TypeOK, CoreTypeOK
  <2> QED BY <1>4, <2>1, <2>2 DEF Redeem, Clocks, Window, TypeOK, CoreTypeOK, CallerType
<1>5. CASE ShowPending
  <2>1. shown' \in Shown
    BY <1>5, PurgedTypes, PendingFields DEF ShowPending, Shown, TypeOK, CoreTypeOK
  <2> QED BY <1>5, <2>1, PurgeKeepsType DEF ShowPending, Clocks, TypeOK, CoreTypeOK, CallerType
<1>6. ASSUME NEW d \in UserDecisions, Decide(d)
      PROVE  CoreType' /\ CallerType'
  BY <1>6, DecisionsKeepType, CallerValues, ShownFields DEF Decide, Clocks, Window, TypeOK, CoreTypeOK, CallerType
<1>7. ASSUME NEW c \in Clients, NEW v \in 1..MaxVault, Capture(c, v)
      PROVE  CoreType' /\ CallerType'
  <2>1. context' \in UnattendedContext
    BY <1>7, ConstantsAssumption, BoundsAssumption
       DEF Capture, ContextOf, UnattendedContext, TypeOK, CoreTypeOK, SessionState
  <2> QED BY <1>7, <2>1, UnattendedKeepsType DEF Capture, Clocks, TypeOK, CoreTypeOK, CallerType
<1>8. ASSUME NEW S \in SUBSET Secrets, NEW deadline \in 0..MaxWall,
             ConfirmUnattended(S, deadline)
      PROVE  CoreType' /\ CallerType'
  BY <1>8, UnattendedKeepsType DEF ConfirmUnattended, Clocks, Window, TypeOK, CoreTypeOK, CallerType
<1>9. CASE Query
  BY <1>9, PurgeKeepsType DEF Query, Clocks, Window, TypeOK, CoreTypeOK, CallerType
<1>10. ASSUME NEW c \in Clients, Register(c) \/ DisconnectClient(c)
       PROVE  CoreType' /\ CallerType'
  BY <1>10, SessionsKeepType
     DEF Register, DisconnectClient, Interrupted, UnattendedContext, Clocks, Window,
         TypeOK, CoreTypeOK, CallerType
<1>11. CASE TakeAway
  <2>1. CoreType'
    <3>1. CASE CloseClientSessions
      BY <3>1, SessionsKeepType
    <3>2. CASE (\E preserve \in BOOLEAN : BeginAppLock(preserve)) \/ ResetAfterVaultLock
      BY <3>2, LocksKeepType
    <3>3. CASE RevokeAll
      BY <3>3, RevokeAllKeepsType
    <3>4. ASSUME NEW c \in Clients, NEW s \in Secrets, RevokePair(c, s) PROVE CoreType'
      BY <3>4, RevokePairKeepsType
    <3>5. ASSUME NEW c \in Clients, RevokeClient(c) PROVE CoreType'
      BY <3>5, RevokeClientKeepsType
    <3>6. ASSUME NEW s \in Secrets, CoordinateSecretMutation(s) PROVE CoreType'
      BY <3>6, MutationKeepsType
    <3> QED BY <1>11, <3>1, <3>2, <3>3, <3>4, <3>5, <3>6 DEF TakeAway
  <2> QED BY <1>11, <2>1
          DEF TakeAway, Interrupted, UnattendedContext, Clocks, TypeOK, CoreTypeOK, CallerType
<1>12. CASE AppLockStep
  BY <1>12, LocksKeepType DEF AppLockStep, Clocks, Window, TypeOK, CoreTypeOK, CallerType
<1>13. CASE CancelRequest
  BY <1>13, DecisionsKeepType, ShownFields DEF CancelRequest, Clocks, Window, TypeOK, CoreTypeOK, CallerType
<1>14. CASE Tick \/ SetWall
  BY <1>14, ConstantsAssumption, BoundsAssumption
     DEF Tick, SetWall, coreVars, Window, TypeOK, CoreTypeOK, CoreType, CallerType
<1>15. CASE UNCHANGED vars
  BY <1>15 DEF vars, coreVars, TypeOK, CoreTypeOK, CoreType, CallerType
<1> QED
  BY <1>1, <1>2, <1>3, <1>4, <1>5, <1>6, <1>7, <1>8, <1>9, <1>10, <1>11, <1>12,
     <1>13, <1>14, <1>15 DEF Next

(* Every state that the ApprovalCoordinator's methods reach, called by any *)
(* number of workers, clients and windows, is well typed.                  *)
THEOREM TypeCorrect == Spec => []TypeOK
<1>1. Init => TypeOK
  <2> SUFFICES ASSUME Init PROVE TypeOK
    OBVIOUS
  <2>1. /\ grants \in Table /\ pending \in PendingState
        /\ sessions \in [Clients -> SessionState] /\ appAccess \in AppAccess
    BY NoGrantType, ValueTypes DEF Init, CoreInit
  <2>2. /\ threads \in [Threads -> Call] /\ shown \in Shown
        /\ context \in UnattendedContext
    BY CallerValues DEF Init, CoreInit
  <2>3. wall \in Nat
    BY ConstantsAssumption, BoundsAssumption DEF Init, CoreInit
  <2>4. sessionsClosed \in BOOLEAN /\ manual \in BOOLEAN
    BY DEF Init, CoreInit
  <2>5. /\ vault \in Nat /\ lockEpoch \in Nat /\ revision \in Nat /\ elapsed \in Nat
        /\ nextId \in Nat \ {0} /\ nextConn \in Nat \ {0}
        /\ consent \subseteq Clients \X Secrets
    BY DEF Init, CoreInit
  <2> QED BY <2>1, <2>2, <2>3, <2>4, <2>5 DEF TypeOK, CoreTypeOK
<1> QED BY <1>1, TypeStep, PTL DEF Spec

-----------------------------------------------------------------------------
(* Grants.                                                                 *)

(* Every step: an entry is gone, kept, granted to a worker or granted to a *)
(* connected client for unattended use.                                    *)
LEMMA GrantStep ==
  ASSUME TypeOK, [Next]_vars, NEW c \in Clients, NEW s \in Secrets
  PROVE  Origin(c, s)
<1> CoreTypeOK
  BY CoreTyped
<1>1. ASSUME NEW t \in Threads, NEW k \in Clients, NEW v \in 1..MaxVault,
             NEW S \in SUBSET Secrets, Authorize(t, k, v, S)
      PROVE  Origin(c, s)
  BY <1>1, AuthorizeOrigin DEF Authorize, Origin
<1>2. ASSUME NEW t \in Threads, Poll(t) \/ PollTimeout(t)
      PROVE  Origin(c, s)
  BY <1>2, PollOrigin DEF Poll, PollCancelled, PollDecision, PollTimeout, Origin
<1>3. ASSUME NEW t \in Threads, CancelRun(t) \/ FinishRun(t)
      PROVE  Origin(c, s)
  BY <1>3 DEF CancelRun, FinishRun, coreVars, Origin, Earlier, Kept, Gone, IsAppActive
<1>4. ASSUME NEW t \in Threads, Redeem(t)
      PROVE  Origin(c, s)
  BY <1>4, PurgeOrigin DEF Redeem, RedeemEffect, Origin
<1>5. CASE ShowPending \/ Query
  BY <1>5, PurgeOrigin DEF ShowPending, Query, Origin
<1>6. ASSUME NEW d \in UserDecisions, Decide(d)
      PROVE  Origin(c, s)
  BY <1>6, DecisionOrigin DEF Decide, Origin
<1>7. ASSUME NEW k \in Clients, NEW v \in 1..MaxVault, Capture(k, v)
      PROVE  Origin(c, s)
  BY <1>7, CaptureOrigin DEF Capture, Origin
<1>8. ASSUME NEW S \in SUBSET Secrets, NEW deadline \in 0..MaxWall,
             ConfirmUnattended(S, deadline)
      PROVE  Origin(c, s)
  BY <1>8, UnattendedOrigin, ConstantsAssumption, BoundsAssumption DEF ConfirmUnattended
<1>9. ASSUME NEW k \in Clients, Register(k) \/ DisconnectClient(k)
      PROVE  Origin(c, s)
  BY <1>9, RegisterOrigin, DisconnectOrigin DEF Register, DisconnectClient, Origin
<1>10. CASE TakeAway
  BY <1>10, CloseOrigin, AppLockOrigin, LockStepOrigin, RevokeOrigin DEF TakeAway, Origin
<1>11. CASE AppLockStep \/ CancelRequest
  BY <1>11, LockStepOrigin, CancelOrigin DEF AppLockStep, CancelRequest, Origin
<1>12. CASE Tick \/ SetWall \/ UNCHANGED vars
  BY <1>12 DEF Tick, SetWall, vars, coreVars, Origin, Earlier, Kept, Gone, IsAppActive
<1> QED
  BY <1>1, <1>2, <1>3, <1>4, <1>5, <1>6, <1>7, <1>8, <1>9, <1>10, <1>11, <1>12 DEF Next

-----------------------------------------------------------------------------
(* The invariants.                                                         *)

(* Session and unattended grants belong to clients with a tracked session: *)
(* purge_disconnected_clients drops grants and session together.           *)
THEOREM SessionGrantsAlwaysTracked == Spec => []SessionGrantsTracked
<1>1. Init => SessionGrantsTracked
  BY DEF Init, CoreInit, NoGrants, NoGrant, SessionGrantsTracked
<1>2. TypeOK /\ SessionGrantsTracked /\ [Next]_vars => SessionGrantsTracked'
  <2> SUFFICES ASSUME TypeOK, SessionGrantsTracked, [Next]_vars,
                      NEW c \in Clients, NEW s \in Secrets,
                      grants'[c][s].kind \in {"session", "unattended"}
               PROVE  sessions'[c].conn # 0
    BY DEF SessionGrantsTracked
  <2>1. Origin(c, s)
    BY GrantStep
  <2>2. CASE Kept(c, s)
    BY <2>2 DEF Kept, SessionGrantsTracked
  <2>3. CASE FromRequest(c, s) \/ FromContext(c, s)
    BY <2>3 DEF FromRequest, FromContext, Tracked, PurgedSessions, Gone
  <2> QED BY <2>1, <2>2, <2>3 DEF Origin, Earlier
<1> QED BY <1>1, <1>2, TypeCorrect, PTL DEF Spec

(* The bound an unattended grant has on the monotonic clock. *)
CeilingInv ==
  \A c \in Clients, s \in Secrets :
    grants[c][s].kind = "unattended" =>
      grants[c][s].elapsed <= grants[c][s].since + MaxUnattended

(* Unattended access ends within the limit of grant_unattended, whatever   *)
(* the wall clock does: grant_unattended_until fixes a monotonic bound.    *)
THEOREM UnattendedAlwaysEnds == Spec => []UnattendedCeiling
<1>1. Init => CeilingInv
  BY DEF Init, CoreInit, NoGrants, NoGrant, CeilingInv
<1>2. TypeOK /\ CeilingInv /\ [Next]_vars => CeilingInv'
  <2> SUFFICES ASSUME TypeOK, CeilingInv, [Next]_vars,
                      NEW c \in Clients, NEW s \in Secrets,
                      grants'[c][s].kind = "unattended"
               PROVE  grants'[c][s].elapsed <= grants'[c][s].since + MaxUnattended
    BY DEF CeilingInv
  <2>1. Origin(c, s)
    BY GrantStep
  <2> QED BY <2>1 DEF Origin, Earlier, Kept, FromRequest, FromContext, CeilingInv
<1>3. TypeOK /\ CeilingInv => UnattendedCeiling
  <2> SUFFICES ASSUME TypeOK, CeilingInv, NEW c \in Clients, NEW s \in Secrets,
                      IsUnattended(grants[c][s], elapsed, wall)
               PROVE  elapsed - grants[c][s].since < MaxUnattended
    BY DEF UnattendedCeiling
  <2>1. /\ grants[c][s].elapsed \in Nat /\ grants[c][s].since \in Nat
        /\ elapsed \in Nat /\ MaxUnattended \in Nat
    BY ConstantsAssumption, BoundsAssumption DEF TypeOK, CoreTypeOK, Table, Deadline
  <2>2. grants[c][s].elapsed > elapsed /\ grants[c][s].kind = "unattended"
    BY DEF IsUnattended, Running
  <2>3. grants[c][s].elapsed <= grants[c][s].since + MaxUnattended
    BY <2>2 DEF CeilingInv
  <2> QED BY <2>1, <2>2, <2>3
<1> QED BY <1>1, <1>2, <1>3, TypeCorrect, PTL DEF Spec

-----------------------------------------------------------------------------
(* The published request across a step.                                    *)

(* Request ids are fresh, a request shows only what it asks for, and what  *)
(* the window displays under the published id is the published request.    *)
RequestInv ==
  /\ pending.secrets \subseteq pending.requested
  /\ pending.id < nextId /\ shown.id < nextId
  /\ shown.id = pending.id =>
       shown.client = pending.client /\ shown.secrets = pending.secrets

(* The decision stands, and so does the consent behind it. *)
DecisionStands ==
  /\ pending'.decision = pending.decision
  /\ IsAppActive' \/ ~ IsAppActive
  /\ pending.client \in Gone => pending.client \in Gone'
  /\ \A s \in pending.secrets :
       pending.decision.kind \in Approving /\ <<pending.client, s>> \in consent
         => <<pending.client, s>> \in consent' \/ pending.client \in Gone'

(* The first decision on a request: by the user, on what was displayed, or *)
(* because unattended access now covers it.                                *)
FirstDecision ==
  /\ pending.decision = NoDecision /\ appAccess' = appAccess
  /\ pending'.decision.kind \in Approving =>
       /\ shown.id = pending.id
       /\ {shown.client} \X shown.secrets \subseteq consent'

(* The published request stays, and only its decision may change. *)
PendingKept ==
  /\ SameRequest(pending, pending')
  /\ nextId' = nextId
  /\ pending'.decision = Cancel \/ DecisionStands \/ FirstDecision

(* A request is published under a new id while the interface is open. *)
PendingNew ==
  /\ pending'.id = nextId /\ nextId' = nextId + 1
  /\ pending'.secrets \subseteq pending'.requested
  /\ pending'.decision = NoDecision
  /\ IsAppActive'

(* Where the request of the next state comes from. *)
PendingOrigin ==
  (pending' = NoPending /\ nextId' = nextId) \/ PendingKept \/ PendingNew

(* A step that only purges the request keeps it or cancels it. *)
LEMMA PurgingPending ==
  ASSUME TypeOK, pending' = PurgedPending, nextId' = nextId,
         appAccess' = appAccess,
         \A s \in pending.secrets :
           pending.decision.kind \in Approving /\ pending.client \notin Gone
             /\ <<pending.client, s>> \in consent
             => <<pending.client, s>> \in consent'
  PROVE  PendingOrigin
BY PurgedRequest, CoreTyped DEF PendingOrigin, PendingKept, DecisionStands, IsAppActive

(* A step that cancels the request or leaves it alone. *)
LEMMA CancellingPending ==
  ASSUME TypeOK, pending' = CancelPendingState(pending), nextId' = nextId
  PROVE  PendingOrigin
BY CancelledRequest, CoreTyped DEF PendingOrigin, PendingKept

(* A step that leaves the request alone brings no approval. *)
LEMMA UntouchedPending ==
  ASSUME TypeOK, pending' = pending, nextId' = nextId,
         IsAppActive' \/ ~ IsAppActive,
         pending.client \in Gone => pending.client \in Gone',
         \A s \in pending.secrets :
           pending.decision.kind \in Approving /\ <<pending.client, s>> \in consent
             => <<pending.client, s>> \in consent' \/ pending.client \in Gone'
  PROVE  PendingOrigin
BY DEF PendingOrigin, PendingKept, DecisionStands, SameRequest

(* Closing sessions, locking and revoking. *)
LEMMA TakeAwayPending ==
  ASSUME TypeOK, RequestInv,
         \/ CloseClientSessions
         \/ \E preserve \in BOOLEAN : BeginAppLock(preserve)
         \/ ResetAfterVaultLock
         \/ RevokeAll
         \/ \E c \in Clients, s \in Secrets : RevokePair(c, s)
         \/ \E c \in Clients : RevokeClient(c)
         \/ \E s \in Secrets : CoordinateSecretMutation(s)
  PROVE  PendingOrigin
<1>1. CASE CloseClientSessions
  <2> DEFINE tracked == {c \in Clients : sessions[c].conn # 0}
  <2>1. /\ nextId' = nextId /\ appAccess' = appAccess
        /\ pending' = IF pending.client \in tracked
                      THEN [pending EXCEPT !.decision = Cancel] ELSE pending
        /\ consent' = consent \ (tracked \X Secrets)
    BY <1>1 DEF CloseClientSessions
  <2>2. CASE pending.client \in tracked
    BY <2>1, <2>2, DecideFields DEF TypeOK, CoreTypeOK, PendingOrigin, PendingKept
  <2>3. CASE pending.client \notin tracked
    <3>1. pending.client \notin Gone
      BY <2>3 DEF Gone
    <3> QED BY <2>1, <2>3, <3>1, UntouchedPending DEF IsAppActive
  <2> QED BY <2>2, <2>3
<1>2. CASE (\E preserve \in BOOLEAN : BeginAppLock(preserve)) \/ ResetAfterVaultLock
  BY <1>2, CancellingPending DEF BeginAppLock, ResetAfterVaultLock
<1>3. CASE RevokeAll
  BY <1>3, UntouchedPending DEF RevokeAll, Approved, Gone, IsAppActive
<1>4. ASSUME NEW c \in Clients, NEW s \in Secrets, RevokePair(c, s)
      PROVE  PendingOrigin
  <2> DEFINE hit == pending.client = c /\ s \in pending.requested
  <2>1. /\ nextId' = nextId /\ appAccess' = appAccess /\ sessions' = sessions
        /\ pending' = IF hit THEN CancelPendingState(pending) ELSE pending
        /\ ~ hit => consent' = consent \ {<<c, s>>}
    BY <1>4 DEF RevokePair
  <2>2. CASE hit
    BY <2>1, <2>2, CancellingPending
  <2>3. CASE ~ hit
    BY <2>1, <2>3, UntouchedPending DEF RequestInv, Gone, IsAppActive
  <2> QED BY <2>2, <2>3
<1>5. ASSUME NEW c \in Clients, RevokeClient(c)
      PROVE  PendingOrigin
  <2>1. /\ nextId' = nextId /\ appAccess' = appAccess /\ sessions' = sessions
        /\ pending' = IF pending.client = c THEN CancelPendingState(pending) ELSE pending
        /\ consent' = consent \ ({c} \X Secrets)
    BY <1>5 DEF RevokeClient
  <2>2. CASE pending.client = c
    BY <2>1, <2>2, CancellingPending
  <2>3. CASE pending.client # c
    BY <2>1, <2>3, UntouchedPending DEF Gone, IsAppActive
  <2> QED BY <2>2, <2>3
<1>6. ASSUME NEW s \in Secrets, CoordinateSecretMutation(s)
      PROVE  PendingOrigin
  <2> DEFINE hit == s \in pending.requested
  <2>1. /\ nextId' = nextId /\ appAccess' = appAccess /\ sessions' = sessions
        /\ pending' = IF hit THEN CancelPendingState(pending) ELSE pending
        /\ ~ hit => consent' = consent \ (Clients \X {s})
    BY <1>6 DEF CoordinateSecretMutation
  <2>2. CASE hit
    BY <2>1, <2>2, CancellingPending
  <2>3. CASE ~ hit
    BY <2>1, <2>3, UntouchedPending DEF RequestInv, Gone, IsAppActive
  <2> QED BY <2>2, <2>3
<1> QED BY <1>1, <1>2, <1>3, <1>4, <1>5, <1>6

(* Every step: the request is withdrawn, kept, decided or new. *)
LEMMA PendingStep ==
  ASSUME TypeOK, RequestInv, [Next]_vars
  PROVE  PendingOrigin
<1> CoreTypeOK
  BY CoreTyped
<1>1. CASE PurgeDisconnected \/ PurgeAll
  BY <1>1, PurgingPending DEF PurgeDisconnected, PurgeAll
<1>2. ASSUME NEW t \in Threads, NEW k \in Clients, NEW v \in 1..MaxVault,
             NEW S \in SUBSET Secrets, Authorize(t, k, v, S)
      PROVE  PendingOrigin
  <2>1. CASE AuthorizeUnattended(k, v, S) \/ AuthorizeRefused(k, v, S)
    BY <1>1, <2>1 DEF AuthorizeUnattended, AuthorizeRefused
  <2>2. CASE AuthorizeGranted(k, v, S)
    <3>1. pending = NoPending
      BY <2>2, PurgedTypes, PendingFields DEF AuthorizeGranted, TypeOK, CoreTypeOK
    <3> QED BY <2>2, <3>1 DEF AuthorizeGranted, PendingOrigin
  <2>3. CASE AuthorizePublish(k, v, S)
    BY <2>3 DEF AuthorizePublish, Missing, PendingOrigin, PendingNew, IsAppActive
  <2> QED BY <1>2, <2>1, <2>2, <2>3 DEF Authorize
<1>3. ASSUME NEW t \in Threads, Poll(t) \/ PollTimeout(t)
      PROVE  PendingOrigin
  <2>1. \/ PollWithdraw(threads[t].id)
        \/ TakeDecision
    BY <1>3 DEF Poll, PollCancelled, PollDecision, PollTimeout, PollAccepted, PollRefused
  <2>2. CASE TakeDecision
    BY <2>2 DEF TakeDecision, PendingOrigin
  <2>3. CASE PollWithdraw(threads[t].id)
    BY <2>3, PurgingPending DEF PollWithdraw, PendingOrigin
  <2> QED BY <2>1, <2>2, <2>3
<1>4. ASSUME NEW t \in Threads, CancelRun(t) \/ FinishRun(t)
      PROVE  PendingOrigin
  BY <1>4, UntouchedPending DEF CancelRun, FinishRun, coreVars, Gone, IsAppActive
<1>5. ASSUME NEW t \in Threads, Redeem(t)
      PROVE  PendingOrigin
  BY <1>1, <1>5 DEF Redeem, RedeemEffect
<1>6. CASE ShowPending \/ Query
  BY <1>1, <1>6 DEF ShowPending, Query
<1>7. ASSUME NEW d \in UserDecisions, Decide(d)
      PROVE  PendingOrigin
  <2>1. /\ PurgedPending.id = shown.id /\ PurgedPending.decision = NoDecision
        /\ pending' = [PurgedPending EXCEPT !.decision = d]
        /\ nextId' = nextId /\ appAccess' = appAccess
        /\ d.kind \in Approving => {shown.client} \X shown.secrets \subseteq consent'
    BY <1>7 DEF Decide, SetDecision
  <2>2. PurgedPending = pending
    BY <2>1, PurgedRequest DEF Cancel, NoDecision
  <2>3. SameRequest(pending, pending') /\ pending'.decision = d
    BY <2>1, <2>2, DecideFields DEF TypeOK, CoreTypeOK
  <2> QED BY <2>1, <2>2, <2>3 DEF PendingOrigin, PendingKept, FirstDecision
<1>8. ASSUME NEW k \in Clients, NEW v \in 1..MaxVault, Capture(k, v)
      PROVE  PendingOrigin
  <2>1. /\ pending' = PurgedPending /\ nextId' = nextId /\ appAccess' = appAccess
        /\ consent' = IF vault = v THEN consent ELSE Approved(PurgedPending)
    BY <1>8 DEF Capture, CaptureUnattended
  <2>2. ASSUME NEW s \in pending.secrets, pending.decision.kind \in Approving,
               pending.client \notin Gone, <<pending.client, s>> \in consent
        PROVE  <<pending.client, s>> \in consent'
    BY <2>1, <2>2, PurgedRequest DEF Approved
  <2> QED BY <2>1, <2>2, PurgingPending
<1>9. ASSUME NEW S \in SUBSET Secrets, NEW deadline \in 0..MaxWall,
             ConfirmUnattended(S, deadline)
      PROVE  PendingOrigin
  <2> DEFINE granted == [kind |-> "granted", arg |-> 0]
  <2>1. /\ \/ pending' = PurgedPending
           \/ /\ PurgedPending.decision = NoDecision
              /\ pending' = [PurgedPending EXCEPT !.decision = granted]
        /\ nextId' = nextId /\ appAccess' = appAccess
        /\ consent \subseteq consent'
    BY <1>9 DEF ConfirmUnattended, GrantUnattended
  <2>2. CASE pending' = PurgedPending
    BY <2>1, <2>2, PurgingPending
  <2>3. CASE /\ PurgedPending.decision = NoDecision
             /\ pending' = [PurgedPending EXCEPT !.decision = granted]
    <3>1. PurgedPending = pending
      BY <2>3, PurgedRequest DEF Cancel, NoDecision
    <3>2. SameRequest(pending, pending') /\ pending'.decision = granted
      BY <2>3, <3>1, DecideFields DEF TypeOK, CoreTypeOK
    <3> QED BY <2>1, <2>3, <3>1, <3>2 DEF PendingOrigin, PendingKept, FirstDecision, Approving
  <2> QED BY <2>1, <2>2, <2>3
<1>10. ASSUME NEW k \in Clients, Register(k)
      PROVE  PendingOrigin
  <2>1. /\ pending' = PurgedPending /\ nextId' = nextId /\ appAccess' = appAccess
        /\ consent' = consent \ (({k} \X Secrets) \ Approved(PurgedPending))
    BY <1>10 DEF Register, RegisterClientSession
  <2>2. ASSUME NEW s \in pending.secrets, pending.decision.kind \in Approving,
               pending.client \notin Gone, <<pending.client, s>> \in consent
        PROVE  <<pending.client, s>> \in consent'
    BY <2>1, <2>2, PurgedRequest DEF Approved
  <2> QED BY <2>1, <2>2, PurgingPending
<1>11. ASSUME NEW k \in Clients, DisconnectClient(k)
      PROVE  PendingOrigin
  <2>1. /\ pending' = pending /\ nextId' = nextId /\ appAccess' = appAccess
        /\ consent' = consent \ ({k} \X Secrets)
        /\ sessions[k].conn # 0
        /\ sessions' = [sessions EXCEPT ![k].cancelled = TRUE]
    BY <1>11 DEF DisconnectClient, Disconnect, Tracked
  <2>2. Gone' = Gone \cup {k}
    BY <2>1 DEF Gone, TypeOK, CoreTypeOK, SessionState
  <2> QED BY <2>1, <2>2, UntouchedPending DEF IsAppActive
<1>12. CASE TakeAway
  BY <1>12, TakeAwayPending DEF TakeAway
<1>13. CASE AppLockStep
  BY <1>13, UntouchedPending
     DEF AppLockStep, FinishAppLock, UnlockApp, Active, Gone, IsAppActive
<1>14. CASE CancelRequest
  BY <1>14, CancellingPending DEF CancelRequest, CancelPending
<1>15. CASE Tick \/ SetWall \/ UNCHANGED vars
  BY <1>15, UntouchedPending DEF Tick, SetWall, vars, coreVars, Gone, IsAppActive
<1> QED
  BY <1>2, <1>3, <1>4, <1>5, <1>6, <1>7, <1>8, <1>9, <1>10, <1>11, <1>12,
     <1>13, <1>14, <1>15 DEF Next

(* Only ShowPending changes what the window displays. *)
LEMMA ShownStep ==
  ASSUME [Next]_vars
  PROVE  shown' = shown \/ ShowPending
BY DEF Next, Authorize, Poll, PollCancelled, PollDecision, PollTimeout, CancelRun,
       Redeem, FinishRun, Decide, Capture, ConfirmUnattended, Query, Register,
       DisconnectClient, TakeAway, AppLockStep, CancelRequest, Tick, SetWall,
       Window, vars

(* Every step keeps the request the window shows in step with the one published. *)
LEMMA RequestStep ==
  ASSUME TypeOK, RequestInv, [Next]_vars
  PROVE  RequestInv'
<1> CoreTypeOK
  BY CoreTyped
<1>1. /\ nextId \in Nat /\ pending.id \in Nat /\ shown.id \in Nat
      /\ shown.id = 0 => shown.client = NoClient /\ shown.secrets = {}
  BY PendingFields DEF TypeOK, CoreTypeOK, Shown, NothingShown
<1>2. PendingOrigin
  BY PendingStep
<1>3. CASE ShowPending
  <2>1. /\ shown'.id = pending.id /\ shown'.client = pending.client
        /\ shown'.secrets = pending.secrets
        /\ pending' = PurgedPending /\ nextId' = nextId
    BY <1>3 DEF ShowPending, PurgeDisconnected
  <2> QED BY <2>1, PurgedRequest DEF RequestInv, SameRequest
<1>4. CASE shown' = shown
  <2>1. CASE pending' = NoPending /\ nextId' = nextId
    BY <1>1, <1>4, <2>1 DEF RequestInv, NoPending
  <2>2. CASE PendingKept
    BY <1>4, <2>2 DEF RequestInv, PendingKept, SameRequest
  <2>3. CASE PendingNew
    BY <1>1, <1>4, <2>3 DEF RequestInv, PendingNew
  <2> QED BY <1>2, <2>1, <2>2, <2>3 DEF PendingOrigin
<1> QED BY <1>3, <1>4, ShownStep

(* The window and the coordinator agree on what a request id stands for. *)
LEMMA RequestAlways == Spec => []RequestInv
<1>1. Init => RequestInv
  BY DEF Init, CoreInit, RequestInv, NoPending, NothingShown
<1> QED BY <1>1, RequestStep, TypeCorrect, PTL DEF Spec

-----------------------------------------------------------------------------
(* Locking and consent.                                                    *)

(* begin_app_lock: while the app is locked or locking, the published       *)
(* request is cancelled and only unattended grants are left; after a       *)
(* manual lock, none.                                                      *)
THEOREM LockLeavesOnlyUnattended == Spec => []LockedOnlyUnattended
<1>1. Init => LockedOnlyUnattended
  BY DEF Init, CoreInit, LockedOnlyUnattended, IsAppActive, Active
<1>2. TypeOK /\ RequestInv /\ LockedOnlyUnattended /\ [Next]_vars
        => LockedOnlyUnattended'
  <2> SUFFICES ASSUME TypeOK, RequestInv, LockedOnlyUnattended, [Next]_vars,
                      ~ IsAppActive'
               PROVE  LockedOnlyUnattended'
    BY DEF LockedOnlyUnattended
  <2>1. ASSUME pending'.id # 0
        PROVE  pending'.decision = Cancel
    <3>1. PendingOrigin
      BY PendingStep
    <3> QED BY <2>1, <3>1
         DEF PendingOrigin, PendingKept, PendingNew, DecisionStands, FirstDecision,
             SameRequest, NoPending, LockedOnlyUnattended, IsAppActive, NoDecision, Cancel
  <2>2. ASSUME NEW c \in Clients, NEW s \in Secrets
        PROVE  grants'[c][s].kind \in
                 (IF manual' THEN {"none"} ELSE {"none", "unattended"})
    <3>1. Origin(c, s)
      BY GrantStep
    <3>2. CASE Kept(c, s)
      BY <3>2 DEF Kept, LockedOnlyUnattended
    <3>3. CASE FromRequest(c, s)
      <4>1. ~ IsAppActive /\ pending.decision.kind \in Approving
        BY <3>3 DEF FromRequest, IsAppActive
      <4>2. pending.id # 0
        BY <4>1 DEF TypeOK, CoreTypeOK, PendingState, NoPending, NoDecision, Approving
      <4> QED BY <4>1, <4>2 DEF LockedOnlyUnattended, Cancel, Approving
    <3>4. CASE FromContext(c, s)
      BY <3>4 DEF FromContext, IsAppActive
    <3>5. CASE grants'[c][s].kind = "none"
      BY <3>5
    <3> QED BY <3>1, <3>2, <3>3, <3>4, <3>5 DEF Origin, Earlier
  <2> QED BY <2>1, <2>2 DEF LockedOnlyUnattended
<1> QED BY <1>1, <1>2, TypeCorrect, RequestAlways, PTL DEF Spec

(* ConsentBacked is not inductive alone: what a decided request is about   *)
(* to grant must be backed as well.                                        *)
ConsentInv ==
  /\ \A c \in Clients, s \in Secrets :
       c \notin Gone /\ grants[c][s].kind # "none" => <<c, s>> \in consent
  /\ \A s \in pending.secrets :
       pending.decision.kind \in Approving /\ pending.client \notin Gone
         => <<pending.client, s>> \in consent

(* Every step keeps entries and decided approvals within what the user consents to. *)
LEMMA ConsentStep ==
  ASSUME TypeOK, RequestInv, ConsentInv, [Next]_vars
  PROVE  ConsentInv'
<1>1. ASSUME NEW c \in Clients, NEW s \in Secrets,
             c \notin Gone', grants'[c][s].kind # "none"
      PROVE  <<c, s>> \in consent'
  <2>1. Origin(c, s)
    BY GrantStep
  <2>2. CASE Kept(c, s)
    BY <1>1, <2>2 DEF Kept, ConsentInv
  <2>3. CASE FromRequest(c, s)
    BY <2>3 DEF FromRequest, ConsentInv
  <2>4. CASE FromContext(c, s)
    BY <2>4 DEF FromContext
  <2> QED BY <1>1, <2>1, <2>2, <2>3, <2>4 DEF Origin, Earlier
<1>2. ASSUME NEW s \in pending'.secrets,
             pending'.decision.kind \in Approving, pending'.client \notin Gone'
      PROVE  <<pending'.client, s>> \in consent'
  <2>1. PendingOrigin
    BY PendingStep
  <2>2. PendingKept
    BY <1>2, <2>1 DEF PendingOrigin, PendingNew, NoPending, NoDecision, Approving
  <2>3. CASE DecisionStands
    BY <1>2, <2>2, <2>3 DEF PendingKept, SameRequest, DecisionStands, ConsentInv
  <2>4. CASE FirstDecision
    BY <1>2, <2>2, <2>4 DEF PendingKept, SameRequest, FirstDecision, RequestInv
  <2>5. pending'.decision # Cancel
    BY <1>2 DEF Cancel, Approving
  <2> QED BY <2>2, <2>3, <2>4, <2>5 DEF PendingKept
<1> QED BY <1>1, <1>2 DEF ConsentInv

(* Entries and decided approvals always have consent. *)
LEMMA ConsentAlways == Spec => []ConsentInv
<1>1. Init => ConsentInv
  BY DEF Init, CoreInit, ConsentInv, NoGrants, NoGrant, NoPending
<1> QED BY <1>1, ConsentStep, TypeCorrect, RequestAlways, PTL DEF Spec

(* Every grant that survives purge_disconnected_clients is one the user    *)
(* approved, and that no revocation, lock, edit or disconnect took back,   *)
(* even one that came between the decision and the worker's poll.          *)
THEOREM GrantsHaveConsent == Spec => []ConsentBacked
<1>1. TypeOK /\ ConsentInv => ConsentBacked
  BY PurgedEntry, CoreTyped DEF ConsentInv, ConsentBacked, NoGrant
<1> QED BY <1>1, TypeCorrect, ConsentAlways, PTL

(* A ticket that with_valid_grant accepts stands for consented secrets.    *)
THEOREM RedeemedHaveConsent == Spec => []RedeemConsented
<1>1. TypeOK /\ ConsentInv => RedeemConsented
  <2> SUFFICES ASSUME TypeOK, ConsentInv, NEW t \in Threads,
                      threads[t].pc = "ticket",
                      RedeemOK(threads[t].client, threads[t].vault, threads[t].secrets),
                      NEW s \in threads[t].secrets
               PROVE  <<threads[t].client, s>> \in consent
    BY DEF RedeemConsented
  <2>1. threads[t].client \in Clients /\ s \in Secrets
    BY DEF TypeOK, CoreTypeOK, Call, NoCall
  <2>2. Running(PurgedGrants[threads[t].client][s], elapsed, wall)
    BY DEF RedeemOK, Missing
  <2>3. PurgedGrants[threads[t].client][s].kind # "none"
    BY <2>2 DEF Running
  <2> QED BY <2>1, <2>3, PurgedEntry, CoreTyped DEF ConsentInv, NoGrant
<1> QED BY <1>1, TypeCorrect, ConsentAlways, PTL
-----------------------------------------------------------------------------
(* The published request and its waiter.                                   *)

(* What the workers wait for: PendingOwned, and only one of them waits. *)
OwnerInv ==
  /\ PendingOwned
  /\ \A t, u \in Threads : threads[t].pc = "waiting" /\ threads[u].pc = "waiting" => t = u

(* The request stays and so do the workers that wait, and what for. *)
WaitersStay ==
  /\ SameRequest(pending, pending')
  /\ \A t \in Threads :
       /\ threads'[t].pc = "waiting" <=> threads[t].pc = "waiting"
       /\ threads[t].pc = "waiting" =>
            /\ threads'[t].id = threads[t].id /\ threads'[t].client = threads[t].client
            /\ threads'[t].secrets = threads[t].secrets

(* Nothing about ownership changes then. *)
LEMMA WaitersStayOwned == ASSUME OwnerInv, WaitersStay PROVE OwnerInv'
BY DEF OwnerInv, PendingOwned, WaitersStay, SameRequest

(* Every step keeps the request with the one worker that waits for it. *)
LEMMA OwnerStep ==
  ASSUME TypeOK, OwnerInv, [Next]_vars
  PROVE  OwnerInv'
<1> CoreTypeOK
  BY CoreTyped
<1>1. ASSUME NEW t \in Threads, NEW k \in Clients, NEW v \in 1..MaxVault,
             NEW S \in SUBSET Secrets, Authorize(t, k, v, S)
      PROVE  OwnerInv'
  <2>1. CASE AuthorizePublish(k, v, S)
               /\ threads' = [threads EXCEPT ![t] = NewCall("waiting", nextId, k, v, S)]
    <3>1. \A u \in Threads : threads[u].pc # "waiting"
      BY <2>1, PurgedTypes DEF AuthorizePublish, OwnerInv, PendingOwned
    <3>2. /\ pending'.id = nextId /\ pending'.client = k /\ pending'.secrets \subseteq S
          /\ nextId # 0
      BY <2>1 DEF AuthorizePublish, Missing, TypeOK, CoreTypeOK
    <3>3. /\ threads'[t].pc = "waiting" /\ threads'[t].id = nextId
          /\ threads'[t].client = k /\ threads'[t].secrets = S
          /\ \A u \in Threads : u # t => threads'[u] = threads[u]
      BY <2>1 DEF NewCall, TypeOK
    <3> QED BY <3>1, <3>2, <3>3 DEF OwnerInv, PendingOwned
  <2>2. CASE /\ AuthorizeUnattended(k, v, S) \/ AuthorizeGranted(k, v, S)
             /\ threads' = [threads EXCEPT ![t] = NewCall("ticket", 0, k, v, S)]
    <3>1. SameRequest(pending, pending')
      BY <2>2, RequestStays DEF AuthorizeUnattended, AuthorizeGranted
    <3>2. /\ threads[t].pc = "idle" /\ threads'[t].pc = "ticket"
          /\ \A u \in Threads : u # t => threads'[u] = threads[u]
      BY <1>1, <2>2 DEF Authorize, NewCall, TypeOK
    <3>3. WaitersStay
      BY <3>1, <3>2 DEF WaitersStay
    <3> QED BY <3>3, WaitersStayOwned
  <2>3. CASE AuthorizeRefused(k, v, S) /\ UNCHANGED threads
    BY <2>3, RequestStays, WaitersStayOwned DEF AuthorizeRefused, WaitersStay
  <2> QED BY <1>1, <2>1, <2>2, <2>3 DEF Authorize
<1>2. ASSUME NEW t \in Threads, Poll(t) \/ PollTimeout(t)
      PROVE  OwnerInv'
  <2>1. threads[t].pc = "waiting" /\ threads[t].id = pending.id
    BY <1>2 DEF Poll, PollCancelled, PollDecision, PollTimeout, OwnerInv, PendingOwned
  <2>2. pending' = NoPending
    BY <1>2, <2>1, PurgedTypes
       DEF Poll, PollCancelled, PollDecision, PollTimeout, PollWithdraw, PollAccepted,
           PollRefused, TakeDecision
  <2>3. threads'[t].pc # "waiting" /\ \A u \in Threads : u # t => threads'[u] = threads[u]
    <3>1. threads[t] \in Call /\ threads[t] # NoCall
      BY <2>1 DEF TypeOK, NoCall
    <3>2. \/ threads' = [threads EXCEPT ![t] = NoCall]
          \/ threads' = [threads EXCEPT ![t].pc = "ticket", ![t].id = 0]
      BY <1>2 DEF Poll, PollCancelled, PollDecision, PollTimeout
    <3> QED BY <3>1, <3>2 DEF Call, NoCall, TypeOK
  <2>4. \A u \in Threads : threads'[u].pc # "waiting"
    BY <2>1, <2>3 DEF OwnerInv
  <2> QED BY <2>2, <2>4 DEF OwnerInv, PendingOwned, NoPending
<1>3. ASSUME NEW t \in Threads, CancelRun(t)
      PROVE  OwnerInv'
  <2>1. threads[t] \in Call /\ threads[t] # NoCall
    BY <1>3 DEF CancelRun, TypeOK, NoCall
  <2>2. /\ SameRequest(pending, pending')
        /\ threads' = [threads EXCEPT ![t].cancelled = TRUE]
    BY <1>3 DEF CancelRun, coreVars, SameRequest
  <2>3. \A u \in Threads : /\ threads'[u].pc = threads[u].pc /\ threads'[u].id = threads[u].id
                           /\ threads'[u].client = threads[u].client
                           /\ threads'[u].secrets = threads[u].secrets
    BY <2>1, <2>2 DEF Call, TypeOK
  <2>4. WaitersStay
    BY <2>2, <2>3 DEF WaitersStay
  <2> QED BY <2>4, WaitersStayOwned
<1>4. ASSUME NEW t \in Threads, Redeem(t) \/ FinishRun(t)
      PROVE  OwnerInv'
  <2>1. SameRequest(pending, pending')
    BY <1>4, RequestStays DEF Redeem, RedeemEffect, FinishRun, coreVars
  <2>2. /\ threads[t].pc = "ticket"
        /\ threads' = threads \/ threads' = [threads EXCEPT ![t] = NoCall]
    BY <1>4 DEF Redeem, FinishRun
  <2>3. WaitersStay
    BY <2>1, <2>2 DEF WaitersStay, NoCall, TypeOK
  <2> QED BY <2>3, WaitersStayOwned
<1>5. CASE UNCHANGED threads /\ SameRequest(pending, pending')
  BY <1>5, WaitersStayOwned DEF WaitersStay
<1>6. CASE ShowPending \/ Query \/ CancelRequest \/ AppLockStep
  <2>1. UNCHANGED threads
    BY <1>6 DEF ShowPending, Query, CancelRequest, AppLockStep
  <2>2. SameRequest(pending, pending')
    BY <1>6, RequestStays DEF ShowPending, Query, CancelRequest, AppLockStep
  <2> QED BY <1>5, <2>1, <2>2
<1>7. ASSUME NEW d \in UserDecisions, Decide(d)
      PROVE  OwnerInv'
  BY <1>5, <1>7, RequestStays DEF Decide
<1>8. ASSUME NEW k \in Clients, NEW v \in 1..MaxVault, Capture(k, v)
      PROVE  OwnerInv'
  BY <1>5, <1>8, RequestStays DEF Capture
<1>9. ASSUME NEW S \in SUBSET Secrets, NEW deadline \in 0..MaxWall,
             ConfirmUnattended(S, deadline)
      PROVE  OwnerInv'
  BY <1>5, <1>9, RequestStays DEF ConfirmUnattended
<1>10. ASSUME NEW k \in Clients, Register(k) \/ DisconnectClient(k)
       PROVE  OwnerInv'
  BY <1>5, <1>10, RequestStays DEF Register, DisconnectClient
<1>11. CASE TakeAway
  <2>1. UNCHANGED threads
    BY <1>11 DEF TakeAway
  <2>2. SameRequest(pending, pending')
    BY <1>11, RequestStays DEF TakeAway
  <2> QED BY <1>5, <2>1, <2>2
<1>12. CASE Tick \/ SetWall \/ UNCHANGED vars
  BY <1>5, <1>12 DEF Tick, SetWall, vars, coreVars, SameRequest
<1> QED
  BY <1>1, <1>2, <1>3, <1>4, <1>6, <1>7, <1>8, <1>9, <1>10, <1>11, <1>12 DEF Next

(* The published request belongs to exactly one worker, which is waiting   *)
(* for it, and no waiting worker is without its request: a lost request    *)
(* would leave authorize waiting for nothing, and an orphaned one would    *)
(* make it answer Busy to everybody (authorize, its loop and every method  *)
(* that writes pending).                                                   *)
THEOREM RequestsAreOwned == Spec => []PendingOwned
<1>1. Init => OwnerInv
  BY DEF Init, CoreInit, OwnerInv, PendingOwned, NoPending, NoCall
<1>2. OwnerInv => PendingOwned
  BY DEF OwnerInv
<1> QED BY <1>1, <1>2, OwnerStep, TypeCorrect, PTL DEF Spec

-----------------------------------------------------------------------------
(* The context an unattended grant is given from.                          *)

(* A client's session after a step is the one before it, one that is       *)
(* cancelled, none, or one with a new connection id.                       *)
SessionMoves(c) ==
  \/ sessions'[c] = sessions[c]
  \/ sessions'[c].conn = sessions[c].conn /\ sessions'[c].cancelled
  \/ sessions'[c].conn = 0
  \/ sessions'[c].conn = nextConn /\ nextConn' = nextConn + 1

(* Connection ids, lock epochs and revisions only grow. *)
CountersGrow == nextConn <= nextConn' /\ lockEpoch <= lockEpoch' /\ revision <= revision'

(* What the coordinator's methods do to sessions and counters. *)
LEMMA SessionStep ==
  ASSUME TypeOK, [Next]_vars
  PROVE  CountersGrow /\ \A c \in Clients : SessionMoves(c)
<1>1. /\ nextConn \in Nat /\ lockEpoch \in Nat /\ revision \in Nat
      /\ sessions \in [Clients -> SessionState]
  BY DEF TypeOK, CoreTypeOK
<1> DEFINE Goal == CountersGrow /\ \A c \in Clients : SessionMoves(c)
<1>2. CASE sessions' = PurgedSessions /\ UNCHANGED <<nextConn, lockEpoch, revision>>
  BY <1>1, <1>2 DEF PurgedSessions, NoSession, CountersGrow, SessionMoves
<1>3. CASE UNCHANGED sessions /\ CountersGrow
  BY <1>3 DEF SessionMoves
<1>4. CASE PurgeDisconnected \/ PurgeAll
  BY <1>2, <1>4 DEF PurgeDisconnected, PurgeAll
<1>5. ASSUME NEW t \in Threads, NEW k \in Clients, NEW v \in 1..MaxVault,
             NEW S \in SUBSET Secrets, Authorize(t, k, v, S)
      PROVE  Goal
  BY <1>2, <1>4, <1>5 DEF Authorize, AuthorizeUnattended, AuthorizeGranted, AuthorizePublish,
                          AuthorizeRefused
<1>6. ASSUME NEW t \in Threads, Poll(t) \/ PollTimeout(t)
      PROVE  Goal
  BY <1>2, <1>6 DEF Poll, PollCancelled, PollDecision, PollTimeout, PollWithdraw,
                    PollAccepted, PollRefused, TakeDecision
<1>7. ASSUME NEW t \in Threads, CancelRun(t) \/ FinishRun(t) \/ Redeem(t)
      PROVE  Goal
  BY <1>1, <1>3, <1>4, <1>7 DEF CancelRun, FinishRun, Redeem, RedeemEffect, coreVars,
                                CountersGrow
<1>8. CASE ShowPending \/ Query
  BY <1>4, <1>8 DEF ShowPending, Query
<1>9. ASSUME NEW d \in UserDecisions, Decide(d)
      PROVE  Goal
  BY <1>2, <1>9 DEF Decide, SetDecision
<1>10. ASSUME NEW k \in Clients, NEW v \in 1..MaxVault, Capture(k, v)
      PROVE  Goal
  BY <1>2, <1>10 DEF Capture, CaptureUnattended
<1>11. ASSUME NEW S \in SUBSET Secrets, NEW deadline \in 0..MaxWall,
              ConfirmUnattended(S, deadline)
       PROVE  Goal
  BY <1>2, <1>11 DEF ConfirmUnattended, GrantUnattended
<1>12. ASSUME NEW k \in Clients, Register(k)
       PROVE  Goal
  BY <1>1, <1>12, PurgedTypes DEF Register, RegisterClientSession, PurgedSessions, NoSession,
                                  CountersGrow, SessionMoves
<1>13. ASSUME NEW k \in Clients, DisconnectClient(k)
       PROVE  Goal
  BY <1>1, <1>13 DEF DisconnectClient, Disconnect, SessionState, CountersGrow, SessionMoves
<1>14. CASE TakeAway
  <2>1. CASE CloseClientSessions
    BY <1>1, <2>1 DEF CloseClientSessions, NoSession, CountersGrow, SessionMoves
  <2>2. CASE (\E preserve \in BOOLEAN : BeginAppLock(preserve)) \/ ResetAfterVaultLock
    BY <1>1, <1>3, <2>2 DEF BeginAppLock, ResetAfterVaultLock, CountersGrow
  <2>3. CASE \/ RevokeAll
             \/ \E c \in Clients, s \in Secrets : RevokePair(c, s)
             \/ \E c \in Clients : RevokeClient(c)
             \/ \E s \in Secrets : CoordinateSecretMutation(s)
    BY <1>1, <1>3, <2>3 DEF RevokeAll, RevokePair, RevokeClient, CoordinateSecretMutation,
                            CountersGrow
  <2> QED BY <1>14, <2>1, <2>2, <2>3 DEF TakeAway
<1>15. CASE AppLockStep \/ CancelRequest
  BY <1>1, <1>3, <1>15 DEF AppLockStep, FinishAppLock, UnlockApp, CancelRequest,
                           CancelPending, CountersGrow
<1>16. CASE Tick \/ SetWall \/ UNCHANGED vars
  BY <1>1, <1>3, <1>16 DEF Tick, SetWall, vars, coreVars, CountersGrow
<1> QED
  BY <1>5, <1>6, <1>7, <1>8, <1>9, <1>10, <1>11, <1>12, <1>13, <1>14, <1>15, <1>16 DEF Next

(* Nothing is newer than the counters, and for a context that is no longer *)
(* fresh one of the compared values has moved on for good.  The vault      *)
(* session and the app lock, which may come back, are not needed.          *)
ContextInv ==
  /\ \A c \in Clients : sessions[c].conn < nextConn
  /\ context.client \in Clients =>
       /\ context.conn # 0 /\ context.conn < nextConn
       /\ context.epoch <= lockEpoch /\ context.revision <= revision
       /\ ~ context.fresh =>
            \/ context.epoch < lockEpoch \/ context.revision < revision
            \/ ~ Tracked(context.client) \/ sessions[context.client].conn # context.conn

(* What an event that interrupts the context leaves different. *)
LEMMA InterruptionShows ==
  ASSUME TypeOK, ContextInv, [Next]_vars, context' # context,
         context.client \in Clients
  PROVE  \/ \E c \in Clients, v \in 1..MaxVault : Capture(c, v)
         \/ /\ context' = Interrupted
            /\ \/ context.epoch < lockEpoch' \/ context.revision < revision'
               \/ ~ Tracked(context.client)'
<1>1. /\ lockEpoch \in Nat /\ revision \in Nat
      /\ context.epoch \in Nat /\ context.revision \in Nat
      /\ sessions \in [Clients -> SessionState]
  BY DEF TypeOK, CoreTypeOK, UnattendedContext
<1>2. ASSUME NEW c \in Clients, DisconnectClient(c)
      PROVE  context' = Interrupted /\ ~ Tracked(context.client)'
  <2>1. c = context.client /\ context' = Interrupted
    BY <1>2 DEF DisconnectClient
  <2>2. sessions'[c].cancelled
    BY <1>1, <1>2 DEF DisconnectClient, Disconnect, SessionState
  <2>3. context'.client = c
    BY <2>1 DEF Interrupted, TypeOK, UnattendedContext
  <2> QED BY <2>1, <2>2, <2>3 DEF Tracked
<1>3. ASSUME TakeAway
      PROVE  /\ context' = Interrupted
             /\ \/ context.epoch < lockEpoch' \/ context.revision < revision'
                \/ ~ Tracked(context.client)'
  <2>1. context' = Interrupted /\ context'.client = context.client
    BY <1>3 DEF TakeAway, Interrupted, TypeOK, UnattendedContext
  <2>2. CASE CloseClientSessions
    BY <2>1, <2>2 DEF CloseClientSessions, NoSession, Tracked
  <2>3. CASE (\E preserve \in BOOLEAN : BeginAppLock(preserve)) \/ ResetAfterVaultLock
    BY <1>1, <2>1, <2>3 DEF BeginAppLock, ResetAfterVaultLock, ContextInv
  <2>4. CASE \/ RevokeAll
             \/ \E c \in Clients, s \in Secrets : RevokePair(c, s)
             \/ \E c \in Clients : RevokeClient(c)
             \/ \E s \in Secrets : CoordinateSecretMutation(s)
    BY <1>1, <2>1, <2>4 DEF RevokeAll, RevokePair, RevokeClient, CoordinateSecretMutation,
                            ContextInv
  <2> QED BY <1>3, <2>1, <2>2, <2>3, <2>4 DEF TakeAway
<1>4. \/ \E c \in Clients, v \in 1..MaxVault : Capture(c, v)
      \/ \E c \in Clients : DisconnectClient(c)
      \/ TakeAway
  BY DEF Next, Authorize, Poll, PollCancelled, PollDecision, PollTimeout, CancelRun,
         Redeem, FinishRun, ShowPending, Decide, ConfirmUnattended, Query, Register,
         AppLockStep, CancelRequest, Tick, SetWall, Window, vars
<1> QED BY <1>2, <1>3, <1>4

(* Every step keeps an outdated context outdated: a connection id is never *)
(* given twice, and the epoch and the revision never go back.              *)
LEMMA ContextStep ==
  ASSUME TypeOK, ContextInv, [Next]_vars
  PROVE  ContextInv'
<1>1. /\ nextConn \in Nat /\ nextConn' \in Nat /\ nextConn # 0
      /\ lockEpoch \in Nat /\ lockEpoch' \in Nat /\ revision \in Nat /\ revision' \in Nat
      /\ \A c \in Clients : sessions[c].conn \in Nat /\ sessions[c].cancelled \in BOOLEAN
  <2>1. TypeOK'
    BY TypeStep
  <2> QED BY <2>1 DEF TypeOK, CoreTypeOK, SessionState
<1>2. CountersGrow /\ \A c \in Clients : SessionMoves(c)
  BY SessionStep
<1>3. \A c \in Clients : sessions'[c].conn < nextConn'
  BY <1>1, <1>2 DEF CountersGrow, SessionMoves, ContextInv
<1>4. ASSUME NEW c \in Clients, NEW v \in 1..MaxVault, Capture(c, v)
      PROVE  ContextInv'
  <2>1. context' = ContextOf(c, v) /\ Tracked(c) /\ UNCHANGED <<nextConn, lockEpoch, revision>>
    BY <1>4 DEF Capture, CaptureUnattended
  <2>2. /\ context'.client = c /\ context'.conn = sessions[c].conn /\ context'.fresh
        /\ context'.epoch = lockEpoch /\ context'.revision = revision
    BY <2>1 DEF ContextOf
  <2> QED BY <1>1, <1>3, <2>1, <2>2 DEF ContextInv, Tracked
<1>5. CASE context.client \notin Clients /\ context' # context
           /\ ~ \E c \in Clients, v \in 1..MaxVault : Capture(c, v)
  <2>1. context' = Interrupted
    BY <1>5 DEF Next, Authorize, Poll, PollCancelled, PollDecision, PollTimeout, CancelRun,
                Redeem, FinishRun, ShowPending, Decide, ConfirmUnattended, Query, Register,
                DisconnectClient, TakeAway, AppLockStep, CancelRequest, Tick, SetWall,
                Window, vars
  <2>2. context'.client = context.client
    BY <2>1 DEF Interrupted, TypeOK, UnattendedContext
  <2> QED BY <1>3, <1>5, <2>2 DEF ContextInv
<1>6. CASE context.client \in Clients /\ context' = Interrupted
           /\ (\/ context.epoch < lockEpoch' \/ context.revision < revision'
               \/ ~ Tracked(context.client)')
  <2>1. /\ context'.client = context.client /\ context'.conn = context.conn
        /\ context'.epoch = context.epoch /\ context'.revision = context.revision
        /\ context.epoch \in Nat /\ context.revision \in Nat /\ context.conn \in Nat
    BY <1>6 DEF Interrupted, TypeOK, UnattendedContext
  <2> QED BY <1>1, <1>2, <1>3, <1>6, <2>1 DEF ContextInv, CountersGrow, Tracked
<1>7. CASE context' = context
  <2>1. CASE context.client \notin Clients
    BY <1>3, <1>7, <2>1 DEF ContextInv
  <2>2. CASE context.client \in Clients
    <3> DEFINE c == context.client
    <3>1. /\ context.conn \in Nat /\ context.epoch \in Nat /\ context.revision \in Nat
          /\ context.conn # 0 /\ context.conn < nextConn
          /\ context.epoch <= lockEpoch /\ context.revision <= revision
      BY <2>2 DEF ContextInv, TypeOK, UnattendedContext
    <3>2. /\ context.conn < nextConn' /\ context.epoch <= lockEpoch'
          /\ context.revision <= revision'
      BY <1>1, <1>2, <3>1 DEF CountersGrow
    <3>3. ASSUME ~ context.fresh
          PROVE  \/ context.epoch < lockEpoch' \/ context.revision < revision'
                 \/ ~ (sessions'[c].conn # 0 /\ ~ sessions'[c].cancelled)
                 \/ sessions'[c].conn # context.conn
      BY <1>1, <1>2, <2>2, <3>1, <3>3 DEF ContextInv, CountersGrow, SessionMoves, Tracked
    <3> QED BY <1>3, <1>7, <2>2, <3>1, <3>2, <3>3 DEF ContextInv, Tracked
  <2> QED BY <2>1, <2>2
<1> QED BY <1>4, <1>5, <1>6, <1>7, InterruptionShows

(* grant_unattended refuses every context that was captured before a       *)
(* revocation, a lock, an edit of a secret or a reconnect of its client,   *)
(* however the vault sessions, locks and connections went on since.        *)
THEOREM StaleContextsRefused == Spec => []StaleContextRefused
<1>1. Init => ContextInv
  BY ConstantsAssumption DEF Init, CoreInit, ContextInv, NoContext, NoSession
<1>2. TypeOK /\ ContextInv => StaleContextRefused
  BY DEF ContextInv, StaleContextRefused, ContextCurrent, TypeOK, CoreTypeOK, UnattendedContext
<1> QED BY <1>1, <1>2, ContextStep, TypeCorrect, PTL DEF Spec
=============================================================================
