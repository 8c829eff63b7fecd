---------------------------- MODULE DesktopAuth ----------------------------
(***************************************************************************)
(* Local authentication in the window (desktop.rs, the selection of ui.rs, *)
(* session_auth.rs, touch_id.rs).  One thread draws frames; a frame runs   *)
(* its handlers in the order of LadonDesktop::update, one step each, and   *)
(* the other threads act between the steps: a lock requested by a client,  *)
(* the worker of an app lock, an agent request that appears or goes away,  *)
(* the answer of the fingerprint sensor.                                   *)
(*                                                                         *)
(* A prompt is what the user is asked to confirm.  The four prompts share  *)
(* one PIN buffer and one pending fingerprint request.  The buffer carries *)
(* the prompt it was typed at, which the code does not know.               *)
(***************************************************************************)
EXTENDS Naturals

CONSTANTS
  Secrets,         \* secret ids
  Sessions,        \* vault session ids; a new session takes one not in use
  LockEpochs,      \* app lock epochs; a new lock takes one not in use
  Requests,        \* approval ids; a new request takes one not in use
  None,            \* no value
  TouchChoices,    \* what TouchIdAuthenticator::is_available may answer
  MaxFailedPins,   \* MAX_FAILED_PIN_ATTEMPTS
  SelectionWidth   \* values of the wrapping selection epoch

ASSUME DesktopAssumption ==
  /\ TouchChoices \subseteq BOOLEAN /\ TouchChoices # {}
  /\ MaxFailedPins \in Nat \ {0} /\ SelectionWidth \in Nat \ {0}
  /\ None \notin Sessions \cup LockEpochs \cup Requests \cup Secrets
  /\ None \notin {"add", "sessions", "close"} \cup [pin : BOOLEAN, failed : Nat]

VARIABLES
  session,    \* the open vault session, or None
  stored,     \* the secrets in the vault
  app,        \* the broker's app access
  locker,     \* the worker of an app lock: None, or its epoch and whether it is done
  ext,        \* a client's lock request: none, requested, ready
  pend,       \* the published agent request, or None
  granted,    \* the vault session with unattended access, or None
  approved,   \* the agent request approved in this frame, or None
  win,        \* the fields of LadonDesktop
  frame,      \* the handler the frame is at, the phase it read, the modals
  wrong       \* wrong PINs since the last success in this vault session (capped)

vars == <<session, stored, app, locker, ext, pend, granted, approved, win, frame, wrong>>
broker == <<app, locker, pend, granted>>

-----------------------------------------------------------------------------
\* Prompts
SecretPrompt(v, s, e) == [kind |-> "secret", session |-> v, secret |-> s, sel |-> e]
AppPrompt(v, e) == [kind |-> "app", session |-> v, epoch |-> e]
ApprovalPrompt(v, r) == [kind |-> "approval", session |-> v, request |-> r]
UnattendedPrompt(v) == [kind |-> "unattended", session |-> v]

Attempts == [kind : {"secret"}, session : Sessions, secret : Secrets,
             sel : 0 .. SelectionWidth - 1]
Prompts ==
  Attempts \cup [kind : {"app"}, session : Sessions, epoch : LockEpochs]
           \cup [kind : {"approval"}, session : Sessions, request : Requests]
           \cup [kind : {"unattended"}, session : Sessions]

Active == [state |-> "active", epoch |-> None]
Locking(e) == [state |-> "locking", epoch |-> e]
Locked(e) == [state |-> "locked", epoch |-> e]
LockStates == {Active} \cup {Locking(e) : e \in LockEpochs} \cup {Locked(e) : e \in LockEpochs}

Pages == {"add", "sessions", "close"} \cup Secrets
Steps == {"begin", "external", "idle", "applock", "touch", "sync", "show", "modals",
          "approval", "unattended", "exit"}

\* The type invariant; a delete is asked about the secret that is shown, and a
\* discard about a navigation that waits.
TypeOK ==
  /\ session \in Sessions \cup {None} /\ stored \subseteq Secrets
  /\ app \in LockStates /\ locker \in [epoch : LockEpochs, done : BOOLEAN] \cup {None}
  /\ ext \in {"none", "requested", "ready"}
  /\ pend \in [request : Requests, session : Sessions] \cup {None}
  /\ granted \in Sessions \cup {None} /\ wrong \in 0 .. MaxFailedPins
  /\ approved \in Prompts \cup {None}
  /\ frame.at \in Steps /\ frame.seen \in BOOLEAN
  /\ {frame.top, frame.next} \subseteq {"none", "secret", "discard", "approval", "unattended"}
  /\ win.phase \in BOOLEAN /\ win.lock \in LockStates
  /\ win.attempt = IF win.lock.state = "locking" THEN win.lock.epoch ELSE None
  /\ win.confirm \in [pin : BOOLEAN, failed : 0 .. MaxFailedPins - 1] \cup {None}
  /\ win.touch \in [target : Prompts, result : {"waiting", "ok", "failed"}] \cup {None}
  /\ win.pin \in [at : Prompts, right : BOOLEAN] \cup {None}
  /\ win.page \in Pages /\ win.sel \in 0 .. SelectionWidth - 1
  /\ win.authorized \in Attempts \cup {None}
  /\ win.mode \in {"hidden", "revealed", "editing", "dirty"}
  /\ win.focused \in Requests \cup {None}
  /\ win.unattended \in Sessions \cup {None}
  /\ win.deleting \in {None, win.page}
  /\ win.discarding <=> win.nav # None

FreshWindow ==
  [phase |-> FALSE, lock |-> Active, attempt |-> None, confirm |-> None, touch |-> None, pin |-> None,
   pinShown |-> FALSE, page |-> "add", sel |-> 0, authorized |-> None,
   mode |-> "hidden", nav |-> None, confirming |-> FALSE, discarding |-> FALSE,
   deleting |-> None, unattended |-> None, focused |-> None, draft |-> FALSE]
FirstFrame == [at |-> "begin", seen |-> FALSE, top |-> "none", next |-> "none"]

Init ==
  /\ session = None /\ stored = Secrets /\ app = Active /\ locker = None
  /\ ext = "none" /\ pend = None /\ granted = None /\ approved = None
  /\ win = FreshWindow /\ frame = FirstFrame /\ wrong = 0

-----------------------------------------------------------------------------
\* What the handlers do to the window's own fields.
NextSel(w) == (w.sel + 1) % SelectionWidth
Selected(w) == IF w.page \in stored THEN w.page ELSE None
HasPin(w) == w.confirm # None /\ w.confirm.pin

Attempt(w, v) == SecretPrompt(v, w.page, w.sel)
Authorized(w) == session # None /\ Selected(w) # None /\ w.authorized = Attempt(w, session)

\* clear_sensitive_buffers
ClearedBuffersMutant(w) ==
  [w EXCEPT !.pin = None, !.pinShown = FALSE, !.touch = None, !.focused = None,
            !.unattended = None, !.mode = "hidden", !.page = "add",
            !.authorized = None, !.nav = None, !.sel = NextSel(w), !.confirming = FALSE,
            !.discarding = FALSE, !.deleting = None]
ClearedBuffers(w) ==
  [w EXCEPT !.pin = None, !.pinShown = FALSE, !.touch = None, !.focused = None,
            !.unattended = None, !.draft = FALSE, !.mode = "hidden", !.page = "add",
            !.authorized = None, !.nav = None, !.sel = NextSel(w), !.confirming = FALSE,
            !.discarding = FALSE, !.deleting = None]

\* clear_sensitive_state
ClearedState(w) == [ClearedBuffers(w) EXCEPT !.confirm = None, !.lock = Active, !.attempt = None]

NavigatedNowMutant(w, page) == [w EXCEPT !.page = page, !.nav = None, !.sel = NextSel(w)]
\* SecretDetailState::navigate_now, then finish_applied_navigation
NavigatedNow(w, page) ==
  [w EXCEPT !.mode = "hidden", !.authorized = None, !.page = page, !.nav = None,
            !.sel = NextSel(w)]
Applied(w) ==
  [w EXCEPT !.touch = None, !.confirming = FALSE, !.discarding = FALSE, !.pin = None,
            !.deleting = None]

RequestNavigation(w, page) ==
  IF w.mode = "dirty" THEN [w EXCEPT !.nav = page, !.discarding = TRUE]
                      ELSE Applied(NavigatedNow(w, page))

\* synchronize_phase; the lock that closed the vault has revoked the grants.
Synchronized(w, unlocked) ==
  [IF w.phase /\ ~ unlocked THEN ClearedState(w) ELSE w EXCEPT !.phase = unlocked]
Resynchronized(w) == Synchronized(w, session # None)

\* reject_stale_authentication, reject_stale_app_unlock
RejectStale(w) ==
  [Resynchronized([w EXCEPT !.touch = None]) EXCEPT !.confirming = FALSE, !.pin = None]
RejectStaleApp(w) == [w EXCEPT !.touch = None, !.pin = None]

\* SessionConfirmation::verify_pin and record_touch_id_success
Right(w) == w.pin # None /\ w.pin.right
PinAccepted(w) == [w EXCEPT !.pin = None, !.confirm.failed = 0]
TouchRecorded(w) == IF w.confirm = None THEN w ELSE [w EXCEPT !.confirm.failed = 0]
PinsLeft(w) == w.confirm.failed + 1 < MaxFailedPins

\* update_focused_approval, cancel_stale_approval_touch_id
FocusedMutant(w, request) == [w EXCEPT !.focused = request]
Focused(w, request) ==
  IF w.focused = request THEN w ELSE [w EXCEPT !.focused = request, !.pin = None]
StaleTouchDropped(w, current) ==
  IF w.touch # None /\ w.touch.target.kind = "approval" /\ w.touch.target # current
  THEN [w EXCEPT !.touch = None] ELSE w

TypedPin(w, prompt, right) ==
  IF w.pin = None THEN [w EXCEPT !.pin = [at |-> prompt, right |-> right]] ELSE w
TouchAsked(w, prompt) ==
  [w EXCEPT !.touch = [target |-> prompt, result |-> "waiting"]]

-----------------------------------------------------------------------------
\* Steps of the frame
Goes(step) == frame' = [frame EXCEPT !.at = step]
Draws(modal, step) == frame' = [frame EXCEPT !.at = step, !.next = modal]
Clicked(modal) == frame.top = modal
LockerBusy == locker # None /\ ~ locker.done

\* Window fields change, nothing else does.
Only(w) == win' = w /\ UNCHANGED <<session, stored, broker, ext, approved, wrong>>

\* cancel_active_run_and_lock, then finish_immediate_lock.  A client's lock that
\* is under way keeps the vault: it is the one that closes it.
LockImmediatelyMutant(w) ==
  /\ win' = ClearedState(w)
  /\ pend' = None /\ granted' = None
  /\ UNCHANGED <<session, app, locker, stored, ext, approved>>
LockImmediately(w) ==
  /\ win' = ClearedState(w)
  /\ pend' = None /\ granted' = None
  /\ IF ext = "none"
     THEN session' = None /\ app' = Active /\ locker' = None
     ELSE UNCHANGED <<session, app, locker>>
  /\ UNCHANGED <<stored, ext, approved>>

\* begin_interface_lock; the broker refuses while another lock is under way or
\* its worker cannot be started.
BeginInterfaceLock(w, automatic) ==
  \/ \E e \in LockEpochs :
       /\ TRUE \notin TouchChoices => HasPin(w)
       /\ ext = "none" /\ ~ LockerBusy /\ app = Active
       /\ app' = Locking(e) /\ locker' = [epoch |-> e, done |-> FALSE]
       /\ pend' = None /\ granted' = IF automatic THEN granted ELSE None
       /\ win' = [ClearedBuffers(w) EXCEPT !.lock = Locking(e), !.attempt = e]
       /\ UNCHANGED <<session, stored, ext, approved>>
  \/ LockImmediately(w)

\* lock_app; a window that is locked already only revokes and clears.
LockApp(w) ==
  \/ w.lock = Active /\ BeginInterfaceLock(w, FALSE)
  \/ /\ w.lock # Active
     /\ win' = ClearedBuffers(w) /\ granted' = None /\ pend' = None
     /\ UNCHANGED <<session, stored, app, locker, ext, approved>>

\* A new frame: the events of the tray.
Begin ==
  /\ frame.at = "begin"
  /\ frame' = [frame EXCEPT !.at = "external", !.top = frame.next, !.next = "none"]
  /\ \/ win' = win /\ approved' = None
        /\ UNCHANGED <<session, stored, broker, ext>>
     \/ approved = None /\ LockApp(win)
     \/ approved = None /\ LockImmediately(win)
  /\ UNCHANGED wrong

\* process_external_lock
ProcessExternalLock ==
  /\ frame.at = "external" /\ Goes("idle")
  /\ IF ext = "ready"
     THEN win' = [ClearedState(win) EXCEPT !.phase = FALSE] /\ ext' = "none"
     ELSE UNCHANGED <<win, ext>>
  /\ UNCHANGED <<session, stored, broker, approved, wrong>>

\* handle_idle_timeout
HandleIdleTimeout ==
  /\ frame.at = "idle" /\ Goes("applock")
  /\ \/ Only(win)
     \/ /\ session # None /\ win.confirm # None /\ win.lock = Active
        /\ BeginInterfaceLock(win, TRUE) /\ UNCHANGED wrong
     \/ /\ session # None /\ win.confirm = None
        /\ session' = None /\ win' = ClearedState(win) /\ app' = Active
        /\ pend' = None /\ granted' = None
        /\ UNCHANGED <<stored, locker, ext, approved, wrong>>

\* process_app_lock_result
ProcessAppLockResult ==
  /\ frame.at = "applock" /\ Goes("touch")
  /\ \/ win.attempt # None /\ ~ LockerBusy
        /\ Only([win EXCEPT !.lock = Locked(win.attempt), !.attempt = None])
     \/ ~ (win.attempt # None /\ ~ LockerBusy) /\ Only(win)

\* finish_app_unlock: the context is checked again and the broker agrees.
AppContext(w, prompt) ==
  session # None /\ w.lock.state = "locked" /\ prompt = AppPrompt(session, w.lock.epoch)
FinishAppUnlock(w) ==
  IF app = w.lock
  THEN /\ app' = Active
       /\ win' = [w EXCEPT !.touch = None, !.pin = None, !.lock = Active, !.pinShown = FALSE]
       /\ UNCHANGED <<session, stored, locker, pend, granted, ext, approved>>
  ELSE /\ win' = [w EXCEPT !.touch = None, !.pin = None]
       /\ UNCHANGED <<session, stored, broker, ext, approved>>

\* finish_authenticated_approval: the same request is still the pending one.
ExactRequest(prompt) ==
  session # None /\ pend # None /\ prompt = ApprovalPrompt(session, pend.request)
FinishApproval(w, prompt) ==
  /\ ExactRequest(prompt)
  /\ approved' = prompt /\ pend' = None /\ win' = [w EXCEPT !.pin = None]
  /\ UNCHANGED <<session, stored, app, locker, granted, ext>>

\* finish_authenticated_unattended: the broker checks the captured context.
ConsentCurrent(w, prompt) == w.lock = Active /\ prompt.session = session /\ app = Active
FinishUnattended(w, prompt) ==
  /\ win' = [w EXCEPT !.unattended = None, !.pin = None]
  /\ granted' = IF ConsentCurrent(w, prompt) THEN session ELSE granted
  /\ UNCHANGED <<session, stored, app, locker, pend, ext, approved>>

\* finish_selected_touch_id
FinishSelected(w, prompt) ==
  /\ session = prompt.session /\ prompt = Attempt(w, session)
  /\ win' = [w EXCEPT !.authorized = prompt, !.confirming = FALSE, !.pin = None]
  /\ UNCHANGED <<session, stored, broker, ext, approved>>

\* process_touch_id_result: the pending request is taken, then its target is
\* looked at again.
TouchOk(w, target) ==
  \/ /\ target.kind = "unattended" /\ FinishUnattended(
          IF ConsentCurrent(w, target) THEN TouchRecorded(w) ELSE w, target)
     /\ wrong' = IF ConsentCurrent(w, target) THEN 0 ELSE wrong
  \/ /\ target.kind = "app"
     /\ IF AppContext(w, target) /\ w.confirm # None
        THEN FinishAppUnlock(TouchRecorded(w)) /\ wrong' = 0
        ELSE Only(RejectStaleApp(w))
  \/ /\ target.kind = "secret" /\ FinishSelected(TouchRecorded(w), target) /\ wrong' = 0
  \/ /\ target.kind = "secret" /\ ~ (session = target.session /\ target = Attempt(w, session))
     /\ Only(RejectStale(w))
  \/ /\ target.kind = "approval" /\ FinishApproval(TouchRecorded(w), target) /\ wrong' = 0
  \/ /\ target.kind = "approval" /\ ~ ExactRequest(target) /\ Only(RejectStale(w))

ProcessTouchIdResult ==
  /\ frame.at = "touch" /\ Goes("sync")
  /\ \/ ~ (win.touch # None /\ win.touch.result # "waiting") /\ Only(win)
     \/ /\ win.touch # None /\ win.touch.result = "failed"
        /\ Only([win EXCEPT !.touch = None, !.pin = None])
     \/ /\ win.touch # None /\ win.touch.result = "ok"
        /\ TouchOk([win EXCEPT !.touch = None, !.pin = None], win.touch.target)

\* The phase is read once for the frame; a close request may wait for a discard.
SynchronizePhase ==
  /\ frame.at = "sync"
  /\ LET w == Resynchronized(win) IN
     \/ Only(w) /\ frame' = [frame EXCEPT !.at = "show", !.seen = (session # None)]
     \/ /\ session # None /\ w.lock = Active /\ w.mode = "dirty"
        /\ Only([w EXCEPT !.nav = "close", !.discarding = TRUE])
        /\ frame' = [frame EXCEPT !.at = "show", !.seen = TRUE]
     \/ /\ ~ (session # None /\ w.lock = Active /\ w.mode = "dirty")
        /\ Only(w) /\ Goes("exit")

-----------------------------------------------------------------------------
\* The pages
Showing(unlocked, state) ==
  frame.at = "show" /\ frame.seen = unlocked /\ (unlocked => win.lock.state = state)

\* Ids held somewhere in the window or the broker.
SessionsInUse ==
  {pend.session : x \in {pend} \ {None}} \cup {granted, win.unattended}
    \cup {win.authorized.session : x \in {win.authorized} \ {None}}
    \cup {win.touch.target.session : x \in {win.touch} \ {None}}
    \cup {win.pin.at.session : x \in {win.pin} \ {None}}
RequestsInUse ==
  {win.focused} \cup {approved.request : x \in {approved} \ {None}}
    \cup {win.touch.target.request : x \in {y \in {win.touch} \ {None} :
                                              y.target.kind = "approval"}}

\* show_locked: the vault opens a new session.
ShowLocked ==
  /\ Showing(FALSE, "any") /\ Goes("begin")
  /\ \/ Only(win)
     \/ /\ session = None /\ session' \in Sessions \ SessionsInUse /\ wrong' = 0
        /\ UNCHANGED <<stored, broker, ext, approved, win>>

ShowAppLocking == Showing(TRUE, "locking") /\ Goes("begin") /\ Only(win)

\* A submitted PIN that is wrong; the last allowed one locks the vault.
PinRejected(w) ==
  /\ ~ Right(w) /\ wrong' = IF wrong < MaxFailedPins THEN wrong + 1 ELSE wrong
  /\ IF PinsLeft(w)
     THEN /\ win' = [w EXCEPT !.pin = None, !.confirm.failed = @ + 1]
          /\ UNCHANGED <<session, stored, broker, ext, approved>>
     ELSE LockImmediately(w)

\* show_app_locked, begin_app_unlock, use_app_unlock_pin, authenticate_app_pin
ShowAppLocked ==
  /\ Showing(TRUE, "locked") /\ Goes("begin")
  /\ \E touch \in TouchChoices :
       LET w == [win EXCEPT !.pinShown = @ \/ (~ touch /\ HasPin(win))]
           prompt == AppPrompt(session, w.lock.epoch)
       IN \/ Only(w)
          \/ ~ w.pinShown /\ touch /\ w.touch = None /\ session # None
             /\ Only(TouchAsked([w EXCEPT !.pin = None], prompt))
          \/ ~ w.pinShown /\ touch /\ session = None /\ Only(RejectStaleApp(w))
          \/ ~ w.pinShown /\ HasPin(w)
             /\ Only([w EXCEPT !.touch = None, !.pin = None, !.pinShown = TRUE])
          \/ w.pinShown /\ session # None
             /\ \E right \in BOOLEAN : Only(TypedPin(w, prompt, right))
          \/ w.pinShown /\ ~ AppContext(w, prompt) /\ Only(RejectStaleApp(w))
          \/ w.pinShown /\ AppContext(w, prompt) /\ PinRejected([w EXCEPT !.touch = None])
          \/ w.pinShown /\ AppContext(w, prompt) /\ Right(w) /\ wrong' = 0
             /\ FinishAppUnlock(PinAccepted(w))
          \/ LockImmediately(w) /\ UNCHANGED wrong

\* show_session_auth_setup
ShowSessionAuthSetup ==
  /\ Showing(TRUE, "active") /\ win.confirm = None /\ Goes("begin")
  /\ \/ Only(win)
     \/ TRUE \in TouchChoices /\ Only([win EXCEPT !.confirm = [pin |-> FALSE, failed |-> 0]])
     \/ Only([win EXCEPT !.confirm = [pin |-> TRUE, failed |-> 0]])

-----------------------------------------------------------------------------
\* show_unlocked: one click on the rail, the add form, the selected secret or the
\* sessions page, when no modal was in front.
Manager(w) ==
  /\ Showing(TRUE, "active") /\ win.confirm # None /\ Clicked("none") /\ Only(w)

Navigate ==
  /\ \E page \in {"add", "sessions"} \cup stored :
       /\ page \in Secrets => session # None
       /\ Manager(RequestNavigation(win, page))
  /\ Goes("modals")

EditDraft ==
  /\ win.page = "add" /\ Manager([win EXCEPT !.draft = TRUE]) /\ Goes("modals")

\* add_secret takes the draft when it succeeds.
SaveDraft ==
  /\ Showing(TRUE, "active") /\ win.confirm # None /\ Clicked("none")
  /\ win.page = "add" /\ win.draft /\ Goes("modals")
  /\ \/ /\ session # None /\ win' = [win EXCEPT !.draft = FALSE]
        /\ stored' \in {stored} \cup {stored \cup {s} : s \in Secrets}
        /\ UNCHANGED <<session, broker, ext, approved, wrong>>
     \/ Only(Resynchronized(win))

AskUnlock ==
  /\ Selected(win) # None /\ ~ Authorized(win) /\ win.mode \in {"hidden", "revealed"}
  /\ Manager([win EXCEPT !.confirming = TRUE, !.pin = None]) /\ Goes("modals")

\* handle_detail_action: Show and Edit read the vault again.
OpenDetail ==
  /\ Authorized(win) /\ win.mode \in {"hidden", "revealed"}
  /\ \E mode \in {"revealed", "editing"} : Manager([win EXCEPT !.mode = mode])
  /\ Goes("modals")
EditDetail ==
  /\ Authorized(win) /\ win.mode \in {"editing", "dirty"}
  /\ \/ Manager([win EXCEPT !.mode = "dirty"])
     \/ Manager([win EXCEPT !.mode = "hidden"])      \* saved
     \/ Manager(Resynchronized(win))                 \* the save failed
  /\ Goes("modals")
HideDetail ==
  /\ Authorized(win) /\ win.mode # "hidden"
  /\ Manager([win EXCEPT !.mode = "hidden"]) /\ Goes("modals")

DeleteSelected ==
  /\ Selected(win) # None /\ win.mode \in {"hidden", "revealed"} /\ Goes("modals")
  /\ \/ Manager([win EXCEPT !.deleting = IF @ = None THEN win.page ELSE None])
     \/ /\ win.deleting = win.page
        /\ Manager(Resynchronized([win EXCEPT !.deleting = None]))
     \/ /\ Showing(TRUE, "active") /\ win.confirm # None /\ Clicked("none")
        /\ win.deleting = win.page /\ session # None
        /\ stored' = stored \ {win.page}
        /\ win' = [NavigatedNow(win, "add") EXCEPT !.deleting = None, !.touch = None,
                                                    !.confirming = FALSE, !.pin = None]
        /\ UNCHANGED <<session, broker, ext, approved, wrong>>

\* begin_unattended_confirmation, from the sessions page or from a request
BeginUnattended(w) ==
  IF w.lock = Active /\ w.touch = None
  THEN [w EXCEPT !.pin = None, !.unattended = session] ELSE w
ManageSessions ==
  /\ win.page = "sessions" /\ Manager(BeginUnattended(win)) /\ Goes("modals")

LockButton ==
  /\ Showing(TRUE, "active") /\ win.confirm # None /\ Clicked("none")
  /\ LockApp(win) /\ UNCHANGED wrong /\ Goes("modals")

\* Nothing is clicked.
Watch ==
  /\ Showing(TRUE, "active") /\ win.confirm # None /\ Goes("modals") /\ Only(win)

ShowUnlocked ==
  \/ Navigate \/ EditDraft \/ SaveDraft \/ AskUnlock \/ OpenDetail \/ EditDetail
  \/ HideDetail \/ DeleteSelected \/ ManageSessions \/ LockButton \/ Watch

\* Deny of show_unlock_request, the panel above the page while the window is not
\* ready to serve the agent's call: what was typed and the fingerprint are dropped,
\* and the page below is drawn.
Deny ==
  /\ frame.at = "show" /\ ~ (win.lock = Active /\ win.confirm # None /\ session # None)
  /\ Clicked("none") /\ Only([win EXCEPT !.pin = None, !.touch = None])
  /\ UNCHANGED frame

-----------------------------------------------------------------------------
\* The modals

\* manager_rendering_allowed, read again after the pages
Hidden ==
  /\ frame.at = "modals" /\ ~ (session # None /\ win.lock = Active)
  /\ Only(win) /\ Goes("begin")

Allowed == frame.at = "modals" /\ session # None /\ win.lock = Active

\* show_secret_confirmation, authenticate_selected_secret
ShowSecretConfirmation ==
  /\ Allowed /\ win.confirming /\ ~ win.discarding
  /\ LET prompt == Attempt(win, session) IN
     IF Selected(win) = None
     THEN Only([win EXCEPT !.confirming = FALSE, !.pin = None]) /\ Goes("approval")
     ELSE /\ Draws("secret", "approval")
          /\ \/ Only(win)
             \/ /\ Clicked("secret")
                /\ Only([win EXCEPT !.touch = None, !.confirming = FALSE, !.pin = None])
             \/ /\ Clicked("secret") /\ TRUE \in TouchChoices /\ win.touch = None
                /\ Only(TouchAsked(win, prompt))
             \/ /\ Clicked("secret") /\ HasPin(win)
                /\ \E right \in BOOLEAN : Only(TypedPin(win, prompt, right))
             \/ /\ Clicked("secret") /\ HasPin(win) /\ PinRejected([win EXCEPT !.touch = None])
             \/ /\ Clicked("secret") /\ HasPin(win) /\ Right(win) /\ wrong' = 0
                /\ FinishSelected(PinAccepted([win EXCEPT !.touch = None]), prompt)

\* show_discard_confirmation; a discarded close exits.
ShowDiscardConfirmation ==
  /\ Allowed /\ win.discarding
  /\ \/ Only(win) /\ Draws("discard", "approval")
     \/ /\ Clicked("discard") /\ Draws("discard", "approval")
        /\ Only([win EXCEPT !.nav = None, !.discarding = FALSE])
     \/ /\ Clicked("discard") /\ Only(Applied(NavigatedNow(win, win.nav)))
        /\ IF win.nav = "close" THEN Goes("exit") ELSE Draws("discard", "approval")

NoConfirmation ==
  Allowed /\ ~ win.confirming /\ ~ win.discarding /\ Only(win) /\ Goes("approval")

\* show_pending_approval: the request is read once, and again when it is answered.
ShowPendingApproval ==
  /\ frame.at = "approval"
  /\ IF win.unattended # None THEN Only(win) /\ Goes("unattended")
     ELSE IF pend = None
     THEN Only(Focused(StaleTouchDropped(win, None), None)) /\ Goes("unattended")
     ELSE LET prompt == ApprovalPrompt(pend.session, pend.request)
              w == Focused(StaleTouchDropped(win, prompt), pend.request)
          IN /\ Draws("approval", "unattended")
             /\ \/ Only(w)
                \/ Clicked("approval") /\ Only(BeginUnattended(w))
                \/ /\ Clicked("approval") /\ pend' = None
                   /\ win' = [w EXCEPT !.touch = None, !.pin = None]
                   /\ UNCHANGED <<session, stored, app, locker, granted, ext, approved, wrong>>
                \/ Clicked("approval") /\ session # pend.session /\ Only(RejectStale(w))
                \/ /\ Clicked("approval") /\ session = pend.session
                   /\ TRUE \in TouchChoices /\ w.touch = None
                   /\ Only(TouchAsked(w, prompt))
                \/ /\ Clicked("approval") /\ HasPin(w)
                   /\ \E right \in BOOLEAN : Only(TypedPin(w, prompt, right))
                \/ /\ Clicked("approval") /\ session = pend.session /\ HasPin(w)
                   /\ PinRejected([w EXCEPT !.touch = None])
                \/ /\ Clicked("approval") /\ session = pend.session /\ HasPin(w) /\ Right(w)
                   /\ wrong' = 0
                   /\ \/ FinishApproval(PinAccepted([w EXCEPT !.touch = None]), prompt)
                      \/ /\ win' = RejectStale(PinAccepted(w))   \* it was just withdrawn
                         /\ pend' = None
                         /\ UNCHANGED <<session, stored, app, locker, granted, ext, approved>>

\* show_unattended_confirmation, authenticate_unattended
ShowUnattended ==
  /\ frame.at = "unattended"
  /\ IF win.unattended = None THEN Only(win) /\ Goes("begin")
     ELSE LET prompt == UnattendedPrompt(win.unattended)
              current == win.lock = Active /\ session = win.unattended
          IN /\ Draws("unattended", "begin")
             /\ \/ Only(win)
                \/ /\ Clicked("unattended")
                   /\ Only([win EXCEPT !.unattended = None, !.touch = None, !.pin = None])
                \/ /\ Clicked("unattended") /\ win.touch = None /\ ~ current
                   /\ Only([RejectStale(win) EXCEPT !.unattended = None])
                \/ /\ Clicked("unattended") /\ win.touch = None /\ current
                   /\ TRUE \in TouchChoices /\ Only(TouchAsked(win, prompt))
                \/ /\ Clicked("unattended") /\ win.touch = None /\ HasPin(win)
                   /\ \E right \in BOOLEAN : Only(TypedPin(win, prompt, right))
                \/ /\ Clicked("unattended") /\ win.touch = None /\ HasPin(win) /\ current
                   /\ PinRejected(win)
                \/ /\ Clicked("unattended") /\ win.touch = None /\ HasPin(win) /\ current
                   /\ Right(win) /\ wrong' = 0 /\ FinishUnattended(PinAccepted(win), prompt)

\* on_exit, and the next start of the application
Exit ==
  /\ frame.at = "exit"
  /\ session' = None /\ app' = Active /\ locker' = None /\ pend' = None /\ granted' = None
  /\ ext' = "none" /\ approved' = None /\ wrong' = 0
  /\ win' = FreshWindow /\ frame' = FirstFrame /\ UNCHANGED stored

-----------------------------------------------------------------------------
\* The other threads

\* lock_controller_and_runs on a worker: it waits for the window's own operation,
\* closes the vault and asks the window to wipe.
ExternalRequest ==
  /\ ext = "none" /\ ~ LockerBusy /\ ext' = "requested"
  /\ UNCHANGED <<session, stored, broker, approved, win, frame, wrong>>
ExternalLock ==
  /\ ext = "requested" /\ ext' = "ready"
  /\ session' = None /\ app' = Active /\ pend' = None /\ granted' = None
  /\ UNCHANGED <<stored, locker, approved, win, frame, wrong>>

\* The worker of begin_app_lock
FinishAppLock ==
  /\ LockerBusy
  /\ locker' = [locker EXCEPT !.done = TRUE]
  /\ app' = IF app = Locking(locker.epoch) THEN Locked(locker.epoch) ELSE app
  /\ UNCHANGED <<session, stored, ext, pend, granted, approved, win, frame, wrong>>

\* A run that needs consent publishes a request; it may go away at any time.
Ask ==
  /\ session # None /\ pend = None /\ app = Active /\ ext = "none"
  /\ \E r \in Requests \ RequestsInUse : pend' = [request |-> r, session |-> session]
  /\ UNCHANGED <<session, stored, app, locker, ext, granted, approved, win, frame, wrong>>
Withdraw ==
  /\ pend # None /\ pend' = None
  /\ UNCHANGED <<session, stored, app, locker, ext, granted, approved, win, frame, wrong>>

\* The sensor answers the attempt the window still holds.
TouchAnswer ==
  /\ win.touch # None /\ win.touch.result = "waiting"
  /\ \E r \in {"ok", "failed"} : win' = [win EXCEPT !.touch.result = r]
  /\ UNCHANGED <<session, stored, broker, ext, approved, frame, wrong>>

FrameStep ==
  \/ Begin \/ ProcessExternalLock \/ HandleIdleTimeout \/ ProcessAppLockResult
  \/ ProcessTouchIdResult \/ SynchronizePhase \/ ShowLocked \/ ShowAppLocking
  \/ ShowAppLocked \/ ShowSessionAuthSetup \/ ShowUnlocked \/ Deny \/ Hidden
  \/ ShowSecretConfirmation \/ ShowDiscardConfirmation \/ NoConfirmation
  \/ ShowPendingApproval \/ ShowUnattended \/ Exit

Next ==
  \/ FrameStep \/ ExternalRequest \/ ExternalLock \/ FinishAppLock \/ Ask \/ Withdraw
  \/ TouchAnswer

Spec == Init /\ [][Next]_vars

-----------------------------------------------------------------------------
\* The user confirmed this prompt, and its vault session is the open one.
Evidence(p) ==
  /\ p.session = session
  /\ \/ Right(win) /\ win.pin.at = p
     \/ win.touch # None /\ win.touch.result = "ok" /\ win.touch.target = p

(* Whatever the window opens or grants was confirmed at the prompt for exactly
   that: a PIN typed at one prompt or a fingerprint asked for one never unlocks
   another secret, another request, the app or unattended access, although the
   prompts share the buffer and come and go (the authenticate and finish handlers). *)
ConsentIsForThisPrompt ==
  [][/\ win'.authorized \notin {None, win.authorized} => Evidence(win'.authorized)
     /\ (win.lock.state = "locked" /\ win'.lock = Active /\ win'.confirm # None)
          => Evidence(AppPrompt(session, win.lock.epoch))
     /\ approved' \notin {None, approved} => Evidence(approved')
     /\ granted' \notin {None, granted} => Evidence(UnattendedPrompt(granted'))]_vars

Empty(w) ==
  /\ w.mode = "hidden" /\ w.authorized = None /\ ~ w.draft /\ w.unattended = None
  /\ ~ w.confirming /\ ~ w.discarding

(* No lock leaves anything of the user's in the window, in whatever dialog it
   finds the user.  From the click or the timeout that locks the interface until
   it is unlocked the window holds no value, draft or authorization and no prompt
   but its own (clear_for_app_lock); and once it has noticed that the vault is
   closed, by whichever thread, nothing of the old session is left in it
   (synchronize_phase, clear_sensitive_state). *)
LockedHoldsNothing ==
  /\ win.lock # Active =>
       /\ Empty(win)
       /\ win.touch # None => win.touch.target.kind = "app"
       /\ win.pin # None => win.pin.at.kind = "app"
  /\ session = None /\ ~ win.phase => Empty(win) /\ win.confirm = None

(* A decrypted value is shown or edited only under an authorization of that
   secret in the vault session it was given in, and no longer than until the
   window notices that the session ended (begin_with_draft, synchronize_phase). *)
ValuesAreAuthorized ==
  win.mode # "hidden" =>
    /\ win.authorized = SecretPrompt(win.authorized.session, win.page, win.sel)
    /\ session # win.authorized.session => session = None /\ win.phase

(* Wrong PINs are counted across all the prompts of a vault session: with
   MaxFailedPins of them in a row the vault is closed, or a client's lock that
   is closing it has been asked for (verify_pin, lock_immediately). *)
WrongPinsLock == wrong < MaxFailedPins \/ session = None \/ ext # "none"
=============================================================================
