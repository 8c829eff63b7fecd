-------------------------- MODULE DesktopAuthProofs --------------------------
(***************************************************************************)
(* Theorems about DesktopAuth, for any secrets, sessions, requests and     *)
(* limits.  The window is changed by the frame's handlers only; what the   *)
(* other threads do between two handlers shows in the session, the app     *)
(* lock and the request the next handler reads.  Every invariant is about  *)
(* the window and what of the rest it depends on, so that a handler is     *)
(* judged by the window it leaves.                                         *)
(***************************************************************************)
EXTENDS DesktopAuth, TLAPS

-----------------------------------------------------------------------------
(* The fields of the window.                                               *)

(* The records the window holds. *)
Confirmations == [pin : BOOLEAN, failed : 0 .. MaxFailedPins - 1]
Touches == [target : Prompts, result : {"waiting", "ok", "failed"}]
Pins == [at : Prompts, right : BOOLEAN]

(* The window as a record. *)
Windows ==
  [phase : BOOLEAN, lock : LockStates, attempt : LockEpochs \cup {None},
   confirm : Confirmations \cup {None}, touch : Touches \cup {None}, pin : Pins \cup {None},
   pinShown : BOOLEAN, page : Pages, sel : 0 .. SelectionWidth - 1,
   authorized : Attempts \cup {None}, mode : {"hidden", "revealed", "editing", "dirty"},
   nav : Pages \cup {None}, confirming : BOOLEAN, discarding : BOOLEAN,
   deleting : Pages \cup {None}, unattended : Sessions \cup {None},
   focused : Requests \cup {None}, draft : BOOLEAN]

(* The fields have their types, and five of them follow others. *)
WinType(w) ==
  /\ w \in Windows
  /\ w.attempt = IF w.lock.state = "locking" THEN w.lock.epoch ELSE None
  /\ w.deleting \in {None, w.page}
  /\ w.discarding <=> w.nav # None
  /\ w.pinShown => HasPin(w)
  /\ w.confirm = None => w.mode = "hidden" /\ ~ w.discarding

(* Nothing of a vault session is in the window. *)
Quiet(w) == Empty(w) /\ w.touch = None /\ w.pin = None /\ w.confirm = None

(* A locked window has nothing but its own prompt; a window that has       *)
(* noticed that the vault is closed is quiet; and a value in the window is *)
(* one of the secret that is authorized, in the session s if there is one. *)
LockedPart(w) ==
  w.lock # Active => /\ Empty(w)
                     /\ w.touch # None => w.touch.target.kind = "app"
                     /\ w.pin # None => w.pin.at.kind = "app"
QuietPart(w) == ~ w.phase => Quiet(w)
ValuePart(w, s) ==
  w.mode # "hidden" =>
    /\ w.authorized = SecretPrompt(w.authorized.session, w.page, w.sel)
    /\ s \in {None, w.authorized.session}

(* The invariant of the window w in the vault session s. *)
WinInv(w, s) == WinType(w) /\ LockedPart(w) /\ QuietPart(w) /\ ValuePart(w, s)

(* The lock states, and how to tell them apart. *)
LEMMA LockFacts ==
  /\ Active \in LockStates /\ Active.state = "active" /\ Active.epoch = None
  /\ \A e \in LockEpochs : /\ Locking(e) \in LockStates /\ Locking(e).state = "locking"
                           /\ Locking(e).epoch = e
                           /\ Locked(e) \in LockStates /\ Locked(e).state = "locked"
                           /\ Locked(e).epoch = e
  /\ \A l \in LockStates : /\ l.state \in {"active", "locking", "locked"}
                           /\ l.state = "active" <=> l = Active
                           /\ l.state # "active" => l.epoch \in LockEpochs
<1>1. Active \in LockStates /\ Active.state = "active" /\ Active.epoch = None
  BY DEF LockStates, Active
<1>2. ASSUME NEW e \in LockEpochs
      PROVE  /\ Locking(e) \in LockStates /\ Locking(e).state = "locking" /\ Locking(e).epoch = e
             /\ Locked(e) \in LockStates /\ Locked(e).state = "locked" /\ Locked(e).epoch = e
  BY DEF LockStates, Locking, Locked
<1>3. ASSUME NEW l \in LockStates
      PROVE  /\ l.state \in {"active", "locking", "locked"}
             /\ l.state = "active" <=> l = Active
             /\ l.state # "active" => l.epoch \in LockEpochs
  <2>1. CASE l = Active
    BY <1>1, <2>1
  <2>2. ASSUME NEW e \in LockEpochs, l = Locking(e) \/ l = Locked(e)
        PROVE  /\ l.state \in {"locking", "locked"} /\ l # Active
               /\ l.epoch \in LockEpochs
    BY <1>1, <1>2, <2>2
  <2>3. l = Active \/ \E e \in LockEpochs : l = Locking(e) \/ l = Locked(e)
    BY DEF LockStates
  <2>4. CASE \E e \in LockEpochs : l = Locking(e) \/ l = Locked(e)
    BY <2>2, <2>4
  <2> QED BY <2>1, <2>3, <2>4
<1> QED BY <1>1, <1>2, <1>3

(* The prompts, and how to tell them apart. *)
LEMMA PromptFacts ==
  /\ \A v \in Sessions, s \in Secrets, e \in 0 .. SelectionWidth - 1 :
       SecretPrompt(v, s, e) \in Attempts
  /\ \A v \in Sessions, e \in LockEpochs :
       AppPrompt(v, e) \in Prompts /\ AppPrompt(v, e).kind = "app"
  /\ \A v \in Sessions, r \in Requests : ApprovalPrompt(v, r) \in Prompts
  /\ \A v \in Sessions : UnattendedPrompt(v) \in Prompts
  /\ Attempts \subseteq Prompts
  BY DEF SecretPrompt, AppPrompt, ApprovalPrompt, UnattendedPrompt, Attempts, Prompts

(* The selection epoch wraps within its width. *)
LEMMA NextSelType ==
  ASSUME NEW w \in Windows PROVE NextSel(w) \in 0 .. SelectionWidth - 1
<1>1. SelectionWidth \in Nat \ {0} /\ w.sel \in Nat
  BY DesktopAssumption DEF Windows
<1> QED BY <1>1 DEF NextSel

-----------------------------------------------------------------------------
(* What the handlers make of a window.                                     *)

(* clear_sensitive_buffers leaves the lock, the phase and the confirmation. *)
LEMMA ClearedBuffersFacts ==
  ASSUME NEW w \in Windows
  PROVE  LET v == ClearedBuffers(w) IN
         /\ v \in Windows /\ Empty(v) /\ v.touch = None /\ v.pin = None
         /\ v.deleting = None /\ v.nav = None /\ ~ v.discarding /\ ~ v.pinShown
         /\ v.lock = w.lock /\ v.attempt = w.attempt /\ v.phase = w.phase /\ v.confirm = w.confirm
<1>1. NextSel(w) \in 0 .. SelectionWidth - 1 /\ "add" \in Pages
  BY NextSelType DEF Pages
<1> DEFINE v == ClearedBuffers(w)
<1>2. v \in Windows
  BY <1>1 DEF ClearedBuffers, Windows
<1>3. /\ Empty(v) /\ v.touch = None /\ v.pin = None
      /\ v.deleting = None /\ v.nav = None /\ ~ v.discarding /\ ~ v.pinShown
      /\ v.lock = w.lock /\ v.attempt = w.attempt /\ v.phase = w.phase /\ v.confirm = w.confirm
  BY DEF ClearedBuffers, Windows, Empty
<1> QED BY <1>2, <1>3

(* Dropping the confirmation and the lock leaves a window. *)
LEMMA Unlocked ==
  ASSUME NEW u \in Windows
  PROVE  [u EXCEPT !.confirm = None, !.lock = Active, !.attempt = None] \in Windows
<1>1. Active \in LockStates
  BY LockFacts
<1> QED BY <1>1 DEF Windows

(* clear_sensitive_state leaves a quiet window. *)
LEMMA ClearedStateFacts ==
  ASSUME NEW w \in Windows
  PROVE  LET v == ClearedState(w) IN
         /\ v \in Windows /\ Quiet(v)
         /\ v.deleting = None /\ v.nav = None /\ ~ v.discarding /\ ~ v.pinShown
         /\ v.lock = Active /\ v.attempt = None /\ v.phase = w.phase
<1> DEFINE u == ClearedBuffers(w)
           v == [u EXCEPT !.confirm = None, !.lock = Active, !.attempt = None]
<1>1. /\ u \in Windows /\ Empty(u) /\ u.touch = None /\ u.pin = None
      /\ u.deleting = None /\ u.nav = None /\ ~ u.discarding /\ ~ u.pinShown /\ u.phase = w.phase
  BY ClearedBuffersFacts
<1> HIDE DEF u
<1>2. v \in Windows
  BY <1>1, Unlocked
<1>3. /\ Quiet(v) /\ v.deleting = None /\ v.nav = None /\ ~ v.discarding /\ ~ v.pinShown
      /\ v.lock = Active /\ v.attempt = None /\ v.phase = w.phase
  BY <1>1 DEF Windows, Empty, Quiet
<1> QED BY <1>2, <1>3 DEF ClearedState, u

(* Clearing satisfies the window's invariant, whatever the session is. *)
LEMMA ClearedKeeps ==
  ASSUME NEW w, WinType(w), NEW s
  PROVE  /\ WinInv(ClearedState(w), s)
         /\ WinInv([ClearedState(w) EXCEPT !.phase = FALSE], s)
         /\ QuietPart(w) => WinInv(ClearedBuffers(w), s)
<1>1. w \in Windows
  BY DEF WinType
<1>2. ASSUME NEW v \in Windows, Quiet(v), v.deleting = None, v.nav = None, ~ v.discarding, ~ v.pinShown,
             v.lock = Active, v.attempt = None
      PROVE  WinInv(v, s)
  BY <1>2, LockFacts DEF WinInv, WinType, LockedPart, QuietPart, ValuePart, Quiet, Empty
<1>3. WinInv(ClearedState(w), s)
  BY <1>1, <1>2, ClearedStateFacts
<1>4. WinInv([ClearedState(w) EXCEPT !.phase = FALSE], s)
  <2> DEFINE u == ClearedState(w)
  <2>1. /\ u \in Windows /\ Quiet(u) /\ u.deleting = None /\ u.nav = None /\ ~ u.discarding /\ ~ u.pinShown
        /\ u.lock = Active /\ u.attempt = None
    BY <1>1, ClearedStateFacts
  <2> HIDE DEF u
  <2>2. [u EXCEPT !.phase = FALSE] \in Windows
    BY <2>1 DEF Windows
  <2>3. Quiet([u EXCEPT !.phase = FALSE])
    BY <2>1 DEF Windows, Quiet, Empty
  <2>4. /\ [u EXCEPT !.phase = FALSE].deleting = None /\ [u EXCEPT !.phase = FALSE].nav = None
        /\ ~ [u EXCEPT !.phase = FALSE].discarding /\ ~ [u EXCEPT !.phase = FALSE].pinShown /\ [u EXCEPT !.phase = FALSE].lock = Active
        /\ [u EXCEPT !.phase = FALSE].attempt = None
    BY <2>1 DEF Windows
  <2> QED BY <1>2, <2>2, <2>3, <2>4 DEF u
<1>5. ASSUME QuietPart(w) PROVE WinInv(ClearedBuffers(w), s)
  BY <1>1, <1>5, ClearedBuffersFacts
     DEF WinInv, WinType, LockedPart, QuietPart, ValuePart, Quiet, Empty
<1> QED BY <1>3, <1>4, <1>5

(* begin_interface_lock leaves a locked window with nothing in it. *)
LEMMA LockingKeeps ==
  ASSUME NEW w, WinType(w), QuietPart(w), NEW s, NEW e \in LockEpochs
  PROVE  LET v == [ClearedBuffers(w) EXCEPT !.lock = Locking(e), !.attempt = e] IN
         WinInv(v, s) /\ v.phase = w.phase /\ v.confirm = w.confirm
<1> DEFINE u == ClearedBuffers(w)
           v == [u EXCEPT !.lock = Locking(e), !.attempt = e]
<1>1. /\ u \in Windows /\ Empty(u) /\ u.touch = None /\ u.pin = None /\ u.deleting = None
      /\ u.nav = None /\ ~ u.discarding /\ ~ u.pinShown /\ u.phase = w.phase /\ u.confirm = w.confirm
  BY ClearedBuffersFacts DEF WinType
<1> HIDE DEF u
<1>2. Locking(e) \in LockStates /\ Locking(e).state = "locking" /\ Locking(e).epoch = e
  BY LockFacts
<1>3. v \in Windows
  BY <1>1, <1>2 DEF Windows
<1>4. /\ Empty(v) /\ v.touch = None /\ v.pin = None /\ v.deleting = None /\ v.nav = None
      /\ ~ v.discarding /\ ~ v.pinShown /\ v.phase = w.phase /\ v.confirm = w.confirm
      /\ v.lock = Locking(e) /\ v.attempt = e
  BY <1>1 DEF Windows, Empty
<1> HIDE DEF v
<1>5. WinInv(v, s)
  BY <1>2, <1>3, <1>4 DEF WinInv, WinType, LockedPart, QuietPart, ValuePart, Quiet, Empty
<1> QED BY <1>4, <1>5 DEF u, v

-----------------------------------------------------------------------------
(* Changes that leave the value, the page and the lock alone.              *)

(* v differs from w in prompts, dialogs, the draft or the count only. *)
Core(w, v) ==
  /\ v \in Windows
  /\ v.lock = w.lock /\ v.attempt = w.attempt /\ v.phase = w.phase
  /\ v.page = w.page /\ v.sel = w.sel /\ v.authorized = w.authorized /\ v.mode = w.mode
  /\ v.nav = w.nav /\ v.discarding = w.discarding /\ v.deleting \in {None, w.deleting, w.page}
  /\ v.pinShown => HasPin(v)
  /\ v.confirm = None => w.confirm = None

(* The same, and nothing is added that was not there. *)
Trims(w, v) ==
  /\ Core(w, v)
  /\ v.draft = w.draft /\ v.unattended \in {None, w.unattended}
  /\ v.confirming \in {FALSE, w.confirming}
  /\ v.touch # None => w.touch # None /\ v.touch.target = w.touch.target
  /\ v.pin \in {None, w.pin}
  /\ w.confirm = None => v.confirm = None

(* A window in which a vault session is being used. *)
Open(w) == w.phase /\ w.lock = Active

(* Such changes keep the invariant of an open window. *)
LEMMA CoreKeeps ==
  ASSUME NEW w, NEW v, NEW s, WinInv(w, s), Core(w, v)
  PROVE  LockedPart(v) /\ QuietPart(v) => WinInv(v, s)
  BY DEF Core, WinInv, WinType, ValuePart

(* In an open window they keep all of it. *)
LEMMA OpenKeeps ==
  ASSUME NEW w, NEW v, NEW s, WinInv(w, s), Core(w, v), Open(w)
  PROVE  WinInv(v, s) /\ Open(v)
  BY CoreKeeps DEF Core, Open, LockedPart, QuietPart

(* A change that adds nothing keeps the invariant of any window. *)
LEMMA TrimKeeps ==
  ASSUME NEW w, NEW v, NEW s, WinInv(w, s), Trims(w, v)
  PROVE  WinInv(v, s)
<1>1. LockedPart(v)
  BY DEF Trims, Core, WinInv, LockedPart, Empty
<1>2. QuietPart(v)
  BY DEF Trims, Core, WinInv, QuietPart, Quiet, Empty
<1> QED BY <1>1, <1>2, CoreKeeps DEF Trims

(* Trimming twice is trimming. *)
LEMMA TrimTwice ==
  ASSUME NEW u, NEW v, NEW w, WinType(u), Trims(u, v), Trims(v, w)
  PROVE  Trims(u, w)
  BY DEF Trims, Core, WinType

(* Dropping what was typed, the sensor's request and the dialogs, or        *)
(* looking at another request.                                             *)
LEMMA Drops ==
  ASSUME NEW w, WinType(w), NEW r \in Requests \cup {None}
  PROVE  /\ Trims(w, w)
         /\ LET v == [w EXCEPT !.pin = None] IN Trims(w, v) /\ v.confirm = w.confirm
         /\ LET v == [w EXCEPT !.touch = None] IN Trims(w, v) /\ v.confirm = w.confirm
         /\ LET v == [w EXCEPT !.touch = None, !.pin = None] IN Trims(w, v) /\ v.confirm = w.confirm
         /\ LET v == [w EXCEPT !.confirming = FALSE, !.pin = None] IN Trims(w, v) /\ v.confirm = w.confirm
         /\ LET v == [w EXCEPT !.touch = None, !.confirming = FALSE, !.pin = None] IN Trims(w, v) /\ v.confirm = w.confirm
         /\ LET v == [w EXCEPT !.unattended = None] IN Trims(w, v) /\ v.confirm = w.confirm
         /\ LET v == [w EXCEPT !.unattended = None, !.pin = None] IN Trims(w, v) /\ v.confirm = w.confirm
         /\ LET v == [w EXCEPT !.unattended = None, !.touch = None, !.pin = None] IN Trims(w, v) /\ v.confirm = w.confirm
         /\ LET v == [w EXCEPT !.focused = r] IN Trims(w, v) /\ v.confirm = w.confirm
         /\ LET v == [w EXCEPT !.focused = r, !.pin = None] IN Trims(w, v) /\ v.confirm = w.confirm
<1>a. w \in Windows /\ w.deleting \in {None, w.page} /\ (w.pinShown => HasPin(w))
  BY DEF WinType
<1>0. Trims(w, w)
  BY <1>a DEF Trims, Core
<1>1. LET v == [w EXCEPT !.pin = None] IN Trims(w, v) /\ v.confirm = w.confirm
  <2> DEFINE v == [w EXCEPT !.pin = None]
  <2>1. v \in Windows
    BY <1>a DEF Windows
  <2>2. Core(w, v)
    BY <1>a, <2>1 DEF Core, Windows, HasPin
  <2>3. Trims(w, v) /\ v.confirm = w.confirm
    BY <1>a, <2>2 DEF Trims, Windows
  <2> QED BY <2>3
<1>2. LET v == [w EXCEPT !.touch = None] IN Trims(w, v) /\ v.confirm = w.confirm
  <2> DEFINE v == [w EXCEPT !.touch = None]
  <2>1. v \in Windows
    BY <1>a DEF Windows
  <2>2. Core(w, v)
    BY <1>a, <2>1 DEF Core, Windows, HasPin
  <2>3. Trims(w, v) /\ v.confirm = w.confirm
    BY <1>a, <2>2 DEF Trims, Windows
  <2> QED BY <2>3
<1>3. LET v == [w EXCEPT !.touch = None, !.pin = None] IN Trims(w, v) /\ v.confirm = w.confirm
  <2> DEFINE v == [w EXCEPT !.touch = None, !.pin = None]
  <2>1. v \in Windows
    BY <1>a DEF Windows
  <2>2. Core(w, v)
    BY <1>a, <2>1 DEF Core, Windows, HasPin
  <2>3. Trims(w, v) /\ v.confirm = w.confirm
    BY <1>a, <2>2 DEF Trims, Windows
  <2> QED BY <2>3
<1>4. LET v == [w EXCEPT !.confirming = FALSE, !.pin = None] IN Trims(w, v) /\ v.confirm = w.confirm
  <2> DEFINE v == [w EXCEPT !.confirming = FALSE, !.pin = None]
  <2>1. v \in Windows
    BY <1>a DEF Windows
  <2>2. Core(w, v)
    BY <1>a, <2>1 DEF Core, Windows, HasPin
  <2>3. Trims(w, v) /\ v.confirm = w.confirm
    BY <1>a, <2>2 DEF Trims, Windows
  <2> QED BY <2>3
<1>5. LET v == [w EXCEPT !.touch = None, !.confirming = FALSE, !.pin = None] IN Trims(w, v) /\ v.confirm = w.confirm
  <2> DEFINE v == [w EXCEPT !.touch = None, !.confirming = FALSE, !.pin = None]
  <2>1. v \in Windows
    BY <1>a DEF Windows
  <2>2. Core(w, v)
    BY <1>a, <2>1 DEF Core, Windows, HasPin
  <2>3. Trims(w, v) /\ v.confirm = w.confirm
    BY <1>a, <2>2 DEF Trims, Windows
  <2> QED BY <2>3
<1>6. LET v == [w EXCEPT !.unattended = None] IN Trims(w, v) /\ v.confirm = w.confirm
  <2> DEFINE v == [w EXCEPT !.unattended = None]
  <2>1. v \in Windows
    BY <1>a DEF Windows
  <2>2. Core(w, v)
    BY <1>a, <2>1 DEF Core, Windows, HasPin
  <2>3. Trims(w, v) /\ v.confirm = w.confirm
    BY <1>a, <2>2 DEF Trims, Windows
  <2> QED BY <2>3
<1>7. LET v == [w EXCEPT !.unattended = None, !.pin = None] IN Trims(w, v) /\ v.confirm = w.confirm
  <2> DEFINE v == [w EXCEPT !.unattended = None, !.pin = None]
  <2>1. v \in Windows
    BY <1>a DEF Windows
  <2>2. Core(w, v)
    BY <1>a, <2>1 DEF Core, Windows, HasPin
  <2>3. Trims(w, v) /\ v.confirm = w.confirm
    BY <1>a, <2>2 DEF Trims, Windows
  <2> QED BY <2>3
<1>8. LET v == [w EXCEPT !.unattended = None, !.touch = None, !.pin = None] IN Trims(w, v) /\ v.confirm = w.confirm
  <2> DEFINE v == [w EXCEPT !.unattended = None, !.touch = None, !.pin = None]
  <2>1. v \in Windows
    BY <1>a DEF Windows
  <2>2. Core(w, v)
    BY <1>a, <2>1 DEF Core, Windows, HasPin
  <2>3. Trims(w, v) /\ v.confirm = w.confirm
    BY <1>a, <2>2 DEF Trims, Windows
  <2> QED BY <2>3
<1>9. LET v == [w EXCEPT !.focused = r] IN Trims(w, v) /\ v.confirm = w.confirm
  <2> DEFINE v == [w EXCEPT !.focused = r]
  <2>1. v \in Windows
    BY <1>a DEF Windows
  <2>2. Core(w, v)
    BY <1>a, <2>1 DEF Core, Windows, HasPin
  <2>3. Trims(w, v) /\ v.confirm = w.confirm
    BY <1>a, <2>2 DEF Trims, Windows
  <2> QED BY <2>3
<1>10. LET v == [w EXCEPT !.focused = r, !.pin = None] IN Trims(w, v) /\ v.confirm = w.confirm
  <2> DEFINE v == [w EXCEPT !.focused = r, !.pin = None]
  <2>1. v \in Windows
    BY <1>a DEF Windows
  <2>2. Core(w, v)
    BY <1>a, <2>1 DEF Core, Windows, HasPin
  <2>3. Trims(w, v) /\ v.confirm = w.confirm
    BY <1>a, <2>2 DEF Trims, Windows
  <2> QED BY <2>3
<1> QED BY <1>0, <1>1, <1>2, <1>3, <1>4, <1>5, <1>6, <1>7, <1>8, <1>9, <1>10

(* show_app_locked shows the PIN field only where there is a PIN. *)
LEMMA Shows ==
  ASSUME NEW w, WinType(w)
  PROVE  /\ \A b \in BOOLEAN : (b => HasPin(w)) =>
              LET v == [w EXCEPT !.pinShown = b] IN
              Trims(w, v) /\ v.confirm = w.confirm /\ v.pinShown = b
         /\ HasPin(w) =>
              LET v == [w EXCEPT !.touch = None, !.pin = None, !.pinShown = TRUE] IN
              Trims(w, v) /\ v.confirm = w.confirm
<1>a. w \in Windows /\ w.deleting \in {None, w.page}
  BY DEF WinType
<1>1. ASSUME NEW b \in BOOLEAN, b => HasPin(w)
      PROVE  LET v == [w EXCEPT !.pinShown = b] IN
             Trims(w, v) /\ v.confirm = w.confirm /\ v.pinShown = b
  <2> DEFINE v == [w EXCEPT !.pinShown = b]
  <2>1. v \in Windows /\ v.pinShown = b
    BY <1>a DEF Windows
  <2>2. Core(w, v)
    BY <1>a, <1>1, <2>1 DEF Core, Windows, HasPin
  <2>3. Trims(w, v) /\ v.confirm = w.confirm
    BY <1>a, <2>2 DEF Trims, Windows
  <2> QED BY <2>1, <2>3
<1>2. ASSUME HasPin(w)
      PROVE  LET v == [w EXCEPT !.touch = None, !.pin = None, !.pinShown = TRUE] IN
             Trims(w, v) /\ v.confirm = w.confirm
  <2> DEFINE v == [w EXCEPT !.touch = None, !.pin = None, !.pinShown = TRUE]
  <2>1. v \in Windows
    BY <1>a DEF Windows
  <2>2. Core(w, v)
    BY <1>a, <1>2, <2>1 DEF Core, Windows, HasPin
  <2>3. Trims(w, v) /\ v.confirm = w.confirm
    BY <1>a, <2>2 DEF Trims, Windows
  <2> QED BY <2>3
<1> QED BY <1>1, <1>2

(* What a success or a failure does to a confirmation. *)
LEMMA CountFacts ==
  ASSUME NEW c \in Confirmations
  PROVE  /\ c # None
         /\ LET d == [c EXCEPT !.failed = 0] IN
            d \in Confirmations /\ d # None /\ d.failed = 0 /\ d.pin = c.pin
         /\ c.failed + 1 < MaxFailedPins =>
              LET d == [c EXCEPT !.failed = @ + 1] IN
              d \in Confirmations /\ d # None /\ d.failed = c.failed + 1 /\ d.pin = c.pin
<1>1. MaxFailedPins \in Nat \ {0} /\ None \notin [pin : BOOLEAN, failed : Nat]
  BY DesktopAssumption
<1>2. \A d \in Confirmations : d # None
  BY <1>1 DEF Confirmations
<1>3. LET d == [c EXCEPT !.failed = 0] IN
      d \in Confirmations /\ d.failed = 0 /\ d.pin = c.pin
  BY <1>1 DEF Confirmations
<1>4. ASSUME c.failed + 1 < MaxFailedPins
      PROVE  LET d == [c EXCEPT !.failed = @ + 1] IN
             d \in Confirmations /\ d.failed = c.failed + 1 /\ d.pin = c.pin
  BY <1>1, <1>4 DEF Confirmations
<1> QED BY <1>2, <1>3, <1>4

(* Another confirmation with the same PIN, and maybe no typed PIN. *)
LEMMA Recounted ==
  ASSUME NEW w, WinType(w), NEW c \in Confirmations, w.confirm \in Confirmations,
         c.pin = w.confirm.pin
  PROVE  /\ LET v == [w EXCEPT !.confirm = c] IN Trims(w, v) /\ v.confirm = c
         /\ LET v == [w EXCEPT !.pin = None, !.confirm = c] IN Trims(w, v) /\ v.confirm = c
<1>a. w \in Windows /\ w.deleting \in {None, w.page} /\ (w.pinShown => HasPin(w)) /\ c # None
      /\ w.confirm # None
  BY CountFacts DEF WinType
<1>1. LET v == [w EXCEPT !.confirm = c] IN Trims(w, v) /\ v.confirm = c
  <2> DEFINE v == [w EXCEPT !.confirm = c]
  <2>1. v \in Windows /\ v.confirm = c
    BY <1>a DEF Windows
  <2>2. Core(w, v)
    BY <1>a, <2>1 DEF Core, Windows, HasPin
  <2>3. Trims(w, v)
    BY <1>a, <2>2 DEF Trims, Windows
  <2> QED BY <2>1, <2>3
<1>2. LET v == [w EXCEPT !.pin = None, !.confirm = c] IN Trims(w, v) /\ v.confirm = c
  <2> DEFINE v == [w EXCEPT !.pin = None, !.confirm = c]
  <2>1. v \in Windows /\ v.confirm = c
    BY <1>a DEF Windows
  <2>2. Core(w, v)
    BY <1>a, <2>1 DEF Core, Windows, HasPin
  <2>3. Trims(w, v)
    BY <1>a, <2>2 DEF Trims, Windows
  <2> QED BY <2>1, <2>3
<1> QED BY <1>1, <1>2

(* verify_pin and record_touch_id_success. *)
LEMMA Counts ==
  ASSUME NEW w, WinType(w)
  PROVE  /\ HasPin(w) =>
              LET v == PinAccepted(w) IN
              Trims(w, v) /\ v.confirm # None /\ v.confirm.failed = 0
         /\ LET v == TouchRecorded(w) IN
            Trims(w, v) /\ (v.confirm # None => v.confirm.failed = 0)
         /\ HasPin(w) /\ PinsLeft(w) =>
              LET v == [w EXCEPT !.pin = None, !.confirm.failed = @ + 1] IN
              Trims(w, v) /\ v.confirm # None /\ v.confirm.failed = w.confirm.failed + 1
<1> DEFINE c == w.confirm
           z == [c EXCEPT !.failed = 0]
           n == [c EXCEPT !.failed = @ + 1]
<1>1. w \in Windows /\ (c # None => c \in Confirmations)
  BY DEF WinType, Windows
<1>2. PinAccepted(w) = [w EXCEPT !.pin = None, !.confirm = z]
  BY <1>1 DEF PinAccepted, Windows
<1>3. c # None => TouchRecorded(w) = [w EXCEPT !.confirm = z]
  BY <1>1 DEF TouchRecorded, Windows
<1>4. [w EXCEPT !.pin = None, !.confirm.failed = @ + 1] = [w EXCEPT !.pin = None, !.confirm = n]
  BY <1>1 DEF Windows
<1>5. c # None => z \in Confirmations /\ z # None /\ z.failed = 0 /\ z.pin = c.pin
  BY <1>1, CountFacts
<1>6. HasPin(w) /\ PinsLeft(w) => n \in Confirmations /\ n # None /\ n.failed = c.failed + 1 /\ n.pin = c.pin
  BY <1>1, CountFacts DEF HasPin, PinsLeft
<1>7. HasPin(w) => c # None
  BY DEF HasPin
<1> HIDE DEF z, n
<1>8. c # None => /\ LET v == [w EXCEPT !.confirm = z] IN Trims(w, v) /\ v.confirm = z
                  /\ LET v == [w EXCEPT !.pin = None, !.confirm = z] IN Trims(w, v) /\ v.confirm = z
  BY <1>1, <1>5, Recounted
<1>9. HasPin(w) /\ PinsLeft(w) =>
        LET v == [w EXCEPT !.pin = None, !.confirm = n] IN Trims(w, v) /\ v.confirm = n
  BY <1>1, <1>6, <1>7, Recounted
<1>10. HasPin(w) => LET v == PinAccepted(w) IN
                    Trims(w, v) /\ v.confirm # None /\ v.confirm.failed = 0
  BY <1>2, <1>5, <1>7, <1>8
<1>11. LET v == TouchRecorded(w) IN Trims(w, v) /\ (v.confirm # None => v.confirm.failed = 0)
  <2>1. CASE c = None
    BY <2>1, Drops DEF TouchRecorded
  <2>2. CASE c # None
    BY <2>2, <1>3, <1>5, <1>8
  <2> QED BY <2>1, <2>2
<1>12. HasPin(w) /\ PinsLeft(w) =>
        LET v == [w EXCEPT !.pin = None, !.confirm.failed = @ + 1] IN
        Trims(w, v) /\ v.confirm # None /\ v.confirm.failed = w.confirm.failed + 1
  BY <1>4, <1>6, <1>9
<1> QED BY <1>10, <1>11, <1>12

(* A change that asks for the prompt p. *)
Adds(w, v, p) ==
  /\ Core(w, v) /\ v.confirm = w.confirm
  /\ v.draft = w.draft /\ v.unattended = w.unattended /\ v.confirming = w.confirming
  /\ v.touch # None => v.touch = w.touch \/ v.touch.target = p
  /\ v.pin # None => v.pin = w.pin \/ v.pin.at = p

(* The sensor is asked, or a PIN is typed. *)
LEMMA Asks ==
  ASSUME NEW w, WinType(w), NEW p \in Prompts, NEW right \in BOOLEAN
  PROVE  Adds(w, TouchAsked(w, p), p) /\ Adds(w, TypedPin(w, p, right), p)
<1>a. w \in Windows /\ w.deleting \in {None, w.page} /\ (w.pinShown => HasPin(w))
  BY DEF WinType
<1>1. Adds(w, TouchAsked(w, p), p)
  <2> DEFINE t == [target |-> p, result |-> "waiting"]
             v == [w EXCEPT !.touch = t]
  <2>1. t \in Touches /\ t.target = p
    BY DEF Touches
  <2> HIDE DEF t
  <2>2. v \in Windows /\ v.touch = t
    BY <1>a, <2>1 DEF Windows
  <2>3. Core(w, v)
    BY <1>a, <2>2 DEF Core, Windows, HasPin
  <2>4. Adds(w, v, p)
    BY <1>a, <2>1, <2>2, <2>3 DEF Adds, Windows
  <2> QED BY <2>4 DEF TouchAsked, t
<1>2. Adds(w, TypedPin(w, p, right), p)
  <2>1. CASE w.pin # None
    BY <2>1, <1>a DEF TypedPin, Adds, Core
  <2>2. CASE w.pin = None
    <3> DEFINE t == [at |-> p, right |-> right]
               v == [w EXCEPT !.pin = t]
    <3>1. t \in Pins /\ t.at = p
      BY DEF Pins
    <3> HIDE DEF t
    <3>2. v \in Windows /\ v.pin = t
      BY <1>a, <3>1 DEF Windows
    <3>3. Core(w, v)
      BY <1>a, <3>2 DEF Core, Windows, HasPin
    <3>4. Adds(w, v, p)
      BY <1>a, <3>1, <3>2, <3>3 DEF Adds, Windows
    <3> QED BY <2>2, <3>4 DEF TypedPin, t
  <2> QED BY <2>1, <2>2
<1> QED BY <1>1, <1>2

(* A prompt is asked in an open window, or it is the prompt of a locked one. *)
LEMMA AddKeeps ==
  ASSUME NEW w, NEW v, NEW s, NEW p, WinInv(w, s), Adds(w, v, p), w.phase,
         w.lock = Active \/ p.kind = "app"
  PROVE  WinInv(v, s)
<1>1. LockedPart(v)
  BY DEF Adds, Core, WinInv, LockedPart, Empty
<1>2. QuietPart(v)
  BY DEF Adds, Core, QuietPart
<1> QED BY <1>1, <1>2, CoreKeeps DEF Adds

(* synchronize_phase: the window follows the vault. *)
LEMMA Follows ==
  ASSUME NEW w, NEW s, WinInv(w, s), NEW u \in BOOLEAN
  PROVE  LET v == Synchronized(w, u) IN
         /\ WinInv(v, s) /\ v.phase = u /\ v.lock \in {w.lock, Active}
         /\ u => /\ v.confirm = w.confirm /\ v.lock = w.lock /\ v.mode = w.mode
                 /\ v.discarding = w.discarding
         /\ v.discarding => w.discarding /\ v.mode = w.mode
<1>1. w \in Windows /\ WinType(w)
  BY DEF WinInv, WinType
<1>2. CASE w.phase /\ ~ u
  <2>1. Synchronized(w, u) = [ClearedState(w) EXCEPT !.phase = FALSE]
    BY <1>2 DEF Synchronized
  <2> DEFINE c == ClearedState(w)
  <2>2. c \in Windows /\ c.lock = Active /\ ~ c.discarding
    BY <1>1, ClearedStateFacts
  <2> HIDE DEF c
  <2>3. LET v == [c EXCEPT !.phase = FALSE] IN v.phase = FALSE /\ v.lock = Active /\ ~ v.discarding
    BY <2>2 DEF Windows
  <2> QED BY <1>1, <1>2, <2>1, <2>3, ClearedKeeps DEF c
<1>3. CASE ~ (w.phase /\ ~ u)
  <2> DEFINE v == [w EXCEPT !.phase = u]
  <2>1. Synchronized(w, u) = v
    BY <1>3 DEF Synchronized
  <2>2. v \in Windows /\ v.phase = u
    BY <1>1 DEF Windows
  <2>3. /\ v.lock = w.lock /\ v.attempt = w.attempt /\ v.confirm = w.confirm /\ v.touch = w.touch
        /\ v.pin = w.pin /\ v.pinShown = w.pinShown /\ v.page = w.page /\ v.sel = w.sel
        /\ v.authorized = w.authorized /\ v.mode = w.mode /\ v.nav = w.nav
        /\ v.confirming = w.confirming /\ v.discarding = w.discarding /\ v.deleting = w.deleting
        /\ v.unattended = w.unattended /\ v.draft = w.draft
    BY <1>1 DEF Windows
  <2> HIDE DEF v
  <2>4. WinType(v)
    BY <2>2, <2>3 DEF WinInv, WinType, HasPin
  <2>5. LockedPart(v)
    BY <2>3 DEF WinInv, LockedPart, Empty
  <2>6. QuietPart(v)
    BY <1>1, <1>3, <2>2, <2>3 DEF WinInv, QuietPart, Quiet, Empty, Windows
  <2>7. ValuePart(v, s)
    BY <2>3 DEF WinInv, ValuePart
  <2> QED BY <2>1, <2>2, <2>3, <2>4, <2>5, <2>6, <2>7 DEF WinInv
<1> QED BY <1>2, <1>3

(* The same for the handlers that resynchronize, and reject_stale_authentication. *)
LEMMA Rejects ==
  ASSUME NEW w, WinInv(w, session)
  PROVE  /\ LET v == Resynchronized(w) IN
            /\ WinInv(v, session) /\ (v.phase <=> session # None) /\ v.lock \in {w.lock, Active}
            /\ session # None => /\ v.confirm = w.confirm /\ v.lock = w.lock /\ v.mode = w.mode
                                 /\ v.discarding = w.discarding
         /\ LET v == RejectStale(w) IN
            /\ WinInv(v, session) /\ (v.phase <=> session # None) /\ v.lock \in {w.lock, Active}
            /\ session # None => v.confirm = w.confirm /\ v.lock = w.lock
            /\ v.discarding => w.discarding
<1> DEFINE Kept(x, v) == /\ WinInv(v, session) /\ (v.phase <=> session # None)
                         /\ v.lock \in {x.lock, Active}
                         /\ session # None => /\ v.confirm = x.confirm /\ v.lock = x.lock
                                              /\ v.mode = x.mode /\ v.discarding = x.discarding
                         /\ v.discarding => x.discarding
<1>1. ASSUME NEW x, WinInv(x, session)
      PROVE  Kept(x, Resynchronized(x))
  <2>1. (session # None) \in BOOLEAN
    OBVIOUS
  <2> QED BY <1>1, <2>1, Follows DEF Resynchronized
<1>2. Kept(w, Resynchronized(w))
  BY <1>1
<1> DEFINE x == [w EXCEPT !.touch = None]
           y == Resynchronized(x)
           z == [y EXCEPT !.confirming = FALSE, !.pin = None]
<1>3. WinType(w)
  BY DEF WinInv
<1>4. Trims(w, x) /\ x.confirm = w.confirm
  BY <1>3, Drops
<1>5. WinInv(x, session)
  BY <1>4, TrimKeeps
<1>6. Kept(x, y)
  BY <1>1, <1>5
<1> HIDE DEF x, y
<1>7. WinType(y)
  BY <1>6 DEF WinInv
<1>8. Trims(y, z) /\ z.confirm = y.confirm
  BY <1>7, Drops
<1>9. WinInv(z, session)
  BY <1>6, <1>8, TrimKeeps
<1>10. z.phase = y.phase /\ z.lock = y.lock /\ z.discarding = y.discarding
  BY <1>8 DEF Trims, Core
<1>11. x.lock = w.lock /\ x.discarding = w.discarding
  BY <1>4 DEF Trims, Core
<1>12. RejectStale(w) = z
  BY DEF RejectStale, x, y
<1> HIDE DEF z
<1>13. /\ WinInv(z, session) /\ (z.phase <=> session # None) /\ z.lock \in {w.lock, Active}
       /\ session # None => z.confirm = w.confirm /\ z.lock = w.lock
       /\ z.discarding => w.discarding
  BY <1>4, <1>6, <1>8, <1>9, <1>10, <1>11
<1> QED BY <1>2, <1>12, <1>13

(* update_focused_approval and cancel_stale_approval_touch_id. *)
LEMMA Refocuses ==
  ASSUME NEW w, WinType(w), NEW p, NEW r \in Requests \cup {None}
  PROVE  LET v == Focused(StaleTouchDropped(w, p), r) IN Trims(w, v) /\ v.confirm = w.confirm
<1> DEFINE u == StaleTouchDropped(w, p)
           v == Focused(u, r)
<1>1. Trims(w, u) /\ u.confirm = w.confirm
  BY Drops DEF StaleTouchDropped
<1>2. WinType(u)
  BY <1>1 DEF Trims, Core, WinType
<1> HIDE DEF u
<1>3. Trims(u, v) /\ v.confirm = u.confirm
  BY <1>2, Drops DEF Focused
<1> HIDE DEF v
<1>4. Trims(w, v) /\ v.confirm = w.confirm
  BY <1>1, <1>3, TrimTwice
<1> QED BY <1>4 DEF u, v

(* A trimmed window has the types of one. *)
LEMMA TrimTyped ==
  ASSUME NEW w, WinType(w), NEW v, Trims(w, v)
  PROVE  WinType(v)
  BY DEF Trims, Core, WinType

(* begin_unattended_confirmation *)
LEMMA BeginsUnattended ==
  ASSUME NEW w, WinType(w), session \in Sessions \cup {None}
  PROVE  LET v == BeginUnattended(w) IN Core(w, v) /\ v.confirm = w.confirm
<1>a. w \in Windows /\ w.deleting \in {None, w.page} /\ (w.pinShown => HasPin(w))
  BY DEF WinType
<1> DEFINE v == [w EXCEPT !.pin = None, !.unattended = session]
<1>1. v \in Windows
  BY <1>a DEF Windows
<1>2. v.confirm = w.confirm
  BY <1>a DEF Windows
<1>3. Core(w, v)
  BY <1>a, <1>1 DEF Core, Windows, HasPin
<1>4. Core(w, w)
  BY <1>a DEF Core
<1> QED BY <1>2, <1>3, <1>4 DEF BeginUnattended

-----------------------------------------------------------------------------
(* Changes of the page, the value and the lock.                            *)

(* The window after a navigation: nothing of the page before is left. *)
Turned(w, v) ==
  /\ v \in Windows
  /\ v.mode = "hidden" /\ v.authorized = None /\ v.nav = None /\ ~ v.discarding
  /\ ~ v.confirming /\ v.deleting = None /\ v.touch = None /\ v.pin = None
  /\ v.lock = w.lock /\ v.attempt = w.attempt /\ v.phase = w.phase /\ v.confirm = w.confirm
  /\ v.pinShown = w.pinShown /\ v.draft = w.draft /\ v.unattended = w.unattended

(* navigate_now, with what finishes a navigation or a deletion. *)
LEMMA Navigates ==
  ASSUME NEW w, WinType(w), NEW page \in Pages
  PROVE  /\ Turned(w, Applied(NavigatedNow(w, page)))
         /\ ~ w.discarding =>
              Turned(w, [NavigatedNow(w, page) EXCEPT !.deleting = None, !.touch = None,
                                                      !.confirming = FALSE, !.pin = None])
<1> DEFINE u == NavigatedNow(w, page)
           v == Applied(u)
           z == [u EXCEPT !.deleting = None, !.touch = None, !.confirming = FALSE, !.pin = None]
<1>1. w \in Windows /\ NextSel(w) \in 0 .. SelectionWidth - 1
  BY NextSelType DEF WinType
<1>2. u \in Windows
  BY <1>1 DEF NavigatedNow, Windows
<1>3. /\ u.mode = "hidden" /\ u.authorized = None /\ u.nav = None
      /\ u.discarding = w.discarding
      /\ u.lock = w.lock /\ u.attempt = w.attempt /\ u.phase = w.phase /\ u.confirm = w.confirm
      /\ u.pinShown = w.pinShown /\ u.draft = w.draft /\ u.unattended = w.unattended
  BY <1>1 DEF NavigatedNow, Windows
<1> HIDE DEF u
<1>4. v \in Windows
  BY <1>2 DEF Applied, Windows
<1>5. z \in Windows
  BY <1>2 DEF Windows
<1>6. Turned(w, v)
  BY <1>2, <1>3, <1>4 DEF Turned, Applied, Windows
<1>7. ~ w.discarding => Turned(w, z)
  BY <1>2, <1>3, <1>5 DEF Turned, Windows
<1> QED BY <1>6, <1>7 DEF u

(* Turning the page keeps the invariant. *)
LEMMA TurnedKeeps ==
  ASSUME NEW w, NEW v, NEW s, WinInv(w, s), Turned(w, v)
  PROVE  WinInv(v, s)
<1>1. WinType(v)
  BY DEF WinInv, WinType, Turned, HasPin
<1>2. LockedPart(v) /\ QuietPart(v)
  BY DEF WinInv, LockedPart, QuietPart, Quiet, Empty, Turned
<1> QED BY <1>1, <1>2 DEF WinInv, ValuePart, Turned

(* request_navigation asks before it discards; the close request does too. *)
LEMMA Waits ==
  ASSUME NEW w, NEW s, WinInv(w, s), Open(w), w.mode = "dirty", NEW page \in Pages
  PROVE  LET v == [w EXCEPT !.nav = page, !.discarding = TRUE] IN
         WinInv(v, s) /\ Open(v) /\ v.confirm = w.confirm /\ v.discarding /\ v.mode = "dirty"
<1> DEFINE v == [w EXCEPT !.nav = page, !.discarding = TRUE]
<1>1. w \in Windows /\ page # None
  BY DesktopAssumption DEF WinInv, WinType, Pages
<1>2. v \in Windows
  BY <1>1 DEF Windows
<1>3. /\ v.nav = page /\ v.discarding = TRUE /\ v.lock = w.lock /\ v.attempt = w.attempt
      /\ v.phase = w.phase /\ v.confirm = w.confirm /\ v.pinShown = w.pinShown
      /\ v.page = w.page /\ v.sel = w.sel /\ v.authorized = w.authorized /\ v.mode = w.mode
      /\ v.deleting = w.deleting
  BY <1>1 DEF Windows
<1> HIDE DEF v
<1>4. WinType(v)
  BY <1>1, <1>2, <1>3 DEF WinInv, WinType, HasPin
<1>5. Open(v)
  BY <1>3 DEF Open
<1>6. LockedPart(v) /\ QuietPart(v) /\ ValuePart(v, s)
  BY <1>3, <1>5 DEF WinInv, LockedPart, QuietPart, ValuePart, Open
<1> QED BY <1>3, <1>4, <1>5, <1>6 DEF WinInv, v

(* A discard that is refused. *)
LEMMA Resumes ==
  ASSUME NEW w, NEW s, WinInv(w, s), Open(w)
  PROVE  LET v == [w EXCEPT !.nav = None, !.discarding = FALSE] IN
         WinInv(v, s) /\ Open(v) /\ v.confirm = w.confirm /\ ~ v.discarding
<1> DEFINE v == [w EXCEPT !.nav = None, !.discarding = FALSE]
<1>1. w \in Windows
  BY DEF WinInv, WinType
<1>2. v \in Windows
  BY <1>1 DEF Windows
<1>3. /\ v.nav = None /\ v.discarding = FALSE /\ v.lock = w.lock /\ v.attempt = w.attempt
      /\ v.phase = w.phase /\ v.confirm = w.confirm /\ v.pinShown = w.pinShown
      /\ v.page = w.page /\ v.sel = w.sel /\ v.authorized = w.authorized /\ v.mode = w.mode
      /\ v.deleting = w.deleting
  BY <1>1 DEF Windows
<1> HIDE DEF v
<1>4. WinType(v)
  BY <1>1, <1>2, <1>3 DEF WinInv, WinType, HasPin
<1>5. Open(v)
  BY <1>3 DEF Open
<1>6. LockedPart(v) /\ QuietPart(v) /\ ValuePart(v, s)
  BY <1>3, <1>5 DEF WinInv, LockedPart, QuietPart, ValuePart, Open
<1> QED BY <1>3, <1>4, <1>5, <1>6 DEF WinInv, v

(* handle_detail_action opens a value only where it is authorized. *)
LEMMA Details ==
  ASSUME NEW w, WinInv(w, session), Open(w), w.confirm # None, Authorized(w),
         NEW m \in {"hidden", "revealed", "editing", "dirty"}
  PROVE  LET v == [w EXCEPT !.mode = m] IN WinInv(v, session) /\ Open(v) /\ v.confirm = w.confirm
<1> DEFINE v == [w EXCEPT !.mode = m]
<1>1. w \in Windows
  BY DEF WinInv, WinType
<1>2. v \in Windows
  BY <1>1 DEF Windows
<1>3. /\ v.nav = w.nav /\ v.discarding = w.discarding /\ v.lock = w.lock /\ v.attempt = w.attempt
      /\ v.phase = w.phase /\ v.confirm = w.confirm /\ v.pinShown = w.pinShown
      /\ v.page = w.page /\ v.sel = w.sel /\ v.authorized = w.authorized
      /\ v.deleting = w.deleting
  BY <1>1 DEF Windows
<1> HIDE DEF v
<1>4. WinType(v)
  BY <1>1, <1>2, <1>3 DEF WinInv, WinType, HasPin
<1>5. Open(v)
  BY <1>3 DEF Open
<1>6. LockedPart(v) /\ QuietPart(v)
  BY <1>5 DEF LockedPart, QuietPart, Open
<1>7. v.authorized = SecretPrompt(session, v.page, v.sel)
  BY <1>3 DEF Authorized, Attempt
<1>8. v.authorized.session = session
  BY <1>7 DEF SecretPrompt
<1>9. ValuePart(v, session)
  BY <1>7, <1>8 DEF ValuePart
<1> QED BY <1>3, <1>4, <1>5, <1>6, <1>9 DEF WinInv, v

(* The draft, the question for a secret, the deletion and a new way to confirm. *)
LEMMA Edits ==
  ASSUME NEW w, WinType(w)
  PROVE  /\ \A b \in BOOLEAN : LET v == [w EXCEPT !.draft = b] IN Core(w, v) /\ v.confirm = w.confirm
         /\ LET v == [w EXCEPT !.confirming = TRUE, !.pin = None] IN Core(w, v) /\ v.confirm = w.confirm
         /\ \A d \in {None, w.page} : LET v == [w EXCEPT !.deleting = d] IN
              Core(w, v) /\ v.confirm = w.confirm /\ (d = None => Trims(w, v))
         /\ \A c \in Confirmations : w.confirm = None =>
              LET v == [w EXCEPT !.confirm = c] IN Core(w, v) /\ v.confirm = c
<1>a. w \in Windows /\ w.deleting \in {None, w.page} /\ (w.pinShown => HasPin(w))
  BY DEF WinType
<1>1. ASSUME NEW b \in BOOLEAN
      PROVE  LET v == [w EXCEPT !.draft = b] IN Core(w, v) /\ v.confirm = w.confirm
  <2> DEFINE v == [w EXCEPT !.draft = b]
  <2>1. v \in Windows /\ v.confirm = w.confirm
    BY <1>a DEF Windows
  <2>2. Core(w, v)
    BY <1>a, <2>1 DEF Core, Windows, HasPin
  <2> QED BY <2>1, <2>2
<1>2. LET v == [w EXCEPT !.confirming = TRUE, !.pin = None] IN Core(w, v) /\ v.confirm = w.confirm
  <2> DEFINE v == [w EXCEPT !.confirming = TRUE, !.pin = None]
  <2>1. v \in Windows
    BY <1>a DEF Windows
  <2>2. v.confirm = w.confirm
    BY <1>a DEF Windows
  <2>3. Core(w, v)
    BY <1>a, <2>1 DEF Core, Windows, HasPin
  <2> QED BY <2>2, <2>3
<1>3. ASSUME NEW d \in {None, w.page}
      PROVE  LET v == [w EXCEPT !.deleting = d] IN
             Core(w, v) /\ v.confirm = w.confirm /\ (d = None => Trims(w, v))
  <2> DEFINE v == [w EXCEPT !.deleting = d]
  <2>1. v \in Windows /\ v.confirm = w.confirm
    BY <1>a DEF Windows
  <2>2. Core(w, v)
    BY <1>a, <2>1 DEF Core, Windows, HasPin
  <2>3. Trims(w, v)
    BY <1>a, <2>1, <2>2 DEF Trims, Windows
  <2> QED BY <2>1, <2>2, <2>3
<1>4. ASSUME NEW c \in Confirmations, w.confirm = None
      PROVE  LET v == [w EXCEPT !.confirm = c] IN Core(w, v) /\ v.confirm = c
  <2> DEFINE v == [w EXCEPT !.confirm = c]
  <2>1. v \in Windows /\ v.confirm = c /\ ~ w.pinShown
    BY <1>a, <1>4 DEF Windows, HasPin
  <2>2. Core(w, v)
    BY <1>a, <1>4, <2>1 DEF Core, Windows
  <2> QED BY <2>1, <2>2
<1> QED BY <1>1, <1>2, <1>3, <1>4

(* An authorization leaves a window. *)
LEMMA AuthorizedType ==
  ASSUME NEW u \in Windows, NEW p \in Attempts
  PROVE  [u EXCEPT !.authorized = p, !.confirming = FALSE, !.pin = None] \in Windows
  BY DEF Windows

(* finish_selected_touch_id: the authorization is for what is selected. *)
LEMMA Selects ==
  ASSUME NEW w, WinInv(w, session), Open(w), NEW p \in Attempts, p = Attempt(w, session)
  PROVE  LET v == [w EXCEPT !.authorized = p, !.confirming = FALSE, !.pin = None] IN
         WinInv(v, session) /\ Open(v) /\ v.confirm = w.confirm /\ v.discarding = w.discarding
         /\ v.mode = w.mode
<1> DEFINE v == [w EXCEPT !.authorized = p, !.confirming = FALSE, !.pin = None]
<1>1. w \in Windows
  BY DEF WinInv, WinType
<1>2. v \in Windows
  BY <1>1, AuthorizedType
<1>3. /\ v.nav = w.nav /\ v.discarding = w.discarding /\ v.lock = w.lock /\ v.attempt = w.attempt
      /\ v.phase = w.phase /\ v.confirm = w.confirm /\ v.pinShown = w.pinShown
      /\ v.page = w.page /\ v.sel = w.sel /\ v.authorized = p /\ v.mode = w.mode
      /\ v.deleting = w.deleting
  BY <1>1 DEF Windows
<1> HIDE DEF v
<1>4. WinType(v)
  BY <1>1, <1>2, <1>3 DEF WinInv, WinType, HasPin
<1>5. Open(v)
  BY <1>3 DEF Open
<1>6. LockedPart(v) /\ QuietPart(v)
  BY <1>5 DEF LockedPart, QuietPart, Open
<1>7. v.authorized = SecretPrompt(session, v.page, v.sel)
  BY <1>3 DEF Attempt
<1>8. v.authorized.session = session
  BY <1>7 DEF SecretPrompt
<1>9. ValuePart(v, session)
  BY <1>7, <1>8 DEF ValuePart
<1> QED BY <1>3, <1>4, <1>5, <1>6, <1>9 DEF WinInv, v

(* finish_app_unlock opens a locked window. *)
LEMMA Unlocks ==
  ASSUME NEW w, NEW s, WinInv(w, s), w.lock.state = "locked"
  PROVE  LET v == [w EXCEPT !.touch = None, !.pin = None, !.lock = Active, !.pinShown = FALSE] IN
         WinInv(v, s) /\ v.confirm = w.confirm /\ v.phase = w.phase /\ v.discarding = w.discarding
<1> DEFINE v == [w EXCEPT !.touch = None, !.pin = None, !.lock = Active, !.pinShown = FALSE]
<1>1. w \in Windows /\ Active \in LockStates /\ Active.state = "active"
  BY LockFacts DEF WinInv, WinType
<1>2. v \in Windows
  BY <1>1 DEF Windows
<1>3. /\ v.nav = w.nav /\ v.discarding = w.discarding /\ v.lock = Active /\ v.attempt = w.attempt
      /\ v.phase = w.phase /\ v.confirm = w.confirm /\ v.pinShown = FALSE
      /\ v.page = w.page /\ v.sel = w.sel /\ v.authorized = w.authorized /\ v.mode = w.mode
      /\ v.deleting = w.deleting /\ v.touch = None /\ v.pin = None /\ v.draft = w.draft
      /\ v.unattended = w.unattended /\ v.confirming = w.confirming
  BY <1>1 DEF Windows
<1> HIDE DEF v
<1>4. WinType(v)
  BY <1>1, <1>2, <1>3 DEF WinInv, WinType, HasPin
<1>5. LockedPart(v) /\ QuietPart(v) /\ ValuePart(v, s)
  BY <1>3 DEF WinInv, LockedPart, QuietPart, ValuePart, Quiet, Empty
<1> QED BY <1>3, <1>4, <1>5 DEF WinInv, v

(* process_app_lock_result: a locking window is locked. *)
LEMMA Locks ==
  ASSUME NEW w, NEW s, WinInv(w, s), w.attempt # None
  PROVE  LET v == [w EXCEPT !.lock = Locked(w.attempt), !.attempt = None] IN
         WinInv(v, s) /\ v.confirm = w.confirm /\ v.phase = w.phase /\ v.discarding = w.discarding
<1> DEFINE v == [w EXCEPT !.lock = Locked(w.attempt), !.attempt = None]
           l == Locked(w.attempt)
<1>1. w \in Windows /\ w.lock.state = "locking" /\ w.attempt = w.lock.epoch /\ w.lock \in LockStates
  BY DEF WinInv, WinType, Windows
<1>2. w.lock # Active /\ w.attempt \in LockEpochs
  BY <1>1, LockFacts
<1>3. l \in LockStates /\ l.state = "locked"
  BY <1>2, LockFacts
<1> HIDE DEF l
<1>4. v = [w EXCEPT !.lock = l, !.attempt = None]
  BY DEF l
<1>5. v \in Windows
  BY <1>1, <1>3, <1>4 DEF Windows
<1>6. /\ v.nav = w.nav /\ v.discarding = w.discarding /\ v.lock = l /\ v.attempt = None
      /\ v.phase = w.phase /\ v.confirm = w.confirm /\ v.pinShown = w.pinShown
      /\ v.page = w.page /\ v.sel = w.sel /\ v.authorized = w.authorized /\ v.mode = w.mode
      /\ v.deleting = w.deleting /\ v.touch = w.touch /\ v.pin = w.pin /\ v.draft = w.draft
      /\ v.unattended = w.unattended /\ v.confirming = w.confirming
  BY <1>1, <1>4 DEF Windows
<1> HIDE DEF v
<1>7. WinType(v)
  BY <1>3, <1>5, <1>6 DEF WinInv, WinType, HasPin
<1>8. LockedPart(v) /\ QuietPart(v) /\ ValuePart(v, s)
  BY <1>2, <1>6 DEF WinInv, LockedPart, QuietPart, ValuePart, Quiet, Empty
<1> QED BY <1>6, <1>7, <1>8 DEF WinInv, v

(* The sensor's answer leaves the prompt it was asked for. *)
LEMMA Answered ==
  ASSUME NEW w, WinType(w), w.touch # None, NEW r \in {"waiting", "ok", "failed"}
  PROVE  LET v == [w EXCEPT !.touch.result = r] IN Trims(w, v) /\ v.confirm = w.confirm
<1> DEFINE t == [w.touch EXCEPT !.result = r]
           v == [w EXCEPT !.touch = t]
<1>a. w \in Windows /\ w.deleting \in {None, w.page} /\ (w.pinShown => HasPin(w))
      /\ w.touch \in Touches
  BY DEF WinType, Windows
<1>1. t \in Touches /\ t.target = w.touch.target
  BY <1>a DEF Touches
<1>2. [w EXCEPT !.touch.result = r] = v
  BY <1>a DEF Windows
<1> HIDE DEF t
<1>3. v \in Windows /\ v.touch = t /\ v.confirm = w.confirm
  BY <1>a, <1>1 DEF Windows
<1>4. Core(w, v)
  BY <1>a, <1>3 DEF Core, Windows, HasPin
<1>5. Trims(w, v)
  BY <1>a, <1>1, <1>3, <1>4 DEF Trims, Windows
<1> QED BY <1>2, <1>3, <1>5

-----------------------------------------------------------------------------
(* The invariant.                                                          *)

(* The modals, and a frame as a record. *)
Modals == {"none", "secret", "discard", "approval", "unattended"}
Frames == [at : Steps, seen : BOOLEAN, top : Modals, next : Modals]

(* The variables other than the window have their types. *)
OuterType ==
  /\ session \in Sessions \cup {None} /\ stored \subseteq Secrets
  /\ app \in LockStates /\ locker \in [epoch : LockEpochs, done : BOOLEAN] \cup {None}
  /\ ext \in {"none", "requested", "ready"}
  /\ pend \in [request : Requests, session : Sessions] \cup {None}
  /\ granted \in Sessions \cup {None} /\ wrong \in 0 .. MaxFailedPins
  /\ approved \in Prompts \cup {None} /\ frame \in Frames

(* What a frame has learnt by the step it is at.  The phase it read is the *)
(* window's until a page is drawn, and the modals are reached by an open   *)
(* window only.  A discard that waits in an open vault is drawn, so that   *)
(* no page takes a click behind it, but for the frame that a close request *)
(* began it in, where the value is still being edited.                     *)
FrameInv(f, w, s) ==
  /\ f.at = "show" => (f.seen <=> w.phase)
  /\ f.at = "modals" /\ s # None => w.phase
  /\ f.at = "approval" => w.phase
  /\ f.at \in {"approval", "unattended"} => w.lock = Active
  /\ w.discarding /\ s # None =>
       /\ f.at \in {"begin", "approval", "unattended"} => f.next # "none"
       /\ f.at \in {"external", "idle", "applock", "touch", "sync"} => f.top # "none"
       /\ f.at = "show" => f.top # "none" \/ w.mode = "dirty"

(* In an open vault no more PINs were wrong than the confirmation counts,  *)
(* unless a client's lock is closing it.  A session that is opened before  *)
(* the window has seen such a lock has not been used yet.                  *)
WrongInv(s, x, n, c, at) ==
  s # None =>
    \/ x = "requested"
    \/ x = "ready" /\ n = 0 /\ at \in {"begin", "external"}
    \/ x = "none" /\ (IF c = None THEN n = 0 ELSE n <= c.failed)

(* The invariant of the whole. *)
DeskInv ==
  /\ OuterType /\ WinInv(win, session) /\ FrameInv(frame, win, session)
  /\ WrongInv(session, ext, wrong, win.confirm, frame.at)

-----------------------------------------------------------------------------
(* The steps of a frame.                                                   *)

(* What Goes and Draws do. *)
LEMMA FrameFacts ==
  ASSUME frame \in Frames, NEW step \in Steps, NEW m \in Modals
  PROVE  /\ Goes(step) => /\ frame' \in Frames /\ frame'.at = step /\ frame'.seen = frame.seen
                          /\ frame'.top = frame.top /\ frame'.next = frame.next
         /\ Draws(m, step) => frame' \in Frames /\ frame'.at = step /\ frame'.next = m
  BY DEF Frames, Goes, Draws

(* A window with the same phase, an equal or opened lock and no new discard *)
(* is at the same point of the frame.                                      *)
LEMMA FrameSame ==
  ASSUME NEW f, NEW w, NEW v, NEW s, FrameInv(f, w, s), v.phase = w.phase,
         v.lock \in {w.lock, Active}, v.discarding => w.discarding /\ v.mode = w.mode
  PROVE  FrameInv(f, v, s)
  BY DEF FrameInv

(* From one handler to the next, for the window as it is. *)
LEMMA FrameMoves ==
  ASSUME DeskInv
  PROVE  /\ \A step \in {"idle", "applock", "touch", "sync"} :
              frame.at \in {"external", "idle", "applock", "touch"} /\ Goes(step)
                => FrameInv(frame', win, session) /\ frame' \in Frames /\ frame'.at = step
         /\ frame.at = "show" /\ frame.seen /\ Goes("modals")
              => FrameInv(frame', win, session) /\ frame' \in Frames /\ frame'.at = "modals"
         /\ frame.at = "show" /\ ~ win.discarding /\ Goes("begin")
              => FrameInv(frame', win, session) /\ frame' \in Frames /\ frame'.at = "begin"
         /\ Allowed /\ (Draws("secret", "approval") \/ Draws("discard", "approval")
                         \/ (~ win.discarding /\ Goes("approval")))
              => FrameInv(frame', win, session) /\ frame' \in Frames /\ frame'.at = "approval"
         /\ frame.at = "approval" /\ (Goes("unattended") \/ Draws("approval", "unattended"))
              => FrameInv(frame', win, session) /\ frame' \in Frames /\ frame'.at = "unattended"
         /\ frame.at = "unattended" /\ (Goes("begin") \/ Draws("unattended", "begin"))
              => FrameInv(frame', win, session) /\ frame' \in Frames /\ frame'.at = "begin"
<1>1. frame \in Frames /\ FrameInv(frame, win, session)
  BY DEF DeskInv, OuterType
<1>2. /\ {"idle", "applock", "touch", "sync", "modals", "begin", "approval", "unattended"} \subseteq Steps
      /\ {"secret", "discard", "approval", "unattended"} \subseteq Modals
  BY DEF Steps, Modals
<1>3. ASSUME NEW step \in {"idle", "applock", "touch", "sync"},
             frame.at \in {"external", "idle", "applock", "touch"}, Goes(step)
      PROVE  FrameInv(frame', win, session) /\ frame' \in Frames /\ frame'.at = step
  <2>1. frame' \in Frames /\ frame'.at = step /\ frame'.top = frame.top
    BY <1>1, <1>2, <1>3, FrameFacts
  <2> QED BY <1>1, <1>3, <2>1 DEF FrameInv
<1>4. ASSUME frame.at = "show", frame.seen, Goes("modals")
      PROVE  FrameInv(frame', win, session) /\ frame' \in Frames /\ frame'.at = "modals"
  <2>1. frame' \in Frames /\ frame'.at = "modals"
    BY <1>1, <1>2, <1>4, FrameFacts
  <2> QED BY <1>1, <1>4, <2>1 DEF FrameInv
<1>5. ASSUME frame.at = "show", ~ win.discarding, Goes("begin")
      PROVE  FrameInv(frame', win, session) /\ frame' \in Frames /\ frame'.at = "begin"
  <2>1. frame' \in Frames /\ frame'.at = "begin"
    BY <1>1, <1>2, <1>5, FrameFacts
  <2> QED BY <1>1, <1>5, <2>1 DEF FrameInv
<1>6. ASSUME Allowed, Draws("secret", "approval") \/ Draws("discard", "approval")
                        \/ (~ win.discarding /\ Goes("approval"))
      PROVE  FrameInv(frame', win, session) /\ frame' \in Frames /\ frame'.at = "approval"
  <2>1. /\ frame' \in Frames /\ frame'.at = "approval"
        /\ win.discarding => frame'.next # "none"
    BY <1>1, <1>2, <1>6, FrameFacts
  <2> QED BY <1>1, <1>6, <2>1 DEF FrameInv, Allowed
<1>7. ASSUME frame.at = "approval", Goes("unattended") \/ Draws("approval", "unattended")
      PROVE  FrameInv(frame', win, session) /\ frame' \in Frames /\ frame'.at = "unattended"
  <2>1. frame' \in Frames /\ frame'.at = "unattended" /\ frame'.next \in {frame.next, "approval"}
    BY <1>1, <1>2, <1>7, FrameFacts
  <2> QED BY <1>1, <1>7, <2>1 DEF FrameInv
<1>8. ASSUME frame.at = "unattended", Goes("begin") \/ Draws("unattended", "begin")
      PROVE  FrameInv(frame', win, session) /\ frame' \in Frames /\ frame'.at = "begin"
  <2>1. frame' \in Frames /\ frame'.at = "begin" /\ frame'.next \in {frame.next, "unattended"}
    BY <1>1, <1>2, <1>8, FrameFacts
  <2> QED BY <1>1, <1>8, <2>1 DEF FrameInv
<1> QED BY <1>3, <1>4, <1>5, <1>6, <1>7, <1>8

-----------------------------------------------------------------------------
(* What a handler may do to the count of wrong PINs: it leaves it and the  *)
(* confirmation, sets a confirmation up, resets both or counts in both.    *)
Counted(c, n, d, m) ==
  \/ m = n /\ d = c
  \/ m = n /\ c = None /\ d \in Confirmations
  \/ m = 0 /\ (d # None => d.failed = 0)
  \/ c # None /\ d # None /\ m <= n + 1 /\ d.failed = c.failed + 1

(* Such a handler keeps the relation of the two counts. *)
LEMMA CountedKeeps ==
  ASSUME NEW s, NEW x, NEW n \in Nat, NEW m \in Nat, NEW c \in Confirmations \cup {None},
         NEW d \in Confirmations \cup {None}, NEW at, NEW at2,
         WrongInv(s, x, n, c, at), at \notin {"begin", "external"},
         s # None => Counted(c, n, d, m)
  PROVE  WrongInv(s, x, m, d, at2)
<1>1. MaxFailedPins \in Nat \ {0}
  BY DesktopAssumption
<1>2. /\ c # None => c.failed \in Nat
      /\ d # None => d.failed \in Nat
  BY <1>1 DEF Confirmations
<1>3. CASE s = None
  BY <1>3 DEF WrongInv
<1>4. CASE s # None /\ x = "requested"
  BY <1>4 DEF WrongInv
<1>5. CASE s # None /\ x # "requested"
  <2>1. x = "none" /\ (IF c = None THEN n = 0 ELSE n <= c.failed)
    BY <1>5 DEF WrongInv
  <2>2. IF d = None THEN m = 0 ELSE m <= d.failed
    <3>1. CASE m = n /\ d = c
      BY <2>1, <3>1
    <3>2. CASE m = n /\ c = None /\ d \in Confirmations
      BY <1>2, <2>1, <3>2, CountFacts
    <3>3. CASE m = 0 /\ (d # None => d.failed = 0)
      BY <3>3
    <3>4. CASE c # None /\ d # None /\ m <= n + 1 /\ d.failed = c.failed + 1
      BY <1>2, <2>1, <3>4
    <3> QED BY <1>5, <3>1, <3>2, <3>3, <3>4 DEF Counted
  <2> QED BY <2>1, <2>2 DEF WrongInv
<1> QED BY <1>3, <1>4, <1>5

(* A handler that leaves the session and a client's lock alone. *)
LEMMA HandlerKeeps ==
  ASSUME DeskInv, frame.at \notin {"begin", "external"}, OuterType',
         UNCHANGED <<session, ext>>, WinInv(win', session), FrameInv(frame', win', session),
         session # None => Counted(win.confirm, wrong, win'.confirm, wrong')
  PROVE  DeskInv'
<1>1. wrong \in Nat /\ wrong' \in Nat
  BY DEF DeskInv, OuterType
<1>2. win.confirm \in Confirmations \cup {None} /\ win'.confirm \in Confirmations \cup {None}
  BY DEF DeskInv, WinInv, WinType, Windows
<1>3. WrongInv(session, ext, wrong', win'.confirm, frame'.at)
  BY <1>1, <1>2, CountedKeeps DEF DeskInv
<1> QED BY <1>3 DEF DeskInv

(* A handler that changes the window's fields only. *)
LEMMA OnlyKeeps ==
  ASSUME DeskInv, frame.at \notin {"begin", "external"}, NEW w, Only(w), frame' \in Frames,
         WinInv(w, session), FrameInv(frame', w, session),
         session # None => \/ w.confirm = win.confirm
                           \/ win.confirm = None /\ w.confirm \in Confirmations
  PROVE  DeskInv'
<1>1. OuterType'
  BY DEF DeskInv, OuterType, Only, broker
<1>2. win' = w /\ UNCHANGED <<session, ext, wrong>>
  BY DEF Only
<1>3. session # None => Counted(win.confirm, wrong, win'.confirm, wrong')
  BY <1>2 DEF Counted
<1> QED BY <1>1, <1>2, <1>3, HandlerKeeps

(* The same for a window that is trimmed, or changed while it is open, and *)
(* stays where it is.                                                      *)
LEMMA OnlyTrims ==
  ASSUME DeskInv, frame.at \notin {"begin", "external"}, NEW w, Only(w), frame' \in Frames,
         Trims(win, w), w.confirm = win.confirm, FrameInv(frame', win, session)
  PROVE  DeskInv'
<1>1. WinInv(w, session)
  BY TrimKeeps DEF DeskInv
<1>2. FrameInv(frame', w, session)
  BY FrameSame DEF Trims, Core
<1> QED BY <1>1, <1>2, OnlyKeeps

(* The second of these. *)
LEMMA OnlyCore ==
  ASSUME DeskInv, frame.at \notin {"begin", "external"}, NEW w, Only(w), frame' \in Frames,
         Core(win, w), Open(win), FrameInv(frame', win, session),
         \/ w.confirm = win.confirm
         \/ win.confirm = None /\ w.confirm \in Confirmations
  PROVE  DeskInv'
<1>1. WinInv(w, session)
  BY OpenKeeps DEF DeskInv
<1>2. FrameInv(frame', w, session)
  BY FrameSame DEF Core
<1> QED BY <1>1, <1>2, OnlyKeeps

(* lock_immediately, at any handler. *)
LEMMA LockNowKeeps ==
  ASSUME DeskInv, NEW w, WinType(w), w.phase = win.phase, LockImmediately(w), frame' \in Frames,
         wrong' \in 0 .. MaxFailedPins,
         \/ frame.at = "begin" /\ frame'.at = "external" /\ wrong' = wrong
         \/ frame.at \notin {"begin", "external"},
         frame'.at # "show", frame'.at \in {"modals", "approval"} => win.phase
  PROVE  DeskInv'
<1>1. OuterType'
  BY LockFacts DEF DeskInv, OuterType, LockImmediately
<1>2. WinInv(win', session') /\ win'.phase = win.phase /\ win'.lock = Active /\ ~ win'.discarding
  BY ClearedKeeps, ClearedStateFacts DEF LockImmediately, WinType
<1>3. FrameInv(frame', win', session')
  BY <1>2 DEF FrameInv
<1>4. WrongInv(session', ext', wrong', win'.confirm, frame'.at)
  BY DEF DeskInv, OuterType, WrongInv, LockImmediately
<1> QED BY <1>1, <1>2, <1>3, <1>4 DEF DeskInv

(* begin_interface_lock and lock_app. *)
LEMMA LockingStep ==
  ASSUME DeskInv, NEW auto \in BOOLEAN, BeginInterfaceLock(win, auto), wrong' = wrong, frame' \in Frames,
         \/ frame.at = "begin" /\ frame'.at = "external"
         \/ frame.at \notin {"begin", "external"} /\ frame'.at \in {"applock", "modals"},
         frame'.at = "modals" => win.phase
  PROVE  DeskInv'
<1>1. CASE LockImmediately(win)
  <2>1. WinType(win) /\ wrong' \in 0 .. MaxFailedPins
    BY DEF DeskInv, WinInv, OuterType
  <2> QED BY <1>1, <2>1, LockNowKeeps
<1>2. ASSUME NEW e \in LockEpochs, ext = "none",
             app' = Locking(e), locker' = [epoch |-> e, done |-> FALSE],
             pend' = None, granted' = IF auto THEN granted ELSE None,
             win' = [ClearedBuffers(win) EXCEPT !.lock = Locking(e), !.attempt = e],
             UNCHANGED <<session, stored, ext, approved>>
      PROVE  DeskInv'
  <2>1. OuterType'
    BY <1>2, LockFacts DEF DeskInv, OuterType
  <2>2. WinInv(win', session') /\ win'.phase = win.phase /\ win'.confirm = win.confirm
    BY <1>2, LockingKeeps DEF DeskInv, WinInv
  <2>3. ~ win'.discarding
    <3> DEFINE u == ClearedBuffers(win)
    <3>1. u \in Windows /\ ~ u.discarding
      BY ClearedBuffersFacts DEF DeskInv, WinInv, WinType
    <3> HIDE DEF u
    <3> QED BY <1>2, <3>1 DEF Windows, u
  <2>4. FrameInv(frame', win', session')
    BY <2>2, <2>3 DEF FrameInv
  <2>5. WrongInv(session', ext', wrong', win'.confirm, frame'.at)
    BY <1>2, <2>2 DEF DeskInv, WrongInv
  <2> QED BY <2>1, <2>2, <2>4, <2>5 DEF DeskInv
<1> QED BY <1>1, <1>2 DEF BeginInterfaceLock

(* lock_app, by the tray or by the button. *)
LEMMA LockAppStep ==
  ASSUME DeskInv, LockApp(win), wrong' = wrong, frame' \in Frames,
         \/ frame.at = "begin" /\ frame'.at = "external"
         \/ frame.at \notin {"begin", "external"} /\ frame'.at = "modals",
         frame'.at = "modals" => win.phase
  PROVE  DeskInv'
<1>1. CASE BeginInterfaceLock(win, FALSE)
  BY <1>1, LockingStep
<1>2. ASSUME win' = ClearedBuffers(win), granted' = None, pend' = None,
             UNCHANGED <<session, stored, app, locker, ext, approved>>
      PROVE  DeskInv'
  <2>1. OuterType'
    BY <1>2 DEF DeskInv, OuterType
  <2>2. WinInv(win', session')
    BY <1>2, ClearedKeeps DEF DeskInv, WinInv
  <2>3. win'.phase = win.phase /\ win'.confirm = win.confirm /\ ~ win'.discarding
    BY <1>2, ClearedBuffersFacts DEF DeskInv, WinInv, WinType
  <2>4. FrameInv(frame', win', session')
    BY <2>3 DEF FrameInv
  <2>5. WrongInv(session', ext', wrong', win'.confirm, frame'.at)
    BY <1>2, <2>3 DEF DeskInv, WrongInv
  <2> QED BY <2>1, <2>2, <2>4, <2>5 DEF DeskInv
<1> QED BY <1>1, <1>2 DEF LockApp

(* A wrong PIN is counted, and the last one locks. *)
LEMMA RejectedStep ==
  ASSUME DeskInv, frame.at \notin {"begin", "external"}, NEW w, Trims(win, w), w.confirm = win.confirm,
         HasPin(w), PinRejected(w), frame' \in Frames, FrameInv(frame', win, session),
         frame'.at # "show", frame'.at \in {"modals", "approval"} => win.phase
  PROVE  DeskInv'
<1>1. WinInv(w, session) /\ WinType(w) /\ w.phase = win.phase
  BY TrimKeeps DEF DeskInv, WinInv, Trims, Core
<1>2. wrong \in 0 .. MaxFailedPins /\ MaxFailedPins \in Nat
  BY DesktopAssumption DEF DeskInv, OuterType
<1>3. wrong' \in 0 .. MaxFailedPins /\ wrong' <= wrong + 1
  BY <1>2 DEF PinRejected
<1>4. CASE LockImmediately(w)
  BY <1>1, <1>3, <1>4, LockNowKeeps
<1>5. CASE ~ LockImmediately(w)
  <2> DEFINE v == [w EXCEPT !.pin = None, !.confirm.failed = @ + 1]
  <2>1. PinsLeft(w) /\ win' = v /\ UNCHANGED <<session, stored, broker, ext, approved>>
    BY <1>5 DEF PinRejected
  <2>2. Trims(w, v) /\ v.confirm # None /\ v.confirm.failed = w.confirm.failed + 1
    BY <1>1, <2>1, Counts
  <2> HIDE DEF v
  <2>3. WinInv(v, session) /\ FrameInv(frame', v, session)
    <3>1. Trims(win, v)
      BY <2>2, TrimTwice DEF DeskInv, WinInv
    <3> QED BY <3>1, TrimKeeps, FrameSame DEF DeskInv, Trims, Core
  <2>4. Counted(win.confirm, wrong, v.confirm, wrong')
    BY <1>3, <2>2 DEF Counted, HasPin
  <2>5. OuterType'
    BY <1>3, <2>1 DEF DeskInv, OuterType, broker
  <2> QED BY <2>1, <2>3, <2>4, <2>5, HandlerKeeps
<1> QED BY <1>4, <1>5

(* finish_app_unlock, with a confirmation that has just succeeded. *)
LEMMA UnlockedStep ==
  ASSUME DeskInv, frame.at \notin {"begin", "external"}, NEW w, Trims(win, w), w.lock.state = "locked",
         w.confirm # None => w.confirm.failed = 0, FinishAppUnlock(w), wrong' = 0,
         frame' \in Frames, frame'.at \in {"begin", "sync"}
  PROVE  DeskInv'
<1>1. WinInv(w, session) /\ WinType(w)
  BY TrimKeeps DEF DeskInv, WinInv
<1>2. ~ w.discarding
  <2>1. w.lock # Active
    BY LockFacts
  <2> QED BY <1>1, <2>1 DEF WinInv, LockedPart, Empty
<1>3. WinInv(win', session) /\ win'.confirm = w.confirm /\ ~ win'.discarding
  <2>1. CASE win' = [w EXCEPT !.touch = None, !.pin = None, !.lock = Active, !.pinShown = FALSE]
    BY <1>1, <1>2, <2>1, Unlocks
  <2>2. CASE win' = [w EXCEPT !.touch = None, !.pin = None]
    <3>1. Trims(w, win') /\ win'.confirm = w.confirm
      BY <1>1, <2>2, Drops
    <3>2. WinInv(win', session)
      BY <1>1, <3>1, TrimKeeps
    <3> QED BY <1>2, <3>1, <3>2 DEF Trims, Core
  <2> QED BY <2>1, <2>2 DEF FinishAppUnlock
<1>4. OuterType' /\ UNCHANGED <<session, ext>>
  BY LockFacts, DesktopAssumption DEF FinishAppUnlock, DeskInv, OuterType, broker
<1>5. FrameInv(frame', win', session)
  BY <1>3 DEF FrameInv
<1>6. Counted(win.confirm, wrong, win'.confirm, wrong')
  BY <1>3 DEF Counted
<1> QED BY <1>3, <1>4, <1>5, <1>6, HandlerKeeps

(* finish_authenticated_approval *)
LEMMA ApprovedStep ==
  ASSUME DeskInv, frame.at \notin {"begin", "external"}, NEW w, Trims(win, w), NEW p \in Prompts,
         w.confirm # None => w.confirm.failed = 0, FinishApproval(w, p), wrong' = 0,
         frame' \in Frames, FrameInv(frame', win, session)
  PROVE  DeskInv'
<1>1. WinType(w)
  BY TrimKeeps DEF DeskInv, WinInv
<1>2. Trims(w, win') /\ win'.confirm = w.confirm
  BY <1>1, Drops DEF FinishApproval
<1>3. Trims(win, win')
  BY <1>2, TrimTwice DEF DeskInv, WinInv
<1>4. WinInv(win', session) /\ FrameInv(frame', win', session)
  BY <1>3, TrimKeeps, FrameSame DEF DeskInv, Trims, Core
<1>5. OuterType' /\ UNCHANGED <<session, ext>>
  BY DesktopAssumption DEF FinishApproval, DeskInv, OuterType
<1>6. Counted(win.confirm, wrong, win'.confirm, wrong')
  BY <1>2 DEF Counted
<1> QED BY <1>4, <1>5, <1>6, HandlerKeeps

(* finish_authenticated_unattended *)
LEMMA UnattendedStep ==
  ASSUME DeskInv, frame.at \notin {"begin", "external"}, NEW w, Trims(win, w), NEW p,
         Counted(win.confirm, wrong, w.confirm, wrong'), wrong' \in {0, wrong},
         FinishUnattended(w, p), frame' \in Frames, FrameInv(frame', win, session)
  PROVE  DeskInv'
<1>1. WinType(w)
  BY TrimKeeps DEF DeskInv, WinInv
<1>2. Trims(w, win') /\ win'.confirm = w.confirm
  BY <1>1, Drops DEF FinishUnattended
<1>3. Trims(win, win')
  BY <1>2, TrimTwice DEF DeskInv, WinInv
<1>4. WinInv(win', session) /\ FrameInv(frame', win', session)
  BY <1>3, TrimKeeps, FrameSame DEF DeskInv, Trims, Core
<1>5. OuterType' /\ UNCHANGED <<session, ext>>
  BY DesktopAssumption DEF FinishUnattended, DeskInv, OuterType
<1> QED BY <1>2, <1>4, <1>5, HandlerKeeps

(* finish_selected_touch_id and authenticate_selected_secret *)
LEMMA SelectedStep ==
  ASSUME DeskInv, frame.at \notin {"begin", "external"}, NEW w, Trims(win, w), Open(win),
         NEW p \in Attempts, w.confirm # None => w.confirm.failed = 0, FinishSelected(w, p),
         wrong' = 0, frame' \in Frames, FrameInv(frame', win, session)
  PROVE  DeskInv'
<1>1. WinInv(w, session) /\ Open(w) /\ FrameInv(frame', w, session)
  BY TrimKeeps, FrameSame DEF DeskInv, Open, Trims, Core
<1>2. /\ WinInv(win', session) /\ Open(win') /\ win'.confirm = w.confirm
      /\ win'.discarding = w.discarding /\ win'.mode = w.mode
  BY <1>1, Selects DEF FinishSelected
<1>3. FrameInv(frame', win', session)
  BY <1>1, <1>2, FrameSame DEF Open
<1>4. OuterType' /\ UNCHANGED <<session, ext>>
  <2>1. UNCHANGED <<session, stored, app, locker, pend, granted, ext, approved>>
    BY DEF FinishSelected, broker
  <2> QED BY <2>1, DesktopAssumption DEF DeskInv, OuterType
<1>5. Counted(win.confirm, wrong, win'.confirm, wrong')
  BY <1>2 DEF Counted
<1> QED BY <1>2, <1>3, <1>4, <1>5, HandlerKeeps

-----------------------------------------------------------------------------
(* One lemma per handler of the frame.                                     *)

(* The tray's events. *)
LEMMA BeginStep ==
  ASSUME DeskInv, Begin PROVE DeskInv'
<1>1. /\ frame.at = "begin" /\ wrong' = wrong /\ frame \in Frames
      /\ frame' = [frame EXCEPT !.at = "external", !.top = frame.next, !.next = "none"]
  BY DEF Begin, DeskInv, OuterType
<1>2. frame' \in Frames /\ frame'.at = "external" /\ frame'.top = frame.next
  BY <1>1 DEF Frames, Modals, Steps
<1>3. CASE LockApp(win)
  BY <1>1, <1>2, <1>3, LockAppStep
<1>4. CASE LockImmediately(win)
  <2>1. WinType(win) /\ wrong' \in 0 .. MaxFailedPins
    BY <1>1 DEF DeskInv, OuterType, WinInv
  <2> QED BY <1>1, <1>2, <1>4, <2>1, LockNowKeeps
<1>5. CASE win' = win /\ approved' = None /\ UNCHANGED <<session, stored, broker, ext>>
  <2>1. OuterType'
    BY <1>1, <1>2, <1>5 DEF DeskInv, OuterType, broker
  <2>2. WinInv(win', session')
    BY <1>5 DEF DeskInv
  <2>3. FrameInv(frame', win', session')
    BY <1>1, <1>2, <1>5 DEF DeskInv, FrameInv
  <2>4. WrongInv(session', ext', wrong', win'.confirm, frame'.at)
    BY <1>1, <1>2, <1>5 DEF DeskInv, WrongInv
  <2> QED BY <2>1, <2>2, <2>3, <2>4 DEF DeskInv
<1> QED BY <1>3, <1>4, <1>5 DEF Begin

(* process_external_lock *)
LEMMA ExternalStep ==
  ASSUME DeskInv, ProcessExternalLock PROVE DeskInv'
<1>1. /\ frame.at = "external" /\ Goes("idle") /\ frame \in Frames
      /\ UNCHANGED <<session, stored, broker, approved, wrong>>
  BY DEF ProcessExternalLock, DeskInv, OuterType
<1>2. FrameInv(frame', win, session) /\ frame' \in Frames /\ frame'.at = "idle"
  BY <1>1, FrameMoves
<1>3. OuterType'
  BY <1>1, <1>2 DEF ProcessExternalLock, DeskInv, OuterType, broker
<1>4. CASE ext = "ready"
  <2> DEFINE u == ClearedState(win)
  <2>1. win' = [u EXCEPT !.phase = FALSE] /\ ext' = "none"
    BY <1>4 DEF ProcessExternalLock
  <2>2. WinInv(win', session')
    BY <1>1, <2>1, ClearedKeeps DEF DeskInv, WinInv
  <2>3. Quiet(win')
    BY <2>1, <2>2, ClearedStateFacts DEF WinInv, QuietPart, DeskInv, WinType, Windows
  <2>4. win'.confirm = None /\ ~ win'.discarding
    BY <2>3 DEF Quiet, Empty
  <2>5. FrameInv(frame', win', session')
    BY <1>2, <2>4 DEF FrameInv
  <2>6. WrongInv(session', ext', wrong', win'.confirm, frame'.at)
    BY <1>1, <1>4, <2>1, <2>4 DEF DeskInv, WrongInv
  <2> QED BY <1>3, <2>2, <2>5, <2>6 DEF DeskInv
<1>5. CASE ext # "ready"
  <2>1. win' = win /\ ext' = ext
    BY <1>5 DEF ProcessExternalLock
  <2>2. WrongInv(session', ext', wrong', win'.confirm, frame'.at)
    BY <1>1, <1>5, <2>1 DEF DeskInv, WrongInv
  <2> QED BY <1>1, <1>2, <1>3, <2>1, <2>2 DEF DeskInv
<1> QED BY <1>4, <1>5

(* handle_idle_timeout *)
LEMMA IdleStep ==
  ASSUME DeskInv, HandleIdleTimeout PROVE DeskInv'
<1>1. frame.at = "idle" /\ Goes("applock")
  BY DEF HandleIdleTimeout
<1>2. FrameInv(frame', win, session) /\ frame' \in Frames /\ frame'.at = "applock"
  BY <1>1, FrameMoves
<1>3. CASE Only(win)
  BY <1>1, <1>2, <1>3, OnlyKeeps DEF DeskInv
<1>4. CASE BeginInterfaceLock(win, TRUE) /\ UNCHANGED wrong
  BY <1>1, <1>2, <1>4, LockingStep
<1>5. CASE /\ session' = None /\ win' = ClearedState(win) /\ app' = Active
           /\ pend' = None /\ granted' = None
           /\ UNCHANGED <<stored, locker, ext, approved, wrong>>
  <2>1. OuterType'
    BY <1>2, <1>5, LockFacts DEF DeskInv, OuterType
  <2>2. WinInv(win', session') /\ ~ win'.discarding
    BY <1>5, ClearedKeeps, ClearedStateFacts DEF DeskInv, WinInv, WinType
  <2>3. FrameInv(frame', win', session') /\ WrongInv(session', ext', wrong', win'.confirm, frame'.at)
    BY <1>2, <1>5, <2>2 DEF FrameInv, WrongInv
  <2> QED BY <2>1, <2>2, <2>3 DEF DeskInv
<1> QED BY <1>3, <1>4, <1>5 DEF HandleIdleTimeout

(* process_app_lock_result *)
LEMMA AppLockStep ==
  ASSUME DeskInv, ProcessAppLockResult PROVE DeskInv'
<1>1. frame.at = "applock" /\ Goes("touch")
  BY DEF ProcessAppLockResult
<1>2. FrameInv(frame', win, session) /\ frame' \in Frames /\ frame'.at = "touch"
  BY <1>1, FrameMoves
<1>3. CASE Only(win)
  BY <1>1, <1>2, <1>3, OnlyKeeps DEF DeskInv
<1>4. ASSUME win.attempt # None, Only([win EXCEPT !.lock = Locked(win.attempt), !.attempt = None])
      PROVE  DeskInv'
  <2> DEFINE v == [win EXCEPT !.lock = Locked(win.attempt), !.attempt = None]
  <2>1. WinInv(v, session) /\ v.confirm = win.confirm /\ v.phase = win.phase /\ v.discarding = win.discarding
    BY <1>4, Locks DEF DeskInv
  <2>2. FrameInv(frame', v, session)
    BY <1>2, <2>1 DEF FrameInv
  <2> HIDE DEF v
  <2> QED BY <1>1, <1>2, <1>4, <2>1, <2>2, OnlyKeeps DEF v
<1> QED BY <1>3, <1>4 DEF ProcessAppLockResult

(* process_touch_id_result: the fingerprint's prompt is looked at again. *)
LEMMA TouchStep ==
  ASSUME DeskInv, ProcessTouchIdResult PROVE DeskInv'
<1>1. frame.at = "touch" /\ Goes("sync")
  BY DEF ProcessTouchIdResult
<1>2. FrameInv(frame', win, session) /\ frame' \in Frames /\ frame'.at = "sync"
  BY <1>1, FrameMoves
<1>3. CASE Only(win)
  BY <1>1, <1>2, <1>3, OnlyKeeps DEF DeskInv
<1> DEFINE w == [win EXCEPT !.touch = None, !.pin = None]
           p == win.touch.target
<1>4. WinType(win) /\ WinInv(win, session)
  BY DEF DeskInv, WinInv
<1>5. Trims(win, w) /\ w.confirm = win.confirm
  BY <1>4, Drops
<1> HIDE DEF w
<1>6. WinInv(w, session) /\ WinType(w)
  BY <1>4, <1>5, TrimKeeps DEF WinInv
<1>7. CASE Only(w)
  BY <1>1, <1>2, <1>5, <1>7, OnlyTrims
<1>8. ASSUME win.touch # None, TouchOk(w, p) PROVE DeskInv'
  <2>1. p \in Prompts
    BY <1>4, <1>8 DEF WinType, Windows, Touches
  <2>2. win.phase /\ (p.kind # "app" => Open(win))
    BY <1>4, <1>8 DEF WinInv, WinType, Windows, QuietPart, Quiet, LockedPart, Open
  <2> DEFINE t == TouchRecorded(w)
  <2>3. Trims(win, t) /\ (t.confirm # None => t.confirm.failed = 0) /\ t.lock = w.lock
    <3>1. Trims(w, t) /\ (t.confirm # None => t.confirm.failed = 0)
      BY <1>6, Counts
    <3> HIDE DEF t
    <3> QED BY <1>4, <1>5, <3>1, TrimTwice DEF Trims, Core
  <2> HIDE DEF t, p
  <2>4. CASE FinishUnattended(IF ConsentCurrent(w, p) THEN t ELSE w, p)
             /\ wrong' = IF ConsentCurrent(w, p) THEN 0 ELSE wrong
    <3>1. CASE ConsentCurrent(w, p)
      <4>1. FinishUnattended(t, p) /\ wrong' = 0
        BY <2>4, <3>1
      <4>2. Counted(win.confirm, wrong, t.confirm, wrong')
        BY <4>1, <2>3 DEF Counted
      <4> QED BY <1>1, <1>2, <2>3, <4>1, <4>2, UnattendedStep
    <3>2. CASE ~ ConsentCurrent(w, p)
      <4>1. FinishUnattended(w, p) /\ wrong' = wrong
        BY <2>4, <3>2
      <4>2. Counted(win.confirm, wrong, w.confirm, wrong')
        BY <4>1, <1>5 DEF Counted
      <4> QED BY <1>1, <1>2, <1>5, <4>1, <4>2, UnattendedStep
    <3> QED BY <3>1, <3>2
  <2>5. CASE AppContext(w, p) /\ FinishAppUnlock(t) /\ wrong' = 0
    <3>1. t.lock.state = "locked"
      BY <2>3, <2>5 DEF AppContext
    <3> QED BY <1>1, <1>2, <2>3, <2>5, <3>1, UnlockedStep
  <2>6. CASE Only(RejectStaleApp(w))
    <3> DEFINE v == RejectStaleApp(w)
    <3>1. Trims(w, v) /\ v.confirm = w.confirm
      BY <1>6, Drops DEF RejectStaleApp
    <3> HIDE DEF v
    <3>2. Trims(win, v) /\ v.confirm = win.confirm
      BY <1>4, <1>5, <3>1, TrimTwice
    <3> QED BY <1>1, <1>2, <2>6, <3>2, OnlyTrims DEF v
  <2>7. CASE p.kind = "secret" /\ FinishSelected(t, p) /\ wrong' = 0
    <3>1. p \in Attempts
      BY <2>1, <2>7 DEF Prompts
    <3>2. Open(win)
      BY <2>2, <2>7
    <3> QED BY <1>1, <1>2, <2>3, <2>7, <3>1, <3>2, SelectedStep
  <2>8. CASE Only(RejectStale(w))
    <3> DEFINE v == RejectStale(w)
    <3>1. /\ WinInv(v, session) /\ (v.phase <=> session # None)
          /\ session # None => v.confirm = w.confirm
          /\ v.discarding => w.discarding
      BY <1>6, Rejects
    <3>2. w.discarding = win.discarding
      BY <1>5 DEF Trims, Core
    <3>3. FrameInv(frame', v, session)
      BY <1>2, <3>1, <3>2 DEF FrameInv
    <3> HIDE DEF v
    <3> QED BY <1>1, <1>2, <1>5, <2>8, <3>1, <3>3, OnlyKeeps DEF v
  <2>9. CASE FinishApproval(t, p) /\ wrong' = 0
    BY <1>1, <1>2, <2>1, <2>3, <2>9, ApprovedStep
  <2> QED BY <1>8, <2>4, <2>5, <2>6, <2>7, <2>8, <2>9 DEF TouchOk, t
<1> QED BY <1>3, <1>7, <1>8 DEF ProcessTouchIdResult, w

(* synchronize_phase, and the request to close the window *)
LEMMA SyncStep ==
  ASSUME DeskInv, SynchronizePhase PROVE DeskInv'
<1> DEFINE w == Resynchronized(win)
<1>1. frame.at = "sync" /\ frame \in Frames
  BY DEF SynchronizePhase, DeskInv, OuterType
<1>2. /\ WinInv(w, session) /\ (w.phase <=> session # None)
      /\ session # None => /\ w.confirm = win.confirm /\ w.lock = win.lock /\ w.mode = win.mode
                           /\ w.discarding = win.discarding
  BY Rejects DEF DeskInv
<1> HIDE DEF w
<1>3. \A b \in BOOLEAN : LET f == [frame EXCEPT !.at = "show", !.seen = b] IN
        f \in Frames /\ f.at = "show" /\ f.seen = b /\ f.top = frame.top
  BY <1>1 DEF Frames, Steps
<1>4. CASE Only(w) /\ frame' = [frame EXCEPT !.at = "show", !.seen = (session # None)]
  <2>1. (session # None) \in BOOLEAN
    OBVIOUS
  <2>2. frame' \in Frames /\ frame'.at = "show" /\ frame'.top = frame.top
        /\ (frame'.seen <=> session # None)
    BY <1>3, <1>4, <2>1
  <2>3. FrameInv(frame', w, session)
    BY <1>1, <1>2, <2>2 DEF FrameInv, DeskInv
  <2> QED BY <1>1, <1>2, <1>4, <2>2, <2>3, OnlyKeeps
<1>5. ASSUME session # None, w.lock = Active, w.mode = "dirty",
             Only([w EXCEPT !.nav = "close", !.discarding = TRUE]),
             frame' = [frame EXCEPT !.at = "show", !.seen = TRUE]
      PROVE  DeskInv'
  <2> DEFINE v == [w EXCEPT !.nav = "close", !.discarding = TRUE]
  <2>1. frame' \in Frames /\ frame'.at = "show" /\ frame'.seen
    BY <1>3, <1>5
  <2>2. Open(w) /\ "close" \in Pages
    BY <1>2, <1>5 DEF Open, Pages
  <2>3. WinInv(v, session) /\ Open(v) /\ v.confirm = w.confirm /\ v.mode = "dirty"
    BY <1>2, <1>5, <2>2, Waits
  <2> HIDE DEF v
  <2>4. FrameInv(frame', v, session)
    BY <2>1, <2>3 DEF FrameInv, Open
  <2> QED BY <1>1, <1>2, <1>5, <2>1, <2>3, <2>4, OnlyKeeps DEF v
<1>6. CASE Only(w) /\ Goes("exit")
  <2>1. frame' \in Frames /\ frame'.at = "exit"
    BY <1>1, <1>6, FrameFacts DEF Steps, Modals
  <2>2. FrameInv(frame', w, session)
    BY <2>1 DEF FrameInv
  <2> QED BY <1>1, <1>2, <1>6, <2>1, <2>2, OnlyKeeps
<1> QED BY <1>4, <1>5, <1>6 DEF SynchronizePhase, w

(* show_locked: a vault that is opened finds a quiet window. *)
LEMMA ShowLockedStep ==
  ASSUME DeskInv, ShowLocked PROVE DeskInv'
<1>1. frame.at = "show" /\ ~ frame.seen /\ Goes("begin") /\ frame \in Frames
  BY DEF ShowLocked, Showing, DeskInv, OuterType
<1>2. ~ win.phase /\ Quiet(win)
  BY <1>1 DEF DeskInv, WinInv, FrameInv, QuietPart
<1>3. ~ win.discarding /\ win.mode = "hidden" /\ win.confirm = None
  BY <1>2 DEF Quiet, Empty
<1>4. FrameInv(frame', win, session) /\ frame' \in Frames /\ frame'.at = "begin"
  BY <1>1, <1>3, FrameMoves
<1>5. CASE Only(win)
  BY <1>1, <1>4, <1>5, OnlyKeeps DEF DeskInv
<1>6. ASSUME session = None, session' \in Sessions, wrong' = 0,
             UNCHANGED <<stored, broker, ext, approved, win>>
      PROVE  DeskInv'
  <2>1. OuterType'
    BY <1>4, <1>6, DesktopAssumption DEF DeskInv, OuterType, broker
  <2>2. WinInv(win', session')
    BY <1>3, <1>6 DEF DeskInv, WinInv, ValuePart
  <2>3. FrameInv(frame', win', session')
    BY <1>3, <1>4, <1>6 DEF FrameInv
  <2>4. WrongInv(session', ext', wrong', win'.confirm, frame'.at)
    BY <1>3, <1>4, <1>6 DEF WrongInv, DeskInv, OuterType
  <2> QED BY <2>1, <2>2, <2>3, <2>4 DEF DeskInv
<1> QED BY <1>5, <1>6 DEF ShowLocked

(* A window that is locked or locking waits for nothing. *)
LEMMA LockedWaits ==
  ASSUME DeskInv, win.lock # Active PROVE ~ win.discarding
  BY DEF DeskInv, WinInv, LockedPart, Empty

(* The page of an interface that is being locked *)
LEMMA ShowAppLockingStep ==
  ASSUME DeskInv, ShowAppLocking PROVE DeskInv'
<1>1. frame.at = "show" /\ win.lock.state = "locking" /\ Goes("begin") /\ Only(win)
  BY DEF ShowAppLocking, Showing
<1>2. ~ win.discarding
  BY <1>1, LockFacts, LockedWaits
<1>3. FrameInv(frame', win, session) /\ frame' \in Frames /\ frame'.at = "begin"
  BY <1>1, <1>2, FrameMoves
<1> QED BY <1>1, <1>3, OnlyKeeps DEF DeskInv

(* show_app_locked and what it calls: only the app's own prompt is asked. *)
LEMMA ShowAppLockedStep ==
  ASSUME DeskInv, ShowAppLocked PROVE DeskInv'
<1>1. frame.at = "show" /\ frame.seen /\ win.lock.state = "locked" /\ Goes("begin")
  BY DEF ShowAppLocked, Showing, DeskInv, OuterType, Frames
<1>2. WinType(win) /\ WinInv(win, session) /\ win.phase /\ win.lock \in LockStates
  BY <1>1 DEF DeskInv, WinInv, FrameInv, WinType, Windows
<1>3. win.lock # Active /\ win.lock.epoch \in LockEpochs
  BY <1>1, <1>2, LockFacts
<1>4. FrameInv(frame', win, session) /\ frame' \in Frames /\ frame'.at = "begin"
  BY <1>1, <1>3, LockedWaits, FrameMoves
<1>5. PICK touch \in TouchChoices :
       LET w == [win EXCEPT !.pinShown = @ \/ (~ touch /\ HasPin(win))]
           prompt == AppPrompt(session, w.lock.epoch)
       IN \/ Only(w)
          \/ ~ w.pinShown /\ touch /\ w.touch = None /\ session # None
             /\ Only(TouchAsked([w EXCEPT !.pin = None], prompt))
          \/ ~ w.pinShown /\ touch /\ session = None /\ Only(RejectStaleApp(w))
          \/ ~ w.pinShown /\ HasPin(w)
             /\ Only([w EXCEPT !.touch = None, !.pin = None, !.pinShown = TRUE])
          \/ w.pinShown /\ session # None
             /\ \E right \in BOOLEAN : Only(TypedPin(w, prompt, right))
          \/ w.pinShown /\ ~ AppContext(w, prompt) /\ Only(RejectStaleApp(w))
          \/ w.pinShown /\ AppContext(w, prompt) /\ PinRejected([w EXCEPT !.touch = None])
          \/ w.pinShown /\ AppContext(w, prompt) /\ Right(w) /\ wrong' = 0
             /\ FinishAppUnlock(PinAccepted(w))
          \/ LockImmediately(w) /\ UNCHANGED wrong
  BY DEF ShowAppLocked
<1> DEFINE b == win.pinShown \/ (~ touch /\ HasPin(win))
           w == [win EXCEPT !.pinShown = b]
           p == AppPrompt(session, w.lock.epoch)
<1>6. b \in BOOLEAN /\ (b => HasPin(win))
  BY <1>2 DEF WinType
<1>7. Trims(win, w) /\ w.confirm = win.confirm /\ w.pinShown = b
  BY <1>2, <1>6, Shows
<1>8. [win EXCEPT !.pinShown = @ \/ (~ touch /\ HasPin(win))] = w
  OBVIOUS
<1> HIDE DEF b, w
<1>9. /\ WinInv(w, session) /\ WinType(w) /\ w.phase /\ w.lock = win.lock /\ (w.pinShown => HasPin(w))
  BY <1>2, <1>7, TrimKeeps DEF WinInv, WinType, Trims, Core
<1>10. session # None => p \in Prompts /\ p.kind = "app"
  <2>1. session \in Sessions \cup {None} /\ w.lock.epoch \in LockEpochs
    BY <1>3, <1>9 DEF DeskInv, OuterType
  <2> QED BY <2>1, PromptFacts
<1> HIDE DEF p
<1>11. CASE Only(w)
  BY <1>1, <1>4, <1>7, <1>11, OnlyTrims
<1>12. ASSUME NEW x, NEW v, Trims(w, x), x.confirm = w.confirm, Adds(x, v, p), session # None, Only(v)
       PROVE  DeskInv'
  <2>1. WinInv(x, session) /\ x.phase
    BY <1>9, <1>12, TrimKeeps DEF Trims, Core
  <2>2. WinInv(v, session)
    BY <1>10, <1>12, <2>1, AddKeeps
  <2>3. v.confirm = win.confirm /\ v.discarding = win.discarding
    BY <1>7, <1>12 DEF Adds, Trims, Core
  <2>4. FrameInv(frame', v, session)
    BY <1>3, <1>4, <2>3, LockedWaits DEF FrameInv
  <2> QED BY <1>1, <1>4, <1>12, <2>2, <2>3, <2>4, OnlyKeeps
<1>13. CASE session # None /\ Only(TouchAsked([w EXCEPT !.pin = None], p))
  <2> DEFINE x == [w EXCEPT !.pin = None]
  <2>1. Trims(w, x) /\ x.confirm = w.confirm
    BY <1>9, Drops
  <2> HIDE DEF x
  <2>2. WinType(x)
    BY <1>9, <2>1, TrimTyped
  <2>3. Adds(x, TouchAsked(x, p), p)
    BY <1>10, <1>13, <2>2, Asks
  <2> QED BY <1>12, <1>13, <2>1, <2>3 DEF x
<1>14. CASE Only(RejectStaleApp(w))
  <2> DEFINE v == RejectStaleApp(w)
  <2>1. Trims(w, v) /\ v.confirm = w.confirm
    BY <1>9, Drops DEF RejectStaleApp
  <2> HIDE DEF v
  <2>2. Trims(win, v)
    BY <1>2, <1>7, <2>1, TrimTwice
  <2> QED BY <1>1, <1>4, <1>7, <1>14, <2>1, <2>2, OnlyTrims DEF v
<1>15. CASE HasPin(w) /\ Only([w EXCEPT !.touch = None, !.pin = None, !.pinShown = TRUE])
  <2> DEFINE v == [w EXCEPT !.touch = None, !.pin = None, !.pinShown = TRUE]
  <2>1. Trims(w, v) /\ v.confirm = w.confirm
    BY <1>9, <1>15, Shows
  <2> HIDE DEF v
  <2>2. Trims(win, v)
    BY <1>2, <1>7, <2>1, TrimTwice
  <2> QED BY <1>1, <1>4, <1>7, <1>15, <2>1, <2>2, OnlyTrims DEF v
<1>16. CASE session # None /\ \E right \in BOOLEAN : Only(TypedPin(w, p, right))
  <2>1. PICK right \in BOOLEAN : Only(TypedPin(w, p, right))
    BY <1>16
  <2>2. Adds(w, TypedPin(w, p, right), p)
    BY <1>9, <1>10, <1>16, Asks
  <2>3. Trims(w, w)
    BY <1>9, Drops
  <2> QED BY <1>12, <1>16, <2>1, <2>2, <2>3
<1>17. CASE w.pinShown /\ PinRejected([w EXCEPT !.touch = None])
  <2> DEFINE v == [w EXCEPT !.touch = None]
  <2>1. Trims(w, v) /\ v.confirm = w.confirm
    BY <1>9, Drops
  <2> HIDE DEF v
  <2>2. Trims(win, v) /\ v.confirm = win.confirm /\ HasPin(v)
    BY <1>2, <1>7, <1>9, <1>17, <2>1, TrimTwice DEF HasPin
  <2> QED BY <1>1, <1>4, <1>17, <2>2, RejectedStep DEF v
<1>18. CASE w.pinShown /\ wrong' = 0 /\ FinishAppUnlock(PinAccepted(w))
  <2> DEFINE v == PinAccepted(w)
  <2>1. Trims(w, v) /\ v.confirm.failed = 0
    BY <1>9, <1>18, Counts
  <2> HIDE DEF v
  <2>2. Trims(win, v)
    BY <1>2, <1>7, <2>1, TrimTwice
  <2>3. v.lock.state = "locked"
    BY <1>1, <2>2 DEF Trims, Core
  <2> QED BY <1>1, <1>4, <1>18, <2>1, <2>2, <2>3, UnlockedStep DEF v
<1>19. CASE LockImmediately(w) /\ UNCHANGED wrong
  <2>1. w.phase = win.phase /\ wrong' \in 0 .. MaxFailedPins
    BY <1>7, <1>19 DEF Trims, Core, DeskInv, OuterType
  <2> QED BY <1>1, <1>4, <1>9, <1>19, <2>1, LockNowKeeps
<1> QED BY <1>5, <1>8, <1>11, <1>13, <1>14, <1>15, <1>16, <1>17, <1>18, <1>19 DEF p

(* show_session_auth_setup *)
LEMMA SetupStep ==
  ASSUME DeskInv, ShowSessionAuthSetup PROVE DeskInv'
<1>1. frame.at = "show" /\ frame.seen /\ win.lock.state = "active" /\ win.confirm = None /\ Goes("begin")
  BY DEF ShowSessionAuthSetup, Showing, DeskInv, OuterType, Frames
<1>2. WinType(win) /\ win.lock \in LockStates /\ win.phase
  BY <1>1 DEF DeskInv, WinInv, FrameInv, WinType, Windows
<1>3. Open(win) /\ ~ win.discarding
  BY <1>1, <1>2, LockFacts DEF Open, WinType
<1>4. FrameInv(frame', win, session) /\ frame' \in Frames
  BY <1>1, <1>3, FrameMoves
<1>5. CASE Only(win)
  BY <1>1, <1>4, <1>5, OnlyKeeps DEF DeskInv
<1>6. ASSUME NEW b \in BOOLEAN, Only([win EXCEPT !.confirm = [pin |-> b, failed |-> 0]]) PROVE DeskInv'
  <2> DEFINE c == [pin |-> b, failed |-> 0]
             v == [win EXCEPT !.confirm = c]
  <2>1. c \in Confirmations
    BY DesktopAssumption DEF Confirmations
  <2> HIDE DEF c
  <2>2. Core(win, v) /\ v.confirm = c
    BY <1>1, <1>2, <2>1, Edits
  <2> HIDE DEF v
  <2> QED BY <1>1, <1>3, <1>4, <1>6, <2>1, <2>2, OnlyCore DEF v, c
<1> QED BY <1>5, <1>6 DEF ShowSessionAuthSetup

(* The pages of an open window. *)
Page == Showing(TRUE, "active") /\ win.confirm # None /\ Goes("modals")

(* They are drawn for an open window. *)
LEMMA PageFacts ==
  ASSUME DeskInv, Page
  PROVE  /\ frame.at = "show" /\ WinType(win) /\ WinInv(win, session) /\ Open(win)
         /\ win.phase /\ win.confirm # None
         /\ frame' \in Frames /\ frame'.at = "modals" /\ FrameInv(frame', win, session)
<1>1. frame.at = "show" /\ frame.seen /\ win.lock.state = "active" /\ win.confirm # None /\ Goes("modals")
  BY DEF Page, Showing, DeskInv, OuterType, Frames
<1>2. WinType(win) /\ WinInv(win, session) /\ win.lock \in LockStates /\ win.phase
  BY <1>1 DEF DeskInv, WinInv, FrameInv, WinType, Windows
<1>3. Open(win)
  BY <1>1, <1>2, LockFacts DEF Open
<1> QED BY <1>1, <1>2, <1>3, FrameMoves

(* A click that leaves an open window, or notices that the vault is closed. *)
LEMMA PageOpen ==
  ASSUME DeskInv, Page, NEW w, Only(w), WinInv(w, session), Open(w), w.confirm = win.confirm
  PROVE  DeskInv'
<1>1. FrameInv(frame', w, session)
  BY PageFacts DEF FrameInv, Open
<1> QED BY <1>1, PageFacts, OnlyKeeps

(* The second of these. *)
LEMMA PageResync ==
  ASSUME DeskInv, Page, NEW w, WinInv(w, session), w.confirm = win.confirm, Only(Resynchronized(w))
  PROVE  DeskInv'
<1> DEFINE v == Resynchronized(w)
<1>1. /\ WinInv(v, session) /\ (v.phase <=> session # None)
      /\ session # None => v.confirm = w.confirm
  BY Rejects
<1> HIDE DEF v
<1>2. FrameInv(frame', v, session)
  BY <1>1, PageFacts DEF FrameInv
<1> QED BY <1>1, <1>2, PageFacts, OnlyKeeps DEF v

(* A change of the vault's secrets beside the window's. *)
LEMMA PageStores ==
  ASSUME DeskInv, Page, NEW w, win' = w, WinInv(w, session), Open(w), w.confirm = win.confirm,
         stored' \subseteq Secrets, UNCHANGED <<session, broker, ext, approved, wrong>>
  PROVE  DeskInv'
<1>1. FrameInv(frame', w, session)
  BY PageFacts DEF FrameInv, Open
<1>2. OuterType'
  BY PageFacts DEF DeskInv, OuterType, broker
<1>3. Counted(win.confirm, wrong, win'.confirm, wrong')
  BY DEF Counted
<1> QED BY <1>1, <1>2, <1>3, PageFacts, HandlerKeeps

(* A click on the rail *)
LEMMA NavigateStep ==
  ASSUME DeskInv, Navigate PROVE DeskInv'
<1>1. PICK page \in {"add", "sessions"} \cup stored : Manager(RequestNavigation(win, page))
  BY DEF Navigate
<1>2. Page /\ Only(RequestNavigation(win, page)) /\ page \in Pages
  BY <1>1 DEF Navigate, Manager, Page, Pages, DeskInv, OuterType
<1>3. CASE win.mode = "dirty"
  <2> DEFINE v == [win EXCEPT !.nav = page, !.discarding = TRUE]
  <2>1. WinInv(v, session) /\ Open(v) /\ v.confirm = win.confirm
    BY <1>2, <1>3, PageFacts, Waits
  <2> HIDE DEF v
  <2> QED BY <1>2, <1>3, <2>1, PageOpen DEF v, RequestNavigation
<1>4. CASE win.mode # "dirty"
  <2> DEFINE v == Applied(NavigatedNow(win, page))
  <2>1. Turned(win, v)
    BY <1>2, PageFacts, Navigates
  <2> HIDE DEF v
  <2>2. WinInv(v, session)
    BY <1>2, <2>1, PageFacts, TurnedKeeps
  <2>3. Open(v) /\ v.confirm = win.confirm
    BY <1>2, <2>1, PageFacts DEF Turned, Open
  <2> QED BY <1>2, <1>4, <2>2, <2>3, PageOpen DEF v, RequestNavigation
<1> QED BY <1>3, <1>4

(* The changes of an open window that leave its value. *)
LEMMA PageCore ==
  ASSUME DeskInv, Page, NEW w, Only(w), Core(win, w), w.confirm = win.confirm PROVE DeskInv'
  BY PageFacts, OnlyCore

(* The draft of a new secret is edited *)
LEMMA EditDraftStep ==
  ASSUME DeskInv, EditDraft PROVE DeskInv'
<1> DEFINE v == [win EXCEPT !.draft = TRUE]
<1>1. Page /\ Only(v)
  BY DEF EditDraft, Manager, Page
<1>2. Core(win, v) /\ v.confirm = win.confirm
  BY <1>1, PageFacts, Edits
<1> HIDE DEF v
<1> QED BY <1>1, <1>2, PageCore

(* add_secret *)
LEMMA SaveDraftStep ==
  ASSUME DeskInv, SaveDraft PROVE DeskInv'
<1> DEFINE v == [win EXCEPT !.draft = FALSE]
<1>1. Page
  BY DEF SaveDraft, Page
<1>2. Core(win, v) /\ v.confirm = win.confirm
  BY <1>1, PageFacts, Edits
<1> HIDE DEF v
<1>3. WinInv(v, session) /\ Open(v)
  BY <1>1, <1>2, PageFacts, OpenKeeps
<1>4. CASE /\ win' = v /\ stored' \in {stored} \cup {stored \cup {s} : s \in Secrets}
           /\ UNCHANGED <<session, broker, ext, approved, wrong>>
  <2>1. stored' \subseteq Secrets
    BY <1>4 DEF DeskInv, OuterType
  <2> QED BY <1>1, <1>2, <1>3, <1>4, <2>1, PageStores
<1>5. CASE Only(Resynchronized(win))
  BY <1>1, <1>5, PageFacts, PageResync
<1> QED BY <1>4, <1>5 DEF SaveDraft, v

(* The question for the selected secret is opened *)
LEMMA AskUnlockStep ==
  ASSUME DeskInv, AskUnlock PROVE DeskInv'
<1> DEFINE v == [win EXCEPT !.confirming = TRUE, !.pin = None]
<1>1. Page /\ Only(v)
  BY DEF AskUnlock, Manager, Page
<1>2. Core(win, v) /\ v.confirm = win.confirm
  BY <1>1, PageFacts, Edits
<1> HIDE DEF v
<1> QED BY <1>1, <1>2, PageCore

(* The modes of the value on the page. *)
LEMMA DetailStep ==
  ASSUME DeskInv, OpenDetail \/ EditDetail \/ HideDetail PROVE DeskInv'
<1>1. Authorized(win) /\ Page
  BY DEF OpenDetail, EditDetail, HideDetail, Manager, Page
<1>2. ASSUME NEW m \in {"hidden", "revealed", "editing", "dirty"}, Only([win EXCEPT !.mode = m])
      PROVE  DeskInv'
  <2> DEFINE v == [win EXCEPT !.mode = m]
  <2>1. WinInv(v, session) /\ Open(v) /\ v.confirm = win.confirm
    BY <1>1, PageFacts, Details
  <2> HIDE DEF v
  <2> QED BY <1>1, <1>2, <2>1, PageOpen DEF v
<1>3. CASE Only(Resynchronized(win))
  BY <1>1, <1>3, PageFacts, PageResync
<1>4. CASE OpenDetail
  BY <1>2, <1>4 DEF OpenDetail, Manager
<1>5. CASE EditDetail
  BY <1>2, <1>3, <1>5 DEF EditDetail, Manager
<1>6. CASE HideDetail
  BY <1>2, <1>6 DEF HideDetail, Manager
<1> QED BY <1>4, <1>5, <1>6

(* The deletion of the secret on the page; no discard waits behind it. *)
LEMMA DeleteStep ==
  ASSUME DeskInv, DeleteSelected PROVE DeskInv'
<1>1. Page /\ Clicked("none") /\ win.mode \in {"hidden", "revealed"}
  BY DEF DeleteSelected, Manager, Page
<1>2. CASE Only([win EXCEPT !.deleting = IF @ = None THEN win.page ELSE None])
  <2> DEFINE d == IF win.deleting = None THEN win.page ELSE None
             v == [win EXCEPT !.deleting = d]
  <2>1. d \in {None, win.page} /\ Only(v)
    BY <1>2
  <2> HIDE DEF d
  <2>2. Core(win, v) /\ v.confirm = win.confirm
    BY <1>1, <2>1, PageFacts, Edits
  <2> HIDE DEF v
  <2> QED BY <1>1, <2>1, <2>2, PageCore
<1>3. CASE Only(Resynchronized([win EXCEPT !.deleting = None]))
  <2> DEFINE v == [win EXCEPT !.deleting = None]
  <2>1. Core(win, v) /\ v.confirm = win.confirm
    BY <1>1, PageFacts, Edits
  <2> HIDE DEF v
  <2>2. WinInv(v, session)
    BY <1>1, <2>1, PageFacts, OpenKeeps
  <2> QED BY <1>1, <1>3, <2>1, <2>2, PageResync DEF v
<1>4. ASSUME session # None, stored' = stored \ {win.page},
             win' = [NavigatedNow(win, "add") EXCEPT !.deleting = None, !.touch = None,
                                                     !.confirming = FALSE, !.pin = None],
             UNCHANGED <<session, broker, ext, approved, wrong>>
      PROVE  DeskInv'
  <2>1. ~ win.discarding
    BY <1>1, <1>4, PageFacts DEF DeskInv, FrameInv, Clicked
  <2>2. Turned(win, win')
    <3>1. "add" \in Pages
      BY DEF Pages
    <3> QED BY <1>1, <1>4, <2>1, <3>1, PageFacts, Navigates
  <2>3. WinInv(win', session)
    BY <1>1, <2>2, PageFacts, TurnedKeeps
  <2>4. Open(win') /\ win'.confirm = win.confirm
    BY <1>1, <2>2, PageFacts DEF Turned, Open
  <2>5. stored' \subseteq Secrets
    BY <1>4 DEF DeskInv, OuterType
  <2> QED BY <1>1, <1>4, <2>3, <2>4, <2>5, PageStores
<1> QED BY <1>2, <1>3, <1>4 DEF DeleteSelected, Manager

(* The question for unattended access is opened *)
LEMMA ManageSessionsStep ==
  ASSUME DeskInv, ManageSessions PROVE DeskInv'
<1> DEFINE v == BeginUnattended(win)
<1>1. Page /\ Only(v) /\ session \in Sessions \cup {None}
  BY DEF ManageSessions, Manager, Page, DeskInv, OuterType
<1>2. Core(win, v) /\ v.confirm = win.confirm
  BY <1>1, PageFacts, BeginsUnattended
<1> HIDE DEF v
<1> QED BY <1>1, <1>2, PageCore

(* The lock button *)
LEMMA LockButtonStep ==
  ASSUME DeskInv, LockButton PROVE DeskInv'
<1>1. Page /\ LockApp(win) /\ wrong' = wrong
  BY DEF LockButton, Page
<1> QED BY <1>1, PageFacts, LockAppStep

(* No click *)
LEMMA WatchStep ==
  ASSUME DeskInv, Watch PROVE DeskInv'
<1>1. Page /\ Only(win)
  BY DEF Watch, Page
<1> QED BY <1>1, PageFacts, OnlyKeeps

(* Deny of show_unlock_request only drops, and the frame stays where it is. *)
LEMMA DenyStep ==
  ASSUME DeskInv, Deny PROVE DeskInv'
<1> DEFINE v == [win EXCEPT !.pin = None, !.touch = None]
<1>1. frame.at = "show" /\ Only(v) /\ frame' = frame
  BY DEF Deny
<1>2. frame \in Frames /\ WinType(win) /\ FrameInv(frame, win, session)
  BY DEF DeskInv, OuterType, WinInv
<1>3. v = [win EXCEPT !.touch = None, !.pin = None]
  BY <1>2 DEF WinType, Windows
<1>4. Trims(win, v) /\ v.confirm = win.confirm
  BY <1>2, <1>3, Drops
<1> HIDE DEF v
<1>5. FrameInv(frame', win, session) /\ frame' \in Frames
  BY <1>1, <1>2
<1> QED BY <1>1, <1>4, <1>5, OnlyTrims

(* The modals are not drawn over a locked window or a closed vault. *)
LEMMA HiddenStep ==
  ASSUME DeskInv, Hidden PROVE DeskInv'
<1>1. /\ frame.at = "modals" /\ (session = None \/ win.lock # Active) /\ Only(win) /\ Goes("begin")
      /\ frame \in Frames
  BY DEF Hidden, DeskInv, OuterType
<1>2. frame' \in Frames /\ frame'.at = "begin"
  BY <1>1, FrameFacts DEF Steps, Modals
<1>3. FrameInv(frame', win, session)
  BY <1>1, <1>2, LockedWaits DEF FrameInv
<1> QED BY <1>1, <1>2, <1>3, OnlyKeeps DEF DeskInv

(* The modals are drawn over an open window. *)
LEMMA AllowedFacts ==
  ASSUME DeskInv, Allowed
  PROVE  /\ frame.at = "modals" /\ session \in Sessions /\ WinType(win) /\ WinInv(win, session)
         /\ Open(win) /\ win.phase
  BY DEF DeskInv, OuterType, WinInv, FrameInv, Allowed, Open

(* show_secret_confirmation, authenticate_selected_secret *)
LEMMA SecretStep ==
  ASSUME DeskInv, ShowSecretConfirmation PROVE DeskInv'
<1>1. Allowed /\ ~ win.discarding
  BY DEF ShowSecretConfirmation
<1>2. /\ frame.at = "modals" /\ session \in Sessions /\ WinType(win) /\ WinInv(win, session)
      /\ Open(win) /\ win.phase
  BY <1>1, AllowedFacts
<1>3. FrameInv(frame', win, session) /\ frame' \in Frames /\ frame'.at = "approval"
  <2>1. Goes("approval") \/ Draws("secret", "approval")
    BY DEF ShowSecretConfirmation
  <2> QED BY <1>1, <2>1, FrameMoves
<1> DEFINE p == Attempt(win, session)
           x == [win EXCEPT !.touch = None]
<1>4. Selected(win) # None => p \in Attempts /\ p \in Prompts
  <2>1. ASSUME Selected(win) # None PROVE win.page \in Secrets
    BY <2>1 DEF Selected, DeskInv, OuterType
  <2>2. win.sel \in 0 .. SelectionWidth - 1
    BY <1>2 DEF WinType, Windows
  <2> QED BY <1>2, <2>1, <2>2, PromptFacts DEF Attempt
<1>5. Trims(win, x) /\ x.confirm = win.confirm
  BY <1>2, Drops
<1>6. WinType(x)
  BY <1>2, <1>5, TrimTyped
<1> HIDE DEF p, x
<1>7. CASE Only(win)
  BY <1>2, <1>3, <1>7, OnlyKeeps
<1>8. CASE Only([win EXCEPT !.confirming = FALSE, !.pin = None])
  <2> DEFINE v == [win EXCEPT !.confirming = FALSE, !.pin = None]
  <2>1. Trims(win, v) /\ v.confirm = win.confirm
    BY <1>2, Drops
  <2> HIDE DEF v
  <2> QED BY <1>2, <1>3, <1>8, <2>1, OnlyTrims DEF v
<1>9. CASE Only([win EXCEPT !.touch = None, !.confirming = FALSE, !.pin = None])
  <2> DEFINE v == [win EXCEPT !.touch = None, !.confirming = FALSE, !.pin = None]
  <2>1. Trims(win, v) /\ v.confirm = win.confirm
    BY <1>2, Drops
  <2> HIDE DEF v
  <2> QED BY <1>2, <1>3, <1>9, <2>1, OnlyTrims DEF v
<1>10. CASE Selected(win) # None /\ Only(TouchAsked(win, p))
  <2>1. Adds(win, TouchAsked(win, p), p)
    BY <1>2, <1>4, <1>10, Asks
  <2> QED BY <1>2, <1>3, <1>10, <2>1, OnlyCore DEF Adds
<1>11. CASE Selected(win) # None /\ \E right \in BOOLEAN : Only(TypedPin(win, p, right))
  <2>1. PICK right \in BOOLEAN : Only(TypedPin(win, p, right))
    BY <1>11
  <2>2. Adds(win, TypedPin(win, p, right), p)
    BY <1>2, <1>4, <1>11, Asks
  <2> QED BY <1>2, <1>3, <2>1, <2>2, OnlyCore DEF Adds
<1>12. CASE HasPin(win) /\ PinRejected(x)
  <2>1. HasPin(x)
    BY <1>5, <1>12 DEF HasPin
  <2> QED BY <1>2, <1>3, <1>5, <1>12, <2>1, RejectedStep
<1>13. CASE Selected(win) # None /\ HasPin(win) /\ wrong' = 0 /\ FinishSelected(PinAccepted(x), p)
  <2> DEFINE v == PinAccepted(x)
  <2>1. HasPin(x)
    BY <1>5, <1>13 DEF HasPin
  <2>2. Trims(x, v) /\ v.confirm.failed = 0
    BY <1>6, <2>1, Counts
  <2> HIDE DEF v
  <2>3. Trims(win, v)
    BY <1>2, <1>5, <2>2, TrimTwice
  <2> QED BY <1>2, <1>3, <1>4, <1>13, <2>2, <2>3, SelectedStep DEF v
<1> QED BY <1>7, <1>8, <1>9, <1>10, <1>11, <1>12, <1>13 DEF ShowSecretConfirmation, p, x

(* show_discard_confirmation *)
LEMMA DiscardStep ==
  ASSUME DeskInv, ShowDiscardConfirmation PROVE DeskInv'
<1>1. Allowed /\ win.discarding
  BY DEF ShowDiscardConfirmation
<1>2. /\ frame.at = "modals" /\ WinType(win) /\ WinInv(win, session) /\ Open(win)
  BY <1>1, AllowedFacts
<1>3. Draws("discard", "approval") =>
        FrameInv(frame', win, session) /\ frame' \in Frames /\ frame'.at = "approval"
  BY <1>1, FrameMoves
<1>4. CASE Only(win) /\ Draws("discard", "approval")
  BY <1>2, <1>3, <1>4, OnlyKeeps
<1>5. CASE Only([win EXCEPT !.nav = None, !.discarding = FALSE]) /\ Draws("discard", "approval")
  <2> DEFINE v == [win EXCEPT !.nav = None, !.discarding = FALSE]
  <2>1. WinInv(v, session) /\ Open(v) /\ v.confirm = win.confirm /\ ~ v.discarding
    BY <1>2, Resumes
  <2> HIDE DEF v
  <2>2. FrameInv(frame', v, session)
    BY <1>3, <1>5, <2>1 DEF FrameInv, Open
  <2> QED BY <1>2, <1>3, <1>5, <2>1, <2>2, OnlyKeeps DEF v
<1>6. CASE Only(Applied(NavigatedNow(win, win.nav))) /\ (Goes("exit") \/ Draws("discard", "approval"))
  <2> DEFINE v == Applied(NavigatedNow(win, win.nav))
  <2>1. win.nav \in Pages
    BY <1>1, <1>2 DEF WinType, Windows
  <2>2. Turned(win, v)
    BY <1>2, <2>1, Navigates
  <2> HIDE DEF v
  <2>3. WinInv(v, session)
    BY <1>2, <2>2, TurnedKeeps
  <2>4. Open(v) /\ v.confirm = win.confirm /\ ~ v.discarding
    BY <1>2, <2>2 DEF Turned, Open
  <2>5. frame' \in Frames /\ frame'.at \in {"exit", "approval"}
    BY <1>3, <1>6, FrameFacts DEF DeskInv, OuterType, Steps, Modals
  <2>6. FrameInv(frame', v, session)
    BY <2>4, <2>5 DEF FrameInv, Open
  <2> QED BY <1>2, <1>6, <2>3, <2>4, <2>5, <2>6, OnlyKeeps DEF v
<1> QED BY <1>4, <1>5, <1>6 DEF ShowDiscardConfirmation

(* Neither modal is open *)
LEMMA NoConfirmationStep ==
  ASSUME DeskInv, NoConfirmation PROVE DeskInv'
<1>1. Allowed /\ ~ win.discarding /\ Only(win) /\ Goes("approval") /\ frame.at = "modals"
  BY DEF NoConfirmation, Allowed
<1>2. FrameInv(frame', win, session) /\ frame' \in Frames
  BY <1>1, FrameMoves
<1> QED BY <1>1, <1>2, OnlyKeeps DEF DeskInv

(* show_pending_approval: the request it read is the one it answers. *)
LEMMA PendingStep ==
  ASSUME DeskInv, ShowPendingApproval PROVE DeskInv'
<1>1. frame.at = "approval" /\ (Goes("unattended") \/ Draws("approval", "unattended"))
  BY DEF ShowPendingApproval
<1>2. FrameInv(frame', win, session) /\ frame' \in Frames /\ frame'.at = "unattended"
  BY <1>1, FrameMoves
<1>3. /\ WinType(win) /\ WinInv(win, session) /\ Open(win) /\ session \in Sessions \cup {None}
      /\ pend \in [request : Requests, session : Sessions] \cup {None}
  BY <1>1 DEF DeskInv, OuterType, WinInv, FrameInv, Open
<1>4. CASE Only(win)
  BY <1>1, <1>2, <1>3, <1>4, OnlyKeeps
<1>5. CASE Only(Focused(StaleTouchDropped(win, None), None))
  <2> DEFINE v == Focused(StaleTouchDropped(win, None), None)
  <2>1. Trims(win, v) /\ v.confirm = win.confirm
    BY <1>3, Refocuses
  <2> HIDE DEF v
  <2> QED BY <1>1, <1>2, <1>5, <2>1, OnlyTrims DEF v
<1> DEFINE p == ApprovalPrompt(pend.session, pend.request)
           w == Focused(StaleTouchDropped(win, p), pend.request)
           x == [w EXCEPT !.touch = None]
<1>6. ASSUME pend # None,
             \/ Only(w)
             \/ Only(BeginUnattended(w))
             \/ /\ pend' = None
                /\ win' = [w EXCEPT !.touch = None, !.pin = None]
                /\ UNCHANGED <<session, stored, app, locker, granted, ext, approved, wrong>>
             \/ Only(RejectStale(w))
             \/ Only(TouchAsked(w, p))
             \/ \E right \in BOOLEAN : Only(TypedPin(w, p, right))
             \/ HasPin(w) /\ PinRejected(x)
             \/ /\ HasPin(w) /\ wrong' = 0
                /\ \/ FinishApproval(PinAccepted(x), p)
                   \/ /\ win' = RejectStale(PinAccepted(w))
                      /\ pend' = None
                      /\ UNCHANGED <<session, stored, app, locker, granted, ext, approved>>
      PROVE  DeskInv'
  <2>1. p \in Prompts /\ pend.request \in Requests
    BY <1>3, <1>6, PromptFacts
  <2>2. Trims(win, w) /\ w.confirm = win.confirm
    BY <1>3, <2>1, Refocuses
  <2> HIDE DEF p, w
  <2>3. WinType(w) /\ WinInv(w, session) /\ Open(w)
    BY <1>3, <2>2, TrimKeeps DEF WinInv, Trims, Core, Open
  <2>4. FrameInv(frame', w, session)
    BY <1>2, <2>2, FrameSame DEF Trims, Core
  <2>5. Trims(w, x) /\ x.confirm = w.confirm
    BY <2>3, Drops
  <2> HIDE DEF x
  <2>6. Trims(win, x) /\ WinType(x)
    BY <1>3, <2>2, <2>3, <2>5, TrimTwice, TrimTyped
  <2>7. ASSUME NEW v, Only(v), Core(w, v), v.confirm = w.confirm PROVE DeskInv'
    <3>1. WinInv(v, session)
      BY <2>3, <2>7, OpenKeeps
    <3>2. FrameInv(frame', v, session)
      BY <2>4, <2>7, FrameSame DEF Core
    <3> QED BY <1>1, <1>2, <2>2, <2>7, <3>1, <3>2, OnlyKeeps
  <2>8. CASE Only(w)
    BY <1>1, <1>2, <2>2, <2>8, OnlyTrims
  <2>9. CASE Only(BeginUnattended(w))
    BY <1>3, <2>3, <2>7, <2>9, BeginsUnattended
  <2>10. CASE /\ pend' = None
              /\ win' = [w EXCEPT !.touch = None, !.pin = None]
              /\ UNCHANGED <<session, stored, app, locker, granted, ext, approved, wrong>>
    <3>1. Trims(w, win') /\ win'.confirm = w.confirm
      BY <2>3, <2>10, Drops
    <3>2. WinInv(win', session) /\ FrameInv(frame', win', session)
      BY <2>3, <2>4, <3>1, TrimKeeps, FrameSame DEF Trims, Core
    <3>3. OuterType'
      BY <1>2, <2>10 DEF DeskInv, OuterType
    <3>4. Counted(win.confirm, wrong, win'.confirm, wrong')
      BY <2>2, <2>10, <3>1 DEF Counted
    <3> QED BY <1>1, <2>10, <3>2, <3>3, <3>4, HandlerKeeps
  <2>11. ASSUME NEW y, WinInv(y, session), y.lock = Active, y.discarding = w.discarding
         PROVE  /\ WinInv(RejectStale(y), session) /\ FrameInv(frame', RejectStale(y), session)
                /\ session # None => RejectStale(y).confirm = y.confirm
    <3> DEFINE v == RejectStale(y)
    <3>1. /\ WinInv(v, session) /\ v.lock = Active
          /\ session # None => v.confirm = y.confirm
          /\ v.discarding => y.discarding
      BY <2>11, Rejects
    <3> HIDE DEF v
    <3>2. FrameInv(frame', v, session)
      BY <1>2, <2>4, <2>11, <3>1 DEF FrameInv
    <3> QED BY <3>1, <3>2 DEF v
  <2>12. CASE Only(RejectStale(w))
    <3> DEFINE v == RejectStale(w)
    <3>1. WinInv(v, session) /\ FrameInv(frame', v, session) /\ (session # None => v.confirm = w.confirm)
      BY <2>3, <2>11 DEF Open
    <3> HIDE DEF v
    <3> QED BY <1>1, <1>2, <2>2, <2>12, <3>1, OnlyKeeps DEF v
  <2>13. CASE Only(TouchAsked(w, p))
    BY <2>1, <2>3, <2>7, <2>13, Asks DEF Adds
  <2>14. CASE \E right \in BOOLEAN : Only(TypedPin(w, p, right))
    BY <2>1, <2>3, <2>7, <2>14, Asks DEF Adds
  <2>15. CASE HasPin(w) /\ PinRejected(x)
    <3>1. HasPin(x) /\ x.confirm = win.confirm
      BY <2>2, <2>5, <2>15 DEF HasPin
    <3> QED BY <1>1, <1>2, <2>6, <2>15, <3>1, RejectedStep
  <2>16. CASE HasPin(w) /\ wrong' = 0 /\ FinishApproval(PinAccepted(x), p)
    <3> DEFINE v == PinAccepted(x)
    <3>1. HasPin(x)
      BY <2>5, <2>16 DEF HasPin
    <3>2. Trims(x, v) /\ v.confirm.failed = 0
      BY <2>6, <3>1, Counts
    <3> HIDE DEF v
    <3>3. Trims(win, v)
      BY <1>3, <2>6, <3>2, TrimTwice
    <3> QED BY <1>1, <1>2, <2>1, <2>16, <3>2, <3>3, ApprovedStep DEF v
  <2>17. CASE /\ HasPin(w) /\ wrong' = 0 /\ win' = RejectStale(PinAccepted(w)) /\ pend' = None
              /\ UNCHANGED <<session, stored, app, locker, granted, ext, approved>>
    <3> DEFINE y == PinAccepted(w)
    <3>1. Trims(w, y) /\ y.confirm.failed = 0
      BY <2>3, <2>17, Counts
    <3> HIDE DEF y
    <3>2. WinInv(y, session) /\ y.lock = Active /\ y.discarding = w.discarding
      BY <2>3, <3>1, TrimKeeps DEF Trims, Core, Open
    <3>3. WinInv(win', session) /\ FrameInv(frame', win', session) /\ (session # None => win'.confirm = y.confirm)
      BY <2>11, <2>17, <3>2 DEF y
    <3>4. OuterType'
      BY <1>2, <2>17, DesktopAssumption DEF DeskInv, OuterType
    <3>5. session # None => Counted(win.confirm, wrong, win'.confirm, wrong')
      BY <2>17, <3>1, <3>3 DEF Counted
    <3> QED BY <1>1, <2>17, <3>3, <3>4, <3>5, HandlerKeeps
  <2> QED BY <1>6, <2>8, <2>9, <2>10, <2>12, <2>13, <2>14, <2>15, <2>16, <2>17
<1> QED BY <1>4, <1>5, <1>6 DEF ShowPendingApproval

(* show_unattended_confirmation, authenticate_unattended *)
LEMMA ShowUnattendedStep ==
  ASSUME DeskInv, ShowUnattended PROVE DeskInv'
<1>1. frame.at = "unattended" /\ (Goes("begin") \/ Draws("unattended", "begin"))
  BY DEF ShowUnattended
<1>2. FrameInv(frame', win, session) /\ frame' \in Frames /\ frame'.at = "begin"
  BY <1>1, FrameMoves
<1>3. WinType(win) /\ WinInv(win, session) /\ win.lock = Active
  BY <1>1 DEF DeskInv, WinInv, FrameInv
<1>4. CASE Only(win)
  BY <1>1, <1>2, <1>3, <1>4, OnlyKeeps
<1> DEFINE p == UnattendedPrompt(win.unattended)
<1>5. ASSUME win.unattended # None,
             \/ Only([win EXCEPT !.unattended = None, !.touch = None, !.pin = None])
             \/ Only([RejectStale(win) EXCEPT !.unattended = None])
             \/ Only(TouchAsked(win, p))
             \/ \E right \in BOOLEAN : Only(TypedPin(win, p, right))
             \/ HasPin(win) /\ PinRejected(win)
             \/ HasPin(win) /\ wrong' = 0 /\ FinishUnattended(PinAccepted(win), p)
      PROVE  DeskInv'
  <2>1. p \in Prompts
    BY <1>3, <1>5, PromptFacts DEF WinType, Windows
  <2>2. Open(win)
    BY <1>3, <1>5 DEF WinInv, WinType, Windows, QuietPart, Quiet, Empty, Open
  <2> HIDE DEF p
  <2>3. CASE Only([win EXCEPT !.unattended = None, !.touch = None, !.pin = None])
    <3> DEFINE v == [win EXCEPT !.unattended = None, !.touch = None, !.pin = None]
    <3>1. Trims(win, v) /\ v.confirm = win.confirm
      BY <1>3, Drops
    <3> HIDE DEF v
    <3> QED BY <1>1, <1>2, <2>3, <3>1, OnlyTrims DEF v
  <2>4. CASE Only([RejectStale(win) EXCEPT !.unattended = None])
    <3> DEFINE y == RejectStale(win)
               v == [y EXCEPT !.unattended = None]
    <3>1. /\ WinInv(y, session) /\ (session # None => y.confirm = win.confirm)
          /\ y.discarding => win.discarding
      BY <1>3, Rejects
    <3> HIDE DEF y
    <3>2. Trims(y, v) /\ v.confirm = y.confirm
      BY <3>1, Drops DEF WinInv
    <3> HIDE DEF v
    <3>3. WinInv(v, session) /\ (v.discarding => win.discarding)
      BY <3>1, <3>2, TrimKeeps DEF Trims, Core
    <3>4. FrameInv(frame', v, session)
      BY <1>2, <3>3 DEF FrameInv
    <3> QED BY <1>1, <1>2, <2>4, <3>1, <3>2, <3>3, <3>4, OnlyKeeps DEF v, y
  <2>5. CASE Only(TouchAsked(win, p))
    <3>1. Adds(win, TouchAsked(win, p), p)
      BY <1>3, <2>1, Asks
    <3> QED BY <1>1, <1>2, <2>2, <2>5, <3>1, OnlyCore DEF Adds
  <2>6. CASE \E right \in BOOLEAN : Only(TypedPin(win, p, right))
    <3>1. PICK right \in BOOLEAN : Only(TypedPin(win, p, right))
      BY <2>6
    <3>2. Adds(win, TypedPin(win, p, right), p)
      BY <1>3, <2>1, Asks
    <3> QED BY <1>1, <1>2, <2>2, <3>1, <3>2, OnlyCore DEF Adds
  <2>7. Trims(win, win)
    BY <1>3, Drops
  <2>8. CASE HasPin(win) /\ PinRejected(win)
    BY <1>1, <1>2, <2>7, <2>8, RejectedStep
  <2>9. CASE HasPin(win) /\ wrong' = 0 /\ FinishUnattended(PinAccepted(win), p)
    <3> DEFINE v == PinAccepted(win)
    <3>1. Trims(win, v) /\ v.confirm.failed = 0
      BY <1>3, <2>9, Counts
    <3> HIDE DEF v
    <3>2. Counted(win.confirm, wrong, v.confirm, wrong')
      BY <2>9, <3>1 DEF Counted
    <3> QED BY <1>1, <1>2, <2>9, <3>1, <3>2, UnattendedStep DEF v
  <2> QED BY <1>5, <2>3, <2>4, <2>5, <2>6, <2>8, <2>9
<1> QED BY <1>4, <1>5 DEF ShowUnattended

(* A new window has nothing in it. *)
LEMMA FreshFacts ==
  ASSUME NEW s
  PROVE  /\ WinInv(FreshWindow, s) /\ FirstFrame \in Frames /\ FrameInv(FirstFrame, FreshWindow, s)
         /\ FreshWindow.confirm = None /\ FirstFrame.at = "begin"
<1> DEFINE w == FreshWindow
<1>1. "add" \in Pages /\ 0 \in 0 .. SelectionWidth - 1 /\ Active \in LockStates
      /\ Active.state = "active"
  BY DesktopAssumption, LockFacts DEF Pages
<1>2. w \in Windows
  BY <1>1 DEF FreshWindow, Windows
<1>3. /\ Quiet(w) /\ w.deleting = None /\ w.nav = None /\ ~ w.discarding /\ ~ w.pinShown
      /\ w.lock = Active /\ w.attempt = None /\ w.confirm = None /\ w.mode = "hidden"
  BY DEF FreshWindow, Quiet, Empty
<1>4. FirstFrame \in Frames /\ FirstFrame.at = "begin"
  BY DEF FirstFrame, Frames, Steps, Modals
<1> HIDE DEF w
<1>5. WinType(w)
  BY <1>1, <1>2, <1>3 DEF WinType
<1>6. LockedPart(w) /\ QuietPart(w) /\ ValuePart(w, s)
  BY <1>3 DEF LockedPart, QuietPart, ValuePart
<1>7. FrameInv(FirstFrame, w, s)
  BY <1>3, <1>4 DEF FrameInv
<1> QED BY <1>3, <1>4, <1>5, <1>6, <1>7 DEF WinInv, w

(* on_exit, and the next start *)
LEMMA ExitStep ==
  ASSUME DeskInv, Exit PROVE DeskInv'
<1>1. OuterType'
  BY LockFacts, FreshFacts, DesktopAssumption DEF Exit, DeskInv, OuterType
<1>2. WinInv(win', session') /\ FrameInv(frame', win', session')
  BY FreshFacts DEF Exit
<1>3. WrongInv(session', ext', wrong', win'.confirm, frame'.at)
  BY DEF Exit, WrongInv
<1> QED BY <1>1, <1>2, <1>3 DEF DeskInv

-----------------------------------------------------------------------------
(* The other threads, between any two steps of the frame.                  *)

(* They leave the window, and close the vault but never open it. *)
LEMMA OtherThreads ==
  ASSUME DeskInv, ExternalRequest \/ ExternalLock \/ FinishAppLock \/ Ask \/ Withdraw
  PROVE  DeskInv'
<1>1. win' = win /\ frame' = frame /\ wrong' = wrong /\ session' \in {session, None}
  BY DEF ExternalRequest, ExternalLock, FinishAppLock, Ask, Withdraw, broker
<1>2. OuterType'
  <2>1. CASE ExternalRequest
    BY <1>1, <2>1 DEF ExternalRequest, DeskInv, OuterType, broker
  <2>2. CASE ExternalLock
    BY <1>1, <2>2, LockFacts DEF ExternalLock, DeskInv, OuterType
  <2>3. CASE FinishAppLock
    <3>1. locker \in [epoch : LockEpochs, done : BOOLEAN]
      BY <2>3 DEF FinishAppLock, LockerBusy, DeskInv, OuterType
    <3>2. locker.epoch \in LockEpochs /\ locker' \in [epoch : LockEpochs, done : BOOLEAN]
      BY <2>3, <3>1 DEF FinishAppLock
    <3>3. app' \in LockStates
      BY <2>3, <3>2, LockFacts DEF FinishAppLock, DeskInv, OuterType
    <3> QED BY <1>1, <2>3, <3>2, <3>3 DEF FinishAppLock, DeskInv, OuterType
  <2>4. CASE Ask
    BY <1>1, <2>4 DEF Ask, DeskInv, OuterType
  <2>5. CASE Withdraw
    BY <1>1, <2>5 DEF Withdraw, DeskInv, OuterType
  <2> QED BY <2>1, <2>2, <2>3, <2>4, <2>5
<1>3. WinInv(win', session')
  BY <1>1 DEF DeskInv, WinInv, ValuePart
<1>4. FrameInv(frame', win', session')
  BY <1>1 DEF DeskInv, FrameInv
<1>5. WrongInv(session', ext', wrong', win'.confirm, frame'.at)
  <2>1. ext' = ext \/ ext' = "requested" \/ session' = None
    BY DEF ExternalRequest, ExternalLock, FinishAppLock, Ask, Withdraw
  <2> QED BY <1>1, <2>1 DEF DeskInv, WrongInv
<1> QED BY <1>2, <1>3, <1>4, <1>5 DEF DeskInv

(* The sensor's answer *)
LEMMA TouchAnswerStep ==
  ASSUME DeskInv, TouchAnswer PROVE DeskInv'
<1>1. PICK r \in {"ok", "failed"} : win' = [win EXCEPT !.touch.result = r]
  BY DEF TouchAnswer
<1>2. /\ win.touch # None /\ UNCHANGED <<session, stored, app, locker, pend, granted, ext, approved, frame, wrong>>
      /\ WinType(win)
  BY DEF TouchAnswer, broker, DeskInv, WinInv
<1>3. Trims(win, win') /\ win'.confirm = win.confirm
  BY <1>1, <1>2, Answered
<1>4. OuterType'
  BY <1>2 DEF DeskInv, OuterType
<1>5. WinInv(win', session') /\ FrameInv(frame', win', session')
  BY <1>2, <1>3, TrimKeeps, FrameSame DEF DeskInv, Trims, Core
<1>6. WrongInv(session', ext', wrong', win'.confirm, frame'.at)
  BY <1>2, <1>3 DEF DeskInv
<1> QED BY <1>4, <1>5, <1>6 DEF DeskInv

-----------------------------------------------------------------------------
(* The theorems.                                                           *)

(* The invariant holds at the start. *)
LEMMA DeskInit ==
  ASSUME Init PROVE DeskInv
<1>1. OuterType
  BY LockFacts, FreshFacts, DesktopAssumption DEF Init, OuterType
<1>2. WinInv(win, session) /\ FrameInv(frame, win, session)
  BY FreshFacts DEF Init
<1>3. WrongInv(session, ext, wrong, win.confirm, frame.at)
  BY DEF Init, WrongInv
<1> QED BY <1>1, <1>2, <1>3 DEF DeskInv

(* Every step keeps the invariant. *)
LEMMA DeskNext ==
  ASSUME DeskInv, [Next]_vars PROVE DeskInv'
<1>1. CASE UNCHANGED vars
  BY <1>1 DEF vars, DeskInv, OuterType
<1>2. CASE ShowUnlocked
  BY <1>2, NavigateStep, EditDraftStep, SaveDraftStep, AskUnlockStep, DetailStep, DeleteStep,
     ManageSessionsStep, LockButtonStep, WatchStep DEF ShowUnlocked
<1>3. CASE FrameStep
  BY <1>2, <1>3, BeginStep, ExternalStep, IdleStep, AppLockStep, TouchStep, SyncStep, ShowLockedStep,
     ShowAppLockingStep, ShowAppLockedStep, SetupStep, DenyStep, HiddenStep, SecretStep, DiscardStep,
     NoConfirmationStep, PendingStep, ShowUnattendedStep, ExitStep DEF FrameStep
<1>4. CASE ~ FrameStep /\ Next
  BY <1>4, OtherThreads, TouchAnswerStep DEF Next
<1> QED BY <1>1, <1>3, <1>4

(* The invariant of the window holds in every reachable state. *)
THEOREM DeskAlways == Spec => []DeskInv
<1>1. Init => DeskInv
  BY DeskInit
<1>2. DeskInv /\ [Next]_vars => DeskInv'
  BY DeskNext
<1> QED BY <1>1, <1>2, PTL DEF Spec

(* The variables always have their types; a deletion is asked about the    *)
(* secret on the page, and a discard about a navigation that waits.        *)
THEOREM TypesAlways == Spec => []TypeOK
<1>1. DeskInv => TypeOK
  <2> SUFFICES ASSUME DeskInv PROVE TypeOK
    OBVIOUS
  <2>1. OuterType /\ WinType(win)
    BY DEF DeskInv, WinInv
  <2>2. frame.at \in Steps /\ frame.seen \in BOOLEAN /\ frame.top \in Modals /\ frame.next \in Modals
    BY <2>1 DEF OuterType, Frames
  <2> QED BY <2>1, <2>2 DEF TypeOK, OuterType, WinType, Windows, Modals, Confirmations, Touches, Pins
<1> QED BY <1>1, DeskAlways, PTL

(* LockedHoldsNothing: no lock, of the interface or of the vault, by        *)
(* whichever thread and in whatever dialog, leaves anything of the user's  *)
(* in the window (clear_for_app_lock, clear_sensitive_state).              *)
THEOREM LocksLeaveNothing == Spec => []LockedHoldsNothing
<1>1. DeskInv => LockedHoldsNothing
  BY DEF DeskInv, WinInv, LockedPart, QuietPart, Quiet, LockedHoldsNothing
<1> QED BY <1>1, DeskAlways, PTL

(* ValuesAreAuthorized: a value in the window belongs to the secret that   *)
(* is authorized, in the vault session it was authorized in, and it is     *)
(* gone once the window has noticed the end of the session                 *)
(* (begin_with_draft, synchronize_phase).                                  *)
THEOREM ValuesStayAuthorized == Spec => []ValuesAreAuthorized
<1>1. DeskInv => ValuesAreAuthorized
  <2> SUFFICES ASSUME DeskInv, win.mode # "hidden" PROVE
        /\ win.authorized = SecretPrompt(win.authorized.session, win.page, win.sel)
        /\ session # win.authorized.session => session = None /\ win.phase
    BY DEF ValuesAreAuthorized
  <2> QED BY DEF DeskInv, WinInv, WinType, Windows, ValuePart, QuietPart, Quiet, Empty
<1> QED BY <1>1, DeskAlways, PTL

(* WrongPinsLock: MaxFailedPins wrong PINs in a row, typed at whichever     *)
(* prompts of a vault session, leave the vault closed or a client's lock   *)
(* under way that closes it (verify_pin, lock_immediately).                *)
THEOREM WrongPinsAlwaysLock == Spec => []WrongPinsLock
<1>1. DeskInv => WrongPinsLock
  <2> SUFFICES ASSUME DeskInv, session # None, ext = "none" PROVE wrong < MaxFailedPins
    BY DEF WrongPinsLock
  <2>1. MaxFailedPins \in Nat \ {0} /\ wrong \in Nat
    BY DesktopAssumption DEF DeskInv, OuterType
  <2>2. win.confirm # None => win.confirm.failed \in 0 .. MaxFailedPins - 1
    BY DEF DeskInv, WinInv, WinType, Windows, Confirmations
  <2>3. IF win.confirm = None THEN wrong = 0 ELSE wrong <= win.confirm.failed
    BY DEF DeskInv, WrongInv
  <2> QED BY <2>1, <2>2, <2>3
<1> QED BY <1>1, DeskAlways, PTL

-----------------------------------------------------------------------------
(* Whatever the window opens or grants was confirmed at the prompt for     *)
(* exactly that (ConsentIsForThisPrompt).  The fingerprint request carries *)
(* the prompt it is for, and the handler that takes its answer looks at    *)
(* that prompt again.  The PIN buffer does not, and four prompts share it: *)
(* the invariant says at which prompt a PIN that is still in the buffer    *)
(* was typed, and that this is the prompt whose handler will take it.      *)

(* The PIN in the window w was typed at the prompt that is in front, in    *)
(* the vault session s and for the published request q.                    *)
PinInv(w, s, q) ==
  w.pin # None =>
    /\ w.lock # Active => /\ w.pin.at = AppPrompt(w.pin.at.session, w.lock.epoch)
                          /\ s \in {None, w.pin.at.session}
    /\ w.lock = Active =>
         \/ /\ w.pin.at = Attempt(w, w.pin.at.session) /\ s \in {None, w.pin.at.session}
            /\ w.confirming /\ w.focused = None /\ w.unattended = None
         \/ /\ w.pin.at = ApprovalPrompt(w.pin.at.session, w.focused)
            /\ w.focused # None /\ w.unattended = None
            /\ q # None /\ q.request = w.focused => q.session = w.pin.at.session
         \/ w.pin.at = UnattendedPrompt(w.unattended) /\ w.unattended # None

(* Where a click may go to the question for a secret, the window shows no  *)
(* request and does not ask for unattended access.                         *)
TopInv(f, w) ==
  /\ f.at \in {"external", "idle", "applock", "touch", "sync", "show", "modals"} => f.next = "none"
  /\ \/ f.at = "begin" /\ f.next = "secret"
     \/ /\ f.at \in {"external", "idle", "applock", "touch", "sync", "show", "modals"}
        /\ f.top = "secret"
     => w.focused = None /\ w.unattended = None
  /\ f.at = "unattended" /\ f.next = "secret" => w.focused = None \/ w.unattended # None

(* The invariant behind consent. *)
ConsInv == PinInv(win, session, pend) /\ TopInv(frame, win)

(* What ConsentIsForThisPrompt says of a step. *)
Consented ==
  /\ win'.authorized \notin {None, win.authorized} => Evidence(win'.authorized)
  /\ (win.lock.state = "locked" /\ win'.lock = Active /\ win'.confirm # None)
       => Evidence(AppPrompt(session, win.lock.epoch))
  /\ approved' \notin {None, approved} => Evidence(approved')
  /\ granted' \notin {None, granted} => Evidence(UnattendedPrompt(granted'))

(* The PIN is dropped, or it and what it belongs to stay. *)
PinKept(w, v) ==
  v.pin # None => /\ v.pin = w.pin /\ v.lock = w.lock /\ v.page = w.page /\ v.sel = w.sel
                  /\ v.confirming = w.confirming /\ v.focused = w.focused
                  /\ v.unattended = w.unattended

(* No request is shown that was not, and no question asked. *)
Unfocused(w, v) == w.focused = None /\ w.unattended = None => v.focused = None /\ v.unattended = None

(* Changes that open nothing. *)
Plain(w, v) ==
  /\ PinKept(w, v) /\ v.authorized \in {None, w.authorized}
  /\ w.lock.state = "locked" /\ v.lock = Active => v.confirm = None
Same(w, v) ==
  /\ PinKept(w, v) /\ v.authorized \in {None, w.authorized} /\ v.lock = w.lock /\ Unfocused(w, v)

(* A window that keeps its lock is not opened. *)
LEMMA SamePlain ==
  ASSUME NEW w, NEW v, Same(w, v) PROVE Plain(w, v)
<1>1. Active.state = "active"
  BY LockFacts
<1> QED BY <1>1 DEF Same, Plain

(* Two such changes are one. *)
LEMMA SameTwice ==
  ASSUME NEW u, NEW v, NEW w, Same(u, v), Same(v, w) PROVE Same(u, w)
  BY DEF Same, PinKept, Unfocused

(* A step that opens nothing keeps the invariant and needs no consent. *)
LEMMA PlainStep ==
  ASSUME ConsInv, session' \in {session, None}, pend' \in {pend, None},
         approved' \in {approved, None}, granted' \in {granted, None},
         Plain(win, win'), TopInv(frame', win')
  PROVE  ConsInv' /\ Consented
<1>1. PinInv(win', session', pend')
  <2>1. CASE win'.pin = None
    BY <2>1 DEF PinInv
  <2>2. CASE win'.pin # None
    <3>1. /\ win'.pin = win.pin /\ win'.lock = win.lock /\ win'.page = win.page /\ win'.sel = win.sel
          /\ win'.confirming = win.confirming /\ win'.focused = win.focused
          /\ win'.unattended = win.unattended
      BY <2>2 DEF Plain, PinKept
    <3> QED BY <2>2, <3>1 DEF ConsInv, PinInv, Attempt
  <2> QED BY <2>1, <2>2
<1>2. Consented
  BY DEF Consented, Plain
<1> QED BY <1>1, <1>2 DEF ConsInv

(* The point of the frame, for a window that shows no more than before. *)
LEMMA TopSame ==
  ASSUME NEW f, NEW w, NEW v, TopInv(f, w),
         \/ Unfocused(w, v) /\ f.at # "unattended"
         \/ v.focused = None /\ v.unattended = None
         \/ v.focused = w.focused /\ v.unattended = w.unattended
  PROVE  TopInv(f, v)
  BY DEF TopInv, Unfocused

(* From one handler to the next, for the window as it is. *)
LEMMA TopMoves ==
  ASSUME DeskInv, ConsInv
  PROVE  /\ \A step \in {"idle", "applock", "touch", "sync"} :
              frame.at \in {"external", "idle", "applock", "touch"} /\ Goes(step)
                => TopInv(frame', win) /\ frame'.at # "unattended"
         /\ frame.at = "show" /\ (Goes("modals") \/ Goes("begin"))
              => TopInv(frame', win) /\ frame'.at # "unattended"
         /\ frame.at = "modals" /\ (\/ Goes("begin") \/ Goes("approval") \/ Goes("exit")
                                    \/ Draws("secret", "approval") \/ Draws("discard", "approval"))
              => TopInv(frame', win) /\ frame'.at # "unattended"
         /\ frame.at = "unattended" /\ (\/ win.unattended = None /\ Goes("begin")
                                        \/ Draws("unattended", "begin"))
              => TopInv(frame', win) /\ frame'.at # "unattended"
<1>1. frame \in Frames /\ TopInv(frame, win)
  BY DEF DeskInv, OuterType, ConsInv
<1>2. /\ {"idle", "applock", "touch", "sync", "modals", "begin", "approval", "unattended", "exit"} \subseteq Steps
      /\ {"secret", "discard", "approval", "unattended"} \subseteq Modals
  BY DEF Steps, Modals
<1>3. ASSUME NEW step \in {"idle", "applock", "touch", "sync"},
             frame.at \in {"external", "idle", "applock", "touch"}, Goes(step)
      PROVE  TopInv(frame', win) /\ frame'.at # "unattended"
  <2>1. frame'.at = step /\ frame'.top = frame.top /\ frame'.next = frame.next
    BY <1>1, <1>2, <1>3, FrameFacts
  <2> QED BY <1>1, <1>3, <2>1 DEF TopInv
<1>4. ASSUME frame.at = "show", Goes("modals") \/ Goes("begin")
      PROVE  TopInv(frame', win) /\ frame'.at # "unattended"
  <2>1. frame'.at \in {"modals", "begin"} /\ frame'.top = frame.top /\ frame'.next = frame.next
    BY <1>1, <1>2, <1>4, FrameFacts
  <2> QED BY <1>1, <1>4, <2>1 DEF TopInv
<1>5. ASSUME frame.at = "modals", \/ Goes("begin") \/ Goes("approval") \/ Goes("exit")
                                  \/ Draws("secret", "approval") \/ Draws("discard", "approval")
      PROVE  TopInv(frame', win) /\ frame'.at # "unattended"
  <2>1. \/ frame'.at \in {"begin", "approval", "exit"} /\ frame'.next = frame.next
        \/ frame'.at = "approval"
    BY <1>1, <1>2, <1>5, FrameFacts
  <2> QED BY <1>1, <1>5, <2>1 DEF TopInv
<1>6. ASSUME frame.at = "unattended", \/ win.unattended = None /\ Goes("begin")
                                      \/ Draws("unattended", "begin")
      PROVE  TopInv(frame', win) /\ frame'.at # "unattended"
  <2>1. \/ frame'.at = "begin" /\ frame'.next = frame.next /\ win.unattended = None
        \/ frame'.at = "begin" /\ frame'.next = "unattended"
    BY <1>1, <1>2, <1>6, FrameFacts
  <2> QED BY <1>1, <1>6, <2>1 DEF TopInv
<1> QED BY <1>3, <1>4, <1>5, <1>6

(* A handler that changes the window's fields only, and opens nothing. *)
LEMMA OnlySame ==
  ASSUME ConsInv, NEW v, Only(v), Same(win, v), TopInv(frame', win), frame'.at # "unattended"
  PROVE  ConsInv' /\ Consented
<1>1. win' = v /\ UNCHANGED <<session, pend, granted, approved>>
  BY DEF Only, broker
<1>2. Plain(win, win') /\ TopInv(frame', win')
  BY <1>1, SamePlain, TopSame DEF Same
<1> QED BY <1>1, <1>2, PlainStep


(* The fields that the handlers change open nothing. *)
LEMMA SameFields ==
  ASSUME NEW w \in Windows, NEW a, NEW b
  PROVE  /\ Same(w, w)
         /\ Same(w, [w EXCEPT !.pin = None])
         /\ Same(w, [w EXCEPT !.touch = None])
         /\ Same(w, [w EXCEPT !.touch = None, !.pin = None])
         /\ Same(w, [w EXCEPT !.pin = None, !.touch = None])
         /\ Same(w, [w EXCEPT !.confirming = FALSE, !.pin = None])
         /\ Same(w, [w EXCEPT !.touch = None, !.confirming = FALSE, !.pin = None])
         /\ Same(w, [w EXCEPT !.unattended = None, !.touch = None, !.pin = None])
         /\ Same(w, [w EXCEPT !.unattended = None, !.pin = None])
         /\ Same(w, [w EXCEPT !.touch = None, !.pin = None, !.pinShown = TRUE])
         /\ Same(w, [w EXCEPT !.confirming = TRUE, !.pin = None])
         /\ Same(w, [w EXCEPT !.nav = a, !.discarding = b])
         /\ Same(w, [w EXCEPT !.draft = b])
         /\ Same(w, [w EXCEPT !.mode = a])
         /\ Same(w, [w EXCEPT !.deleting = a])
         /\ Same(w, [w EXCEPT !.confirm = a])
         /\ Same(w, [w EXCEPT !.touch = a])
         /\ Same(w, [w EXCEPT !.touch.result = a])
         /\ Same(w, [w EXCEPT !.pinShown = b])
         /\ Same(w, [w EXCEPT !.phase = b])
         /\ Same(w, [w EXCEPT !.confirm.failed = 0])
         /\ Same(w, [w EXCEPT !.pin = None, !.confirm.failed = a])
<1>1. Same(w, w)
  BY DEF Same, PinKept, Unfocused
<1>2. Same(w, [w EXCEPT !.pin = None])
  BY DEF Same, PinKept, Unfocused, Windows
<1>3. Same(w, [w EXCEPT !.touch = None])
  BY DEF Same, PinKept, Unfocused, Windows
<1>4. Same(w, [w EXCEPT !.touch = None, !.pin = None])
  BY DEF Same, PinKept, Unfocused, Windows
<1>5. Same(w, [w EXCEPT !.pin = None, !.touch = None])
  BY DEF Same, PinKept, Unfocused, Windows
<1>6. Same(w, [w EXCEPT !.confirming = FALSE, !.pin = None])
  BY DEF Same, PinKept, Unfocused, Windows
<1>7. Same(w, [w EXCEPT !.touch = None, !.confirming = FALSE, !.pin = None])
  BY DEF Same, PinKept, Unfocused, Windows
<1>8. Same(w, [w EXCEPT !.unattended = None, !.touch = None, !.pin = None])
  BY DEF Same, PinKept, Unfocused, Windows
<1>9. Same(w, [w EXCEPT !.unattended = None, !.pin = None])
  BY DEF Same, PinKept, Unfocused, Windows
<1>10. Same(w, [w EXCEPT !.touch = None, !.pin = None, !.pinShown = TRUE])
  BY DEF Same, PinKept, Unfocused, Windows
<1>11. Same(w, [w EXCEPT !.confirming = TRUE, !.pin = None])
  BY DEF Same, PinKept, Unfocused, Windows
<1>12. Same(w, [w EXCEPT !.nav = a, !.discarding = b])
  BY DEF Same, PinKept, Unfocused, Windows
<1>13. Same(w, [w EXCEPT !.draft = b])
  BY DEF Same, PinKept, Unfocused, Windows
<1>14. Same(w, [w EXCEPT !.mode = a])
  BY DEF Same, PinKept, Unfocused, Windows
<1>15. Same(w, [w EXCEPT !.deleting = a])
  BY DEF Same, PinKept, Unfocused, Windows
<1>16. Same(w, [w EXCEPT !.confirm = a])
  BY DEF Same, PinKept, Unfocused, Windows
<1>17. Same(w, [w EXCEPT !.touch = a])
  BY DEF Same, PinKept, Unfocused, Windows
<1>18. Same(w, [w EXCEPT !.touch.result = a])
  BY DEF Same, PinKept, Unfocused, Windows
<1>19. Same(w, [w EXCEPT !.pinShown = b])
  BY DEF Same, PinKept, Unfocused, Windows
<1>20. Same(w, [w EXCEPT !.phase = b])
  BY DEF Same, PinKept, Unfocused, Windows
<1>21. Same(w, [w EXCEPT !.confirm.failed = 0])
  BY DEF Same, PinKept, Unfocused, Windows
<1>22. Same(w, [w EXCEPT !.pin = None, !.confirm.failed = a])
  BY DEF Same, PinKept, Unfocused, Windows
<1> QED BY <1>1, <1>2, <1>3, <1>4, <1>5, <1>6, <1>7, <1>8, <1>9, <1>10, <1>11, <1>12, <1>13, <1>14, <1>15, <1>16, <1>17, <1>18, <1>19, <1>20, <1>21, <1>22

(* Clearing leaves no PIN, no prompt and no authorization. *)
LEMMA ClearedOpensNothing ==
  ASSUME NEW w \in Windows, NEW u
  PROVE  /\ LET v == ClearedState(w) IN Plain(u, v) /\ v.focused = None /\ v.unattended = None
         /\ LET v == [ClearedState(w) EXCEPT !.phase = FALSE] IN
            Plain(u, v) /\ v.focused = None /\ v.unattended = None
         /\ u.lock = w.lock => LET v == ClearedBuffers(w) IN
                               Plain(u, v) /\ v.focused = None /\ v.unattended = None
         /\ \A e \in LockEpochs :
              LET v == [ClearedBuffers(w) EXCEPT !.lock = Locking(e), !.attempt = e] IN
              Plain(u, v) /\ v.focused = None /\ v.unattended = None
<1> DEFINE c == ClearedBuffers(w)
           z == ClearedState(w)
<1>1. /\ c \in Windows /\ c.pin = None /\ c.authorized = None /\ c.unattended = None /\ c.lock = w.lock
      /\ c.focused = None
  <2>1. c \in Windows /\ c.pin = None /\ Empty(c) /\ c.lock = w.lock
    BY ClearedBuffersFacts
  <2>2. c.focused = None
    BY DEF ClearedBuffers, Windows
  <2> QED BY <2>1, <2>2 DEF Empty
<1>2. /\ z \in Windows /\ z.pin = None /\ z.authorized = None /\ z.unattended = None /\ z.confirm = None
      /\ z.focused = None
  <2>1. z \in Windows /\ Quiet(z)
    BY ClearedStateFacts
  <2> HIDE DEF c
  <2>2. [c EXCEPT !.confirm = None, !.lock = Active, !.attempt = None].focused = None
    BY <1>1 DEF Windows
  <2>3. z.focused = None
    BY <2>2 DEF ClearedState, c
  <2> QED BY <2>1, <2>3 DEF Quiet, Empty
<1>3. Active.state = "active" /\ \A e \in LockEpochs : Locking(e) # Active
  BY LockFacts
<1> HIDE DEF c, z
<1>4. Plain(u, z)
  BY <1>2 DEF Plain, PinKept
<1>5. LET v == [z EXCEPT !.phase = FALSE] IN Plain(u, v) /\ v.focused = None /\ v.unattended = None
  BY <1>2 DEF Plain, PinKept, Windows
<1>6. u.lock = w.lock => Plain(u, c)
  BY <1>1, <1>3 DEF Plain, PinKept
<1>7. ASSUME NEW e \in LockEpochs
      PROVE  LET v == [c EXCEPT !.lock = Locking(e), !.attempt = e] IN
             Plain(u, v) /\ v.focused = None /\ v.unattended = None
  BY <1>1, <1>3 DEF Plain, PinKept, Windows
<1> QED BY <1>1, <1>2, <1>4, <1>5, <1>6, <1>7 DEF c, z

(* synchronize_phase and reject_stale_authentication open nothing. *)
LEMMA ResyncOpensNothing ==
  ASSUME NEW w, WinInv(w, session)
  PROVE  /\ LET v == Resynchronized(w) IN Plain(w, v) /\ Unfocused(w, v)
         /\ LET v == RejectStale(w) IN
            Plain(w, v) /\ Unfocused(w, v) /\ v.pin = None /\ v.unattended \in {None, w.unattended}
<1> DEFINE Kept(x, v) == /\ \/ Same(x, v) /\ v.unattended = x.unattended
                            \/ Plain(x, v) /\ v.focused = None /\ v.unattended = None
                         /\ v \in Windows
<1>1. ASSUME NEW x, WinInv(x, session) PROVE Kept(x, Resynchronized(x))
  <2>1. x \in Windows
    BY <1>1 DEF WinInv, WinType
  <2>2. Resynchronized(x) \in Windows
    BY <1>1, Rejects DEF WinInv, WinType
  <2>3. CASE x.phase /\ session = None
    <3>1. Resynchronized(x) = [ClearedState(x) EXCEPT !.phase = FALSE]
      BY <2>3 DEF Resynchronized, Synchronized
    <3> QED BY <2>1, <2>2, <3>1, ClearedOpensNothing
  <2>4. CASE ~ (x.phase /\ session = None)
    <3> DEFINE b == session # None
               v == [x EXCEPT !.phase = b]
    <3>1. Resynchronized(x) = v
      BY <2>4 DEF Resynchronized, Synchronized
    <3>2. Same(x, v)
      BY <2>1, SameFields, Zenon
    <3>3. v.unattended = x.unattended
      BY <2>1 DEF Windows
    <3> QED BY <2>2, <3>1, <3>2, <3>3
  <2> QED BY <2>3, <2>4
<1>2. Kept(w, Resynchronized(w)) /\ w \in Windows
  BY <1>1 DEF WinInv, WinType
<1>3. Plain(w, Resynchronized(w)) /\ Unfocused(w, Resynchronized(w))
  BY <1>2, SamePlain DEF Same, Unfocused
<1> DEFINE x == [w EXCEPT !.touch = None]
           y == Resynchronized(x)
           z == [y EXCEPT !.confirming = FALSE, !.pin = None]
<1>4. WinInv(x, session)
  BY Drops, TrimKeeps, Zenon DEF WinInv
<1>5. Same(w, x) /\ x.unattended = w.unattended /\ x.lock = w.lock /\ x.authorized = w.authorized
  BY <1>2, SameFields DEF Windows
<1>6. Kept(x, y)
  BY <1>1, <1>4
<1> HIDE DEF x, y
<1>7. /\ z.pin = None /\ z.unattended = y.unattended /\ z.focused = y.focused /\ z.lock = y.lock
      /\ z.authorized = y.authorized /\ z.confirm = y.confirm
  BY <1>6 DEF Windows
<1>8. RejectStale(w) = z
  BY DEF RejectStale, x, y
<1> HIDE DEF z
<1>9. Plain(w, z) /\ Unfocused(w, z) /\ z.unattended \in {None, w.unattended}
  <2>1. CASE Same(x, y) /\ y.unattended = x.unattended
    <3>1. Same(w, y)
      BY <1>5, <2>1, SameTwice
    <3>2. Same(w, z)
      BY <1>7, <3>1 DEF Same, PinKept, Unfocused
    <3> QED BY <1>5, <1>7, <2>1, <3>2, SamePlain DEF Same
  <2>2. CASE Plain(x, y) /\ y.focused = None /\ y.unattended = None
    BY <1>5, <1>7, <2>2 DEF Plain, PinKept, Unfocused
  <2> QED BY <1>6, <2>1, <2>2
<1> QED BY <1>3, <1>7, <1>8, <1>9

(* Turning the page drops the PIN and the authorization. *)
LEMMA TurnedOpensNothing ==
  ASSUME NEW w \in Windows, NEW page
  PROVE  /\ Same(w, Applied(NavigatedNow(w, page)))
         /\ Same(w, [NavigatedNow(w, page) EXCEPT !.deleting = None, !.touch = None,
                                                  !.confirming = FALSE, !.pin = None])
<1> DEFINE u == NavigatedNow(w, page)
<1>1. /\ u.authorized = None /\ u.lock = w.lock /\ u.focused = w.focused /\ u.unattended = w.unattended
      /\ DOMAIN u = DOMAIN w
  BY DEF NavigatedNow, Windows
<1>2. DOMAIN w = {"phase", "lock", "attempt", "confirm", "touch", "pin", "pinShown", "page", "sel",
                  "authorized", "mode", "nav", "confirming", "discarding", "deleting",
                  "unattended", "focused", "draft"}
  BY DEF Windows
<1> HIDE DEF u
<1>3. Same(w, Applied(u))
  BY <1>1, <1>2 DEF Same, PinKept, Unfocused, Applied
<1>4. Same(w, [u EXCEPT !.deleting = None, !.touch = None, !.confirming = FALSE, !.pin = None])
  BY <1>1, <1>2 DEF Same, PinKept, Unfocused
<1> QED BY <1>3, <1>4 DEF u

-----------------------------------------------------------------------------
(* What the handlers share.                                                *)

(* A window that a handler has prepared: nothing is opened yet. *)
Near(w) ==
  w \in Windows /\ w.lock = win.lock /\ w.authorized = win.authorized /\ TopInv(frame', w)

(* A window that loses its PIN and opens nothing. *)
LEMMA PinlessPlain ==
  ASSUME NEW w, NEW v, v.pin = None, v.lock = w.lock, v.authorized \in {None, w.authorized}
  PROVE  Plain(w, v)
<1>1. Active.state = "active"
  BY LockFacts
<1> QED BY <1>1 DEF Plain, PinKept

(* cancel_active_run_and_lock opens nothing. *)
LEMMA LockNowConsents ==
  ASSUME ConsInv, NEW w \in Windows, LockImmediately(w), TopInv(frame', w)
  PROVE  ConsInv' /\ Consented
<1>1. /\ win' = ClearedState(w) /\ session' \in {session, None} /\ pend' = None /\ granted' = None
      /\ approved' = approved
  BY DEF LockImmediately
<1>2. Plain(win, win') /\ win'.focused = None /\ win'.unattended = None
  BY <1>1, ClearedOpensNothing
<1>3. TopInv(frame', win')
  BY <1>2, TopSame
<1> QED BY <1>1, <1>2, <1>3, PlainStep

(* begin_interface_lock opens nothing. *)
LEMMA LockingConsents ==
  ASSUME ConsInv, NEW w \in Windows, NEW auto \in BOOLEAN, BeginInterfaceLock(w, auto), TopInv(frame', w)
  PROVE  ConsInv' /\ Consented
<1>1. CASE LockImmediately(w)
  BY <1>1, LockNowConsents
<1>2. ASSUME NEW e \in LockEpochs, pend' = None, granted' = IF auto THEN granted ELSE None,
             win' = [ClearedBuffers(w) EXCEPT !.lock = Locking(e), !.attempt = e],
             UNCHANGED <<session, approved>>
      PROVE  ConsInv' /\ Consented
  <2>1. Plain(win, win') /\ win'.focused = None /\ win'.unattended = None
    BY <1>2, ClearedOpensNothing
  <2>2. TopInv(frame', win')
    BY <2>1, TopSame
  <2> QED BY <1>2, <2>1, <2>2, PlainStep
<1> QED BY <1>1, <1>2 DEF BeginInterfaceLock

(* lock_app opens nothing. *)
LEMMA LockAppConsents ==
  ASSUME ConsInv, win \in Windows, LockApp(win), TopInv(frame', win)
  PROVE  ConsInv' /\ Consented
<1>1. CASE BeginInterfaceLock(win, FALSE)
  BY <1>1, LockingConsents
<1>2. CASE win' = ClearedBuffers(win) /\ granted' = None /\ pend' = None /\ UNCHANGED <<session, approved>>
  <2>1. Plain(win, win') /\ win'.focused = None /\ win'.unattended = None
    BY <1>2, ClearedOpensNothing
  <2>2. TopInv(frame', win')
    BY <2>1, TopSame
  <2> QED BY <1>2, <2>1, <2>2, PlainStep
<1> QED BY <1>1, <1>2 DEF LockApp

(* A wrong PIN opens nothing. *)
LEMMA RejectedConsents ==
  ASSUME ConsInv, NEW w, Near(w), PinRejected(w)
  PROVE  ConsInv' /\ Consented
<1>1. CASE LockImmediately(w)
  BY <1>1, LockNowConsents DEF Near
<1>2. CASE win' = [w EXCEPT !.pin = None, !.confirm.failed = @ + 1]
           /\ UNCHANGED <<session, stored, broker, ext, approved>>
  <2>1. /\ win'.pin = None /\ win'.lock = w.lock /\ win'.authorized = w.authorized
        /\ win'.focused = w.focused /\ win'.unattended = w.unattended
    BY <1>2 DEF Near, Windows
  <2>2. UNCHANGED <<session, pend, granted, approved>>
    BY <1>2 DEF broker
  <2>3. Plain(win, win') /\ TopInv(frame', win')
    BY <2>1, PinlessPlain, TopSame DEF Near
  <2> QED BY <2>2, <2>3, PlainStep
<1> QED BY <1>1, <1>2 DEF PinRejected

(* finish_app_unlock, for a window whose own prompt was confirmed. *)
LEMMA AppUnlockConsents ==
  ASSUME ConsInv, NEW w, Near(w), FinishAppUnlock(w), Evidence(AppPrompt(session, win.lock.epoch))
  PROVE  ConsInv' /\ Consented
<1>1. /\ win'.pin = None /\ win'.authorized = win.authorized
      /\ win'.focused = w.focused /\ win'.unattended = w.unattended
  BY DEF FinishAppUnlock, Near, Windows
<1>2. UNCHANGED <<session, pend, granted, approved>>
  BY DEF FinishAppUnlock, broker
<1>3. PinInv(win', session', pend') /\ TopInv(frame', win')
  BY <1>1, TopSame DEF PinInv, Near
<1>4. Consented
  BY <1>1, <1>2 DEF Consented
<1> QED BY <1>3, <1>4 DEF ConsInv

(* finish_authenticated_approval, for a request whose prompt was confirmed. *)
LEMMA ApprovalConsents ==
  ASSUME ConsInv, NEW w, Near(w), NEW p, FinishApproval(w, p), Evidence(p)
  PROVE  ConsInv' /\ Consented
<1>1. /\ win'.pin = None /\ win'.authorized = win.authorized /\ win'.lock = win.lock
      /\ win'.focused = w.focused /\ win'.unattended = w.unattended
  BY DEF FinishApproval, Near, Windows
<1>2. approved' = p /\ granted' = granted
  BY DEF FinishApproval
<1>3. PinInv(win', session', pend') /\ TopInv(frame', win')
  BY <1>1, TopSame DEF PinInv, Near
<1>4. Consented
  BY <1>1, <1>2, LockFacts DEF Consented
<1> QED BY <1>3, <1>4 DEF ConsInv

(* finish_authenticated_unattended, when its prompt was confirmed. *)
LEMMA UnattendedConsents ==
  ASSUME ConsInv, NEW w, Near(w), NEW p, FinishUnattended(w, p), frame'.at # "unattended",
         ConsentCurrent(w, p) => Evidence(UnattendedPrompt(session))
  PROVE  ConsInv' /\ Consented
<1>1. /\ win'.pin = None /\ win'.authorized = win.authorized /\ win'.lock = win.lock
      /\ win'.focused = w.focused /\ win'.unattended = None
  BY DEF FinishUnattended, Near, Windows
<1>2. /\ granted' = granted \/ (granted' = session /\ Evidence(UnattendedPrompt(session)))
      /\ approved' = approved
  BY DEF FinishUnattended
<1>3. TopInv(frame', win')
  BY <1>1, TopSame DEF Near, Unfocused
<1>4. PinInv(win', session', pend')
  BY <1>1 DEF PinInv
<1>5. Consented
  BY <1>1, <1>2, LockFacts DEF Consented
<1> QED BY <1>3, <1>4, <1>5 DEF ConsInv

(* finish_selected_touch_id, for a secret whose prompt was confirmed. *)
LEMMA SelectedConsents ==
  ASSUME ConsInv, NEW w, Near(w), NEW p, FinishSelected(w, p), Evidence(p)
  PROVE  ConsInv' /\ Consented
<1>1. /\ win'.pin = None /\ win'.authorized = p /\ win'.lock = win.lock
      /\ win'.focused = w.focused /\ win'.unattended = w.unattended
  BY DEF FinishSelected, Near, Windows
<1>2. UNCHANGED <<session, pend, granted, approved>>
  BY DEF FinishSelected, broker
<1>3. PinInv(win', session', pend') /\ TopInv(frame', win')
  BY <1>1, TopSame DEF PinInv, Near
<1>4. Consented
  BY <1>1, <1>2, LockFacts DEF Consented
<1> QED BY <1>3, <1>4 DEF ConsInv

(* A handler that loses the PIN of the window it has prepared, and opens    *)
(* nothing.                                                                *)
LEMMA NearPlain ==
  ASSUME ConsInv, NEW w, Near(w), NEW v, win' = v, Plain(w, v), v.pin = None, TopInv(frame', v),
         UNCHANGED <<session, granted, approved>>, pend' \in {pend, None}
  PROVE  ConsInv' /\ Consented
<1>1. Plain(win, win')
  BY DEF Near, Plain, PinKept
<1> QED BY <1>1, PlainStep

(* A handler that changes the window's fields only, and opens nothing. *)
LEMMA OnlyPlain ==
  ASSUME ConsInv, NEW v, Only(v), Plain(win, v), Unfocused(win, v), TopInv(frame', win),
         frame'.at # "unattended"
  PROVE  ConsInv' /\ Consented
<1>1. win' = v /\ UNCHANGED <<session, pend, granted, approved>>
  BY DEF Only, broker
<1>2. TopInv(frame', win')
  BY <1>1, TopSame
<1> QED BY <1>1, <1>2, PlainStep

-----------------------------------------------------------------------------
(* The handlers, in the order of the frame.                                *)

(* A new frame: the click is for the modal that the last frame drew. *)
LEMMA BeginConsents ==
  ASSUME DeskInv, ConsInv, Begin PROVE ConsInv' /\ Consented
<1>1. /\ frame.at = "begin" /\ frame \in Frames /\ win \in Windows
      /\ frame' = [frame EXCEPT !.at = "external", !.top = frame.next, !.next = "none"]
  BY DEF Begin, DeskInv, OuterType, WinInv, WinType
<1>2. frame'.at = "external" /\ frame'.top = frame.next /\ frame'.next = "none"
  BY <1>1 DEF Frames, Modals, Steps
<1>3. TopInv(frame', win)
  BY <1>1, <1>2 DEF ConsInv, TopInv
<1>4. CASE LockApp(win)
  BY <1>1, <1>3, <1>4, LockAppConsents
<1>5. CASE LockImmediately(win)
  BY <1>1, <1>3, <1>5, LockNowConsents
<1>6. CASE win' = win /\ approved' = None /\ UNCHANGED <<session, stored, broker, ext>>
  <2>1. UNCHANGED <<session, pend, granted>> /\ Plain(win, win')
    BY <1>1, <1>6, SameFields, SamePlain, Zenon DEF broker
  <2> QED BY <1>3, <1>6, <2>1, PlainStep
<1> QED BY <1>4, <1>5, <1>6 DEF Begin

(* process_external_lock *)
LEMMA ExternalConsents ==
  ASSUME DeskInv, ConsInv, ProcessExternalLock PROVE ConsInv' /\ Consented
<1>1. /\ frame.at = "external" /\ Goes("idle") /\ win \in Windows
      /\ UNCHANGED <<session, pend, granted, approved>>
  BY DEF ProcessExternalLock, DeskInv, WinInv, WinType, broker
<1>2. TopInv(frame', win)
  BY <1>1, TopMoves
<1>3. CASE win' = [ClearedState(win) EXCEPT !.phase = FALSE]
  <2>1. Plain(win, win') /\ win'.focused = None /\ win'.unattended = None
    BY <1>1, <1>3, ClearedOpensNothing
  <2>2. TopInv(frame', win')
    BY <1>2, <2>1, TopSame
  <2> QED BY <1>1, <2>1, <2>2, PlainStep
<1>4. CASE win' = win
  <2>1. Plain(win, win')
    BY <1>1, <1>4, SameFields, SamePlain, Zenon
  <2> QED BY <1>1, <1>2, <1>4, <2>1, PlainStep
<1> QED BY <1>3, <1>4 DEF ProcessExternalLock

(* handle_idle_timeout *)
LEMMA IdleConsents ==
  ASSUME DeskInv, ConsInv, HandleIdleTimeout PROVE ConsInv' /\ Consented
<1>1. frame.at = "idle" /\ Goes("applock") /\ win \in Windows
  BY DEF HandleIdleTimeout, DeskInv, WinInv, WinType
<1>2. TopInv(frame', win) /\ frame'.at # "unattended"
  BY <1>1, TopMoves
<1>3. CASE Only(win)
  BY <1>1, <1>2, <1>3, SameFields, OnlySame, Zenon
<1>4. CASE BeginInterfaceLock(win, TRUE)
  BY <1>1, <1>2, <1>4, LockingConsents
<1>5. CASE /\ session' = None /\ win' = ClearedState(win) /\ pend' = None /\ granted' = None
           /\ approved' = approved
  <2>1. Plain(win, win') /\ win'.focused = None /\ win'.unattended = None
    BY <1>1, <1>5, ClearedOpensNothing
  <2>2. TopInv(frame', win')
    BY <1>2, <2>1, TopSame
  <2> QED BY <1>5, <2>1, <2>2, PlainStep
<1> QED BY <1>3, <1>4, <1>5 DEF HandleIdleTimeout

(* process_app_lock_result: the lock keeps its epoch. *)
LEMMA AppLockConsents ==
  ASSUME DeskInv, ConsInv, ProcessAppLockResult PROVE ConsInv' /\ Consented
<1>1. frame.at = "applock" /\ Goes("touch") /\ win \in Windows /\ WinType(win)
  BY DEF ProcessAppLockResult, DeskInv, WinInv, WinType
<1>2. TopInv(frame', win) /\ frame'.at # "unattended"
  BY <1>1, TopMoves
<1>3. CASE Only(win)
  BY <1>1, <1>2, <1>3, SameFields, OnlySame, Zenon
<1>4. ASSUME win.attempt # None, Only([win EXCEPT !.lock = Locked(win.attempt), !.attempt = None])
      PROVE  ConsInv' /\ Consented
  <2>1. UNCHANGED <<session, pend, granted, approved>>
    BY <1>4 DEF Only, broker
  <2>2. win.lock.state = "locking" /\ win.attempt = win.lock.epoch /\ win.attempt \in LockEpochs
    BY <1>1, <1>4 DEF WinType, Windows
  <2>3. Locked(win.attempt).epoch = win.attempt /\ Locked(win.attempt) # Active /\ win.lock # Active
    BY <2>2, LockFacts
  <2> DEFINE l == Locked(win.attempt)
             v == [win EXCEPT !.lock = l, !.attempt = None]
  <2>4. win' = v
    BY <1>4 DEF Only
  <2> HIDE DEF l
  <2>5. /\ v.lock = l /\ v.pin = win.pin /\ v.focused = win.focused /\ v.unattended = win.unattended
        /\ v.authorized = win.authorized
    BY <1>1 DEF Windows
  <2> HIDE DEF v
  <2>6. l.epoch = win.lock.epoch /\ l # Active
    BY <2>2, <2>3 DEF l
  <2>7. PinInv(v, session, pend)
    BY <2>3, <2>5, <2>6 DEF ConsInv, PinInv
  <2>8. TopInv(frame', v)
    BY <1>2, <2>5, TopSame
  <2>9. Consented
    BY <2>1, <2>4, <2>5, <2>6 DEF Consented
  <2> QED BY <2>1, <2>4, <2>7, <2>8, <2>9 DEF ConsInv
<1> QED BY <1>3, <1>4 DEF ProcessAppLockResult

(* process_touch_id_result: the answer is evidence for its own prompt only, *)
(* and for that only while the prompt is the one the window is at.         *)
LEMMA TouchConsents ==
  ASSUME DeskInv, ConsInv, ProcessTouchIdResult PROVE ConsInv' /\ Consented
<1>1. frame.at = "touch" /\ Goes("sync") /\ win \in Windows /\ WinType(win) /\ WinInv(win, session)
  BY DEF ProcessTouchIdResult, DeskInv, WinInv, WinType
<1>2. TopInv(frame', win) /\ frame'.at # "unattended"
  BY <1>1, TopMoves
<1>3. CASE Only(win)
  BY <1>1, <1>2, <1>3, SameFields, OnlySame, Zenon
<1> DEFINE w == [win EXCEPT !.touch = None, !.pin = None]
           p == win.touch.target
<1>4. Same(win, w)
  BY <1>1, SameFields, Zenon
<1>5. /\ w \in Windows /\ w.lock = win.lock /\ w.authorized = win.authorized
      /\ w.focused = win.focused /\ w.unattended = win.unattended /\ w.pin = None
  BY <1>1 DEF Windows
<1>a. Trims(win, w)
  BY <1>1, Drops, Zenon
<1> HIDE DEF w
<1>6. WinInv(w, session)
  BY <1>1, <1>a, TrimKeeps
<1>7. CASE Only(w)
  BY <1>2, <1>4, <1>7, OnlySame
<1>8. ASSUME win.touch # None, win.touch.result = "ok", TouchOk(w, p) PROVE ConsInv' /\ Consented
  <2>1. p \in Prompts
    BY <1>1, <1>8 DEF Windows, Touches
  <2>2. ASSUME p.session = session PROVE Evidence(p)
    BY <1>8, <2>2 DEF Evidence
  <2> DEFINE t == TouchRecorded(w)
  <2>3. Near(w)
    BY <1>2, <1>5, TopSame DEF Near
  <2>4. Near(t)
    <3>1. t \in Windows
      BY <1>6, Counts, Zenon DEF WinInv, Trims, Core
    <3>2. /\ t.lock = w.lock /\ t.authorized = w.authorized /\ t.focused = w.focused
          /\ t.unattended = w.unattended
      BY <1>5 DEF TouchRecorded, Windows
    <3> HIDE DEF t
    <3> QED BY <1>2, <1>5, <3>1, <3>2, TopSame DEF Near
  <2> HIDE DEF t, p
  <2>5. CASE p.kind = "unattended" /\ FinishUnattended(IF ConsentCurrent(w, p) THEN t ELSE w, p)
    <3>1. p = UnattendedPrompt(p.session)
      BY <2>1, <2>5 DEF Prompts, UnattendedPrompt, Attempts
    <3>2. ASSUME ConsentCurrent(w, p) \/ ConsentCurrent(t, p) PROVE Evidence(UnattendedPrompt(session))
      BY <2>2, <3>1, <3>2 DEF ConsentCurrent
    <3>3. CASE FinishUnattended(t, p)
      BY <1>2, <2>4, <3>2, <3>3, UnattendedConsents
    <3>4. CASE FinishUnattended(w, p)
      BY <1>2, <2>3, <3>2, <3>4, UnattendedConsents
    <3> QED BY <2>5, <3>3, <3>4
  <2>6. CASE AppContext(w, p) /\ FinishAppUnlock(t)
    <3>1. p = AppPrompt(session, win.lock.epoch)
      BY <1>5, <2>6 DEF AppContext
    <3>2. p.session = session
      BY <3>1 DEF AppPrompt
    <3> QED BY <2>2, <2>4, <2>6, <3>1, <3>2, AppUnlockConsents
  <2>7. CASE Only(RejectStaleApp(w))
    <3> DEFINE v == RejectStaleApp(w)
    <3>1. Same(w, v)
      BY <1>5, SameFields, Zenon DEF RejectStaleApp
    <3>2. Same(win, v)
      BY <1>4, <3>1, SameTwice
    <3> QED BY <1>2, <2>7, <3>2, OnlySame
  <2>8. CASE FinishSelected(t, p)
    <3>1. p.session = session
      BY <2>8 DEF FinishSelected
    <3> QED BY <2>2, <2>4, <2>8, <3>1, SelectedConsents
  <2>9. CASE Only(RejectStale(w))
    <3> DEFINE v == RejectStale(w)
    <3>1. Plain(w, v) /\ Unfocused(w, v) /\ v.pin = None
      BY <1>6, ResyncOpensNothing
    <3> HIDE DEF v
    <3>2. win' = v /\ UNCHANGED <<session, pend, granted, approved>>
      BY <2>9 DEF Only, broker, v
    <3>3. TopInv(frame', v)
      BY <1>2, <2>3, <3>1, TopSame DEF Near
    <3> QED BY <2>3, <3>1, <3>2, <3>3, NearPlain
  <2>10. CASE FinishApproval(t, p)
    <3>1. p.session = session
      BY <2>10 DEF FinishApproval, ExactRequest, ApprovalPrompt
    <3> QED BY <2>2, <2>4, <2>10, <3>1, ApprovalConsents
  <2> QED BY <1>8, <2>5, <2>6, <2>7, <2>8, <2>9, <2>10 DEF TouchOk, t
<1> QED BY <1>3, <1>7, <1>8 DEF ProcessTouchIdResult, w

(* synchronize_phase *)
LEMMA SyncConsents ==
  ASSUME DeskInv, ConsInv, SynchronizePhase PROVE ConsInv' /\ Consented
<1> DEFINE w == Resynchronized(win)
<1>1. frame.at = "sync" /\ frame \in Frames /\ win \in Windows /\ WinInv(win, session)
  BY DEF SynchronizePhase, DeskInv, OuterType, WinInv, WinType
<1>2. Plain(win, w) /\ Unfocused(win, w) /\ w \in Windows
  BY <1>1, ResyncOpensNothing, Rejects DEF WinInv, WinType
<1> HIDE DEF w
<1>3. \A b \in BOOLEAN : LET f == [frame EXCEPT !.at = "show", !.seen = b] IN
        f.at = "show" /\ f.top = frame.top /\ f.next = frame.next
  BY <1>1 DEF Frames, Steps
<1>4. ASSUME NEW b \in BOOLEAN, frame' = [frame EXCEPT !.at = "show", !.seen = b]
      PROVE  TopInv(frame', win) /\ frame'.at # "unattended"
  <2>1. frame'.at = "show" /\ frame'.top = frame.top /\ frame'.next = frame.next
    BY <1>3, <1>4
  <2> QED BY <1>1, <2>1 DEF ConsInv, TopInv
<1>5. CASE Only(w) /\ frame' = [frame EXCEPT !.at = "show", !.seen = (session # None)]
  <2>1. (session # None) \in BOOLEAN
    OBVIOUS
  <2>2. TopInv(frame', win) /\ frame'.at # "unattended"
    BY <1>4, <1>5, <2>1
  <2> QED BY <1>2, <1>5, <2>2, OnlyPlain
<1>6. CASE /\ Only([w EXCEPT !.nav = "close", !.discarding = TRUE])
           /\ frame' = [frame EXCEPT !.at = "show", !.seen = TRUE]
  <2> DEFINE v == [w EXCEPT !.nav = "close", !.discarding = TRUE]
  <2>1. TopInv(frame', win) /\ frame'.at # "unattended"
    BY <1>4, <1>6
  <2>2. Same(w, v) /\ v.confirm = w.confirm
    BY <1>2, SameFields DEF Windows
  <2>3. Plain(win, v) /\ Unfocused(win, v)
    BY <1>2, <2>2 DEF Plain, PinKept, Same, Unfocused
  <2> HIDE DEF v
  <2> QED BY <1>6, <2>1, <2>3, OnlyPlain DEF v
<1>7. CASE Only(w) /\ Goes("exit")
  <2>1. frame'.at = "exit"
    BY <1>1, <1>7, FrameFacts DEF Steps, Modals
  <2>2. TopInv(frame', win) /\ frame'.at # "unattended"
    BY <2>1 DEF TopInv
  <2> QED BY <1>2, <1>7, <2>2, OnlyPlain
<1> QED BY <1>5, <1>6, <1>7 DEF SynchronizePhase, w

(* The prompt p is the one whose handler takes the PIN of the window w. *)
InFront(w, p) ==
  \/ w.lock # Active /\ p = AppPrompt(session, w.lock.epoch)
  \/ /\ w.lock = Active /\ p = Attempt(w, session)
     /\ w.confirming /\ w.focused = None /\ w.unattended = None
  \/ /\ w.lock = Active /\ p = ApprovalPrompt(pend.session, w.focused)
     /\ w.focused # None /\ w.unattended = None /\ pend.request = w.focused
  \/ w.lock = Active /\ p = UnattendedPrompt(w.unattended) /\ w.unattended # None

(* Typing a PIN at the prompt in front. *)
LEMMA TypedConsents ==
  ASSUME ConsInv, NEW w, Near(w), PinKept(win, w), NEW p, InFront(w, p), NEW right,
         Only(TypedPin(w, p, right))
  PROVE  ConsInv' /\ Consented
<1> DEFINE v == TypedPin(w, p, right)
<1>1. win' = v /\ UNCHANGED <<session, pend, granted, approved>>
  BY DEF Only, broker
<1>2. /\ v.lock = w.lock /\ v.authorized = w.authorized /\ v.focused = w.focused
      /\ v.unattended = w.unattended /\ v.page = w.page /\ v.sel = w.sel /\ v.confirming = w.confirming
  BY DEF TypedPin, Near, Windows
<1>3. \/ w.pin # None /\ v.pin = w.pin
      \/ v.pin.at = p
  BY DEF TypedPin, Near, Windows
<1> HIDE DEF v
<1>4. CASE w.pin # None /\ v.pin = w.pin
  <2>1. PinKept(win, v) /\ Plain(win, v)
    BY <1>2, <1>4, LockFacts DEF PinKept, Plain, Near
  <2>2. TopInv(frame', v)
    BY <1>2, TopSame DEF Near
  <2> QED BY <1>1, <2>1, <2>2, PlainStep
<1>5. CASE v.pin.at = p
  <2>1. PinInv(v, session, pend)
    <3>1. CASE w.lock # Active /\ p = AppPrompt(session, w.lock.epoch)
      BY <1>2, <1>5, <3>1 DEF PinInv, AppPrompt
    <3>2. CASE /\ w.lock = Active /\ p = Attempt(w, session)
               /\ w.confirming /\ w.focused = None /\ w.unattended = None
      BY <1>2, <1>5, <3>2 DEF PinInv, Attempt, SecretPrompt
    <3>3. CASE /\ w.lock = Active /\ p = ApprovalPrompt(pend.session, w.focused)
               /\ w.focused # None /\ w.unattended = None /\ pend.request = w.focused
      BY <1>2, <1>5, <3>3 DEF PinInv, ApprovalPrompt
    <3>4. CASE w.lock = Active /\ p = UnattendedPrompt(w.unattended) /\ w.unattended # None
      BY <1>2, <1>5, <3>4 DEF PinInv
    <3> QED BY <3>1, <3>2, <3>3, <3>4 DEF InFront
  <2>2. TopInv(frame', v)
    BY <1>2, TopSame DEF Near
  <2>3. Consented
    BY <1>1, <1>2, LockFacts DEF Consented, Near
  <2> QED BY <1>1, <2>1, <2>2, <2>3 DEF ConsInv
<1> QED BY <1>3, <1>4, <1>5

(* An accepted PIN opens nothing by itself, and neither does dropping the  *)
(* sensor's request.                                                       *)
LEMMA AcceptedNear ==
  ASSUME NEW w, Near(w)
  PROVE  /\ Near([w EXCEPT !.touch = None])
         /\ WinType(w) /\ HasPin(w) => Near(PinAccepted(w))
<1>1. Near([w EXCEPT !.touch = None])
  <2> DEFINE v == [w EXCEPT !.touch = None]
  <2>1. /\ v \in Windows /\ v.lock = w.lock /\ v.authorized = w.authorized
        /\ v.focused = w.focused /\ v.unattended = w.unattended
    BY DEF Windows, Near
  <2> HIDE DEF v
  <2>2. Near(v)
    BY <2>1, TopSame DEF Near
  <2> QED BY <2>2 DEF v
<1>2. ASSUME WinType(w), HasPin(w) PROVE Near(PinAccepted(w))
  <2> DEFINE v == PinAccepted(w)
  <2>1. v \in Windows
    BY <1>2, Counts, Zenon DEF Trims, Core
  <2>2. /\ v.lock = w.lock /\ v.authorized = w.authorized
        /\ v.focused = w.focused /\ v.unattended = w.unattended
    BY DEF PinAccepted, Windows, Near
  <2> HIDE DEF v
  <2>3. Near(v)
    BY <2>1, <2>2, TopSame DEF Near
  <2> QED BY <2>3 DEF v
<1> QED BY <1>1, <1>2

(* show_locked: a vault that is opened finds a quiet window. *)
LEMMA ShowLockedConsents ==
  ASSUME DeskInv, ConsInv, ShowLocked PROVE ConsInv' /\ Consented
<1>1. frame.at = "show" /\ ~ frame.seen /\ Goes("begin") /\ win \in Windows
  BY DEF ShowLocked, Showing, DeskInv, WinInv, WinType
<1>2. TopInv(frame', win) /\ frame'.at # "unattended"
  BY <1>1, TopMoves
<1>3. CASE Only(win)
  BY <1>1, <1>2, <1>3, SameFields, OnlySame, Zenon
<1>4. CASE UNCHANGED <<stored, broker, ext, approved, win>>
  <2>1. win.pin = None
    BY <1>1 DEF DeskInv, WinInv, FrameInv, QuietPart, Quiet
  <2>2. PinInv(win', session', pend') /\ TopInv(frame', win')
    BY <1>2, <1>4, <2>1 DEF PinInv
  <2>3. Consented
    BY <1>4, LockFacts DEF Consented, broker
  <2> QED BY <2>2, <2>3 DEF ConsInv
<1> QED BY <1>3, <1>4 DEF ShowLocked

(* The page of an interface that is being locked *)
LEMMA ShowAppLockingConsents ==
  ASSUME DeskInv, ConsInv, ShowAppLocking PROVE ConsInv' /\ Consented
<1>1. frame.at = "show" /\ Goes("begin") /\ win \in Windows /\ Only(win)
  BY DEF ShowAppLocking, Showing, DeskInv, WinInv, WinType
<1>2. TopInv(frame', win) /\ frame'.at # "unattended"
  BY <1>1, TopMoves
<1> QED BY <1>1, <1>2, SameFields, OnlySame, Zenon

(* show_app_locked: only its own prompt takes a PIN while the window is    *)
(* locked.                                                                 *)
LEMMA ShowAppLockedConsents ==
  ASSUME DeskInv, ConsInv, ShowAppLocked PROVE ConsInv' /\ Consented
<1>1. frame.at = "show" /\ win.lock.state = "locked" /\ Goes("begin")
  BY DEF ShowAppLocked, Showing, DeskInv, OuterType, Frames
<1>2. WinType(win) /\ WinInv(win, session) /\ win \in Windows /\ win.lock \in LockStates
  BY DEF DeskInv, WinInv, WinType, Windows
<1>3. win.lock # Active
  BY <1>1, <1>2, LockFacts
<1>4. TopInv(frame', win) /\ frame'.at # "unattended"
  BY <1>1, TopMoves
<1>5. PICK touch \in TouchChoices :
       LET w == [win EXCEPT !.pinShown = @ \/ (~ touch /\ HasPin(win))]
           prompt == AppPrompt(session, w.lock.epoch)
       IN \/ Only(w)
          \/ ~ w.pinShown /\ touch /\ w.touch = None /\ session # None
             /\ Only(TouchAsked([w EXCEPT !.pin = None], prompt))
          \/ ~ w.pinShown /\ touch /\ session = None /\ Only(RejectStaleApp(w))
          \/ ~ w.pinShown /\ HasPin(w)
             /\ Only([w EXCEPT !.touch = None, !.pin = None, !.pinShown = TRUE])
          \/ w.pinShown /\ session # None
             /\ \E right \in BOOLEAN : Only(TypedPin(w, prompt, right))
          \/ w.pinShown /\ ~ AppContext(w, prompt) /\ Only(RejectStaleApp(w))
          \/ w.pinShown /\ AppContext(w, prompt) /\ PinRejected([w EXCEPT !.touch = None])
          \/ w.pinShown /\ AppContext(w, prompt) /\ Right(w) /\ wrong' = 0
             /\ FinishAppUnlock(PinAccepted(w))
          \/ LockImmediately(w) /\ UNCHANGED wrong
  BY DEF ShowAppLocked
<1> DEFINE b == win.pinShown \/ (~ touch /\ HasPin(win))
           w == [win EXCEPT !.pinShown = b]
           p == AppPrompt(session, w.lock.epoch)
<1>6. b \in BOOLEAN /\ (b => HasPin(win))
  BY <1>2 DEF WinType
<1>7. [win EXCEPT !.pinShown = @ \/ (~ touch /\ HasPin(win))] = w
  OBVIOUS
<1> HIDE DEF b
<1>a. Trims(win, w)
  BY <1>2, <1>6, Shows
<1>8. Same(win, w) /\ PinKept(win, w)
  BY <1>2, SameFields, Zenon DEF Same
<1>9. /\ w \in Windows /\ w.lock = win.lock /\ w.authorized = win.authorized /\ w.pin = win.pin
      /\ w.focused = win.focused /\ w.unattended = win.unattended
  BY <1>2, <1>6 DEF Windows
<1> HIDE DEF w
<1>b. WinType(w)
  BY <1>2, <1>a, TrimTyped
<1>10. Near(w)
  BY <1>4, <1>9, TopSame DEF Near
<1>11. ASSUME NEW v, Same(w, v), Only(v) PROVE ConsInv' /\ Consented
  BY <1>4, <1>8, <1>11, SameTwice, OnlySame
<1>12. CASE Only(w)
  BY <1>4, <1>8, <1>12, OnlySame
<1>13. CASE Only(TouchAsked([w EXCEPT !.pin = None], p))
  <2> DEFINE x == [w EXCEPT !.pin = None]
  <2>1. Same(w, x)
    BY <1>9, SameFields, Zenon
  <2>2. x \in Windows
    BY <1>9 DEF Windows
  <2> HIDE DEF x
  <2>3. Same(x, TouchAsked(x, p))
    BY <2>2, SameFields, Zenon DEF TouchAsked
  <2> QED BY <1>11, <1>13, <2>1, <2>3, SameTwice DEF x
<1>14. CASE Only(RejectStaleApp(w))
  <2>1. Same(w, RejectStaleApp(w))
    BY <1>9, SameFields, Zenon DEF RejectStaleApp
  <2> QED BY <1>11, <1>14, <2>1
<1>15. CASE Only([w EXCEPT !.touch = None, !.pin = None, !.pinShown = TRUE])
  <2>1. Same(w, [w EXCEPT !.touch = None, !.pin = None, !.pinShown = TRUE])
    BY <1>9, SameFields, Zenon
  <2> QED BY <1>11, <1>15, <2>1
<1>16. CASE \E right \in BOOLEAN : Only(TypedPin(w, p, right))
  <2>1. InFront(w, p)
    BY <1>3, <1>9 DEF InFront
  <2> HIDE DEF p
  <2> QED BY <1>8, <1>10, <1>16, <2>1, TypedConsents
<1>17. CASE PinRejected([w EXCEPT !.touch = None])
  BY <1>10, <1>17, AcceptedNear, RejectedConsents
<1>18. CASE w.pinShown /\ AppContext(w, p) /\ Right(w) /\ FinishAppUnlock(PinAccepted(w))
  <2> DEFINE q == AppPrompt(session, win.lock.epoch)
  <2>1. win.pin # None /\ win.pin.right /\ session # None
    BY <1>9, <1>18 DEF AppContext, Right
  <2>2. win.pin.at = q
    BY <1>3, <2>1 DEF ConsInv, PinInv
  <2>3. q.session = session
    BY DEF AppPrompt
  <2>4. Evidence(q)
    BY <2>1, <2>2, <2>3 DEF Evidence, Right
  <2>5. Near(PinAccepted(w))
    BY <1>b, <1>10, <1>18, AcceptedNear DEF WinType
  <2> QED BY <1>18, <2>4, <2>5, AppUnlockConsents
<1>19. CASE LockImmediately(w)
  BY <1>10, <1>19, LockNowConsents DEF Near
<1> QED BY <1>5, <1>7, <1>12, <1>13, <1>14, <1>15, <1>16, <1>17, <1>18, <1>19 DEF p

(* show_session_auth_setup *)
LEMMA SetupConsents ==
  ASSUME DeskInv, ConsInv, ShowSessionAuthSetup PROVE ConsInv' /\ Consented
<1>1. frame.at = "show" /\ Goes("begin") /\ win \in Windows
  BY DEF ShowSessionAuthSetup, Showing, DeskInv, WinInv, WinType
<1>2. TopInv(frame', win) /\ frame'.at # "unattended"
  BY <1>1, TopMoves
<1>3. CASE Only(win)
  BY <1>1, <1>2, <1>3, SameFields, OnlySame, Zenon
<1>4. ASSUME NEW b \in BOOLEAN, Only([win EXCEPT !.confirm = [pin |-> b, failed |-> 0]])
      PROVE  ConsInv' /\ Consented
  BY <1>1, <1>2, <1>4, SameFields, OnlySame, Zenon
<1> QED BY <1>3, <1>4 DEF ShowSessionAuthSetup

(* The pages are drawn where the frame goes on to the modals. *)
LEMMA PageTop ==
  ASSUME DeskInv, ConsInv, Page
  PROVE  /\ win \in Windows /\ WinInv(win, session) /\ frame.at = "show"
         /\ TopInv(frame', win) /\ frame'.at # "unattended"
<1>1. frame.at = "show" /\ Goes("modals")
  BY DEF Page, Showing
<1> QED BY <1>1, TopMoves, PageFacts DEF WinType

(* A click on a page that opens nothing. *)
LEMMA PageSame ==
  ASSUME DeskInv, ConsInv, Page, NEW v, Only(v), Same(win, v) PROVE ConsInv' /\ Consented
  BY PageTop, OnlySame

(* A click on a page that finds the phase changed. *)
LEMMA PageResyncs ==
  ASSUME DeskInv, ConsInv, Page, NEW w, WinInv(w, session), Same(win, w), w.lock = win.lock,
         Only(Resynchronized(w))
  PROVE  ConsInv' /\ Consented
<1> DEFINE v == Resynchronized(w)
<1>1. Plain(w, v) /\ Unfocused(w, v)
  BY ResyncOpensNothing
<1> HIDE DEF v
<1>2. Plain(win, v) /\ Unfocused(win, v)
  BY <1>1 DEF Plain, PinKept, Same, Unfocused
<1> QED BY <1>2, PageTop, OnlyPlain DEF v

(* A click on a page that changes the vault too. *)
LEMMA PageStored ==
  ASSUME DeskInv, ConsInv, Page, Same(win, win'), UNCHANGED <<session, broker, ext, approved, wrong>>
  PROVE  ConsInv' /\ Consented
<1>1. UNCHANGED <<session, pend, granted, approved>>
  BY DEF broker
<1>2. Plain(win, win') /\ TopInv(frame', win')
  BY PageTop, SamePlain, TopSame DEF Same
<1> QED BY <1>1, <1>2, PlainStep

(* The clicks on the pages, except the one that asks for unattended access. *)
LEMMA PagesConsent ==
  ASSUME DeskInv, ConsInv,
         \/ Navigate \/ EditDraft \/ SaveDraft \/ AskUnlock \/ OpenDetail \/ EditDetail
         \/ HideDetail \/ LockButton \/ Watch
  PROVE  ConsInv' /\ Consented
<1>1. win \in Windows /\ WinInv(win, session) /\ Same(win, win)
  BY SameFields, Zenon DEF DeskInv, WinInv, WinType
<1>2. CASE Navigate
  <2>1. PICK page : Manager(RequestNavigation(win, page))
    BY <1>2 DEF Navigate
  <2>2. Page /\ Only(RequestNavigation(win, page))
    BY <1>2, <2>1 DEF Navigate, Manager, Page
  <2>3. Same(win, RequestNavigation(win, page))
    BY <1>1, SameFields, TurnedOpensNothing, Zenon DEF RequestNavigation
  <2> QED BY <2>2, <2>3, PageSame
<1>3. CASE EditDraft
  <2>1. Page /\ Only([win EXCEPT !.draft = TRUE])
    BY <1>3 DEF EditDraft, Manager, Page
  <2> QED BY <1>1, <2>1, SameFields, PageSame, Zenon
<1>4. CASE SaveDraft
  <2>1. Page
    BY <1>4 DEF SaveDraft, Page
  <2>2. CASE win' = [win EXCEPT !.draft = FALSE] /\ UNCHANGED <<session, broker, ext, approved, wrong>>
    <3>1. Same(win, win')
      BY <1>1, <2>2, SameFields, Zenon
    <3> QED BY <2>1, <2>2, <3>1, PageStored
  <2>3. CASE Only(Resynchronized(win))
    BY <1>1, <2>1, <2>3, PageResyncs
  <2> QED BY <1>4, <2>2, <2>3 DEF SaveDraft
<1>5. CASE AskUnlock
  <2>1. Page /\ Only([win EXCEPT !.confirming = TRUE, !.pin = None])
    BY <1>5 DEF AskUnlock, Manager, Page
  <2> QED BY <1>1, <2>1, SameFields, PageSame, Zenon
<1>6. CASE OpenDetail \/ EditDetail \/ HideDetail
  <2>1. Page
    BY <1>6 DEF OpenDetail, EditDetail, HideDetail, Manager, Page
  <2>2. \/ \E m \in {"hidden", "revealed", "editing", "dirty"} : Only([win EXCEPT !.mode = m])
        \/ Only(Resynchronized(win))
    BY <1>6 DEF OpenDetail, EditDetail, HideDetail, Manager
  <2>3. CASE Only(Resynchronized(win))
    BY <1>1, <2>1, <2>3, PageResyncs
  <2>4. ASSUME NEW m \in {"hidden", "revealed", "editing", "dirty"}, Only([win EXCEPT !.mode = m])
        PROVE  ConsInv' /\ Consented
    BY <1>1, <2>1, <2>4, SameFields, PageSame, Zenon
  <2> QED BY <2>2, <2>3, <2>4
<1>7. CASE LockButton
  <2>1. Page /\ LockApp(win)
    BY <1>7 DEF LockButton, Page
  <2> QED BY <1>1, <2>1, PageTop, LockAppConsents
<1>8. CASE Watch
  <2>1. Page /\ Only(win)
    BY <1>8 DEF Watch, Page
  <2> QED BY <1>1, <2>1, PageSame
<1> QED BY <1>2, <1>3, <1>4, <1>5, <1>6, <1>7, <1>8

(* Deleting the selected secret *)
LEMMA DeleteConsents ==
  ASSUME DeskInv, ConsInv, DeleteSelected PROVE ConsInv' /\ Consented
<1>1. win \in Windows /\ WinInv(win, session) /\ WinType(win)
  BY DEF DeskInv, WinInv, WinType
<1>2. Page
  BY DEF DeleteSelected, Manager, Page
<1>3. CASE Manager([win EXCEPT !.deleting = IF @ = None THEN win.page ELSE None])
  <2> DEFINE d == IF win.deleting = None THEN win.page ELSE None
  <2>1. Only([win EXCEPT !.deleting = d])
    BY <1>3 DEF Manager
  <2> QED BY <1>1, <1>2, <2>1, SameFields, PageSame, Zenon
<1>4. CASE Manager(Resynchronized([win EXCEPT !.deleting = None]))
  <2> DEFINE w == [win EXCEPT !.deleting = None]
  <2>1. Trims(win, w)
    BY <1>1, Edits
  <2>2. Same(win, w) /\ w.lock = win.lock
    BY <1>1, SameFields, Zenon DEF Same
  <2>3. Only(Resynchronized(w))
    BY <1>4 DEF Manager
  <2> HIDE DEF w
  <2>4. WinInv(w, session)
    BY <1>1, <2>1, TrimKeeps
  <2> QED BY <1>2, <2>2, <2>3, <2>4, PageResyncs
<1>5. CASE /\ win' = [NavigatedNow(win, "add") EXCEPT !.deleting = None, !.touch = None,
                                                      !.confirming = FALSE, !.pin = None]
           /\ UNCHANGED <<session, broker, ext, approved, wrong>>
  <2>1. Same(win, win')
    BY <1>1, <1>5, TurnedOpensNothing
  <2> QED BY <1>2, <1>5, <2>1, PageStored
<1> QED BY <1>3, <1>4, <1>5 DEF DeleteSelected

(* begin_unattended_confirmation drops what was typed at another prompt. *)
LEMMA BegunOpensNothing ==
  ASSUME NEW w, Near(w), PinKept(win, w)
  PROVE  Plain(win, BeginUnattended(w))
<1> DEFINE v == BeginUnattended(w)
<1>1. CASE v = w
  BY <1>1, LockFacts DEF Near, Plain
<1>2. CASE v = [w EXCEPT !.pin = None, !.unattended = session]
  <2>1. v.pin = None /\ v.lock = w.lock /\ v.authorized = w.authorized
    BY <1>2 DEF Near, Windows
  <2> QED BY <2>1, PinlessPlain DEF Near
<1> QED BY <1>1, <1>2 DEF BeginUnattended

(* Asking for unattended access, when no modal is in front *)
LEMMA ManageConsents ==
  ASSUME DeskInv, ConsInv, ManageSessions PROVE ConsInv' /\ Consented
<1>1. Page /\ Only(BeginUnattended(win)) /\ frame.top = "none"
  BY DEF ManageSessions, Manager, Page, Clicked
<1>2. win \in Windows /\ TopInv(frame', win) /\ PinKept(win, win)
  BY <1>1, PageTop, SameFields, Zenon DEF Same
<1>3. Plain(win, BeginUnattended(win))
  BY <1>2, BegunOpensNothing DEF Near
<1>4. win' = BeginUnattended(win) /\ UNCHANGED <<session, pend, granted, approved>>
  BY <1>1 DEF Only, broker
<1>5. frame'.at = "modals" /\ frame'.top = "none"
  <2>1. frame \in Frames /\ Goes("modals") /\ "modals" \in Steps /\ "none" \in Modals
    BY <1>1 DEF DeskInv, OuterType, Page, Steps, Modals
  <2> QED BY <1>1, <2>1, FrameFacts
<1>6. TopInv(frame', win')
  BY <1>2, <1>5 DEF TopInv
<1> QED BY <1>3, <1>4, <1>6, PlainStep

(* Deny of show_unlock_request *)
LEMMA DenyConsents ==
  ASSUME DeskInv, ConsInv, Deny PROVE ConsInv' /\ Consented
<1>1. /\ frame.at = "show" /\ frame' = frame /\ win \in Windows
      /\ Only([win EXCEPT !.pin = None, !.touch = None])
  BY DEF Deny, DeskInv, WinInv, WinType
<1>2. TopInv(frame', win) /\ frame'.at # "unattended"
  BY <1>1 DEF ConsInv
<1> QED BY <1>1, <1>2, SameFields, OnlySame, Zenon

-----------------------------------------------------------------------------
(* The modals                                                              *)

(* No modal, because the window is locked or the vault closed *)
LEMMA HiddenConsents ==
  ASSUME DeskInv, ConsInv, Hidden \/ NoConfirmation PROVE ConsInv' /\ Consented
<1>1. frame.at = "modals" /\ (Goes("begin") \/ Goes("approval")) /\ Only(win) /\ win \in Windows
  BY DEF Hidden, NoConfirmation, Allowed, DeskInv, WinInv, WinType
<1>2. TopInv(frame', win) /\ frame'.at # "unattended"
  BY <1>1, TopMoves
<1> QED BY <1>1, <1>2, SameFields, OnlySame, Zenon

(* show_secret_confirmation: a click goes to the question for a secret only *)
(* where no request is shown and unattended access is not asked for.       *)
LEMMA SecretConsents ==
  ASSUME DeskInv, ConsInv, ShowSecretConfirmation PROVE ConsInv' /\ Consented
<1>1. /\ frame.at = "modals" /\ (Goes("approval") \/ Draws("secret", "approval"))
      /\ win.confirming /\ win \in Windows /\ WinType(win) /\ session # None /\ win.lock = Active
  BY DEF ShowSecretConfirmation, Allowed, DeskInv, WinInv, WinType
<1>2. TopInv(frame', win) /\ frame'.at # "unattended"
  BY <1>1, TopMoves
<1>3. Near(win) /\ PinKept(win, win)
  BY <1>1, <1>2, SameFields, Zenon DEF Near, Same
<1> DEFINE p == Attempt(win, session)
           x == [win EXCEPT !.touch = None]
<1>4. ASSUME \/ Only(win)
             \/ Only([win EXCEPT !.confirming = FALSE, !.pin = None])
             \/ Only([win EXCEPT !.touch = None, !.confirming = FALSE, !.pin = None])
             \/ Only(TouchAsked(win, p))
      PROVE  ConsInv' /\ Consented
  BY <1>1, <1>2, <1>4, SameFields, OnlySame, Zenon DEF TouchAsked
<1>5. ASSUME Clicked("secret") PROVE win.focused = None /\ win.unattended = None
  BY <1>1, <1>5 DEF ConsInv, TopInv, Clicked
<1>6. ASSUME Clicked("secret"), NEW right \in BOOLEAN, Only(TypedPin(win, p, right))
      PROVE  ConsInv' /\ Consented
  <2>1. InFront(win, p)
    BY <1>1, <1>5, <1>6 DEF InFront
  <2> HIDE DEF p
  <2> QED BY <1>3, <1>6, <2>1, TypedConsents
<1>7. CASE PinRejected(x)
  BY <1>3, <1>7, AcceptedNear, RejectedConsents
<1>8. ASSUME Clicked("secret"), HasPin(win), Right(win), FinishSelected(PinAccepted(x), p)
      PROVE  ConsInv' /\ Consented
  <2>1. win.pin # None /\ win.pin.right
    BY <1>8 DEF Right
  <2>2. win.pin.at = p
    BY <1>1, <1>5, <1>8, <2>1 DEF ConsInv, PinInv
  <2>3. p.session = session
    BY DEF Attempt, SecretPrompt
  <2>4. Evidence(p)
    BY <2>1, <2>2, <2>3 DEF Evidence, Right
  <2>5. Near(x) /\ WinType(x) /\ HasPin(x)
    <3>1. Trims(win, x) /\ x.confirm = win.confirm
      BY <1>1, Drops, Zenon
    <3>2. Near(x)
      BY <1>3, AcceptedNear
    <3> HIDE DEF x
    <3> QED BY <1>1, <1>8, <3>1, <3>2, TrimTyped DEF HasPin
  <2> HIDE DEF x, p
  <2>6. Near(PinAccepted(x))
    BY <2>5, AcceptedNear
  <2> QED BY <1>8, <2>4, <2>6, SelectedConsents
<1> QED BY <1>4, <1>6, <1>7, <1>8 DEF ShowSecretConfirmation

(* show_discard_confirmation *)
LEMMA DiscardConsents ==
  ASSUME DeskInv, ConsInv, ShowDiscardConfirmation PROVE ConsInv' /\ Consented
<1>1. /\ frame.at = "modals" /\ (Goes("exit") \/ Draws("discard", "approval")) /\ win \in Windows
  BY DEF ShowDiscardConfirmation, Allowed, DeskInv, WinInv, WinType
<1>2. TopInv(frame', win) /\ frame'.at # "unattended"
  BY <1>1, TopMoves
<1>3. \/ Only(win)
      \/ Only([win EXCEPT !.nav = None, !.discarding = FALSE])
      \/ Only(Applied(NavigatedNow(win, win.nav)))
  BY DEF ShowDiscardConfirmation
<1> QED BY <1>1, <1>2, <1>3, SameFields, TurnedOpensNothing, OnlySame, Zenon

(* A window that looks at another request is a window. *)
LEMMA FocusType ==
  ASSUME NEW u \in Windows, NEW r \in Requests \cup {None}
  PROVE  [u EXCEPT !.focused = r, !.pin = None] \in Windows
  BY DEF Windows

(* Looking at a request: a PIN in the buffer stays only for the request it *)
(* was typed at (update_focused_approval, cancel_stale_approval_touch_id). *)
LEMMA RefocusedKeeps ==
  ASSUME NEW w \in Windows, NEW p, NEW r \in Requests \cup {None}
  PROVE  LET v == Focused(StaleTouchDropped(w, p), r) IN
         /\ v \in Windows /\ PinKept(w, v) /\ v.focused = r /\ v.lock = w.lock
         /\ v.authorized = w.authorized /\ v.unattended = w.unattended
<1> DEFINE x == StaleTouchDropped(w, p)
<1>1. /\ x \in Windows /\ PinKept(w, x) /\ x.focused = w.focused /\ x.lock = w.lock
      /\ x.authorized = w.authorized /\ x.unattended = w.unattended
  BY DEF StaleTouchDropped, PinKept, Windows
<1> HIDE DEF x
<1>2. CASE x.focused = r
  BY <1>1, <1>2 DEF Focused, x
<1>3. CASE x.focused # r
  <2> DEFINE v == [x EXCEPT !.focused = r, !.pin = None]
  <2>1. v \in Windows
    BY <1>1, FocusType
  <2>2. /\ v.pin = None /\ v.focused = r /\ v.lock = x.lock
        /\ v.authorized = x.authorized /\ v.unattended = x.unattended
    BY <1>1 DEF Windows
  <2> HIDE DEF v
  <2>3. Focused(x, r) = v
    BY <1>3 DEF Focused, v
  <2> QED BY <1>1, <2>1, <2>2, <2>3 DEF PinKept, x
<1> QED BY <1>2, <1>3

(* show_pending_approval: what is still in the buffer was typed at the      *)
(* request that is answered.                                               *)
LEMMA PendingConsents ==
  ASSUME DeskInv, ConsInv, ShowPendingApproval PROVE ConsInv' /\ Consented
<1>1. frame.at = "approval" /\ frame \in Frames /\ win \in Windows /\ WinType(win) /\ win.lock = Active
  BY DEF ShowPendingApproval, DeskInv, OuterType, FrameInv, WinInv, WinType
<1>2. /\ pend \in [request : Requests, session : Sessions] \cup {None} /\ WinInv(win, session)
      /\ {"approval", "unattended"} \subseteq Steps /\ "approval" \in Modals
  BY DEF DeskInv, OuterType, Steps, Modals
<1>3. CASE win.unattended # None /\ Only(win) /\ Goes("unattended")
  <2>1. frame'.at = "unattended"
    BY <1>1, <1>2, <1>3, FrameFacts
  <2>2. TopInv(frame', win)
    BY <1>3, <2>1 DEF TopInv
  <2>3. win' = win /\ UNCHANGED <<session, pend, granted, approved>> /\ Plain(win, win)
    BY <1>1, <1>3, SameFields, SamePlain, Zenon DEF Only, broker
  <2> QED BY <2>2, <2>3, PlainStep
<1>4. CASE Only(Focused(StaleTouchDropped(win, None), None)) /\ Goes("unattended")
  <2> DEFINE v == Focused(StaleTouchDropped(win, None), None)
  <2>1. PinKept(win, v) /\ v.focused = None /\ v.lock = win.lock /\ v.authorized = win.authorized
    BY <1>1, RefocusedKeeps
  <2>2. frame'.at = "unattended"
    BY <1>1, <1>2, <1>4, FrameFacts
  <2> HIDE DEF v
  <2>3. win' = v /\ UNCHANGED <<session, pend, granted, approved>>
    BY <1>4 DEF Only, broker, v
  <2>4. Plain(win, win') /\ TopInv(frame', win')
    BY <2>1, <2>2, <2>3, LockFacts DEF Plain, TopInv
  <2> QED BY <2>3, <2>4, PlainStep
<1> DEFINE p == ApprovalPrompt(pend.session, pend.request)
           w == Focused(StaleTouchDropped(win, p), pend.request)
           x == [w EXCEPT !.touch = None]
<1>5. ASSUME pend # None, win.unattended = None, Draws("approval", "unattended"),
             \/ Only(w)
             \/ Only(BeginUnattended(w))
             \/ /\ pend' = None
                /\ win' = [w EXCEPT !.touch = None, !.pin = None]
                /\ UNCHANGED <<session, stored, app, locker, granted, ext, approved, wrong>>
             \/ Only(RejectStale(w))
             \/ Only(TouchAsked(w, p))
             \/ \E right \in BOOLEAN : Only(TypedPin(w, p, right))
             \/ PinRejected(x)
             \/ /\ session = pend.session /\ HasPin(w) /\ Right(w)
                /\ \/ FinishApproval(PinAccepted(x), p)
                   \/ /\ win' = RejectStale(PinAccepted(w))
                      /\ pend' = None
                      /\ UNCHANGED <<session, stored, app, locker, granted, ext, approved>>
      PROVE  ConsInv' /\ Consented
  <2>1. frame'.at = "unattended" /\ frame'.next = "approval"
    BY <1>1, <1>2, <1>5, FrameFacts
  <2>2. \A v : TopInv(frame', v)
    BY <2>1 DEF TopInv
  <2>3. pend.request \in Requests /\ pend.request # None
    BY <1>2, <1>5, DesktopAssumption
  <2>4. /\ w \in Windows /\ PinKept(win, w) /\ w.focused = pend.request /\ w.lock = Active
        /\ w.authorized = win.authorized /\ w.unattended = None
    BY <1>1, <1>5, <2>3, RefocusedKeeps
  <2>5. Trims(win, w) /\ w.confirm = win.confirm
    BY <1>1, <2>3, Refocuses
  <2> HIDE DEF p, w
  <2>6. Near(w) /\ WinInv(w, session) /\ WinType(w)
    BY <1>1, <1>2, <2>2, <2>4, <2>5, TrimKeeps DEF Near, WinInv
  <2>7. Near(x) /\ WinType(x) /\ (HasPin(w) => HasPin(x))
    <3>1. Trims(w, x) /\ x.confirm = w.confirm
      BY <2>6, Drops, Zenon
    <3>2. Near(x)
      BY <2>6, AcceptedNear
    <3> HIDE DEF x
    <3> QED BY <2>6, <3>1, <3>2, TrimTyped DEF HasPin
  <2>8. ASSUME NEW v, Plain(win, v), Only(v) PROVE ConsInv' /\ Consented
    <3>1. win' = v /\ UNCHANGED <<session, pend, granted, approved>>
      BY <2>8 DEF Only, broker
    <3> QED BY <2>2, <2>8, <3>1, PlainStep
  <2>9. Plain(win, w)
    BY <1>1, <2>4, LockFacts DEF Plain
  <2>10. CASE Only(w)
    BY <2>8, <2>9, <2>10
  <2>11. CASE Only(BeginUnattended(w))
    BY <2>4, <2>6, <2>8, <2>11, BegunOpensNothing
  <2>12. CASE /\ pend' = None
              /\ win' = [w EXCEPT !.touch = None, !.pin = None]
              /\ UNCHANGED <<session, stored, app, locker, granted, ext, approved, wrong>>
    <3>1. win'.pin = None /\ win'.lock = w.lock /\ win'.authorized = w.authorized
      BY <2>4, <2>12 DEF Windows
    <3>2. Plain(w, win')
      BY <3>1, PinlessPlain
    <3> QED BY <2>2, <2>6, <2>12, <3>1, <3>2, NearPlain
  <2>13. CASE Only(RejectStale(w))
    <3> DEFINE v == RejectStale(w)
    <3>1. Plain(w, v) /\ v.pin = None
      BY <2>6, ResyncOpensNothing
    <3> HIDE DEF v
    <3>2. win' = v /\ UNCHANGED <<session, pend, granted, approved>>
      BY <2>13 DEF Only, broker, v
    <3> QED BY <2>2, <2>6, <3>1, <3>2, NearPlain
  <2>14. CASE Only(TouchAsked(w, p))
    <3> DEFINE v == TouchAsked(w, p)
    <3>1. Same(w, v)
      BY <2>4, SameFields, Zenon DEF TouchAsked
    <3> HIDE DEF v
    <3>2. Plain(win, v)
      BY <1>1, <2>4, <3>1, LockFacts DEF Same, Plain, PinKept
    <3> QED BY <2>8, <2>14, <3>2 DEF v
  <2>15. CASE \E right \in BOOLEAN : Only(TypedPin(w, p, right))
    <3>1. InFront(w, p)
      BY <2>3, <2>4 DEF InFront, p
    <3> QED BY <2>4, <2>6, <2>15, <3>1, TypedConsents
  <2>16. CASE PinRejected(x)
    BY <2>7, <2>16, RejectedConsents
  <2>17. CASE session = pend.session /\ HasPin(w) /\ Right(w) /\ FinishApproval(PinAccepted(x), p)
    <3>1. w.pin # None /\ w.pin.right
      BY <2>17 DEF Right
    <3>2. win.pin = w.pin /\ win.focused = pend.request
      BY <2>4, <3>1 DEF PinKept
    <3>3. win.pin.at = p
      BY <1>1, <1>5, <2>3, <3>1, <3>2 DEF ConsInv, PinInv, p
    <3>4. p.session = session
      BY <2>17 DEF p, ApprovalPrompt
    <3>5. Evidence(p)
      BY <3>1, <3>2, <3>3, <3>4 DEF Evidence, Right
    <3>6. Near(PinAccepted(x))
      BY <2>7, <2>17, AcceptedNear
    <3> QED BY <2>17, <3>5, <3>6, ApprovalConsents
  <2>18. CASE /\ HasPin(w) /\ win' = RejectStale(PinAccepted(w)) /\ pend' = None
              /\ UNCHANGED <<session, stored, app, locker, granted, ext, approved>>
    <3> DEFINE y == PinAccepted(w)
               v == RejectStale(y)
    <3>1. Near(y)
      BY <2>6, <2>18, AcceptedNear
    <3>2. WinInv(y, session)
      BY <2>6, <2>18, Counts, TrimKeeps, Zenon
    <3> HIDE DEF y
    <3>3. Plain(y, v) /\ v.pin = None
      BY <3>2, ResyncOpensNothing
    <3>4. win' = v
      BY <2>18 DEF y
    <3> HIDE DEF v
    <3> QED BY <2>2, <2>18, <3>1, <3>3, <3>4, NearPlain
  <2> QED BY <1>5, <2>10, <2>11, <2>12, <2>13, <2>14, <2>15, <2>16, <2>17, <2>18
<1> QED BY <1>3, <1>4, <1>5 DEF ShowPendingApproval

(* show_unattended_confirmation: while it is asked nothing else is typed.  *)
LEMMA UnattendedModalConsents ==
  ASSUME DeskInv, ConsInv, ShowUnattended PROVE ConsInv' /\ Consented
<1>1. /\ frame.at = "unattended" /\ win \in Windows /\ WinType(win) /\ WinInv(win, session)
      /\ win.lock = Active
  BY DEF ShowUnattended, DeskInv, FrameInv, WinInv, WinType
<1>2. CASE win.unattended = None /\ Only(win) /\ Goes("begin")
  <2>1. TopInv(frame', win) /\ frame'.at # "unattended"
    BY <1>1, <1>2, TopMoves
  <2> QED BY <1>1, <1>2, <2>1, SameFields, OnlySame, Zenon
<1> DEFINE p == UnattendedPrompt(win.unattended)
<1>3. ASSUME win.unattended # None, Draws("unattended", "begin"),
             \/ Only(win)
             \/ Only([win EXCEPT !.unattended = None, !.touch = None, !.pin = None])
             \/ Only([RejectStale(win) EXCEPT !.unattended = None])
             \/ Only(TouchAsked(win, p))
             \/ \E right \in BOOLEAN : Only(TypedPin(win, p, right))
             \/ PinRejected(win)
             \/ /\ HasPin(win) /\ session = win.unattended /\ Right(win)
                /\ FinishUnattended(PinAccepted(win), p)
      PROVE  ConsInv' /\ Consented
  <2>1. TopInv(frame', win) /\ frame'.at # "unattended"
    BY <1>1, <1>3, TopMoves
  <2>2. Near(win) /\ PinKept(win, win)
    BY <1>1, <2>1, SameFields, Zenon DEF Near, Same
  <2>3. CASE \/ Only(win)
             \/ Only([win EXCEPT !.unattended = None, !.touch = None, !.pin = None])
             \/ Only(TouchAsked(win, p))
    BY <1>1, <2>1, <2>3, SameFields, OnlySame, Zenon DEF TouchAsked
  <2>4. CASE Only([RejectStale(win) EXCEPT !.unattended = None])
    <3> DEFINE y == RejectStale(win)
               v == [y EXCEPT !.unattended = None]
    <3>1. Plain(win, y) /\ Unfocused(win, y) /\ y.pin = None /\ y \in Windows
      BY <1>1, ResyncOpensNothing, Rejects DEF WinInv, WinType
    <3> HIDE DEF y
    <3>2. /\ v.pin = None /\ v.lock = y.lock /\ v.authorized = y.authorized /\ v.confirm = y.confirm
          /\ v.focused = y.focused /\ v.unattended = None
      BY <3>1 DEF Windows
    <3> HIDE DEF v
    <3>3. Plain(win, v) /\ Unfocused(win, v)
      BY <3>1, <3>2 DEF Plain, PinKept, Unfocused
    <3> QED BY <2>1, <2>4, <3>3, OnlyPlain DEF v, y
  <2>5. CASE \E right \in BOOLEAN : Only(TypedPin(win, p, right))
    <3>1. InFront(win, p)
      BY <1>1, <1>3 DEF InFront
    <3> HIDE DEF p
    <3> QED BY <2>2, <2>5, <3>1, TypedConsents
  <2>6. CASE PinRejected(win)
    BY <2>2, <2>6, RejectedConsents
  <2>7. CASE /\ HasPin(win) /\ session = win.unattended /\ Right(win)
             /\ FinishUnattended(PinAccepted(win), p)
    <3>1. win.pin # None /\ win.pin.right
      BY <2>7 DEF Right
    <3>2. win.pin.at = UnattendedPrompt(session)
      BY <1>1, <1>3, <2>7, <3>1 DEF ConsInv, PinInv
    <3>3. UnattendedPrompt(session).session = session
      BY DEF UnattendedPrompt
    <3>4. Evidence(UnattendedPrompt(session))
      BY <3>1, <3>2, <3>3 DEF Evidence, Right
    <3>5. Near(PinAccepted(win))
      BY <1>1, <2>2, <2>7, AcceptedNear
    <3> QED BY <2>1, <2>7, <3>4, <3>5, UnattendedConsents
  <2> QED BY <1>3, <2>3, <2>4, <2>5, <2>6, <2>7
<1> QED BY <1>2, <1>3 DEF ShowUnattended

-----------------------------------------------------------------------------
(* The rest of the system                                                  *)

(* A window that has just been made shows no request. *)
LEMMA FreshConsents ==
  /\ TopInv(FirstFrame, FreshWindow) /\ FreshWindow.pin = None /\ FreshWindow.authorized = None
  /\ FreshWindow.confirm = None
  BY DEF TopInv, FirstFrame, FreshWindow

(* on_exit and the next start *)
LEMMA ExitConsents ==
  ASSUME DeskInv, ConsInv, Exit PROVE ConsInv' /\ Consented
<1>1. /\ win' = FreshWindow /\ frame' = FirstFrame /\ session' = None /\ pend' = None
      /\ granted' = None /\ approved' = None
  BY DEF Exit
<1>2. Plain(win, win') /\ TopInv(frame', win')
  BY <1>1, FreshConsents DEF Plain, PinKept
<1> QED BY <1>1, <1>2, PlainStep

(* The other threads: a new request takes an id that the window does not   *)
(* show.                                                                   *)
LEMMA OthersConsent ==
  ASSUME DeskInv, ConsInv,
         ExternalRequest \/ ExternalLock \/ FinishAppLock \/ Ask \/ Withdraw \/ TouchAnswer
  PROVE  ConsInv' /\ Consented
<1>1. win \in Windows /\ TopInv(frame, win)
  BY DEF DeskInv, WinInv, WinType, ConsInv
<1>2. Plain(win, win)
  BY <1>1, SameFields, SamePlain, Zenon
<1>3. CASE ExternalRequest \/ ExternalLock \/ FinishAppLock \/ Withdraw
  <2>1. /\ win' = win /\ frame' = frame /\ session' \in {session, None} /\ pend' \in {pend, None}
        /\ granted' \in {granted, None} /\ approved' = approved
    BY <1>3 DEF ExternalRequest, ExternalLock, FinishAppLock, Withdraw, broker
  <2> QED BY <1>1, <1>2, <2>1, PlainStep
<1>4. CASE Ask
  <2>1. win' = win /\ frame' = frame /\ UNCHANGED <<session, granted, approved>>
    BY <1>4 DEF Ask
  <2>2. pend'.request # win.focused
    BY <1>4 DEF Ask, RequestsInUse
  <2>3. PinInv(win', session', pend')
    BY <2>1, <2>2 DEF ConsInv, PinInv
  <2>4. Consented
    BY <2>1, LockFacts DEF Consented
  <2> QED BY <1>1, <2>1, <2>3, <2>4 DEF ConsInv
<1>5. CASE TouchAnswer
  <2>1. PICK r : win' = [win EXCEPT !.touch.result = r]
    BY <1>5 DEF TouchAnswer
  <2>2. Same(win, win')
    BY <1>1, <2>1, SameFields, Zenon
  <2>3. frame' = frame /\ UNCHANGED <<session, pend, granted, approved>>
    BY <1>5 DEF TouchAnswer, broker
  <2>4. win'.focused = win.focused /\ win'.unattended = win.unattended
    BY <1>1, <2>1 DEF Windows
  <2>5. Plain(win, win') /\ TopInv(frame', win')
    BY <1>1, <2>2, <2>3, <2>4, SamePlain, TopSame
  <2> QED BY <2>3, <2>5, PlainStep
<1> QED BY <1>3, <1>4, <1>5

(* Every step keeps the invariant, and what it opens was confirmed. *)
LEMMA ConsentStep ==
  ASSUME DeskInv, ConsInv, [Next]_vars PROVE ConsInv' /\ [Consented]_vars
<1>1. CASE Next
  BY <1>1, BeginConsents, ExternalConsents, IdleConsents, AppLockConsents, TouchConsents,
     SyncConsents, ShowLockedConsents, ShowAppLockingConsents, ShowAppLockedConsents,
     SetupConsents, PagesConsent, DeleteConsents, ManageConsents, DenyConsents,
     HiddenConsents,
     SecretConsents, DiscardConsents, PendingConsents, UnattendedModalConsents, ExitConsents,
     OthersConsent
     DEF Next, FrameStep, ShowUnlocked
<1>2. CASE UNCHANGED vars
  BY <1>2 DEF vars, ConsInv
<1> QED BY <1>1, <1>2

(* Whatever the window opens or grants was confirmed at the prompt for      *)
(* exactly that, by a PIN typed there or a fingerprint asked for there     *)
(* (authenticate_app_pin, authenticate_selected_secret,                    *)
(* finish_authenticated_approval, finish_authenticated_unattended): for    *)
(* any number of secrets, requests and sessions and any PIN limit.         *)
THEOREM ConsentMatchesPrompt == Spec => ConsentIsForThisPrompt
<1>1. Init => ConsInv
  BY FreshConsents DEF Init, ConsInv, PinInv
<1>2. DeskInv /\ ConsInv /\ [Next]_vars => ConsInv'
  BY ConsentStep
<1>3. DeskInv /\ ConsInv /\ [Next]_vars =>
        [/\ win'.authorized \notin {None, win.authorized} => Evidence(win'.authorized)
         /\ (win.lock.state = "locked" /\ win'.lock = Active /\ win'.confirm # None)
              => Evidence(AppPrompt(session, win.lock.epoch))
         /\ approved' \notin {None, approved} => Evidence(approved')
         /\ granted' \notin {None, granted} => Evidence(UnattendedPrompt(granted'))]_vars
  BY ConsentStep DEF Consented
<1> QED BY <1>1, <1>2, <1>3, DeskAlways, PTL DEF Spec, ConsentIsForThisPrompt

=============================================================================
