----------------------------- MODULE VaultStore -----------------------------
(***************************************************************************)
(* The vault on disk (store.rs of ladon-core) and the VaultController of   *)
(* ladon-app (ui.rs) that opens, edits, recovers and locks it.  A commit   *)
(* replaces the backup and then the primary by renames, and syncs the      *)
(* directory after each; any of its steps may fail, and a crash may come   *)
(* before any of them.                                                     *)
(*                                                                         *)
(* A file's directory entry has what a reader sees and what a power loss   *)
(* would leave; a rename changes the first, a sync of the directory makes  *)
(* the second equal to it.  Candidates are synced before they are renamed, *)
(* so a content is on disk whole or not at all.  There is one passphrase,  *)
(* and it is the right one: a wrong one changes nothing.                   *)
(***************************************************************************)
EXTENDS Naturals, FiniteSets

CONSTANTS None,       \* no file, no vault, no session
          Damaged,    \* a file that unlock_vault rejects
          StaleChoice,  \* BOOLEAN: may the user, after a failed restore, choose
                        \* to continue with a primary already replaced by it?
          MaxWrites   \* bound: contents ever written

VARIABLES
  seen,     \* per copy, the content a reader of its path finds
  kept,     \* per copy, the content a power loss may leave
  phase,    \* ManagedVault
  session,  \* the content of the unlocked session
  offered,  \* RecoveryRequired: the two contents it holds
  pc,       \* the next step of the commit under way
  commit,   \* the content being committed, and for which operation
  writes    \* contents written so far

vars == <<seen, kept, phase, session, offered, pc, commit, writes>>
disk == <<seen, kept>>
controller == <<phase, session, offered>>

Copies == {"primary", "backup"}

(* VaultPayload: its id and its revision; the records are told apart by    *)
(* the write that made them.                                               *)
Contents == [vault : 1..MaxWrites, revision : 0..MaxWrites, tag : 1..MaxWrites]
File == Contents \cup {None, Damaged}

ASSUME StoreAssumption ==
  /\ MaxWrites \in Nat /\ StaleChoice \in BOOLEAN
  /\ None \notin Contents /\ Damaged \notin Contents /\ None # Damaged

NoOffer == [primary |-> None, backup |-> None]
NoCommit == [content |-> None, for |-> "none"]

TypeOK ==
  /\ seen \in [Copies -> File] /\ kept \in [Copies -> File]
  /\ phase \in {"firstRun", "locked", "recovery", "unlocked"}
  /\ session \in Contents \cup {None}
  /\ offered \in [Copies -> Contents \cup {None}]
  /\ pc \in {"idle", "candidates", "replaceBackup", "syncBackup",
             "replacePrimary", "syncPrimary"}
  /\ commit \in [content : Contents \cup {None}, for : {"none", "create", "edit", "restore"}]
  /\ writes \in 0..MaxWrites
  /\ (pc = "idle") = (commit = NoCommit)
  /\ (session # None) = (phase = "unlocked")
  /\ (offered # NoOffer) = (phase = "recovery")

Init ==
  /\ seen = [c \in Copies |-> None] /\ kept = seen
  /\ phase = "firstRun" /\ session = None /\ offered = NoOffer
  /\ pc = "idle" /\ commit = NoCommit /\ writes = 0

-----------------------------------------------------------------------------
(* VaultStore::commit_encrypted.                                           *)

Begin(v, for) ==
  /\ pc' = "candidates"
  /\ commit' = [content |-> v, for |-> for]

(* Both candidates are written, synced and read back. *)
WriteCandidates ==
  /\ pc = "candidates"
  /\ pc' = "replaceBackup"
  /\ UNCHANGED <<disk, controller, commit, writes>>

Replace(copy, step, next) ==
  /\ pc = step
  /\ seen' = [seen EXCEPT ![copy] = commit.content]
  /\ pc' = next
  /\ UNCHANGED <<kept, controller, commit, writes>>

ReplaceBackup == Replace("backup", "replaceBackup", "syncBackup")
ReplacePrimary == Replace("primary", "replacePrimary", "syncPrimary")

SyncBackup ==
  /\ pc = "syncBackup"
  /\ kept' = seen
  /\ pc' = "replacePrimary"
  /\ UNCHANGED <<seen, controller, commit, writes>>

(* Mutant: the commit is reported before the directory is synced again. *)
CommitDoneMutant ==
  /\ pc = "syncPrimary"
  /\ phase' = "unlocked" /\ session' = commit.content /\ offered' = NoOffer
  /\ pc' = "idle" /\ commit' = NoCommit
  /\ UNCHANGED <<disk, writes>>

(* The last sync, and the caller's answer to Ok. *)
CommitDone ==
  /\ pc = "syncPrimary"
  /\ kept' = seen
  /\ phase' = "unlocked" /\ session' = commit.content /\ offered' = NoOffer
  /\ pc' = "idle" /\ commit' = NoCommit
  /\ UNCHANGED <<seen, writes>>

(* Any step fails; each caller answers in its own way: create leaves       *)
(* FirstRun, a restore goes back to RecoveryRequired, an edit locks.       *)
CommitFails ==
  /\ pc # "idle"
  /\ IF commit.for = "edit"
     THEN phase' = "locked" /\ session' = None /\ UNCHANGED offered
     ELSE UNCHANGED controller
  /\ pc' = "idle" /\ commit' = NoCommit
  /\ UNCHANGED <<disk, writes>>

-----------------------------------------------------------------------------
(* VaultController.                                                        *)

Fresh == writes + 1

Create ==
  /\ pc = "idle" /\ phase = "firstRun" /\ writes < MaxWrites
  /\ Begin([vault |-> Fresh, revision |-> 0, tag |-> Fresh], "create")
  /\ writes' = Fresh
  /\ UNCHANGED <<disk, controller>>

(* Mutant: the revision is not incremented. *)
EditMutant ==
  /\ pc = "idle" /\ phase = "unlocked" /\ writes < MaxWrites
  /\ Begin([session EXCEPT !.tag = Fresh], "edit")
  /\ writes' = Fresh
  /\ UNCHANGED <<disk, controller>>

(* add_secret, apply_secret_update, delete_secret. *)
Edit ==
  /\ pc = "idle" /\ phase = "unlocked" /\ writes < MaxWrites
  /\ Begin([session EXCEPT !.revision = @ + 1, !.tag = Fresh], "edit")
  /\ writes' = Fresh
  /\ UNCHANGED <<disk, controller>>

(* VaultStore::open. *)
Intact(f) == f \notin {None, Damaged}
Newer(b, p) == b.vault = p.vault /\ b.revision > p.revision

(* What unlocking finds when the two files hold p and b: an opened vault,  *)
(* or the choice that RecoveryRequired offers.                             *)
OpensPrimary(p, b) == Intact(p) /\ ~ (Intact(b) /\ Newer(b, p))
Offer(p, b) ==
  IF Intact(b) /\ (Intact(p) => Newer(b, p))
  THEN [primary |-> IF Intact(p) THEN p ELSE None, backup |-> b] ELSE NoOffer

Unlock ==
  LET p == seen["primary"]
      b == seen["backup"]
  IN
  /\ pc = "idle" /\ phase = "locked"
  /\ \/ /\ OpensPrimary(p, b)
        /\ phase' = "unlocked" /\ session' = p /\ UNCHANGED offered
     \/ /\ Offer(p, b) # NoOffer
        /\ phase' = "recovery" /\ offered' = Offer(p, b) /\ UNCHANGED session
  /\ UNCHANGED <<disk, pc, commit, writes>>

RestoreBackup ==
  /\ pc = "idle" /\ phase = "recovery"
  /\ Begin(offered.backup, "restore")
  /\ UNCHANGED <<disk, controller, writes>>

(* The choice is the primary as unlocking read it.  A restore that failed  *)
(* in its last sync has replaced that file and still comes back to the     *)
(* choice; with StaleChoice the user takes the replaced content.           *)
ContinueWithPrimary ==
  /\ pc = "idle" /\ phase = "recovery" /\ offered.primary # None
  /\ offered.primary # seen["primary"] => StaleChoice
  /\ phase' = "unlocked" /\ session' = offered.primary /\ offered' = NoOffer
  /\ UNCHANGED <<disk, pc, commit, writes>>

(* lock and auto_lock_if_idle. *)
Lock ==
  /\ pc = "idle" /\ phase \in {"unlocked", "recovery"}
  /\ phase' = "locked" /\ session' = None /\ offered' = NoOffer
  /\ UNCHANGED <<disk, pc, commit, writes>>

-----------------------------------------------------------------------------
(* The environment.                                                        *)

(* The application stops, or the machine does, and is started again        *)
(* (VaultController::new): each entry is as it was seen or as it was kept. *)
Crash ==
  /\ \E lost \in SUBSET Copies :
       seen' = [c \in Copies |-> IF c \in lost THEN kept[c] ELSE seen[c]]
  /\ kept' = seen'
  /\ phase' = IF \E c \in Copies : seen'[c] # None THEN "locked" ELSE "firstRun"
  /\ session' = None /\ offered' = NoOffer
  /\ pc' = "idle" /\ commit' = NoCommit
  /\ UNCHANGED writes

(* The file system writes an entry back without being asked. *)
WriteBack(copy) ==
  /\ kept[copy] # seen[copy]
  /\ kept' = [kept EXCEPT ![copy] = seen[copy]]
  /\ UNCHANGED <<seen, controller, pc, commit, writes>>

(* One of two equal copies becomes unreadable.  (Damage to a content of    *)
(* which there is no second copy loses it, whatever the code does.)        *)
Damage(copy) ==
  /\ \A c, d \in Copies : seen[c] = kept[d] /\ Intact(seen[c])
  /\ seen' = [seen EXCEPT ![copy] = Damaged]
  /\ kept' = [kept EXCEPT ![copy] = Damaged]
  /\ UNCHANGED <<controller, pc, commit, writes>>

Next ==
  \/ Create \/ Edit \/ Unlock \/ RestoreBackup \/ ContinueWithPrimary \/ Lock
  \/ WriteCandidates \/ ReplaceBackup \/ SyncBackup \/ ReplacePrimary
  \/ CommitDone \/ CommitFails
  \/ Crash \/ \E copy \in Copies : WriteBack(copy) \/ Damage(copy)

Spec == Init /\ [][Next]_vars

-----------------------------------------------------------------------------
(* Properties.                                                             *)

(* The contents unlocking can lead to when the files hold p and b. *)
Outcome(p, b) ==
  IF OpensPrimary(p, b) THEN {p}
  ELSE IF Offer(p, b) # NoOffer THEN {Offer(p, b).primary, b} \ {None}
  ELSE {None}

Outcomes == UNION {Outcome(p, b) : p \in {seen["primary"], kept["primary"]},
                                   b \in {seen["backup"], kept["backup"]}}

Register == INSTANCE VaultRegister WITH
  saved <- Outcomes,
  held <- session

(* The two files and their renames implement the register: at every moment, *)
(* and after a crash at that moment, an unlock finds the last confirmed     *)
(* content or one whose write was started later, and once a commit has      *)
(* returned Ok nothing but its content can come back.                       *)
Durable == Register!Spec

(* Comparing revisions is enough to tell which copy is newer (store.rs's    *)
(* open looks at nothing else): copies of one vault with the same revision  *)
(* have the same content, although a rejected backup's revision is used     *)
(* again by the next edit.                                                  *)
RevisionsTellCopies ==
  \A p \in {seen["primary"], kept["primary"]}, b \in {seen["backup"], kept["backup"]} :
    (Intact(p) /\ Intact(b) /\ p.vault = b.vault /\ p.revision = b.revision) => p = b

(* "The primary remains authoritative ... the user explicitly chooses to    *)
(* continue with the primary" (design, section 7.3): a session opened by    *)
(* continue_with_primary has the content of the primary file.               *)
ContinuesWithPrimary ==
  [][pc = "idle" /\ phase = "recovery" /\ phase' = "unlocked"
       => session' \in {seen["primary"], kept["primary"]}]_vars
=============================================================================
