-------------------------- MODULE VaultStoreProofs --------------------------
(***************************************************************************)
(* Theorems about VaultStore, for any number of writes, failed steps,      *)
(* crashes and damaged copies: comparing revisions is enough to tell which *)
(* copy is newer, and the two files implement the register.  Both need     *)
(* that nobody continues with a primary that a failed restore has replaced *)
(* (StaleChoice = FALSE): with that choice an old session is saved over    *)
(* the restored content under a revision that is already taken.            *)
(***************************************************************************)
EXTENDS VaultStore, TLAPS

-----------------------------------------------------------------------------
(* The contents written so far.                                            *)

(* What a write may have made: the n-th write has a tag and at most a      *)
(* vault n, and the revision grows by at most one with every write.        *)
Written(n) == [vault : 1..n, revision : 0..n-1, tag : 1..n]

(* Everything the files and the application hold was written, and a commit *)
(* is one of the phase it was started in: a creation, the next revision of *)
(* the session, or the backup that was offered.                            *)
WrittenInv ==
  /\ seen \in [Copies -> Written(writes) \cup {None, Damaged}]
  /\ kept \in [Copies -> Written(writes) \cup {None, Damaged}]
  /\ session \in Written(writes) \cup {None}
  /\ offered \in [Copies -> Written(writes) \cup {None}]
  /\ commit \in [content : Written(writes) \cup {None},
                 for : {"none", "create", "edit", "restore"}]
  /\ phase = "recovery" => offered["backup"] # None
  /\ pc # "idle" =>
       /\ commit.content # None
       /\ \/ commit.for = "create" /\ phase = "firstRun"
          \/ /\ commit.for = "edit" /\ phase = "unlocked"
             /\ commit.content.vault = session.vault
             /\ commit.content.revision = session.revision + 1
          \/ /\ commit.for = "restore" /\ phase = "recovery"
             /\ commit.content = offered["backup"]

(* A content written by the n-th write is one of the contents, and stays   *)
(* written; the absence of a file and damage are not contents.             *)
LEMMA WrittenFacts ==
  ASSUME NEW n \in 0..MaxWrites
  PROVE  /\ Written(n) \subseteq Contents
         /\ Written(n) \subseteq Written(n + 1)
         /\ None \notin Written(n) /\ Damaged \notin Written(n)
<1>1. n \in Nat /\ n <= MaxWrites /\ MaxWrites \in Nat
  BY StoreAssumption
<1>2. Written(n) \subseteq Contents
  BY <1>1 DEF Written, Contents
<1>3. Written(n) \subseteq Written(n + 1)
  BY <1>1 DEF Written
<1> QED BY <1>2, <1>3, StoreAssumption

(* The next content of a session, and the first of a new vault, are        *)
(* contents of the next write.                                             *)
LEMMA NextWritten ==
  ASSUME NEW n \in 0..MaxWrites
  PROVE  /\ [vault |-> n + 1, revision |-> 0, tag |-> n + 1] \in Written(n + 1)
         /\ \A s \in Written(n) :
              LET v == [s EXCEPT !.revision = @ + 1, !.tag = n + 1]
              IN v \in Written(n + 1) /\ v.vault = s.vault /\ v.revision = s.revision + 1
<1>1. n \in Nat
  BY StoreAssumption
<1>2. [vault |-> n + 1, revision |-> 0, tag |-> n + 1] \in Written(n + 1)
  BY <1>1 DEF Written
<1>3. ASSUME NEW s \in Written(n)
      PROVE  LET v == [s EXCEPT !.revision = @ + 1, !.tag = n + 1]
             IN v \in Written(n + 1) /\ v.vault = s.vault /\ v.revision = s.revision + 1
  <2> DEFINE v == [s EXCEPT !.revision = @ + 1, !.tag = n + 1]
  <2>1. s \in [vault : 1..n, revision : 0..n-1, tag : 1..n]
    BY DEF Written
  <2>2. s.vault \in 1..(n + 1) /\ s.revision + 1 \in 0..(n + 1)-1 /\ n + 1 \in 1..(n + 1)
    BY <1>1, <2>1
  <2>3. v.vault = s.vault /\ v.revision = s.revision + 1 /\ v.tag = n + 1
    BY <2>1
  <2>4. v \in [vault : 1..(n + 1), revision : 0..(n + 1)-1, tag : 1..(n + 1)]
    BY <2>1, <2>2
  <2> QED BY <2>3, <2>4 DEF Written
<1> QED BY <1>2, <1>3

(* The type invariant and WrittenInv are preserved together. *)
LEMMA TypeStep == TypeOK /\ WrittenInv /\ [Next]_vars => TypeOK' /\ WrittenInv'
<1> SUFFICES ASSUME TypeOK, WrittenInv, [Next]_vars PROVE TypeOK' /\ WrittenInv'
  OBVIOUS
<1> DEFINE W == Written(writes)
<1>a. /\ writes \in Nat /\ MaxWrites \in Nat /\ W \subseteq Contents
      /\ W \subseteq Written(writes + 1)
      /\ None \notin W /\ Damaged \notin W /\ None # Damaged
      /\ None \notin Contents /\ Damaged \notin Contents
  BY WrittenFacts, StoreAssumption DEF TypeOK
<1>b. NoOffer \in [Copies -> W \cup {None}] /\ NoOffer["backup"] = None
  BY DEF NoOffer, Copies
<1>c. NoCommit \in [content : W \cup {None}, for : {"none", "create", "edit", "restore"}]
  BY DEF NoCommit
<1>d. "primary" \in Copies /\ "backup" \in Copies
  BY DEF Copies
<1>e. session # None => session \in W
  BY DEF WrittenInv
<1>1. CASE Create
  <2>1. writes + 1 \in 0..MaxWrites /\ writes' = writes + 1
    BY <1>a, <1>1 DEF Create, Fresh
  <2>2. /\ pc' = "candidates" /\ commit'.for = "create"
        /\ commit' \in [content : Written(writes') \cup {None}, for : {"none", "create", "edit", "restore"}]
        /\ commit'.content \in Written(writes')
    BY <1>1, <2>1, NextWritten DEF Create, Begin, Fresh, TypeOK
  <2>3. None \notin Written(writes') /\ Written(writes') \subseteq Contents
    BY <2>1, WrittenFacts
  <2>4. WrittenInv'
    BY <1>1, <1>a, <2>1, <2>2, <2>3 DEF Create, WrittenInv, disk, controller
  <2>5. TypeOK'
    BY <1>1, <1>a, <2>1, <2>2, <2>3 DEF Create, TypeOK, disk, controller, NoCommit
  <2> QED BY <2>4, <2>5
<1>2. CASE Edit
  <2>1. writes + 1 \in 0..MaxWrites /\ writes' = writes + 1
    BY <1>a, <1>2 DEF Edit, Fresh
  <2>2. session \in W
    BY <1>2, <1>e DEF Edit, TypeOK
  <2>3. /\ pc' = "candidates" /\ commit'.for = "edit"
        /\ commit' \in [content : Written(writes') \cup {None}, for : {"none", "create", "edit", "restore"}]
        /\ commit'.content \in Written(writes')
        /\ commit'.content.vault = session.vault
        /\ commit'.content.revision = session.revision + 1
    BY <1>2, <2>1, <2>2, NextWritten DEF Edit, Begin, Fresh, TypeOK
  <2>4. None \notin Written(writes') /\ Written(writes') \subseteq Contents
    BY <2>1, WrittenFacts
  <2>5. WrittenInv'
    BY <1>2, <1>a, <2>1, <2>3, <2>4 DEF Edit, WrittenInv, disk, controller
  <2>6. TypeOK'
    BY <1>2, <1>a, <2>1, <2>3, <2>4 DEF Edit, TypeOK, disk, controller, NoCommit
  <2> QED BY <2>5, <2>6
<1>3. CASE Unlock
  <2> DEFINE p == seen["primary"]
             b == seen["backup"]
  <2>1. p \in W \cup {None, Damaged} /\ b \in W \cup {None, Damaged}
    BY <1>d DEF WrittenInv
  <2>2. Offer(p, b) # NoOffer => /\ Offer(p, b) \in [Copies -> W \cup {None}]
                                 /\ Offer(p, b)["backup"] \in W
    BY <2>1 DEF Offer, Intact, Copies
  <2>3. OpensPrimary(p, b) => p \in W
    BY <2>1 DEF OpensPrimary, Intact
  <2>4. UNCHANGED <<seen, kept, pc, commit, writes>> /\ pc = "idle" /\ phase = "locked"
    BY <1>3 DEF Unlock, disk
  <2>5. CASE OpensPrimary(p, b) /\ phase' = "unlocked" /\ session' = p /\ UNCHANGED offered
    BY <2>3, <2>4, <2>5, <1>a DEF WrittenInv, TypeOK
  <2>6. CASE Offer(p, b) # NoOffer /\ phase' = "recovery" /\ offered' = Offer(p, b) /\ UNCHANGED session
    BY <2>2, <2>4, <2>6, <1>a DEF WrittenInv, TypeOK
  <2> QED BY <1>3, <2>5, <2>6 DEF Unlock
<1>4. CASE RestoreBackup
  <2>1. /\ pc' = "candidates" /\ commit' = [content |-> offered["backup"], for |-> "restore"]
        /\ UNCHANGED <<seen, kept, phase, session, offered, writes>> /\ phase = "recovery"
    BY <1>4 DEF RestoreBackup, Begin, disk, controller
  <2>2. offered["backup"] \in W
    BY <2>1, <1>d DEF WrittenInv
  <2>3. commit' \in [content : W \cup {None}, for : {"none", "create", "edit", "restore"}]
    BY <2>1, <2>2
  <2>4. WrittenInv'
    BY <2>1, <2>2, <2>3, <1>a DEF WrittenInv
  <2>5. TypeOK'
    BY <2>1, <2>2, <2>3, <1>a DEF TypeOK, NoCommit
  <2> QED BY <2>4, <2>5
<1>5. CASE ContinueWithPrimary
  <2>1. /\ offered["primary"] # None /\ phase' = "unlocked" /\ session' = offered["primary"]
        /\ offered' = NoOffer /\ pc = "idle" /\ UNCHANGED <<seen, kept, pc, commit, writes>>
    BY <1>5 DEF ContinueWithPrimary, disk
  <2>2. offered["primary"] \in W
    BY <2>1, <1>d DEF WrittenInv
  <2> QED BY <2>1, <2>2, <1>a, <1>b DEF WrittenInv, TypeOK
<1>6. CASE Lock
  BY <1>6, <1>a, <1>b DEF Lock, WrittenInv, TypeOK, disk
<1>7. CASE WriteCandidates
  BY <1>7, <1>a DEF WriteCandidates, WrittenInv, TypeOK, disk, controller
<1>8. ASSUME NEW c \in Copies, NEW s, NEW t, Replace(c, s, t), s # "idle", t # "idle",
             t \in {"syncBackup", "syncPrimary"}
      PROVE  TypeOK' /\ WrittenInv'
  <2>1. /\ pc = s /\ pc' = t /\ seen' = [seen EXCEPT ![c] = commit.content]
        /\ UNCHANGED <<kept, phase, session, offered, commit, writes>>
    BY <1>8 DEF Replace, controller
  <2>2. commit.content \in W
    BY <2>1, <1>8 DEF WrittenInv
  <2>3. seen' \in [Copies -> W \cup {None, Damaged}]
    BY <2>1, <2>2 DEF WrittenInv
  <2>4. seen' \in [Copies -> File]
    BY <2>3, <1>a DEF File
  <2> QED BY <1>8, <2>1, <2>3, <2>4, <1>a DEF WrittenInv, TypeOK
<1>9. CASE SyncBackup
  BY <1>9, <1>a DEF SyncBackup, WrittenInv, TypeOK, controller
<1>10. CASE CommitDone
  <2>1. commit.content \in W
    BY <1>10 DEF CommitDone, WrittenInv
  <2> QED BY <1>10, <1>a, <1>b, <1>c, <2>1 DEF CommitDone, WrittenInv, TypeOK
<1>11. CASE CommitFails
  <2>1. CASE commit.for = "edit"
    <3>1. /\ phase = "unlocked" /\ phase' = "locked" /\ session' = None
          /\ UNCHANGED <<seen, kept, offered, writes>> /\ pc' = "idle" /\ commit' = NoCommit
      BY <1>11, <2>1 DEF CommitFails, WrittenInv, disk
    <3> QED BY <3>1, <1>a, <1>c DEF WrittenInv, TypeOK
  <2>2. CASE commit.for # "edit"
    <3>1. /\ UNCHANGED <<seen, kept, phase, session, offered, writes>>
          /\ pc' = "idle" /\ commit' = NoCommit
      BY <1>11, <2>2 DEF CommitFails, disk, controller
    <3> QED BY <3>1, <1>a, <1>c DEF WrittenInv, TypeOK
  <2> QED BY <2>1, <2>2
<1>12. CASE Crash
  <2>1. PICK lost \in SUBSET Copies :
          seen' = [c \in Copies |-> IF c \in lost THEN kept[c] ELSE seen[c]]
    BY <1>12 DEF Crash
  <2>2. seen' \in [Copies -> W \cup {None, Damaged}] /\ kept' = seen'
    BY <2>1, <1>12 DEF Crash, WrittenInv
  <2>3. seen' \in [Copies -> File]
    BY <2>2, <1>a DEF File
  <2>4. /\ phase' \in {"locked", "firstRun"} /\ session' = None /\ offered' = NoOffer
        /\ pc' = "idle" /\ commit' = NoCommit /\ writes' = writes
    BY <1>12 DEF Crash
  <2> QED BY <2>2, <2>3, <2>4, <1>a, <1>b, <1>c DEF WrittenInv, TypeOK
<1>13. ASSUME NEW c \in Copies, WriteBack(c) PROVE TypeOK' /\ WrittenInv'
  BY <1>13, <1>a DEF WriteBack, WrittenInv, TypeOK, controller
<1>14. ASSUME NEW c \in Copies, Damage(c) PROVE TypeOK' /\ WrittenInv'
  <2>1. /\ seen' \in [Copies -> W \cup {None, Damaged}] /\ kept' \in [Copies -> W \cup {None, Damaged}]
        /\ UNCHANGED <<phase, session, offered, pc, commit, writes>>
    BY <1>14 DEF Damage, WrittenInv, controller
  <2>2. seen' \in [Copies -> File] /\ kept' \in [Copies -> File]
    BY <2>1, <1>a DEF File
  <2> QED BY <2>1, <2>2, <1>a DEF WrittenInv, TypeOK
<1>15. CASE UNCHANGED vars
  BY <1>15 DEF vars, WrittenInv, TypeOK
<1>16. CASE ReplaceBackup
  BY <1>8, <1>16, <1>d DEF ReplaceBackup
<1>17. CASE ReplacePrimary
  BY <1>8, <1>17, <1>d DEF ReplacePrimary
<1> QED BY <1>1, <1>2, <1>3, <1>4, <1>5, <1>6, <1>7, <1>9, <1>10, <1>11, <1>12, <1>13,
           <1>14, <1>15, <1>16, <1>17 DEF Next

(* Both hold at the start. *)
LEMMA TypeInit == Init => TypeOK /\ WrittenInv
  BY StoreAssumption DEF Init, TypeOK, WrittenInv, Written, File, Copies, NoOffer, NoCommit

-----------------------------------------------------------------------------
(* Where the contents are.                                                 *)

(* The entries of the two copies, as they are seen and as they are kept.   *)
SP == seen["primary"]
SB == seen["backup"]
KP == kept["primary"]
KB == kept["backup"]

(* How far a commit has come: once the backup is renamed the new content   *)
(* is in it, once the directory is synced it is there to stay, and then it *)
(* is in the primary too.  Damage only comes when all four entries agree.  *)
ProgressInv ==
  LET v == commit.content IN
  /\ pc = "syncBackup" => SB = v \/ (SB = Damaged /\ SP = v /\ KP = v)
  /\ pc = "replacePrimary" => \/ SB = v /\ KB = v
                              \/ SB = Damaged /\ KB = Damaged /\ SP = v /\ KP = v
  /\ pc = "syncPrimary" => \/ SP = v /\ SB = v /\ KB = v
                           \/ SP = v /\ SB = Damaged /\ KB = Damaged
                           \/ SP = Damaged /\ KP = Damaged /\ SB = v /\ KB = v

(* The session has the content of the primary until the primary is         *)
(* replaced, or that of the backup if the primary was damaged under it.    *)
SessionInv ==
  session # None /\ pc # "syncPrimary" =>
    \/ SP = session
    \/ /\ SP = Damaged /\ KP = Damaged
       /\ pc \in {"idle", "candidates", "replaceBackup"} => SB = session /\ KB = session

(* Of one vault, f is g or an older revision. *)
Old(f, g) ==
  Intact(f) /\ Intact(g) /\ f.vault = g.vault => f.revision < g.revision \/ f = g

(* What the primary may fall back to is older than what it is, and both    *)
(* are older than what is being committed or is offered for a restore.     *)
OrderInv ==
  /\ Old(KP, SP)
  /\ ~Intact(SP) => KP = SP
  /\ pc # "idle" => Old(SP, commit.content) /\ Old(KP, commit.content)
  /\ phase = "recovery" => Old(SP, offered["backup"]) /\ Old(KP, offered["backup"])

(* The invariant behind both theorems. *)
StoreInv ==
  TypeOK /\ WrittenInv /\ ProgressInv /\ SessionInv /\ OrderInv /\ RevisionsTellCopies

(* Every entry is absent, damaged or written. *)
LEMMA Entries ==
  ASSUME TypeOK, WrittenInv
  PROVE  /\ \A f \in {SP, SB, KP, KB} : f \in Written(writes) \cup {None, Damaged}
         /\ \A f \in Written(writes) : Intact(f) /\ f.revision \in Nat /\ f.vault \in 1..writes
         /\ writes \in Nat /\ ~Intact(None) /\ ~Intact(Damaged)
<1>1. writes \in Nat
  BY StoreAssumption DEF TypeOK
<1>2. None \notin Written(writes) /\ Damaged \notin Written(writes)
  BY WrittenFacts DEF TypeOK
<1>3. \A f \in Written(writes) : f.revision \in Nat /\ f.vault \in 1..writes
  BY <1>1 DEF Written
<1> QED BY <1>1, <1>2, <1>3 DEF WrittenInv, Copies, SP, SB, KP, KB, Intact

(* A crash leaves in each copy what was seen or kept of it, and nothing    *)
(* else of the application.                                                *)
LEMMA CrashEffects ==
  ASSUME Crash
  PROVE  /\ SP' \in {SP, KP} /\ SB' \in {SB, KB} /\ KP' = SP' /\ KB' = SB'
         /\ pc' = "idle" /\ session' = None /\ phase' \in {"locked", "firstRun"}
  BY DEF Crash, SP, SB, KP, KB, Copies

(* Damage strikes one of two equal copies. *)
LEMMA DamageEffects ==
  ASSUME TypeOK, NEW c \in Copies, Damage(c)
  PROVE  /\ SP = SB /\ KP = SP /\ KB = SP /\ Intact(SP)
         /\ \/ SP' = Damaged /\ KP' = Damaged /\ SB' = SB /\ KB' = KB
            \/ SP' = SP /\ KP' = KP /\ SB' = Damaged /\ KB' = Damaged
         /\ UNCHANGED <<phase, session, offered, pc, commit, writes>>
  BY DEF Damage, TypeOK, SP, SB, KP, KB, Copies, controller

(* The file system keeps what it shows of one copy. *)
LEMMA WriteBackEffects ==
  ASSUME TypeOK, NEW c \in Copies, WriteBack(c)
  PROVE  /\ SP' = SP /\ SB' = SB
         /\ (KP' = SP /\ KB' = KB) \/ (KP' = KP /\ KB' = SB)
         /\ UNCHANGED <<phase, session, offered, pc, commit, writes>>
  BY DEF WriteBack, TypeOK, SP, SB, KP, KB, Copies, controller

(* A rename replaces one entry that is seen. *)
LEMMA ReplaceEffects ==
  ASSUME TypeOK
  PROVE  /\ ReplaceBackup =>
              /\ pc = "replaceBackup" /\ pc' = "syncBackup"
              /\ SB' = commit.content /\ UNCHANGED <<SP, KP, KB>>
              /\ UNCHANGED <<phase, session, offered, commit, writes>>
         /\ ReplacePrimary =>
              /\ pc = "replacePrimary" /\ pc' = "syncPrimary"
              /\ SP' = commit.content /\ UNCHANGED <<SB, KP, KB>>
              /\ UNCHANGED <<phase, session, offered, commit, writes>>
  BY DEF ReplaceBackup, ReplacePrimary, Replace, TypeOK, SP, SB, KP, KB, Copies, controller

(* The other steps leave the entries alone, or keep what is seen. *)
LEMMA OtherEffects ==
  /\ Create \/ Edit \/ Unlock \/ RestoreBackup \/ ContinueWithPrimary \/ Lock
       \/ WriteCandidates \/ CommitFails => UNCHANGED <<SP, SB, KP, KB>>
  /\ SyncBackup \/ CommitDone => SP' = SP /\ SB' = SB /\ KP' = SP /\ KB' = SB
<1>1. Create \/ Edit \/ Unlock \/ RestoreBackup \/ ContinueWithPrimary \/ Lock
        \/ WriteCandidates \/ CommitFails => UNCHANGED <<seen, kept>>
  BY DEF Create, Edit, Unlock, RestoreBackup, ContinueWithPrimary, Lock, WriteCandidates,
         CommitFails, disk
<1>2. SyncBackup \/ CommitDone => UNCHANGED seen /\ kept' = seen
  BY DEF SyncBackup, CommitDone
<1> QED BY <1>1, <1>2 DEF SP, SB, KP, KB

(* A commit never claims more than it has done. *)
LEMMA ProgressStep ==
  TypeOK /\ WrittenInv /\ ProgressInv /\ [Next]_vars => ProgressInv'
<1> SUFFICES ASSUME TypeOK, WrittenInv, ProgressInv, [Next]_vars PROVE ProgressInv'
  OBVIOUS
<1>a. Intact(Damaged) = FALSE
  BY DEF Intact
<1>1. CASE Create \/ Edit \/ RestoreBackup
  BY <1>1 DEF Create, Edit, RestoreBackup, Begin, ProgressInv
<1>2. CASE Unlock \/ ContinueWithPrimary \/ Lock
  BY <1>2 DEF Unlock, ContinueWithPrimary, Lock, ProgressInv
<1>3. CASE WriteCandidates \/ CommitFails \/ CommitDone
  BY <1>3 DEF WriteCandidates, CommitFails, CommitDone, ProgressInv
<1>4. CASE ReplaceBackup \/ ReplacePrimary
  BY <1>4, ReplaceEffects DEF ProgressInv
<1>5. CASE SyncBackup
  BY <1>5, OtherEffects DEF SyncBackup, ProgressInv
<1>6. CASE Crash
  BY <1>6, CrashEffects DEF ProgressInv
<1>7. ASSUME NEW c \in Copies, WriteBack(c) PROVE ProgressInv'
  BY <1>7, WriteBackEffects DEF ProgressInv
<1>8. ASSUME NEW c \in Copies, Damage(c) PROVE ProgressInv'
  BY <1>8, <1>a, DamageEffects DEF ProgressInv
<1>9. CASE UNCHANGED vars
  BY <1>9 DEF vars, ProgressInv, SP, SB, KP, KB
<1> QED BY <1>1, <1>2, <1>3, <1>4, <1>5, <1>6, <1>7, <1>8, <1>9 DEF Next

(* The session is the content of the primary, or of the copy of it. *)
LEMMA SessionStep ==
  ASSUME StaleChoice = FALSE
  PROVE  TypeOK /\ WrittenInv /\ ProgressInv /\ SessionInv /\ [Next]_vars => SessionInv'
<1> SUFFICES ASSUME TypeOK, WrittenInv, ProgressInv, SessionInv, [Next]_vars
             PROVE  SessionInv'
  OBVIOUS
<1>a. Intact(Damaged) = FALSE
  BY DEF Intact
<1>1. CASE Create \/ RestoreBackup
  BY <1>1 DEF Create, RestoreBackup, SessionInv, TypeOK, controller
<1>2. CASE Edit
  BY <1>2, OtherEffects DEF Edit, Begin, SessionInv, controller
<1>3. CASE Unlock
  <2>1. UNCHANGED <<SP, SB, KP, KB>>
    BY <1>3, OtherEffects
  <2>2. (session' = SP) \/ (session' = None)
    BY <1>3 DEF Unlock, SP, TypeOK
  <2> QED BY <2>1, <2>2 DEF SessionInv
<1>4. CASE ContinueWithPrimary
  <2>1. session' = SP
    BY <1>4 DEF ContinueWithPrimary, SP
  <2> QED BY <1>4, <2>1, OtherEffects DEF SessionInv
<1>5. CASE Lock \/ CommitFails
  <2>1. session' = None
    BY <1>5 DEF Lock, CommitFails, WrittenInv, TypeOK, controller
  <2> QED BY <2>1 DEF SessionInv
<1>6. CASE WriteCandidates
  BY <1>6, OtherEffects DEF WriteCandidates, SessionInv, controller
<1>7. CASE ReplaceBackup \/ ReplacePrimary
  BY <1>7, ReplaceEffects DEF SessionInv
<1>8. CASE SyncBackup
  BY <1>8, OtherEffects DEF SyncBackup, SessionInv, controller
<1>9. CASE CommitDone
  BY <1>9, OtherEffects DEF CommitDone, SessionInv, ProgressInv
<1>10. CASE Crash
  BY <1>10, CrashEffects DEF SessionInv
<1>11. ASSUME NEW c \in Copies, WriteBack(c) PROVE SessionInv'
  BY <1>11, WriteBackEffects DEF SessionInv
<1>12. ASSUME NEW c \in Copies, Damage(c) PROVE SessionInv'
  BY <1>12, <1>a, DamageEffects DEF SessionInv
<1>13. CASE UNCHANGED vars
  BY <1>13 DEF vars, SessionInv, SP, SB, KP, KB
<1> QED BY <1>1, <1>2, <1>3, <1>4, <1>5, <1>6, <1>7, <1>8, <1>9, <1>10, <1>11, <1>12, <1>13
        DEF Next

(* Contents of one vault grow older only in one direction. *)
LEMMA OldFacts ==
  ASSUME NEW n \in Nat, NEW f \in Written(n) \cup {None, Damaged},
         NEW g \in Written(n) \cup {None, Damaged}, NEW h \in Written(n) \cup {None, Damaged}
  PROVE  /\ Old(f, f) /\ Old(Damaged, f) /\ Old(None, f) /\ Old(f, Damaged)
         /\ Old(f, g) /\ Intact(g) /\ Newer(h, g) => Old(f, h) /\ Old(g, h)
         /\ Old(f, g) /\ Intact(f) /\ Intact(g) /\ f.vault = g.vault /\ f.revision = g.revision
              => f = g
<1>1. \A x \in Written(n) : x.revision \in Nat
  BY DEF Written
<1>2. \A x \in {f, g, h} : Intact(x) => x.revision \in Nat
  BY <1>1 DEF Intact
<1>3. Old(f, f) /\ Old(Damaged, f) /\ Old(None, f) /\ Old(f, Damaged)
  BY DEF Old, Intact
<1>4. Old(f, g) /\ Intact(g) /\ Newer(h, g) => Old(f, h) /\ Old(g, h)
  BY <1>2 DEF Old, Newer
<1>5. Old(f, g) /\ Intact(f) /\ Intact(g) /\ f.vault = g.vault /\ f.revision = g.revision
        => f = g
  BY <1>2 DEF Old
<1> QED BY <1>3, <1>4, <1>5

(* The order of the contents is kept by every step. *)
LEMMA OrderStep == StoreInv /\ [Next]_vars => OrderInv'
<1> SUFFICES ASSUME StoreInv, [Next]_vars PROVE OrderInv'
  OBVIOUS
<1> USE DEF StoreInv
<1> DEFINE W == Written(writes)
<1>a. /\ SP \in W \cup {None, Damaged} /\ KP \in W \cup {None, Damaged}
      /\ SB \in W \cup {None, Damaged}
      /\ writes \in Nat
      /\ \A f \in W : Intact(f) /\ f.revision \in Nat /\ f.vault \in 1..writes
  BY Entries
<1>b. Old(SP, SP) /\ Old(Damaged, SP) /\ Old(KP, KP) /\ ~Intact(Damaged) /\ Old(SP, Damaged)
  BY <1>a, OldFacts DEF Intact
<1> HIDE DEF W
<1>1. CASE Create
  <2>1. commit'.content.vault = writes + 1 /\ UNCHANGED phase /\ phase = "firstRun"
    BY <1>1 DEF Create, Begin, Fresh, controller
  <2>2. \A f \in W \cup {None, Damaged} : Old(f, commit'.content)
    BY <1>a, <2>1 DEF Old, Intact
  <2>3. UNCHANGED <<SP, KP>>
    BY <1>1, OtherEffects
  <2> QED BY <1>a, <2>1, <2>2, <2>3 DEF OrderInv
<1>2. CASE Edit
  <2> DEFINE v == commit'.content
  <2>1. /\ phase = "unlocked" /\ UNCHANGED phase /\ session \in W
        /\ pc = "idle" /\ UNCHANGED <<SP, KP>>
    BY <1>2, OtherEffects DEF Edit, TypeOK, WrittenInv, controller, W
  <2>2. v.vault = session.vault /\ v.revision = session.revision + 1
    <3>1. writes \in 0..MaxWrites
      BY DEF TypeOK
    <3> QED BY <1>2, <2>1, <3>1, NextWritten DEF Edit, Begin, Fresh, W
  <2> HIDE DEF v
  <2>3. SP = session \/ (SP = Damaged /\ KP = Damaged)
    BY <2>1 DEF SessionInv, TypeOK
  <2>4. Old(SP, v)
    BY <1>a, <1>b, <2>1, <2>2, <2>3 DEF Old
  <2>5. Old(KP, v)
    BY <1>a, <1>b, <2>1, <2>2, <2>3 DEF Old, OrderInv, Intact
  <2> QED BY <2>1, <2>4, <2>5 DEF OrderInv, v
<1>3. CASE Unlock
  <2>1. UNCHANGED <<SP, SB, KP, pc, commit>> /\ pc = "idle"
    BY <1>3, OtherEffects DEF Unlock
  <2>2. CASE phase' = "unlocked"
    BY <2>1, <2>2 DEF OrderInv
  <2>3. CASE phase' = "recovery"
    <3>1. Offer(SP, SB) # NoOffer /\ offered' = Offer(SP, SB)
      BY <1>3, <2>3 DEF Unlock, SP, SB
    <3>2. offered'["backup"] = SB /\ (Intact(SP) => Newer(SB, SP))
      BY <3>1 DEF Offer
    <3>3. Old(SP, SB) /\ Old(KP, SB)
      <4>1. CASE Intact(SP)
        BY <3>2, <4>1, <1>a, OldFacts DEF OrderInv, W
      <4>2. CASE ~Intact(SP)
        BY <4>2 DEF OrderInv, Old
      <4> QED BY <4>1, <4>2
    <3> QED BY <2>1, <3>2, <3>3 DEF OrderInv
  <2> QED BY <1>3, <2>2, <2>3 DEF Unlock
<1>4. CASE RestoreBackup
  <2>1. /\ phase = "recovery" /\ UNCHANGED <<SP, KP, phase, offered>>
        /\ commit'.content = offered["backup"]
    BY <1>4, OtherEffects DEF RestoreBackup, Begin, controller
  <2> QED BY <2>1 DEF OrderInv
<1>5. CASE ContinueWithPrimary \/ Lock
  <2>1. UNCHANGED <<SP, KP, pc, commit>> /\ phase' # "recovery"
    BY <1>5, OtherEffects DEF ContinueWithPrimary, Lock
  <2> QED BY <2>1 DEF OrderInv
<1>6. CASE WriteCandidates
  <2>1. UNCHANGED <<SP, KP, commit, phase, offered>> /\ pc # "idle"
    BY <1>6, OtherEffects DEF WriteCandidates, controller
  <2> QED BY <2>1 DEF OrderInv
<1>7. CASE CommitFails
  <2>1. /\ UNCHANGED <<SP, KP>> /\ pc' = "idle"
        /\ phase' = "recovery" => UNCHANGED <<phase, offered>>
    BY <1>7, OtherEffects DEF CommitFails, controller
  <2> QED BY <2>1 DEF OrderInv
<1>8. CASE ReplaceBackup
  BY <1>8, ReplaceEffects DEF OrderInv
<1>9. CASE ReplacePrimary
  <2>1. /\ pc = "replacePrimary" /\ SP' = commit.content /\ UNCHANGED KP
        /\ UNCHANGED <<phase, offered, commit>>
    BY <1>9, ReplaceEffects
  <2>2. commit.content \in W
    BY <2>1 DEF WrittenInv, W
  <2>3. Old(KP, commit.content) /\ Old(commit.content, commit.content) /\ Intact(SP')
    BY <1>a, <2>1, <2>2 DEF OrderInv, Old
  <2>4. phase = "recovery" => commit.content = offered["backup"]
    BY <2>1 DEF WrittenInv
  <2> QED BY <2>1, <2>3, <2>4 DEF OrderInv
<1>10. CASE SyncBackup
  <2>1. SP' = SP /\ KP' = SP /\ UNCHANGED <<phase, offered, commit>> /\ pc # "idle"
    BY <1>10, OtherEffects DEF SyncBackup, controller
  <2> QED BY <2>1, <1>b DEF OrderInv
<1>11. CASE CommitDone
  <2>1. SP' = SP /\ KP' = SP /\ phase' = "unlocked" /\ pc' = "idle"
    BY <1>11, OtherEffects DEF CommitDone
  <2> QED BY <2>1, <1>b DEF OrderInv
<1>12. CASE Crash
  BY <1>12, <1>b, CrashEffects DEF OrderInv
<1>13. ASSUME NEW c \in Copies, WriteBack(c) PROVE OrderInv'
  BY <1>13, <1>b, WriteBackEffects DEF OrderInv
<1>14. ASSUME NEW c \in Copies, Damage(c) PROVE OrderInv'
  <2>1. /\ (SP' = Damaged /\ KP' = Damaged) \/ (SP' = SP /\ KP' = KP)
        /\ UNCHANGED <<phase, offered, pc, commit>>
    BY <1>14, DamageEffects
  <2>2. \A g : Old(Damaged, g)
    BY <1>b DEF Old
  <2> QED BY <2>1, <2>2, <1>b DEF OrderInv
<1>15. CASE UNCHANGED vars
  BY <1>15 DEF vars, OrderInv, SP, KP
<1> QED BY <1>1, <1>2, <1>3, <1>4, <1>5, <1>6, <1>7, <1>8, <1>9, <1>10, <1>11, <1>12, <1>13,
           <1>14, <1>15 DEF Next

(* Nor do two copies of one vault ever differ in all but the revision. *)
LEMMA RevisionsStep == StoreInv /\ [Next]_vars => RevisionsTellCopies'
<1> SUFFICES ASSUME StoreInv, [Next]_vars PROVE RevisionsTellCopies'
  OBVIOUS
<1> USE DEF StoreInv
<1> DEFINE W == Written(writes)
           Agree(p, b) == Intact(p) /\ Intact(b) /\ p.vault = b.vault /\ p.revision = b.revision
                            => p = b
<1>a. /\ SP \in W \cup {None, Damaged} /\ KP \in W \cup {None, Damaged} /\ writes \in Nat
  BY Entries
<1>b. Agree(SP, SB) /\ Agree(SP, KB) /\ Agree(KP, SB) /\ Agree(KP, KB)
  BY DEF RevisionsTellCopies, SP, SB, KP, KB
<1>c. \A f : Agree(f, Damaged) /\ Agree(Damaged, f) /\ Agree(f, f)
  BY DEF Intact
<1>d. SUFFICES Agree(SP', SB') /\ Agree(SP', KB') /\ Agree(KP', SB') /\ Agree(KP', KB')
  BY DEF RevisionsTellCopies, SP, SB, KP, KB
<1>e. pc # "idle" => Agree(SP, commit.content) /\ Agree(KP, commit.content)
  <2>1. SUFFICES ASSUME pc # "idle"
                 PROVE  Agree(SP, commit.content) /\ Agree(KP, commit.content)
    OBVIOUS
  <2>2. commit.content \in W \cup {None, Damaged}
    BY DEF WrittenInv
  <2>3. Old(SP, commit.content) /\ Old(KP, commit.content)
    BY <2>1 DEF OrderInv
  <2> QED BY <1>a, <2>2, <2>3, OldFacts
<1> HIDE DEF Agree, W
<1>1. CASE Create \/ Edit \/ Unlock \/ RestoreBackup \/ ContinueWithPrimary \/ Lock
             \/ WriteCandidates \/ CommitFails
  BY <1>1, <1>b, OtherEffects
<1>2. CASE SyncBackup \/ CommitDone
  BY <1>2, <1>b, OtherEffects
<1>3. CASE ReplaceBackup
  BY <1>3, <1>b, <1>e, ReplaceEffects
<1>4. CASE ReplacePrimary
  <2>1. SB \in {commit.content, Damaged} /\ KB \in {commit.content, Damaged}
    BY <1>4, ReplaceEffects DEF ProgressInv
  <2> QED BY <1>4, <1>b, <1>c, <2>1, ReplaceEffects
<1>5. CASE Crash
  BY <1>5, <1>b, CrashEffects
<1>6. ASSUME NEW c \in Copies, WriteBack(c)
      PROVE  Agree(SP', SB') /\ Agree(SP', KB') /\ Agree(KP', SB') /\ Agree(KP', KB')
  BY <1>6, <1>b, WriteBackEffects
<1>7. ASSUME NEW c \in Copies, Damage(c)
      PROVE  Agree(SP', SB') /\ Agree(SP', KB') /\ Agree(KP', SB') /\ Agree(KP', KB')
  BY <1>7, <1>c, DamageEffects
<1>8. CASE UNCHANGED vars
  BY <1>8, <1>b DEF vars, SP, SB, KP, KB
<1> QED BY <1>1, <1>2, <1>3, <1>4, <1>5, <1>6, <1>7, <1>8 DEF Next

(* The invariant holds in every state. *)
LEMMA StoreAlways ==
  ASSUME StaleChoice = FALSE
  PROVE  Spec => []StoreInv
<1>1. Init => StoreInv
  <2>1. ASSUME Init PROVE ProgressInv /\ SessionInv /\ OrderInv /\ RevisionsTellCopies
    BY <2>1 DEF Init, ProgressInv, SessionInv, OrderInv, RevisionsTellCopies, SP, SB, KP, KB,
                Old, Intact, Copies
  <2> QED BY <2>1, TypeInit DEF StoreInv
<1>2. StoreInv /\ [Next]_vars => StoreInv'
  BY TypeStep, ProgressStep, SessionStep, OrderStep, RevisionsStep DEF StoreInv
<1> QED BY <1>1, <1>2, PTL DEF Spec

(* Types always hold, whatever the user chooses. *)
THEOREM TypesAlways == Spec => []TypeOK
  BY TypeInit, TypeStep, PTL DEF Spec

(* Comparing revisions is enough: no sequence of failed commits, restores, *)
(* crashes and rejected backups leaves two copies of one vault with the    *)
(* same revision and different contents (store.rs's open looks at nothing  *)
(* else).                                                                  *)
THEOREM RevisionsAlwaysTell ==
  ASSUME StaleChoice = FALSE
  PROVE  Spec => []RevisionsTellCopies
<1>1. StoreInv => RevisionsTellCopies
  BY DEF StoreInv
<1> QED BY <1>1, StoreAlways, PTL

-----------------------------------------------------------------------------
(* The refinement.                                                         *)

(* What unlocking finds: the primary if it is intact, and the backup if it *)
(* is newer or alone.                                                      *)
Found(p, b) ==
  IF Intact(p) THEN IF Intact(b) /\ Newer(b, p) THEN {p, b} ELSE {p}
  ELSE IF Intact(b) THEN {b} ELSE {None}

(* Outcome is what unlocking finds. *)
LEMMA OutcomeIsFound == ASSUME NEW p, NEW b PROVE Outcome(p, b) = Found(p, b)
<1>1. CASE Intact(p) /\ ~(Intact(b) /\ Newer(b, p))
  BY <1>1 DEF Outcome, Found, OpensPrimary
<1>2. CASE Intact(p) /\ Intact(b) /\ Newer(b, p)
  <2>1. Offer(p, b) = [primary |-> p, backup |-> b] /\ p # None /\ b # None
    BY <1>2 DEF Offer, Intact
  <2>2. Offer(p, b) # NoOffer /\ Offer(p, b).primary = p
    BY <2>1 DEF NoOffer
  <2> QED BY <1>2, <2>1, <2>2 DEF Outcome, Found, OpensPrimary
<1>3. CASE ~Intact(p) /\ Intact(b)
  <2>1. Offer(p, b) = [primary |-> None, backup |-> b] /\ b # None
    BY <1>3 DEF Offer, Intact
  <2>2. Offer(p, b) # NoOffer /\ Offer(p, b).primary = None
    BY <2>1 DEF NoOffer
  <2> QED BY <1>3, <2>1, <2>2 DEF Outcome, Found, OpensPrimary
<1>4. CASE ~Intact(p) /\ ~Intact(b)
  BY <1>4 DEF Outcome, Found, OpensPrimary, Offer
<1> QED BY <1>1, <1>2, <1>3, <1>4

(* The outcomes are those of the four pairs of entries. *)
LEMMA OutcomesArePairs ==
  /\ Outcomes = Found(SP, SB) \cup Found(SP, KB) \cup Found(KP, SB) \cup Found(KP, KB)
  /\ Outcomes' = Found(SP', SB') \cup Found(SP', KB') \cup Found(KP', SB') \cup Found(KP', KB')
<1>1. ASSUME NEW a, NEW b, NEW c, NEW d
      PROVE  UNION {Outcome(p, q) : p \in {a, c}, q \in {b, d}}
               = Outcome(a, b) \cup Outcome(a, d) \cup Outcome(c, b) \cup Outcome(c, d)
  OBVIOUS
<1>2. Outcomes = Outcome(SP, SB) \cup Outcome(SP, KB) \cup Outcome(KP, SB) \cup Outcome(KP, KB)
  BY <1>1 DEF Outcomes, SP, SB, KP, KB
<1>3. Outcomes' = Outcome(SP', SB') \cup Outcome(SP', KB') \cup Outcome(KP', SB')
                    \cup Outcome(KP', KB')
  BY <1>1 DEF Outcomes, SP, SB, KP, KB
<1> QED BY <1>2, <1>3, OutcomeIsFound

(* The register's steps, as conditions on its two variables. *)
LEMMA RegisterSteps ==
  /\ UNCHANGED <<Outcomes, session>> => [Register!Next]_<<Outcomes, session>>
  /\ Outcomes' \subseteq Outcomes /\ Outcomes' # {} /\ session' \in {session, None}
       => Register!Next
  /\ \A v \in Contents, rest \in SUBSET Outcomes :
       /\ rest # {} /\ (session # None => session \in rest)
       /\ Outcomes' = rest \cup {v} /\ session' = session
       => Register!Next
  /\ \A v \in Contents : Outcomes' = {v} /\ session' = v => Register!Next
  /\ session = None /\ session' \in Outcomes \ {None} /\ Outcomes' = Outcomes => Register!Next
<1>1. Outcomes' \subseteq Outcomes /\ Outcomes' # {} /\ session' \in {session, None}
        => Register!Settle
  BY DEF Register!Settle
<1>2. ASSUME NEW v \in Contents, NEW rest \in SUBSET Outcomes, rest # {},
             session # None => session \in rest, Outcomes' = rest \cup {v}, session' = session
      PROVE  Register!Write(v)
  <2>1. rest \in (SUBSET Outcomes) \ {{}}
    BY <1>2
  <2> QED BY <1>2, <2>1 DEF Register!Write
<1>3. \A v \in Contents : Outcomes' = {v} /\ session' = v => Register!Confirm(v)
  BY DEF Register!Confirm
<1>4. session = None /\ session' \in Outcomes \ {None} /\ Outcomes' = Outcomes
        => Register!Open
  BY DEF Register!Open
<1> QED BY <1>1, <1>2, <1>3, <1>4 DEF Register!Next

(* Every step of the store is a step of the register or none. *)
LEMMA RegisterStep ==
  ASSUME StaleChoice = FALSE
  PROVE  StoreInv /\ [Next]_vars => [Register!Next]_<<Outcomes, session>>
<1> SUFFICES ASSUME StoreInv, [Next]_vars PROVE [Register!Next]_<<Outcomes, session>>
  OBVIOUS
<1> USE DEF StoreInv
<1>a. \A p, b : Found(p, b) # {}
  BY DEF Found
<1>b. \A p, b : Intact(p) => p \in Found(p, b)
  BY DEF Found
<1>c. Outcomes # {}
  BY <1>a, OutcomesArePairs
<1>d. \A p, b : (p = SP \/ p = KP) /\ (b = SB \/ b = KB) => Found(p, b) \subseteq Outcomes
  BY OutcomesArePairs
<1>e. ~Intact(Damaged) /\ ~Intact(None) /\ None # Damaged
  BY StoreAssumption DEF Intact
<1>f. session # None => Intact(session)
  BY Entries DEF WrittenInv
<1>g. pc # "idle" => /\ commit.content \in Contents /\ Intact(commit.content)
                     /\ session # None => Newer(commit.content, session)
  <2>1. SUFFICES ASSUME pc # "idle"
                 PROVE  /\ commit.content \in Contents /\ Intact(commit.content)
                        /\ session # None => Newer(commit.content, session)
    OBVIOUS
  <2>2. commit.content \in Written(writes)
    BY <2>1 DEF WrittenInv
  <2>3. commit.content \in Contents /\ Intact(commit.content)
    BY <2>2, WrittenFacts, Entries DEF TypeOK
  <2>4. ASSUME session # None PROVE Newer(commit.content, session)
    <3>1. session \in Written(writes) /\ phase = "unlocked"
      BY <2>4 DEF WrittenInv, TypeOK
    <3>2. session.revision \in Nat
      BY <3>1, Entries
    <3> QED BY <2>1, <3>1, <3>2 DEF WrittenInv, Newer
  <2> QED BY <2>3, <2>4
<1>1. CASE Create \/ Edit \/ RestoreBackup \/ WriteCandidates
  <2>1. UNCHANGED session
    BY <1>1 DEF Create, Edit, RestoreBackup, WriteCandidates, controller
  <2>2. UNCHANGED Outcomes
    BY <1>1, OtherEffects, OutcomesArePairs
  <2> QED BY <2>1, <2>2
<1>2. CASE Unlock \/ ContinueWithPrimary
  <2>1. UNCHANGED Outcomes
    BY <1>2, OtherEffects, OutcomesArePairs
  <2>2. session = None
    BY <1>2 DEF Unlock, ContinueWithPrimary, TypeOK
  <2>3. session' = None \/ (session' = SP /\ Intact(SP))
    <3>1. CASE Unlock
      BY <2>2, <3>1 DEF Unlock, OpensPrimary, SP
    <3>2. CASE ContinueWithPrimary
      <4>1. session' = SP /\ offered["primary"] = SP /\ offered["primary"] # None
        BY <3>2 DEF ContinueWithPrimary, SP
      <4>2. offered["primary"] \in Written(writes) \cup {None}
        BY DEF WrittenInv, Copies
      <4> QED BY <4>1, <4>2, Entries
    <3> QED BY <1>2, <3>1, <3>2
  <2>4. session' = SP /\ Intact(SP) => session' \in Outcomes \ {None}
    BY <1>b, <1>d DEF Intact
  <2> QED BY <2>1, <2>2, <2>3, <2>4, RegisterSteps
<1>3. CASE Lock \/ CommitFails
  <2>1. session' = None
    BY <1>3 DEF Lock, CommitFails, WrittenInv, TypeOK, controller
  <2>2. UNCHANGED Outcomes
    BY <1>3, OtherEffects, OutcomesArePairs
  <2> QED BY <2>1, <2>2, <1>c, RegisterSteps
<1>4. CASE SyncBackup
  <2>1. UNCHANGED session
    BY <1>4 DEF SyncBackup, controller
  <2>2. Outcomes' = Found(SP, SB)
    BY <1>4, OtherEffects, OutcomesArePairs
  <2> QED BY <2>1, <2>2, <1>a, <1>d, RegisterSteps
<1>5. CASE Crash
  <2>1. session' = None /\ Outcomes' = Found(SP', SB')
    BY <1>5, CrashEffects, OutcomesArePairs
  <2>2. Found(SP', SB') \subseteq Outcomes
    BY <1>5, <1>d, CrashEffects
  <2> QED BY <2>1, <2>2, <1>a, RegisterSteps
<1>6. ASSUME NEW c \in Copies, WriteBack(c) PROVE [Register!Next]_<<Outcomes, session>>
  <2>1. Outcomes' \subseteq Outcomes /\ UNCHANGED session
    BY <1>6, WriteBackEffects, OutcomesArePairs
  <2>2. Outcomes' # {}
    BY <1>a, OutcomesArePairs
  <2> QED BY <2>1, <2>2, RegisterSteps
<1>7. ASSUME NEW c \in Copies, Damage(c) PROVE [Register!Next]_<<Outcomes, session>>
  <2>1. Intact(SP) /\ Found(SP, SP) = {SP} /\ Found(Damaged, SP) = {SP} /\ Found(SP, Damaged) = {SP}
    <3>1. Intact(SP)
      BY <1>7, DamageEffects
    <3> QED BY <3>1, <1>e DEF Found
  <2>2. Outcomes = {SP} /\ Outcomes' = {SP} /\ UNCHANGED session
    BY <1>7, <2>1, DamageEffects, OutcomesArePairs
  <2> QED BY <2>2
<1>8. CASE ReplaceBackup
  <2> DEFINE v == commit.content
             rest == Outcomes' \cap Outcomes
  <2>1. /\ SB' = v /\ UNCHANGED <<SP, KP, KB, session>> /\ pc = "replaceBackup"
        /\ v \in Contents /\ Intact(v)
    BY <1>8, <1>g, ReplaceEffects
  <2>2. \A p, b : Found(p, v) \subseteq Found(p, b) \cup {v}
    BY <2>1 DEF Found
  <2>3. Outcomes' \subseteq Outcomes \cup {v}
    BY <2>1, <2>2, OutcomesArePairs
  <2>4. Found(KP, KB) \subseteq rest /\ rest # {}
    BY <2>1, <1>a, <1>d, OutcomesArePairs
  <2>5. session # None => session \in rest
    <3>1. SUFFICES ASSUME session # None PROVE session \in rest
      OBVIOUS
    <3>2. CASE SP = session
      <4>1. session \in Found(SP, KB)
        BY <3>1, <3>2, <1>b, <1>f
      <4> QED BY <4>1, <2>1, OutcomesArePairs
    <3>3. CASE KP = Damaged /\ KB = session
      <4>1. session \in Found(KP, KB)
        BY <3>1, <3>3, <1>e, <1>f DEF Found
      <4> QED BY <4>1, <2>4
    <3> QED BY <2>1, <3>1, <3>2, <3>3 DEF SessionInv
  <2>6. CASE v \in Outcomes'
    <3>1. Outcomes' = rest \cup {v}
      BY <2>3, <2>6
    <3>2. rest \subseteq Outcomes
      OBVIOUS
    <3> HIDE DEF v, rest
    <3> QED BY <3>1, <3>2, <2>1, <2>4, <2>5, RegisterSteps
  <2>7. CASE v \notin Outcomes'
    <3>1. Outcomes' \subseteq Outcomes /\ Outcomes' # {}
      BY <2>3, <2>4, <2>7
    <3> QED BY <3>1, <2>1, RegisterSteps
  <2> QED BY <2>6, <2>7
<1>9. CASE ReplacePrimary
  <2> DEFINE v == commit.content
             rest == Outcomes' \cap Outcomes
  <2>1. /\ SP' = v /\ UNCHANGED <<SB, KP, KB, session>> /\ pc = "replacePrimary"
        /\ v \in Contents /\ Intact(v)
        /\ session # None => Newer(v, session)
    BY <1>9, <1>g, ReplaceEffects
  <2>2. SB \in {v, Damaged} /\ KB \in {v, Damaged}
    BY <2>1 DEF ProgressInv
  <2>3. ~Newer(v, v)
    <3>1. v \in Written(writes)
      BY <2>1 DEF WrittenInv
    <3>2. v.revision \in Nat
      BY <3>1, Entries
    <3> QED BY <3>2 DEF Newer
  <2>4. Found(v, SB) = {v} /\ Found(v, KB) = {v}
    BY <2>1, <2>2, <2>3, <1>e DEF Found
  <2>5. Outcomes' = {v} \cup Found(KP, SB) \cup Found(KP, KB)
    BY <2>1, <2>4, OutcomesArePairs
  <2>6. Found(KP, KB) \subseteq rest /\ rest # {}
    BY <2>5, <1>a, <1>d
  <2>7. rest \cup {v} = Outcomes' /\ rest \subseteq Outcomes
    BY <2>5, <1>d
  <2>8. CASE session = None
    <3> HIDE DEF v, rest
    <3> QED BY <2>1, <2>6, <2>7, <2>8, RegisterSteps
  <2>9. CASE session # None
    <3>1. v \in Outcomes
      <4>1. CASE SB = Damaged
        <5>1. SP = v
          BY <2>1, <4>1, <1>e DEF ProgressInv
        <5> QED BY <5>1, <2>1, <1>b, <1>d
      <4>2. CASE SB = v
        <5>1. (Intact(SP) /\ Newer(v, SP)) \/ ~Intact(SP)
          BY <2>1, <2>9, <1>e DEF SessionInv
        <5>2. v \in Found(SP, SB)
          BY <4>2, <5>1, <2>1 DEF Found
        <5> QED BY <5>2, <1>d
      <4> QED BY <4>1, <4>2, <2>2
    <3>2. Outcomes' \subseteq Outcomes /\ Outcomes' # {}
      BY <3>1, <2>5, <1>d
    <3> QED BY <3>2, <2>1, RegisterSteps
  <2> QED BY <2>8, <2>9
<1>10. CASE CommitDone
  <2> DEFINE v == commit.content
  <2>1. pc = "syncPrimary" /\ session' = v /\ v \in Contents /\ Intact(v)
    BY <1>10, <1>g DEF CommitDone
  <2>2. ~Newer(v, v)
    <3>1. v \in Written(writes)
      BY <2>1 DEF WrittenInv
    <3>2. v.revision \in Nat
      BY <3>1, Entries
    <3> QED BY <3>2 DEF Newer
  <2>3. Outcomes' = Found(SP, SB)
    BY <1>10, OtherEffects, OutcomesArePairs
  <2>4. (SP = v /\ SB \in {v, Damaged}) \/ (SP = Damaged /\ SB = v)
    BY <2>1 DEF ProgressInv
  <2>5. Found(SP, SB) = {v}
    BY <2>1, <2>2, <2>4, <1>e DEF Found
  <2> HIDE DEF v
  <2> QED BY <2>1, <2>3, <2>5, RegisterSteps
<1>11. CASE UNCHANGED vars
  <2>1. UNCHANGED <<SP, SB, KP, KB, session>>
    BY <1>11 DEF vars, SP, SB, KP, KB
  <2>2. UNCHANGED Outcomes
    BY <2>1, OutcomesArePairs
  <2> QED BY <2>1, <2>2
<1> QED BY <1>1, <1>2, <1>3, <1>4, <1>5, <1>6, <1>7, <1>8, <1>9, <1>10, <1>11 DEF Next

(* The store implements the register: whatever fails or crashes, unlocking *)
(* finds the last confirmed content or one whose write was started later,  *)
(* and nothing but the content of a commit that has returned Ok            *)
(* (commit_encrypted, VaultStore::open).                                   *)
THEOREM StoreIsDurable ==
  ASSUME StaleChoice = FALSE
  PROVE  Spec => Durable
<1>1. Init => Register!Init
  <2>1. ASSUME Init PROVE SP = None /\ SB = None /\ KP = None /\ KB = None /\ session = None
    BY <2>1 DEF Init, SP, SB, KP, KB, Copies
  <2>2. Found(None, None) = {None}
    BY DEF Found, Intact
  <2> QED BY <2>1, <2>2, OutcomesArePairs DEF Register!Init
<1>2. Spec => []StoreInv
  BY StoreAlways
<1>3. StoreInv /\ [Next]_vars => [Register!Next]_<<Outcomes, session>>
  BY RegisterStep
<1> QED BY <1>1, <1>2, <1>3, PTL DEF Spec, Durable, Register!Spec
=============================================================================
