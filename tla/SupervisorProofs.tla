-------------------------- MODULE SupervisorProofs --------------------------
(***************************************************************************)
(* Theorems about Supervisor, for any number of applications and runs, and *)
(* about Redaction, what a run returns of its output, for every text,      *)
(* every division into reads and every finite set of secrets.              *)
(***************************************************************************)
EXTENDS Supervisor, Redaction, SequenceTheorems, FiniteSetTheorems,
        WellFoundedInduction, TLAPS

-----------------------------------------------------------------------------
(* Types.                                                                  *)

(* Why a run ends, and what is reported of it. *)
Whys == Terminations \cup {"none"}
Results == Terminations \cup {"none", "Failed", "Busy"}

(* A run and the processes it started. *)
RunRec == [pc : Phases, files : BOOLEAN, why : Whys, result : Results,
           cancelled : BOOLEAN, expired : BOOLEAN, warning : BOOLEAN]
TreeRec == [child : Lives, kid : Lives, kidInGroup : BOOLEAN, kidHoldsPipe : BOOLEAN,
            stranger : {"none", "alive", "signalled"}]

(* The sets that the variables range over. *)
Shape ==
  /\ app \in [Apps -> {"down", "locked", "cleaned", "serving"}]
  /\ owner \in [Runs -> Apps \cup {NoApp}]
  /\ run \in [Runs -> RunRec]
  /\ tree \in [Runs -> TreeRec]
  /\ disk \in [Runs -> Dirs]

(* A run goes on to another phase. *)
LEMMA RunPc ==
  ASSUME Shape, NEW r \in Runs, NEW p \in Phases
  PROVE  [run EXCEPT ![r].pc = p] \in [Runs -> RunRec]
<1>1. [run EXCEPT ![r].pc = p]
        = [run EXCEPT ![r] = [@ EXCEPT !.pc = p]]
  BY DEF Shape, RunRec
<1>2. [run[r] EXCEPT !.pc = p] \in RunRec
  BY DEF Shape, RunRec
<1> QED BY <1>1, <1>2 DEF Shape

(* It goes on with the reason of its end. *)
LEMMA RunWhy ==
  ASSUME Shape, NEW r \in Runs, NEW p \in Phases, NEW w \in Terminations
  PROVE  [run EXCEPT ![r].pc = p, ![r].why = w] \in [Runs -> RunRec]
<1>1. [run EXCEPT ![r].pc = p, ![r].why = w]
        = [run EXCEPT ![r] = [@ EXCEPT !.pc = p, !.why = w]]
  BY DEF Shape, RunRec
<1>2. [run[r] EXCEPT !.pc = p, !.why = w] \in RunRec
  BY DEF Shape, RunRec, Whys
<1> QED BY <1>1, <1>2 DEF Shape

(* It ends with an error. *)
LEMMA RunResult ==
  ASSUME Shape, NEW r \in Runs, NEW p \in Phases, NEW x \in Results
  PROVE  [run EXCEPT ![r].pc = p, ![r].result = x] \in [Runs -> RunRec]
<1>1. [run EXCEPT ![r].pc = p, ![r].result = x]
        = [run EXCEPT ![r] = [@ EXCEPT !.pc = p, !.result = x]]
  BY DEF Shape, RunRec
<1>2. [run[r] EXCEPT !.pc = p, !.result = x] \in RunRec
  BY ZenonT(30) DEF Shape, RunRec
<1> QED BY <1>1, <1>2 DEF Shape

(* It ends with a result. *)
LEMMA RunJoined ==
  ASSUME Shape, NEW r \in Runs, NEW p \in Phases, NEW k \in BOOLEAN
  PROVE  [run EXCEPT ![r].pc = p, ![r].result = run[r].why, ![r].warning = k] \in [Runs -> RunRec]
<1>1. [run EXCEPT ![r].pc = p, ![r].result = run[r].why, ![r].warning = k]
        = [run EXCEPT ![r] = [@ EXCEPT !.pc = p, !.result = run[r].why, !.warning = k]]
  BY DEF Shape, RunRec
<1>2. [run[r] EXCEPT !.pc = p, !.result = run[r].why, !.warning = k] \in RunRec
  BY DEF Shape, RunRec, Whys, Results
<1> QED BY <1>1, <1>2 DEF Shape

(* It is cancelled, or its time is up. *)
LEMMA RunFlags ==
  ASSUME Shape, NEW r \in Runs
  PROVE  /\ [run EXCEPT ![r].cancelled = TRUE] \in [Runs -> RunRec]
         /\ [run EXCEPT ![r].expired = TRUE] \in [Runs -> RunRec]
BY DEF Shape, RunRec

(* It is refused or begins. *)
LEMMA RunStarted ==
  ASSUME Shape, NEW r \in Runs, NEW f \in BOOLEAN
  PROVE  /\ [run[r] EXCEPT !.pc = "ended", !.result = "Busy"] \in RunRec
         /\ [run[r] EXCEPT !.pc = "bind", !.files = f] \in RunRec
BY ZenonT(30) DEF Shape, RunRec, Phases, Results

(* The child changes. *)
LEMMA TreeChild ==
  ASSUME Shape, NEW r \in Runs, NEW x \in Lives
  PROVE  [tree EXCEPT ![r].child = x] \in [Runs -> TreeRec]
<1>1. [tree EXCEPT ![r].child = x]
        = [tree EXCEPT ![r] = [@ EXCEPT !.child = x]]
  BY DEF Shape, TreeRec
<1>2. [tree[r] EXCEPT !.child = x] \in TreeRec
  BY DEF Shape, TreeRec
<1> QED BY <1>1, <1>2 DEF Shape

(* The forked process changes. *)
LEMMA TreeKid ==
  ASSUME Shape, NEW r \in Runs, NEW x \in Lives
  PROVE  [tree EXCEPT ![r].kid = x] \in [Runs -> TreeRec]
<1>1. [tree EXCEPT ![r].kid = x]
        = [tree EXCEPT ![r] = [@ EXCEPT !.kid = x]]
  BY DEF Shape, TreeRec
<1>2. [tree[r] EXCEPT !.kid = x] \in TreeRec
  BY DEF Shape, TreeRec
<1> QED BY <1>1, <1>2 DEF Shape

(* It ends and lets go of the pipe. *)
LEMMA TreeKidPipe ==
  ASSUME Shape, NEW r \in Runs, NEW x \in Lives, NEW k \in BOOLEAN
  PROVE  [tree EXCEPT ![r].kid = x, ![r].kidHoldsPipe = k] \in [Runs -> TreeRec]
<1>1. [tree EXCEPT ![r].kid = x, ![r].kidHoldsPipe = k]
        = [tree EXCEPT ![r] = [@ EXCEPT !.kid = x, !.kidHoldsPipe = k]]
  BY DEF Shape, TreeRec
<1>2. [tree[r] EXCEPT !.kid = x, !.kidHoldsPipe = k] \in TreeRec
  BY DEF Shape, TreeRec
<1> QED BY <1>1, <1>2 DEF Shape

(* It is forked. *)
LEMMA TreeFork ==
  ASSUME Shape, NEW r \in Runs, NEW x \in Lives, NEW g \in BOOLEAN, NEW k \in BOOLEAN
  PROVE  [tree EXCEPT ![r].kid = x, ![r].kidInGroup = g, ![r].kidHoldsPipe = k] \in [Runs -> TreeRec]
<1>1. [tree EXCEPT ![r].kid = x, ![r].kidInGroup = g, ![r].kidHoldsPipe = k]
        = [tree EXCEPT ![r] = [@ EXCEPT !.kid = x, !.kidInGroup = g, !.kidHoldsPipe = k]]
  BY DEF Shape, TreeRec
<1>2. [tree[r] EXCEPT !.kid = x, !.kidInGroup = g, !.kidHoldsPipe = k] \in TreeRec
  BY DEF Shape, TreeRec
<1> QED BY <1>1, <1>2 DEF Shape

(* It leaves the group. *)
LEMMA TreeGroup ==
  ASSUME Shape, NEW r \in Runs, NEW g \in BOOLEAN
  PROVE  [tree EXCEPT ![r].kidInGroup = g] \in [Runs -> TreeRec]
<1>1. [tree EXCEPT ![r].kidInGroup = g]
        = [tree EXCEPT ![r] = [@ EXCEPT !.kidInGroup = g]]
  BY DEF Shape, TreeRec
<1>2. [tree[r] EXCEPT !.kidInGroup = g] \in TreeRec
  BY DEF Shape, TreeRec
<1> QED BY <1>1, <1>2 DEF Shape

(* It closes the pipe. *)
LEMMA TreePipe ==
  ASSUME Shape, NEW r \in Runs, NEW k \in BOOLEAN
  PROVE  [tree EXCEPT ![r].kidHoldsPipe = k] \in [Runs -> TreeRec]
<1>1. [tree EXCEPT ![r].kidHoldsPipe = k]
        = [tree EXCEPT ![r] = [@ EXCEPT !.kidHoldsPipe = k]]
  BY DEF Shape, TreeRec
<1>2. [tree[r] EXCEPT !.kidHoldsPipe = k] \in TreeRec
  BY DEF Shape, TreeRec
<1> QED BY <1>1, <1>2 DEF Shape

(* The group's id is used again. *)
LEMMA TreeStranger ==
  ASSUME Shape, NEW r \in Runs, NEW x \in {"none", "alive", "signalled"}
  PROVE  [tree EXCEPT ![r].stranger = x] \in [Runs -> TreeRec]
<1>1. [tree EXCEPT ![r].stranger = x]
        = [tree EXCEPT ![r] = [@ EXCEPT !.stranger = x]]
  BY DEF Shape, TreeRec
<1>2. [tree[r] EXCEPT !.stranger = x] \in TreeRec
  BY DEF Shape, TreeRec
<1> QED BY <1>1, <1>2 DEF Shape

(* A signal to the group leaves processes, field by field. *)
LEMMA SignalledFields ==
  ASSUME Shape, NEW r \in Runs, NEW kill \in BOOLEAN
  PROVE  LET t == Signalled(r, kill) IN
         /\ t \in TreeRec
         /\ t.child = IF kill /\ tree[r].child = "alive" THEN "zombie" ELSE tree[r].child
         /\ t.kid = IF kill /\ tree[r].kid = "alive" /\ KidInGroup(r)
                    THEN "zombie" ELSE tree[r].kid
         /\ t.kidInGroup = tree[r].kidInGroup
         /\ t.kidHoldsPipe = (tree[r].kidHoldsPipe /\ ~ (kill /\ KidInGroup(r)))
BY ZenonT(30) DEF Shape, TreeRec, Signalled, Lives, KidInGroup

(* SIGTERM is delivered. *)
LEMMA TreeSignalled ==
  ASSUME Shape, NEW r \in Runs
  PROVE  [tree EXCEPT ![r] = Signalled(r, FALSE)] \in [Runs -> TreeRec]
BY SignalledFields DEF Shape

(* SIGKILL is delivered and the child waited for. *)
LEMMA TreeKilled ==
  ASSUME Shape, NEW r \in Runs
  PROVE  [tree EXCEPT ![r] = [Signalled(r, TRUE) EXCEPT !.child = "gone"]] \in [Runs -> TreeRec]
<1> DEFINE t == Signalled(r, TRUE)
<1>1. t \in TreeRec
  BY SignalledFields
<1>2. [t EXCEPT !.child = "gone"] \in TreeRec
  <2> HIDE DEF t
  <2> QED BY <1>1 DEF TreeRec, Lives
<1> QED BY <1>2 DEF Shape

(* No step leaves these sets. *)
LEMMA ShapeStep ==
  ASSUME Shape, [Next]_vars
  PROVE  Shape'
<1> USE DEF Shape, Phases, Terminations, Results, Lives, Dirs
<1>1. ASSUME NEW a \in Apps, AcquireLock(a) PROVE Shape'
  BY <1>1 DEF AcquireLock
<1>2. ASSUME NEW a \in Apps, Cleanup(a) PROVE Shape'
  BY <1>2 DEF Cleanup
<1>3. ASSUME NEW a \in Apps, CleanupFails(a) PROVE Shape'
  BY <1>3 DEF CleanupFails
<1>4. ASSUME NEW a \in Apps, BindEndpoint(a) PROVE Shape'
  BY <1>4 DEF BindEndpoint
<1>5. ASSUME NEW a \in Apps, Crash(a) PROVE Shape'
  <2>1. ASSUME NEW r \in Runs PROVE [run[r] EXCEPT !.pc = "lost"] \in RunRec
    BY DEF Shape, RunRec, Phases
  <2> QED BY <1>5, <2>1 DEF Crash, Shape
<1>6. ASSUME NEW a \in Apps, NEW r \in Runs, Start(a, r) PROVE Shape'
  <2>1. PICK f \in BOOLEAN :
          run' = [run EXCEPT ![r] = IF \E s \in Runs : owner[s] = a /\ Supervised(s)
                                    THEN [@ EXCEPT !.pc = "ended", !.result = "Busy"]
                                    ELSE [@ EXCEPT !.pc = "bind", !.files = f]]
    BY <1>6 DEF Start
  <2>2. run' \in [Runs -> RunRec]
    BY <2>1, RunStarted
  <2> QED BY <1>6, <2>2 DEF Start
<1>7. ASSUME NEW r \in Runs, BindFails(r) PROVE Shape'
  BY <1>7, RunResult DEF BindFails, Failing, Abandon
<1>8. ASSUME NEW r \in Runs, MakeDirectory(r) PROVE Shape'
  BY <1>8 DEF MakeDirectory
<1>9. ASSUME NEW r \in Runs, WriteSecret(r) PROVE Shape'
  BY <1>9 DEF WriteSecret
<1>10. ASSUME NEW r \in Runs, Bound(r) PROVE Shape'
  BY <1>10, RunPc DEF Bound
<1>11. ASSUME NEW r \in Runs, LaunchRefused(r) PROVE Shape'
  BY <1>11, RunResult DEF LaunchRefused, Failing, Abandon
<1>12. ASSUME NEW r \in Runs, Launch(r) PROVE Shape'
  BY <1>12, RunPc, TreeChild DEF Launch
<1>13. ASSUME NEW r \in Runs, Fork(r) PROVE Shape'
  BY <1>13, TreeFork DEF Fork
<1>14. ASSUME NEW r \in Runs, LeaveGroup(r) PROVE Shape'
  BY <1>14, TreeGroup DEF LeaveGroup
<1>15. ASSUME NEW r \in Runs, ClosePipe(r) PROVE Shape'
  BY <1>15, TreePipe DEF ClosePipe
<1>16. ASSUME NEW r \in Runs, Exit(r) PROVE Shape'
  <2>1. CASE tree' = [tree EXCEPT ![r].child = "zombie"]
    BY <1>16, <2>1, TreeChild DEF Exit
  <2>2. CASE tree' = [tree EXCEPT ![r].kid = "zombie", ![r].kidHoldsPipe = FALSE]
    BY <1>16, <2>2, TreeKidPipe DEF Exit
  <2> QED BY <1>16, <2>1, <2>2 DEF Exit
<1>17. ASSUME NEW r \in Runs, ReapOrphan(r) PROVE Shape'
  BY <1>17, TreeKid DEF ReapOrphan
<1>18. ASSUME NEW r \in Runs, Reuse(r) PROVE Shape'
  BY <1>18, TreeStranger DEF Reuse
<1>19. ASSUME NEW r \in Runs, Cancel(r) PROVE Shape'
  BY <1>19, RunFlags DEF Cancel
<1>20. ASSUME NEW r \in Runs, Expire(r) PROVE Shape'
  BY <1>20, RunFlags DEF Expire
<1>21. ASSUME NEW r \in Runs, PollExit(r) PROVE Shape'
  BY <1>21, TreeChild, RunWhy DEF PollExit
<1>22. ASSUME NEW r \in Runs, Finish(r) PROVE Shape'
  <2>1. CASE Exists(r)
    <3>1. /\ tree' = [tree EXCEPT ![r] = Signalled(r, FALSE)]
          /\ run' = [run EXCEPT ![r].pc = "grace"]
          /\ UNCHANGED <<app, owner, disk>>
      BY <1>22, <2>1 DEF Finish
    <3> QED BY <3>1, RunPc, TreeSignalled
  <2>2. CASE ~ Exists(r)
    BY <1>22, <2>2, RunPc, ZenonT(30) DEF Finish
  <2> QED BY <2>1, <2>2
<1>23. ASSUME NEW r \in Runs, PollCancelled(r) PROVE Shape'
  BY <1>23, RunWhy, TreeSignalled DEF PollCancelled, Terminate
<1>24. ASSUME NEW r \in Runs, PollTimeout(r) PROVE Shape'
  BY <1>24, RunWhy, TreeSignalled DEF PollTimeout, Terminate
<1>25. ASSUME NEW r \in Runs, PollGrace(r) PROVE Shape'
  <2>1. CASE tree' = [tree EXCEPT ![r].child = "gone"] /\ UNCHANGED run
    BY <1>25, <2>1, TreeChild DEF PollGrace
  <2>2. CASE run' = [run EXCEPT ![r].pc = "join"] /\ UNCHANGED tree
    BY <1>25, <2>2, RunPc DEF PollGrace
  <2> QED BY <1>25, <2>1, <2>2 DEF PollGrace
<1>26. ASSUME NEW r \in Runs, GraceExpires(r) PROVE Shape'
  BY <1>26, RunPc, TreeKilled DEF GraceExpires
<1>27. ASSUME NEW r \in Runs, Confirm(r) PROVE Shape'
  BY <1>27, RunPc DEF Confirm
<1>28. ASSUME NEW r \in Runs, ConfirmExpires(r) PROVE Shape'
  BY <1>28, RunResult DEF ConfirmExpires, Failing, Abandon
<1>29. ASSUME NEW r \in Runs, Join(r) PROVE Shape'
  <2>1. PICK k \in BOOLEAN :
          /\ run' = [run EXCEPT ![r].pc = "ended", ![r].result = run[r].why,
                                ![r].warning = k]
          /\ disk' = IF k THEN disk ELSE [disk EXCEPT ![r] = "absent"]
    BY <1>29 DEF Join
  <2>2. run' \in [Runs -> RunRec]
    BY <2>1, RunJoined
  <2> QED BY <1>29, <2>1, <2>2 DEF Join
<1>30. ASSUME NEW r \in Runs, SignalFails(r) PROVE Shape'
  BY <1>30, RunResult DEF SignalFails, Failing, Abandon
<1>31. ASSUME NEW r \in Runs, JoinFails(r) PROVE Shape'
  BY <1>31, RunResult DEF JoinFails, Failing, Abandon
<1>32. CASE UNCHANGED vars
  BY <1>32 DEF vars
<1> QED BY <1>1, <1>2, <1>3, <1>4, <1>5, <1>6, <1>7, <1>8, <1>9, <1>10,
           <1>11, <1>12, <1>13, <1>14, <1>15, <1>16, <1>17, <1>18, <1>19,
           <1>20, <1>21, <1>22, <1>23, <1>24, <1>25, <1>26, <1>27, <1>28,
           <1>29, <1>30, <1>31, <1>32
        DEF Next, Poll

-----------------------------------------------------------------------------
(* Results.                                                                *)

(* What the phases of a run mean for its processes, and results for both.  *)
(* The group is seen to be empty before the readers are joined, and stays  *)
(* empty because only a live child forks into it.                          *)
FinalInv ==
  \A r \in Runs :
    /\ run[r].pc \in {"finish", "grace", "confirm", "join"} => run[r].why # "none"
    /\ run[r].pc \in {"finish", "confirm", "join"} => tree[r].child = "gone"
    /\ run[r].pc = "join" => ~ KidInGroup(r)
    /\ (run[r].pc = "ended") <=> (run[r].result # "none")
    /\ run[r].result \in Terminations =>
         /\ tree[r].child = "gone"
         /\ tree[r].kid = "alive" => ~ tree[r].kidInGroup /\ ~ tree[r].kidHoldsPipe

(* Every step keeps it. *)
LEMMA FinalStep ==
  ASSUME Shape, FinalInv, [Next]_vars
  PROVE  FinalInv'
<1> USE DEF Shape, RunRec, TreeRec, FinalInv, KidInGroup, Terminations, Supervised, Exists
<1>1. ASSUME NEW a \in Apps, AcquireLock(a) PROVE FinalInv'
  BY <1>1 DEF AcquireLock
<1>2. ASSUME NEW a \in Apps, Cleanup(a) PROVE FinalInv'
  BY <1>2 DEF Cleanup
<1>3. ASSUME NEW a \in Apps, CleanupFails(a) PROVE FinalInv'
  BY <1>3 DEF CleanupFails
<1>4. ASSUME NEW a \in Apps, BindEndpoint(a) PROVE FinalInv'
  BY <1>4 DEF BindEndpoint
<1>5. ASSUME NEW a \in Apps, Crash(a) PROVE FinalInv'
  BY <1>5 DEF Crash
<1>6. ASSUME NEW a \in Apps, NEW r \in Runs, Start(a, r) PROVE FinalInv'
  BY <1>6 DEF Start
<1>7. ASSUME NEW r \in Runs, BindFails(r) PROVE FinalInv'
  BY <1>7 DEF BindFails, Failing, Abandon
<1>8. ASSUME NEW r \in Runs, MakeDirectory(r) PROVE FinalInv'
  BY <1>8 DEF MakeDirectory
<1>9. ASSUME NEW r \in Runs, WriteSecret(r) PROVE FinalInv'
  BY <1>9 DEF WriteSecret
<1>10. ASSUME NEW r \in Runs, Bound(r) PROVE FinalInv'
  BY <1>10 DEF Bound
<1>11. ASSUME NEW r \in Runs, LaunchRefused(r) PROVE FinalInv'
  BY <1>11 DEF LaunchRefused, Failing, Abandon
<1>12. ASSUME NEW r \in Runs, Launch(r) PROVE FinalInv'
  BY <1>12 DEF Launch
<1>13. ASSUME NEW r \in Runs, Fork(r) PROVE FinalInv'
  BY <1>13 DEF Fork
<1>14. ASSUME NEW r \in Runs, LeaveGroup(r) PROVE FinalInv'
  BY <1>14 DEF LeaveGroup
<1>15. ASSUME NEW r \in Runs, ClosePipe(r) PROVE FinalInv'
  BY <1>15 DEF ClosePipe
<1>16. ASSUME NEW r \in Runs, Exit(r) PROVE FinalInv'
  BY <1>16 DEF Exit
<1>17. ASSUME NEW r \in Runs, ReapOrphan(r) PROVE FinalInv'
  BY <1>17 DEF ReapOrphan
<1>18. ASSUME NEW r \in Runs, Reuse(r) PROVE FinalInv'
  BY <1>18 DEF Reuse
<1>19. ASSUME NEW r \in Runs, Cancel(r) PROVE FinalInv'
  BY <1>19 DEF Cancel
<1>20. ASSUME NEW r \in Runs, Expire(r) PROVE FinalInv'
  BY <1>20 DEF Expire
<1>21. ASSUME NEW r \in Runs, PollExit(r) PROVE FinalInv'
  BY <1>21 DEF PollExit
<1>22. ASSUME NEW r \in Runs, Finish(r) PROVE FinalInv'
  BY <1>22 DEF Finish, Signalled
<1>23. ASSUME NEW r \in Runs, PollCancelled(r) PROVE FinalInv'
  BY <1>23 DEF PollCancelled, Terminate, Signalled
<1>24. ASSUME NEW r \in Runs, PollTimeout(r) PROVE FinalInv'
  BY <1>24 DEF PollTimeout, Terminate, Signalled
<1>25. ASSUME NEW r \in Runs, PollGrace(r) PROVE FinalInv'
  BY <1>25 DEF PollGrace
<1>26. ASSUME NEW r \in Runs, GraceExpires(r) PROVE FinalInv'
  BY <1>26 DEF GraceExpires, Signalled
<1>27. ASSUME NEW r \in Runs, Confirm(r) PROVE FinalInv'
  BY <1>27 DEF Confirm
<1>28. ASSUME NEW r \in Runs, ConfirmExpires(r) PROVE FinalInv'
  BY <1>28 DEF ConfirmExpires, Failing, Abandon
<1>29. ASSUME NEW r \in Runs, Join(r) PROVE FinalInv'
  <2>1. PICK k \in BOOLEAN :
          /\ run' = [run EXCEPT ![r].pc = "ended", ![r].result = run[r].why,
                                ![r].warning = k]
          /\ disk' = IF k THEN disk ELSE [disk EXCEPT ![r] = "absent"]
    BY <1>29 DEF Join
  <2>2. tree' = tree /\ ~ PipeHeld(r) /\ run[r].pc = "join"
    BY <1>29 DEF Join
  <2>3. /\ run'[r].pc = "ended" /\ run'[r].result = run[r].why
        /\ \A s \in Runs \ {r} : run'[s] = run[s]
    BY <2>1
  <2> QED BY <2>2, <2>3 DEF PipeHeld
<1>30. ASSUME NEW r \in Runs, SignalFails(r) PROVE FinalInv'
  BY <1>30 DEF SignalFails, Failing, Abandon
<1>31. ASSUME NEW r \in Runs, JoinFails(r) PROVE FinalInv'
  BY <1>31 DEF JoinFails, Failing, Abandon
<1>32. CASE UNCHANGED vars
  BY <1>32 DEF vars
<1> QED BY <1>1, <1>2, <1>3, <1>4, <1>5, <1>6, <1>7, <1>8, <1>9, <1>10,
           <1>11, <1>12, <1>13, <1>14, <1>15, <1>16, <1>17, <1>18, <1>19,
           <1>20, <1>21, <1>22, <1>23, <1>24, <1>25, <1>26, <1>27, <1>28,
           <1>29, <1>30, <1>31, <1>32
        DEF Next, Poll

(* TypeOK is the shape and the last but one fact of FinalInv. *)
THEOREM TypesAlways == Spec => []TypeOK
<1>1. Init => Shape /\ FinalInv
  BY DEF Init, Shape, RunRec, TreeRec, Phases, Whys, Results, Terminations, Lives, Dirs,
         FinalInv, KidInGroup
<1>2. Shape /\ FinalInv /\ [Next]_vars => (Shape /\ FinalInv)'
  BY ShapeStep, FinalStep
<1>3. Shape /\ FinalInv => TypeOK
  BY DEF Shape, FinalInv, TypeOK, RunRec, TreeRec, Whys, Results
<1> QED BY <1>1, <1>2, <1>3, PTL DEF Spec

(* A result other than an error comes after every process of the group and *)
(* every writer of the output is gone (supervisor.rs, execute), whatever   *)
(* the processes do, and whether or not they leave the group or their      *)
(* group's id is used again.                                               *)
THEOREM ResultsAreFinal == Spec => []ResultIsFinal
<1>1. Init => Shape /\ FinalInv
  BY DEF Init, Shape, RunRec, TreeRec, Phases, Whys, Results, Terminations, Lives, Dirs,
         FinalInv, KidInGroup
<1>2. Shape /\ FinalInv /\ [Next]_vars => (Shape /\ FinalInv)'
  BY ShapeStep, FinalStep
<1>3. FinalInv => ResultIsFinal
  BY DEF FinalInv, ResultIsFinal
<1> QED BY <1>1, <1>2, <1>3, PTL DEF Spec

-----------------------------------------------------------------------------
(* Temporary files, when all applications use one vault.                   *)

(* The applications share the instance lock. *)
SameVault == \A a, b \in Apps : VaultOf[a] = VaultOf[b]

(* The lock lets one application at a time past the start, so a supervised *)
(* run belongs to the only one; what a crash left is gone once the next    *)
(* has cleaned up; and a command runs with its files in place.             *)
OneVaultInv ==
  /\ \A a, b \in Apps : app[a] # "down" /\ app[b] # "down" => a = b
  /\ \A r \in Runs : Supervised(r) => owner[r] \in Apps /\ app[owner[r]] = "serving"
  /\ \A a \in Apps, r \in Runs :
       app[a] \in {"cleaned", "serving"} /\ run[r].pc = "lost"
         => disk[r] \in {"absent", "bare"}
  /\ LiveRunKeepsFiles

(* Every step keeps it. *)
LEMMA OneVaultStep ==
  ASSUME SameVault, Shape, OneVaultInv, [Next]_vars
  PROVE  OneVaultInv'
<1> USE DEF Shape, RunRec, OneVaultInv, LiveRunKeepsFiles, Supervised
<1>1. ASSUME NEW a \in Apps, AcquireLock(a) PROVE OneVaultInv'
  BY <1>1 DEF AcquireLock, SameVault
<1>2. ASSUME NEW a \in Apps, Cleanup(a) PROVE OneVaultInv'
  <2>1. \A r \in Runs : ~ Supervised(r)
    BY <1>2 DEF Cleanup
  <2>2. \A r \in Runs : disk'[r] \in {"absent", "bare"}
    BY <1>2 DEF Cleanup, Dirs
  <2>3. /\ UNCHANGED <<owner, run>>
        /\ app' = [app EXCEPT ![a] = "cleaned"] /\ app[a] = "locked"
    BY <1>2 DEF Cleanup
  <2> QED BY <2>1, <2>2, <2>3
<1>3. ASSUME NEW a \in Apps, CleanupFails(a) PROVE OneVaultInv'
  BY <1>3, SMTT(30) DEF CleanupFails
<1>4. ASSUME NEW a \in Apps, BindEndpoint(a) PROVE OneVaultInv'
  BY <1>4 DEF BindEndpoint
<1>5. ASSUME NEW a \in Apps, Crash(a) PROVE OneVaultInv'
  BY <1>5 DEF Crash
<1>6. ASSUME NEW a \in Apps, NEW r \in Runs, Start(a, r) PROVE OneVaultInv'
  BY <1>6 DEF Start
<1>7. ASSUME NEW r \in Runs, BindFails(r) PROVE OneVaultInv'
  BY <1>7 DEF BindFails, Failing, Abandon
<1>8. ASSUME NEW r \in Runs, MakeDirectory(r) PROVE OneVaultInv'
  BY <1>8 DEF MakeDirectory
<1>9. ASSUME NEW r \in Runs, WriteSecret(r) PROVE OneVaultInv'
  BY <1>9 DEF WriteSecret
<1>10. ASSUME NEW r \in Runs, Bound(r) PROVE OneVaultInv'
  BY <1>10 DEF Bound
<1>11. ASSUME NEW r \in Runs, LaunchRefused(r) PROVE OneVaultInv'
  BY <1>11 DEF LaunchRefused, Failing, Abandon
<1>12. ASSUME NEW r \in Runs, Launch(r) PROVE OneVaultInv'
  BY <1>12 DEF Launch
<1>13. ASSUME NEW r \in Runs, Fork(r) PROVE OneVaultInv'
  BY <1>13 DEF Fork
<1>14. ASSUME NEW r \in Runs, LeaveGroup(r) PROVE OneVaultInv'
  BY <1>14 DEF LeaveGroup
<1>15. ASSUME NEW r \in Runs, ClosePipe(r) PROVE OneVaultInv'
  BY <1>15 DEF ClosePipe
<1>16. ASSUME NEW r \in Runs, Exit(r) PROVE OneVaultInv'
  BY <1>16 DEF Exit
<1>17. ASSUME NEW r \in Runs, ReapOrphan(r) PROVE OneVaultInv'
  BY <1>17 DEF ReapOrphan
<1>18. ASSUME NEW r \in Runs, Reuse(r) PROVE OneVaultInv'
  BY <1>18 DEF Reuse
<1>19. ASSUME NEW r \in Runs, Cancel(r) PROVE OneVaultInv'
  BY <1>19 DEF Cancel
<1>20. ASSUME NEW r \in Runs, Expire(r) PROVE OneVaultInv'
  BY <1>20 DEF Expire
<1>21. ASSUME NEW r \in Runs, PollExit(r) PROVE OneVaultInv'
  BY <1>21 DEF PollExit
<1>22. ASSUME NEW r \in Runs, Finish(r) PROVE OneVaultInv'
  <2>1. CASE run' = [run EXCEPT ![r].pc = "grace"]
    BY <1>22, <2>1 DEF Finish
  <2>2. CASE run' = [run EXCEPT ![r].pc = "join"]
    BY <1>22, <2>2 DEF Finish
  <2> QED BY <1>22, <2>1, <2>2 DEF Finish
<1>23. ASSUME NEW r \in Runs, PollCancelled(r) PROVE OneVaultInv'
  BY <1>23 DEF PollCancelled, Terminate
<1>24. ASSUME NEW r \in Runs, PollTimeout(r) PROVE OneVaultInv'
  BY <1>24 DEF PollTimeout, Terminate
<1>25. ASSUME NEW r \in Runs, PollGrace(r) PROVE OneVaultInv'
  <2>1. CASE UNCHANGED run
    BY <1>25, <2>1 DEF PollGrace
  <2>2. CASE run' = [run EXCEPT ![r].pc = "join"]
    BY <1>25, <2>2 DEF PollGrace
  <2> QED BY <1>25, <2>1, <2>2 DEF PollGrace
<1>26. ASSUME NEW r \in Runs, GraceExpires(r) PROVE OneVaultInv'
  BY <1>26 DEF GraceExpires
<1>27. ASSUME NEW r \in Runs, Confirm(r) PROVE OneVaultInv'
  BY <1>27 DEF Confirm
<1>28. ASSUME NEW r \in Runs, ConfirmExpires(r) PROVE OneVaultInv'
  BY <1>28 DEF ConfirmExpires, Failing, Abandon
<1>29. ASSUME NEW r \in Runs, Join(r) PROVE OneVaultInv'
  <2>1. PICK k \in BOOLEAN :
          /\ run' = [run EXCEPT ![r].pc = "ended", ![r].result = run[r].why,
                                ![r].warning = k]
          /\ disk' = IF k THEN disk ELSE [disk EXCEPT ![r] = "absent"]
    BY <1>29 DEF Join
  <2>2. /\ UNCHANGED <<app, owner>> /\ run[r].pc = "join"
        /\ run'[r].pc = "ended" /\ disk' \in {disk, [disk EXCEPT ![r] = "absent"]}
        /\ \A s \in Runs \ {r} : run'[s] = run[s]
    BY <1>29, <2>1 DEF Join
  <2>3. \A s \in Runs : s # r => disk'[s] = disk[s] /\ run'[s] = run[s]
    BY <2>2
  <2>4. UNCHANGED <<app, owner>> /\ run[r].pc = "join" /\ run'[r].pc = "ended"
    BY <2>2
  <2>5. \A s \in Runs : Supervised(s)' => s # r /\ Supervised(s)
    BY <2>3, <2>4
  <2>6. \A s \in Runs : run'[s].pc = "lost" => s # r
    BY <2>4
  <2>7. LiveRunKeepsFiles'
    BY <2>3, <2>4
  <2>8. \A s \in Runs : Supervised(s)' => owner'[s] \in Apps /\ app'[owner'[s]] = "serving"
    BY <2>4, <2>5
  <2> QED BY <2>3, <2>4, <2>6, <2>7, <2>8
<1>30. ASSUME NEW r \in Runs, SignalFails(r) PROVE OneVaultInv'
  BY <1>30 DEF SignalFails, Failing, Abandon
<1>31. ASSUME NEW r \in Runs, JoinFails(r) PROVE OneVaultInv'
  BY <1>31 DEF JoinFails, Failing, Abandon
<1>32. CASE UNCHANGED vars
  BY <1>32 DEF vars
<1> QED BY <1>1, <1>2, <1>3, <1>4, <1>5, <1>6, <1>7, <1>8, <1>9, <1>10,
           <1>11, <1>12, <1>13, <1>14, <1>15, <1>16, <1>17, <1>18, <1>19,
           <1>20, <1>21, <1>22, <1>23, <1>24, <1>25, <1>26, <1>27, <1>28,
           <1>29, <1>30, <1>31, <1>32
        DEF Next, Poll

(* The secret files of a supervised command stay on disk: no second        *)
(* application of the vault reaches the scavenging of acquire_runtime while *)
(* one supervises, and no end of a run drops them before its processes.    *)
THEOREM LiveRunsKeepTheirFiles ==
  ASSUME SameVault
  PROVE  Spec => []LiveRunKeepsFiles
<1>1. Init => Shape /\ OneVaultInv
  BY DEF Init, Shape, RunRec, TreeRec, Phases, Whys, Results, Terminations, Lives, Dirs,
         OneVaultInv, LiveRunKeepsFiles, Supervised
<1>2. Shape /\ OneVaultInv /\ [Next]_vars => (Shape /\ OneVaultInv)'
  BY ShapeStep, OneVaultStep
<1>3. OneVaultInv => LiveRunKeepsFiles
  BY DEF OneVaultInv
<1> QED BY <1>1, <1>2, <1>3, PTL DEF Spec

(* Once an application serves, no run that a crash cut off has a marker or *)
(* a secret left on disk (cleanup_stale_temp_directories_in).              *)
THEOREM StaleFilesAreScavenged ==
  ASSUME SameVault
  PROVE  Spec => []StaleFilesScavenged
<1>1. Init => Shape /\ OneVaultInv
  BY DEF Init, Shape, RunRec, TreeRec, Phases, Whys, Results, Terminations, Lives, Dirs,
         OneVaultInv, LiveRunKeepsFiles, Supervised
<1>2. Shape /\ OneVaultInv /\ [Next]_vars => (Shape /\ OneVaultInv)'
  BY ShapeStep, OneVaultStep
<1>3. OneVaultInv => StaleFilesScavenged
  BY DEF OneVaultInv, StaleFilesScavenged
<1> QED BY <1>1, <1>2, <1>3, PTL DEF Spec


-----------------------------------------------------------------------------
(* Induction over numbers and sequences, from the least counterexample.    *)

(* Every set of numbers that is not empty has a least element. *)
LEMMA LeastNumber ==
  ASSUME NEW T \in SUBSET Nat, T # {}
  PROVE  \E m \in T : \A k \in T : m <= k
<1> DEFINE R == OpToRel(<, Nat)
<1>1. IsWellFoundedOn(R, Nat)
  BY NatLessThanWellFounded
<1> HIDE DEF R
<1>2. PICK x \in T : \A y \in T : ~ (<<y, x>> \in R)
  BY <1>1, WFMin
<1>3. \A y \in T : ~ (y < x)
  BY <1>2 DEF R, OpToRel
<1> QED BY <1>3

(* A set of numbers that holds with each number below n the next, and 0,   *)
(* holds all up to n.                                                      *)
LEMMA UpTo ==
  ASSUME NEW n \in Nat, NEW T, 0 \in T, \A m \in 1 .. n : m - 1 \in T => m \in T
  PROVE  \A m \in 0 .. n : m \in T
<1> SUFFICES ASSUME NEW m \in 0 .. n, m \notin T PROVE FALSE
  OBVIOUS
<1> DEFINE U == {k \in 0 .. n : k \notin T}
<1>1. U \in SUBSET Nat /\ U # {}
  OBVIOUS
<1>2. PICK k \in U : \A j \in U : k <= j
  BY <1>1, LeastNumber
<1>3. k # 0 /\ k \in 1 .. n
  BY <1>2
<1>4. k - 1 \notin U
  BY <1>2, <1>3
<1>5. k - 1 \in T
  BY <1>3, <1>4
<1> QED BY <1>2, <1>3, <1>5

(* f is the run of a loop of n turns: it starts with b, and turn k leads   *)
(* from f[k - 1] to g[<<f[k - 1], k>>].                                    *)
Loops(f, S, b, n, g) ==
  f \in [0 .. n -> S] /\ f[0] = b /\ \A k \in 1 .. n : f[k] = g[<<f[k - 1], k>>]

(* Every loop has a run. *)
LEMMA LoopRuns ==
  ASSUME NEW S, NEW b \in S, NEW n \in Nat, NEW g \in [S \X (1 .. n) -> S]
  PROVE  \E f : Loops(f, S, b, n, g)
<1> DEFINE P(m) == \E f \in [0 .. m -> S] :
                     f[0] = b /\ \A k \in 1 .. m : f[k] = g[<<f[k - 1], k>>]
           T == {m \in 0 .. n : P(m)}
<1>1. 0 \in T
  <2>1. P(0)
    <3> WITNESS [k \in 0 .. 0 |-> b] \in [0 .. 0 -> S]
    <3> QED OBVIOUS
  <2> QED BY <2>1
<1>2. ASSUME NEW m \in 1 .. n, m - 1 \in T PROVE m \in T
  <2>1. PICK f \in [0 .. m - 1 -> S] :
               f[0] = b /\ \A k \in 1 .. m - 1 : f[k] = g[<<f[k - 1], k>>]
    BY <1>2
  <2>2. f[m - 1] \in S
    OBVIOUS
  <2>3. g[<<f[m - 1], m>>] \in S
    BY <2>2
  <2> DEFINE h == [k \in 0 .. m |-> IF k = m THEN g[<<f[m - 1], m>>] ELSE f[k]]
  <2>4. h \in [0 .. m -> S]
    BY <2>3
  <2>5. h[0] = b
    BY <2>1
  <2>6. \A k \in 1 .. m : h[k] = g[<<h[k - 1], k>>]
    <3> SUFFICES ASSUME NEW k \in 1 .. m PROVE h[k] = g[<<h[k - 1], k>>]
      OBVIOUS
    <3>1. h[k - 1] = f[k - 1]
      OBVIOUS
    <3>2. CASE k = m
      <4>1. h[m] = g[<<f[m - 1], m>>] /\ h[m - 1] = f[m - 1]
        OBVIOUS
      <4> HIDE DEF h
      <4> QED BY <3>2, <4>1
    <3>3. CASE k # m
      <4>1. k \in 1 .. m - 1
        BY <3>3
      <4> QED BY <2>1, <3>1, <3>3, <4>1
    <3> QED BY <3>2, <3>3
  <2>7. P(m)
    BY <2>4, <2>5, <2>6
  <2> QED BY <2>7
<1> HIDE DEF P, T
<1>3. n \in T
  BY <1>1, <1>2, UpTo
<1> QED BY <1>3 DEF P, T, Loops

(* f obeys the recursion G on the sequences shorter than m. *)
Obeys(f, G, S, m) == \A s \in Seq(S) : Len(s) < m => f[s] = G[f][s]

(* f and h are the same on the sequences shorter than m. *)
Agree(f, h, S, m) == \A s \in Seq(S) : Len(s) < m => f[s] = h[s]

(* What G makes of f at s depends on shorter sequences only. *)
Descends(G, S, V) ==
  \A f, h \in [Seq(S) -> V], s \in Seq(S) :
    (\A t \in Seq(S) : Len(t) < Len(s) => f[t] = h[t]) => G[f][s] = G[h][s]

(* Functions that obey a recursion agree. *)
LEMMA ObeyAgree ==
  ASSUME NEW S, NEW V, NEW G, Descends(G, S, V), NEW m \in Nat,
         NEW f \in [Seq(S) -> V], NEW h \in [Seq(S) -> V],
         Obeys(f, G, S, m), Obeys(h, G, S, m)
  PROVE  Agree(f, h, S, m)
<1> USE DEF Agree
<1> DEFINE U == {k \in Nat : \E s \in Seq(S) : Len(s) = k /\ k < m /\ f[s] # h[s]}
<1>1. CASE U # {}
  <2>1. PICK k \in U : \A j \in U : k <= j
    BY <1>1, LeastNumber
  <2>2. PICK s \in Seq(S) : Len(s) = k /\ k < m /\ f[s] # h[s]
    BY <2>1
  <2>3. ASSUME NEW t \in Seq(S), Len(t) < Len(s) PROVE f[t] = h[t]
    <3>1. Len(t) \in Nat /\ Len(t) < m /\ ~ (k <= Len(t))
      BY <2>1, <2>2, <2>3, LenProperties
    <3>2. Len(t) \notin U
      BY <2>1, <3>1
    <3> QED BY <3>1, <3>2
  <2>4. G[f][s] = G[h][s]
    BY <2>3 DEF Descends
  <2> QED BY <2>2, <2>4 DEF Obeys
<1>2. CASE U = {}
  BY <1>2, LenProperties
<1> QED BY <1>1, <1>2

(* The recursion G has a solution. *)
Solved(G, S, V) == \E f \in [Seq(S) -> V] : f = G[f]

(* A recursion that descends to shorter sequences defines a function. *)
LEMMA SeqRecursion ==
  ASSUME NEW S, NEW V, NEW v \in V, NEW G \in [[Seq(S) -> V] -> [Seq(S) -> V]],
         Descends(G, S, V)
  PROVE  Solved(G, S, V)
<1> DEFINE F == [Seq(S) -> V]
           P(m) == \E f \in F : Obeys(f, G, S, m)
<1>1. ASSUME NEW n \in Nat PROVE P(n)
  <2> DEFINE T == {m \in 0 .. n : P(m)}
  <2>1. 0 \in T
    <3>1. [s \in Seq(S) |-> v] \in F
      OBVIOUS
    <3>2. Obeys([s \in Seq(S) |-> v], G, S, 0)
      BY LenProperties DEF Obeys
    <3> QED BY <3>1, <3>2
  <2>2. ASSUME NEW m \in 1 .. n, m - 1 \in T PROVE m \in T
    <3>1. PICK f \in F : Obeys(f, G, S, m - 1)
      BY <2>2
    <3>2. G[f] \in F
      OBVIOUS
    <3>3. ASSUME NEW s \in Seq(S), Len(s) < m PROVE G[f][s] = G[G[f]][s]
      <4>1. \A t \in Seq(S) : Len(t) < Len(s) => f[t] = G[f][t]
        <5> SUFFICES ASSUME NEW t \in Seq(S), Len(t) < Len(s) PROVE f[t] = G[f][t]
          OBVIOUS
        <5>1. Len(t) < m - 1
          BY <3>3, LenProperties
        <5> QED BY <3>1, <5>1 DEF Obeys
      <4> QED BY <3>2, <4>1 DEF Descends
    <3>4. Obeys(G[f], G, S, m)
      BY <3>3 DEF Obeys
    <3> QED BY <3>2, <3>4
  <2> HIDE DEF T
  <2>3. \A m \in 0 .. n : m \in T
    BY <2>1, <2>2, UpTo
  <2> QED BY <2>3 DEF T
<1> DEFINE W(s) == CHOOSE f \in F : Obeys(f, G, S, Len(s) + 1)
           h == [s \in Seq(S) |-> W(s)[s]]
<1>2. \A s \in Seq(S) : W(s) \in F /\ Obeys(W(s), G, S, Len(s) + 1)
  <2> SUFFICES ASSUME NEW s \in Seq(S) PROVE W(s) \in F /\ Obeys(W(s), G, S, Len(s) + 1)
    OBVIOUS
  <2>1. P(Len(s) + 1)
    BY <1>1, LenProperties
  <2> QED BY <2>1
<1> HIDE DEF W
<1>3. h \in F
  BY <1>2
<1>4. ASSUME NEW s \in Seq(S) PROVE h[s] = G[h][s]
  <2>1. ASSUME NEW t \in Seq(S), Len(t) < Len(s) PROVE h[t] = W(s)[t]
    <3>1. Len(t) + 1 \in Nat /\ Len(s) + 1 \in Nat /\ Len(t) < Len(t) + 1
      BY LenProperties
    <3>2. Obeys(W(s), G, S, Len(t) + 1)
      <4>1. \A u \in Seq(S) : Len(u) < Len(t) + 1 => Len(u) < Len(s) + 1
        BY <2>1, LenProperties
      <4> QED BY <1>2, <4>1 DEF Obeys
    <3>3. \A u \in Seq(S) : Len(u) < Len(t) + 1 => W(t)[u] = W(s)[u]
      <4>1. W(t) \in F /\ W(s) \in F /\ Obeys(W(t), G, S, Len(t) + 1)
        BY <1>2
      <4> DEFINE a == W(t)
                 b == W(s)
                 m == Len(t) + 1
      <4>2. a \in [Seq(S) -> V] /\ b \in [Seq(S) -> V] /\ m \in Nat
            /\ Obeys(a, G, S, m) /\ Obeys(b, G, S, m)
        BY <3>1, <3>2, <4>1
      <4> HIDE DEF a, b, m
      <4>3. Agree(a, b, S, m)
        BY <4>2, ObeyAgree
      <4> QED BY <4>3 DEF a, b, m, Agree
    <3> QED BY <3>1, <3>3
  <2>2. G[h][s] = G[W(s)][s]
    BY <1>2, <1>3, <2>1 DEF Descends
  <2>3. W(s)[s] = G[W(s)][s]
    BY <1>2, LenProperties DEF Obeys
  <2> QED BY <2>2, <2>3
<1>5. h = G[h]
  <2>1. G[h] \in F
    BY <1>3
  <2> HIDE DEF h
  <2> QED BY <1>3, <1>4, <2>1
<1> QED BY <1>3, <1>5 DEF Solved

-----------------------------------------------------------------------------
(* Sequences.                                                              *)

(* What is left of s after its first k elements. *)
After(s, k) == SubSeq(s, k + 1, Len(s))

(* A part of a sequence. *)
LEMMA Part ==
  ASSUME NEW S, NEW s \in Seq(S), NEW m \in Nat \ {0}, NEW n \in 0 .. Len(s)
  PROVE  /\ SubSeq(s, m, n) \in Seq(S)
         /\ m <= n + 1 => Len(SubSeq(s, m, n)) = n + 1 - m
         /\ m > n => SubSeq(s, m, n) = <<>>
         /\ \A i \in 1 .. n + 1 - m : SubSeq(s, m, n)[i] = s[m + i - 1]
<1>1. Len(s) \in Nat /\ \A i \in m .. n : s[i] \in S
  BY LenProperties, ElementOfSeq
<1>2. /\ SubSeq(s, m, n) \in Seq(S)
      /\ Len(SubSeq(s, m, n)) = IF m <= n THEN n - m + 1 ELSE 0
      /\ \A i \in 1 .. n - m + 1 : SubSeq(s, m, n)[i] = s[m + i - 1]
  BY <1>1, SubSeqProperties
<1>3. m > n => SubSeq(s, m, n) = <<>>
  BY <1>1, SubSeqEmpty
<1> QED BY <1>1, <1>2, <1>3

(* The rest of a sequence. *)
LEMMA AfterType ==
  ASSUME NEW S, NEW s \in Seq(S), NEW k \in 0 .. Len(s)
  PROVE  /\ After(s, k) \in Seq(S) /\ Len(After(s, k)) = Len(s) - k
         /\ \A i \in 1 .. Len(s) - k : After(s, k)[i] = s[k + i]
<1>1. Len(s) \in Nat /\ k + 1 \in Nat \ {0} /\ Len(s) \in 0 .. Len(s)
  BY LenProperties
<1>2. /\ SubSeq(s, k + 1, Len(s)) \in Seq(S)
      /\ Len(SubSeq(s, k + 1, Len(s))) = Len(s) + 1 - (k + 1)
      /\ \A i \in 1 .. Len(s) + 1 - (k + 1) : SubSeq(s, k + 1, Len(s))[i] = s[k + 1 + i - 1]
  BY <1>1, Part
<1> QED BY <1>1, <1>2 DEF After

(* Nothing is taken, or all. *)
LEMMA AfterEnds ==
  ASSUME NEW S, NEW s \in Seq(S)
  PROVE  After(s, 0) = s /\ After(s, Len(s)) = <<>>
<1>1. Len(s) \in Nat
  BY LenProperties
<1> QED BY <1>1, SubSeqFull, SubSeqEmpty DEF After

(* The rest of the rest. *)
LEMMA AfterAfter ==
  ASSUME NEW S, NEW s \in Seq(S), NEW k \in 0 .. Len(s), NEW j \in 0 .. Len(s) - k
  PROVE  After(After(s, k), j) = After(s, k + j)
<1> DEFINE c == After(s, k)
           a == After(c, j)
           b == After(s, k + j)
<1>1. Len(s) \in Nat /\ k + j \in 0 .. Len(s)
  BY LenProperties
<1>2. /\ c \in Seq(S) /\ Len(c) = Len(s) - k
      /\ \A i \in 1 .. Len(s) - k : c[i] = s[k + i]
  BY AfterType
<1>3. /\ a \in Seq(S) /\ Len(a) = Len(s) - k - j
      /\ \A i \in 1 .. Len(s) - k - j : a[i] = c[j + i]
  <2> HIDE DEF c
  <2>1. j \in 0 .. Len(c)
    BY <1>2
  <2>2. a \in Seq(S) /\ Len(a) = Len(c) - j /\ \A i \in 1 .. Len(c) - j : a[i] = c[j + i]
    BY <1>2, <2>1, AfterType, SMTT(30)
  <2> QED BY <1>2, <2>2
<1>4. /\ b \in Seq(S) /\ Len(b) = Len(s) - (k + j)
      /\ \A i \in 1 .. Len(s) - (k + j) : b[i] = s[k + j + i]
  BY <1>1, AfterType
<1> HIDE DEF a, b, c
<1>5. \A i \in 1 .. Len(a) : a[i] = b[i]
  <2> SUFFICES ASSUME NEW i \in 1 .. Len(a) PROVE a[i] = b[i]
    OBVIOUS
  <2>1. j + i \in 1 .. Len(s) - k /\ i \in 1 .. Len(s) - (k + j) /\ i \in 1 .. Len(s) - k - j
    BY <1>1, <1>3
  <2>2. a[i] = s[k + (j + i)]
    BY <1>2, <1>3, <2>1
  <2>3. k + (j + i) = k + j + i
    BY <2>1
  <2> QED BY <1>4, <2>1, <2>2, <2>3
<1>6. Len(a) = Len(b)
  BY <1>1, <1>3, <1>4
<1>7. a = b
  BY <1>3, <1>4, <1>5, <1>6, SeqEqual
<1> QED BY <1>7 DEF a, b, c

(* The rest of a sequence that goes on. *)
LEMMA AfterConcat ==
  ASSUME NEW S, NEW s \in Seq(S), NEW z \in Seq(S), NEW k \in 0 .. Len(s)
  PROVE  After(s \o z, k) = After(s, k) \o z
<1> DEFINE sz == s \o z
           c == After(s, k)
           a == After(sz, k)
           b == c \o z
<1>1. Len(s) \in Nat /\ Len(z) \in Nat
  BY LenProperties
<1>2. /\ sz \in Seq(S) /\ Len(sz) = Len(s) + Len(z)
      /\ \A i \in 1 .. Len(s) + Len(z) :
           sz[i] = IF i <= Len(s) THEN s[i] ELSE z[i - Len(s)]
  BY ConcatProperties
<1>3. /\ c \in Seq(S) /\ Len(c) = Len(s) - k
      /\ \A i \in 1 .. Len(s) - k : c[i] = s[k + i]
  BY AfterType
<1> HIDE DEF sz, c
<1>4. /\ a \in Seq(S) /\ Len(a) = Len(s) + Len(z) - k
      /\ \A i \in 1 .. Len(s) + Len(z) - k : a[i] = sz[k + i]
  <2>1. k \in 0 .. Len(sz)
    BY <1>1, <1>2
  <2>2. a \in Seq(S) /\ Len(a) = Len(sz) - k /\ \A i \in 1 .. Len(sz) - k : a[i] = sz[k + i]
    BY <1>2, <2>1, AfterType
  <2> QED BY <1>2, <2>2
<1>5. /\ b \in Seq(S) /\ Len(b) = Len(s) - k + Len(z)
      /\ \A i \in 1 .. Len(s) - k + Len(z) :
           b[i] = IF i <= Len(s) - k THEN c[i] ELSE z[i - (Len(s) - k)]
  <2>1. /\ b \in Seq(S) /\ Len(b) = Len(c) + Len(z)
        /\ \A i \in 1 .. Len(c) + Len(z) : b[i] = IF i <= Len(c) THEN c[i] ELSE z[i - Len(c)]
    BY <1>3, ConcatProperties
  <2> QED BY <1>3, <2>1
<1> HIDE DEF a, b
<1>6. ASSUME NEW i \in 1 .. Len(a) PROVE a[i] = b[i]
  <2>1. k + i \in 1 .. Len(s) + Len(z) /\ i \in 1 .. Len(s) + Len(z) - k
        /\ i \in 1 .. Len(s) - k + Len(z)
    BY <1>1, <1>4
  <2>2. CASE i <= Len(s) - k
    BY <1>1, <1>2, <1>3, <1>4, <1>5, <2>1, <2>2
  <2>3. CASE ~ (i <= Len(s) - k)
    <3>1. ~ (k + i <= Len(s)) /\ k + i - Len(s) = i - (Len(s) - k)
      BY <1>1, <2>1, <2>3
    <3>2. a[i] = z[k + i - Len(s)]
      BY <1>2, <1>4, <2>1, <3>1
    <3>3. b[i] = z[i - (Len(s) - k)]
      BY <1>5, <2>1, <2>3
    <3> QED BY <3>1, <3>2, <3>3
  <2> QED BY <2>2, <2>3
<1>7. Len(a) = Len(b)
  BY <1>1, <1>4, <1>5
<1>8. a = b
  BY <1>4, <1>5, <1>6, <1>7, SeqEqual
<1> QED BY <1>8 DEF a, b, c, sz

(* A sequence is a part from k and the rest. *)
LEMMA PartAndRest ==
  ASSUME NEW S, NEW s \in Seq(S), NEW k \in 0 .. Len(s), NEW n \in k .. Len(s)
  PROVE  After(s, k) = SubSeq(s, k + 1, n) \o After(s, n)
<1>1. Len(s) \in Nat /\ k + 1 \in 1 .. Len(s) + 1 /\ n \in (k + 1) - 1 .. Len(s)
      /\ Len(s) \in n .. Len(s)
  BY LenProperties
<1>2. SubSeq(s, k + 1, n) \o SubSeq(s, n + 1, Len(s)) = SubSeq(s, k + 1, Len(s))
  BY <1>1, ConcatAdjacentSubSeq
<1> QED BY <1>2 DEF After

(* A sequence is its first n elements and the rest. *)
LEMMA FirstAndRest ==
  ASSUME NEW S, NEW s \in Seq(S), NEW n \in 0 .. Len(s)
  PROVE  /\ s = SubSeq(s, 1, n) \o After(s, n)
         /\ SubSeq(s, 1, n) \in Seq(S) /\ After(s, n) \in Seq(S)
         /\ Len(SubSeq(s, 1, n)) = n /\ Len(After(s, n)) = Len(s) - n
<1>1. Len(s) \in Nat /\ 1 \in 1 .. Len(s) + 1 /\ n \in 1 - 1 .. Len(s)
      /\ Len(s) \in n .. Len(s) /\ 1 \in Nat \ {0}
  BY LenProperties
<1>2. SubSeq(s, 1, n) \o SubSeq(s, n + 1, Len(s)) = SubSeq(s, 1, Len(s))
  BY <1>1, ConcatAdjacentSubSeq
<1>3. SubSeq(s, 1, Len(s)) = s
  BY SubSeqFull
<1>4. SubSeq(s, 1, n) \in Seq(S) /\ Len(SubSeq(s, 1, n)) = n
  <2>1. SubSeq(s, 1, n) \in Seq(S) /\ Len(SubSeq(s, 1, n)) = n + 1 - 1
    BY <1>1, Part
  <2> QED BY <1>1, <2>1
<1>5. After(s, n) \in Seq(S) /\ Len(After(s, n)) = Len(s) - n
  BY AfterType
<1> QED BY <1>2, <1>3, <1>4, <1>5 DEF After

-----------------------------------------------------------------------------
(* Least and greatest.                                                     *)

(* The least of a set of numbers. *)
LEMMA MinIs ==
  ASSUME NEW T \in SUBSET Nat, T # {}
  PROVE  Min(T) \in T /\ \A y \in T : Min(T) <= y
<1>1. \E x \in T : \A y \in T : x =< y
  BY LeastNumber
<1> QED BY <1>1 DEF Min

(* The greatest of a set of numbers that has a bound. *)
LEMMA MaxIs ==
  ASSUME NEW T \in SUBSET Nat, T # {}, NEW n \in Nat, \A y \in T : y <= n
  PROVE  Max(T) \in T /\ \A y \in T : y <= Max(T)
<1> DEFINE U == {k \in 0 .. n : \A y \in T : y <= k}
<1>1. U \in SUBSET Nat /\ U # {}
  OBVIOUS
<1>2. PICK m \in U : \A k \in U : m <= k
  BY <1>1, LeastNumber
<1>3. m \in T
  <2> SUFFICES ASSUME m \notin T PROVE FALSE
    OBVIOUS
  <2>1. PICK y \in T : TRUE
    OBVIOUS
  <2>2. \A x \in T : x < m
    BY <1>2
  <2>3. m # 0
    BY <1>2, <2>1, <2>2
  <2>4. m - 1 \in U
    BY <1>2, <2>2, <2>3
  <2> QED BY <1>2, <2>4
<1>4. \E x \in T : \A y \in T : x >= y
  BY <1>2, <1>3
<1>5. Max(T) \in T /\ \A y \in T : Max(T) >= y
  BY <1>4 DEF Max
<1> QED BY <1>5

(* Finitely many numbers have a bound. *)
LEMMA FiniteBound ==
  ASSUME NEW T \in SUBSET Nat, IsFiniteSet(T)
  PROVE  \E n \in Nat : \A y \in T : y <= n
<1>1. PICK n \in Nat : \E f : f \in Surjection(1 .. n, T)
  BY FS_NatSurjection DEF ExistsSurjection
<1>2. PICK f : f \in Surjection(1 .. n, T)
  BY <1>1
<1>3. f \in [1 .. n -> T] /\ \A y \in T : \E k \in 1 .. n : f[k] = y
  BY <1>2 DEF Surjection
<1> DEFINE P(m) == \E b \in Nat : \A k \in 1 .. m : f[k] <= b
           U == {m \in 0 .. n : P(m)}
<1>4. 0 \in U
  <2>1. P(0)
    <3> WITNESS 0 \in Nat
    <3> QED OBVIOUS
  <2> QED BY <2>1
<1>5. ASSUME NEW m \in 1 .. n, m - 1 \in U PROVE m \in U
  <2>1. PICK b \in Nat : \A k \in 1 .. m - 1 : f[k] <= b
    BY <1>5
  <2>2. f[m] \in Nat
    BY <1>3
  <2>3. \A k \in 1 .. m : f[k] <= b + f[m]
    <3> SUFFICES ASSUME NEW k \in 1 .. m PROVE f[k] <= b + f[m]
      OBVIOUS
    <3>1. f[k] \in Nat
      <4>1. k \in 1 .. n
        OBVIOUS
      <4> QED BY <1>3, <4>1
    <3>2. CASE k = m
      BY <2>2, <3>2
    <3>3. CASE k # m
      <4>1. f[k] <= b
        BY <2>1, <3>3
      <4> QED BY <2>2, <3>1, <4>1
    <3> QED BY <3>2, <3>3
  <2>4. P(m)
    <3>1. b + f[m] \in Nat
      BY <2>2
    <3> QED BY <2>3, <3>1
  <2> QED BY <2>4
<1> HIDE DEF U
<1>6. n \in U
  BY <1>4, <1>5, UpTo
<1>7. PICK b \in Nat : \A k \in 1 .. n : f[k] <= b
  BY <1>6 DEF U
<1> QED BY <1>3, <1>7

-----------------------------------------------------------------------------
(* The bytes of characters.                                                *)

(* f[k] is what the first k sequences give one after the other. *)
Joins(f, S, seqs) ==
  /\ f \in [0 .. Len(seqs) -> Seq(S)] /\ f[0] = <<>>
  /\ \A k \in 1 .. Len(seqs) : f[k] = f[k - 1] \o seqs[k]

(* There is such a function. *)
LEMMA JoinsExist ==
  ASSUME NEW S, NEW seqs \in Seq(Seq(S))
  PROVE  \E f : Joins(f, S, seqs)
<1> DEFINE n == Len(seqs)
           V == Seq(S)
           g == [x \in V \X (1 .. n) |-> x[1] \o seqs[x[2]]]
<1>1. n \in Nat /\ <<>> \in V /\ \A k \in 1 .. n : seqs[k] \in V
  BY LenProperties, ElementOfSeq, EmptySeq
<1>2. g \in [V \X (1 .. n) -> V]
  BY <1>1, ConcatProperties
<1>3. PICK f : Loops(f, V, <<>>, n, g)
  <2> HIDE DEF V, g, n
  <2> QED BY <1>1, <1>2, LoopRuns, Zenon
<1>4. \A k \in 1 .. n : f[k] = f[k - 1] \o seqs[k]
  <2> SUFFICES ASSUME NEW k \in 1 .. n PROVE f[k] = f[k - 1] \o seqs[k]
    OBVIOUS
  <2>1. f[k - 1] \in V /\ f[k] = g[<<f[k - 1], k>>]
    <3>1. k - 1 \in 0 .. n
      BY <1>1
    <3> HIDE DEF V, g, n
    <3> QED BY <1>3, <3>1 DEF Loops
  <2>2. g[<<f[k - 1], k>>] = f[k - 1] \o seqs[k]
    BY <2>1
  <2> QED BY <2>1, <2>2
<1>5. Joins(f, S, seqs)
  BY <1>3, <1>4 DEF Joins, Loops
<1> QED BY <1>5

(* FlattenSeq is its last value. *)
LEMMA JoinsLast ==
  ASSUME NEW S, NEW seqs \in Seq(Seq(S)), NEW f, Joins(f, S, seqs)
  PROVE  FlattenSeq(seqs) = f[Len(seqs)]
<1> DEFINE n == Len(seqs)
           F(h) == [i \in 1 .. n |-> IF i = 1 THEN seqs[i] ELSE h[i - 1] \o seqs[i]]
           e == [i \in 1 .. n |-> f[i]]
           c == CHOOSE h : h = F(h)
<1>1. n \in Nat /\ (n = 0 => seqs = <<>>)
  BY LenProperties, EmptySeq
<1>2. CASE n = 0
  BY <1>1, <1>2 DEF FlattenSeq, Joins
<1>3. CASE n # 0
  <2>1. f[1] = seqs[1]
    <3>1. 1 \in 1 .. n /\ 1 - 1 = 0
      BY <1>1, <1>3
    <3>2. seqs[1] \in Seq(S)
      BY <3>1, ElementOfSeq
    <3>3. f[1] = <<>> \o seqs[1]
      BY <3>1 DEF Joins
    <3>4. <<>> \o seqs[1] = seqs[1]
      BY <3>2, ConcatEmptySeq
    <3> QED BY <3>3, <3>4
  <2>2. \A i \in 1 .. n : e[i] = F(e)[i]
    <3> SUFFICES ASSUME NEW i \in 1 .. n PROVE e[i] = F(e)[i]
      OBVIOUS
    <3>1. CASE i = 1
      BY <2>1, <3>1
    <3>2. CASE i # 1
      <4>1. i - 1 \in 1 .. n
        BY <3>2
      <4> QED BY <3>2, <4>1 DEF Joins
    <3> QED BY <3>1, <3>2
  <2>3. e = F(e)
    BY <2>2
  <2>4. c = F(c)
    BY <2>3
  <2> HIDE DEF c
  <2>5. \A i \in 1 .. n : c[i] = f[i]
    <3> DEFINE T == {i \in 0 .. n : i # 0 => c[i] = f[i]}
    <3>1. 0 \in T
      BY <1>1
    <3>2. ASSUME NEW i \in 1 .. n, i - 1 \in T PROVE i \in T
      <4>1. c[i] = F(c)[i]
        BY <2>4
      <4>2. CASE i = 1
        BY <2>1, <4>1, <4>2
      <4>3. CASE i # 1
        <5>1. c[i - 1] = f[i - 1]
          BY <3>2, <4>3
        <5>2. c[i] = c[i - 1] \o seqs[i]
          BY <4>1, <4>3
        <5>3. f[i] = f[i - 1] \o seqs[i]
          BY DEF Joins
        <5>4. c[i] = f[i]
          <6> HIDE DEF T
          <6> QED BY <5>1, <5>2, <5>3
        <5> QED BY <5>4
      <4> QED BY <4>2, <4>3
    <3> HIDE DEF T
    <3>3. \A i \in 0 .. n : i \in T
      BY <1>1, <3>1, <3>2, UpTo
    <3> QED BY <3>3 DEF T
  <2>6. FlattenSeq(seqs) = c[n]
    BY <1>1, <1>3 DEF FlattenSeq, c
  <2> QED BY <1>1, <1>3, <2>5, <2>6
<1> QED BY <1>2, <1>3

(* No sequences flatten to the empty one. *)
LEMMA FlattenEmpty == FlattenSeq(<<>>) = <<>>
BY DEF FlattenSeq

(* One sequence more adds its elements at the end. *)
LEMMA FlattenAppend ==
  ASSUME NEW S, NEW seqs \in Seq(Seq(S)), NEW t \in Seq(S)
  PROVE  /\ FlattenSeq(seqs) \in Seq(S)
         /\ FlattenSeq(Append(seqs, t)) = FlattenSeq(seqs) \o t
<1> DEFINE more == Append(seqs, t)
           n == Len(seqs)
<1>1. /\ n \in Nat /\ more \in Seq(Seq(S)) /\ Len(more) = n + 1
      /\ \A i \in 1 .. n : more[i] = seqs[i]
      /\ more[n + 1] = t
  BY AppendProperties, LenProperties
<1> HIDE DEF more
<1>2. PICK f : Joins(f, S, more)
  BY <1>1, JoinsExist
<1> DEFINE e == [k \in 0 .. n |-> f[k]]
<1>3. f \in [0 .. n + 1 -> Seq(S)] /\ f[0] = <<>>
      /\ \A k \in 1 .. n + 1 : f[k] = f[k - 1] \o more[k]
  BY <1>1, <1>2 DEF Joins
<1>4. e \in [0 .. n -> Seq(S)] /\ e[0] = <<>>
  BY <1>1, <1>3
<1>5. \A k \in 1 .. n : e[k] = e[k - 1] \o seqs[k]
  <2> SUFFICES ASSUME NEW k \in 1 .. n PROVE e[k] = e[k - 1] \o seqs[k]
    OBVIOUS
  <2>1. k \in 0 .. n /\ k - 1 \in 0 .. n /\ k \in 1 .. n + 1
    BY <1>1
  <2>2. e[k] = f[k] /\ e[k - 1] = f[k - 1] /\ more[k] = seqs[k]
    BY <1>1, <2>1
  <2>3. f[k] = f[k - 1] \o more[k]
    BY <1>3, <2>1
  <2> HIDE DEF e
  <2> QED BY <2>2, <2>3
<1>6. Joins(e, S, seqs)
  <2> HIDE DEF e
  <2> QED BY <1>4, <1>5 DEF Joins
<1>7. FlattenSeq(seqs) = e[n] /\ FlattenSeq(more) = f[n + 1]
  <2>1. FlattenSeq(seqs) = e[n]
    <3> HIDE DEF e
    <3> QED BY <1>6, JoinsLast
  <2>2. FlattenSeq(more) = f[n + 1]
    BY <1>1, <1>2, JoinsLast
  <2> QED BY <2>1, <2>2
<1>8. e[n] = f[n] /\ e[n] \in Seq(S) /\ f[n + 1] = f[n] \o t
  <2>1. n \in 0 .. n /\ n + 1 \in 1 .. n + 1 /\ (n + 1) - 1 = n
    BY <1>1
  <2>2. e[n] = f[n] /\ f[n] \in Seq(S)
    BY <1>3, <2>1
  <2>3. f[n + 1] = f[n] \o more[n + 1]
    BY <1>3, <2>1
  <2>4. f[n + 1] = f[n] \o t
    BY <1>1, <2>3
  <2> QED BY <2>2, <2>4
<1> HIDE DEF e, n
<1> QED BY <1>7, <1>8 DEF more

(* What comes from two parts. *)
LEMMA FlattenConcat ==
  ASSUME NEW S, NEW a \in Seq(Seq(S)), NEW b \in Seq(Seq(S))
  PROVE  FlattenSeq(a \o b) = FlattenSeq(a) \o FlattenSeq(b)
<1> DEFINE Q == Seq(Seq(S))
           n == Len(b)
           upTo(k) == SubSeq(b, 1, k)
           T == {k \in 0 .. n : FlattenSeq(a \o upTo(k)) = FlattenSeq(a) \o FlattenSeq(upTo(k))}
<1>1. n \in Nat /\ FlattenSeq(a) \in Seq(S)
  <2>1. <<>> \in Seq(S)
    BY EmptySeq
  <2> QED BY <2>1, LenProperties, FlattenAppend
<1>2. 0 \in T
  <2>1. upTo(0) = <<>>
    BY SubSeqEmpty
  <2>2. a \o <<>> = a /\ FlattenSeq(a) \o <<>> = FlattenSeq(a)
    <3>1. a \o <<>> = a
      BY ConcatEmptySeq
    <3>2. FlattenSeq(a) \o <<>> = FlattenSeq(a)
      BY <1>1, ConcatEmptySeq
    <3> QED BY <3>1, <3>2
  <2>3. FlattenSeq(a \o upTo(0)) = FlattenSeq(a) \o FlattenSeq(upTo(0))
    BY <2>1, <2>2, FlattenEmpty
  <2> QED BY <1>1, <2>3
<1>3. ASSUME NEW k \in 1 .. n, k - 1 \in T PROVE k \in T
  <2> DEFINE u == upTo(k - 1)
             x == b[k]
             fa == FlattenSeq(a)
             fu == FlattenSeq(u)
  <2>1. u \in Q /\ x \in Seq(S)
    <3>1. k - 1 \in 0 .. Len(b) /\ 1 \in Nat \ {0}
      BY <1>1
    <3>2. u \in Q
      BY <3>1, Part
    <3> QED BY <3>2, ElementOfSeq
  <2>2. upTo(k) = u \o <<x>> /\ Append(u, x) = u \o <<x>>
    <3>1. 1 \in 1 .. Len(b) /\ k \in 1 .. Len(b)
      BY <1>1
    <3>2. SubSeq(b, 1, k) = SubSeq(b, 1, k - 1) \o <<b[k]>>
      BY <3>1, SubSeqRecursiveSecond
    <3> QED BY <2>1, <3>2, AppendIsConcat
  <2>3. FlattenSeq(a \o u) = fa \o fu
    BY <1>3
  <2> HIDE DEF u, x
  <2>4. a \o u \in Q /\ fu \in Seq(S)
    <3>1. a \o u \in Q
      BY <2>1, ConcatProperties
    <3> QED BY <2>1, <3>1, FlattenAppend
  <2>5. a \o Append(u, x) = Append(a \o u, x)
    <3> DEFINE y == <<x>>
    <3>1. y \in Q
      BY <2>1
    <3>2. (a \o u) \o y = a \o (u \o y)
      <4> DEFINE V == Seq(S)
      <4> HIDE DEF y
      <4>1. a \in Seq(V) /\ u \in Seq(V) /\ y \in Seq(V)
        BY <2>1, <3>1
      <4> HIDE DEF V
      <4> QED BY <4>1, SMTT(30)
    <3>3. Append(a \o u, x) = (a \o u) \o <<x>>
      BY <2>1, <2>4, AppendIsConcat
    <3> QED BY <2>2, <3>2, <3>3
  <2>6. FlattenSeq(Append(a \o u, x)) = FlattenSeq(a \o u) \o x
    BY <2>1, <2>4, FlattenAppend
  <2>7. FlattenSeq(Append(u, x)) = fu \o x
    BY <2>1, FlattenAppend
  <2>8. (fa \o fu) \o x = fa \o (fu \o x)
    <3>1. fa \in Seq(S) /\ fu \in Seq(S) /\ x \in Seq(S)
      BY <1>1, <2>1, <2>4
    <3> HIDE DEF fa, fu
    <3> QED BY <3>1, SMTT(30)
  <2>9. FlattenSeq(a \o Append(u, x)) = fa \o FlattenSeq(Append(u, x))
    <3> HIDE DEF fa, fu
    <3> QED BY <2>3, <2>5, <2>6, <2>7, <2>8
  <2>10. upTo(k) = Append(u, x)
    BY <2>2
  <2>11. FlattenSeq(a \o upTo(k)) = FlattenSeq(a) \o FlattenSeq(upTo(k))
    <3> HIDE DEF upTo
    <3> QED BY <2>9, <2>10
  <2> QED BY <2>11
<1> HIDE DEF T
<1>4. n \in T
  <2> HIDE DEF n
  <2>1. \A k \in 1 .. n : k - 1 \in T => k \in T
    BY <1>3
  <2>2. \A k \in 0 .. n : k \in T
    BY <1>1, <1>2, <2>1, UpTo
  <2> QED BY <1>1, <2>2
<1>5. upTo(n) = b
  BY SubSeqFull
<1> HIDE DEF n, upTo
<1> QED BY <1>4, <1>5 DEF T

(* A character is a sequence of bytes. *)
LEMMA CharacterSeqs ==
  ASSUME NEW a \in Seq(Character)
  PROVE  a \in Seq(Seq(Byte))
<1>1. Character \subseteq Seq(Byte)
  BY DEF Character
<1> HIDE DEF Character
<1> QED BY <1>1, SeqMonotonic

(* One sequence of characters after the other is again one. *)
LEMMA CharactersConcat ==
  ASSUME NEW a \in Seq(Character), NEW b \in Seq(Character)
  PROVE  a \o b \in Seq(Character) /\ Len(a \o b) = Len(a) + Len(b)
         /\ Len(a) \in Nat /\ Len(b) \in Nat
BY ConcatProperties, LenProperties

(* Three parts in either order of joining. *)
LEMMA Assoc ==
  ASSUME NEW S, NEW s \in Seq(S), NEW t \in Seq(S), NEW u \in Seq(S)
  PROVE  (s \o t) \o u = s \o (t \o u)
OBVIOUS

(* Four sequences that can be joined in either order. *)
JoinsFour(s, t, u, v) == (s \o (t \o u)) \o v = s \o (t \o (u \o v))

(* Any four can. *)
LEMMA AssocFour ==
  ASSUME NEW S, NEW s \in Seq(S), NEW t \in Seq(S), NEW u \in Seq(S), NEW v \in Seq(S)
  PROVE  JoinsFour(s, t, u, v)
<1> DEFINE tu == t \o u
<1>1. tu \in Seq(S)
  BY ConcatProperties
<1>2. tu \o v = t \o (u \o v)
  BY Assoc, SMTT(30)
<1> HIDE DEF tu
<1>3. (s \o tu) \o v = s \o (tu \o v)
  BY <1>1
<1> QED BY <1>2, <1>3 DEF tu, JoinsFour

(* The bytes of characters are bytes. *)
LEMMA BytesType ==
  ASSUME NEW a \in Seq(Character)
  PROVE  Bytes(a) \in Seq(Byte) /\ Len(Bytes(a)) \in Nat
<1>1. a \in Seq(Seq(Byte)) /\ <<>> \in Seq(Byte)
  BY CharacterSeqs, EmptySeq
<1>2. FlattenSeq(a) \in Seq(Byte)
  BY <1>1, FlattenAppend
<1> QED BY <1>2, LenProperties DEF Bytes

(* No characters have no bytes. *)
LEMMA BytesEmpty == Bytes(<<>>) = <<>> /\ Len(Bytes(<<>>)) = 0
<1>1. Bytes(<<>>) = <<>>
  BY FlattenEmpty DEF Bytes
<1> QED BY <1>1

(* The bytes of two parts. *)
LEMMA BytesConcat ==
  ASSUME NEW a \in Seq(Character), NEW b \in Seq(Character)
  PROVE  /\ Bytes(a \o b) = Bytes(a) \o Bytes(b)
         /\ Len(Bytes(a \o b)) = Len(Bytes(a)) + Len(Bytes(b))
<1>1. a \in Seq(Seq(Byte)) /\ b \in Seq(Seq(Byte))
  BY CharacterSeqs
<1>2. Bytes(a \o b) = Bytes(a) \o Bytes(b)
  BY <1>1, FlattenConcat DEF Bytes
<1>3. Bytes(a) \in Seq(Byte) /\ Bytes(b) \in Seq(Byte)
  BY BytesType
<1>4. Len(Bytes(a) \o Bytes(b)) = Len(Bytes(a)) + Len(Bytes(b))
  BY <1>3, ConcatProperties
<1> QED BY <1>2, <1>4

(* The bytes of one character. *)
LEMMA BytesOne ==
  ASSUME NEW c \in Character
  PROVE  /\ <<c>> \in Seq(Character) /\ Bytes(<<c>>) = c
         /\ c \in Seq(Byte) /\ Len(c) \in Nat \ {0}
<1>1. c \in Seq(Byte) /\ c # <<>>
  BY DEF Character
<1>2. Len(c) \in Nat \ {0}
  BY <1>1, EmptySeq
<1>3. <<c>> \in Seq(Character)
  <2> HIDE DEF Character
  <2> QED OBVIOUS
<1>4. Bytes(<<c>>) = c
  <2> DEFINE V == Seq(Byte)
  <2>1. <<>> \in Seq(V) /\ c \in V
    BY <1>1, EmptySeq
  <2>2. FlattenSeq(Append(<<>>, c)) = FlattenSeq(<<>>) \o c
    BY <2>1, FlattenAppend
  <2>3. Append(<<>>, c) = <<c>>
    OBVIOUS
  <2>4. <<>> \o c = c
    BY <1>1, ConcatEmptySeq
  <2> QED BY <2>2, <2>3, <2>4, FlattenEmpty DEF Bytes
<1> QED BY <1>1, <1>2, <1>3, <1>4

(* Where there are no bytes there are no characters. *)
LEMMA BytesNone ==
  ASSUME NEW a \in Seq(Character), Len(Bytes(a)) = 0
  PROVE  a = <<>>
<1> SUFFICES ASSUME a # <<>> PROVE FALSE
  OBVIOUS
<1> HIDE DEF Character
<1>1. PICK s \in Seq(Character), c \in Character : a = Append(s, c)
  BY SequenceEmptyOrAppend
<1> DEFINE d == <<c>>
<1>2. d \in Seq(Character) /\ Bytes(d) = c /\ Len(c) \in Nat \ {0}
  BY BytesOne
<1>3. a = s \o d
  BY <1>1, AppendIsConcat
<1> HIDE DEF d
<1>4. Len(Bytes(a)) = Len(Bytes(s)) + Len(Bytes(d)) /\ Len(Bytes(s)) \in Nat
  BY <1>2, <1>3, BytesConcat, BytesType
<1>5. Len(Bytes(d)) = Len(c)
  BY <1>2
<1> DEFINE x == Len(Bytes(s))
           y == Len(c)
<1>6. x \in Nat /\ y \in Nat \ {0} /\ 0 = x + y
  BY <1>2, <1>4, <1>5
<1> HIDE DEF x, y
<1> QED BY <1>6

-----------------------------------------------------------------------------
(* What the capture keeps.                                                 *)

(* t ends a, and t begins a. *)
Ends(t, a) == t \in Seq(Character) /\ \E d \in Seq(Character) : a = d \o t
Begins(t, a) == t \in Seq(Character) /\ \E d \in Seq(Character) : a = t \o d

(* The capacities of head and tail. *)
LEMMA Capacities ==
  HeadCapacity \in Nat /\ Limit \in Nat /\ Limit - HeadCapacity \in Nat
<1>1. Limit \in Nat
  BY LimitAssumption
<1>2. Limit \div 2 \in Nat /\ Limit - (Limit \div 2) \in Nat
  BY <1>1
<1> QED BY <1>1, <1>2 DEF HeadCapacity

(* The line about the omitted bytes fits beside a full head. *)
LEMMA LineFits ==
  ASSUME NEW n
  PROVE  /\ OmittedLine(n) \in Seq(Character) /\ Len(Bytes(OmittedLine(n))) \in Nat
         /\ HeadCapacity + Len(Bytes(OmittedLine(n))) <= Limit
<1> HIDE DEF Character
<1> DEFINE l == OmittedLine(n)
<1>1. l \in {FewOmitted, ManyOmitted}
  BY DEF OmittedLine
<1> HIDE DEF l
<1>2. l \in Seq(Character) /\ HeadCapacity + Len(Bytes(l)) <= Limit
  BY <1>1, LineAssumption DEF HeadCapacity, Bytes
<1>3. Len(Bytes(l)) \in Nat
  BY <1>2, BytesType
<1> QED BY <1>2, <1>3 DEF l

(* What is dropped from the front leaves an end that fits. *)
LEMMA DropFits ==
  ASSUME NEW a \in Seq(Character), NEW capacity \in Nat
  PROVE  Ends(DropUntil(a, capacity), a) /\ Len(Bytes(DropUntil(a, capacity))) <= capacity
<1> DEFINE n == Len(a)
           from(k) == SubSeq(a, k, n)
           F == {k \in 1 .. n + 1 : Len(Bytes(from(k))) <= capacity}
           m == Min(F)
<1>1. n \in Nat
  BY LenProperties
<1>2. n + 1 \in F
  <2>1. from(n + 1) = <<>>
    BY <1>1, SubSeqEmpty
  <2> HIDE DEF from
  <2>2. Len(Bytes(from(n + 1))) <= capacity
    BY <2>1, BytesEmpty
  <2> QED BY <1>1, <2>2
<1>3. F \in SUBSET Nat /\ F # {}
  BY <1>1, <1>2
<1>4. m \in F
  <2> HIDE DEF F
  <2> QED BY <1>3, MinIs
<1>5. DropUntil(a, capacity) = from(m)
  BY DEF DropUntil
<1> HIDE DEF m
<1>6. m \in 1 .. n + 1 /\ Len(Bytes(from(m))) <= capacity
  BY <1>4
<1>7. /\ a = SubSeq(a, 1, m - 1) \o After(a, m - 1)
      /\ SubSeq(a, 1, m - 1) \in Seq(Character) /\ After(a, m - 1) \in Seq(Character)
  <2>1. m - 1 \in 0 .. Len(a)
    BY <1>1, <1>6
  <2> HIDE DEF Character
  <2> QED BY <2>1, FirstAndRest
<1>8. After(a, m - 1) = from(m)
  <2>1. m - 1 + 1 = m
    BY <1>6
  <2> QED BY <2>1 DEF After
<1> HIDE DEF from
<1> QED BY <1>5, <1>6, <1>7, <1>8 DEF Ends

(* What truncate_utf8 leaves is a beginning that fits. *)
LEMMA TruncatedFits ==
  ASSUME NEW a \in Seq(Character), NEW limit \in Nat
  PROVE  Begins(Truncated(a, limit), a) /\ Len(Bytes(Truncated(a, limit))) <= limit
<1> DEFINE n == Len(a)
           upTo(k) == SubSeq(a, 1, k)
           F == {k \in 0 .. n : Len(Bytes(upTo(k))) <= limit}
           m == Max(F)
<1>1. n \in Nat
  BY LenProperties
<1>2. 0 \in F
  <2>1. upTo(0) = <<>>
    BY <1>1, SubSeqEmpty
  <2> HIDE DEF upTo
  <2>2. Len(Bytes(upTo(0))) <= limit
    BY <2>1, BytesEmpty
  <2> QED BY <1>1, <2>2
<1>3. F \in SUBSET Nat /\ F # {} /\ \A y \in F : y <= n
  BY <1>1, <1>2
<1>4. m \in F
  <2> HIDE DEF F
  <2> QED BY <1>1, <1>3, MaxIs
<1>5. Truncated(a, limit) = upTo(m)
  BY DEF Truncated
<1> HIDE DEF m
<1>6. m \in 0 .. n /\ Len(Bytes(upTo(m))) <= limit
  BY <1>4
<1>7. /\ a = upTo(m) \o After(a, m)
      /\ upTo(m) \in Seq(Character) /\ After(a, m) \in Seq(Character)
  <2>1. m \in 0 .. Len(a)
    BY <1>1, <1>6
  <2> HIDE DEF Character
  <2> QED BY <2>1, FirstAndRest
<1> HIDE DEF upTo
<1> QED BY <1>5, <1>6, <1>7 DEF Begins

(* The captures, and a capture of the characters C: it has their number of *)
(* bytes, and its head and tail are the ends of them; until the tail begins*)
(* the head is all.                                                        *)
CaptureRec == [head : Seq(Character), tail : Seq(Character),
               tailStarted : BOOLEAN, total : Nat]
Captured(cap, C) ==
  /\ C \in Seq(Character) /\ cap \in CaptureRec
  /\ cap.total = Len(Bytes(C))
  /\ Len(Bytes(cap.head)) <= HeadCapacity
  /\ \E m \in Seq(Character) :
       /\ C = cap.head \o (m \o cap.tail)
       /\ ~ cap.tailStarted => m = <<>> /\ cap.tail = <<>>

(* Changed captures. *)
LEMMA CaptureHead ==
  ASSUME NEW cap \in CaptureRec, NEW h \in Seq(Character), NEW n \in Nat
  PROVE  [cap EXCEPT !.head = h, !.total = n] \in CaptureRec
<1> DEFINE V == Seq(Character)
<1>1. h \in V /\ cap \in [head : V, tail : V, tailStarted : BOOLEAN, total : Nat]
  BY DEF CaptureRec
<1> HIDE DEF V
<1>2. [cap EXCEPT !.head = h, !.total = n]
        \in [head : V, tail : V, tailStarted : BOOLEAN, total : Nat]
  BY <1>1
<1> QED BY <1>2 DEF V, CaptureRec

(* The same for the tail. *)
LEMMA CaptureTail ==
  ASSUME NEW cap \in CaptureRec, NEW t \in Seq(Character), NEW n \in Nat
  PROVE  [cap EXCEPT !.tail = t, !.tailStarted = TRUE, !.total = n] \in CaptureRec
<1> DEFINE V == Seq(Character)
<1>1. t \in V /\ cap \in [head : V, tail : V, tailStarted : BOOLEAN, total : Nat]
  BY DEF CaptureRec
<1> HIDE DEF V
<1>2. [cap EXCEPT !.tail = t, !.tailStarted = TRUE, !.total = n]
        \in [head : V, tail : V, tailStarted : BOOLEAN, total : Nat]
  BY <1>1
<1> QED BY <1>2 DEF V, CaptureRec

(* push_str of a character keeps a capture one of all that was pushed. *)
LEMMA PushCharKeeps ==
  ASSUME NEW cap, NEW C, Captured(cap, C), NEW c \in Character
  PROVE  Captured(PushChar(cap, c), C \o <<c>>)
<1> HIDE DEF Character
<1> DEFINE d == <<c>>
           new == PushChar(cap, c)
           D == C \o d
<1>1. d \in Seq(Character) /\ Bytes(d) = c /\ Len(c) \in Nat \ {0} /\ Len(Bytes(d)) = Len(c)
  BY BytesOne
<1>2. /\ C \in Seq(Character) /\ cap \in CaptureRec
      /\ cap.head \in Seq(Character) /\ cap.tail \in Seq(Character)
      /\ cap.tailStarted \in BOOLEAN /\ cap.total \in Nat
      /\ cap.total = Len(Bytes(C)) /\ Len(Bytes(cap.head)) <= HeadCapacity
  BY DEF Captured, CaptureRec
<1>3. PICK m \in Seq(Character) :
        /\ C = cap.head \o (m \o cap.tail)
        /\ ~ cap.tailStarted => m = <<>> /\ cap.tail = <<>>
  BY DEF Captured
<1>4. D \in Seq(Character) /\ Len(Bytes(D)) = Len(Bytes(C)) + Len(c)
  <2> HIDE DEF d
  <2>1. D \in Seq(Character) /\ Len(Bytes(D)) = Len(Bytes(C)) + Len(Bytes(d))
    BY <1>1, <1>2, CharactersConcat, BytesConcat
  <2> QED BY <1>1, <2>1
<1>5. CASE ~ cap.tailStarted /\ Len(Bytes(cap.head)) + Len(c) <= HeadCapacity
  <2>1. new = [cap EXCEPT !.head = Append(@, c), !.total = @ + Len(c)]
    BY <1>5 DEF PushChar
  <2>2. /\ new.head = Append(cap.head, c) /\ new.total = cap.total + Len(c)
        /\ new.tail = cap.tail /\ new.tailStarted = cap.tailStarted
    BY <1>2, <2>1 DEF CaptureRec
  <2>3. Append(cap.head, c) = cap.head \o d /\ Append(cap.head, c) \in Seq(Character)
    BY <1>2, AppendIsConcat, AppendProperties
  <2>4. new \in CaptureRec
    <3> DEFINE h == Append(cap.head, c)
               n == cap.total + Len(c)
    <3>1. h \in Seq(Character) /\ n \in Nat /\ new = [cap EXCEPT !.head = h, !.total = n]
      BY <1>1, <1>2, <2>1, <2>3
    <3> HIDE DEF h, n, new
    <3> QED BY <1>2, <3>1, CaptureHead
  <2>5. C = cap.head
    <3>1. <<>> \o <<>> = <<>> /\ cap.head \o <<>> = cap.head
      BY <1>2, ConcatEmptySeq
    <3> QED BY <1>3, <1>5, <3>1
  <2>6. new.head = D
    BY <2>2, <2>3, <2>5
  <2> HIDE DEF new, D, d
  <2>7. Len(Bytes(new.head)) <= HeadCapacity
    BY <1>4, <1>5, <2>5, <2>6
  <2>8. new.tail = <<>> /\ D = new.head \o (<<>> \o new.tail) /\ <<>> \in Seq(Character)
    <3>1. <<>> \o <<>> = <<>> /\ D \o <<>> = D /\ <<>> \in Seq(Character)
      BY <1>4, ConcatEmptySeq, EmptySeq
    <3>2. new.tail = <<>>
      BY <1>3, <1>5, <2>2
    <3> QED BY <2>6, <3>1, <3>2
  <2>9. new.total = Len(Bytes(D))
    BY <1>2, <1>4, <2>2
  <2>10. Captured(new, D)
    BY <1>4, <2>4, <2>7, <2>8, <2>9 DEF Captured
  <2> QED BY <2>10 DEF new, D, d
<1>6. CASE ~ (~ cap.tailStarted /\ Len(Bytes(cap.head)) + Len(c) <= HeadCapacity)
  <2> DEFINE a == Append(cap.tail, c)
             t == DropUntil(a, Limit - HeadCapacity)
  <2>1. new = [cap EXCEPT !.tail = t, !.tailStarted = TRUE, !.total = @ + Len(c)]
    BY <1>6 DEF PushChar
  <2>2. a = cap.tail \o d /\ a \in Seq(Character)
    BY <1>2, AppendIsConcat, AppendProperties
  <2> HIDE DEF a, d
  <2>3. Ends(t, a)
    BY <2>2, Capacities, DropFits
  <2>4. PICK e \in Seq(Character) : a = e \o t
    BY <2>3 DEF Ends
  <2>5. t \in Seq(Character)
    BY <2>3 DEF Ends
  <2> HIDE DEF t
  <2>6. /\ new.head = cap.head /\ new.total = cap.total + Len(c)
        /\ new.tail = t /\ new.tailStarted = TRUE
    BY <1>2, <2>1 DEF CaptureRec
  <2>7. new \in CaptureRec
    <3> DEFINE n == cap.total + Len(c)
    <3>1. n \in Nat /\ new = [cap EXCEPT !.tail = t, !.tailStarted = TRUE, !.total = n]
      BY <1>1, <1>2, <2>1
    <3> HIDE DEF n, new
    <3> QED BY <1>2, <2>5, <3>1, CaptureTail
  <2>8. D = cap.head \o ((m \o e) \o t) /\ m \o e \in Seq(Character)
    <3> DEFINE h == cap.head
               l == cap.tail
    <3>1. h \in Seq(Character) /\ l \in Seq(Character) /\ C = h \o (m \o l)
          /\ a = l \o d /\ a = e \o t
      BY <1>2, <1>3, <2>2, <2>4
    <3> HIDE DEF h, l
    <3>2. (h \o (m \o l)) \o d = h \o (m \o (l \o d))
      <4>1. h \in Seq(Character) /\ l \in Seq(Character) /\ d \in Seq(Character)
        BY <1>1, <3>1
      <4>2. JoinsFour(h, m, l, d)
        BY <4>1, AssocFour
      <4> QED BY <4>2 DEF JoinsFour
    <3>3. m \o (e \o t) = (m \o e) \o t
      BY <2>5, Assoc
    <3>4. l \o d = e \o t
      BY <3>1
    <3>5. D = h \o ((m \o e) \o t)
      BY <3>1, <3>2, <3>3, <3>4
    <3> QED BY <3>5, CharactersConcat DEF h
  <2> HIDE DEF new, D
  <2>9. new.total = Len(Bytes(D))
    BY <1>2, <1>4, <2>6
  <2> DEFINE q == m \o e
  <2>10. q \in Seq(Character) /\ D = new.head \o (q \o new.tail)
    BY <2>6, <2>8
  <2> HIDE DEF q
  <2>11. Captured(new, D)
    BY <1>2, <1>4, <2>6, <2>7, <2>9, <2>10 DEF Captured
  <2> QED BY <2>11 DEF new, D, d
<1> QED BY <1>5, <1>6

(* A capture stays a capture whatever is pushed. *)
LEMMA PushCharType ==
  ASSUME NEW cap \in CaptureRec, NEW c \in Character
  PROVE  PushChar(cap, c) \in CaptureRec
<1> HIDE DEF Character
<1> DEFINE a == Append(cap.tail, c)
           h == Append(cap.head, c)
           t == DropUntil(a, Limit - HeadCapacity)
<1>1. Len(c) \in Nat /\ a \in Seq(Character) /\ h \in Seq(Character)
  <2>1. cap.head \in Seq(Character) /\ cap.tail \in Seq(Character)
    BY DEF CaptureRec
  <2> QED BY <2>1, AppendProperties, BytesOne
<1>2. t \in Seq(Character)
  <2> HIDE DEF a
  <2> QED BY <1>1, Capacities, DropFits DEF Ends
<1> DEFINE n == cap.total + Len(c)
<1>3. \/ PushChar(cap, c) = [cap EXCEPT !.head = h, !.total = n]
      \/ PushChar(cap, c) = [cap EXCEPT !.tail = t, !.tailStarted = TRUE, !.total = n]
  BY DEF PushChar
<1>4. n \in Nat
  BY <1>1 DEF CaptureRec
<1> HIDE DEF a, h, t, n
<1> QED BY <1>1, <1>2, <1>3, <1>4, CaptureHead, CaptureTail, ZenonT(30)

(* push_str keeps a capture one of all that was pushed. *)
LEMMA PushStrKeeps ==
  ASSUME NEW cap, NEW C, Captured(cap, C), NEW chars \in Seq(Character)
  PROVE  Captured(PushStr(cap, chars), C \o chars)
<1> HIDE DEF Character
<1> DEFINE n == Len(chars)
           F(h) == [k \in 0 .. n |-> IF k = 0 THEN cap ELSE PushChar(h[k - 1], chars[k])]
           g == [x \in CaptureRec \X (1 .. n) |-> PushChar(x[1], chars[x[2]])]
           w == CHOOSE h : h = F(h)
<1>1. /\ n \in Nat /\ cap \in CaptureRec /\ C \in Seq(Character)
      /\ \A k \in 1 .. n : chars[k] \in Character
  BY LenProperties, ElementOfSeq DEF Captured
<1>2. g \in [CaptureRec \X (1 .. n) -> CaptureRec]
  BY <1>1, PushCharType
<1>3. PICK f : Loops(f, CaptureRec, cap, n, g)
  <2> HIDE DEF g, n
  <2> QED BY <1>1, <1>2, LoopRuns, Zenon
<1>4. \A k \in 1 .. n : f[k] = PushChar(f[k - 1], chars[k])
  <2> SUFFICES ASSUME NEW k \in 1 .. n PROVE f[k] = PushChar(f[k - 1], chars[k])
    OBVIOUS
  <2>1. f[k - 1] \in CaptureRec /\ f[k] = g[<<f[k - 1], k>>]
    <3>1. k - 1 \in 0 .. n
      BY <1>1
    <3> HIDE DEF g, n
    <3> QED BY <1>3, <3>1 DEF Loops
  <2>2. g[<<f[k - 1], k>>] = PushChar(f[k - 1], chars[k])
    BY <2>1
  <2> QED BY <2>1, <2>2
<1>5. f = F(f)
  <2>1. f \in [0 .. n -> CaptureRec] /\ f[0] = cap
    BY <1>3 DEF Loops
  <2>2. ASSUME NEW k \in 0 .. n PROVE f[k] = F(f)[k]
    BY <1>1, <1>4, <2>1
  <2> QED BY <2>1, <2>2
<1>6. w = F(w)
  BY <1>5
<1>7. PushStr(cap, chars) = w[n]
  BY DEF PushStr
<1> HIDE DEF w
<1>8. w[0] = cap /\ \A k \in 1 .. n : w[k] = PushChar(w[k - 1], chars[k])
  BY <1>1, <1>6
<1> DEFINE upTo(k) == SubSeq(chars, 1, k)
           T == {k \in 0 .. n : Captured(w[k], C \o upTo(k))}
<1>9. 0 \in T
  <2>1. upTo(0) = <<>> /\ C \o <<>> = C
    BY <1>1, SubSeqEmpty, ConcatEmptySeq
  <2>2. Captured(w[0], C \o upTo(0))
    <3> HIDE DEF upTo
    <3> QED BY <1>8, <2>1
  <2> QED BY <1>1, <2>2
<1>10. ASSUME NEW k \in 1 .. n, k - 1 \in T PROVE k \in T
  <2> DEFINE u == upTo(k - 1)
             c == chars[k]
             Cu == C \o u
             d == <<c>>
  <2>1. upTo(k) = u \o d
    <3>1. 1 \in 1 .. Len(chars) /\ k \in 1 .. Len(chars)
      BY <1>1
    <3> QED BY <3>1, SubSeqRecursiveSecond
  <2>2. u \in Seq(Character) /\ c \in Character
    <3>1. 1 \in Nat \ {0} /\ k - 1 \in 0 .. Len(chars)
      BY <1>1
    <3> QED BY <1>1, <3>1, Part
  <2>3. Captured(w[k - 1], Cu)
    BY <1>10
  <2>4. w[k] = PushChar(w[k - 1], c)
    BY <1>8
  <2>5. d \in Seq(Character)
    BY <2>2
  <2> HIDE DEF Cu, c, u
  <2>6. Captured(w[k], Cu \o d)
    BY <2>2, <2>3, <2>4, PushCharKeeps
  <2> HIDE DEF d
  <2>7. (C \o u) \o d = C \o (u \o d)
    BY <1>1, <2>2, <2>5
  <2>8. Captured(w[k], C \o upTo(k))
    <3> HIDE DEF upTo
    <3> QED BY <2>1, <2>6, <2>7 DEF Cu
  <2> QED BY <2>8
<1>11. \A k \in 0 .. n : k \in T
  <2> HIDE DEF T, n
  <2> QED BY <1>1, <1>9, <1>10, UpTo
<1>12. upTo(n) = chars
  BY SubSeqFull
<1>13. Captured(w[n], C \o upTo(n))
  <2> HIDE DEF upTo
  <2> QED BY <1>1, <1>11
<1> HIDE DEF upTo, n
<1> QED BY <1>7, <1>12, <1>13

(* What finish makes of a capture of C fits the limit; it is C when nothing*)
(* is missing, and else a beginning and an end of C and what is between.   *)
Finished(x, C) ==
  /\ x.text \in Seq(Character) /\ Len(Bytes(x.text)) <= Limit
  /\ x.truncated \in BOOLEAN
  /\ ~ x.truncated => x.text = C /\ x.omitted = 0
  /\ x.truncated =>
       \E a, m, b \in Seq(Character) :
         /\ C = a \o (m \o b) /\ x.text = (a \o OmittedLine(x.omitted)) \o b
         /\ x.omitted = Len(Bytes(m))

(* finish of a capture. *)
LEMMA FinishKeeps ==
  ASSUME NEW cap, NEW C, Captured(cap, C)
  PROVE  Finished(CaptureFinish(cap), C)
<1> HIDE DEF Character
<1> DEFINE x == CaptureFinish(cap)
           h == cap.head
           t == cap.tail
<1>1. C \in Seq(Character) /\ h \in Seq(Character) /\ t \in Seq(Character)
      /\ cap.total = Len(Bytes(C)) /\ Len(Bytes(h)) <= HeadCapacity
  BY DEF Captured, CaptureRec
<1>2. PICK m \in Seq(Character) : C = h \o (m \o t)
  BY DEF Captured
<1>4. /\ Len(Bytes(h)) \in Nat /\ Len(Bytes(m)) \in Nat /\ Len(Bytes(t)) \in Nat
      /\ Len(Bytes(C)) = Len(Bytes(h)) + Len(Bytes(m)) + Len(Bytes(t))
  <2> DEFINE mt == m \o t
  <2>1. mt \in Seq(Character) /\ Len(Bytes(mt)) = Len(Bytes(m)) + Len(Bytes(t))
    BY <1>1, CharactersConcat, BytesConcat
  <2> HIDE DEF mt, h, t
  <2>2. Len(Bytes(h \o mt)) = Len(Bytes(h)) + Len(Bytes(mt))
    BY <1>1, <2>1, BytesConcat
  <2>3. Len(Bytes(h)) \in Nat /\ Len(Bytes(m)) \in Nat /\ Len(Bytes(t)) \in Nat
    BY <1>1, BytesType
  <2>4. C = h \o mt
    BY <1>2 DEF mt
  <2> QED BY <2>1, <2>2, <2>3, <2>4
<1>5. CASE cap.total <= Limit /\ Retained(cap) = cap.total
  <2>1. x = [text |-> h \o t, truncated |-> FALSE, omitted |-> 0]
    BY <1>5 DEF CaptureFinish
  <2>2. Retained(cap) = Len(Bytes(h)) + Len(Bytes(t))
    BY DEF Retained
  <2> HIDE DEF h, t, x
  <2>3. Len(Bytes(m)) = 0 /\ Len(Bytes(C)) <= Limit
    BY <1>1, <1>4, <1>5, <2>2
  <2>4. m = <<>>
    BY <2>3, BytesNone
  <2>5. <<>> \o t = t
    BY <1>1, ConcatEmptySeq
  <2>6. C = h \o t
    BY <1>2, <2>4, <2>5
  <2>7. x.text = C /\ x.truncated = FALSE /\ x.omitted = 0
    BY <2>1, <2>6
  <2> QED BY <1>1, <2>3, <2>7 DEF Finished, x
<1>6. CASE ~ (cap.total <= Limit /\ Retained(cap) = cap.total)
  <2> DEFINE n == Len(t)
             from(k) == SubSeq(t, k, n)
             omitted(k) == cap.total - Len(Bytes(h)) - Len(Bytes(from(k)))
             line(k) == OmittedLine(omitted(k))
             F == {k \in 1 .. n + 1 :
                     Len(Bytes(h)) + Len(Bytes(line(k))) + Len(Bytes(from(k))) <= Limit}
             i == Min(F)
             o == line(i)
             b == from(i)
             mid == omitted(i)
  <2>1. x = [text |-> (h \o o) \o b, truncated |-> TRUE, omitted |-> mid]
    BY <1>6 DEF CaptureFinish
  <2>2. n \in Nat
    BY <1>1, LenProperties
  <2> HIDE DEF h, t, x
  <2>3. i \in F
    <3>1. from(n + 1) = <<>>
      BY <1>1, <2>2, SubSeqEmpty
    <3>2. Len(Bytes(from(n + 1))) = 0
      BY <3>1, BytesEmpty
    <3> DEFINE w == Len(Bytes(line(n + 1)))
    <3>3. w \in Nat /\ HeadCapacity + w <= Limit
      <4> HIDE DEF omitted
      <4> QED BY LineFits
    <3>4. Len(Bytes(h)) + w + Len(Bytes(from(n + 1))) <= Limit
      <4> HIDE DEF w, from
      <4> QED BY <1>1, <1>4, <3>2, <3>3, Capacities
    <3> HIDE DEF from, line
    <3>5. n + 1 \in F
      BY <2>2, <3>4
    <3>6. F \in SUBSET Nat /\ F # {}
      BY <2>2, <3>5
    <3> HIDE DEF F
    <3> QED BY <3>6, MinIs
  <2> HIDE DEF i
  <2>4. i \in 1 .. n + 1 /\ Len(Bytes(h)) + Len(Bytes(o)) + Len(Bytes(b)) <= Limit
    <3> HIDE DEF line, from
    <3> QED BY <2>3
  <2> DEFINE d == SubSeq(t, 1, i - 1)
  <2>5. t = d \o b /\ d \in Seq(Character) /\ b \in Seq(Character)
    <3>1. i - 1 \in 0 .. Len(t)
      BY <2>2, <2>4
    <3>2. /\ t = SubSeq(t, 1, i - 1) \o After(t, i - 1)
          /\ SubSeq(t, 1, i - 1) \in Seq(Character) /\ After(t, i - 1) \in Seq(Character)
      BY <1>1, <3>1, FirstAndRest
    <3>3. i - 1 + 1 = i
      BY <2>4
    <3>4. After(t, i - 1) = b
      BY <3>3 DEF After
    <3> QED BY <3>2, <3>4
  <2>6. o = OmittedLine(mid)
    OBVIOUS
  <2>7. mid = cap.total - Len(Bytes(h)) - Len(Bytes(b))
    OBVIOUS
  <2> HIDE DEF mid, o, b, d
  <2>8. o \in Seq(Character) /\ Len(Bytes(o)) \in Nat
    BY <2>6, LineFits
  <2> DEFINE q == m \o d
             ho == h \o o
             text1 == ho \o b
  <2>9. q \in Seq(Character) /\ Len(Bytes(q)) = Len(Bytes(m)) + Len(Bytes(d))
    BY <2>5, CharactersConcat, BytesConcat
  <2>10. Len(Bytes(t)) = Len(Bytes(d)) + Len(Bytes(b)) /\ Len(Bytes(d)) \in Nat
         /\ Len(Bytes(b)) \in Nat
    BY <2>5, BytesConcat, BytesType
  <2>11. mid = Len(Bytes(q))
    BY <1>1, <1>4, <2>7, <2>9, <2>10
  <2>12. ho \in Seq(Character) /\ Len(Bytes(ho)) = Len(Bytes(h)) + Len(Bytes(o))
    BY <1>1, <2>8, CharactersConcat, BytesConcat
  <2> HIDE DEF ho
  <2>13. text1 \in Seq(Character) /\ Len(Bytes(text1)) = Len(Bytes(ho)) + Len(Bytes(b))
    BY <2>5, <2>12, CharactersConcat, BytesConcat
  <2>14. Len(Bytes(text1)) <= Limit
    BY <2>4, <2>12, <2>13
  <2>15. C = h \o (q \o b)
    <3>1. m \o (d \o b) = (m \o d) \o b
      BY <2>5
    <3> QED BY <1>2, <2>5, <3>1
  <2> HIDE DEF q
  <2>16. x.text = text1 /\ x.truncated = TRUE /\ x.omitted = mid
    BY <2>1 DEF ho
  <2>17. text1 = (h \o OmittedLine(x.omitted)) \o b
    BY <2>6, <2>16 DEF ho
  <2> HIDE DEF text1
  <2>18. Finished(x, C)
    BY <1>1, <2>5, <2>9, <2>11, <2>13, <2>14, <2>15, <2>16, <2>17 DEF Finished
  <2> QED BY <2>18 DEF x
<1> QED BY <1>5, <1>6

-----------------------------------------------------------------------------
(* Escaping and decoding.                                                  *)

(* An escaped byte. *)
Hex == << <<"\\">>, <<"x">>, <<"h">>, <<"h">> >>

(* It is four characters. *)
LEMMA HexType == Hex \in Seq(Character)
<1>1. "\\" \in Byte /\ "x" \in Byte /\ "h" \in Byte
  BY TextAssumption
<1>2. ASSUME NEW b \in Byte PROVE <<b>> \in Character
  BY DEF Character
<1>3. <<"\\">> \in Character /\ <<"x">> \in Character /\ <<"h">> \in Character
  BY <1>1, <1>2
<1> HIDE DEF Character
<1> QED BY <1>3 DEF Hex

(* Escaping one byte more, and none. *)
LEMMA EscapedAppend ==
  ASSUME NEW u \in Seq(Byte), NEW b \in Byte
  PROVE  Escaped(u) \in Seq(Character) /\ Escaped(Append(u, b)) = Escaped(u) \o Hex
<1> HIDE DEF Character
<1> DEFINE V == Seq(Character)
           n == Len(u)
           few == [i \in 1 .. n |-> Hex]
           many == [i \in 1 .. n + 1 |-> Hex]
<1>1. n \in Nat /\ Len(Append(u, b)) = n + 1 /\ Hex \in V
  BY LenProperties, AppendProperties, HexType
<1> HIDE DEF V
<1>2. few \in Seq(V) /\ Len(few) = n
  BY <1>1
<1>3. many \in Seq(V) /\ Len(many) = n + 1
  BY <1>1
<1>4. many = Append(few, Hex)
  <2> DEFINE a == Append(few, Hex)
  <2>1. /\ a \in Seq(V) /\ Len(a) = n + 1
        /\ \A i \in 1 .. n : a[i] = few[i]
        /\ a[n + 1] = Hex
    BY <1>1, <1>2, AppendProperties
  <2> HIDE DEF a
  <2>2. \A i \in 1 .. Len(many) : many[i] = a[i]
    BY <1>1, <1>3, <2>1
  <2>3. many = a
    <3> HIDE DEF many
    <3> QED BY <1>3, <2>1, <2>2, SeqEqual
  <2> QED BY <2>3 DEF a
<1>5. Escaped(u) = FlattenSeq(few) /\ Escaped(Append(u, b)) = FlattenSeq(many)
  BY <1>1 DEF Escaped, Hex
<1> HIDE DEF few, many
<1>6. few \in Seq(Seq(Character)) /\ Hex \in Seq(Character)
  BY <1>1, <1>2 DEF V
<1>7. FlattenSeq(few) \in Seq(Character)
      /\ FlattenSeq(Append(few, Hex)) = FlattenSeq(few) \o Hex
  BY <1>6, FlattenAppend
<1> QED BY <1>4, <1>5, <1>7

(* Nothing, one byte and two. *)
LEMMA EscapedFew ==
  /\ Escaped(<<>>) = <<>>
  /\ \A b \in Byte : Escaped(<<b>>) = Hex
  /\ \A b, c \in Byte : Escaped(<<b, c>>) = Hex \o Hex
<1>1. Escaped(<<>>) = <<>>
  <2> DEFINE few == [i \in 1 .. 0 |-> Hex]
  <2>1. few = <<>>
    OBVIOUS
  <2>2. Escaped(<<>>) = FlattenSeq(few)
    BY DEF Escaped, Hex
  <2> HIDE DEF few
  <2> QED BY <2>1, <2>2, FlattenEmpty
<1>2. ASSUME NEW b \in Byte PROVE Escaped(<<b>>) = Hex
  <2>1. <<>> \in Seq(Byte) /\ Append(<<>>, b) = <<b>>
    OBVIOUS
  <2>2. Escaped(Append(<<>>, b)) = Escaped(<<>>) \o Hex
    BY <2>1, EscapedAppend
  <2>3. <<>> \o Hex = Hex
    <3> HIDE DEF Hex, Character
    <3> QED BY HexType, ConcatEmptySeq
  <2> QED BY <1>1, <2>1, <2>2, <2>3
<1>3. ASSUME NEW b \in Byte, NEW c \in Byte PROVE Escaped(<<b, c>>) = Hex \o Hex
  <2>1. <<b>> \in Seq(Byte) /\ Append(<<b>>, c) = <<b, c>>
    <3> DEFINE x == Append(<<b>>, c)
               y == <<b, c>>
    <3>1. <<b>> \in Seq(Byte) /\ Len(<<b>>) = 1 /\ <<b>>[1] = b
      OBVIOUS
    <3>2. /\ x \in Seq(Byte) /\ Len(x) = 1 + 1
          /\ \A i \in 1 .. 1 : x[i] = <<b>>[i]
          /\ x[1 + 1] = c
      BY <3>1, AppendProperties
    <3>3. y \in Seq(Byte) /\ Len(y) = 2 /\ y[1] = b /\ y[2] = c
      OBVIOUS
    <3>4. x[1] = b /\ x[2] = c /\ Len(x) = 2
      BY <3>1, <3>2
    <3> HIDE DEF x, y
    <3>5. \A i \in 1 .. Len(x) : x[i] = y[i]
      BY <3>3, <3>4
    <3>6. x = y
      BY <3>2, <3>3, <3>4, <3>5, SeqEqual
    <3> QED BY <3>1, <3>6 DEF x, y
  <2>2. Escaped(Append(<<b>>, c)) = Escaped(<<b>>) \o Hex
    BY <2>1, EscapedAppend
  <2> QED BY <1>2, <2>1, <2>2
<1> QED BY <1>1, <1>2, <1>3

(* The first bytes of s are a whole character. *)
Whole(s) ==
  s[1] # "C" /\ Width(s[1]) <= Len(s) /\ \A i \in 2 .. Width(s[1]) : s[i] = "C"

(* How wide a character is. *)
LEMMA Widths ==
  /\ Width("C") = 1 /\ Width("L") = 2 /\ Width("T") = 3
  /\ \A b : Width(b) \in 1 .. 3 /\ (Width(b) > 1 => b # "C")
BY DEF Width

(* One step of Decoded, with f for what follows. *)
DecodeStep(f, s) ==
  IF s = <<>> THEN <<>>
  ELSE IF Whole(s)
  THEN <<SubSeq(s, 1, Width(s[1]))>> \o f[SubSeq(s, Width(s[1]) + 1, Len(s))]
  ELSE Escaped(<<s[1]>>) \o f[Tail(s)]

(* What is left after the first character is shorter. *)
LEMMA DecodeRest ==
  ASSUME NEW s \in Seq(Byte), s # <<>>
  PROVE  /\ Len(s) \in Nat \ {0} /\ s[1] \in Byte
         /\ Tail(s) = After(s, 1) /\ Tail(s) \in Seq(Byte) /\ Len(Tail(s)) < Len(s)
         /\ Whole(s) =>
              /\ SubSeq(s, Width(s[1]) + 1, Len(s)) = After(s, Width(s[1]))
              /\ After(s, Width(s[1])) \in Seq(Byte)
              /\ Len(After(s, Width(s[1]))) < Len(s)
              /\ SubSeq(s, 1, Width(s[1])) \in Character
<1>1. Len(s) \in Nat \ {0}
  BY EmptySeq
<1>2. s[1] \in Byte
  BY <1>1, ElementOfSeq
<1>3. Tail(s) = After(s, 1) /\ Tail(s) \in Seq(Byte) /\ Len(Tail(s)) < Len(s)
  BY <1>1, TailIsSubSeq, HeadTailProperties DEF After
<1>4. ASSUME Whole(s)
      PROVE  /\ After(s, Width(s[1])) \in Seq(Byte)
             /\ Len(After(s, Width(s[1]))) < Len(s)
             /\ SubSeq(s, 1, Width(s[1])) \in Character
  <2> DEFINE n == Width(s[1])
  <2>1. n \in 1 .. Len(s)
    BY <1>1, <1>4, Widths DEF Whole
  <2> HIDE DEF n
  <2>2. n \in 0 .. Len(s)
    BY <2>1
  <2>3. /\ After(s, n) \in Seq(Byte) /\ Len(After(s, n)) = Len(s) - n
        /\ SubSeq(s, 1, n) \in Seq(Byte) /\ Len(SubSeq(s, 1, n)) = n
    BY <2>2, FirstAndRest
  <2>4. SubSeq(s, 1, n) # <<>>
    BY <2>1, <2>3
  <2> QED BY <1>1, <2>1, <2>3, <2>4 DEF n, Character
<1> QED BY <1>1, <1>2, <1>3, <1>4 DEF After

(* A step gives characters when what follows does. *)
LEMMA DecodeStepType ==
  ASSUME NEW f, NEW s \in Seq(Byte),
         \A t \in Seq(Byte) : Len(t) < Len(s) => f[t] \in Seq(Character)
  PROVE  DecodeStep(f, s) \in Seq(Character)
<1> HIDE DEF Character
<1>1. CASE s = <<>>
  BY <1>1, EmptySeq DEF DecodeStep
<1>2. CASE s # <<>> /\ Whole(s)
  <2> DEFINE a == SubSeq(s, Width(s[1]) + 1, Len(s))
             c == SubSeq(s, 1, Width(s[1]))
             d == <<c>>
             r == f[a]
  <2>1. a \in Seq(Byte) /\ Len(a) < Len(s) /\ c \in Character
    BY <1>2, DecodeRest
  <2>2. d \in Seq(Character) /\ r \in Seq(Character)
    <3>1. r \in Seq(Character)
      <4> HIDE DEF a
      <4> QED BY <2>1
    <3>2. d \in Seq(Character)
      <4> HIDE DEF c
      <4> QED BY <2>1, BytesOne
    <3> QED BY <3>1, <3>2
  <2>3. DecodeStep(f, s) = d \o r
    BY <1>2 DEF DecodeStep
  <2> HIDE DEF d, r
  <2> QED BY <2>2, <2>3, CharactersConcat
<1>3. CASE s # <<>> /\ ~ Whole(s)
  <2> DEFINE a == Tail(s)
             d == Escaped(<<s[1]>>)
             r == f[a]
  <2>1. a \in Seq(Byte) /\ Len(a) < Len(s) /\ s[1] \in Byte
    BY <1>3, DecodeRest
  <2>2. d = Hex
    BY <2>1, EscapedFew
  <2>3. r \in Seq(Character)
    <3> HIDE DEF a
    <3> QED BY <2>1
  <2>4. DecodeStep(f, s) = d \o r
    BY <1>3 DEF DecodeStep
  <2> HIDE DEF d, r
  <2> QED BY <2>2, <2>3, <2>4, HexType, CharactersConcat
<1> QED BY <1>1, <1>2, <1>3

(* What Decoded is. *)
LEMMA DecodedRecursion ==
  \A s \in Seq(Byte) : Decoded[s] = DecodeStep(Decoded, s)
<1> HIDE DEF Character
<1> DEFINE D == Seq(Byte)
           V == Seq(Character)
           G == [f \in [D -> V] |-> [s \in D |-> DecodeStep(f, s)]]
<1>1. G \in [[D -> V] -> [D -> V]]
  <2> SUFFICES ASSUME NEW f \in [D -> V], NEW s \in D PROVE DecodeStep(f, s) \in V
    OBVIOUS
  <2>1. \A t \in Seq(Byte) : Len(t) < Len(s) => f[t] \in Seq(Character)
    OBVIOUS
  <2> QED BY <2>1, DecodeStepType
<1>2. Descends(G, Byte, V)
  <2> SUFFICES ASSUME NEW f \in [D -> V], NEW h \in [D -> V], NEW s \in D,
                      \A t \in D : Len(t) < Len(s) => f[t] = h[t]
               PROVE  G[f][s] = G[h][s]
    BY DEF Descends
  <2>1. G[f][s] = DecodeStep(f, s) /\ G[h][s] = DecodeStep(h, s)
    OBVIOUS
  <2> HIDE DEF G, V
  <2>2. CASE s = <<>>
    BY <2>1, <2>2 DEF DecodeStep
  <2>3. CASE s # <<>> /\ Whole(s)
    <3> DEFINE a == SubSeq(s, Width(s[1]) + 1, Len(s))
    <3>1. a \in D /\ Len(a) < Len(s)
      BY <2>3, DecodeRest
    <3>2. f[a] = h[a]
      <4> HIDE DEF a
      <4> QED BY <3>1
    <3> QED BY <2>1, <2>3, <3>2 DEF DecodeStep
  <2>4. CASE s # <<>> /\ ~ Whole(s)
    <3>1. Tail(s) \in D /\ Len(Tail(s)) < Len(s)
      BY <2>4, DecodeRest
    <3>2. f[Tail(s)] = h[Tail(s)]
      BY <3>1
    <3> QED BY <2>1, <2>4, <3>2 DEF DecodeStep
  <2> QED BY <2>2, <2>3, <2>4
<1>3. Solved(G, Byte, V)
  <2>1. <<>> \in V
    BY EmptySeq
  <2> HIDE DEF G, V
  <2> QED BY <1>1, <1>2, <2>1, SeqRecursion
<1>4. PICK f \in [D -> V] : f = G[f]
  <2> HIDE DEF G, V
  <2> QED BY <1>3 DEF Solved
<1>5. f = [s \in D |-> DecodeStep(f, s)]
  <2>1. G[f] = [s \in D |-> DecodeStep(f, s)]
    OBVIOUS
  <2> HIDE DEF G
  <2> QED BY <1>4, <2>1
<1>6. Decoded = CHOOSE h : h = [s \in D |-> DecodeStep(h, s)]
  BY DEF Decoded, DecodeStep, Whole
<1>7. Decoded = [s \in D |-> DecodeStep(Decoded, s)]
  BY <1>5, <1>6
<1> QED BY <1>7

(* Decoded gives characters. *)
LEMMA DecodedType ==
  ASSUME NEW s \in Seq(Byte)
  PROVE  Decoded[s] \in Seq(Character)
<1> HIDE DEF Character
<1> DEFINE U == {k \in Nat : \E t \in Seq(Byte) : Len(t) = k /\ Decoded[t] \notin Seq(Character)}
<1> SUFFICES ASSUME Decoded[s] \notin Seq(Character) PROVE FALSE
  OBVIOUS
<1>1. U # {} /\ U \in SUBSET Nat
  BY LenProperties
<1>2. PICK k \in U : \A j \in U : k <= j
  <2> HIDE DEF U
  <2> QED BY <1>1, LeastNumber
<1>3. PICK t \in Seq(Byte) : Len(t) = k /\ Decoded[t] \notin Seq(Character)
  BY <1>2
<1>4. ASSUME NEW q \in Seq(Byte), Len(q) < Len(t) PROVE Decoded[q] \in Seq(Character)
  <2>1. Len(q) \in Nat /\ k \in Nat /\ ~ (k <= Len(q))
    BY <1>2, <1>3, <1>4, LenProperties
  <2>2. Len(q) \notin U
    BY <1>2, <2>1
  <2> QED BY <2>1, <2>2
<1>5. DecodeStep(Decoded, t) \in Seq(Character)
  BY <1>4, DecodeStepType
<1> QED BY <1>3, <1>5, DecodedRecursion

(* Nothing decodes to nothing. *)
LEMMA DecodedEmpty == Decoded[<<>>] = <<>>
<1>1. <<>> \in Seq(Byte)
  BY EmptySeq
<1>2. DecodeStep(Decoded, <<>>) = <<>>
  BY DEF DecodeStep
<1> QED BY <1>1, <1>2, DecodedRecursion

(* A byte that begins no whole character is escaped. *)
LEMMA DecodedBad ==
  ASSUME NEW s \in Seq(Byte), s # <<>>, ~ Whole(s)
  PROVE  Decoded[s] = Hex \o Decoded[After(s, 1)]
<1>1. DecodeStep(Decoded, s) = Escaped(<<s[1]>>) \o Decoded[Tail(s)]
  BY DEF DecodeStep
<1>2. s[1] \in Byte /\ Tail(s) = After(s, 1)
  BY DecodeRest
<1>3. Escaped(<<s[1]>>) = Hex
  BY <1>2, EscapedFew
<1> QED BY <1>1, <1>2, <1>3, DecodedRecursion

(* A whole character is taken as it is. *)
LEMMA DecodedWhole ==
  ASSUME NEW s \in Seq(Byte), s # <<>>, Whole(s)
  PROVE  Decoded[s] = <<SubSeq(s, 1, Width(s[1]))>> \o Decoded[After(s, Width(s[1]))]
<1>1. DecodeStep(Decoded, s)
        = <<SubSeq(s, 1, Width(s[1]))>> \o Decoded[SubSeq(s, Width(s[1]) + 1, Len(s))]
  BY DEF DecodeStep
<1> QED BY <1>1, DecodedRecursion DEF After

(* How far the continuation bytes go. *)
LEMMA ContinuedIs ==
  ASSUME NEW r \in Seq(Byte), r # <<>>
  PROVE  /\ Continued(r) \in 0 .. Width(r[1]) - 1 /\ Continued(r) + 1 \in 1 .. Len(r)
         /\ \A i \in 2 .. Continued(r) + 1 : r[i] = "C"
         /\ Continued(r) + 1 < Width(r[1]) /\ Continued(r) + 1 < Len(r)
              => r[Continued(r) + 2] # "C"
<1> DEFINE w == Width(r[1])
           F == {k \in 0 .. w - 1 : k < Len(r) /\ \A i \in 2 .. k + 1 : r[i] = "C"}
           c == Max(F)
<1>1. Len(r) \in Nat \ {0} /\ w \in 1 .. 3
  BY EmptySeq, Widths
<1> HIDE DEF w
<1>2. 0 \in F
  BY <1>1
<1>3. F \in SUBSET Nat /\ F # {} /\ \A y \in F : y <= 3
  BY <1>1, <1>2
<1>4. c \in F /\ \A y \in F : y <= c
  <2> HIDE DEF F
  <2> QED BY <1>3, MaxIs
<1>5. Continued(r) = c
  BY DEF Continued, w
<1> HIDE DEF c
<1>6. /\ c \in 0 .. w - 1 /\ c < Len(r) /\ \A i \in 2 .. c + 1 : r[i] = "C"
  BY <1>4
<1>7. ASSUME c + 1 < w, c + 1 < Len(r), r[c + 2] = "C" PROVE FALSE
  <2>1. c + 1 \in 0 .. w - 1 /\ c + 1 < Len(r)
    BY <1>1, <1>6, <1>7
  <2>2. \A i \in 2 .. (c + 1) + 1 : r[i] = "C"
    <3> SUFFICES ASSUME NEW i \in 2 .. (c + 1) + 1 PROVE r[i] = "C"
      OBVIOUS
    <3>1. CASE i = c + 2
      BY <1>7, <3>1
    <3>2. CASE i # c + 2
      <4>1. i \in 2 .. c + 1
        BY <1>1, <1>6, <3>2
      <4> QED BY <1>6, <4>1
    <3> QED BY <3>1, <3>2
  <2>3. c + 1 \in F
    BY <2>1, <2>2
  <2>4. c + 1 <= c
    <3> HIDE DEF F
    <3> QED BY <1>4, <2>3
  <2> QED BY <1>1, <1>6, <2>4
<1>8. c + 1 \in 1 .. Len(r)
  BY <1>1, <1>6
<1> QED BY <1>1, <1>5, <1>6, <1>7, <1>8 DEF w

(* Where the continuation breaks off, or has no beginning, all is escaped. *)
Breaks(r) ==
  LET n == Continued(r) + 1
  IN  (n < Width(r[1]) /\ n < Len(r)) \/ (n = Width(r[1]) /\ r[1] = "C")

(* The decoding of what is taken. *)
LEMMA DecodedBreak ==
  ASSUME NEW r \in Seq(Byte), r # <<>>, Breaks(r), NEW z \in Seq(Byte)
  PROVE  Decoded[r \o z] = Escaped(SubSeq(r, 1, Continued(r) + 1))
                             \o Decoded[After(r, Continued(r) + 1) \o z]
<1> HIDE DEF Character
<1> DEFINE n == Continued(r) + 1
           w == Width(r[1])
           s == r \o z
<1>1. /\ n \in 1 .. Len(r) /\ n <= w /\ w \in 1 .. 3
      /\ \A i \in 2 .. n : r[i] = "C"
      /\ n < w /\ n < Len(r) => r[n + 1] # "C"
      /\ Len(r) \in Nat \ {0}
  BY ContinuedIs, Widths, EmptySeq
<1>2. (n < w /\ n < Len(r)) \/ (n = w /\ r[1] = "C")
  BY DEF Breaks
<1>3. /\ s \in Seq(Byte) /\ Len(s) = Len(r) + Len(z) /\ Len(z) \in Nat
      /\ \A i \in 1 .. Len(r) : s[i] = r[i]
  <2>1. /\ s \in Seq(Byte) /\ Len(s) = Len(r) + Len(z) /\ Len(z) \in Nat
        /\ \A i \in 1 .. Len(r) + Len(z) : s[i] = IF i <= Len(r) THEN r[i] ELSE z[i - Len(r)]
    BY ConcatProperties, LenProperties
  <2> HIDE DEF s
  <2> QED BY <1>1, <2>1
<1>4. \A k \in 0 .. Len(r) : After(s, k) = After(r, k) \o z
  BY AfterConcat
<1>5. w = Width(s[1]) /\ s[1] = r[1] /\ s # <<>> /\ r[1] \in Byte
  <2>1. 1 \in 1 .. Len(r)
    BY <1>1
  <2>2. s[1] = r[1] /\ r[1] \in Byte
    BY <1>3, <2>1, ElementOfSeq
  <2>3. s # <<>>
    <3> HIDE DEF s
    <3> QED BY <1>1, <1>3, EmptySeq
  <2> QED BY <2>2, <2>3
<1> HIDE DEF n, s
<1>6. w = 1 <=> r[1] \notin {"L", "T"}
  BY DEF Width
<1> HIDE DEF w
<1>7. ~ Whole(s)
  <2>1. CASE n < w /\ n < Len(r)
    <3>1. n + 1 \in 2 .. w /\ n + 1 \in 1 .. Len(r) /\ r[n + 1] # "C"
      BY <1>1, <2>1
    <3>2. s[n + 1] # "C"
      BY <1>3, <3>1
    <3> QED BY <1>5, <3>1, <3>2 DEF Whole
  <2>2. CASE n = w /\ r[1] = "C"
    BY <1>5, <2>2 DEF Whole
  <2> QED BY <1>2, <2>1, <2>2
<1>8. Decoded[s] = Hex \o Decoded[After(s, 1)]
  BY <1>3, <1>5, <1>7, DecodedBad
<1>9. CASE n = 1
  <2>1. SubSeq(r, 1, 1) = <<r[1]>>
    <3>1. 1 \in 1 .. Len(r) /\ 1 \in 1 .. Len(r)
      BY <1>1
    <3>2. SubSeq(r, 1, 1) = <<r[1]>> \o SubSeq(r, 1 + 1, 1)
      BY <3>1, SubSeqRecursiveFirst
    <3>3. SubSeq(r, 1 + 1, 1) = <<>>
      BY SubSeqEmpty
    <3>4. <<r[1]>> \o <<>> = <<r[1]>>
      BY <1>5, ConcatEmptySeq
    <3> QED BY <3>2, <3>3, <3>4
  <2>2. Escaped(SubSeq(r, 1, 1)) = Hex
    BY <1>5, <2>1, EscapedFew
  <2>3. After(s, 1) = After(r, 1) \o z
    BY <1>1, <1>4
  <2> QED BY <1>8, <1>9, <2>2, <2>3 DEF n, s
<1>10. CASE n # 1
  <2>1. n = 2 /\ w = 3 /\ 2 < Len(r)
    <3>1. r[1] # "C"
      <4>1. w # 1
        BY <1>1, <1>10
      <4> QED BY <1>6, <4>1
    <3> QED BY <1>1, <1>2, <1>10, <3>1
  <2>2. r[2] = "C" /\ r[2] \in Byte
    <3>1. 2 \in 2 .. n /\ 2 \in 1 .. Len(r)
      BY <1>1, <2>1
    <3> QED BY <1>1, <3>1, ElementOfSeq
  <2> DEFINE t == After(s, 1)
  <2>3. t \in Seq(Byte) /\ Len(t) = Len(s) - 1 /\ t[1] = s[2]
    <3>1. 1 \in 0 .. Len(s) /\ 1 \in 1 .. Len(s) - 1
      BY <1>1, <1>3, <2>1
    <3>2. /\ t \in Seq(Byte) /\ Len(t) = Len(s) - 1
          /\ \A i \in 1 .. Len(s) - 1 : t[i] = s[1 + i]
      BY <1>3, <3>1, AfterType
    <3>3. t[1] = s[1 + 1]
      BY <3>1, <3>2
    <3> QED BY <3>2, <3>3
  <2>4. After(t, 1) = After(s, 2)
    <3>1. 1 \in 0 .. Len(s) /\ 1 \in 0 .. Len(s) - 1
      BY <1>1, <1>3, <2>1
    <3>2. After(After(s, 1), 1) = After(s, 1 + 1)
      BY <1>3, <3>1, AfterAfter
    <3> QED BY <3>2
  <2> HIDE DEF t
  <2>5. t # <<>> /\ ~ Whole(t)
    <3>1. t # <<>>
      BY <1>1, <1>3, <2>1, <2>3, EmptySeq
    <3>2. t[1] = "C"
      BY <1>1, <1>3, <2>1, <2>2, <2>3
    <3> QED BY <3>1, <3>2 DEF Whole
  <2>6. Decoded[t] = Hex \o Decoded[After(t, 1)]
    BY <2>3, <2>5, DecodedBad
  <2>7. SubSeq(r, 1, 2) = <<r[1], r[2]>>
    <3> DEFINE x == SubSeq(r, 1, 2)
               y == <<r[1], r[2]>>
    <3>1. 2 \in 0 .. Len(r) /\ 1 \in Nat \ {0}
      BY <1>1, <2>1
    <3>2. /\ x \in Seq(Byte) /\ Len(x) = 2 + 1 - 1
          /\ \A i \in 1 .. 2 + 1 - 1 : x[i] = r[1 + i - 1]
      BY <3>1, Part
    <3>3. y \in Seq(Byte) /\ Len(y) = 2 /\ y[1] = r[1] /\ y[2] = r[2]
      BY <1>5, <2>2
    <3>4. x[1] = r[1] /\ x[2] = r[2] /\ Len(x) = 2
      <4>1. x[1] = r[1 + 1 - 1] /\ x[2] = r[1 + 2 - 1]
        BY <3>2
      <4> QED BY <3>2, <4>1
    <3> HIDE DEF x, y
    <3>5. \A i \in 1 .. Len(x) : x[i] = y[i]
      BY <3>3, <3>4
    <3>6. x = y
      BY <3>2, <3>3, <3>4, <3>5, SeqEqual
    <3> QED BY <3>6 DEF x, y
  <2>8. Escaped(SubSeq(r, 1, 2)) = Hex \o Hex
    BY <1>5, <2>2, <2>7, EscapedFew
  <2>9. After(s, 2) = After(r, 2) \o z
    BY <1>1, <1>4, <2>1
  <2> DEFINE a == After(r, 2) \o z
             b == Decoded[a]
  <2>10. b \in Seq(Character)
    <3>1. After(r, 2) \in Seq(Byte)
      <4>1. 2 \in 0 .. Len(r)
        BY <1>1, <2>1
      <4> QED BY <4>1, AfterType
    <3>2. a \in Seq(Byte)
      BY <3>1, ConcatProperties
    <3> HIDE DEF a
    <3> QED BY <3>2, DecodedType
  <2>11. Decoded[s] = Hex \o (Hex \o b)
    BY <1>8, <2>4, <2>6, <2>9 DEF t
  <2> HIDE DEF b
  <2>12. Hex \o (Hex \o b) = (Hex \o Hex) \o b
    <3> HIDE DEF Hex
    <3> QED BY <2>10, HexType
  <2> QED BY <2>1, <2>8, <2>11, <2>12 DEF b, n, s
<1> QED BY <1>9, <1>10

(* A whole character at the beginning. *)
LEMMA DecodedTake ==
  ASSUME NEW r \in Seq(Byte), r # <<>>, Continued(r) + 1 = Width(r[1]), r[1] # "C",
         NEW z \in Seq(Byte)
  PROVE  /\ SubSeq(r, 1, Continued(r) + 1) \in Character
         /\ Decoded[r \o z] = <<SubSeq(r, 1, Continued(r) + 1)>>
                                \o Decoded[After(r, Continued(r) + 1) \o z]
<1> DEFINE n == Continued(r) + 1
           s == r \o z
<1>1. /\ n \in 1 .. Len(r) /\ n = Width(r[1])
      /\ \A i \in 2 .. n : r[i] = "C"
      /\ Len(r) \in Nat \ {0}
  BY ContinuedIs, Widths, EmptySeq
<1>2. /\ s \in Seq(Byte) /\ Len(s) = Len(r) + Len(z) /\ Len(z) \in Nat
      /\ \A i \in 1 .. Len(r) : s[i] = r[i]
  <2>1. /\ s \in Seq(Byte) /\ Len(s) = Len(r) + Len(z) /\ Len(z) \in Nat
        /\ \A i \in 1 .. Len(r) + Len(z) : s[i] = IF i <= Len(r) THEN r[i] ELSE z[i - Len(r)]
    BY ConcatProperties, LenProperties
  <2> HIDE DEF s
  <2> QED BY <1>1, <2>1
<1> HIDE DEF n
<1>3. After(s, n) = After(r, n) \o z /\ SubSeq(s, 1, n) = SubSeq(r, 1, n)
  <2>1. n \in 0 .. Len(r) /\ 1 \in 1 .. Len(r) /\ n \in 1 .. Len(r)
    BY <1>1
  <2> QED BY <2>1, AfterConcat, SubSeqOfConcat1
<1> HIDE DEF s
<1>4. s[1] = r[1] /\ s # <<>>
  <2>1. 1 \in 1 .. Len(r)
    BY <1>1
  <2> QED BY <1>1, <1>2, <2>1, EmptySeq
<1>5. Whole(s)
  <2>1. \A i \in 2 .. n : s[i] = "C"
    BY <1>1, <1>2
  <2>2. n <= Len(s)
    BY <1>1, <1>2
  <2> QED BY <1>1, <1>4, <2>1, <2>2 DEF Whole
<1>6. Decoded[s] = <<SubSeq(s, 1, n)>> \o Decoded[After(s, n)]
  BY <1>1, <1>2, <1>4, <1>5, DecodedWhole
<1>7. SubSeq(r, 1, n) \in Character
  <2>1. n \in 0 .. Len(r)
    BY <1>1
  <2>2. SubSeq(r, 1, n) \in Seq(Byte) /\ Len(SubSeq(r, 1, n)) = n
    BY <2>1, FirstAndRest
  <2>3. SubSeq(r, 1, n) # <<>>
    BY <1>1, <2>2
  <2> QED BY <2>2, <2>3 DEF Character
<1> QED BY <1>3, <1>6, <1>7 DEF n, s

(* An incomplete character: it begins as one and ends too early. *)
Cut(u) ==
  u = <<>> \/ (Continued(u) + 1 = Len(u) /\ Continued(u) + 1 < Width(u[1]))

(* It decodes to its bytes escaped. *)
LEMMA DecodedCut ==
  ASSUME NEW u \in Seq(Byte), Cut(u)
  PROVE  Decoded[u] = Escaped(u) /\ Escaped(u) \in Seq(Character)
<1> HIDE DEF Character
<1>1. Escaped(u) \in Seq(Character)
  <2>1. "x" \in Byte
    BY TextAssumption
  <2> QED BY <2>1, EscapedAppend
<1>2. CASE u = <<>>
  BY <1>1, <1>2, DecodedEmpty, EscapedFew
<1>3. CASE u # <<>>
  <2> DEFINE n == Len(u)
             w == Width(u[1])
  <2>1. n \in Nat \ {0} /\ n < w /\ w \in 1 .. 3 /\ \A i \in 2 .. n : u[i] = "C"
    BY <1>3, ContinuedIs, Widths, EmptySeq DEF Cut
  <2>2. ~ Whole(u)
    BY <2>1 DEF Whole
  <2>3. Decoded[u] = Hex \o Decoded[After(u, 1)]
    BY <1>3, <2>2, DecodedBad
  <2>4. u[1] \in Byte
    BY <2>1, ElementOfSeq
  <2>5. Hex \o <<>> = Hex
    <3> HIDE DEF Hex
    <3> QED BY HexType, ConcatEmptySeq
  <2>6. CASE n = 1
    <3>1. After(u, 1) = <<>>
      BY <2>6, AfterEnds
    <3>2. u = <<u[1]>>
      <4> DEFINE y == <<u[1]>>
      <4>1. y \in Seq(Byte) /\ Len(y) = 1 /\ y[1] = u[1]
        BY <2>4
      <4> HIDE DEF y
      <4>2. \A i \in 1 .. Len(u) : u[i] = y[i]
        BY <2>6, <4>1
      <4>3. u = y
        BY <2>6, <4>1, <4>2, SeqEqual
      <4> QED BY <4>3 DEF y
    <3>3. Escaped(u) = Hex
      BY <2>4, <3>2, EscapedFew
    <3> QED BY <1>1, <2>3, <2>5, <3>1, <3>3, DecodedEmpty
  <2>7. CASE n # 1
    <3>1. n = 2
      <4> HIDE DEF n, w
      <4> QED BY <2>1, <2>7
    <3>2. u[2] = "C" /\ u[2] \in Byte
      <4>1. 2 \in 2 .. n /\ 2 \in 1 .. Len(u)
        BY <3>1
      <4> QED BY <2>1, <4>1, ElementOfSeq
    <3> DEFINE t == After(u, 1)
    <3>3. t \in Seq(Byte) /\ Len(t) = 1 /\ t[1] = u[2]
      <4>1. 1 \in 0 .. Len(u) /\ 1 \in 1 .. Len(u) - 1
        BY <3>1
      <4>2. /\ t \in Seq(Byte) /\ Len(t) = Len(u) - 1
            /\ \A i \in 1 .. Len(u) - 1 : t[i] = u[1 + i]
        BY <4>1, AfterType
      <4>3. t[1] = u[1 + 1]
        BY <4>1, <4>2
      <4> QED BY <3>1, <4>2, <4>3
    <3> HIDE DEF t
    <3>4. t # <<>> /\ ~ Whole(t)
      <4>1. t # <<>>
        <5>1. Len(t) # 0
          BY <3>3
        <5>2. Len(<<>>) = 0
          OBVIOUS
        <5> QED BY <5>1, <5>2
      <4>2. t[1] = "C"
        BY <3>2, <3>3
      <4> QED BY <4>1, <4>2 DEF Whole
    <3>5. Decoded[t] = Hex \o Decoded[After(t, 1)]
      BY <3>3, <3>4, DecodedBad
    <3>6. After(t, 1) = <<>>
      BY <3>3, AfterEnds
    <3>7. Decoded[t] = Hex
      BY <2>5, <3>5, <3>6, DecodedEmpty
    <3>8. u = <<u[1], u[2]>>
      <4> DEFINE y == <<u[1], u[2]>>
      <4>1. y \in Seq(Byte) /\ Len(y) = 2 /\ y[1] = u[1] /\ y[2] = u[2]
        BY <2>4, <3>2
      <4> HIDE DEF y
      <4>2. \A i \in 1 .. Len(u) : u[i] = y[i]
        BY <3>1, <4>1
      <4>3. u = y
        BY <3>1, <4>1, <4>2, SeqEqual
      <4> QED BY <4>3 DEF y
    <3>9. Escaped(u) = Hex \o Hex
      BY <2>4, <3>2, <3>8, EscapedFew
    <3> QED BY <1>1, <2>3, <3>7, <3>9 DEF t
  <2> QED BY <2>6, <2>7
<1> QED BY <1>2, <1>3

-----------------------------------------------------------------------------
(* Utf8Escaper.                                                            *)

(* A state of push's loop: with C captured before, and the buffer B, what  *)
(* was pushed since and what is left decode to what B does, however B goes *)
(* on.                                                                     *)
EscaperRec == [capture : CaptureRec, utf8 : Seq(Byte), rest : Seq(Byte)]
SameDecoding(B, D, r) ==
  \A z \in Seq(Byte) : Decoded[B \o z] = D \o Decoded[r \o z]
Reads(x, C, B) ==
  /\ x \in EscaperRec /\ Cut(x.utf8) /\ (x.utf8 = <<>> \/ x.rest = <<>>)
  /\ \E D \in Seq(Character) :
       Captured(x.capture, C \o D) /\ SameDecoding(B, D, x.utf8 \o x.rest)

(* More was decoded. *)
LEMMA DecodesMore ==
  ASSUME NEW B \in Seq(Byte), NEW D \in Seq(Character), NEW r \in Seq(Byte),
         SameDecoding(B, D, r), NEW d \in Seq(Character), NEW q \in Seq(Byte),
         SameDecoding(r, d, q)
  PROVE  SameDecoding(B, D \o d, q)
<1> HIDE DEF Character
<1> SUFFICES ASSUME NEW z \in Seq(Byte) PROVE Decoded[B \o z] = (D \o d) \o Decoded[q \o z]
  BY DEF SameDecoding
<1> DEFINE y == Decoded[q \o z]
<1>1. y \in Seq(Character)
  <2> DEFINE qz == q \o z
  <2>1. qz \in Seq(Byte)
    BY ConcatProperties
  <2> HIDE DEF qz
  <2>2. Decoded[qz] \in Seq(Character)
    BY <2>1, DecodedType
  <2> QED BY <2>2 DEF qz
<1>2. Decoded[B \o z] = D \o (d \o y)
  BY DEF SameDecoding
<1> HIDE DEF y
<1>3. D \o (d \o y) = (D \o d) \o y
  BY <1>1, SMTT(30)
<1> QED BY <1>2, <1>3 DEF y

(* What one turn of the loop takes. *)
LEMMA EscaperTakes ==
  ASSUME NEW cap, NEW C \in Seq(Character), NEW B \in Seq(Byte),
         NEW D \in Seq(Character), NEW r \in Seq(Byte),
         Captured(cap, C \o D), SameDecoding(B, D, r),
         NEW chars \in Seq(Character), NEW q \in Seq(Byte), SameDecoding(r, chars, q)
  PROVE  Reads([capture |-> PushStr(cap, chars), utf8 |-> <<>>, rest |-> q], C, B)
<1> HIDE DEF Character
<1> DEFINE CD == C \o D
           Dc == D \o chars
           new == PushStr(cap, chars)
           x == [capture |-> new, utf8 |-> <<>>, rest |-> q]
<1>1. Captured(new, CD \o chars)
  <2> HIDE DEF CD
  <2> QED BY PushStrKeeps DEF CD
<1> HIDE DEF new
<1>2. CD \o chars = C \o Dc
  BY Assoc, SMTT(30)
<1>3. Captured(new, C \o Dc)
  BY <1>1, <1>2
<1>4. Dc \in Seq(Character) /\ SameDecoding(B, Dc, q)
  BY CharactersConcat, DecodesMore
<1>5. new \in CaptureRec
  BY <1>3 DEF Captured
<1>6. <<>> \in Seq(Byte) /\ <<>> \o q = q
  BY EmptySeq, ConcatEmptySeq
<1>7. x \in EscaperRec
  <2> DEFINE V == Seq(Byte)
  <2>1. new \in CaptureRec /\ <<>> \in V /\ q \in V
    BY <1>5, <1>6
  <2> HIDE DEF V
  <2>2. x \in [capture : CaptureRec, utf8 : V, rest : V]
    BY <2>1
  <2> QED BY <2>2 DEF V, EscaperRec
<1> HIDE DEF Dc
<1>8. x.capture = new /\ x.utf8 = <<>> /\ x.rest = q
  OBVIOUS
<1> HIDE DEF x
<1>9. Reads(x, C, B)
  BY <1>3, <1>4, <1>6, <1>7, <1>8 DEF Reads, Cut
<1> QED BY <1>9 DEF x, new

(* One turn of the loop. *)
LEMMA EscaperStepKeeps ==
  ASSUME NEW x, NEW C \in Seq(Character), NEW B \in Seq(Byte), Reads(x, C, B)
  PROVE  /\ Reads(EscaperStep(x), C, B)
         /\ EscaperStep(x).rest = <<>> \/ Len(EscaperStep(x).rest) < Len(x.rest)
<1> HIDE DEF Character
<1> DEFINE r == x.rest
           n == Continued(r) + 1
           w == Width(r[1])
           taken == SubSeq(r, 1, n)
           q == SubSeq(r, n + 1, Len(r))
           new == EscaperStep(x)
<1>1. x \in EscaperRec /\ r \in Seq(Byte) /\ x.utf8 \in Seq(Byte)
  BY DEF Reads, EscaperRec
<1>2. CASE r = <<>>
  <2>1. new = x
    BY <1>2 DEF EscaperStep
  <2> HIDE DEF new
  <2> QED BY <1>2, <2>1 DEF new
<1>3. CASE r # <<>>
  <2>1. PICK D \in Seq(Character) : Captured(x.capture, C \o D) /\ SameDecoding(B, D, x.utf8 \o r)
    BY DEF Reads
  <2>2. x.utf8 = <<>> /\ x.utf8 \o r = r
    <3>1. x.utf8 = <<>>
      BY <1>3 DEF Reads
    <3> QED BY <1>1, <3>1, ConcatEmptySeq
  <2>3. SameDecoding(B, D, r)
    BY <2>1, <2>2
  <2>4. n \in 1 .. Len(r) /\ n <= w /\ Len(r) \in Nat \ {0}
    <3> DEFINE c == Continued(r)
    <3>1. c \in 0 .. w - 1 /\ c + 1 \in 1 .. Len(r) /\ w \in 1 .. 3 /\ Len(r) \in Nat \ {0}
      BY <1>1, <1>3, ContinuedIs, Widths, EmptySeq
    <3> HIDE DEF c, w, r
    <3> QED BY <3>1 DEF c
  <2>5. q = After(r, n) /\ q \in Seq(Byte) /\ Len(q) < Len(r)
    <3>1. n \in 0 .. Len(r)
      BY <2>4
    <3>2. After(r, n) \in Seq(Byte) /\ Len(After(r, n)) = Len(r) - n
      <4> HIDE DEF n, r
      <4> QED BY <1>1, <3>1, AfterType
    <3>3. q = After(r, n)
      BY DEF After
    <3> HIDE DEF q, n, r
    <3> QED BY <2>4, <3>2, <3>3
  <2>6. CASE n < w /\ n = Len(r)
    <3>1. new = [x EXCEPT !.utf8 = r, !.rest = <<>>]
      BY <1>3, <2>6 DEF EscaperStep
    <3>2. new.capture = x.capture /\ new.utf8 = r /\ new.rest = <<>>
      BY <1>1, <3>1 DEF EscaperRec
    <3>3. new \in EscaperRec
      <4> DEFINE V == Seq(Byte)
      <4>1. x \in [capture : CaptureRec, utf8 : V, rest : V] /\ r \in V /\ <<>> \in V
        BY <1>1, EmptySeq DEF EscaperRec
      <4> HIDE DEF V, r, new
      <4>2. new \in [capture : CaptureRec, utf8 : V, rest : V]
        BY <3>1, <4>1
      <4> QED BY <4>2 DEF V, EscaperRec
    <3>4. r \o <<>> = r
      BY <1>1, ConcatEmptySeq
    <3>5. Cut(r)
      BY <2>6 DEF Cut
    <3> HIDE DEF new, r
    <3>6. Reads(new, C, B)
      BY <2>1, <2>3, <3>2, <3>3, <3>4, <3>5 DEF Reads
    <3> QED BY <3>2, <3>6 DEF new
  <2>7. CASE ~ (n < w /\ n = Len(r))
    <3>1. \E chars \in Seq(Character) :
            /\ new = [x EXCEPT !.capture = PushStr(@, chars), !.rest = q]
            /\ SameDecoding(r, chars, q)
      <4>1. CASE n < w \/ r[1] = "C"
        <5>1. new = [x EXCEPT !.capture = PushStr(@, Escaped(taken)), !.rest = q]
          <6>1. CASE n < w
            <7>1. n # Len(r)
              BY <2>7, <6>1
            <7> QED BY <1>3, <6>1, <7>1 DEF EscaperStep
          <6>2. CASE ~ (n < w)
            BY <1>3, <4>1, <6>2 DEF EscaperStep
          <6> QED BY <6>1, <6>2
        <5>2. Breaks(r)
          <6>1. (n < w /\ n < Len(r)) \/ (n = w /\ r[1] = "C")
            <7> HIDE DEF n, r
            <7>1. w \in 1 .. 3
              BY Widths
            <7> HIDE DEF w
            <7> QED BY <2>4, <2>7, <4>1, <7>1
          <6> QED BY <6>1 DEF Breaks
        <5>3. Escaped(taken) \in Seq(Character)
          <6>1. "x" \in Byte
            BY TextAssumption
          <6>2. taken \in Seq(Byte)
            <7>1. n \in 0 .. Len(r)
              BY <2>4
            <7> HIDE DEF n, r
            <7> QED BY <1>1, <7>1, FirstAndRest
          <6> HIDE DEF taken
          <6> QED BY <6>1, <6>2, EscapedAppend
        <5>4. SameDecoding(r, Escaped(taken), q)
          <6> SUFFICES ASSUME NEW z \in Seq(Byte)
                       PROVE  Decoded[r \o z] = Escaped(taken) \o Decoded[q \o z]
            BY DEF SameDecoding
          <6>1. Decoded[r \o z] = Escaped(SubSeq(r, 1, Continued(r) + 1))
                                    \o Decoded[After(r, Continued(r) + 1) \o z]
            <7> HIDE DEF r
            <7> QED BY <1>1, <1>3, <5>2, DecodedBreak
          <6> QED BY <2>5, <6>1
        <5> QED BY <5>1, <5>3, <5>4
      <4>2. CASE ~ (n < w \/ r[1] = "C")
        <5>1. new = [x EXCEPT !.capture = PushStr(@, <<taken>>), !.rest = q]
          BY <1>3, <4>2 DEF EscaperStep
        <5>2. n = w /\ r[1] # "C"
          <6>1. w \in 1 .. 3
            BY Widths
          <6> HIDE DEF n, w, r
          <6> QED BY <2>4, <4>2, <6>1
        <5>3. ASSUME NEW z \in Seq(Byte)
              PROVE  taken \in Character /\ Decoded[r \o z] = <<taken>> \o Decoded[q \o z]
          <6>1. SubSeq(r, 1, Continued(r) + 1) \in Character
                /\ Decoded[r \o z] = <<SubSeq(r, 1, Continued(r) + 1)>>
                                       \o Decoded[After(r, Continued(r) + 1) \o z]
            <7> HIDE DEF r
            <7> QED BY <1>1, <1>3, <5>2, DecodedTake
          <6> QED BY <2>5, <6>1
        <5>4. taken \in Character /\ SameDecoding(r, <<taken>>, q)
          BY <5>3, EmptySeq DEF SameDecoding
        <5>5. <<taken>> \in Seq(Character)
          <6> HIDE DEF taken
          <6> QED BY <5>4, BytesOne
        <5> QED BY <5>1, <5>4, <5>5
      <4> QED BY <4>1, <4>2
    <3>2. PICK chars \in Seq(Character) :
            /\ new = [x EXCEPT !.capture = PushStr(@, chars), !.rest = q]
            /\ SameDecoding(r, chars, q)
      BY <3>1
    <3> DEFINE cap == x.capture
               made == [capture |-> PushStr(cap, chars), utf8 |-> <<>>, rest |-> q]
    <3>3. new = made
      <4> DEFINE p == PushStr(cap, chars)
      <4>1. new = [x EXCEPT !.capture = p, !.rest = q] /\ x.utf8 = <<>>
        BY <2>2, <3>2
      <4> HIDE DEF p, q, new
      <4>2. new = [capture |-> p, utf8 |-> <<>>, rest |-> q]
        BY <1>1, <4>1 DEF EscaperRec
      <4> QED BY <4>2 DEF p
    <3>4. Captured(cap, C \o D)
      BY <2>1
    <3> HIDE DEF cap, q, r, new
    <3>5. Reads(made, C, B)
      BY <1>1, <2>3, <2>5, <3>2, <3>4, EscaperTakes
    <3>6. made.rest = q
      OBVIOUS
    <3> HIDE DEF made
    <3> QED BY <2>5, <3>3, <3>5, <3>6 DEF new, r
  <2> QED BY <2>6, <2>7
<1> QED BY <1>2, <1>3

(* The escaper has been given the bytes E: what it captured and what it    *)
(* keeps decode to what E does, however E goes on.                         *)
EscRec == [utf8 : Seq(Byte), capture : CaptureRec]
Escaping(esc, E) ==
  /\ esc \in EscRec /\ E \in Seq(Byte) /\ Cut(esc.utf8)
  /\ \E C \in Seq(Character) : Captured(esc.capture, C) /\ SameDecoding(E, C, esc.utf8)

(* push: the whole loop. *)
LEMMA EscaperLoop ==
  ASSUME NEW esc \in EscRec, NEW C \in Seq(Character), Captured(esc.capture, C),
         NEW bytes \in Seq(Byte)
  PROVE  \E x : /\ Reads(x, C, esc.utf8 \o bytes) /\ x.rest = <<>>
                /\ EscaperPush(esc, bytes) = [capture |-> x.capture, utf8 |-> x.utf8]
<1> HIDE DEF Character
<1> DEFINE B == esc.utf8 \o bytes
           n == Len(B)
           b == [capture |-> esc.capture, utf8 |-> <<>>, rest |-> B]
           S == {x \in EscaperRec : Reads(x, C, B)}
           F(h) == [k \in 0 .. n |-> IF k = 0 THEN b ELSE EscaperStep(h[k - 1])]
           g == [x \in S \X (1 .. n) |-> EscaperStep(x[1])]
           w == CHOOSE h : h = F(h)
<1>1. B \in Seq(Byte) /\ n \in Nat
  <2>1. esc.utf8 \in Seq(Byte)
    BY DEF EscRec
  <2> QED BY <2>1, ConcatProperties, LenProperties
<1>2. EscaperPush(esc, bytes) = [capture |-> w[n].capture, utf8 |-> w[n].utf8]
  BY DEF EscaperPush
<1> HIDE DEF B
<1>3. b \in S
  <2> DEFINE V == Seq(Byte)
  <2>1. esc.capture \in CaptureRec /\ <<>> \in V /\ B \in V
    BY <1>1, EmptySeq DEF EscRec
  <2>2. b \in EscaperRec
    <3> HIDE DEF V
    <3>1. b \in [capture : CaptureRec, utf8 : V, rest : V]
      BY <2>1
    <3> QED BY <3>1 DEF V, EscaperRec
  <2>3. b.capture = esc.capture /\ b.utf8 = <<>> /\ b.rest = B
    OBVIOUS
  <2>4. <<>> \in Seq(Character) /\ C \o <<>> = C
    BY EmptySeq, ConcatEmptySeq
  <2>5. <<>> \o B = B
    BY <1>1, ConcatEmptySeq
  <2>6. SameDecoding(B, <<>>, B)
    <3> SUFFICES ASSUME NEW z \in Seq(Byte) PROVE Decoded[B \o z] = <<>> \o Decoded[B \o z]
      BY DEF SameDecoding
    <3> DEFINE Bz == B \o z
    <3>1. Bz \in Seq(Byte)
      BY <1>1, ConcatProperties
    <3> HIDE DEF Bz
    <3>2. Decoded[Bz] \in Seq(Character)
      BY <3>1, DecodedType
    <3>3. <<>> \o Decoded[Bz] = Decoded[Bz]
      BY <3>2, ConcatEmptySeq
    <3> QED BY <3>3 DEF Bz
  <2> HIDE DEF b
  <2>7. Reads(b, C, B)
    BY <2>2, <2>3, <2>4, <2>5, <2>6 DEF Reads, Cut
  <2> QED BY <2>2, <2>7
<1>4. \A x \in S : EscaperStep(x) \in S
  <2> SUFFICES ASSUME NEW x \in S PROVE EscaperStep(x) \in S
    OBVIOUS
  <2>1. Reads(EscaperStep(x), C, B)
    BY <1>1, EscaperStepKeeps
  <2>2. EscaperStep(x) \in EscaperRec
    BY <2>1 DEF Reads
  <2> QED BY <2>1, <2>2
<1>5. g \in [S \X (1 .. n) -> S]
  <2> HIDE DEF S
  <2> QED BY <1>4
<1>6. PICK f : Loops(f, S, b, n, g)
  <2> HIDE DEF S, b, n, g
  <2> QED BY <1>1, <1>3, <1>5, LoopRuns, Zenon
<1>7. f = F(f)
  <2> HIDE DEF S, b
  <2>1. f \in [0 .. n -> S] /\ f[0] = b
    BY <1>6 DEF Loops
  <2>2. ASSUME NEW k \in 1 .. n PROVE f[k] = EscaperStep(f[k - 1])
    <3>1. f[k - 1] \in S /\ f[k] = g[<<f[k - 1], k>>]
      <4>1. k - 1 \in 0 .. n
        BY <1>1
      <4> HIDE DEF g, n
      <4> QED BY <1>6, <4>1 DEF Loops
    <3>2. g[<<f[k - 1], k>>] = EscaperStep(f[k - 1])
      BY <3>1
    <3> QED BY <3>1, <3>2
  <2>3. ASSUME NEW k \in 0 .. n PROVE f[k] = F(f)[k]
    <3> HIDE DEF n
    <3> QED BY <1>1, <2>1, <2>2
  <2> QED BY <2>1, <2>3
<1>8. w = F(w)
  BY <1>7
<1> HIDE DEF w, b
<1>9. w[0] = b /\ \A k \in 1 .. n : w[k] = EscaperStep(w[k - 1])
  BY <1>1, <1>8
<1> DEFINE T == {k \in 0 .. n : w[k] \in S /\ (w[k].rest = <<>> \/ Len(w[k].rest) <= n - k)}
<1>10. 0 \in T
  <2>1. w[0].rest = B
    BY <1>9 DEF b
  <2> HIDE DEF S
  <2> QED BY <1>1, <1>3, <1>9, <2>1
<1>11. ASSUME NEW k \in 1 .. n, k - 1 \in T PROVE k \in T
  <2> DEFINE x == w[k - 1]
             y == w[k]
  <2>1. x \in S /\ (x.rest = <<>> \/ Len(x.rest) <= n - (k - 1)) /\ y = EscaperStep(x)
    BY <1>9, <1>11
  <2>2. Reads(x, C, B)
    BY <2>1
  <2> HIDE DEF x
  <2>3. y.rest = <<>> \/ Len(y.rest) < Len(x.rest)
    BY <1>1, <2>1, <2>2, EscaperStepKeeps
  <2>4. y \in S
    <3> HIDE DEF S
    <3> QED BY <1>4, <2>1
  <2> HIDE DEF y, n
  <2>5. Len(y.rest) \in Nat /\ Len(x.rest) \in Nat
    <3>1. y.rest \in Seq(Byte) /\ x.rest \in Seq(Byte)
      BY <2>1, <2>4 DEF EscaperRec
    <3> QED BY <3>1, LenProperties
  <2>6. y.rest = <<>> \/ Len(y.rest) <= n - k
    <3>1. CASE x.rest = <<>>
      <4>1. Len(x.rest) = 0
        BY <3>1
      <4> QED BY <2>3, <2>5, <4>1
    <3>2. CASE x.rest # <<>>
      BY <1>1, <2>1, <2>3, <2>5, <3>2
    <3> QED BY <3>1, <3>2
  <2> HIDE DEF S
  <2> QED BY <2>4, <2>6 DEF y
<1>12. n \in T
  <2> HIDE DEF T, n
  <2>1. \A k \in 0 .. n : k \in T
    BY <1>1, <1>10, <1>11, UpTo
  <2> QED BY <1>1, <2>1
<1>13. Reads(w[n], C, B) /\ w[n].rest = <<>>
  <2> DEFINE y == w[n]
  <2>1. y \in S /\ (y.rest = <<>> \/ Len(y.rest) <= n - n)
    BY <1>12
  <2>2. y.rest \in Seq(Byte)
    BY <2>1 DEF EscaperRec
  <2>3. y.rest = <<>>
    <3> HIDE DEF y, n, S
    <3>1. y.rest = <<>> \/ Len(y.rest) <= 0
      BY <1>1, <2>1
    <3>2. y.rest # <<>> => Len(y.rest) \in Nat \ {0}
      BY <2>2, EmptySeq
    <3> QED BY <3>1, <3>2
  <2> QED BY <2>1, <2>3
<1> QED BY <1>2, <1>13 DEF B

(* push keeps the escaper one that has been given all the bytes. *)
LEMMA EscaperPushKeeps ==
  ASSUME NEW esc, NEW E, Escaping(esc, E), NEW bytes \in Seq(Byte)
  PROVE  Escaping(EscaperPush(esc, bytes), E \o bytes)
<1> HIDE DEF Character
<1> DEFINE u == esc.utf8
           B == u \o bytes
           Eb == E \o bytes
           new == EscaperPush(esc, bytes)
<1>1. esc \in EscRec /\ E \in Seq(Byte) /\ u \in Seq(Byte)
  BY DEF Escaping, EscRec
<1>2. PICK C \in Seq(Character) : Captured(esc.capture, C) /\ SameDecoding(E, C, u)
  BY DEF Escaping
<1>3. PICK x : /\ Reads(x, C, B) /\ x.rest = <<>>
               /\ new = [capture |-> x.capture, utf8 |-> x.utf8]
  BY <1>1, <1>2, EscaperLoop
<1> HIDE DEF new
<1>4. x \in EscaperRec /\ Cut(x.utf8) /\ x.capture \in CaptureRec /\ x.utf8 \in Seq(Byte)
  BY <1>3 DEF Reads, EscaperRec
<1>5. PICK D \in Seq(Character) :
        Captured(x.capture, C \o D) /\ SameDecoding(B, D, x.utf8 \o x.rest)
  BY <1>3 DEF Reads
<1>6. SameDecoding(B, D, x.utf8)
  <2>1. x.utf8 \o <<>> = x.utf8
    BY <1>4, ConcatEmptySeq
  <2> QED BY <1>3, <1>5, <2>1
<1>7. B \in Seq(Byte) /\ Eb \in Seq(Byte)
  BY <1>1, ConcatProperties
<1>8. SameDecoding(Eb, C, B)
  <2> SUFFICES ASSUME NEW z \in Seq(Byte) PROVE Decoded[Eb \o z] = C \o Decoded[B \o z]
    BY DEF SameDecoding
  <2> DEFINE y == bytes \o z
  <2>1. y \in Seq(Byte)
    BY ConcatProperties
  <2>2. Eb \o z = E \o y /\ B \o z = u \o y
    <3> HIDE DEF u
    <3>1. (E \o bytes) \o z = E \o (bytes \o z)
      BY <1>1
    <3>2. (u \o bytes) \o z = u \o (bytes \o z)
      BY <1>1
    <3> QED BY <3>1, <3>2
  <2> HIDE DEF y
  <2>3. Decoded[E \o y] = C \o Decoded[u \o y]
    BY <1>2, <2>1 DEF SameDecoding
  <2> HIDE DEF Eb, B
  <2> QED BY <2>2, <2>3
<1> DEFINE CD == C \o D
           v == x.utf8
<1>9. SameDecoding(Eb, CD, v)
  <2> HIDE DEF Eb, B, v
  <2>1. v \in Seq(Byte) /\ SameDecoding(B, D, v)
    BY <1>4, <1>6 DEF v
  <2> QED BY <1>7, <1>8, <2>1, DecodesMore
<1>10. CD \in Seq(Character)
  BY CharactersConcat
<1>11. new \in EscRec /\ new.capture = x.capture /\ new.utf8 = v
  <2> DEFINE V == Seq(Byte)
             c == x.capture
  <2>1. c \in CaptureRec /\ v \in V /\ new = [capture |-> c, utf8 |-> v]
    BY <1>3, <1>4
  <2> HIDE DEF V, c, v
  <2>2. new \in [utf8 : V, capture : CaptureRec] /\ new.capture = c /\ new.utf8 = v
    BY <2>1
  <2> QED BY <2>2 DEF V, c, EscRec
<1>12. Captured(new.capture, CD) /\ Cut(new.utf8)
  BY <1>4, <1>5, <1>11
<1> HIDE DEF CD, Eb, v
<1>13. Escaping(new, Eb)
  BY <1>7, <1>9, <1>10, <1>11, <1>12 DEF Escaping
<1> QED BY <1>13 DEF new, Eb

(* finish: all that was given, decoded, is captured. *)
LEMMA EscaperFinishKeeps ==
  ASSUME NEW esc, NEW E, Escaping(esc, E)
  PROVE  Captured(EscaperFinish(esc), Decoded[E])
<1> HIDE DEF Character
<1> DEFINE u == esc.utf8
           d == Escaped(u)
<1>1. E \in Seq(Byte) /\ u \in Seq(Byte) /\ Cut(u)
  BY DEF Escaping, EscRec
<1>2. PICK C \in Seq(Character) : Captured(esc.capture, C) /\ SameDecoding(E, C, u)
  BY DEF Escaping
<1> HIDE DEF u
<1>3. Decoded[u] = d /\ d \in Seq(Character)
  BY <1>1, DecodedCut
<1>4. Decoded[E] = C \o d
  <2>1. <<>> \in Seq(Byte) /\ E \o <<>> = E /\ u \o <<>> = u
    BY <1>1, EmptySeq, ConcatEmptySeq
  <2>2. Decoded[E \o <<>>] = C \o Decoded[u \o <<>>]
    BY <1>2, <2>1 DEF SameDecoding
  <2> QED BY <1>3, <2>1, <2>2
<1>5. EscaperFinish(esc) = PushStr(esc.capture, d)
  BY DEF EscaperFinish, u
<1> HIDE DEF d
<1>6. Captured(PushStr(esc.capture, d), C \o d)
  BY <1>2, <1>3, PushStrKeeps
<1> QED BY <1>4, <1>5, <1>6

-----------------------------------------------------------------------------
(* Redaction of the whole text.                                            *)

(* Finitely many patterns, none of them empty. *)
PatternSet(P) == IsFiniteSet(P) /\ P \subseteq Seq(Byte) \ {<<>>}

(* Finitely many patterns have finitely many lengths. *)
LEMMA FiniteLengths ==
  ASSUME NEW Q, IsFiniteSet(Q)
  PROVE  IsFiniteSet({Len(p) : p \in Q})
<1> DEFINE L == {Len(p) : p \in Q}
           f == [p \in Q |-> Len(p)]
<1>1. f \in Surjection(Q, L)
  BY DEF Surjection
<1> HIDE DEF f, L
<1>2. IsFiniteSet(L)
  BY <1>1, FS_Surjection
<1> QED BY <1>2 DEF L

(* The longest of some patterns. *)
LEMMA Longest ==
  ASSUME NEW P, PatternSet(P), NEW Q \in SUBSET P, Q # {}
  PROVE  /\ Max({Len(p) : p \in Q}) \in Nat \ {0}
         /\ \E p \in Q : Len(p) = Max({Len(q) : q \in Q})
         /\ \A p \in Q : Len(p) <= Max({Len(q) : q \in Q})
<1> DEFINE L == {Len(p) : p \in Q}
<1>1. \A p \in Q : Len(p) \in Nat \ {0}
  BY EmptySeq DEF PatternSet
<1>2. IsFiniteSet(L)
  <2>1. IsFiniteSet(Q)
    BY FS_Subset DEF PatternSet
  <2> QED BY <2>1, FiniteLengths
<1>3. L \in SUBSET Nat /\ L # {}
  BY <1>1
<1>4. PICK n \in Nat : \A y \in L : y <= n
  <2> HIDE DEF L
  <2> QED BY <1>2, <1>3, FiniteBound
<1>5. Max(L) \in L /\ \A y \in L : y <= Max(L)
  <2> HIDE DEF L
  <2> QED BY <1>3, <1>4, MaxIs
<1>6. PICK p \in Q : Len(p) = Max(L)
  BY <1>5
<1> QED BY <1>1, <1>5, <1>6

(* What the buffer keeps back for is at least every pattern's length. *)
LEMMA MaximumPatternIs ==
  ASSUME NEW P, PatternSet(P)
  PROVE  MaximumPattern(P) \in Nat \ {0} /\ \A p \in P : Len(p) <= MaximumPattern(P)
<1> DEFINE L == {Len(p) : p \in P} \cup {1}
<1>1. \A p \in P : Len(p) \in Nat \ {0}
  BY EmptySeq DEF PatternSet
<1>2. L \in SUBSET Nat /\ L # {}
  BY <1>1
<1>3. IsFiniteSet(L)
  <2>1. IsFiniteSet(P)
    BY DEF PatternSet
  <2>2. IsFiniteSet({Len(p) : p \in P})
    BY <2>1, FiniteLengths
  <2>3. IsFiniteSet({1})
    BY FS_Singleton
  <2> QED BY <2>2, <2>3, FS_Union
<1>4. PICK n \in Nat : \A y \in L : y <= n
  <2> HIDE DEF L
  <2> QED BY <1>2, <1>3, FiniteBound
<1>5. Max(L) \in L /\ \A y \in L : y <= Max(L)
  <2> HIDE DEF L
  <2> QED BY <1>2, <1>4, MaxIs
<1>6. Max(L) \in Nat \ {0}
  <2>1. Max(L) \in Nat /\ 1 <= Max(L)
    BY <1>2, <1>5
  <2> QED BY <2>1
<1>7. MaximumPattern(P) = Max(L)
  BY DEF MaximumPattern
<1> QED BY <1>5, <1>6, <1>7

(* The patterns that s begins with, and how much of s is taken. *)
Fits(P, s) == {p \in P : IsPrefix(p, s)}
Taken(P, s) == IF Fits(P, s) = {} THEN 1 ELSE Max({Len(p) : p \in Fits(P, s)})

(* One step of Redacted, with f for what follows. *)
RedactStep(f, P, mk, s) ==
  LET rest == f[SubSeq(s, Taken(P, s) + 1, Len(s))]
  IN  IF s = <<>> THEN [bytes |-> <<>>, count |-> 0]
      ELSE IF Fits(P, s) = {}
      THEN [bytes |-> <<s[1]>> \o rest.bytes, count |-> rest.count]
      ELSE [bytes |-> mk \o rest.bytes, count |-> rest.count + 1]
OutRec == [bytes : Seq(Byte), count : Nat]

(* What is left is shorter. *)
LEMMA TakenIs ==
  ASSUME NEW P, PatternSet(P), NEW s \in Seq(Byte), s # <<>>
  PROVE  /\ Len(s) \in Nat \ {0} /\ s[1] \in Byte /\ Taken(P, s) \in 1 .. Len(s)
         /\ SubSeq(s, Taken(P, s) + 1, Len(s)) = After(s, Taken(P, s))
         /\ After(s, Taken(P, s)) \in Seq(Byte) /\ Len(After(s, Taken(P, s))) < Len(s)
<1> DEFINE n == Taken(P, s)
<1>1. Len(s) \in Nat \ {0}
  BY EmptySeq
<1>2. s[1] \in Byte
  BY <1>1, ElementOfSeq
<1>3. n \in 1 .. Len(s)
  <2>1. CASE Fits(P, s) = {}
    BY <1>1, <2>1 DEF Taken
  <2>2. CASE Fits(P, s) # {}
    <3> DEFINE Q == Fits(P, s)
    <3>1. Q \in SUBSET P /\ \A p \in Q : Len(p) <= Len(s)
      BY DEF Fits, IsPrefix
    <3>2. n = Max({Len(p) : p \in Q})
      BY <2>2 DEF Taken
    <3> HIDE DEF Q, n
    <3>3. n \in Nat \ {0} /\ \E p \in Q : Len(p) = n
      BY <2>2, <3>1, <3>2, Longest DEF Q
    <3> QED BY <1>1, <3>1, <3>3
  <2> QED BY <2>1, <2>2
<1> HIDE DEF n
<1>4. n \in 0 .. Len(s)
  BY <1>3
<1>5. After(s, n) \in Seq(Byte) /\ Len(After(s, n)) = Len(s) - n
  BY <1>4, AfterType
<1>6. Len(After(s, n)) < Len(s)
  BY <1>1, <1>3, <1>5
<1> QED BY <1>1, <1>2, <1>3, <1>5, <1>6 DEF n, After

(* A step gives bytes and a number when what follows does. *)
LEMMA RedactStepType ==
  ASSUME NEW P, PatternSet(P), NEW mk \in Seq(Byte), NEW f, NEW s \in Seq(Byte),
         \A t \in Seq(Byte) : Len(t) < Len(s) => f[t] \in OutRec
  PROVE  RedactStep(f, P, mk, s) \in OutRec
<1>1. CASE s = <<>>
  <2>1. <<>> \in Seq(Byte)
    BY EmptySeq
  <2>2. RedactStep(f, P, mk, s) = [bytes |-> <<>>, count |-> 0]
    BY <1>1 DEF RedactStep
  <2> QED BY <2>1, <2>2 DEF OutRec
<1>2. CASE s # <<>>
  <2> DEFINE a == SubSeq(s, Taken(P, s) + 1, Len(s))
             r == f[a]
             e == <<s[1]>>
  <2>1. a \in Seq(Byte) /\ Len(a) < Len(s) /\ s[1] \in Byte
    BY <1>2, TakenIs
  <2>2. r \in OutRec
    <3> HIDE DEF a
    <3> QED BY <2>1
  <2>3. \/ RedactStep(f, P, mk, s) = [bytes |-> e \o r.bytes, count |-> r.count]
        \/ RedactStep(f, P, mk, s) = [bytes |-> mk \o r.bytes, count |-> r.count + 1]
    BY <1>2 DEF RedactStep
  <2>4. e \in Seq(Byte)
    BY <2>1
  <2> HIDE DEF r, e
  <2>5. r.bytes \in Seq(Byte) /\ r.count \in Nat
    BY <2>2 DEF OutRec
  <2> DEFINE b == e \o r.bytes
             c == mk \o r.bytes
             V == Seq(Byte)
  <2>6. b \in V /\ c \in V
    BY <2>4, <2>5, ConcatProperties
  <2>7. \/ RedactStep(f, P, mk, s) = [bytes |-> b, count |-> r.count]
        \/ RedactStep(f, P, mk, s) = [bytes |-> c, count |-> r.count + 1]
    BY <2>3
  <2> HIDE DEF b, c, V
  <2>8. RedactStep(f, P, mk, s) \in [bytes : V, count : Nat]
    BY <2>5, <2>6, <2>7
  <2> QED BY <2>8 DEF V, OutRec
<1> QED BY <1>1, <1>2

(* What Redacted is. *)
LEMMA RedactedRecursion ==
  ASSUME NEW P, PatternSet(P), NEW mk \in Seq(Byte)
  PROVE  \A s \in Seq(Byte) :
           Redacted(P, mk)[s] = RedactStep(Redacted(P, mk), P, mk, s)
<1> DEFINE D == Seq(Byte)
           V == OutRec
           G == [f \in [D -> V] |-> [s \in D |-> RedactStep(f, P, mk, s)]]
<1>1. G \in [[D -> V] -> [D -> V]]
  <2> SUFFICES ASSUME NEW f \in [D -> V], NEW s \in D PROVE RedactStep(f, P, mk, s) \in V
    OBVIOUS
  <2>1. \A t \in Seq(Byte) : Len(t) < Len(s) => f[t] \in OutRec
    OBVIOUS
  <2> QED BY <2>1, RedactStepType
<1>2. Descends(G, Byte, V)
  <2> SUFFICES ASSUME NEW f \in [D -> V], NEW h \in [D -> V], NEW s \in D,
                      \A t \in D : Len(t) < Len(s) => f[t] = h[t]
               PROVE  G[f][s] = G[h][s]
    BY DEF Descends
  <2>1. G[f][s] = RedactStep(f, P, mk, s) /\ G[h][s] = RedactStep(h, P, mk, s)
    OBVIOUS
  <2> HIDE DEF G, V
  <2>2. CASE s = <<>>
    BY <2>1, <2>2 DEF RedactStep
  <2>3. CASE s # <<>>
    <3> DEFINE a == SubSeq(s, Taken(P, s) + 1, Len(s))
    <3>1. a \in D /\ Len(a) < Len(s)
      BY <2>3, TakenIs
    <3>2. f[a] = h[a]
      <4> HIDE DEF a
      <4> QED BY <3>1
    <3> QED BY <2>1, <2>3, <3>2 DEF RedactStep
  <2> QED BY <2>2, <2>3
<1>3. Solved(G, Byte, V)
  <2>1. [bytes |-> <<>>, count |-> 0] \in V
    BY EmptySeq DEF OutRec
  <2> HIDE DEF G, V
  <2> QED BY <1>1, <1>2, <2>1, SeqRecursion
<1>4. PICK f \in [D -> V] : f = G[f]
  <2> HIDE DEF G, V
  <2> QED BY <1>3 DEF Solved
<1>5. f = [s \in D |-> RedactStep(f, P, mk, s)]
  <2>1. G[f] = [s \in D |-> RedactStep(f, P, mk, s)]
    OBVIOUS
  <2> HIDE DEF G
  <2> QED BY <1>4, <2>1
<1>6. Redacted(P, mk) = CHOOSE h : h = [s \in D |-> RedactStep(h, P, mk, s)]
  BY DEF Redacted, RedactStep, Fits, Taken
<1>7. Redacted(P, mk) = [s \in D |-> RedactStep(Redacted(P, mk), P, mk, s)]
  BY <1>5, <1>6
<1> QED BY <1>7

(* Redacted gives bytes and a number. *)
LEMMA RedactedType ==
  ASSUME NEW P, PatternSet(P), NEW mk \in Seq(Byte), NEW s \in Seq(Byte)
  PROVE  Redacted(P, mk)[s] \in OutRec
<1> DEFINE R == Redacted(P, mk)
           U == {k \in Nat : \E t \in Seq(Byte) : Len(t) = k /\ R[t] \notin OutRec}
<1>1. \A t \in Seq(Byte) : R[t] = RedactStep(R, P, mk, t)
  BY RedactedRecursion
<1> HIDE DEF R
<1> SUFFICES ASSUME R[s] \notin OutRec PROVE FALSE
  BY DEF R
<1>2. U # {} /\ U \in SUBSET Nat
  BY LenProperties
<1>3. PICK k \in U : \A j \in U : k <= j
  <2> HIDE DEF U
  <2> QED BY <1>2, LeastNumber
<1>4. PICK t \in Seq(Byte) : Len(t) = k /\ R[t] \notin OutRec
  BY <1>3
<1>5. ASSUME NEW q \in Seq(Byte), Len(q) < Len(t) PROVE R[q] \in OutRec
  <2>1. Len(q) \in Nat /\ k \in Nat /\ ~ (k <= Len(q))
    BY <1>3, <1>4, <1>5, LenProperties
  <2>2. Len(q) \notin U
    BY <1>3, <2>1
  <2> QED BY <2>1, <2>2
<1>6. RedactStep(R, P, mk, t) \in OutRec
  BY <1>5, RedactStepType
<1> QED BY <1>1, <1>4, <1>6

(* A byte that begins no pattern is kept. *)
LEMMA RedactedCopy ==
  ASSUME NEW P, PatternSet(P), NEW mk \in Seq(Byte), NEW s \in Seq(Byte), s # <<>>,
         Fits(P, s) = {}
  PROVE  /\ Redacted(P, mk)[s].bytes = <<s[1]>> \o Redacted(P, mk)[After(s, 1)].bytes
         /\ Redacted(P, mk)[s].count = Redacted(P, mk)[After(s, 1)].count
<1> DEFINE R == Redacted(P, mk)
           r == R[After(s, 1)]
<1>1. R[s] = RedactStep(R, P, mk, s)
  BY RedactedRecursion
<1>2. Taken(P, s) = 1
  BY DEF Taken
<1>3. SubSeq(s, Taken(P, s) + 1, Len(s)) = After(s, 1)
  BY <1>2 DEF After
<1> HIDE DEF R
<1>4. RedactStep(R, P, mk, s) = [bytes |-> <<s[1]>> \o r.bytes, count |-> r.count]
  BY <1>3 DEF RedactStep
<1>5. R[s].bytes = <<s[1]>> \o r.bytes /\ R[s].count = r.count
  BY <1>1, <1>4
<1> QED BY <1>5 DEF R

(* The longest pattern that begins the text is replaced. *)
LEMMA RedactedMatch ==
  ASSUME NEW P, PatternSet(P), NEW mk \in Seq(Byte), NEW s \in Seq(Byte), s # <<>>,
         Fits(P, s) # {}
  PROVE  /\ Redacted(P, mk)[s].bytes = mk \o Redacted(P, mk)[After(s, Taken(P, s))].bytes
         /\ Redacted(P, mk)[s].count = Redacted(P, mk)[After(s, Taken(P, s))].count + 1
<1> DEFINE R == Redacted(P, mk)
           r == R[After(s, Taken(P, s))]
<1>1. R[s] = RedactStep(R, P, mk, s)
  BY RedactedRecursion
<1>2. SubSeq(s, Taken(P, s) + 1, Len(s)) = After(s, Taken(P, s))
  BY DEF After
<1> HIDE DEF R
<1>3. RedactStep(R, P, mk, s) = [bytes |-> mk \o r.bytes, count |-> r.count + 1]
  BY <1>2 DEF RedactStep
<1>4. R[s].bytes = mk \o r.bytes /\ R[s].count = r.count + 1
  BY <1>1, <1>3
<1> QED BY <1>4 DEF R

(* However B goes on in Z, it redacts to E, with k patterns, and what r    *)
(* redacts to.                                                             *)
SameRedaction(P, mk, Z, B, E, k, r) ==
  \A z \in Z : /\ Redacted(P, mk)[B \o z].bytes = E \o Redacted(P, mk)[r \o z].bytes
               /\ Redacted(P, mk)[B \o z].count = k + Redacted(P, mk)[r \o z].count

(* Nothing was redacted yet. *)
LEMMA RedactsNothing ==
  ASSUME NEW P, PatternSet(P), NEW mk \in Seq(Byte), NEW Z \in SUBSET Seq(Byte),
         NEW B \in Seq(Byte)
  PROVE  SameRedaction(P, mk, Z, B, <<>>, 0, B)
<1> DEFINE R == Redacted(P, mk)
<1> SUFFICES ASSUME NEW z \in Z
             PROVE  R[B \o z].bytes = <<>> \o R[B \o z].bytes /\ R[B \o z].count = 0 + R[B \o z].count
  BY DEF SameRedaction
<1> DEFINE Bz == B \o z
<1>1. Bz \in Seq(Byte)
  BY ConcatProperties
<1> HIDE DEF Bz
<1>2. R[Bz] \in OutRec
  BY <1>1, RedactedType
<1> HIDE DEF R
<1>3. R[Bz].bytes \in Seq(Byte) /\ R[Bz].count \in Nat
  BY <1>2 DEF OutRec
<1>4. <<>> \o R[Bz].bytes = R[Bz].bytes
  BY <1>3, ConcatEmptySeq
<1> QED BY <1>3, <1>4 DEF Bz

(* More was redacted. *)
LEMMA RedactsMore ==
  ASSUME NEW P, PatternSet(P), NEW mk \in Seq(Byte), NEW Z \in SUBSET Seq(Byte),
         NEW B \in Seq(Byte), NEW E \in Seq(Byte), NEW k \in Nat, NEW r \in Seq(Byte),
         SameRedaction(P, mk, Z, B, E, k, r),
         NEW e \in Seq(Byte), NEW j \in Nat, NEW q \in Seq(Byte),
         SameRedaction(P, mk, Z, r, e, j, q)
  PROVE  SameRedaction(P, mk, Z, B, E \o e, k + j, q)
<1> DEFINE R == Redacted(P, mk)
<1> SUFFICES ASSUME NEW z \in Z
             PROVE  /\ R[B \o z].bytes = (E \o e) \o R[q \o z].bytes
                    /\ R[B \o z].count = (k + j) + R[q \o z].count
  BY DEF SameRedaction
<1> DEFINE y == R[q \o z]
           yb == y.bytes
           yc == y.count
<1>1. yb \in Seq(Byte) /\ yc \in Nat
  <2> DEFINE qz == q \o z
  <2>1. qz \in Seq(Byte)
    BY ConcatProperties
  <2> HIDE DEF qz
  <2>2. R[qz] \in OutRec
    BY <2>1, RedactedType
  <2> HIDE DEF R
  <2>3. R[qz].bytes \in Seq(Byte) /\ R[qz].count \in Nat
    BY <2>2 DEF OutRec
  <2> QED BY <2>3 DEF qz
<1>2. R[B \o z].bytes = E \o (e \o yb) /\ R[B \o z].count = k + (j + yc)
  BY DEF SameRedaction
<1> HIDE DEF y, yb, yc
<1>3. E \o (e \o yb) = (E \o e) \o yb
  BY <1>1, SMTT(30)
<1>4. k + (j + yc) = (k + j) + yc
  BY <1>1
<1> QED BY <1>2, <1>3, <1>4 DEF y, yb, yc

(* A pattern begins the rest of the buffer where it occurs in the buffer,  *)
(* as long as it ends there or nothing follows.                            *)
LEMMA PrefixOccurs ==
  ASSUME NEW B \in Seq(Byte), NEW i \in 1 .. Len(B), NEW z \in Seq(Byte),
         NEW p \in Seq(Byte), p # <<>>, i - 1 + Len(p) <= Len(B) \/ z = <<>>
  PROVE  IsPrefix(p, After(B, i - 1) \o z) <=> Occurs(p, B, i)
<1> DEFINE m == Len(p)
           a == After(B, i - 1)
           s == a \o z
<1>1. m \in Nat \ {0} /\ Len(B) \in Nat /\ i - 1 \in 0 .. Len(B) /\ Len(z) \in Nat
  BY EmptySeq, LenProperties
<1>2. a \in Seq(Byte) /\ Len(a) = Len(B) - (i - 1)
  BY <1>1, AfterType
<1>3. s \in Seq(Byte) /\ Len(s) = Len(a) + Len(z)
  <2> HIDE DEF a
  <2> QED BY <1>2, ConcatProperties
<1>4. SubSeq(p, 1, m) = p
  BY SubSeqFull
<1>5. CASE i + m - 1 <= Len(B)
  <2>1. SubSeq(s, 1, m) = SubSeq(a, 1, m)
    <3>1. 1 \in 1 .. Len(a) /\ m \in 1 .. Len(a)
      BY <1>1, <1>2, <1>5
    <3> HIDE DEF a, m
    <3> QED BY <1>2, <3>1, SubSeqOfConcat1
  <2>2. SubSeq(a, 1, m) = SubSeq(B, i, i + m - 1)
    <3> DEFINE n == Len(B)
    <3>1. n \in 1 .. Len(B) /\ 1 \in 1 .. n - i + 1 /\ m \in 1 .. n - i + 1
      BY <1>1, <1>5
    <3>2. a = SubSeq(B, i, n)
      <4>1. i - 1 + 1 = i
        OBVIOUS
      <4> QED BY <4>1 DEF After
    <3> HIDE DEF m, n, a
    <3>3. SubSeq(SubSeq(B, i, n), 1, m) = SubSeq(B, i + 1 - 1, i + m - 1)
      BY <3>1, SubSeqOfSubSeq
    <3>4. i + 1 - 1 = i
      OBVIOUS
    <3> QED BY <3>2, <3>3, <3>4
  <2>3. m <= Len(s)
    <3> HIDE DEF a, s, m
    <3> QED BY <1>1, <1>2, <1>3, <1>5
  <2>4. IsPrefix(p, s) <=> p = SubSeq(B, i, i + m - 1)
    <3> HIDE DEF s, a
    <3> QED BY <1>4, <2>1, <2>2, <2>3 DEF IsPrefix
  <2>5. Occurs(p, B, i) <=> p = SubSeq(B, i, i + m - 1)
    BY <1>5 DEF Occurs
  <2> QED BY <2>4, <2>5
<1>6. CASE ~ (i + m - 1 <= Len(B))
  <2>1. ~ Occurs(p, B, i)
    BY <1>6 DEF Occurs
  <2>2. z = <<>>
    <3>1. i - 1 + Len(p) = i + m - 1
      BY <1>1
    <3> QED BY <1>6, <3>1
  <2>3. ~ (m <= Len(s))
    <3>1. Len(z) = 0
      BY <2>2
    <3> HIDE DEF a, s, m
    <3> QED BY <1>1, <1>2, <1>3, <1>6, <3>1
  <2>4. ~ IsPrefix(p, s)
    BY <2>3 DEF IsPrefix
  <2> QED BY <2>1, <2>4
<1> QED BY <1>5, <1>6

(* Up to e it is certain which patterns occur in the buffer B, whatever of *)
(* Z follows.                                                              *)
Safe(P, Z, B, e) ==
  /\ PatternSet(P) /\ Z \in SUBSET Seq(Byte) /\ B \in Seq(Byte) /\ e \in 0 .. Len(B)
  /\ Z = {<<>>} \/ e = 0 \/ \A p \in P : e - 1 + Len(p) <= Len(B)
Found(P, B, i) == {p \in P : Occurs(p, B, i)}

(* What begins the rest is what is found. *)
LEMMA FitsAreFound ==
  ASSUME NEW P, NEW Z, NEW B, NEW e, Safe(P, Z, B, e), NEW i \in 1 .. e, NEW z \in Z
  PROVE  Fits(P, After(B, i - 1) \o z) = Found(P, B, i)
<1>1. B \in Seq(Byte) /\ e \in 0 .. Len(B) /\ Len(B) \in Nat /\ z \in Seq(Byte)
  BY LenProperties DEF Safe
<1>2. i \in 1 .. Len(B)
  BY <1>1
<1>3. ASSUME NEW p \in P PROVE IsPrefix(p, After(B, i - 1) \o z) <=> Occurs(p, B, i)
  <2>1. p \in Seq(Byte) /\ p # <<>> /\ Len(p) \in Nat
    BY LenProperties DEF Safe, PatternSet
  <2>2. i - 1 + Len(p) <= Len(B) \/ z = <<>>
    <3>1. CASE Z = {<<>>}
      BY <3>1
    <3>2. CASE \A q \in P : e - 1 + Len(q) <= Len(B)
      <4>1. e - 1 + Len(p) <= Len(B)
        BY <3>2
      <4> QED BY <1>1, <2>1, <4>1
    <3>3. e # 0
      BY <1>1
    <3> QED BY <3>1, <3>2, <3>3 DEF Safe
  <2> QED BY <1>1, <1>2, <2>1, <2>2, PrefixOccurs
<1> QED BY <1>3 DEF Fits, Found

(* The rest of the buffer and what follows it. *)
LEMMA RestOfBuffer ==
  ASSUME NEW B \in Seq(Byte), NEW k \in 0 .. Len(B), NEW z \in Seq(Byte),
         NEW n \in 1 .. Len(B) - k
  PROVE  /\ After(B, k) \o z \in Seq(Byte) /\ After(B, k) \o z # <<>>
         /\ After(After(B, k) \o z, n) = After(B, k + n) \o z
<1> DEFINE a == After(B, k)
           s == a \o z
<1>1. Len(B) \in Nat /\ n \in 0 .. Len(B) - k /\ Len(z) \in Nat
  BY LenProperties
<1>2. a \in Seq(Byte) /\ Len(a) = Len(B) - k
  BY <1>1, AfterType
<1>3. After(a, n) = After(B, k + n)
  BY <1>1, AfterAfter
<1> HIDE DEF a
<1>4. /\ s \in Seq(Byte) /\ Len(s) = Len(a) + Len(z)
      /\ \A i \in 1 .. Len(a) + Len(z) : s[i] = IF i <= Len(a) THEN a[i] ELSE z[i - Len(a)]
  BY <1>2, ConcatProperties
<1>5. After(s, n) = After(a, n) \o z
  <2>1. n \in 0 .. Len(a)
    BY <1>1, <1>2
  <2> QED BY <1>2, <2>1, AfterConcat
<1> HIDE DEF s
<1>6. s # <<>>
  <2>1. Len(s) # 0
    BY <1>1, <1>2, <1>4
  <2>2. Len(<<>>) = 0
    OBVIOUS
  <2> QED BY <2>1, <2>2
<1> QED BY <1>3, <1>4, <1>5, <1>6 DEF a, s

(* One byte where no pattern is found is kept. *)
LEMMA CopyOne ==
  ASSUME NEW P, NEW Z, NEW B, NEW e, Safe(P, Z, B, e), NEW mk \in Seq(Byte),
         NEW c \in 0 .. e - 1, Found(P, B, c + 1) = {}
  PROVE  SameRedaction(P, mk, Z, After(B, c), <<B[c + 1]>>, 0, After(B, c + 1))
<1> DEFINE R == Redacted(P, mk)
<1>1. /\ B \in Seq(Byte) /\ e \in 0 .. Len(B) /\ Len(B) \in Nat /\ PatternSet(P)
      /\ Z \in SUBSET Seq(Byte)
  BY LenProperties DEF Safe
<1> SUFFICES ASSUME NEW z \in Z
             PROVE  /\ R[After(B, c) \o z].bytes = <<B[c + 1]>> \o R[After(B, c + 1) \o z].bytes
                    /\ R[After(B, c) \o z].count = 0 + R[After(B, c + 1) \o z].count
  BY DEF SameRedaction
<1> DEFINE s == After(B, c) \o z
           t == After(B, c + 1) \o z
<1>2. c \in 0 .. Len(B) /\ 1 \in 1 .. Len(B) - c /\ z \in Seq(Byte) /\ c + 1 \in 1 .. e
      /\ (c + 1) - 1 = c /\ c + 1 \in 0 .. Len(B)
  BY <1>1
<1>3. s \in Seq(Byte) /\ s # <<>> /\ s[1] = B[c + 1] /\ After(s, 1) = t
  <2> DEFINE m == 1
  <2>1. m \in 1 .. Len(B) - c
    BY <1>2
  <2> HIDE DEF m
  <2>2. s \in Seq(Byte) /\ s # <<>> /\ After(s, m) = After(B, c + m) \o z
    <3>1. B \in Seq(Byte) /\ c \in 0 .. Len(B) /\ z \in Seq(Byte)
      BY <1>1, <1>2
    <3>2. /\ After(B, c) \o z \in Seq(Byte) /\ After(B, c) \o z # <<>>
          /\ After(After(B, c) \o z, m) = After(B, c + m) \o z
      BY <2>1, <3>1, RestOfBuffer, ZenonT(30)
    <3> QED BY <3>2
  <2>3. s[1] = B[c + 1]
    <3> DEFINE a == After(B, c)
    <3>1. a \in Seq(Byte) /\ Len(a) = Len(B) - c /\ \A i \in 1 .. Len(B) - c : a[i] = B[c + i]
      BY <1>1, <1>2, AfterType
    <3>2. a[1] = B[c + 1] /\ 1 \in 1 .. Len(a)
      BY <1>2, <3>1
    <3> HIDE DEF a
    <3>3. \A i \in 1 .. Len(a) + Len(z) : (a \o z)[i] = IF i <= Len(a) THEN a[i] ELSE z[i - Len(a)]
      BY <1>2, <3>1, ConcatProperties
    <3>4. Len(z) \in Nat /\ Len(a) \in Nat
      BY <1>2, <3>1, LenProperties
    <3>5. (a \o z)[1] = a[1]
      BY <3>2, <3>3, <3>4
    <3> QED BY <3>2, <3>5 DEF a
  <2> QED BY <2>2, <2>3 DEF m
<1>4. Fits(P, s) = {}
  <2>1. Fits(P, After(B, (c + 1) - 1) \o z) = Found(P, B, c + 1)
    BY <1>2, FitsAreFound
  <2> QED BY <1>2, <2>1
<1>5. t \in Seq(Byte)
  <2>1. After(B, c + 1) \in Seq(Byte)
    BY <1>1, <1>2, AfterType
  <2> QED BY <1>2, <2>1, ConcatProperties
<1> HIDE DEF s, t
<1>6. R[s].bytes = <<s[1]>> \o R[After(s, 1)].bytes /\ R[s].count = R[After(s, 1)].count
  BY <1>1, <1>3, <1>4, RedactedCopy, ZenonT(30)
<1>7. R[t].count \in Nat
  <2>1. R[t] \in OutRec
    BY <1>1, <1>5, RedactedType
  <2> HIDE DEF R
  <2> QED BY <2>1 DEF OutRec
<1> HIDE DEF R
<1>8. R[s].bytes = <<B[c + 1]>> \o R[t].bytes /\ R[s].count = R[t].count
  BY <1>3, <1>6
<1>9. R[t].count = 0 + R[t].count
  BY <1>7
<1> QED BY <1>8, <1>9 DEF s, t

(* Where no pattern is found all is kept. *)
LEMMA CopyRun ==
  ASSUME NEW P, NEW Z, NEW B, NEW e, Safe(P, Z, B, e), NEW mk \in Seq(Byte),
         NEW a \in 0 .. e, NEW b \in a .. e, \A i \in a + 1 .. b : Found(P, B, i) = {}
  PROVE  SameRedaction(P, mk, Z, After(B, a), SubSeq(B, a + 1, b), 0, After(B, b))
<1>1. /\ B \in Seq(Byte) /\ e \in 0 .. Len(B) /\ Len(B) \in Nat /\ PatternSet(P)
      /\ Z \in SUBSET Seq(Byte)
  BY LenProperties DEF Safe
<1> DEFINE n == b - a
           Same(k) == SameRedaction(P, mk, Z, After(B, a), SubSeq(B, a + 1, a + k), 0, After(B, a + k))
           T == {k \in 0 .. n : Same(k)}
<1>2. n \in Nat /\ a + n = b
  BY <1>1
<1>3. 0 \in T
  <2> DEFINE r == After(B, a)
  <2>1. r \in Seq(Byte)
    BY <1>1, AfterType
  <2>2. SubSeq(B, a + 1, a + 0) = <<>> /\ a + 0 = a
    <3>1. a + 0 < a + 1 /\ a + 0 \in Int /\ a + 1 \in Int /\ a + 0 = a
      BY <1>1
    <3> QED BY <3>1, SubSeqEmpty
  <2> HIDE DEF r
  <2>3. SameRedaction(P, mk, Z, r, <<>>, 0, r)
    BY <1>1, <2>1, RedactsNothing
  <2>4. Same(0)
    BY <2>2, <2>3 DEF r
  <2> HIDE DEF Same
  <2> QED BY <1>2, <2>4
<1>4. ASSUME NEW k \in 1 .. n, k - 1 \in T PROVE k \in T
  <2> DEFINE c == a + (k - 1)
             r == After(B, a)
             q == After(B, c)
             t == After(B, c + 1)
             E == SubSeq(B, a + 1, c)
             x == <<B[c + 1]>>
  <2>1. c \in 0 .. e - 1 /\ c + 1 \in a + 1 .. b /\ c + 1 = a + k /\ c \in 0 .. Len(B)
        /\ c + 1 \in 0 .. Len(B) /\ a \in 0 .. Len(B)
    BY <1>1
  <2>2. SameRedaction(P, mk, Z, r, E, 0, q)
    BY <1>4
  <2>3. SameRedaction(P, mk, Z, q, x, 0, t)
    <3>1. Found(P, B, c + 1) = {}
      BY <2>1
    <3> HIDE DEF c
    <3> QED BY <2>1, <3>1, CopyOne
  <2>4. r \in Seq(Byte) /\ q \in Seq(Byte) /\ t \in Seq(Byte) /\ E \in Seq(Byte) /\ x \in Seq(Byte)
    <3> HIDE DEF c
    <3>1. r \in Seq(Byte) /\ q \in Seq(Byte) /\ t \in Seq(Byte)
      BY <1>1, <2>1, AfterType
    <3>2. E \in Seq(Byte)
      <4>1. a + 1 \in Nat \ {0}
        BY <1>1
      <4> QED BY <1>1, <2>1, <4>1, Part
    <3>3. x \in Seq(Byte)
      <4>1. c + 1 \in 1 .. Len(B)
        BY <1>1, <2>1
      <4>2. B[c + 1] \in Byte
        BY <1>1, <4>1, ElementOfSeq
      <4> QED BY <4>2
    <3> QED BY <3>1, <3>2, <3>3
  <2>5. SubSeq(B, a + 1, c + 1) = E \o x
    <3>1. a + 1 \in 1 .. Len(B) /\ c + 1 \in a + 1 .. Len(B) /\ (c + 1) - 1 = c
      BY <1>1, <2>1
    <3> HIDE DEF c
    <3>2. SubSeq(B, a + 1, c + 1) = SubSeq(B, a + 1, (c + 1) - 1) \o <<B[c + 1]>>
      BY <1>1, <3>1, SubSeqRecursiveSecond
    <3> QED BY <3>1, <3>2
  <2> HIDE DEF r, q, t, E, x
  <2>6. SameRedaction(P, mk, Z, r, E \o x, 0 + 0, t)
    BY <1>1, <2>2, <2>3, <2>4, RedactsMore
  <2>7. Same(k)
    <3>1. SameRedaction(P, mk, Z, r, SubSeq(B, a + 1, c + 1), 0, t)
      <4>1. 0 + 0 = 0
        OBVIOUS
      <4> QED BY <2>5, <2>6, <4>1
    <3> HIDE DEF c
    <3> QED BY <2>1, <3>1 DEF r, t
  <2> HIDE DEF Same
  <2> QED BY <2>7
<1>5. n \in T
  <2> HIDE DEF T, n
  <2>1. \A k \in 0 .. n : k \in T
    BY <1>2, <1>3, <1>4, UpTo
  <2> QED BY <1>2, <2>1
<1>6. Same(n)
  <2> HIDE DEF Same
  <2> QED BY <1>5
<1> HIDE DEF n
<1> QED BY <1>2, <1>6

(* Where patterns are found the longest is replaced. *)
LEMMA ReplaceOne ==
  ASSUME NEW P, NEW Z, NEW B, NEW e, Safe(P, Z, B, e), NEW mk \in Seq(Byte),
         NEW i \in 1 .. e, Found(P, B, i) # {}, NEW n, n = Max({Len(p) : p \in Found(P, B, i)})
  PROVE  /\ n \in Nat \ {0} /\ i + n - 1 \in 1 .. Len(B)
         /\ SameRedaction(P, mk, Z, After(B, i - 1), mk, 1, After(B, i + n - 1))
<1> DEFINE R == Redacted(P, mk)
           Q == Found(P, B, i)
<1>1. /\ B \in Seq(Byte) /\ e \in 0 .. Len(B) /\ Len(B) \in Nat /\ PatternSet(P)
      /\ Z \in SUBSET Seq(Byte)
  BY LenProperties DEF Safe
<1>2. n \in Nat \ {0} /\ \E p \in Q : Len(p) = n
  <2>1. Q \in SUBSET P
    BY DEF Found
  <2> HIDE DEF Q
  <2>2. Q # {} /\ n = Max({Len(p) : p \in Q})
    BY DEF Q
  <2> QED BY <1>1, <2>1, <2>2, Longest
<1>3. i + n - 1 <= Len(B)
  <2>1. PICK p \in Q : Len(p) = n
    BY <1>2
  <2>2. i + Len(p) - 1 <= Len(B)
    BY DEF Found, Occurs
  <2> QED BY <2>1, <2>2
<1>4. i + n - 1 \in 1 .. Len(B) /\ (i - 1) + n = i + n - 1 /\ i - 1 \in 0 .. Len(B)
      /\ n \in 1 .. Len(B) - (i - 1)
  BY <1>1, <1>2, <1>3
<1>5. ASSUME NEW z \in Z
      PROVE  /\ R[After(B, i - 1) \o z].bytes = mk \o R[After(B, i + n - 1) \o z].bytes
             /\ R[After(B, i - 1) \o z].count = 1 + R[After(B, i + n - 1) \o z].count
  <2> DEFINE s == After(B, i - 1) \o z
             t == After(B, (i - 1) + n) \o z
  <2>1. z \in Seq(Byte)
    BY <1>1
  <2>2. s \in Seq(Byte) /\ s # <<>> /\ After(s, n) = t
    <3>1. /\ After(B, i - 1) \o z \in Seq(Byte) /\ After(B, i - 1) \o z # <<>>
          /\ After(After(B, i - 1) \o z, n) = After(B, (i - 1) + n) \o z
      BY <1>1, <1>4, <2>1, RestOfBuffer, ZenonT(30)
    <3> QED BY <3>1
  <2>3. Fits(P, s) = Q
    BY FitsAreFound
  <2>4. t \in Seq(Byte)
    <3> DEFINE k == (i - 1) + n
    <3>1. k \in 0 .. Len(B)
      BY <1>1, <1>4
    <3> HIDE DEF k
    <3>2. After(B, k) \in Seq(Byte)
      BY <1>1, <3>1, AfterType
    <3>3. After(B, k) \o z \in Seq(Byte)
      BY <2>1, <3>2, ConcatProperties
    <3> QED BY <3>3 DEF k
  <2> HIDE DEF s, t
  <2>5. Fits(P, s) # {} /\ n = Taken(P, s)
    BY <2>3 DEF Taken
  <2>6. R[s].bytes = mk \o R[After(s, n)].bytes /\ R[s].count = R[After(s, n)].count + 1
    <3> DEFINE y == R[After(s, Taken(P, s))]
    <3>1. R[s].bytes = mk \o y.bytes /\ R[s].count = y.count + 1
      BY <1>1, <2>2, <2>5, RedactedMatch
    <3> QED BY <2>5, <3>1
  <2>7. R[t].count \in Nat
    <3>1. R[t] \in OutRec
      BY <1>1, <2>4, RedactedType
    <3> HIDE DEF R
    <3> QED BY <3>1 DEF OutRec
  <2> HIDE DEF R
  <2>8. R[s].bytes = mk \o R[t].bytes /\ R[s].count = 1 + R[t].count
    BY <2>2, <2>6, <2>7
  <2>9. t = After(B, i + n - 1) \o z
    BY <1>4 DEF t
  <2> QED BY <2>8, <2>9 DEF s
<1> QED BY <1>2, <1>4, <1>5 DEF SameRedaction

-----------------------------------------------------------------------------
(* StreamingRedactor.                                                      *)

(* A result of find_next: nothing, or the first place where a pattern      *)
(* occurs and the longest that does.                                       *)
Nowhere(P, B, from, to) == \A i \in from + 1 .. to : Found(P, B, i) = {}
IsNext(next, P, B, pos, e) ==
  \/ next = <<>> /\ Nowhere(P, B, pos, e)
  \/ \E i \in pos + 1 .. e :
       /\ Found(P, B, i) # {} /\ Nowhere(P, B, pos, i - 1)
       /\ next # <<>> /\ next[1] = i
       /\ next[2] = Max({Len(p) : p \in Found(P, B, i)})

(* find_next returns such a place. *)
LEMMA FindNextIs ==
  ASSUME NEW P, NEW B, NEW pos \in Nat, NEW e \in Nat
  PROVE  IsNext(FindNext(B, pos, e, P), P, B, pos, e)
<1> DEFINE starts == {i \in pos + 1 .. e : \E p \in P : Occurs(p, B, i)}
           next == FindNext(B, pos, e, P)
<1> USE DEF IsNext
<1>1. \A i \in pos + 1 .. e : i \in starts <=> Found(P, B, i) # {}
  BY DEF Found
<1>2. CASE starts = {}
  <2>1. next = <<>>
    BY <1>2 DEF FindNext
  <2> QED BY <1>1, <1>2, <2>1 DEF Nowhere
<1>3. CASE starts # {}
  <2> DEFINE i == Min(starts)
             n == Max({Len(p) : p \in {q \in P : Occurs(q, B, i)}})
  <2>1. next = <<i, n>>
    BY <1>3 DEF FindNext
  <2>2. i \in starts /\ \A y \in starts : i <= y
    <3>1. starts \in SUBSET Nat
      OBVIOUS
    <3> HIDE DEF starts
    <3> QED BY <1>3, <3>1, MinIs
  <2>3. n = Max({Len(p) : p \in Found(P, B, i)})
    BY DEF Found
  <2> HIDE DEF i, n
  <2>4. i \in pos + 1 .. e
    BY <2>2
  <2>5. Nowhere(P, B, pos, i - 1)
    <3> SUFFICES ASSUME NEW j \in pos + 1 .. i - 1 PROVE Found(P, B, j) = {}
      BY DEF Nowhere
    <3>1. j \in pos + 1 .. e /\ ~ (i <= j)
      BY <2>4
    <3>2. j \notin starts
      <4> HIDE DEF starts
      <4> QED BY <2>2, <3>1
    <3> HIDE DEF starts
    <3> QED BY <1>1, <3>1, <3>2
  <2>6. next # <<>> /\ next[1] = i /\ next[2] = n
    <3> HIDE DEF next
    <3> QED BY <2>1
  <2> HIDE DEF starts, next
  <2>7. Found(P, B, i) # {}
    BY <1>1, <2>2, <2>4
  <2> QED BY <2>3, <2>4, <2>5, <2>6, <2>7 DEF next
<1> QED BY <1>2, <1>3

(* A state of process's loop over the buffer B: what the escaper was given *)
(* and the rest of the buffer redact to what the text t does.              *)
ScanRec(B) == [esc : EscRec, count : Nat, pos : 0 .. Len(B)]
Scans(x, P, mk, Z, t, B) ==
  /\ x \in ScanRec(B)
  /\ \E E \in Seq(Byte) :
       Escaping(x.esc, E) /\ SameRedaction(P, mk, Z, t, E, x.count, After(B, x.pos))

(* The escaper is given what was copied or replaced. *)
LEMMA ScanMore ==
  ASSUME NEW P, NEW Z, NEW B, NEW e, Safe(P, Z, B, e), NEW mk \in Seq(Byte),
         NEW t \in Seq(Byte), NEW esc, NEW count \in Nat, NEW pos \in 0 .. Len(B),
         NEW E \in Seq(Byte), Escaping(esc, E),
         SameRedaction(P, mk, Z, t, E, count, After(B, pos)),
         NEW bytes \in Seq(Byte), NEW k \in Nat, NEW to \in 0 .. Len(B),
         SameRedaction(P, mk, Z, After(B, pos), bytes, k, After(B, to))
  PROVE  Scans([esc |-> EscaperPush(esc, bytes), count |-> count + k, pos |-> to],
               P, mk, Z, t, B)
<1> DEFINE new == EscaperPush(esc, bytes)
           x == [esc |-> new, count |-> count + k, pos |-> to]
           r == After(B, pos)
           q == After(B, to)
           Eb == E \o bytes
<1>1. B \in Seq(Byte) /\ PatternSet(P) /\ Z \in SUBSET Seq(Byte)
  BY DEF Safe
<1>2. Escaping(new, Eb)
  BY EscaperPushKeeps
<1>3. r \in Seq(Byte) /\ q \in Seq(Byte) /\ Eb \in Seq(Byte)
  BY <1>1, AfterType, ConcatProperties
<1>4. SameRedaction(P, mk, Z, t, Eb, count + k, q)
  <2>1. SameRedaction(P, mk, Z, t, E, count, r) /\ SameRedaction(P, mk, Z, r, bytes, k, q)
    OBVIOUS
  <2> HIDE DEF r, q
  <2> QED BY <1>1, <1>3, <2>1, RedactsMore
<1>5. new \in EscRec
  BY <1>2 DEF Escaping
<1> HIDE DEF new, Eb
<1> DEFINE n == count + k
<1>6. n \in Nat
  OBVIOUS
<1>7. x \in ScanRec(B) /\ x.esc = new /\ x.count = n /\ x.pos = to
  <2> DEFINE L == 0 .. Len(B)
  <2>1. to \in L
    OBVIOUS
  <2>2. x = [esc |-> new, count |-> n, pos |-> to]
    OBVIOUS
  <2> HIDE DEF n, L, x
  <2>3. x \in [esc : EscRec, count : Nat, pos : L] /\ x.esc = new /\ x.count = n /\ x.pos = to
    BY <1>5, <1>6, <2>1, <2>2
  <2> QED BY <2>3 DEF L, ScanRec
<1>8. SameRedaction(P, mk, Z, t, Eb, n, After(B, to))
  BY <1>4
<1> HIDE DEF x, n
<1>9. Scans(x, P, mk, Z, t, B)
  BY <1>2, <1>3, <1>7, <1>8 DEF Scans
<1> QED BY <1>9 DEF x, new, n

(* One turn of the loop. *)
LEMMA ProcessStepKeeps ==
  ASSUME NEW P, NEW Z, NEW B, NEW e, Safe(P, Z, B, e), NEW mk \in Seq(Byte),
         NEW t \in Seq(Byte), NEW r, r.pending = B, r.patterns = P, r.marker = mk,
         NEW x, Scans(x, P, mk, Z, t, B)
  PROVE  /\ Scans(ProcessStep(r, x, e), P, mk, Z, t, B)
         /\ ProcessStep(r, x, e).pos >= e \/ ProcessStep(r, x, e).pos > x.pos
<1> DEFINE new == ProcessStep(r, x, e)
           pos == x.pos
           next == FindNext(B, pos, e, P)
<1>1. B \in Seq(Byte) /\ PatternSet(P) /\ Z \in SUBSET Seq(Byte) /\ e \in 0 .. Len(B)
      /\ Len(B) \in Nat
  BY LenProperties DEF Safe
<1>2. x \in ScanRec(B) /\ x.esc \in EscRec /\ x.count \in Nat /\ pos \in 0 .. Len(B)
  BY DEF Scans, ScanRec
<1>3. PICK E \in Seq(Byte) :
        Escaping(x.esc, E) /\ SameRedaction(P, mk, Z, t, E, x.count, After(B, pos))
  BY DEF Scans
<1>4. CASE pos >= e
  <2>1. new = x
    BY <1>4 DEF ProcessStep
  <2> QED BY <1>4, <2>1
<1>5. CASE ~ (pos >= e)
  <2>1. pos \in Nat /\ e \in Nat /\ pos < e /\ pos \in 0 .. e /\ e \in pos .. e /\ e \in 0 .. e
    BY <1>1, <1>2, <1>5
  <2>2. CASE next = <<>> /\ Nowhere(P, B, pos, e)
    <3> DEFINE bytes == SubSeq(B, pos + 1, e)
               made == [esc |-> EscaperPush(x.esc, bytes), count |-> x.count + 0, pos |-> e]
    <3>1. new = [x EXCEPT !.esc = EscaperPush(@, bytes), !.pos = e]
      BY <1>5, <2>2 DEF ProcessStep
    <3>2. new = made
      <4> DEFINE y == EscaperPush(x.esc, bytes)
      <4>1. new = [x EXCEPT !.esc = y, !.pos = e]
        BY <3>1
      <4> HIDE DEF y, new
      <4>2. new = [esc |-> y, count |-> x.count, pos |-> e]
        BY <1>2, <4>1 DEF ScanRec
      <4>3. x.count + 0 = x.count
        BY <1>2
      <4> QED BY <4>2, <4>3 DEF y
    <3>3. SameRedaction(P, mk, Z, After(B, pos), bytes, 0, After(B, e))
      <4>1. \A i \in pos + 1 .. e : Found(P, B, i) = {}
        BY <2>2 DEF Nowhere
      <4> HIDE DEF pos
      <4> QED BY <2>1, <4>1, CopyRun
    <3>4. bytes \in Seq(Byte)
      <4>1. pos + 1 \in Nat \ {0}
        BY <2>1
      <4> HIDE DEF pos
      <4> QED BY <1>1, <4>1, Part
    <3> DEFINE esc == x.esc
               count == x.count
    <3>5. Escaping(esc, E) /\ SameRedaction(P, mk, Z, t, E, count, After(B, pos)) /\ count \in Nat
      BY <1>2, <1>3
    <3> HIDE DEF bytes, pos
    <3>6. Scans(made, P, mk, Z, t, B)
      <4> HIDE DEF esc, count
      <4>1. Scans([esc |-> EscaperPush(esc, bytes), count |-> count + 0, pos |-> e], P, mk, Z, t, B)
        BY <1>1, <1>2, <3>3, <3>4, <3>5, ScanMore
      <4> QED BY <4>1 DEF esc, count
    <3>7. made.pos = e
      OBVIOUS
    <3> HIDE DEF made, new
    <3> QED BY <2>1, <3>2, <3>6, <3>7 DEF new
  <2>3. CASE \E i \in pos + 1 .. e :
               /\ Found(P, B, i) # {} /\ Nowhere(P, B, pos, i - 1)
               /\ next # <<>> /\ next[1] = i
               /\ next[2] = Max({Len(p) : p \in Found(P, B, i)})
    <3>1. PICK i \in pos + 1 .. e :
               /\ Found(P, B, i) # {} /\ Nowhere(P, B, pos, i - 1)
               /\ next # <<>> /\ next[1] = i
               /\ next[2] = Max({Len(p) : p \in Found(P, B, i)})
      BY <2>3
    <3> DEFINE n == next[2]
               bytes == SubSeq(B, pos + 1, i - 1)
               esc == x.esc
               count == x.count
               first == EscaperPush(esc, bytes)
               to == i + n - 1
               mid == [esc |-> first, count |-> count + 0, pos |-> i - 1]
               made == [esc |-> EscaperPush(first, mk), count |-> count + 1, pos |-> to]
    <3>2. new = [x EXCEPT !.esc = EscaperPush(EscaperPush(@, bytes), mk),
                          !.count = @ + 1, !.pos = to]
      BY <1>5, <3>1 DEF ProcessStep
    <3>3. new = made
      <4> DEFINE y == EscaperPush(first, mk)
      <4>1. new = [x EXCEPT !.esc = y, !.count = @ + 1, !.pos = to]
        BY <3>2
      <4> HIDE DEF y, new, to
      <4>2. new = [esc |-> y, count |-> x.count + 1, pos |-> to]
        BY <1>2, <4>1 DEF ScanRec
      <4> QED BY <4>2 DEF y
    <3>4. n = Max({Len(p) : p \in Found(P, B, i)})
      BY <3>1
    <3> HIDE DEF n
    <3>5. i \in 1 .. e /\ i - 1 \in pos .. e /\ i - 1 \in 0 .. Len(B) /\ i - 1 >= pos
      BY <1>1, <2>1
    <3>6. /\ n \in Nat \ {0} /\ to \in 1 .. Len(B)
          /\ SameRedaction(P, mk, Z, After(B, i - 1), mk, 1, After(B, to))
      BY <3>1, <3>4, <3>5, ReplaceOne
    <3>7. SameRedaction(P, mk, Z, After(B, pos), bytes, 0, After(B, i - 1))
      <4> DEFINE b == i - 1
      <4>1. b \in pos .. e /\ \A j \in pos + 1 .. b : Found(P, B, j) = {}
        BY <3>1, <3>5 DEF Nowhere
      <4> HIDE DEF pos, b
      <4>2. SameRedaction(P, mk, Z, After(B, pos), SubSeq(B, pos + 1, b), 0, After(B, b))
        BY <2>1, <4>1, CopyRun
      <4> QED BY <4>2 DEF b
    <3>8. bytes \in Seq(Byte)
      <4>1. pos + 1 \in Nat \ {0}
        BY <2>1
      <4> HIDE DEF pos
      <4> QED BY <1>1, <3>5, <4>1, Part
    <3>9. Escaping(esc, E) /\ SameRedaction(P, mk, Z, t, E, count, After(B, pos)) /\ count \in Nat
      BY <1>2, <1>3
    <3> HIDE DEF bytes, pos, esc, count
    <3>10. Scans(mid, P, mk, Z, t, B)
      <4> DEFINE b == i - 1
      <4>1. b \in 0 .. Len(B) /\ SameRedaction(P, mk, Z, After(B, pos), bytes, 0, After(B, b))
        BY <3>5, <3>7
      <4> HIDE DEF b
      <4>2. Scans([esc |-> EscaperPush(esc, bytes), count |-> count + 0, pos |-> b], P, mk, Z, t, B)
        BY <1>1, <1>2, <3>8, <3>9, <4>1, ScanMore
      <4> QED BY <4>2 DEF b
    <3>11. mid.esc = first /\ mid.count = count /\ mid.pos = i - 1
      BY <3>9
    <3> HIDE DEF mid, first
    <3>12. PICK F \in Seq(Byte) :
             Escaping(first, F) /\ SameRedaction(P, mk, Z, t, F, count, After(B, i - 1))
      BY <3>10, <3>11 DEF Scans
    <3>13. Scans(made, P, mk, Z, t, B)
      <4> DEFINE b == i - 1
      <4>1. /\ b \in 0 .. Len(B) /\ to \in 0 .. Len(B)
            /\ SameRedaction(P, mk, Z, t, F, count, After(B, b))
            /\ SameRedaction(P, mk, Z, After(B, b), mk, 1, After(B, to))
        BY <1>1, <3>5, <3>6, <3>12
      <4> HIDE DEF b, to
      <4> QED BY <1>1, <3>9, <3>12, <4>1, ScanMore
    <3>14. made.pos = to /\ to > pos
      <4>1. made.pos = to
        OBVIOUS
      <4>2. to > pos
        BY <1>2, <2>1, <3>5, <3>6
      <4> QED BY <4>1, <4>2
    <3> HIDE DEF made, new
    <3> QED BY <3>3, <3>13, <3>14 DEF new, pos
  <2>4. \/ next = <<>> /\ Nowhere(P, B, pos, e)
        \/ \E i \in pos + 1 .. e :
              /\ Found(P, B, i) # {} /\ Nowhere(P, B, pos, i - 1)
              /\ next # <<>> /\ next[1] = i
              /\ next[2] = Max({Len(p) : p \in Found(P, B, i)})
    <3>1. IsNext(next, P, B, pos, e)
      <4> HIDE DEF pos
      <4> QED BY <2>1, FindNextIs
    <3> HIDE DEF pos, next
    <3> QED BY <3>1 DEF IsNext
  <2> QED BY <2>2, <2>3, <2>4
<1> QED BY <1>4, <1>5

(* A redactor after the whole loop: it scanned to e or behind. *)
ScansTo(new, r, P, mk, Z, t, B, e) ==
  \E x : /\ Scans(x, P, mk, Z, t, B) /\ x.pos >= e
         /\ new = [r EXCEPT !.esc = x.esc, !.count = x.count,
                            !.pending = SubSeq(@, x.pos + 1, Len(@))]

(* The loop of process scans that far. *)
LEMMA ProcessLoop ==
  ASSUME NEW P, NEW Z, NEW B, NEW e, Safe(P, Z, B, e), NEW mk \in Seq(Byte),
         NEW t \in Seq(Byte), NEW r, r.pending = B, r.patterns = P, r.marker = mk,
         NEW finishing, e = SafeEnd(r, finishing),
         Scans([esc |-> r.esc, count |-> r.count, pos |-> 0], P, mk, Z, t, B)
  PROVE  ScansTo(Process(r, finishing), r, P, mk, Z, t, B, e)
<1> USE DEF ScansTo
<1> DEFINE b == [esc |-> r.esc, count |-> r.count, pos |-> 0]
           S == {x \in ScanRec(B) : Scans(x, P, mk, Z, t, B)}
           F(h) == [k \in 0 .. e |-> IF k = 0 THEN b ELSE ProcessStep(r, h[k - 1], e)]
           g == [x \in S \X (1 .. e) |-> ProcessStep(r, x[1], e)]
           w == CHOOSE h : h = F(h)
<1>1. e \in Nat /\ e \in 0 .. Len(B) /\ Len(B) \in Nat
  BY LenProperties DEF Safe
<1>2. Process(r, finishing) = [r EXCEPT !.esc = w[e].esc, !.count = w[e].count,
                                        !.pending = SubSeq(@, w[e].pos + 1, Len(@))]
  BY DEF Process
<1>3. b \in S
  <2> HIDE DEF b
  <2>1. Scans(b, P, mk, Z, t, B)
    BY DEF b
  <2>2. b \in ScanRec(B)
    BY <2>1 DEF Scans
  <2> QED BY <2>1, <2>2
<1>4. \A x \in S : ProcessStep(r, x, e) \in S
  <2> SUFFICES ASSUME NEW x \in S PROVE ProcessStep(r, x, e) \in S
    OBVIOUS
  <2>1. Scans(ProcessStep(r, x, e), P, mk, Z, t, B)
    BY ProcessStepKeeps
  <2>2. ProcessStep(r, x, e) \in ScanRec(B)
    BY <2>1 DEF Scans
  <2> QED BY <2>1, <2>2
<1>5. g \in [S \X (1 .. e) -> S]
  <2> HIDE DEF S
  <2> QED BY <1>4
<1>6. PICK f : Loops(f, S, b, e, g)
  <2> HIDE DEF S, b, g
  <2> QED BY <1>1, <1>3, <1>5, LoopRuns, Zenon
<1>7. f = F(f)
  <2> HIDE DEF S, b
  <2>1. f \in [0 .. e -> S] /\ f[0] = b
    BY <1>6 DEF Loops
  <2>2. ASSUME NEW k \in 1 .. e PROVE f[k] = ProcessStep(r, f[k - 1], e)
    <3>1. f[k - 1] \in S /\ f[k] = g[<<f[k - 1], k>>]
      <4>1. k - 1 \in 0 .. e
        BY <1>1
      <4> HIDE DEF g
      <4> QED BY <1>6, <4>1 DEF Loops
    <3>2. g[<<f[k - 1], k>>] = ProcessStep(r, f[k - 1], e)
      BY <3>1
    <3> QED BY <3>1, <3>2
  <2>3. ASSUME NEW k \in 0 .. e PROVE f[k] = F(f)[k]
    BY <1>1, <2>1, <2>2
  <2> QED BY <2>1, <2>3
<1>8. w = F(w)
  BY <1>7
<1> HIDE DEF w, b
<1>9. w[0] = b /\ \A k \in 1 .. e : w[k] = ProcessStep(r, w[k - 1], e)
  BY <1>1, <1>8
<1> DEFINE T == {k \in 0 .. e : w[k] \in S /\ w[k].pos >= k}
<1>10. 0 \in T
  <2>1. w[0].pos = 0
    BY <1>9 DEF b
  <2> HIDE DEF S
  <2> QED BY <1>1, <1>3, <1>9, <2>1
<1>11. ASSUME NEW k \in 1 .. e, k - 1 \in T PROVE k \in T
  <2> DEFINE x == w[k - 1]
             y == w[k]
  <2>1. x \in S /\ x.pos >= k - 1 /\ y = ProcessStep(r, x, e)
    BY <1>9, <1>11
  <2>2. Scans(x, P, mk, Z, t, B)
    BY <2>1
  <2> HIDE DEF x
  <2>3. y.pos >= e \/ y.pos > x.pos
    BY <2>1, <2>2, ProcessStepKeeps
  <2>4. y \in S
    <3> HIDE DEF S
    <3> QED BY <1>4, <2>1
  <2> HIDE DEF y
  <2>5. y.pos \in Nat /\ x.pos \in Nat
    BY <1>1, <2>1, <2>4 DEF ScanRec
  <2>6. y.pos >= k
    BY <1>1, <2>1, <2>3, <2>5
  <2> HIDE DEF S
  <2> QED BY <2>4, <2>6 DEF y
<1>12. e \in T
  <2> HIDE DEF T
  <2>1. \A k \in 0 .. e : k \in T
    BY <1>1, <1>10, <1>11, UpTo
  <2> QED BY <1>1, <2>1
<1>13. Scans(w[e], P, mk, Z, t, B) /\ w[e].pos >= e
  BY <1>12
<1> QED BY <1>2, <1>13

(* The greater of two. *)
LEMMA MaxOfTwo ==
  ASSUME NEW a \in Int, NEW b \in Int
  PROVE  Max({a, b}) = IF a >= b THEN a ELSE b
<1> DEFINE m == IF a >= b THEN a ELSE b
<1>1. m \in {a, b} /\ \A y \in {a, b} : m >= y
  OBVIOUS
<1>2. Max({a, b}) \in {a, b} /\ \A y \in {a, b} : Max({a, b}) >= y
  BY <1>1 DEF Max
<1> QED BY <1>1, <1>2

(* How far process may go before the end of the text. *)
LEMMA SafeEndIs ==
  ASSUME NEW r, PatternSet(r.patterns), r.pending \in Seq(Byte)
  PROVE  /\ Safe(r.patterns, Seq(Byte), r.pending, SafeEnd(r, FALSE))
         /\ Len(r.pending) - SafeEnd(r, FALSE) < MaximumPattern(r.patterns)
         /\ Safe(r.patterns, {<<>>}, r.pending, SafeEnd(r, TRUE))
         /\ SafeEnd(r, TRUE) = Len(r.pending)
<1> DEFINE P == r.patterns
           B == r.pending
           n == Len(B)
           M == MaximumPattern(P)
           d == n - (M - 1)
           e == SafeEnd(r, FALSE)
<1>1. n \in Nat /\ M \in Nat \ {0} /\ \A p \in P : Len(p) <= M
  BY LenProperties, MaximumPatternIs
<1>2. e = Max({0, d})
  BY DEF SafeEnd
<1>3. \A p \in P : Len(p) \in Nat
  BY LenProperties DEF PatternSet
<1> HIDE DEF n, M, P
<1>4. e = IF 0 >= d THEN 0 ELSE d
  <2>1. d \in Int
    BY <1>1
  <2> HIDE DEF d, e
  <2> QED BY <1>2, <2>1, MaxOfTwo
<1> HIDE DEF e
<1>5. e \in 0 .. n /\ n - e < M
  BY <1>1, <1>4
<1>6. e = 0 \/ \A p \in P : e - 1 + Len(p) <= n
  <2> SUFFICES ASSUME e # 0, NEW p \in P PROVE e - 1 + Len(p) <= n
    OBVIOUS
  <2>1. Len(p) \in Nat /\ Len(p) <= M /\ e = n - (M - 1)
    BY <1>1, <1>3, <1>4
  <2> QED BY <1>1, <2>1
<1>7. SafeEnd(r, TRUE) = n /\ n \in 0 .. n
  BY <1>1 DEF SafeEnd, n
<1>8. {<<>>} \in SUBSET Seq(Byte)
  BY EmptySeq
<1> QED BY <1>5, <1>6, <1>7, <1>8 DEF Safe, e, n, M, P

(* The redactors, and a redactor that has read the text t: what it gave to *)
(* the escaper and what it holds back redact to what t does, however t     *)
(* goes on.                                                                *)
RdRec == [patterns : SUBSET Seq(Byte), marker : Seq(Byte), pending : Seq(Byte),
          count : Nat, suppressed : BOOLEAN, esc : EscRec]
HasRead(r, t) ==
  \E E \in Seq(Byte) :
    /\ Escaping(r.esc, E)
    /\ SameRedaction(r.patterns, r.marker, Seq(Byte), t, E, r.count, r.pending)

(* The loop begins where the buffer does. *)
LEMMA ScanBegins ==
  ASSUME NEW r \in RdRec, PatternSet(r.patterns), NEW t \in Seq(Byte), HasRead(r, t),
         NEW Z \in SUBSET Seq(Byte)
  PROVE  Scans([esc |-> r.esc, count |-> r.count, pos |-> 0],
               r.patterns, r.marker, Z, t, r.pending)
<1> DEFINE x == [esc |-> r.esc, count |-> r.count, pos |-> 0]
           B == r.pending
<1>1. B \in Seq(Byte) /\ r.esc \in EscRec /\ r.count \in Nat
  BY DEF RdRec
<1>2. PICK E \in Seq(Byte) :
        /\ Escaping(r.esc, E)
        /\ SameRedaction(r.patterns, r.marker, Seq(Byte), t, E, r.count, B)
  BY DEF HasRead
<1>3. After(B, 0) = B
  BY <1>1, AfterEnds
<1>4. SameRedaction(r.patterns, r.marker, Z, t, E, r.count, B)
  <2> HIDE DEF B
  <2> QED BY <1>2 DEF SameRedaction
<1>5. x.esc = r.esc /\ x.count = r.count /\ x.pos = 0
  OBVIOUS
<1>6. x \in ScanRec(B)
  <2>1. 0 \in 0 .. Len(B)
    BY <1>1, LenProperties
  <2> QED BY <1>1, <2>1 DEF ScanRec
<1> HIDE DEF x, B
<1>7. Scans(x, r.patterns, r.marker, Z, t, B)
  BY <1>2, <1>3, <1>4, <1>5, <1>6 DEF Scans
<1> QED BY <1>7 DEF x, B

(* One more chunk waits in the buffer. *)
LEMMA ChunkWaits ==
  ASSUME NEW r \in RdRec, PatternSet(r.patterns), NEW t \in Seq(Byte), HasRead(r, t),
         NEW chunk \in Seq(Byte)
  PROVE  LET m == [r EXCEPT !.pending = @ \o chunk]
         IN  /\ m \in RdRec /\ HasRead(m, t \o chunk)
             /\ m.patterns = r.patterns /\ m.marker = r.marker /\ m.suppressed = r.suppressed
<1> DEFINE p == r.pending
           pc == p \o chunk
           tc == t \o chunk
           m == [r EXCEPT !.pending = pc]
<1>1. p \in Seq(Byte)
  BY DEF RdRec
<1>2. pc \in Seq(Byte) /\ tc \in Seq(Byte)
  BY <1>1, ConcatProperties
<1> HIDE DEF pc
<1>3. /\ m \in RdRec /\ m.pending = pc /\ m.patterns = r.patterns /\ m.marker = r.marker
      /\ m.esc = r.esc /\ m.count = r.count /\ m.suppressed = r.suppressed
  <2> DEFINE V == Seq(Byte)
             W == SUBSET Seq(Byte)
  <2>1. pc \in V /\ r \in [patterns : W, marker : V, pending : V, count : Nat,
                           suppressed : BOOLEAN, esc : EscRec]
    BY <1>2 DEF RdRec
  <2> HIDE DEF V, W
  <2>2. m \in [patterns : W, marker : V, pending : V, count : Nat,
               suppressed : BOOLEAN, esc : EscRec]
    BY <2>1
  <2>3. /\ m.pending = pc /\ m.patterns = r.patterns /\ m.marker = r.marker
        /\ m.esc = r.esc /\ m.count = r.count /\ m.suppressed = r.suppressed
    BY <2>1
  <2> HIDE DEF m
  <2> QED BY <2>2, <2>3 DEF V, W, RdRec
<1> DEFINE P == r.patterns
           mk == r.marker
           k == r.count
<1>4. PICK E \in Seq(Byte) : Escaping(r.esc, E) /\ SameRedaction(P, mk, Seq(Byte), t, E, k, p)
  BY DEF HasRead
<1>5. SameRedaction(P, mk, Seq(Byte), tc, E, k, pc)
  <2> HIDE DEF P, mk, k, p
  <2> SUFFICES ASSUME NEW z \in Seq(Byte)
               PROVE  /\ Redacted(P, mk)[tc \o z].bytes = E \o Redacted(P, mk)[pc \o z].bytes
                      /\ Redacted(P, mk)[tc \o z].count = k + Redacted(P, mk)[pc \o z].count
    BY DEF SameRedaction
  <2> DEFINE y == chunk \o z
  <2>1. y \in Seq(Byte)
    BY ConcatProperties
  <2>2. tc \o z = t \o y /\ pc \o z = p \o y
    <3>1. (t \o chunk) \o z = t \o (chunk \o z)
      OBVIOUS
    <3>2. (p \o chunk) \o z = p \o (chunk \o z)
      BY <1>1
    <3> QED BY <3>1, <3>2 DEF pc
  <2> HIDE DEF y, tc
  <2> QED BY <1>4, <2>1, <2>2 DEF SameRedaction
<1> HIDE DEF m, tc
<1>6. HasRead(m, tc)
  BY <1>3, <1>4, <1>5 DEF HasRead
<1>7. m \in RdRec /\ m.patterns = r.patterns /\ m.marker = r.marker /\ m.suppressed = r.suppressed
  BY <1>3
<1>8. m = [r EXCEPT !.pending = @ \o chunk]
  BY DEF m, pc
<1> QED BY <1>6, <1>7, <1>8 DEF tc

(* What process leaves of the redactor. *)
LEMMA ProcessLeaves ==
  ASSUME NEW r \in RdRec, PatternSet(r.patterns), NEW t \in Seq(Byte), HasRead(r, t),
         NEW Z \in SUBSET Seq(Byte), NEW finishing,
         Safe(r.patterns, Z, r.pending, SafeEnd(r, finishing))
  PROVE  LET last == Process(r, finishing)
         IN  /\ last \in RdRec /\ last.patterns = r.patterns /\ last.marker = r.marker
             /\ last.suppressed = r.suppressed
             /\ Len(last.pending) <= Len(r.pending) - SafeEnd(r, finishing)
             /\ \E E \in Seq(Byte) :
                  /\ Escaping(last.esc, E)
                  /\ SameRedaction(r.patterns, r.marker, Z, t, E, last.count, last.pending)
<1> DEFINE P == r.patterns
           mk == r.marker
           B == r.pending
           e == SafeEnd(r, finishing)
           last == Process(r, finishing)
<1>1. mk \in Seq(Byte) /\ B \in Seq(Byte) /\ Len(B) \in Nat /\ e \in 0 .. Len(B)
      /\ Safe(P, Z, B, e)
  BY LenProperties DEF RdRec, Safe
<1>2. Scans([esc |-> r.esc, count |-> r.count, pos |-> 0], P, mk, Z, t, B)
  BY ScanBegins
<1>3. PICK x : /\ Scans(x, P, mk, Z, t, B) /\ x.pos >= e
               /\ last = [r EXCEPT !.esc = x.esc, !.count = x.count,
                                   !.pending = SubSeq(@, x.pos + 1, Len(@))]
  <2> HIDE DEF e
  <2>1. e = SafeEnd(r, finishing)
    BY DEF e
  <2>2. r.pending = B /\ r.patterns = P /\ r.marker = mk
    OBVIOUS
  <2> HIDE DEF P, mk, B
  <2>3. ScansTo(Process(r, finishing), r, P, mk, Z, t, B, e)
    BY <1>1, <1>2, <2>1, <2>2, ProcessLoop
  <2> QED BY <2>3 DEF ScansTo
<1>4. x.esc \in EscRec /\ x.count \in Nat /\ x.pos \in 0 .. Len(B)
  BY <1>3 DEF Scans, ScanRec
<1>5. PICK E \in Seq(Byte) : Escaping(x.esc, E) /\ SameRedaction(P, mk, Z, t, E, x.count, After(B, x.pos))
  BY <1>3 DEF Scans
<1> DEFINE q == After(B, x.pos)
<1>6. q \in Seq(Byte) /\ Len(q) = Len(B) - x.pos
  <2> DEFINE k == x.pos
  <2>1. k \in 0 .. Len(B)
    BY <1>4
  <2> HIDE DEF k, B
  <2>2. After(B, k) \in Seq(Byte) /\ Len(After(B, k)) = Len(B) - k
    BY <1>1, <2>1, AfterType
  <2> QED BY <2>2 DEF k
<1>7. last = [r EXCEPT !.esc = x.esc, !.count = x.count, !.pending = q]
  BY <1>3 DEF After
<1>8. Len(q) <= Len(B) - e
  <2> HIDE DEF q, e, B
  <2> QED BY <1>1, <1>3, <1>4, <1>6
<1> HIDE DEF q, last
<1>9. /\ last \in RdRec /\ last.patterns = P /\ last.marker = mk
      /\ last.suppressed = r.suppressed /\ last.pending = q
      /\ last.esc = x.esc /\ last.count = x.count
  <2> DEFINE V == Seq(Byte)
             W == SUBSET Seq(Byte)
  <2>1. q \in V /\ r \in [patterns : W, marker : V, pending : V, count : Nat,
                          suppressed : BOOLEAN, esc : EscRec]
    BY <1>6 DEF RdRec
  <2> HIDE DEF V, W
  <2>2. last \in [patterns : W, marker : V, pending : V, count : Nat,
                  suppressed : BOOLEAN, esc : EscRec]
    BY <1>4, <1>7, <2>1
  <2>3. /\ last.patterns = P /\ last.marker = mk
        /\ last.suppressed = r.suppressed /\ last.pending = q
        /\ last.esc = x.esc /\ last.count = x.count
    BY <1>7, <2>1
  <2> QED BY <2>2, <2>3 DEF V, W, RdRec
<1>10. Escaping(last.esc, E) /\ SameRedaction(P, mk, Z, t, E, last.count, last.pending)
  BY <1>5, <1>9 DEF q
<1>11. Len(last.pending) <= Len(r.pending) - SafeEnd(r, finishing)
  BY <1>8, <1>9
<1> HIDE DEF P, mk
<1> QED BY <1>9, <1>10, <1>11 DEF last, P, mk

(* push of a chunk. *)
LEMMA PushReads ==
  ASSUME NEW r \in RdRec, PatternSet(r.patterns), NEW t \in Seq(Byte), HasRead(r, t),
         NEW chunk \in Seq(Byte)
  PROVE  LET new == Process([r EXCEPT !.pending = @ \o chunk], FALSE)
         IN  /\ new \in RdRec /\ new.patterns = r.patterns /\ new.marker = r.marker
             /\ new.suppressed = r.suppressed /\ HasRead(new, t \o chunk)
             /\ Len(new.pending) < MaximumPattern(r.patterns)
<1> DEFINE m == [r EXCEPT !.pending = @ \o chunk]
           tc == t \o chunk
           new == Process(m, FALSE)
<1>1. /\ m \in RdRec /\ HasRead(m, tc)
      /\ m.patterns = r.patterns /\ m.marker = r.marker /\ m.suppressed = r.suppressed
  BY ChunkWaits
<1>2. tc \in Seq(Byte)
  BY ConcatProperties
<1> HIDE DEF m, tc
<1>3. PatternSet(m.patterns) /\ m.pending \in Seq(Byte)
  BY <1>1 DEF RdRec
<1> DEFINE e == SafeEnd(m, FALSE)
           M == MaximumPattern(m.patterns)
           n == Len(m.pending)
<1>4. Safe(m.patterns, Seq(Byte), m.pending, e) /\ n - e < M
  BY <1>3, SafeEndIs
<1>5. n \in Nat /\ M \in Nat /\ e \in Nat
  <2>1. n \in Nat
    BY <1>3, LenProperties
  <2>2. M \in Nat
    BY <1>3, MaximumPatternIs
  <2>3. e \in 0 .. n
    BY <1>4 DEF Safe
  <2> HIDE DEF n, M, e
  <2> QED BY <2>1, <2>2, <2>3
<1> DEFINE Z == Seq(Byte)
<1>6. /\ new \in RdRec /\ new.patterns = m.patterns /\ new.marker = m.marker
      /\ new.suppressed = m.suppressed
      /\ Len(new.pending) <= n - e
      /\ \E E \in Seq(Byte) :
           /\ Escaping(new.esc, E)
           /\ SameRedaction(m.patterns, m.marker, Z, tc, E, new.count, new.pending)
  <2>1. Z \in SUBSET Seq(Byte) /\ Safe(m.patterns, Z, m.pending, SafeEnd(m, FALSE))
    BY <1>4
  <2> HIDE DEF Z
  <2> QED BY <1>1, <1>2, <1>3, <2>1, ProcessLeaves
<1> HIDE DEF new
<1>7. HasRead(new, tc)
  BY <1>6 DEF HasRead
<1>8. Len(new.pending) < M
  <2>1. Len(new.pending) \in Nat
    BY <1>6, LenProperties DEF RdRec
  <2> HIDE DEF n, e, M
  <2> QED BY <1>4, <1>5, <1>6, <2>1
<1> QED BY <1>1, <1>6, <1>7, <1>8 DEF new, m, tc

(* An empty text redacts to nothing. *)
LEMMA RedactedEmpty ==
  ASSUME NEW P, PatternSet(P), NEW mk \in Seq(Byte)
  PROVE  Redacted(P, mk)[<<>>].bytes = <<>> /\ Redacted(P, mk)[<<>>].count = 0
<1> DEFINE R == Redacted(P, mk)
<1>1. <<>> \in Seq(Byte)
  BY EmptySeq
<1>2. R[<<>>] = RedactStep(R, P, mk, <<>>)
  BY <1>1, RedactedRecursion
<1> HIDE DEF R
<1>3. RedactStep(R, P, mk, <<>>) = [bytes |-> <<>>, count |-> 0]
  BY DEF RedactStep
<1> QED BY <1>2, <1>3 DEF R

(* finish: the escaper has been given the whole text redacted. *)
LEMMA FinishReads ==
  ASSUME NEW r \in RdRec, PatternSet(r.patterns), NEW t \in Seq(Byte), HasRead(r, t)
  PROVE  LET last == Process(r, TRUE)
             whole == Redacted(r.patterns, r.marker)[t]
         IN  last.count = whole.count /\ last.count \in Nat /\ Escaping(last.esc, whole.bytes)
<1> DEFINE P == r.patterns
           mk == r.marker
           R == Redacted(P, mk)
           last == Process(r, TRUE)
           Z == {<<>>}
<1>1. r.pending \in Seq(Byte) /\ mk \in Seq(Byte)
  BY DEF RdRec
<1>2. Safe(P, Z, r.pending, SafeEnd(r, TRUE)) /\ SafeEnd(r, TRUE) = Len(r.pending)
  BY <1>1, SafeEndIs
<1>3. Z \in SUBSET Seq(Byte)
  BY EmptySeq
<1>4. /\ last \in RdRec /\ Len(last.pending) <= Len(r.pending) - SafeEnd(r, TRUE)
      /\ \E E \in Seq(Byte) :
           /\ Escaping(last.esc, E)
           /\ SameRedaction(P, mk, Z, t, E, last.count, last.pending)
  <2> HIDE DEF Z
  <2> QED BY <1>2, <1>3, ProcessLeaves
<1> HIDE DEF last
<1>5. last.pending \in Seq(Byte) /\ last.count \in Nat
  BY <1>4 DEF RdRec
<1>6. last.pending = <<>>
  <2> DEFINE a == Len(last.pending)
             b == Len(r.pending)
  <2>1. a \in Nat /\ b \in Nat /\ a <= b - b
    BY <1>1, <1>2, <1>4, <1>5, LenProperties
  <2> HIDE DEF b
  <2>2. a = 0
    <3> HIDE DEF a
    <3> QED BY <2>1
  <2> QED BY <1>5, <2>2, EmptySeq
<1>7. PICK E \in Seq(Byte) :
        Escaping(last.esc, E) /\ SameRedaction(P, mk, Z, t, E, last.count, last.pending)
  BY <1>4
<1>8. R[t].bytes = E /\ R[t].count = last.count
  <2>1. t \o <<>> = t /\ <<>> \o <<>> = <<>> /\ E \o <<>> = E
    BY ConcatEmptySeq
  <2>2. R[<<>>].bytes = <<>> /\ R[<<>>].count = 0
    BY <1>1, RedactedEmpty
  <2>3. <<>> \in Z
    OBVIOUS
  <2> HIDE DEF Z, P, mk
  <2>4. R[t \o <<>>].bytes = E \o R[<<>> \o <<>>].bytes
        /\ R[t \o <<>>].count = last.count + R[<<>> \o <<>>].count
    BY <1>6, <1>7, <2>3 DEF SameRedaction
  <2> HIDE DEF R
  <2>5. R[t].bytes = E \o <<>> /\ R[t].count = last.count + 0
    BY <2>1, <2>2, <2>4
  <2> QED BY <1>5, <2>1, <2>5
<1> QED BY <1>5, <1>7, <1>8 DEF last

-----------------------------------------------------------------------------
(* The limit on both streams.                                              *)

(* A beginning of a beginning. *)
LEMMA BeginsTrans ==
  ASSUME NEW s, NEW t, NEW a, Begins(s, t), Begins(t, a)
  PROVE  Begins(s, a)
<1> HIDE DEF Character
<1>1. PICK d \in Seq(Character) : t = s \o d
  BY DEF Begins
<1>2. PICK e \in Seq(Character) : a = t \o e
  BY DEF Begins
<1>3. s \in Seq(Character)
  BY DEF Begins
<1>4. (s \o d) \o e = s \o (d \o e)
  BY <1>3
<1>5. d \o e \in Seq(Character)
  BY CharactersConcat
<1> DEFINE de == d \o e
<1>6. de \in Seq(Character) /\ a = s \o de
  BY <1>1, <1>2, <1>4, <1>5
<1> HIDE DEF de
<1> QED BY <1>3, <1>6 DEF Begins

(* All begins itself. *)
LEMMA BeginsSelf ==
  ASSUME NEW a \in Seq(Character)
  PROVE  Begins(a, a)
<1> HIDE DEF Character
<1>1. <<>> \in Seq(Character) /\ a \o <<>> = a
  BY EmptySeq, ConcatEmptySeq
<1> QED BY <1>1 DEF Begins

(* All but the last character. *)
LEMMA FrontBegins ==
  ASSUME NEW a \in Seq(Character), a # <<>>
  PROVE  Begins(Front(a), a) /\ Len(Front(a)) = Len(a) - 1
<1> HIDE DEF Character
<1> DEFINE n == Len(a) - 1
<1>1. n \in 0 .. Len(a)
  BY EmptySeq
<1> HIDE DEF n
<1>2. /\ a = SubSeq(a, 1, n) \o After(a, n)
      /\ SubSeq(a, 1, n) \in Seq(Character) /\ After(a, n) \in Seq(Character)
      /\ Len(SubSeq(a, 1, n)) = n
  BY <1>1, FirstAndRest
<1>3. Front(a) = SubSeq(a, 1, n)
  BY DEF Front, n
<1> DEFINE d == After(a, n)
           f == SubSeq(a, 1, n)
<1>4. a = f \o d /\ f \in Seq(Character) /\ d \in Seq(Character) /\ Len(f) = n /\ Front(a) = f
  BY <1>2, <1>3
<1> HIDE DEF d, f
<1>5. Begins(f, a)
  BY <1>4 DEF Begins
<1> QED BY <1>4, <1>5 DEF n

(* What begins a sequence is a prefix of it. *)
LEMMA BeginsIsPrefix ==
  ASSUME NEW s, NEW a, Begins(s, a)
  PROVE  IsPrefix(s, a)
<1> HIDE DEF Character
<1>1. PICK d \in Seq(Character) : a = s \o d
  BY DEF Begins
<1>2. s \in Seq(Character) /\ Len(s) \in Nat /\ Len(d) \in Nat
  BY LenProperties DEF Begins
<1>3. Len(a) = Len(s) + Len(d)
  BY <1>1, <1>2, ConcatProperties
<1>4. SubSeq(s, 1, Len(s)) = SubSeq(a, 1, Len(s))
  <2>1. CASE Len(s) = 0
    BY <2>1, SubSeqEmpty
  <2>2. CASE Len(s) # 0
    <3> DEFINE n == Len(s)
    <3>1. 1 \in 1 .. Len(s) /\ n \in 1 .. Len(s)
      BY <1>2, <2>2
    <3> HIDE DEF n
    <3>2. SubSeq(s \o d, 1, n) = SubSeq(s, 1, n)
      BY <1>2, <3>1, SubSeqOfConcat1
    <3> QED BY <1>1, <3>2 DEF n
  <2> QED BY <2>1, <2>2
<1> QED BY <1>2, <1>3, <1>4 DEF IsPrefix

(* A beginning has no more bytes. *)
LEMMA BeginsShorter ==
  ASSUME NEW s, NEW a, Begins(s, a)
  PROVE  Len(Bytes(s)) \in Nat /\ Len(Bytes(s)) <= Len(Bytes(a))
<1> HIDE DEF Character
<1>1. PICK d \in Seq(Character) : a = s \o d
  BY DEF Begins
<1>2. s \in Seq(Character)
  BY DEF Begins
<1>3. Len(Bytes(a)) = Len(Bytes(s)) + Len(Bytes(d))
  BY <1>1, <1>2, BytesConcat
<1>4. Len(Bytes(s)) \in Nat /\ Len(Bytes(d)) \in Nat
  BY <1>2, BytesType
<1> QED BY <1>3, <1>4

(* A pattern in a beginning is in the whole. *)
LEMMA BeginsPatterns ==
  ASSUME NEW s, NEW a, Begins(s, a), NEW P, PatternSet(P),
         ~ ContainsPattern(Bytes(a), P)
  PROVE  ~ ContainsPattern(Bytes(s), P)
<1> HIDE DEF Character
<1>1. PICK d \in Seq(Character) : a = s \o d
  BY DEF Begins
<1>2. s \in Seq(Character)
  BY DEF Begins
<1> DEFINE b == Bytes(s)
           c == Bytes(d)
           ab == Bytes(a)
<1>3. b \in Seq(Byte) /\ c \in Seq(Byte) /\ ab = b \o c
  BY <1>1, <1>2, BytesType, BytesConcat
<1> HIDE DEF b, c, ab
<1>4. Len(b) \in Nat /\ Len(c) \in Nat /\ Len(ab) = Len(b) + Len(c)
  BY <1>3, LenProperties, ConcatProperties
<1>5. ASSUME NEW p \in P, NEW i \in 1 .. Len(b), Occurs(p, b, i)
      PROVE  i \in 1 .. Len(ab) /\ Occurs(p, ab, i)
  <2> DEFINE j == i + Len(p) - 1
  <2>1. Len(p) \in Nat \ {0}
    BY EmptySeq DEF PatternSet
  <2>2. j <= Len(b) /\ SubSeq(b, i, j) = p
    BY <1>5 DEF Occurs
  <2>3. j \in 1 .. Len(b)
    BY <1>4, <2>1, <2>2
  <2> HIDE DEF j
  <2>4. SubSeq(b \o c, i, j) = SubSeq(b, i, j)
    BY <1>3, <2>3, SubSeqOfConcat1
  <2>5. j <= Len(ab) /\ SubSeq(ab, i, j) = p
    BY <1>3, <1>4, <2>2, <2>3, <2>4
  <2>6. i \in 1 .. Len(ab)
    BY <1>4
  <2> QED BY <2>5, <2>6 DEF Occurs, j
<1>6. ~ ContainsPattern(ab, P)
  BY DEF ab
<1>7. ~ ContainsPattern(b, P)
  BY <1>5, <1>6 DEF ContainsPattern
<1> QED BY <1>7 DEF b

(* Two streams that begin a and b. *)
BothRec == [stdout : Seq(Character), stderr : Seq(Character)]
BothBegin(s, a, b) == s \in BothRec /\ Begins(s.stdout, a) /\ Begins(s.stderr, b)
BothFit(s) == Len(Bytes(s.stdout)) + Len(Bytes(s.stderr)) <= Limit

(* One turn of the loop that shortens them. *)
LEMMA ShrinkStepKeeps ==
  ASSUME NEW s, NEW a, NEW b, BothBegin(s, a, b)
  PROVE  /\ BothBegin(ShrinkStep(s), a, b)
         /\ \/ BothFit(s) /\ ShrinkStep(s) = s
            \/ Len(ShrinkStep(s).stdout) + Len(ShrinkStep(s).stderr)
                 = Len(s.stdout) + Len(s.stderr) - 1
<1> HIDE DEF Character
<1> DEFINE o == s.stdout
           e == s.stderr
           new == ShrinkStep(s)
<1>1. s \in BothRec /\ o \in Seq(Character) /\ e \in Seq(Character)
      /\ Begins(o, a) /\ Begins(e, b)
  BY DEF BothBegin, BothRec
<1>2. Len(Bytes(o)) \in Nat /\ Len(Bytes(e)) \in Nat /\ Limit \in Nat
      /\ Len(o) \in Nat /\ Len(e) \in Nat
  BY <1>1, BytesType, Capacities, LenProperties
<1>3. CASE BothFit(s)
  <2>1. new = s
    BY <1>3 DEF ShrinkStep, BothFit
  <2> QED BY <1>3, <2>1
<1>4. CASE ~ BothFit(s) /\ Len(Bytes(o)) >= Len(Bytes(e))
  <2> DEFINE f == Front(o)
  <2>1. new = [s EXCEPT !.stdout = f]
    BY <1>4 DEF ShrinkStep, BothFit
  <2>2. o # <<>>
    <3>1. Len(Bytes(o)) # 0
      <4> DEFINE x == Len(Bytes(o))
                 y == Len(Bytes(e))
      <4>1. x \in Nat /\ y \in Nat /\ ~ (x + y <= Limit) /\ x >= y
        BY <1>2, <1>4 DEF BothFit
      <4>2. x # 0
        <5> HIDE DEF x, y
        <5> QED BY <1>2, <4>1
      <4> QED BY <4>2
    <3> QED BY <3>1, BytesEmpty
  <2> HIDE DEF o, e
  <2>3. Begins(f, o) /\ Len(f) = Len(o) - 1
    BY <1>1, <2>2, FrontBegins
  <2> HIDE DEF f, new
  <2>4. Begins(f, a) /\ f \in Seq(Character)
    <3>1. Begins(f, a)
      BY <1>1, <2>3, BeginsTrans
    <3>2. f \in Seq(Character)
      BY <2>3 DEF Begins
    <3> QED BY <3>1, <3>2
  <2>5. new \in BothRec /\ new.stdout = f /\ new.stderr = e
    <3> DEFINE V == Seq(Character)
    <3>1. s \in [stdout : V, stderr : V] /\ f \in V
      BY <1>1, <2>4 DEF BothRec
    <3> HIDE DEF V
    <3>2. new \in [stdout : V, stderr : V] /\ new.stdout = f /\ new.stderr = s.stderr
      BY <2>1, <3>1
    <3> QED BY <3>2 DEF V, e, BothRec
  <2>6. BothBegin(new, a, b)
    BY <1>1, <2>4, <2>5 DEF BothBegin
  <2>7. Len(new.stdout) + Len(new.stderr) = Len(o) + Len(e) - 1
    BY <1>2, <2>3, <2>5
  <2> QED BY <2>6, <2>7 DEF new, o, e
<1>5. CASE ~ BothFit(s) /\ ~ (Len(Bytes(o)) >= Len(Bytes(e)))
  <2> DEFINE f == Front(e)
  <2>1. new = [s EXCEPT !.stderr = f]
    BY <1>5 DEF ShrinkStep, BothFit
  <2>2. e # <<>>
    <3>1. Len(Bytes(e)) # 0
      <4> DEFINE x == Len(Bytes(o))
                 y == Len(Bytes(e))
      <4>1. x \in Nat /\ y \in Nat /\ ~ (x >= y)
        BY <1>2, <1>5
      <4>2. y # 0
        <5> HIDE DEF x, y
        <5> QED BY <4>1
      <4> QED BY <4>2
    <3> QED BY <3>1, BytesEmpty
  <2> HIDE DEF o, e
  <2>3. Begins(f, e) /\ Len(f) = Len(e) - 1
    BY <1>1, <2>2, FrontBegins
  <2> HIDE DEF f, new
  <2>4. Begins(f, b) /\ f \in Seq(Character)
    <3>1. Begins(f, b)
      BY <1>1, <2>3, BeginsTrans
    <3>2. f \in Seq(Character)
      BY <2>3 DEF Begins
    <3> QED BY <3>1, <3>2
  <2>5. new \in BothRec /\ new.stdout = o /\ new.stderr = f
    <3> DEFINE V == Seq(Character)
    <3>1. s \in [stdout : V, stderr : V] /\ f \in V
      BY <1>1, <2>4 DEF BothRec
    <3> HIDE DEF V
    <3>2. new \in [stdout : V, stderr : V] /\ new.stdout = s.stdout /\ new.stderr = f
      BY <2>1, <3>1
    <3> QED BY <3>2 DEF V, o, BothRec
  <2>6. BothBegin(new, a, b)
    BY <1>1, <2>4, <2>5 DEF BothBegin
  <2>7. Len(new.stdout) + Len(new.stderr) = Len(o) + Len(e) - 1
    BY <1>2, <2>3, <2>5
  <2> QED BY <2>6, <2>7 DEF new, o, e
<1> QED BY <1>3, <1>4, <1>5

(* How many characters the two streams have. *)
BothLen(s) == Len(s.stdout) + Len(s.stderr)

(* The loop ends with two streams that fit: each turn that does not fit takes
   one character, and two empty streams fit. *)
LEMMA ShrunkIs ==
  ASSUME NEW a \in Seq(Character), NEW c \in Seq(Character),
         NEW p, Begins(p, a), NEW q, Begins(q, c)
  PROVE  BothBegin(Shrunk(p, q), a, c) /\ BothFit(Shrunk(p, q))
<1> HIDE DEF Character
<1> DEFINE b == [stdout |-> p, stderr |-> q]
           e == Len(p) + Len(q)
           S == {x \in BothRec : BothBegin(x, a, c)}
           F(h) == [k \in 0 .. e |-> IF k = 0 THEN b ELSE ShrinkStep(h[k - 1])]
           g == [x \in S \X (1 .. e) |-> ShrinkStep(x[1])]
           w == CHOOSE h : h = F(h)
<1>1. p \in Seq(Character) /\ q \in Seq(Character)
  BY DEF Begins
<1>2. e \in Nat /\ Len(p) \in Nat /\ Len(q) \in Nat
  BY <1>1, LenProperties
<1>3. Shrunk(p, q) = w[e]
  BY DEF Shrunk
<1>4. b \in S /\ b.stdout = p /\ b.stderr = q
  <2>1. b \in BothRec /\ b.stdout = p /\ b.stderr = q
    <3> DEFINE V == Seq(Character)
    <3>1. p \in V /\ q \in V
      BY <1>1
    <3> HIDE DEF V
    <3>2. b \in [stdout : V, stderr : V] /\ b.stdout = p /\ b.stderr = q
      BY <3>1
    <3> QED BY <3>2 DEF V, BothRec
  <2> HIDE DEF b
  <2>2. BothBegin(b, a, c)
    BY <2>1 DEF BothBegin
  <2> QED BY <2>1, <2>2
<1> HIDE DEF e
<1>5. \A x \in S : ShrinkStep(x) \in S
  <2> SUFFICES ASSUME NEW x \in S PROVE ShrinkStep(x) \in S
    OBVIOUS
  <2>1. BothBegin(ShrinkStep(x), a, c)
    BY ShrinkStepKeeps
  <2>2. ShrinkStep(x) \in BothRec
    BY <2>1 DEF BothBegin
  <2> QED BY <2>1, <2>2
<1>6. g \in [S \X (1 .. e) -> S]
  <2> HIDE DEF S
  <2> QED BY <1>5
<1>7. PICK f : Loops(f, S, b, e, g)
  <2> HIDE DEF S, b, g
  <2> QED BY <1>2, <1>4, <1>6, LoopRuns, Zenon
<1>8. f = F(f)
  <2> HIDE DEF S, b
  <2>1. f \in [0 .. e -> S] /\ f[0] = b
    BY <1>7 DEF Loops
  <2>2. ASSUME NEW k \in 1 .. e PROVE f[k] = ShrinkStep(f[k - 1])
    <3>1. f[k - 1] \in S /\ f[k] = g[<<f[k - 1], k>>]
      <4>1. k - 1 \in 0 .. e
        BY <1>2
      <4> HIDE DEF g
      <4> QED BY <1>7, <4>1 DEF Loops
    <3>2. g[<<f[k - 1], k>>] = ShrinkStep(f[k - 1])
      BY <3>1
    <3> QED BY <3>1, <3>2
  <2>3. ASSUME NEW k \in 0 .. e PROVE f[k] = F(f)[k]
    BY <1>2, <2>1, <2>2
  <2> QED BY <2>1, <2>3
<1>9. w = F(w)
  BY <1>8
<1> HIDE DEF w, b
<1>10. w[0] = b /\ \A k \in 1 .. e : w[k] = ShrinkStep(w[k - 1])
  BY <1>2, <1>9
<1> DEFINE T == {k \in 0 .. e : w[k] \in S /\ (BothFit(w[k]) \/ BothLen(w[k]) <= e - k)}
<1>11. 0 \in T
  <2>1. BothLen(w[0]) = e
    BY <1>4, <1>10 DEF e, BothLen
  <2> HIDE DEF S
  <2> QED BY <1>2, <1>4, <1>10, <2>1
<1>12. ASSUME NEW k \in 1 .. e, k - 1 \in T PROVE k \in T
  <2> DEFINE x == w[k - 1]
             y == w[k]
  <2>1. x \in S /\ (BothFit(x) \/ BothLen(x) <= e - (k - 1)) /\ y = ShrinkStep(x)
    BY <1>10, <1>12
  <2>2. BothBegin(x, a, c) /\ x \in BothRec
    BY <2>1
  <2>3. y \in S
    <3> HIDE DEF S
    <3> QED BY <1>5, <2>1
  <2>4. x.stdout \in Seq(Character) /\ x.stderr \in Seq(Character)
    BY <2>2 DEF BothRec
  <2>5. BothLen(x) \in Nat
    <3>1. Len(x.stdout) \in Nat /\ Len(x.stderr) \in Nat
      BY <2>4, LenProperties
    <3> DEFINE m == Len(x.stdout)
               n == Len(x.stderr)
    <3>2. BothLen(x) = m + n /\ m \in Nat /\ n \in Nat
      BY <3>1 DEF BothLen
    <3> HIDE DEF m, n
    <3> QED BY <3>2
  <2>6. (BothFit(x) /\ y = x) \/ BothLen(y) = BothLen(x) - 1
    <3> HIDE DEF x, y
    <3>1. \/ BothFit(x) /\ y = x
          \/ Len(y.stdout) + Len(y.stderr) = Len(x.stdout) + Len(x.stderr) - 1
      BY <2>1, <2>2, ShrinkStepKeeps
    <3>2. BothLen(x) = Len(x.stdout) + Len(x.stderr)
      BY DEF BothLen
    <3>3. BothLen(y) = Len(y.stdout) + Len(y.stderr)
      BY DEF BothLen
    <3>4. CASE BothFit(x) /\ y = x
      BY <3>4
    <3>5. CASE Len(y.stdout) + Len(y.stderr) = Len(x.stdout) + Len(x.stderr) - 1
      <4> DEFINE u == Len(x.stdout) + Len(x.stderr)
                 v == Len(y.stdout) + Len(y.stderr)
      <4>1. Len(x.stdout) \in Nat /\ Len(x.stderr) \in Nat
        BY <2>4, LenProperties
      <4>2. BothLen(x) = u /\ BothLen(y) = v
        BY <3>2, <3>3
      <4>3. v = u - 1
        <5> DEFINE i == Len(x.stdout)
                   j == Len(x.stderr)
        <5>1. v = i + j - 1 /\ u = i + j /\ i \in Nat /\ j \in Nat
          BY <3>5, <4>1
        <5> HIDE DEF i, j, u, v
        <5> QED BY <5>1
      <4> HIDE DEF u, v
      <4> QED BY <4>2, <4>3
    <3> QED BY <3>1, <3>4, <3>5
  <2>7. CASE BothLen(y) = BothLen(x) - 1 /\ BothLen(x) <= e - (k - 1)
    <3> DEFINE m == BothLen(x)
               n == BothLen(y)
    <3>1. n <= e - k
      <4>1. m \in Nat /\ n = m - 1 /\ m <= e - (k - 1)
        BY <2>5, <2>7
      <4> HIDE DEF m, n
      <4> QED BY <1>2, <4>1
    <3> HIDE DEF S
    <3> QED BY <2>3, <3>1
  <2>8. CASE BothFit(x)
    <3>1. y = x
      <4> HIDE DEF y, x
      <4> QED BY <2>1, <2>8 DEF ShrinkStep, BothFit
    <3> HIDE DEF S, x
    <3> QED BY <2>3, <2>8, <3>1
  <2> QED BY <2>1, <2>6, <2>7, <2>8
<1>13. e \in T
  <2> HIDE DEF T
  <2>1. \A k \in 0 .. e : k \in T
    BY <1>2, <1>11, <1>12, UpTo
  <2> QED BY <1>2, <2>1
<1> DEFINE z == w[e]
<1>14. BothBegin(z, a, c) /\ z \in BothRec /\ (BothFit(z) \/ BothLen(z) <= e - e)
  BY <1>13
<1> HIDE DEF z
<1>15. ASSUME BothLen(z) <= e - e PROVE BothFit(z)
  <2>1. z.stdout \in Seq(Character) /\ z.stderr \in Seq(Character)
    BY <1>14 DEF BothRec
  <2>2. Len(z.stdout) \in Nat /\ Len(z.stderr) \in Nat
    BY <2>1, LenProperties
  <2>3. Len(z.stdout) = 0 /\ Len(z.stderr) = 0
    <3> DEFINE m == Len(z.stdout)
               n == Len(z.stderr)
    <3>1. m \in Nat /\ n \in Nat /\ m + n <= e - e
      BY <1>15, <2>2 DEF BothLen
    <3> HIDE DEF m, n
    <3>2. m = 0 /\ n = 0
      BY <1>2, <3>1
    <3> QED BY <3>2 DEF m, n
  <2>4. z.stdout = <<>> /\ z.stderr = <<>>
    BY <2>1, <2>3, EmptySeq
  <2>5. Len(Bytes(z.stdout)) = 0 /\ Len(Bytes(z.stderr)) = 0
    BY <2>4, BytesEmpty
  <2>6. 0 + 0 <= Limit
    BY Capacities
  <2> QED BY <2>5, <2>6 DEF BothFit
<1>16. BothFit(z)
  BY <1>14, <1>15
<1> QED BY <1>3, <1>14, <1>16 DEF z

(* enforce_combined_limit: the beginnings of both streams, within the limit,
   and both whole when they fit. *)
LEMMA CombinedIs ==
  ASSUME NEW a \in Seq(Character), NEW c \in Seq(Character)
  PROVE  /\ BothBegin(Combined(a, c), a, c) /\ BothFit(Combined(a, c))
         /\ Len(Bytes(a)) + Len(Bytes(c)) <= Limit =>
              Combined(a, c).stdout = a /\ Combined(a, c).stderr = c
<1> HIDE DEF Character
<1>1. CASE Len(Bytes(a)) + Len(Bytes(c)) <= Limit
  <2> DEFINE s == [stdout |-> a, stderr |-> c]
  <2>1. Combined(a, c) = s
    BY <1>1 DEF Combined
  <2>2. s \in BothRec /\ s.stdout = a /\ s.stderr = c
    <3> DEFINE V == Seq(Character)
    <3>1. a \in V /\ c \in V
      OBVIOUS
    <3> HIDE DEF V
    <3>2. s \in [stdout : V, stderr : V] /\ s.stdout = a /\ s.stderr = c
      BY <3>1
    <3> QED BY <3>2 DEF V, BothRec
  <2> HIDE DEF s
  <2>3. Begins(a, a) /\ Begins(c, c)
    BY BeginsSelf
  <2>4. BothBegin(s, a, c) /\ BothFit(s)
    BY <1>1, <2>2, <2>3 DEF BothBegin, BothFit
  <2> QED BY <2>1, <2>2, <2>4
<1>2. CASE ~ (Len(Bytes(a)) + Len(Bytes(c)) <= Limit)
  <2> DEFINE h == HeadCapacity
             l == Limit - HeadCapacity
             m == MinLimit \div 2
             p == Truncated(a, Max({h, m}))
             q == Truncated(c, Max({l, m}))
  <2>1. Combined(a, c) = Shrunk(p, q)
    BY <1>2 DEF Combined
  <2>2. h \in Nat /\ l \in Nat
    BY Capacities
  <2>3. m \in Nat
    BY LimitAssumption
  <2> HIDE DEF h, l, m
  <2>4. Max({h, m}) \in Nat /\ Max({l, m}) \in Nat
    <3>1. Max({h, m}) = IF h >= m THEN h ELSE m
      BY <2>2, <2>3, MaxOfTwo
    <3>2. Max({l, m}) = IF l >= m THEN l ELSE m
      BY <2>2, <2>3, MaxOfTwo
    <3> QED BY <2>2, <2>3, <3>1, <3>2
  <2>5. Begins(p, a) /\ Begins(q, c)
    BY <2>4, TruncatedFits
  <2> HIDE DEF p, q
  <2>6. BothBegin(Shrunk(p, q), a, c) /\ BothFit(Shrunk(p, q))
    BY <2>5, ShrunkIs
  <2> QED BY <1>2, <2>1, <2>6
<1> QED BY <1>1, <1>2

-----------------------------------------------------------------------------
(* The beginning of a joined sequence. *)
LEMMA FirstPart ==
  ASSUME NEW S, NEW a \in Seq(S), NEW b \in Seq(S)
  PROVE  SubSeq(a \o b, 1, Len(a)) = a
<1>1. Len(a) \in Nat /\ Len(b) \in Nat /\ a \o b \in Seq(S) /\ Len(a \o b) = Len(a) + Len(b)
  BY LenProperties, ConcatProperties
<1>2. CASE a = <<>>
  <2> DEFINE c == a \o b
  <2>1. Len(a) = 0
    BY <1>2, EmptySeq
  <2>2. 0 \in 0 .. Len(c) /\ 1 \in Nat \ {0} /\ 1 > 0 /\ c \in Seq(S)
    BY <1>1
  <2> HIDE DEF c
  <2>3. SubSeq(c, 1, 0) = <<>>
    BY <2>2, Part
  <2> QED BY <1>2, <2>1, <2>3 DEF c
<1>3. CASE a # <<>>
  <2>1. Len(a) # 0
    BY <1>3, EmptySeq
  <2>2. 1 \in 1 .. Len(a) /\ Len(a) \in 1 .. Len(a)
    BY <1>1, <2>1
  <2>3. SubSeq(a \o b, 1, Len(a)) = SubSeq(a, 1, Len(a))
    BY <2>2, SubSeqOfConcat1
  <2> QED BY <2>3, SubSeqFull
<1> QED BY <1>2, <1>3

(* The three parts of a joined sequence, by their places. *)
LEMMA ThreeParts ==
  ASSUME NEW S, NEW a \in Seq(S), NEW m \in Seq(S), NEW b \in Seq(S),
         NEW C, C = a \o (m \o b)
  PROVE  /\ Len(C) = Len(a) + Len(m) + Len(b)
         /\ Len(a) \in Nat /\ Len(m) \in Nat /\ Len(b) \in Nat
         /\ SubSeq(C, 1, Len(a)) = a
         /\ SubSeq(C, Len(a) + 1, Len(a) + Len(m)) = m
         /\ SubSeq(C, Len(a) + Len(m) + 1, Len(C)) = b
<1> DEFINE mb == m \o b
           i == Len(a)
           j == Len(m)
           k == Len(b)
<1>1. mb \in Seq(S) /\ Len(mb) = j + k
  BY ConcatProperties
<1>2. SubSeq(mb, 1, j) = m
  BY FirstPart
<1>3. After(mb, j) = b
  <2>1. j \in 0 .. Len(m)
    BY LenProperties
  <2>2. After(m \o b, j) = After(m, j) \o b
    BY <2>1, AfterConcat
  <2>3. After(m, j) = <<>>
    BY AfterEnds
  <2>4. <<>> \o b = b
    BY ConcatEmptySeq
  <2> QED BY <2>2, <2>3, <2>4
<1>4. C = a \o mb
  OBVIOUS
<1>5. i \in Nat /\ j \in Nat /\ k \in Nat
  BY LenProperties
<1> HIDE DEF mb
<1>6. C \in Seq(S) /\ Len(C) = i + (j + k)
  BY <1>1, <1>4, ConcatProperties
<1>7. After(C, i) = mb
  <2>1. i \in 0 .. Len(a)
    BY <1>5
  <2>2. After(a \o mb, i) = After(a, i) \o mb
    BY <1>1, <2>1, AfterConcat
  <2>3. After(a, i) = <<>>
    BY AfterEnds
  <2>4. <<>> \o mb = mb
    BY <1>1, ConcatEmptySeq
  <2> QED BY <1>4, <2>2, <2>3, <2>4
<1>8. SubSeq(C, 1, i) = a
  BY <1>1, <1>4, FirstPart
<1>9. SubSeq(C, i + 1, i + j) = m
  <2>1. CASE m = <<>>
    <3>1. j = 0
      BY <2>1, EmptySeq
    <3> HIDE DEF i, j, k
    <3>2. i + 1 \in Nat \ {0} /\ i + j \in 0 .. Len(C) /\ i + 1 > i + j
      BY <1>5, <1>6, <3>1
    <3>3. SubSeq(C, i + 1, i + j) = <<>>
      BY <1>6, <3>2, Part
    <3> QED BY <2>1, <3>3
  <2>2. CASE m # <<>>
    <3>1. j # 0
      BY <2>2, EmptySeq
    <3>2. i + 1 \in i + 1 .. i + Len(mb) /\ i + j \in i + 1 .. i + Len(mb)
      <4> HIDE DEF i, j, k
      <4> QED BY <1>1, <1>5, <3>1
    <3>3. SubSeq(a \o mb, i + 1, i + j) = SubSeq(mb, i + 1 - i, i + j - i)
      BY <1>1, <3>2, SubSeqOfConcat2
    <3>4. i + 1 - i = 1 /\ i + j - i = j
      <4> HIDE DEF i, j, k
      <4> QED BY <1>5
    <3> QED BY <1>2, <1>4, <3>3, <3>4
  <2> QED BY <2>1, <2>2
<1>10. SubSeq(C, i + j + 1, Len(C)) = b
  <2>1. i \in 0 .. Len(C) /\ j \in 0 .. Len(C) - i
    <3> HIDE DEF i, j, k
    <3> QED BY <1>5, <1>6
  <2>2. After(After(C, i), j) = After(C, i + j)
    <3> HIDE DEF i, j
    <3> QED BY <1>6, <2>1, AfterAfter
  <2>3. After(C, i + j) = b
    BY <1>3, <1>7, <2>2
  <2> QED BY <2>3 DEF After
<1>11. Len(C) = i + j + k
  <2> HIDE DEF i, j, k
  <2> QED BY <1>5, <1>6
<1> QED BY <1>5, <1>8, <1>9, <1>10, <1>11

(* Nothing is in an empty text. *)
LEMMA NothingContained ==
  ASSUME NEW P
  PROVE  ~ ContainsPattern(<<>>, P) /\ ~ ContainsPattern(Bytes(<<>>), P)
<1>1. Len(<<>>) = 0
  OBVIOUS
<1>2. ~ ContainsPattern(<<>>, P)
  BY <1>1 DEF ContainsPattern
<1> QED BY <1>2, BytesEmpty

(* The patterns of a set of secrets. *)
LEMMA SecretPatterns ==
  ASSUME NEW secrets \in SecretSets
  PROVE  PatternSet(Patterns(secrets))
<1> DEFINE Q == {s.patterns : s \in secrets}
           f == [s \in secrets |-> s.patterns]
<1>1. IsFiniteSet(secrets)
      /\ \A s \in secrets : IsFiniteSet(s.patterns) /\ s.patterns \subseteq Seq(Byte) \ {<<>>}
  BY SecretAssumption
<1>2. f \in Surjection(secrets, Q)
  BY DEF Surjection
<1>3. \A T \in Q : IsFiniteSet(T) /\ T \subseteq Seq(Byte) \ {<<>>}
  BY <1>1
<1>4. Patterns(secrets) = UNION Q
  BY DEF Patterns
<1> HIDE DEF f, Q
<1>5. IsFiniteSet(Q)
  BY <1>1, <1>2, FS_Surjection
<1>6. IsFiniteSet(UNION Q)
  BY <1>3, <1>5, FS_UNION
<1>7. UNION Q \subseteq Seq(Byte) \ {<<>>}
  BY <1>3
<1> QED BY <1>4, <1>6, <1>7 DEF PatternSet

(* StreamingRedactor::new: nothing was read. *)
LEMMA NewRedactorIs ==
  ASSUME NEW secrets \in SecretSets
  PROVE  LET r == NewRedactor(secrets)
         IN  /\ r \in RdRec /\ PatternSet(r.patterns) /\ HasRead(r, <<>>)
             /\ Len(r.pending) < MaximumPattern(r.patterns)
<1> HIDE DEF Character
<1> DEFINE r == NewRedactor(secrets)
           P == Patterns(secrets)
           mk == IF ContainsPattern(Marker, P) THEN <<>> ELSE Marker
           cap == [head |-> <<>>, tail |-> <<>>, tailStarted |-> FALSE, total |-> 0]
           esc == [utf8 |-> <<>>, capture |-> cap]
           sup == \E s \in secrets : s.short
<1>1. PatternSet(P)
  BY SecretPatterns
<1>2. mk \in Seq(Byte) /\ <<>> \in Seq(Byte) /\ Len(<<>>) = 0
  BY TextAssumption, EmptySeq
<1>3. cap \in CaptureRec /\ cap.head = <<>> /\ cap.tail = <<>> /\ cap.total = 0
  <2> DEFINE V == Seq(Character)
  <2>1. <<>> \in V
    BY EmptySeq
  <2> HIDE DEF V
  <2>2. cap \in [head : V, tail : V, tailStarted : BOOLEAN, total : Nat]
    BY <2>1
  <2> QED BY <2>2 DEF V, CaptureRec
<1> HIDE DEF cap
<1>4. Captured(cap, <<>>)
  <2>1. <<>> \in Seq(Character) /\ <<>> = <<>> \o (<<>> \o <<>>)
    BY EmptySeq, ConcatEmptySeq
  <2>2. Len(Bytes(<<>>)) = 0 /\ 0 <= HeadCapacity
    BY BytesEmpty, Capacities
  <2> QED BY <1>3, <2>1, <2>2 DEF Captured
<1>5. esc \in EscRec /\ esc.capture = cap /\ esc.utf8 = <<>>
  BY <1>2, <1>3 DEF EscRec
<1> HIDE DEF esc, P, mk, sup
<1>6. SameDecoding(<<>>, <<>>, <<>>)
  <2> SUFFICES ASSUME NEW z \in Seq(Byte)
               PROVE  Decoded[<<>> \o z] = <<>> \o Decoded[<<>> \o z]
    BY DEF SameDecoding
  <2>1. <<>> \o z = z
    BY ConcatEmptySeq
  <2>2. <<>> \o Decoded[z] = Decoded[z]
    BY DecodedType, ConcatEmptySeq
  <2> QED BY <2>1, <2>2
<1>7. Escaping(esc, <<>>)
  <2>1. <<>> \in Seq(Character) /\ Cut(<<>>)
    BY EmptySeq DEF Cut
  <2> QED BY <1>2, <1>4, <1>5, <1>6, <2>1 DEF Escaping
<1>8. /\ r.patterns = P /\ r.marker = mk /\ r.pending = <<>> /\ r.count = 0
      /\ r.esc = esc
      /\ r = [patterns |-> P, marker |-> mk, pending |-> <<>>, count |-> 0,
              suppressed |-> sup, esc |-> esc]
  BY DEF NewRedactor, P, mk, cap, esc, sup
<1>9. sup \in BOOLEAN
  BY DEF sup
<1>10. r \in RdRec
  <2> DEFINE V == Seq(Byte)
  <2>1. P \in SUBSET V /\ mk \in V /\ <<>> \in V
    BY <1>1, <1>2 DEF PatternSet
  <2> HIDE DEF V, r
  <2>2. r \in [patterns : SUBSET V, marker : V, pending : V, count : Nat,
               suppressed : BOOLEAN, esc : EscRec]
    BY <1>5, <1>8, <1>9, <2>1
  <2> QED BY <2>2 DEF V, RdRec
<1> HIDE DEF r
<1>11. SameRedaction(P, mk, Seq(Byte), <<>>, <<>>, 0, <<>>)
  BY <1>1, <1>2, RedactsNothing
<1>12. HasRead(r, <<>>)
  BY <1>2, <1>7, <1>8, <1>11 DEF HasRead
<1>13. MaximumPattern(P) \in Nat \ {0}
  BY <1>1, MaximumPatternIs
<1>14. Len(r.pending) < MaximumPattern(r.patterns)
  BY <1>2, <1>8, <1>13
<1> QED BY <1>1, <1>8, <1>10, <1>12, <1>14 DEF r

-----------------------------------------------------------------------------
(* What the end of the pipe leaves, for the text t: no pattern, and unless the
   whole output was suppressed the characters of the redacted text. *)
OutDone(o, r, t) ==
  /\ ~ ContainsPattern(Bytes(o.text), r.patterns)
  /\ ~ r.suppressed =>
       /\ o.count = Redacted(r.patterns, r.marker)[t].count
       /\ o.suppressed \/ Finished(o, Decoded[Redacted(r.patterns, r.marker)[t].bytes])
OutShape(o) ==
  /\ o.done \in BOOLEAN /\ o.text \in Seq(Character) /\ Len(Bytes(o.text)) <= Limit
  /\ o.suppressed => o.text = <<>>
  /\ ~ o.truncated => o.omitted = 0

(* finish of the redactor. *)
LEMMA OutputOfIs ==
  ASSUME NEW r \in RdRec, PatternSet(r.patterns), NEW t \in Seq(Byte),
         r.suppressed \/ HasRead(r, t)
  PROVE  LET o == OutputOf(r) IN o.done /\ OutShape(o) /\ OutDone(o, r, t)
<1> HIDE DEF Character
<1> DEFINE o == OutputOf(r)
<1>1. <<>> \in Seq(Character) /\ Len(Bytes(<<>>)) <= Limit
      /\ ~ ContainsPattern(Bytes(<<>>), r.patterns)
  <2>1. <<>> \in Seq(Character)
    BY EmptySeq
  <2>2. 0 <= Limit
    BY Capacities
  <2> QED BY <2>1, <2>2, BytesEmpty, NothingContained
<1>2. CASE r.suppressed
  <2>1. /\ o.done = TRUE /\ o.text = <<>> /\ o.suppressed = TRUE
        /\ o.truncated = FALSE /\ o.omitted = 0
    BY <1>2 DEF OutputOf, NoOutput
  <2> HIDE DEF o
  <2> QED BY <1>1, <1>2, <2>1 DEF OutShape, OutDone, o
<1>3. CASE ~ r.suppressed
  <2> DEFINE last == Process(r, TRUE)
             whole == Redacted(r.patterns, r.marker)[t]
             cap == CaptureFinish(EscaperFinish(last.esc))
             joined == ContainsPattern(Bytes(cap.text), r.patterns)
             C == Decoded[whole.bytes]
  <2>1. last.count = whole.count /\ Escaping(last.esc, whole.bytes)
    BY <1>3, FinishReads
  <2> HIDE DEF whole
  <2>2. Captured(EscaperFinish(last.esc), C)
    <3> HIDE DEF last
    <3> QED BY <2>1, EscaperFinishKeeps
  <2>3. Finished(cap, C)
    <3> HIDE DEF last, C
    <3> QED BY <2>2, FinishKeeps
  <2>4. /\ o.done = TRUE /\ o.text = (IF joined THEN <<>> ELSE cap.text)
        /\ o.count = last.count /\ o.truncated = cap.truncated
        /\ o.omitted = cap.omitted /\ o.suppressed = joined
    BY <1>3 DEF OutputOf
  <2>5. joined \in BOOLEAN
    BY DEF ContainsPattern
  <2>6. joined <=> ContainsPattern(Bytes(cap.text), r.patterns)
    OBVIOUS
  <2> HIDE DEF o, cap, joined, last, C
  <2>7. cap.text \in Seq(Character) /\ Len(Bytes(cap.text)) <= Limit
        /\ cap.truncated \in BOOLEAN /\ (~ cap.truncated => cap.omitted = 0)
    BY <2>3 DEF Finished
  <2>8. CASE joined
    <3>1. o.text = <<>> /\ o.suppressed = TRUE
      BY <2>4, <2>5, <2>8
    <3>2. OutShape(o)
      BY <1>1, <2>4, <2>7, <3>1 DEF OutShape
    <3>3. o.count = Redacted(r.patterns, r.marker)[t].count
      BY <2>1, <2>4 DEF whole
    <3>4. OutDone(o, r, t)
      BY <1>1, <3>1, <3>3 DEF OutDone
    <3> QED BY <2>4, <3>2, <3>4 DEF o
  <2>9. CASE ~ joined
    <3>1. o.text = cap.text /\ o.suppressed = FALSE
      BY <2>4, <2>5, <2>9
    <3>2. OutShape(o)
      BY <2>4, <2>7, <3>1 DEF OutShape
    <3>3. o.count = Redacted(r.patterns, r.marker)[t].count
      BY <2>1, <2>4 DEF whole
    <3>4. Finished(o, C)
      BY <2>3, <2>4, <3>1 DEF Finished
    <3>5. ~ ContainsPattern(Bytes(o.text), r.patterns)
      BY <2>6, <2>9, <3>1
    <3>6. OutDone(o, r, t)
      BY <3>3, <3>4, <3>5 DEF OutDone, C, whole
    <3> QED BY <2>4, <3>2, <3>6 DEF o
  <2> QED BY <2>5, <2>8, <2>9
<1> QED BY <1>2, <1>3

(* The inductive invariant: the redactor has read the text, what the end of the
   pipe left is the output of that text, and what is shown begins it. *)
ReaderInv ==
  /\ text \in Seq(Byte) /\ Len(text) <= MaxText
  /\ rd \in RdRec /\ PatternSet(rd.patterns)
  /\ Len(rd.pending) < MaximumPattern(rd.patterns)
  /\ rd.suppressed \/ HasRead(rd, text)
OutputInv == OutShape(out) /\ (out.done => OutDone(out, rd, text))
ShownInv ==
  /\ shown.done \in BOOLEAN
  /\ ~ shown.done => shown.stdout = <<>>
  /\ shown.done =>
       /\ out.done /\ Begins(shown.stdout, out.text) /\ Begins(shown.stderr, shown.other)
       /\ BothFit(shown)
       /\ Len(Bytes(out.text)) + Len(Bytes(shown.other)) <= Limit =>
            shown.stdout = out.text /\ shown.stderr = shown.other
RedactionInv == ReaderInv /\ OutputInv /\ ShownInv

(* It holds before anything is read. *)
LEMMA RedactionInvInit ==
  ASSUME RedactionInit
  PROVE  RedactionInv
<1> HIDE DEF Character
<1>1. PICK secrets \in SecretSets : rd = NewRedactor(secrets)
  BY DEF RedactionInit
<1>2. text = <<>> /\ out = NoOutput /\ shown = NotShown
  BY DEF RedactionInit
<1>3. /\ rd \in RdRec /\ PatternSet(rd.patterns) /\ HasRead(rd, <<>>)
      /\ Len(rd.pending) < MaximumPattern(rd.patterns)
  BY <1>1, NewRedactorIs
<1>4. <<>> \in Seq(Byte) /\ Len(<<>>) = 0 /\ <<>> \in Seq(Character)
  BY EmptySeq
<1>5. 0 <= MaxText /\ 0 <= Limit
  BY LimitAssumption
<1>6. ReaderInv
  BY <1>2, <1>3, <1>4, <1>5 DEF ReaderInv
<1>7. OutputInv
  BY <1>2, <1>4, <1>5, BytesEmpty DEF OutputInv, OutShape, NoOutput
<1>8. ShownInv
  BY <1>2 DEF ShownInv, NotShown
<1> QED BY <1>6, <1>7, <1>8 DEF RedactionInv

(* A read of the pipe keeps it. *)
LEMMA PushStep ==
  ASSUME RedactionInv, NEW chunk \in Chunks, Push(chunk)
  PROVE  RedactionInv'
<1> HIDE DEF Character
<1>1. chunk \in Seq(Byte) /\ text \in Seq(Byte) /\ MaxText \in Nat
  BY TextAssumption, LimitAssumption DEF RedactionInv, ReaderInv
<1>2. /\ ~ out.done /\ Len(text) + Len(chunk) <= MaxText /\ text' = text \o chunk
      /\ out' = out /\ shown' = shown
      /\ rd' = IF rd.suppressed THEN rd
               ELSE Process([rd EXCEPT !.pending = @ \o chunk], FALSE)
  BY DEF Push
<1>3. text' \in Seq(Byte) /\ Len(text') <= MaxText
  BY <1>1, <1>2, ConcatProperties
<1>4. /\ rd \in RdRec /\ PatternSet(rd.patterns)
      /\ Len(rd.pending) < MaximumPattern(rd.patterns)
      /\ rd.suppressed \/ HasRead(rd, text)
  BY DEF RedactionInv, ReaderInv
<1>5. CASE rd.suppressed
  <2>1. rd' = rd
    BY <1>2, <1>5
  <2> QED BY <1>2, <1>3, <1>4, <1>5, <2>1
        DEF RedactionInv, ReaderInv, OutputInv, ShownInv
<1>6. CASE ~ rd.suppressed
  <2> DEFINE new == Process([rd EXCEPT !.pending = @ \o chunk], FALSE)
  <2>1. /\ new \in RdRec /\ new.patterns = rd.patterns /\ HasRead(new, text \o chunk)
        /\ Len(new.pending) < MaximumPattern(rd.patterns)
    BY <1>1, <1>4, <1>6, PushReads
  <2>2. rd' = new
    BY <1>2, <1>6
  <2> HIDE DEF new
  <2>3. ReaderInv'
    BY <1>2, <1>3, <1>4, <2>1, <2>2 DEF ReaderInv
  <2> QED BY <1>2, <2>3 DEF RedactionInv, OutputInv, ShownInv
<1> QED BY <1>5, <1>6

(* The end of the pipe keeps it. *)
LEMMA FinishReaderStep ==
  ASSUME RedactionInv, FinishReader
  PROVE  RedactionInv'
<1> HIDE DEF Character
<1>1. ~ out.done /\ out' = OutputOf(rd) /\ text' = text /\ rd' = rd /\ shown' = shown
  BY DEF FinishReader
<1>2. rd \in RdRec /\ PatternSet(rd.patterns) /\ text \in Seq(Byte)
      /\ (rd.suppressed \/ HasRead(rd, text))
  BY DEF RedactionInv, ReaderInv
<1> DEFINE o == OutputOf(rd)
<1>3. o.done /\ OutShape(o) /\ OutDone(o, rd, text)
  BY <1>2, OutputOfIs
<1> HIDE DEF o
<1>4. out' = o
  BY <1>1 DEF o
<1>5. OutputInv'
  BY <1>1, <1>3, <1>4 DEF OutputInv
<1>6. ReaderInv'
  BY <1>1 DEF RedactionInv, ReaderInv
<1>7. ~ shown.done
  BY <1>1 DEF RedactionInv, ShownInv
<1>8. ShownInv'
  BY <1>1, <1>7 DEF RedactionInv, ShownInv
<1> QED BY <1>5, <1>6, <1>8 DEF RedactionInv

(* enforce_combined_limit keeps it. *)
LEMMA CombineStep ==
  ASSUME RedactionInv, NEW other \in OtherTexts, Combine(other)
  PROVE  RedactionInv'
<1> HIDE DEF Character
<1> DEFINE both == Combined(out.text, other)
<1>1. /\ out.done /\ ~ shown.done /\ text' = text /\ rd' = rd /\ out' = out
      /\ shown' = [done |-> TRUE, stdout |-> both.stdout, stderr |-> both.stderr,
                   other |-> other]
  BY DEF Combine
<1>2. out.text \in Seq(Character) /\ other \in Seq(Character)
  BY TextAssumption DEF RedactionInv, OutputInv, OutShape
<1>3. /\ BothBegin(both, out.text, other) /\ BothFit(both)
      /\ Len(Bytes(out.text)) + Len(Bytes(other)) <= Limit =>
           both.stdout = out.text /\ both.stderr = other
  BY <1>2, CombinedIs
<1> HIDE DEF both
<1>4. /\ shown'.done = TRUE /\ shown'.stdout = both.stdout
      /\ shown'.stderr = both.stderr /\ shown'.other = other
  BY <1>1
<1>5. ReaderInv' /\ OutputInv'
  BY <1>1 DEF RedactionInv, ReaderInv, OutputInv
<1>6. BothFit(shown)'
  BY <1>3, <1>4 DEF BothFit
<1>7. ShownInv'
  BY <1>1, <1>3, <1>4, <1>6 DEF ShownInv, BothBegin
<1> QED BY <1>5, <1>7 DEF RedactionInv

(* Every step keeps it. *)
LEMMA RedactionStep ==
  ASSUME RedactionInv, [RedactionNext]_RedactionVars
  PROVE  RedactionInv'
<1>1. ASSUME NEW chunk \in Chunks, Push(chunk) PROVE RedactionInv'
  BY <1>1, PushStep
<1>2. CASE FinishReader
  BY <1>2, FinishReaderStep
<1>3. ASSUME NEW other \in OtherTexts, Combine(other) PROVE RedactionInv'
  BY <1>3, CombineStep
<1>4. CASE UNCHANGED RedactionVars
  BY <1>4 DEF RedactionVars, RedactionInv, ReaderInv, OutputInv, ShownInv
<1> QED BY <1>1, <1>2, <1>3, <1>4 DEF RedactionNext

(* It always holds. *)
THEOREM RedactionInvAlways == RedactionSpec => []RedactionInv
<1>1. RedactionInit => RedactionInv
  BY RedactionInvInit
<1>2. RedactionInv /\ [RedactionNext]_RedactionVars => RedactionInv'
  BY RedactionStep
<1> QED BY <1>1, <1>2, PTL DEF RedactionSpec

(* The redactor and the output keep their shape: what waits for more input is
   shorter than the longest pattern, and a suppressed output has no text. *)
THEOREM RedactionTypes == RedactionSpec => []RedactionTypeOK
<1>1. RedactionInv => RedactionTypeOK
  BY DEF RedactionInv, ReaderInv, OutputInv, OutShape, ShownInv, RedactionTypeOK
<1> QED BY <1>1, RedactionInvAlways, PTL

(* However the output of a command is cut into reads, the result is that of
   redacting and escaping the whole text at once, whole or with its middle
   dropped at characters and the number of dropped bytes (process,
   Utf8Escaper, BoundedCapture). *)
THEOREM ChunkingIsAlwaysInvisible == RedactionSpec => []ChunkingIsInvisible
<1>1. ASSUME RedactionInv PROVE ChunkingIsInvisible
  <2> HIDE DEF Character
  <2> DEFINE whole == Redacted(rd.patterns, rd.marker)[text]
             chars == Decoded[whole.bytes]
             n == Len(chars)
  <2> SUFFICES ASSUME out.done, ~ rd.suppressed
               PROVE  /\ out.count = whole.count
                      /\ out.suppressed \/
                           IF ~ out.truncated THEN out.text = chars
                           ELSE \E i \in 0 .. n : \E j \in i + 1 .. n + 1 :
                                  /\ out.text = SubSeq(chars, 1, i) \o OmittedLine(out.omitted)
                                                  \o SubSeq(chars, j, n)
                                  /\ out.omitted = Len(Bytes(SubSeq(chars, i + 1, j - 1)))
    BY DEF ChunkingIsInvisible
  <2>1. out.count = whole.count /\ (out.suppressed \/ Finished(out, chars))
    BY <1>1 DEF RedactionInv, OutputInv, OutDone
  <2> HIDE DEF whole, chars
  <2>2. ASSUME Finished(out, chars), out.truncated
        PROVE  \E i \in 0 .. n : \E j \in i + 1 .. n + 1 :
                 /\ out.text = SubSeq(chars, 1, i) \o OmittedLine(out.omitted)
                                 \o SubSeq(chars, j, n)
                 /\ out.omitted = Len(Bytes(SubSeq(chars, i + 1, j - 1)))
    <3>1. PICK a \in Seq(Character), m \in Seq(Character), b \in Seq(Character) :
            /\ chars = a \o (m \o b) /\ out.text = (a \o OmittedLine(out.omitted)) \o b
            /\ out.omitted = Len(Bytes(m))
      BY <2>2 DEF Finished
    <3> DEFINE i == Len(a)
               d == Len(m)
               k == Len(b)
               j == i + d + 1
    <3>2. /\ n = i + d + k /\ i \in Nat /\ d \in Nat /\ k \in Nat
          /\ SubSeq(chars, 1, i) = a /\ SubSeq(chars, i + 1, i + d) = m
          /\ SubSeq(chars, j, n) = b
      BY <3>1, ThreeParts
    <3> HIDE DEF i, d, k, n
    <3>3. i \in 0 .. n /\ j \in i + 1 .. n + 1 /\ j - 1 = i + d
      BY <3>2
    <3> HIDE DEF j
    <3>4. /\ out.text = SubSeq(chars, 1, i) \o OmittedLine(out.omitted)
                                 \o SubSeq(chars, j, n)
          /\ out.omitted = Len(Bytes(SubSeq(chars, i + 1, j - 1)))
      BY <3>1, <3>2, <3>3
    <3> QED BY <3>3, <3>4
  <2>3. ASSUME Finished(out, chars), ~ out.truncated PROVE out.text = chars
    BY <2>3 DEF Finished
  <2> QED BY <2>1, <2>2, <2>3
<1> QED BY <1>1, RedactionInvAlways, PTL

(* No pattern of any secret is ever in what a run returns, also where
   replacing, escaping or dropping joined bytes (StreamingRedactor::finish). *)
THEOREM PatternsAreNeverShown == RedactionSpec => []PatternsNeverShown
<1>1. ASSUME RedactionInv PROVE PatternsNeverShown
  <2> HIDE DEF Character
  <2>1. PatternSet(rd.patterns)
    BY <1>1 DEF RedactionInv, ReaderInv
  <2>2. ASSUME out.done
        PROVE  /\ ~ ContainsPattern(Bytes(out.text), rd.patterns)
               /\ ~ ContainsPattern(Bytes(shown.stdout), rd.patterns)
    <3>1. ~ ContainsPattern(Bytes(out.text), rd.patterns)
      BY <1>1, <2>2 DEF RedactionInv, OutputInv, OutDone
    <3>2. CASE shown.done
      <4>1. Begins(shown.stdout, out.text)
        BY <1>1, <3>2 DEF RedactionInv, ShownInv
      <4> QED BY <2>1, <3>1, <4>1, BeginsPatterns
    <3>3. CASE ~ shown.done
      <4>1. shown.stdout = <<>>
        BY <1>1, <3>3 DEF RedactionInv, ShownInv
      <4> QED BY <2>1, <3>1, <4>1, NothingContained
    <3> QED BY <3>2, <3>3
  <2>3. ASSUME shown.done, ~ ContainsPattern(Bytes(shown.other), rd.patterns)
        PROVE  ~ ContainsPattern(Bytes(shown.stderr), rd.patterns)
    <3>1. Begins(shown.stderr, shown.other)
      BY <1>1, <2>3 DEF RedactionInv, ShownInv
    <3> QED BY <2>1, <2>3, <3>1, BeginsPatterns
  <2> QED BY <2>2, <2>3 DEF PatternsNeverShown
<1> QED BY <1>1, RedactionInvAlways, PTL

(* Each stream stays within the limit with the line about dropped bytes, and so
   do both together, which lose whole characters at their ends and nothing when
   they fit (BoundedCapture::finish, enforce_combined_limit). *)
THEOREM OutputIsAlwaysBounded == RedactionSpec => []OutputBounded
<1>1. ASSUME RedactionInv PROVE OutputBounded
  <2> HIDE DEF Character
  <2>1. Len(Bytes(out.text)) <= Limit
    BY <1>1 DEF RedactionInv, OutputInv, OutShape
  <2>2. ASSUME shown.done
        PROVE  /\ Begins(shown.stdout, out.text) /\ Begins(shown.stderr, shown.other)
               /\ BothFit(shown)
               /\ Len(Bytes(out.text)) + Len(Bytes(shown.other)) <= Limit =>
                    shown.stdout = out.text /\ shown.stderr = shown.other
    BY <1>1, <2>2 DEF RedactionInv, ShownInv
  <2>3. ASSUME shown.done
        PROVE  IsPrefix(shown.stdout, out.text) /\ IsPrefix(shown.stderr, shown.other)
    BY <2>2, <2>3, BeginsIsPrefix
  <2>4. ASSUME shown.done
        PROVE  Len(Bytes(shown.stdout)) + Len(Bytes(shown.stderr)) <= Limit
    BY <2>2, <2>4 DEF BothFit
  <2> QED BY <2>1, <2>2, <2>3, <2>4 DEF OutputBounded
<1> QED BY <1>1, RedactionInvAlways, PTL
=============================================================================
