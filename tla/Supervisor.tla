----------------------------- MODULE Supervisor -----------------------------
(***************************************************************************)
(* One supervised command per run (supervisor.rs): the temporary files     *)
(* that carry secrets, the process group, the poll loop with its           *)
(* TERM-to-KILL escalation, the output readers, and what the start of an   *)
(* application does to the directories earlier runs left (desktop.rs,      *)
(* acquire_runtime).  Applications are processes of one user: they share   *)
(* the temporary root and the endpoint, and each has the instance lock of  *)
(* its own vault's directory.                                              *)
(***************************************************************************)
EXTENDS Naturals, FiniteSets

CONSTANTS
  Apps,      \* application processes that may be started
  VaultOf,   \* the vault directory each of them uses
  Runs,      \* the runs of a behaviour, each used once
  NoApp,     \* not an application
  Forking,   \* the runs whose command starts another process
  Escapes,   \* whether such a process may leave the process group
  PidReuse   \* whether the system gives a freed group id to a stranger

ASSUME AppsAssumption == /\ NoApp \notin Apps
                         /\ VaultOf \in [Apps -> {VaultOf[a] : a \in Apps}]
                         /\ Forking \subseteq Runs
                         /\ {Escapes, PidReuse} \subseteq BOOLEAN

VARIABLES
  app,    \* how far the start of each application has come
  owner,  \* the application that supervises a run
  run,    \* the supervisor's own record of a run
  tree,   \* the processes of a run
  disk    \* the temporary directory of a run

vars == <<app, owner, run, tree, disk>>

Phases == {"new", "bind", "spawn", "wait", "finish", "grace", "confirm",
           "join", "ended", "lost"}
Terminations == {"Exited", "TimedOut", "Cancelled"}
Lives == {"none", "alive", "zombie", "gone"}

\* The directory on disk: without its marker ("bare"), with the marker
\* written and synced, and with a secret file in it.
Dirs == {"absent", "bare", "marked", "secret"}

TypeOK ==
  /\ app \in [Apps -> {"down", "locked", "cleaned", "serving"}]
  /\ owner \in [Runs -> Apps \cup {NoApp}]
  /\ run \in [Runs -> [pc : Phases, files : BOOLEAN,
                       why : Terminations \cup {"none"},
                       result : Terminations \cup {"none", "Failed", "Busy"},
                       cancelled : BOOLEAN, expired : BOOLEAN,
                       warning : BOOLEAN]]
  /\ tree \in [Runs -> [child : Lives, kid : Lives, kidInGroup : BOOLEAN,
                        kidHoldsPipe : BOOLEAN,
                        stranger : {"none", "alive", "signalled"}]]
  /\ disk \in [Runs -> Dirs]
  /\ \A r \in Runs : (run[r].pc = "ended") = (run[r].result # "none")

Init ==
  /\ app = [a \in Apps |-> "down"]
  /\ owner = [r \in Runs |-> NoApp]
  /\ run = [r \in Runs |->
              [pc |-> "new", files |-> FALSE, why |-> "none", result |-> "none",
               cancelled |-> FALSE, expired |-> FALSE, warning |-> FALSE]]
  /\ tree = [r \in Runs |->
              [child |-> "none", kid |-> "none", kidInGroup |-> FALSE,
               kidHoldsPipe |-> FALSE, stranger |-> "none"]]
  /\ disk = [r \in Runs |-> "absent"]

\* Whether a thread of the owner still executes the run.
Supervised(r) == run[r].pc \notin {"new", "ended", "lost"}

-----------------------------------------------------------------------------
(* Starting an application: instance lock, scavenging, endpoint.           *)

\* InstanceLock::acquire: the file lock of the vault's directory.
AcquireLock(a) ==
  /\ app[a] = "down"
  /\ \A b \in Apps : VaultOf[b] = VaultOf[a] => app[b] = "down"
  /\ app' = [app EXCEPT ![a] = "locked"]
  /\ UNCHANGED <<owner, run, tree, disk>>

CleanupMutant(a) ==
  /\ app[a] = "locked"
  /\ disk' = [r \in Runs |-> IF disk[r] = "marked" THEN "absent" ELSE disk[r]]
  /\ app' = [app EXCEPT ![a] = "cleaned"]
  /\ UNCHANGED <<owner, run, tree>>

\* Every directory that carries a valid marker is removed, whoever made it.
Cleanup(a) ==
  /\ app[a] = "locked"
  /\ disk' = [r \in Runs |-> IF disk[r] \in {"marked", "secret"}
                             THEN "absent" ELSE disk[r]]
  /\ app' = [app EXCEPT ![a] = "cleaned"]
  /\ UNCHANGED <<owner, run, tree>>

\* A directory that cannot be removed ends the start; some may be gone.
CleanupFails(a) ==
  /\ app[a] = "locked"
  /\ \E kept \in Runs :
       /\ disk[kept] \in {"marked", "secret"}
       /\ \E removed \in SUBSET {r \in Runs \ {kept} :
                                   disk[r] \in {"marked", "secret"}} :
            disk' = [r \in Runs |-> IF r \in removed THEN "absent" ELSE disk[r]]
  /\ app' = [app EXCEPT ![a] = "down"]
  /\ UNCHANGED <<owner, run, tree>>

\* LocalServer::bind: one server per endpoint, the loser exits.
BindEndpoint(a) ==
  /\ app[a] = "cleaned"
  /\ app' = [app EXCEPT ![a] = IF \E b \in Apps : app[b] = "serving"
                               THEN "down" ELSE "serving"]
  /\ UNCHANGED <<owner, run, tree, disk>>

\* The application dies: its threads are gone, the processes and files stay.
Crash(a) ==
  /\ app[a] # "down"
  /\ app' = [app EXCEPT ![a] = "down"]
  /\ run' = [r \in Runs |-> IF owner[r] = a /\ Supervised(r)
                            THEN [run[r] EXCEPT !.pc = "lost"]
                            ELSE run[r]]
  /\ UNCHANGED <<owner, tree, disk>>

-----------------------------------------------------------------------------
(* Leaving a run.                                                          *)

\* The error paths: the directory is dropped, and a failing removal is not
\* reported; the reader threads are left to themselves.
Abandon(r, result) ==
  /\ run' = [run EXCEPT ![r].pc = "ended", ![r].result = result]
  /\ disk' \in {disk, [disk EXCEPT ![r] = "absent"]}
  /\ UNCHANGED <<app, owner, tree>>

Failing(r) == Abandon(r, "Failed")

-----------------------------------------------------------------------------
(* Starting a run: RunningGuard, validation, bindings, launch.             *)

\* A second run of the same supervisor is refused while one is supervised.
Start(a, r) ==
  /\ app[a] = "serving" /\ run[r].pc = "new"
  /\ owner' = [owner EXCEPT ![r] = a]
  /\ \E files \in BOOLEAN :
       run' = [run EXCEPT ![r] =
                 IF \E s \in Runs : owner[s] = a /\ Supervised(s)
                 THEN [@ EXCEPT !.pc = "ended", !.result = "Busy"]
                 ELSE [@ EXCEPT !.pc = "bind", !.files = files]]
  /\ UNCHANGED <<app, tree, disk>>

\* The file system checks, the resolution of the secrets, a redactor or a
\* binding that is refused, or a file that cannot be made.
BindFails(r) == run[r].pc = "bind" /\ Failing(r)

\* ensure_temp_directory: the directory, then the synced marker.
MakeDirectory(r) ==
  /\ run[r].pc = "bind" /\ run[r].files /\ disk[r] \in {"absent", "bare"}
  /\ disk' = [disk EXCEPT ![r] = IF @ = "absent" THEN "bare" ELSE "marked"]
  /\ UNCHANGED <<app, owner, run, tree>>

\* write_temporary_secret, in the directory made before it.
WriteSecret(r) ==
  /\ run[r].pc = "bind" /\ run[r].files /\ disk[r] = "marked"
  /\ disk' = [disk EXCEPT ![r] = "secret"]
  /\ UNCHANGED <<app, owner, run, tree>>

\* Every binding has been applied.
Bound(r) ==
  /\ run[r].pc = "bind" /\ (run[r].files => disk[r] = "secret")
  /\ run' = [run EXCEPT ![r].pc = "spawn"]
  /\ UNCHANGED <<app, owner, tree, disk>>

\* The launch gate refuses a cancelled run; a spawn may fail.
LaunchRefused(r) == run[r].pc = "spawn" /\ Failing(r)

\* The child starts in a group of its own, its output in the pipes.
Launch(r) ==
  /\ run[r].pc = "spawn" /\ ~ run[r].cancelled
  /\ tree' = [tree EXCEPT ![r].child = "alive"]
  /\ run' = [run EXCEPT ![r].pc = "wait"]
  /\ UNCHANGED <<app, owner, disk>>

-----------------------------------------------------------------------------
(* The processes of a run, outside the supervisor's control.               *)

Fork(r) ==
  /\ r \in Forking /\ tree[r].child = "alive" /\ tree[r].kid = "none"
  /\ tree' = [tree EXCEPT ![r].kid = "alive", ![r].kidInGroup = TRUE,
                          ![r].kidHoldsPipe = TRUE]
  /\ UNCHANGED <<app, owner, run, disk>>

LeaveGroup(r) ==
  /\ Escapes /\ tree[r].kid = "alive" /\ tree[r].kidInGroup
  /\ tree' = [tree EXCEPT ![r].kidInGroup = FALSE]
  /\ UNCHANGED <<app, owner, run, disk>>

ClosePipe(r) ==
  /\ tree[r].kid = "alive" /\ tree[r].kidHoldsPipe
  /\ tree' = [tree EXCEPT ![r].kidHoldsPipe = FALSE]
  /\ UNCHANGED <<app, owner, run, disk>>

\* A process ends by itself or by SIGTERM; its parent has yet to reap it.
Exit(r) ==
  /\ \/ /\ tree[r].child = "alive"
        /\ tree' = [tree EXCEPT ![r].child = "zombie"]
     \/ /\ tree[r].kid = "alive"
        /\ tree' = [tree EXCEPT ![r].kid = "zombie", ![r].kidHoldsPipe = FALSE]
  /\ UNCHANGED <<app, owner, run, disk>>

\* The system reaps an orphan.
ReapOrphan(r) ==
  /\ tree[r].kid = "zombie" /\ tree[r].child # "alive"
  /\ tree' = [tree EXCEPT ![r].kid = "gone"]
  /\ UNCHANGED <<app, owner, run, disk>>

KidInGroup(r) == tree[r].kid \in {"alive", "zombie"} /\ tree[r].kidInGroup

\* UnixProcessGroup::exists: some process answers to the group id.
Exists(r) ==
  \/ tree[r].child \in {"alive", "zombie"}
  \/ KidInGroup(r)
  \/ tree[r].stranger # "none"

\* The id of an emptied group, its leader reaped, is used again.
Reuse(r) ==
  /\ PidReuse /\ tree[r].child = "gone" /\ ~ Exists(r)
  /\ tree' = [tree EXCEPT ![r].stranger = "alive"]
  /\ UNCHANGED <<app, owner, run, disk>>

\* kill(-id): what SIGTERM starts is left to Exit, SIGKILL ends the members.
Signalled(r, kill) ==
  [tree[r] EXCEPT
     !.stranger = IF @ = "none" THEN @ ELSE "signalled",
     !.child = IF kill /\ @ = "alive" THEN "zombie" ELSE @,
     !.kid = IF kill /\ @ = "alive" /\ KidInGroup(r) THEN "zombie" ELSE @,
     !.kidHoldsPipe = @ /\ ~ (kill /\ KidInGroup(r))]

-----------------------------------------------------------------------------
(* wait_for_child and terminate_with_status.                               *)

\* The client, a lock or a revocation cancels; the timeout passes.
Cancel(r) ==
  /\ Supervised(r) /\ ~ run[r].cancelled
  /\ run' = [run EXCEPT ![r].cancelled = TRUE]
  /\ UNCHANGED <<app, owner, tree, disk>>

Expire(r) ==
  /\ run[r].pc = "wait" /\ ~ run[r].expired
  /\ run' = [run EXCEPT ![r].expired = TRUE]
  /\ UNCHANGED <<app, owner, tree, disk>>

\* try_wait reaps the exited child; the tree is still to be finished.
PollExit(r) ==
  /\ run[r].pc = "wait" /\ tree[r].child = "zombie"
  /\ tree' = [tree EXCEPT ![r].child = "gone"]
  /\ run' = [run EXCEPT ![r].pc = "finish", ![r].why = "Exited"]
  /\ UNCHANGED <<app, owner, disk>>

\* finish: a group that outlives its leader is terminated as well.
Finish(r) ==
  /\ run[r].pc = "finish"
  /\ IF Exists(r)
     THEN /\ tree' = [tree EXCEPT ![r] = Signalled(r, FALSE)]
          /\ run' = [run EXCEPT ![r].pc = "grace"]
     ELSE /\ run' = [run EXCEPT ![r].pc = "join"]
          /\ UNCHANGED tree
  /\ UNCHANGED <<app, owner, disk>>

TerminateMutant(r, why) ==
  /\ tree' = [tree EXCEPT ![r] = Signalled(r, FALSE)]
  /\ run' = [run EXCEPT ![r].pc = "grace", ![r].why = why]
  /\ disk' = [disk EXCEPT ![r] = "absent"]
  /\ UNCHANGED <<app, owner>>

Terminate(r, why) ==
  /\ tree' = [tree EXCEPT ![r] = Signalled(r, FALSE)]
  /\ run' = [run EXCEPT ![r].pc = "grace", ![r].why = why]
  /\ UNCHANGED <<app, owner, disk>>

\* The child may have exited since try_wait looked.
PollCancelled(r) ==
  run[r].pc = "wait" /\ run[r].cancelled /\ Terminate(r, "Cancelled")

PollTimeoutMutant(r) == FALSE /\ UNCHANGED vars

PollTimeout(r) ==
  /\ run[r].pc = "wait" /\ run[r].expired /\ ~ run[r].cancelled
  /\ Terminate(r, "TimedOut")

\* The group or the child cannot be signalled or waited for.
SignalFails(r) ==
  run[r].pc \in {"wait", "finish", "grace", "confirm"} /\ Failing(r)

\* A poll of the grace period: reap the child, and leave with an empty group.
PollGrace(r) ==
  /\ run[r].pc = "grace"
  /\ \/ /\ tree[r].child = "zombie"
        /\ tree' = [tree EXCEPT ![r].child = "gone"]
        /\ UNCHANGED run
     \/ /\ tree[r].child = "gone" /\ ~ Exists(r)
        /\ run' = [run EXCEPT ![r].pc = "join"]
        /\ UNCHANGED tree
  /\ UNCHANGED <<app, owner, disk>>

\* SIGKILL, then the child, now dead, is waited for.
GraceExpires(r) ==
  /\ run[r].pc = "grace"
  /\ tree' = [tree EXCEPT ![r] = [Signalled(r, TRUE) EXCEPT !.child = "gone"]]
  /\ run' = [run EXCEPT ![r].pc = "confirm"]
  /\ UNCHANGED <<app, owner, disk>>

Confirm(r) ==
  /\ run[r].pc = "confirm" /\ ~ Exists(r)
  /\ run' = [run EXCEPT ![r].pc = "join"]
  /\ UNCHANGED <<app, owner, tree, disk>>

ConfirmExpires(r) ==
  run[r].pc = "confirm" /\ Exists(r) /\ Failing(r)

-----------------------------------------------------------------------------
(* The readers end at the end of the pipe, then the result is made.        *)

PipeHeld(r) ==
  \/ tree[r].child = "alive"
  \/ tree[r].kid = "alive" /\ tree[r].kidHoldsPipe

JoinMutant(r) ==
  /\ run[r].pc = "join"
  /\ run' = [run EXCEPT ![r].pc = "ended", ![r].result = run[r].why]
  /\ disk' = [disk EXCEPT ![r] = "absent"]
  /\ UNCHANGED <<app, owner, tree>>

\* The directory is closed; a directory that stays is reported.
Join(r) ==
  /\ run[r].pc = "join" /\ ~ PipeHeld(r)
  /\ \E kept \in {w \in BOOLEAN : w => disk[r] # "absent"} :
       /\ run' = [run EXCEPT ![r].pc = "ended", ![r].result = run[r].why,
                             ![r].warning = kept]
       /\ disk' = IF kept THEN disk ELSE [disk EXCEPT ![r] = "absent"]
  /\ UNCHANGED <<app, owner, tree>>

\* A read or a write of the child's streams failed.
JoinFails(r) == run[r].pc = "join" /\ ~ PipeHeld(r) /\ Failing(r)

-----------------------------------------------------------------------------

Poll(r) ==
  \/ PollExit(r) \/ Finish(r) \/ PollCancelled(r) \/ PollTimeout(r)
  \/ PollGrace(r) \/ GraceExpires(r) \/ Confirm(r) \/ ConfirmExpires(r)
  \/ Join(r)

Next ==
  \/ \E a \in Apps :
       \/ AcquireLock(a) \/ Cleanup(a) \/ CleanupFails(a)
       \/ BindEndpoint(a) \/ Crash(a)
       \/ \E r \in Runs : Start(a, r)
  \/ \E r \in Runs :
       \/ BindFails(r) \/ MakeDirectory(r) \/ WriteSecret(r) \/ Bound(r)
       \/ LaunchRefused(r) \/ Launch(r)
       \/ Fork(r) \/ LeaveGroup(r) \/ ClosePipe(r) \/ Exit(r)
       \/ ReapOrphan(r) \/ Reuse(r)
       \/ Cancel(r) \/ Expire(r)
       \/ Poll(r) \/ SignalFails(r) \/ JoinFails(r)

\* The supervising thread runs, its timeouts pass, the system reaps orphans.
Fairness ==
  \A r \in Runs : /\ WF_vars(Poll(r))
                  /\ WF_vars(Expire(r))
                  /\ WF_vars(ReapOrphan(r))

Spec == Init /\ [][Next]_vars /\ Fairness

-----------------------------------------------------------------------------
(* Properties.                                                             *)

\* A run that ends with a result (not an error) leaves no live process in
\* its process group and nobody who could still write to its output: finish,
\* TERM-to-KILL and the joined readers together (supervisor.rs, execute).
ResultIsFinal ==
  \A r \in Runs : run[r].result \in Terminations =>
    /\ tree[r].child = "gone"
    /\ tree[r].kid = "alive" => ~ tree[r].kidInGroup /\ ~ tree[r].kidHoldsPipe

\* While an application serves, the directories of lost runs hold no secret
\* and no marker: what a crash leaves is removed by the next start, because
\* the marker is on disk before the first secret (ensure_temp_directory,
\* cleanup_stale_temp_directories_in, acquire_runtime).
StaleFilesScavenged ==
  (\E a \in Apps : app[a] = "serving") =>
    \A r \in Runs : run[r].pc = "lost" => disk[r] \in {"absent", "bare"}

\* A secret file stays on disk while the command it was made for is
\* supervised: no start of an application scavenges a live run's directory,
\* and no way to end a run removes it before the processes are gone
\* (acquire_runtime, terminate_with_status).  The instance lock serialises
\* the applications of one vault; those of two vaults share the directories.
LiveRunKeepsFiles ==
  \A r \in Runs :
    run[r].files /\ run[r].pc \in {"spawn", "wait", "finish", "grace",
                                   "confirm", "join"} => disk[r] = "secret"

\* A run that was launched ends, unless its application dies or a process
\* that left the group keeps the output pipe open from some time on: the
\* timeout, TERM and KILL reach the group only (wait_for_child).
RunEnds ==
  \A r \in Runs :
    [](run[r].pc = "wait" =>
         \/ <>(run[r].pc \in {"ended", "lost"})
         \/ <>[](tree[r].kid = "alive" /\ ~ tree[r].kidInGroup /\ tree[r].kidHoldsPipe))
=============================================================================
