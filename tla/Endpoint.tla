------------------------------ MODULE Endpoint ------------------------------
(***************************************************************************)
(* The socket file that clients find the application by (ipc.rs, bind and  *)
(* Drop), through starts, exits and crashes of application processes that  *)
(* overlap.  The instance lock (desktop.rs) serialises applications of one *)
(* vault; it is the first field of the window and so it is released before *)
(* the broker behind it stops and removes the socket.                      *)
(***************************************************************************)
CONSTANTS
  Apps,       \* application processes, each started any number of times
  VaultOf,    \* the vault directory each of them uses
  NoApp       \* no application's socket

ASSUME AppsAssumption == NoApp \notin Apps

VARIABLES
  app,      \* the step each application is at
  holds,    \* the applications that hold their vault's instance lock
  open,     \* the applications whose listening socket is open
  file      \* whose socket the path names, and whether it is private

EndpointVars == <<app, holds, open, file>>

Steps == {"down", "locked", "probing", "refused", "clear", "bound", "serving",
          "exiting", "checked", "removed", "failed"}

EndpointTypeOK ==
  /\ app \in [Apps -> Steps]
  /\ holds \subseteq Apps /\ open \subseteq Apps
  /\ file \in [of : Apps \cup {NoApp}, private : BOOLEAN]
  /\ \A a \in Apps : a \in open <=> app[a] \in {"bound", "serving", "exiting",
                                               "checked", "removed"}

NoFile == [of |-> NoApp, private |-> FALSE]

EndpointInit ==
  /\ app = [a \in Apps |-> "down"]
  /\ holds = {} /\ open = {} /\ file = NoFile

AppGoes(a, step) == app' = [app EXCEPT ![a] = step]

\* The socket the path names has a listener: a connect succeeds.
Answering == file.of \in open

\* InstanceLock::acquire
Acquire(a) ==
  /\ app[a] = "down"
  /\ \A b \in holds : VaultOf[b] # VaultOf[a]
  /\ holds' = holds \cup {a}
  /\ AppGoes(a, "locked")
  /\ UNCHANGED <<open, file>>

\* The lock and the listener go with what holds them; the file stays.
Drops(a) ==
  /\ holds' = holds \ {a} /\ open' = open \ {a}
  /\ UNCHANGED file

\* A start that fails drops what it has and returns its error...
Fails(a) == AppGoes(a, "failed") /\ Drops(a)

\* ... which ends the process.
Leave(a) ==
  /\ app[a] = "failed"
  /\ AppGoes(a, "down")
  /\ UNCHANGED <<holds, open, file>>

\* prepare_parent and symlink_metadata: is there a file at the path?
Look(a) ==
  /\ app[a] = "locked"
  /\ AppGoes(a, IF file = NoFile THEN "clear" ELSE "probing")
  /\ UNCHANGED <<holds, open, file>>

ProbeMutant(a) ==
  /\ app[a] = "probing"
  /\ AppGoes(a, "refused")
  /\ UNCHANGED <<holds, open, file>>

ProbePrivateMutant(a) ==
  /\ app[a] = "probing"
  /\ IF Answering \/ (file # NoFile /\ ~ file.private)
       THEN Fails(a)
       ELSE AppGoes(a, "refused") /\ UNCHANGED <<holds, open, file>>

\* recover_stale_endpoint connects: an answer is AlreadyRunning; a refusal,
\* or a file that is gone by now, goes on to remove it.
Probe(a) ==
  /\ app[a] = "probing"
  /\ \/ Answering /\ Fails(a)
     \/ /\ ~ Answering /\ AppGoes(a, "refused")
        /\ UNCHANGED <<holds, open, file>>

\* remove_file: whatever the path names now; gone is an error.
RemoveStale(a) ==
  /\ app[a] = "refused"
  /\ \/ file = NoFile /\ Fails(a)
     \/ /\ file # NoFile
        /\ file' = NoFile /\ AppGoes(a, "clear")
        /\ UNCHANGED <<holds, open>>

\* UnixListener::bind: a path in use is AlreadyRunning.
Bind(a) ==
  /\ app[a] = "clear"
  /\ \/ file # NoFile /\ Fails(a)
     \/ /\ file = NoFile
        /\ file' = [of |-> a, private |-> FALSE] /\ open' = open \cup {a}
        /\ AppGoes(a, "bound")
        /\ UNCHANGED holds

\* set_permissions and validate_endpoint; the listener of a start that fails
\* here is closed, and its file stays.
Publish(a) ==
  /\ app[a] = "bound"
  /\ \/ Fails(a)
     \/ /\ file # NoFile
        /\ file' = [file EXCEPT !.private = TRUE] /\ AppGoes(a, "serving")
        /\ UNCHANGED <<holds, open>>

\* The window is dropped: its first field is the lock.
ReleaseLock(a) ==
  /\ app[a] = "serving"
  /\ holds' = holds \ {a} /\ AppGoes(a, "exiting")
  /\ UNCHANGED <<open, file>>

\* Then the broker joins its listener thread, whose server is dropped:
\* validate_endpoint and remove_file, before the listener closes.
DropCheck(a) ==
  /\ app[a] = "exiting"
  /\ AppGoes(a, IF file # NoFile /\ file.private THEN "checked" ELSE "removed")
  /\ UNCHANGED <<holds, open, file>>

DropRemove(a) ==
  /\ app[a] = "checked"
  /\ file' = NoFile /\ AppGoes(a, "removed")
  /\ UNCHANGED <<holds, open>>

CloseListener(a) ==
  /\ app[a] = "removed"
  /\ open' = open \ {a} /\ AppGoes(a, "down")
  /\ UNCHANGED <<holds, file>>

\* The system releases the lock and closes the socket; the file stays.
CrashApp(a) ==
  /\ app[a] \notin {"down", "failed"}
  /\ AppGoes(a, "down") /\ Drops(a)

Start(a) ==
  \/ Look(a) \/ Probe(a) \/ RemoveStale(a) \/ Bind(a) \/ Publish(a)

Stop(a) == DropCheck(a) \/ DropRemove(a) \/ CloseListener(a)

EndpointNext ==
  \E a \in Apps :
    Acquire(a) \/ Start(a) \/ Leave(a) \/ ReleaseLock(a) \/ Stop(a) \/ CrashApp(a)

\* An application that has begun to start or to exit gets on with it.
EndpointFairness ==
  \A a \in Apps : WF_EndpointVars(Start(a)) /\ WF_EndpointVars(Leave(a))
                    /\ WF_EndpointVars(Stop(a))

EndpointSpec == EndpointInit /\ [][EndpointNext]_EndpointVars /\ EndpointFairness

-----------------------------------------------------------------------------
(* Properties.                                                             *)

\* An application that serves is the one clients find at the path: neither
\* the recovery of a stale socket nor a late exit takes the socket of another
\* (recover_stale_endpoint, Drop for LocalServer).
ServingIsReachable ==
  \A a \in Apps : app[a] = "serving" => file = [of |-> a, private |-> TRUE]

\* No other application of the path is running.
Alone(a) == \A b \in Apps \ {a} : app[b] = "down"

\* A start of a is cut short by its crash, or by a system call after bind.
Interrupted(a) ==
  \/ app[a] \in {"locked", "probing", "refused", "clear", "bound"} /\ app'[a] = "down"
  \/ app[a] = "bound" /\ app'[a] = "failed"

\* What crashes, failed starts and late exits leave at the path never blocks
\* the next application: once the others have ended for good and its starts
\* are no longer cut short, no start fails any more, and if it is started
\* again and again it serves again and again (recover_stale_endpoint, bind).
\* One start may still fail, the one that saw the socket of an exit and found
\* it gone when it came to remove it; that is why this is about all later ones.
StaleSocketNeverBlocks ==
  \A a \in Apps :
    <>[]Alone(a) /\ <>[][~ Interrupted(a)]_EndpointVars
      => /\ <>[](app[a] # "failed")
         /\ []<>(app[a] = "locked") => []<>(app[a] = "serving")
=============================================================================
