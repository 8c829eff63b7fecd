----------------------------- MODULE AgentList -----------------------------
(***************************************************************************)
(* The `list' request (agent_broker.rs, handle_method), among the threads  *)
(* of RunBroker.  It waits for the vault as a run does, and then checks    *)
(* the client's access, reads the app's state, reads the unattended grants *)
(* and reads the vault, each under a mutex of its own: a lock, an unlock   *)
(* or a revocation may come between any two.  Unlike a run it takes no     *)
(* lease, so no lock waits for it.                                         *)
(***************************************************************************)
EXTENDS RunBroker

CONSTANT ListWorkers  \* bound: the workers that may serve a list request;
                      \* MaxRuns bounds the runs and the lists together

ASSUME ListAssumption == ListWorkers \subseteq Workers

VARIABLES
  authorized,  \* per worker: the ids the answer is filtered by
  answer,      \* per worker: the secrets named in the answer
  allowed      \* history: what was the client's to list at some moment since
               \* the request arrived

listVars == <<authorized, answer, allowed>>

ListInit ==
  /\ Init
  /\ authorized = [w \in Workers |-> {}]
  /\ answer = [w \in Workers |-> {}]
  /\ allowed = [w \in Workers |-> {}]

Listing(w) == op[w] = "list"

\* The secrets of client c with unattended access (active_grants, filtered).
UnattendedIds(g, c) ==
  {s \in Secrets : g[c][s].kind # "none"
                   /\ MissingUnattended(g, c, {s}, elapsed, wall) = {}}

-----------------------------------------------------------------------------

Frame == <<RunFrame, runVars, unlock, count>>

(* handle_method up to await_local_unlock, whose steps are RunBroker's. *)
StartList(w, c) ==
  /\ w \in ListWorkers /\ At(w, "idle") /\ ~ stop /\ count.runs < MaxRuns
  /\ PurgeAll
  /\ call' = [call EXCEPT ![w] = [NoRequest EXCEPT !.client = c]]
  /\ op' = [op EXCEPT ![w] = "list"]
  /\ Goto(w, "hasUnattended")
  /\ count' = [count EXCEPT !.runs = @ + 1]
  /\ UNCHANGED <<RunFrame, runVars, unlock, authorized, answer>>

ListAccess(w) ==
  LET c == call[w].client IN
  /\ At(w, "start") /\ Listing(w)
  /\ IF IsAppActive THEN PurgeDisconnected ELSE ReadUnattended(c)
  /\ IF IsAppActive \/ ClientHasUnattended(c) THEN Proceed(w, "listState") ELSE Fail(w)
  /\ UNCHANGED <<Frame, authorized, answer>>

ListStateMutant(w) ==
  /\ At(w, "listState")
  /\ authorized' = [authorized EXCEPT ![w] = Secrets]
  /\ Proceed(w, "listVault")
  /\ UNCHANGED <<coreVars, Frame, answer>>

(* Everything is listed while the app is active. *)
ListState(w) ==
  /\ At(w, "listState")
  /\ authorized' = [authorized EXCEPT ![w] = IF IsAppActive THEN Secrets ELSE {}]
  /\ Proceed(w, IF IsAppActive THEN "listVault" ELSE "listGrants")
  /\ UNCHANGED <<coreVars, Frame, answer>>

ListGrants(w) ==
  /\ At(w, "listGrants")
  /\ PurgeAll
  /\ authorized' = [authorized EXCEPT ![w] = UnattendedIds(PurgedGrants, call[w].client)]
  /\ Proceed(w, "listVault")
  /\ UNCHANGED <<Frame, answer>>

ListVault(w) ==
  /\ At(w, "listVault")
  /\ IF session = 0
     THEN Fail(w) /\ UNCHANGED answer
     ELSE /\ answer' = [answer EXCEPT ![w] = authorized[w]]
          /\ Proceed(w, "listed")
  /\ UNCHANGED <<coreVars, Frame, authorized>>

ListReply(w) ==
  /\ At(w, "listed")
  /\ Fail(w)
  /\ answer' = [answer EXCEPT ![w] = {}]
  /\ UNCHANGED <<coreVars, Frame, authorized>>

ListStep(w) ==
  ListAccess(w) \/ ListState(w) \/ ListGrants(w) \/ ListVault(w) \/ ListReply(w)

-----------------------------------------------------------------------------

\* What the client may list in the present state, once the vault is open.
Listable(c) ==
  IF IsAppActive THEN Secrets
  ELSE IF ClientHasUnattended(c) THEN UnattendedIds(PurgedGrants, c) ELSE {}

ListNext ==
  /\ \/ Next /\ UNCHANGED <<authorized, answer>>
     \/ \E w \in Workers : ListStep(w) \/ \E c \in Clients : StartList(w, c)
  /\ allowed' =
       [w \in Workers |->
          IF op'[w] # "list" THEN {}
          ELSE allowed[w] \cup
               (IF Listing(w) THEN Listable(call[w].client) ELSE {}) \cup
               Listable(call[w].client)']

ListSpec == ListInit /\ [][ListNext]_<<vars, listVars>>

-----------------------------------------------------------------------------

(* The answer names only secrets that were the client's to list at some     *)
(* moment while the request was being served, by an unlocked app or by      *)
(* unattended access, whatever was locked, unlocked or revoked between the  *)
(* request's critical sections (RpcMethod::List).  That the vault is open   *)
(* is read last, and it may have been closed and opened in between.         *)
ListWithinAuthority ==
  \A w \in Workers : At(w, "listed") => answer[w] \subseteq allowed[w]

=============================================================================
