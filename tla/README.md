# Ladon in TLA+

Ladon is a local secret vault and process runner for coding agents: a desktop
application holds an encrypted vault, agents ask it over a Unix socket to run
commands, and it injects secrets into those commands once the user has allowed
it. This directory models the parts of it whose correctness depends on the
order in which threads, callers, clocks and crashes move, checks the models
with TLC and proves the central theorems with TLAPS.

## 1. Inventory

| Component (source under `src/crates`) | State | Operations | What makes it correct |
|---|---|---|---|
| Grant table (`ladon-core/src/grants.rs`) | deadline per client and secret | four kinds of grant, purge, revocations, queries | a grant ends when it should, on whichever clock |
| Approval coordinator (`ladon-app/src/approval.rs`) | grant table, one published request, client sessions, app-lock phase, epochs | authorize (publish, poll), decide, redeem a ticket, sessions, app lock, vault lock, revocations, edits, unattended access | access in force is access the user gave and nobody took back |
| Agent broker (`ladon-app/src/agent_broker.rs`) | run lease, run block, UI-lock handshake, shutdown flag | Run, List, Lock, Status and SessionOpen requests; revocations; app lock; exit | after a lock, revocation or exit nothing runs that it forbids; each of them ends |
| Unlock requests (`unlock_request.rs`) | epoch, one prompt, its decision | wait, resolve, cancel | no prompt survives a lock |
| Supervisor (`supervisor.rs`) | cancellation tokens, launch gate, process group, pipes, temporary files | launch, wait, terminate, capture, scavenge | a result means that nobody of the group is left; a crash leaves no secret on disk for long; a run ends |
| Local IPC (`ipc.rs`) | socket file, worker count, per-connection monitor | bind and recovery of a stale socket, accept, serve, end of file | the serving application is the one clients reach; a client that hangs up cancels its request; every call ends |
| Vault store (`ladon-core/src/store.rs`) | two files | commit, open | an acknowledged generation survives every crash |
| Vault session (`ladon-core/src/vault.rs`) | payload, revision | add, replace, delete, prepared replacement | one revision per change |
| Vault controller (`ladon-app/src/ui.rs`) | first run, locked, recovery, unlocked | create, unlock, restore, continue, edits, locks | its phase and the files agree |
| Desktop (`ladon-app/src/desktop.rs`, selection in `ui.rs`) | lock state, pending app lock, last phase, dialogs, one PIN buffer, one fingerprint request | frames, user operations, exit | every lock is taken to its end and leaves nothing; what is confirmed is what was on screen |
| Session authentication (`session_auth.rs`, `touch_id.rs`) | PIN verifier, failed attempts, a pending fingerprint request | verify, reset, poll | too many failures lock, whichever prompts saw them |
| Core broker (`ladon-core/src/broker.rs`) | session state with deadlines, recent activity | transitions, expiry | no state outlives its deadline |
| Redaction (`ladon-core/src/redact.rs`) | pending bytes of a stream, a bounded capture | push, finish, combined limit | no division into reads changes the result or lets a pattern through |
| Exposure scan (`exposure_scan.rs`, `exposure_scan/detection.rs`) | one scanner per scan; the window's task and report | start, walk, detect, cancel, drop, poll | a report without the notice is complete and exact; no late report is shown |
| Codec, crypto, protocol, errors, sensitive buffers, model, runner (`ladon-core`) | none | pure conversions and validation | tested as functions |
| Tray, clipboard, secret editor (`ladon-app`) | platform adapters, forms | | |
| MCP server, CLI, integration (`ladon-cli`) | a client session | tool calls, requests, configuration edits | a lost reply is reported truthfully and the command not run again |

How they interact. Each RPC connection has a worker thread and a monitor
thread. A worker serves a Run by reading the locks' state, perhaps waiting for
an unlock prompt, taking the run lease, publishing an approval request and
polling it every 20 ms, resolving the bindings and launching the child, the
last two inside `with_valid_grant`, that is, under the approval mutex. The GUI
thread draws frames; it answers requests, revokes, edits and locks, and it
acknowledges a lock asked for over the socket. An app lock finishes in a thread
of its own. The mutexes are taken in the order approval, then controller or run
state, then launch gate; UI-lock state, then unlock state. None is held across
the critical sections of a lock, which is why these interleave with everything.

A client keeps one connection open as its session and opens another for each
request; the listener accepts no more than a fixed number of them. The run's
supervisor polls its child every few milliseconds while two threads read and
redact its output. Applications of one user share the temporary root and the
socket path; the instance lock is per vault.

What is hard: those interleavings; decisions and tickets that are used later
than they were made; the wall clock; sessions noticed to be gone only at the
next purge; threads that wait for each other; commits, starts, exits and runs
that fail or are cut off half way; replies that are lost; answers to prompts
that are no longer there; text cut at any byte. `PROJECT.json` lists each of these at its line under `hazards`.

## 2. Modules

    GrantStore --> ApprovalCoordinator --> Approval ---------------> ApprovalProofs
                            |         \--> RunBroker --> AgentList --> RunBrokerProofs
                            \--> CoordinatorProofs --> ApprovalProofs, RunBrokerProofs
    VaultRegister <-- (implemented by) -- VaultStore --> VaultStoreProofs
    DesktopAuth --> DesktopAuthProofs    Supervisor, Redaction --> SupervisorProofs
    ExposureScan --> ExposureScanProofs  LocalRpc, Endpoint --> LocalRpcProofs

- **GrantStore**: the methods of the grant table as operators on a function
  from clients to secrets to deadlines, and on the two clocks.
- **ApprovalCoordinator**: the coordinator's state, behind one mutex, and its
  methods as actions on that state alone. `authorize` is the exception: it
  publishes in one step and polls in others. `consent` and `manual` are history
  variables: the pairs the user approved and nothing took back, and whether the
  last app lock was by hand.
- **Approval**: the coordinator with arbitrary callers. Any worker may call
  `authorize` or redeem a ticket at any time, the window decides on the request
  it *displayed last*, and grants unattended access from a context it captured
  earlier; clients come and go; both clocks move, the wall clock anywhere.
- **RunBroker**: the real callers. Workers, the GUI thread and the app-lock
  thread execute the broker's procedures; one step is one critical section.
  `Flow` gives the order of the critical sections of each procedure, the
  actions what each one does. `forbidden` (history) holds the pairs that a
  completed revocation or lock took away and the user has not granted again.
- **AgentList**: the List request as one more procedure of RunBroker's workers.
  It shares the wait for the vault with Run and then reads the app's state, the
  grants and the vault under three different mutexes. `allowed` (history) is
  what the client could have listed at some moment since the request arrived.
- **DesktopAuth**: local authentication in the window. A frame is a sequence of
  steps, one per handler in the order of `update`; the other threads move
  between them. `win` has the fields of `LadonDesktop`, with a label on the PIN
  buffer that says at which prompt it was typed.
- **Supervisor**: the files, processes and poll loop of runs, and the starts of
  applications that scavenge what earlier ones left. A run's processes are the
  child and one it forked, which may leave the group and keep the pipe.
- **Redaction**: the redactor as functions of its state and the next bytes,
  driven by arbitrary reads; `Redacted` and `Decoded` are the reference, on the
  whole text. Bytes are symbols, a character is a sequence of them.
- **LocalRpc**: clients (MCP server or command line), the two ends of every
  connection, and the accept loop; the application may crash and restart.
- **Endpoint**: the socket file through overlapping starts, exits and crashes.
- **ExposureScan**: scanners walking a given disk, one step per priority file or
  directory entry, and the window that starts, cancels and drops them.
- **VaultRegister**: what storage promises: one content, or, while a write has
  an unknown outcome, one of several; never something else.
- **VaultStore**: the two files and the controller. Each directory entry has
  what a reader `seen` and what a power loss would leave, `kept`. Every step of
  a commit may fail, and a crash may come before any of them.
- **MC...**: the instances for TLC.
- **...Proofs**: the theorems about one module or two: SupervisorProofs is about
  runs and what they return, LocalRpcProofs about the server and its socket file.
  **CoordinatorProofs** has the lemmas about the coordinator's methods that
  Approval and RunBroker share.

Definitions carry the names of the code they stand for in CamelCase, and `map`
in `PROJECT.json` gives the lines. Operators named `...Mutant` are plausible
bugs, one for each checked property, that make the property fail.

### Abstractions

Everywhere: labels, activity times, annotations, log and display texts are left
out; UUIDs are counters; mutexes are not poisoned and threads can be created.
Client labels do not matter to any decision.

Approval: `since`, `fresh`, `consent` and `manual` are for the properties only
and guard nothing.

RunBroker: the clocks stand still and the window answers the published request
(expiry and stale answers are Approval's subject). `begin_request`'s increment
and its cancellation of the prompt are one step, since nothing can see the first
without the second while the UI mutex is held. The session's PIN is left out,
so an idle timeout may take either of `handle_idle_timeout`'s branches. The
child's process group and its output are one process that lives until it ends
or is killed.

AgentList: a vault whose secrets do not change; their names are not modelled.
`MaxRuns` bounds the runs and lists together.

DesktopAuth: session, epoch and request ids are fresh, that is, not in use
anywhere, in place of random. The controller's mutex is not poisoned. Modal
dialogs lie in the order secret, discard, approval, unattended, and the user
reaches only the top one of the last frame drawn (egui, external). A lock asked
for by a client goes through request, closed vault, ready and acknowledgement;
while it is under way `lock_immediately` only wipes the window and leaves the
vault to it, which is why `WrongPinsLock` admits that state. The limit of wrong
PINs is 2 in the run and 5 in the code. The prompt for unattended access is
known by its vault session; that the client and its secrets are still those of
the form is `grant_unattended`'s check, in Approval (`StaleContextRefused`). Field values, names and the clipboard
are left out.

Supervisor: one forked process stands for all descendants. The exchange of
standard input and the contents of files are left out; a directory is absent,
without its marker, marked, or with a secret. Time is an event: the timeout,
the grace period and the confirmation period may pass at any poll.

Redaction: the patterns made from a secret are given; the search for them is
the code's own (the longest at the leftmost place). The line about the omitted
bytes has two widths, for a smaller and a greater number, so that it may grow
while `finish` makes room for it.

LocalRpc: a Run is admitted or refused and its command starts and ends; what
happens inside is RunBroker's. A frame arrives whole or not at all. A reply may
be lost, and a monitor's read fail, with both ends alive in the behaviours that
`Used` marks as faulty. The errors of the broker are one answer: the MCP server
words them by class, but each says that the broker has answered. `SlotsRemain`
bounds the workers held for long; short requests may fill the others until they
end, which is what `CallsEnd` is for.

Endpoint: the steps of `bind` and of its drop; whether the file is a socket and
of which user is not varied. A start that fails returns its error from
`LadonDesktop::new`, and the process ends.

ExposureScan: what the patterns match in a file is given, in the order of the
rules, and so are sizes. The disk stands still while it is scanned, but every
listing of a directory and every opening and reading of a file may fail; that a file is replaced between listing and opening is one of
these failures. Cancelling inside a file and running out of time inside a file
are one event, since the code asks for both in one place.

VaultStore: one passphrase, the right one. Candidates are complete before they
are renamed (they are synced and read back), so a file is whole. Damage is
modelled to one of two equal copies; damage to the only copy of a content loses
it whatever the code does. Unix only.

## 3. Runs

| Run | Instance | What it shows |
|---|---|---|
| Approval | 1 client that may connect again, 1 secret, 2 workers, 2 requests, a lock, both clocks, fairness | `ConsentBacked`, `RedeemConsented`, `LockedOnlyUnattended`, `UnattendedCeiling`, `SessionGrantsTracked`, `StaleContextRefused`, `PendingOwned`, `DecisionDelivered`, `TypeOK` |
| RunLocks | a run with or without a secret, a socket lock, a window operation, a client that may connect again, the exit | `LockedVaultIsQuiet`, `NoPromptUnderLock`, `ShutdownIsQuiet`, `ManualLockIsQuiet`, `RevokedNeverRuns` |
| RunProgress | a run with a secret, a socket lock, a window operation, the exit, fairness | `LocksReturn`, `FailedVaultGetsQuiet` |
| RunLists | a list, two window operations, two unlocks, two secrets, a client that may connect again | `ListWithinAuthority` |
| VaultStore | 5 contents | `Durable` (VaultStore implements VaultRegister), `RevisionsTellCopies` |
| VaultStaleChoice | 2 contents, `StaleChoice` | a violation, see below |
| Supervisor | 2 applications of a vault, a run that forks, escapes, reused ids, fairness | `ResultIsFinal`, `LiveRunKeepsFiles`, `StaleFilesScavenged`, `RunEnds` |
| Redaction | texts of 5 bytes, reads of up to 2, limit 7 | `ChunkingIsInvisible`, `PatternsNeverShown`, `OutputBounded` |
| LocalRpc | 1 client with 2 calls and a crash or failing streams, or 2 clients for one session, fairness | `ReportIsTrue`, `NoOwnConflict`, `SlotsRemain`, `CallsEnd` |
| Endpoint | 3 processes of a vault, starts without a bound, fairness | `ServingIsReachable`, `StaleSocketNeverBlocks` |
| DesktopAuth | 2 secrets, 2 agent requests, 2 vault sessions, sensor | `ConsentIsForThisPrompt`, `ValuesAreAuthorized`, `WrongPinsLock`, `LockedHoldsNothing` |
| ExposureScan | 13 variants of a tree of 11 paths, overlapping roots; or two short scans | `CompleteMeansEverything`, `FindingsAreExact`, `CredentialsFirst`, `OnlyThisScanIsShown` |

`TypeOK` is a property of the Approval run, and of its theorem. In the other
modules it documents the shape of the state and is no subject of a run.

Why these bounds. In Approval the two workers compete for one request slot,
whose reuse needs two ids; one lock or revision separates before from after, and
lifetimes 1 and 2 on clocks of two values let a grant end or not, and the wall
clock can be set forward and back. The second connection of a client is the one that could
inherit what the first was granted. A second client or secret is what the
theorems are for: they hold for any number. In RunBroker
every hazard is between a run and one or two procedures, each of which has all
its interleavings; a run with bindings and one without follow different paths,
and RunLocks has both. It has one secret and one run, so the run of another
client or with another secret while one is being revoked is the theorem's
(`RevokedStaysRevoked`). RunProgress has one window operation, so
it does not contend with an app-lock thread that an earlier one started. RunLists has two secrets, of which a list may name a
part. In both, `Budget` lets a second connection of the client take the place of
a lock or an operation. Five contents allow a creation, a rejected backup, the reuse of its
revision and two more failures. In DesktopAuth a request or a secret is replaced by
another of its kind (`Budget`: requests come once a secret has been deleted), and a second session is what a stale answer could be taken for; the
window's own state is the large part and has no bound but the number of wrong
PINs and the width of the wrapping selection epoch. Five bytes hold two
overlapping patterns with something around them, or a pattern and a character
cut apart, and exceed the limit once the marker is in. One run leaves files for
the next application to find; the third process of Endpoint starts while one
exits and another recovers. The clients of LocalRpc are those of `Used`, which
is chosen at the start: calls that follow each other through a crash or a
failing stream need one client, slots need two. In ExposureScan three variants
of the disk are within every limit and end complete; for each of the limits on
the size of a file, on entries and on depth there is a disk that nothing else
keeps from it, and those on bytes, files and findings are reached on the larger
ones; the second scan is there only on the disks with next
to nothing to scan, where the window's order of events is all that varies.

Symmetry is used in RunLists and DesktopAuth, for safety and among values that
the module and the cfg do not distinguish. Deadlock is checked in VaultStore,
DesktopAuth and Endpoint, where something can always move (a frame can always be
drawn, an application started). Elsewhere the system
may stop when the bounds on requests, calls, texts or scans are used up.

Fairness. `Approval!FairSpec`: a waiting worker polls again (it sleeps 20 ms).
`RunBroker!FairSpec`: worker, app-lock and GUI threads are scheduled, timeouts
fire, and the window is repainted at least once a second, so it reaches
`process_external_lock`, `synchronize_phase` and `process_app_lock_result`.
Nothing is assumed of clients, children or the user: a child need never exit by
itself, and a prompt need never be answered.
`Supervisor!Spec`: the poll loop runs and its timeouts pass, a killed process
dies and orphans are reaped; nothing makes a command end by itself or an
escaped process close the pipe. `LocalRpc!Spec`: the broker's threads run and a
client that is in a call goes on with it; nothing makes a client call, and
nothing makes the read of an idle session fail (`Resting`).
`Endpoint!EndpointSpec`: starts and exits that have begun go on, and a process
whose start has failed ends. `StaleSocketNeverBlocks` has its own premises: from
some point on the other applications stay down, and no crash and no failing
`set_permissions` or `validate_endpoint` cuts the start off. DesktopAuth and
ExposureScan are about safety and assume none.

### Divergences

One run shows the code doing something else than a document says. When `restore_backup`'s commit fails, it returns to the recovery choice with the
primary that unlocking had read. If the failing step is the last `sync_parent`,
the rename has happened: the primary file holds the backup's generation already.
`continue_with_primary` then opens a session with a content that is in no file.
The design document (section 7.3) says the user chooses to "continue with the
primary". The run VaultStaleChoice shows it. Its consequence is that the next
edit gets the revision of the generation on disk, so that revisions no longer
tell the copies apart; the run VaultStore therefore excludes this one choice
(`StaleChoice = FALSE`: after such a failure the user retries or locks).

### Known limits

`StaleFilesScavenged`, `LiveRunKeepsFiles` and `ServingIsReachable` are about
the applications of one vault, which the instance lock serialises. Applications
of two vaults share the socket path and the temporary root and are serialised by
nothing: `acquire_runtime` scavenges after the instance lock of its own vault
and before the endpoint is bound (the security review says "only after the
single-instance endpoint is acquired"), so with `VaultOf` giving two vaults the
three properties do not hold.

`finish` runs after the child was reaped, and when no descendant is left the
system may give the group's id to another group before the signal. The window
is short and needs the id to come round; Supervisor has this step (`PidReuse`),
and its properties hold all the same, but that no stranger is signalled is not
one of them.

Scan roots are compared as they are spelled. The roots of the run overlap, but
none names part of another through a symbolic link above it or with `..`; such
a root is scanned again. Files are told apart by their spelling too
(`exposure_scan.rs:288`), and `PriorityAssumption` says that a priority path is
the entry of that spelling. On a volume that ignores case, the default on macOS,
a file `.ENV` is read as `.env` by `priority_files` and as `.ENV` by the walk,
and its findings are reported twice.

The metadata checks of a priority path (`exposure_scan.rs:190-199`) do not fail
in the model. In the code a failure there leaves the file to the walk, without
the notice: it is still read, but perhaps after other files.

A list takes no lease: it reads the app's state and the grants first and the
open vault last. A tray lock works while the vault is closed, and the vault may
be closed and opened between those reads, so the answer may join the authority
of an app that was active with a vault that was unlocked under a locked app.
`ListWithinAuthority` bounds it by what was the client's at some moment of the
request; at no single moment need all of it have been readable.

## 4. Proofs

Each theorem is `Spec => []P` for a property `P` that a run checks (in `StoreIsDurable`
and `ConsentMatchesPrompt`, for a temporal formula), for every value of the
constants: any clients, secrets, workers, applications, connections, texts, disks,
and every bound. Every safety property of every passing run is stated by one of them.

| Module | Theorem | Property | Inductive invariant |
|---|---|---|---|
| ApprovalProofs | `TypeCorrect` | `TypeOK` | itself |
| | `SessionGrantsAlwaysTracked` | `SessionGrantsTracked` | itself, with types |
| | `UnattendedAlwaysEnds` | `UnattendedCeiling` | `CeilingInv` |
| | `LockLeavesOnlyUnattended` | `LockedOnlyUnattended` | with `RequestInv` |
| | `GrantsHaveConsent` | `ConsentBacked` | `RequestInv`, `ConsentInv` |
| | `RedeemedHaveConsent` | `RedeemConsented` | `ConsentInv` |
| | `RequestsAreOwned` | `PendingOwned` | `OwnerInv` |
| | `StaleContextsRefused` | `StaleContextRefused` | `ContextInv` |
| SupervisorProofs | `ResultsAreFinal` | `ResultIsFinal` | `FinalInv` |
| | `LiveRunsKeepTheirFiles` (one vault) | `LiveRunKeepsFiles` | `OneVaultInv` |
| | `StaleFilesAreScavenged` (one vault) | `StaleFilesScavenged` | `OneVaultInv` |
| | `ChunkingIsAlwaysInvisible` | `ChunkingIsInvisible` (under `RedactionSpec`) | `RedactionInv` |
| | `PatternsAreNeverShown` | `PatternsNeverShown` | `RedactionInv` |
| | `OutputIsAlwaysBounded` | `OutputBounded` | `RedactionInv` |
| LocalRpcProofs | `ReportsAreTrue` | `ReportIsTrue` | `CallsInv`, `PlaceInv`, `StartInv` |
| | `NoConflictWithOneself` | `NoOwnConflict` | `SessionInv` |
| | `WorkersRemain` | `SlotsRemain` | `PlaceInv`, `SlotsInv` |
| | `ServerIsAlwaysReachable` (one vault) | `ServingIsReachable` (under `EndpointSpec`) | `PathLockInv`, `PathInv` |
| VaultStoreProofs | `RevisionsAlwaysTell` (no stale choice) | `RevisionsTellCopies` | `StoreInv` |
| | `StoreIsDurable` (no stale choice) | `Durable`, the refinement of VaultRegister | `StoreInv` |
| DesktopAuthProofs | `LocksLeaveNothing` | `LockedHoldsNothing` | `DeskInv` |
| | `ValuesStayAuthorized` | `ValuesAreAuthorized` | `DeskInv` |
| | `WrongPinsAlwaysLock` | `WrongPinsLock` | `DeskInv` |
| | `ConsentMatchesPrompt` | `ConsentIsForThisPrompt` | `ConsInv`, with `DeskInv` |
| RunBrokerProofs | `LockedVaultQuiet` | `LockedVaultIsQuiet` | `BrokerInv`, `QuietInv` |
| | `ShutdownQuiet` | `ShutdownIsQuiet` | `BrokerInv`, `DropInv` |
| | `PromptsRefused` | `NoPromptUnderLock` | `BrokerInv`, `PromptInv` |
| | `ManualLockQuiet` | `ManualLockIsQuiet` | with `LocalInv`, `AppInv`, `AutoInv`, `ManualInv` |
| | `RevokedStaysRevoked` | `RevokedNeverRuns` | with `LocalInv`, `AppInv`, `KnownInv`, `OwnerInv`, `TargetInv`, `ExposedInv`, `ForbiddenInv` |
| | `ListAuthorized` | `ListWithinAuthority` (under `ListSpec`) | `BrokerInv`, `SessionInv`, `ListInv` |
| ExposureScanProofs | `CompleteIsEverything` | `CompleteMeansEverything` | `IInv`: `WalkInv` |
| | `FindingsAlwaysExact` | `FindingsAreExact` | `IInv`: `FindingsInv` |
| | `CredentialsAlwaysFirst` | `CredentialsFirst` | `IInv`: `CredentialsInv` |
| | `OnlyThisScanAlways` | `OnlyThisScanIsShown` | `IInv`: itself, with types |

Each of Supervisor, LocalRpc, VaultStore, DesktopAuth and ExposureScan also has
`TypesAlways` (`Spec => []TypeOK`), which the others rest on; RunBroker has
`BrokerTypes`, and Redaction `RedactionTypes`.

Assumptions. The `ASSUME`s of the modules: numbers are naturals, the values
that stand for "none" are not members of the sets they are added to; secrets are
finitely many with finitely many patterns, none empty, and the line about
omitted bytes fits beside half the limit (108 of the least limit of 128 bytes);
a disk is finite and a tree. Beyond them:

- *one vault* (`SameVault`): all applications use the same vault, and so the same
  instance lock. Without it the three properties are false (Known limits).
- *no stale choice* (`StaleChoice = FALSE`): nobody continues with a primary
  that a failed restore has replaced (Divergences). With it both are false.

### The arguments

**Approval.** Most actions write the grant table, but an entry has only four
origins: it is empty, it was there, the worker's poll wrote it for the published
request, or `grant_unattended` wrote it for its context. Lemma `GrantStep` shows
this once for every action, and lemma `PendingStep` shows the like for the
published request (gone, kept with its decision standing, newly decided, new);
each invariant is then a case distinction over origins and not over actions.
`ConsentBacked` alone is not inductive: an approval that is decided, but not yet
polled, turns into a grant later, so `ConsentInv` also says that a decided
approval of a client that is still there has consent, and `RequestInv` that the
request the window shows under the published id is the published one, without
which a decision could be about other secrets than those displayed.
`CeilingInv` bounds the monotonic end of an unattended grant from its start.
`OwnerInv` adds to `PendingOwned` that only one worker waits: otherwise the
request of one could be taken for another's. For a context that is no longer
fresh, `ContextInv` names the compared value that has moved on for good: the
lock epoch, the revision or the connection of the client, all of which only
grow; the vault session and the app lock may come back and do not count.

**Endpoint.** (`PathLockInv`, `PathInv`.) The lock makes the starts of one vault exclude each other, but an
exit gives the lock back before its socket is gone. `PathInv` says that from
bind to the removal at exit the path names the application's own socket, and
that an application about to remove a socket as stale removes one that nobody
listens on: the probe is what keeps a start away from the socket of an exit
under way, and the lock keeps others from putting one there after the probe.

**Supervisor.** `FinalInv` says what the phases of a run's end mean for its
processes: the group is seen to be empty before the readers are joined, and it
stays empty because only a live child forks into it. `OneVaultInv` says that the
lock lets one application at a time past the start, so that a supervised run
belongs to the only one and a starting one finds nothing but what was cut off.

**LocalRpc.** A call is told that nothing was started when it has no connection
that asks to run a command, or the broker refused on that connection. `CallsInv`
says that a call has at most one such connection, made after the session; `StartInv`
that a started command was started once, from that connection, which is past the
start. So a refusal, written before that point, is final, whatever crash or
lost reply follows. `SessionInv` says that a session the broker still counts is one
its client still holds; a client therefore meets no earlier session of its
own. `SlotsInv` counts the workers held for long: tracked sessions, one prompt,
one run.

**VaultStore.** `StoreInv` says that everything held anywhere was written
(`WrittenInv`), how far a commit has come in the two files and in what a power
loss would leave of them (`ProgressInv`), that the session has the primary's content until
that is replaced (`SessionInv`), and that what the primary may fall back to is
older than what it is, and both older than what is being committed or offered
for a restore (`OrderInv`). A new revision is then new among all copies.
The refinement shows of each step of a commit, each failure and crash that it is a
step of the register or changes nothing the register can see.

**DesktopAuth.** `DeskInv` judges a handler by the window it leaves: `WinInv` for
the window in the current vault session, `FrameInv` for what the handlers of
the present frame have still to do (a lock that another thread took may not have
been noticed yet), `WrongInv` for the failed PINs. `ConsentIsForThisPrompt` is about steps, and
needs more: the fingerprint request carries the prompt it is for, but the PIN
buffer is shared by four prompts and carries none. `PinInv` says that a PIN in
the buffer was typed at the prompt in front, and `TopInv` that a click reaches
the question for a secret only when no request is shown and unattended access is
not asked for.

**RunBroker.** A step is one of about sixty critical sections, so what a step
does is said once and by kind: `RunMove` for a run (where it goes, what becomes
of the lease, the child and its request, what it has seen), `Advances`, `Takes`,
`Releases` for a procedure and the run block, `CoreMethod` for the coordinator's
methods, each of which leaves a grant only the origins of CoordinatorProofs.
`BrokerInv` says where each thread may be, that the lease belongs to the run at
one of its steps (`LeaseInv`), and that the block has one owner, past whose
`quiesce` no run is active unless the block is for one client or pair
(`BlockInv`).

- `QuietInv`: with the vault locked no run is past its last look at it. Who
  closes the vault has the block, and so no run is active at that moment.
- `DropInv`: the flag is set before the block is taken, so a run that gets the
  lease after the block is gone is not admitted.
- `PromptInv`: while an RPC lock is under way, a worker about to publish knows an
  epoch older than the current one; `wait` refuses it.
- `ManualInv`: with the app locked by hand no run is past its admission.
  `LocalInv` gives the window's local operation one owner, hence `AutoInv`: the
  thread of an automatic lock does not complete a manual one, which matters
  because it does not wait for every run. `AppInv` says what a locked app leaves
  in the coordinator.
- `ForbiddenInv`: a pair taken away has no grant, no decided request that would
  give it one, and no child. What completes a revocation finds neither: after
  `revoke_all` and a vault lock no run is active, and a published request has a
  waiting run (`OwnerInv`); after a revocation of one client or pair the active
  run is another's (`TargetInv`, which needs `KnownInv`: a run that can start a
  child has told its secrets); after an automatic lock, which lets covered runs
  go on, `ExposedInv` follows the one run that is not covered from the copy of
  the active run over its cancellation to the drain. Later a child starts only
  with grants that `with_valid_grant` has just seen.
- `ListInv`: the ids a list is filtered by were allowed when they were read;
  `SessionInv` ties unattended grants to a session, so that the grants read last
  are those `require_client_access` asks for.

**Induction over data.** What a loop or a recursion computes is shown from the
least counterexample: a set of numbers that is not empty has a least element
(`LeastNumber`, from the library's well-foundedness of the naturals), hence a
set that holds 0, and with each number below `n` the next, holds all up to `n`
(`UpTo`). A loop is a recursive function on `0 .. n` in the model; lemma `LoopRuns`
shows that such a function exists, and its invariant follows by `UpTo`.
`SeqRecursion` does the same for the references `Redacted` and `Decoded`,
which recur to shorter texts.

**Redaction.** The redactor reads a text in pieces and the reference all of it
at once, so an invariant has to speak of text that is still to come. `SameRedaction`
says that, whatever follows, redacting all that was read gives the bytes `E`
passed on so far and then the redaction of what is pending; `SameDecoding` the like
of the escaper: decoding `E` gives the characters captured so far and then
the decoding of an incomplete character. Both need that nothing later can change
a decision already made: a pattern that starts before `SafeEnd` ends in the
buffer, so the patterns found there are those of the whole text (`FitsAreFound`), and a
character that is broken off is broken whatever follows (`DecodedBreak`).
`Captured` says that the head and the tail of the capture are the two ends of those
characters, and `Finished` what `finish` makes of them. `RedactionInv` puts these
together with the output and with what the combined limit leaves of it,
a beginning in whole characters (`Begins`), in which no pattern can be new.

**ExposureScan.** `FindingsInv` counts: no finding occurs in the report more
often than in the files read, and as often while the report may still be complete;
lemmas about `detect`'s folds give what one file adds, wherever it is cut off.
`CredentialsInv` says that only credential files were read until all of them
were, or the scan was stopped. `WalkInv` accounts for the tree as long as the
report may be complete: every entry of a directory that was entered is still to come or done
with (`EntriesInv`), the stack holds different directories with entries of their own
(`StackInv`), the counters count what was seen (`CountInv`), and no root that was
passed is missing (`PlaceInv`). At the end nothing is to come, so what
was entered is closed under entries and holds all that can be reached.

### Only model-checked

All liveness (`DecisionDelivered`, `LocksReturn`, `FailedVaultGetsQuiet`,
`RunEnds`, `CallsEnd`, `StaleSocketNeverBlocks`), which TLAPS does not handle.

## 5. Not modelled

Not modelled and not planned: cryptography, codec, framing and JSON, the error
and buffer types, validation of names and requests, the regular expressions of
the detector (pure functions of bytes); the clipboard, the platform's calls,
drawing and forms; the lists of grants and sessions, which each frame reads
anew for display; the CLI's configuration edits (sequential); the session state
of `ladon-core/src/broker.rs`, which only its own tests use; Windows.

What could follow: the prepared replacements of `vault.rs` with the window's
save, and the encodings from which a secret's patterns are made.
