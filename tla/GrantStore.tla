----------------------------- MODULE GrantStore -----------------------------
(***************************************************************************)
(* The grant table of ladon-core (grants.rs): which client may use which   *)
(* secret, and until when.  A table is a function from clients to secrets  *)
(* to deadlines; NoGrant stands for a pair the HashMap does not hold.  The *)
(* operators are the methods of GrantStore as functions of the table and   *)
(* of the two clocks they read: `elapsed' is MonotonicClock::now_millis,   *)
(* which only grows, and `wall' is SystemTime::now, which the user or NTP  *)
(* may set to anything.                                                    *)
(***************************************************************************)
EXTENDS Integers

CONSTANTS Clients,  \* client session ids
          Secrets   \* secret ids

DeadlineKinds == {"none", "elapsed", "wall", "unattended", "session"}

(* `since' is not in the code: it remembers, for the properties, the       *)
(* monotonic time at which the entry was written.                          *)
Deadline == [kind : DeadlineKinds, wall : Nat, elapsed : Nat, since : Nat]
Table == [Clients -> [Secrets -> Deadline]]

NoGrant == [kind |-> "none", wall |-> 0, elapsed |-> 0, since |-> 0]
NoGrants == [c \in Clients |-> [s \in Secrets |-> NoGrant]]

(* Mutant: an unattended grant lasts as long as the wall clock says. *)
RunningMutant(d, elapsed, wall) ==
  \/ d.kind = "elapsed" /\ d.elapsed > elapsed
  \/ d.kind \in {"wall", "unattended"} /\ d.wall > wall
  \/ d.kind = "session"

(* GrantDeadline::remaining is not zero. *)
Running(d, elapsed, wall) ==
  \/ d.kind = "elapsed" /\ d.elapsed > elapsed
  \/ d.kind = "wall" /\ d.wall > wall
  \/ d.kind = "unattended" /\ d.wall > wall /\ d.elapsed > elapsed
  \/ d.kind = "session"

PurgeExpired(g, elapsed, wall) ==
  [c \in Clients |-> [s \in Secrets |->
     IF Running(g[c][s], elapsed, wall) THEN g[c][s] ELSE NoGrant]]

(* Purges, then overwrites the entries of client c for the secrets S. *)
Insert(g, c, S, d, elapsed, wall) ==
  [PurgeExpired(g, elapsed, wall) EXCEPT ![c] =
     [s \in Secrets |-> IF s \in S THEN d
                        ELSE PurgeExpired(g, elapsed, wall)[c][s]]]

GrantFor(g, c, S, lifetime, elapsed, wall) ==
  Insert(g, c, S, [kind |-> "elapsed", wall |-> 0,
                   elapsed |-> elapsed + lifetime, since |-> elapsed],
         elapsed, wall)

(* Mutant: stores the time left instead of the instant. *)
GrantUntilMutant(g, c, S, deadline, elapsed, wall) ==
  Insert(g, c, S, [kind |-> "wall", wall |-> deadline - wall,
                   elapsed |-> 0, since |-> elapsed],
         elapsed, wall)

GrantUntil(g, c, S, deadline, elapsed, wall) ==
  Insert(g, c, S, [kind |-> "wall", wall |-> deadline,
                   elapsed |-> 0, since |-> elapsed],
         elapsed, wall)

GrantSession(g, c, S, elapsed, wall) ==
  Insert(g, c, S, [kind |-> "session", wall |-> 0,
                   elapsed |-> 0, since |-> elapsed],
         elapsed, wall)

(* The wall deadline also fixes a bound on the monotonic clock. *)
GrantUnattendedUntil(g, c, S, deadline, elapsed, wall) ==
  Insert(g, c, S, [kind |-> "unattended", wall |-> deadline,
                   elapsed |-> elapsed + (IF deadline > wall THEN deadline - wall ELSE 0),
                   since |-> elapsed],
         elapsed, wall)

IsUnattended(d, elapsed, wall) ==
  d.kind = "unattended" /\ Running(d, elapsed, wall)

RetainUnattended(g, elapsed, wall) ==
  [c \in Clients |-> [s \in Secrets |->
     IF IsUnattended(g[c][s], elapsed, wall) THEN g[c][s] ELSE NoGrant]]

HasUnattended(g, c, elapsed, wall) ==
  \E s \in Secrets : IsUnattended(g[c][s], elapsed, wall)

MissingUnattended(g, c, S, elapsed, wall) ==
  {s \in S : ~ IsUnattended(g[c][s], elapsed, wall)}

Missing(g, c, S, elapsed, wall) ==
  {s \in S : ~ Running(g[c][s], elapsed, wall)}

(* revoke_client, revoke_secret and revoke_pair. *)
RevokeClientGrants(g, c) == [g EXCEPT ![c] = [s \in Secrets |-> NoGrant]]

RevokeSecretGrants(g, s) == [c \in Clients |-> [g[c] EXCEPT ![s] = NoGrant]]

RevokePairGrant(g, c, s, elapsed, wall) ==
  [PurgeExpired(g, elapsed, wall) EXCEPT ![c][s] = NoGrant]
=============================================================================
