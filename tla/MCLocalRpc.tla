---------------------------- MODULE MCLocalRpc -----------------------------
(* LocalRpc for TLC: one client with two calls, and a crash of the         *)
(* application or streams that fail, or two clients with one call each.    *)
EXTENDS LocalRpc

CONSTANTS c1, c2

OneClient == [c \in Clients |-> IF c = c1 THEN 0 ELSE MaxCalls]
TwoClients == [c \in Clients |-> MaxCalls - 1]

MCUsed ==
  {[calls |-> OneClient, crashes |-> 0, faulty |-> FALSE],
   [calls |-> OneClient, crashes |-> MaxCrashes, faulty |-> TRUE],
   [calls |-> TwoClients, crashes |-> MaxCrashes, faulty |-> FALSE]}
=============================================================================
