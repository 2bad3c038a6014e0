------------------------------ MODULE MCBroker -----------------------------
(* A small instance of Broker for TLC. *)
EXTENDS Broker, TLC

CONSTANTS alice, bob, news

Symmetry == Permutations(Clients)
=============================================================================
