------------------------------- MODULE Broker -------------------------------
(***************************************************************************)
(* What the server promises its subscribers, without sockets, processes or *)
(* a registry: clients come and go under an identifier and choose topics;  *)
(* each message is settled once, by handing it to the clients present that *)
(* follow its topic and storing it for the absent ones that asked for that *)
(* (store&forward). What is stored is handed over when the client arrives. *)
(***************************************************************************)
EXTENDS Integers, Sequences

CONSTANTS Clients, Topics, Kinds, MaxMsgs

ASSUME BrokerAssumption == MaxMsgs \in Nat

VARIABLES
  subs,      \* subs[i][t]: "off", "sf0" (online only) or "sf1"
  present,   \* present[i]: i is connected
  store,     \* store[i]: messages kept for i, newest first
  handed,    \* handed[i]: messages handed to i's connections so far
  settled,   \* number of messages settled
  open       \* FALSE once the broker stopped

vars == <<subs, present, store, handed, settled, open>>

Modes    == {"off", "sf0", "sf1"}
Messages == [n: 1..MaxMsgs, topic: Topics, kind: Kinds]

Init ==
  /\ subs = [i \in Clients |-> [t \in Topics |-> "off"]]
  /\ present = [i \in Clients |-> FALSE]
  /\ store = [i \in Clients |-> <<>>]
  /\ handed = [i \in Clients |-> <<>>]
  /\ settled = 0
  /\ open = TRUE

Arrive(i) ==
  /\ open
  /\ ~present[i]
  /\ present' = [present EXCEPT ![i] = TRUE]
  /\ handed' = [handed EXCEPT ![i] = @ \o store[i]]
  /\ store' = [store EXCEPT ![i] = <<>>]
  /\ UNCHANGED <<subs, settled, open>>

Leave(i) ==
  /\ open
  /\ present[i]
  /\ present' = [present EXCEPT ![i] = FALSE]
  /\ UNCHANGED <<subs, store, handed, settled, open>>

\* A client subscribes to a topic, changes its mode or leaves the topic.
Choose(i, t, mode) ==
  /\ open
  /\ present[i]
  /\ subs' = [subs EXCEPT ![i][t] = mode]
  /\ UNCHANGED <<present, store, handed, settled, open>>

\* Mutant: kept for the clients that are present too.
AwaitsAlways(i, t) == subs[i][t] = "sf1"

Follows(i, t) == present[i] /\ subs[i][t] # "off"
Awaits(i, t)  == ~present[i] /\ subs[i][t] = "sf1"

Keep(m, list) == <<m>> \o list

Hand(m, S) ==
  handed' = [i \in Clients |-> IF i \in S THEN Append(handed[i], m)
                               ELSE handed[i]]

Deliver(m) ==
  /\ open
  /\ m.n = settled + 1
  /\ settled' = m.n
  /\ Hand(m, {i \in Clients : Follows(i, m.topic)})
  /\ store' = [i \in Clients |-> IF Awaits(i, m.topic) THEN Keep(m, store[i])
                                 ELSE store[i]]
  /\ UNCHANGED <<subs, present, open>>

\* A message is dropped as malformed.
Drop ==
  /\ open
  /\ settled < MaxMsgs
  /\ settled' = settled + 1
  /\ UNCHANGED <<subs, present, store, handed, open>>

\* The broker fails in the middle of a delivery.
Fail(m, S) ==
  /\ open
  /\ m.n = settled + 1
  /\ settled' = m.n
  /\ Hand(m, S)
  /\ open' = FALSE
  /\ UNCHANGED <<subs, present, store>>

Stop ==
  /\ open
  /\ open' = FALSE
  /\ UNCHANGED <<subs, present, store, handed, settled>>

Next ==
  \/ \E i \in Clients : Arrive(i) \/ Leave(i)
  \/ \E i \in Clients, t \in Topics, mode \in Modes : Choose(i, t, mode)
  \/ \E m \in Messages :
       \/ Deliver(m)
       \/ \E S \in SUBSET {i \in Clients : Follows(i, m.topic)} : Fail(m, S)
  \/ Drop
  \/ Stop

Spec == Init /\ [][Next]_vars
-----------------------------------------------------------------------------
(* Every variable has its type. *)
TypeOK ==
  /\ subs \in [Clients -> [Topics -> Modes]]
  /\ present \in [Clients -> BOOLEAN]
  /\ store \in [Clients -> Seq(Messages)]
  /\ handed \in [Clients -> Seq(Messages)]
  /\ settled \in 0..MaxMsgs
  /\ open \in BOOLEAN

(***************************************************************************)
(* No message is handed over twice, or handed over and kept, or kept twice *)
(* for the same client, over any number of reconnections.                  *)
(***************************************************************************)
AtMostOnce ==
  \A i \in Clients :
    /\ \A a, b \in DOMAIN handed[i] : handed[i][a] = handed[i][b] => a = b
    /\ \A a, b \in DOMAIN store[i] : store[i][a] = store[i][b] => a = b
    /\ \A a \in DOMAIN handed[i], b \in DOMAIN store[i] :
         handed[i][a] # store[i][b]

(***************************************************************************)
(* What is kept is in the reverse of the order in which it was published.  *)
(***************************************************************************)
NewestFirst ==
  \A i \in Clients : \A a, b \in DOMAIN store[i] :
    a < b => store[i][a].n > store[i][b].n

(* Nothing is kept for a client that is present. *)
KeptForAbsent == \A i \in Clients : store[i] # <<>> => ~present[i]
=============================================================================
