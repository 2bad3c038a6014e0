----------------------------- MODULE PubSubInv ------------------------------
(***************************************************************************)
(* The inductive invariant of PubSub, in named parts, for the proofs of    *)
(* module PubSubProofs; TLC checks it on small instances first.            *)
(***************************************************************************)
EXTENDS PubSub

(***************************************************************************)
(* Subscribers: nothing is sent before the identifier, only lines follow   *)
(* it, and a closed end belongs to a run that is over.                     *)
(***************************************************************************)
SubscriberShape ==
  \A p \in Procs :
    /\ stage[p] \in {"new", "connected"} => up[p] = <<>>
    /\ \A k \in DOMAIN up[p] : k > 1 => up[p][k] \in Lines
    /\ link[p] # "open" => stage[p] = "gone"

(* A run that started has its identifier. *)
RunsAreNamed == \A p \in Procs : stage[p] # "new" => id[p] \in Ids

(***************************************************************************)
(* A run of ./subscriber has at most one place in the server: a position   *)
(* of the backlog or one descriptor.                                       *)
(***************************************************************************)
OnePlaceEach ==
  /\ \A a, b \in DOMAIN backlog : backlog[a] = backlog[b] => a = b
  /\ \A a \in DOMAIN backlog : stage[backlog[a]] # "new"
  /\ \A a \in DOMAIN backlog, f \in ClientFds : peer[f] # backlog[a]
  /\ \A f \in ClientFds : peer[f] # NoProc => stage[peer[f]] # "new"
  /\ \A f, g \in ClientFds : peer[f] # NoProc /\ peer[f] = peer[g] => f = g

(***************************************************************************)
(* A watched descriptor is open, its subscriber's identifier was read.     *)
(***************************************************************************)
WatchedAreOpen ==
  \A f \in ClientFds : f \in active_fds =>
    /\ peer[f] # NoProc
    /\ \A k \in DOMAIN up[peer[f]] : up[peer[f]][k] \in Lines
    /\ stage[peer[f]] \in {"running", "gone"}

(* While the identifier is awaited its descriptor is open and not watched. *)
AwaitedIsOpen ==
  srv = "recvId" =>
    /\ newsockfd \in ClientFds
    /\ newsockfd \notin active_fds
    /\ peer[newsockfd] # NoProc

(* The waiting datagrams are the last ones that arrived, in order. *)
QueueIsRecent ==
  /\ Len(udp_queue) <= arrived
  /\ \A k \in DOMAIN udp_queue : udp_queue[k].n = arrived - Len(udp_queue) + k

(* Only known clients have subscriptions. *)
SubscribersKnown ==
  \A i \in IdSpace, t \in Topics : topics[i][t] # "off" => i \in known

IndInv ==
  /\ TypeOK
  /\ SubscriberShape
  /\ RunsAreNamed
  /\ OnePlaceEach
  /\ WatchedAreOpen
  /\ AwaitedIsOpen
  /\ RegistryConsistent
  /\ ReadyStaysReady
  /\ StoredOnlyOffline
  /\ QueueIsRecent
  /\ SubscribersKnown
-----------------------------------------------------------------------------
(***************************************************************************)
(* What reaches a subscriber, for the proofs of module DeliveryProofs.     *)
(***************************************************************************)
Elements(s) == {s[k] : k \in DOMAIN s}

(* A run that has not started has no identifier and typed nothing; what a  *)
(* run sent beside its identifier it typed.                                *)
LinesWereTyped ==
  \A p \in Procs :
    /\ stage[p] = "new" => id[p] = NoId /\ typed[p] = <<>>
    /\ Elements(up[p]) \cap Lines \subseteq Elements(typed[p])

(* Until its identifier is read a run is waiting or being set up: the      *)
(* identifier comes first and nothing was sent.                            *)
NotYetServed(p) ==
  \/ stage[p] = "new"
  \/ p \in Elements(backlog)
  \/ newsockfd \in ClientFds /\ peer[newsockfd] = p

IdentifierComesFirst ==
  /\ srv = "running" => newsockfd = NoFd
  /\ newsockfd \notin active_fds
  /\ \A p \in Procs : NotYetServed(p) =>
       /\ down[p] = <<>> /\ printed[p] = <<>>
       /\ up[p] # <<>> => Head(up[p]) = id[p]
       /\ stage[p] = "running" => up[p] # <<>>

(* A watched connection is served under the identifier its run announced,  *)
(* or under a stray word when the run was gone before it sent any.         *)
ServedByName ==
  \A f \in ClientFds : online_clients[f] # NoId =>
    \/ online_clients[f] = id[peer[f]]
    \/ link[peer[f]] # "open" /\ up[peer[f]] = <<>>

(* The notice goes to refused connections, and nothing else does.          *)
Refused(f) == peer[f] # NoProc /\ f \notin active_fds /\ f # newsockfd

RefusedGetNotice ==
  \A f \in ClientFds : Refused(f) =>
    /\ printed[peer[f]] = <<>>
    /\ \/ down[peer[f]] = <<Notice>>
       \/ down[peer[f]] = <<>> /\ link[peer[f]] # "open"

OnlyRefusedGetNotice ==
  \A p \in Procs :
    Notice \in Elements(down[p]) => \E f \in ClientFds : Refused(f) /\ peer[f] = p

(* What a connection carries was sent for its identifier.                  *)
CarriedWasHanded ==
  \A p \in Procs :
    (Elements(printed[p]) \cup Elements(down[p])) \ {Notice}
      \subseteq IF id[p] = NoId THEN {} ELSE Elements(handed[id[p]])

(* What was sent or stored for an identifier it asked for.                 *)
HandedWasAsked ==
  \A i \in IdSpace : \A m \in Elements(handed[i]) \cup Elements(pending_messages[i]) :
    Asked(i, m.topic)

(* The topic the last command left, accepted or refused, is in some line.  *)
LastTopicNamed == s_message.topic # NoTopic => Named(s_message.topic)

DeliveryInv ==
  /\ LinesWereTyped
  /\ IdentifierComesFirst
  /\ ServedByName
  /\ RefusedGetNotice
  /\ OnlyRefusedGetNotice
  /\ CarriedWasHanded
  /\ HandedWasAsked
  /\ LastTopicNamed
  /\ OnlyNamedTopics
  /\ BacklogThenLive
=============================================================================
