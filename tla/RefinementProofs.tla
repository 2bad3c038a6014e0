-------------------------- MODULE RefinementProofs --------------------------
(***************************************************************************)
(* PubSub implements Broker: every step of the server, the subscribers and *)
(* the network is a step of the broker, or none.                           *)
(***************************************************************************)
EXTENDS PubSubProofs

\* The broker's settled.
Settled == arrived - Len(udp_queue)

(* The datagram at the head of the queue is the next one to be settled. *)
LEMMA NextDatagram ==
  ASSUME IndInv, Turn(UDP)
  PROVE  /\ Head(udp_queue) \in Messages
         /\ Head(udp_queue).n = Settled + 1
         /\ Settled < MaxMsgs
         /\ udp_queue' = Tail(udp_queue) /\ arrived' = arrived
              => Settled' = Settled + 1
<1>1. /\ udp_queue \in Seq(Messages) /\ arrived \in Nat /\ arrived <= MaxMsgs
      /\ Len(udp_queue) \in Nat /\ DOMAIN udp_queue = 1..Len(udp_queue)
      /\ QueueIsRecent /\ udp_queue # <<>>
  BY NetworkAssumption, LenProperties, Turns DEF IndInv, TypeOK, NetTypeOK
<1>2. /\ Head(udp_queue) = udp_queue[1] /\ Head(udp_queue) \in Messages
      /\ Len(Tail(udp_queue)) = Len(udp_queue) - 1
  BY <1>1, HeadTailProperties
<1>3. Len(udp_queue) >= 1
  BY <1>1, EmptySeq
<1>4. Head(udp_queue).n = arrived - Len(udp_queue) + 1
  BY <1>1, <1>2, <1>3 DEF QueueIsRecent
<1> QED
  BY <1>1, <1>2, <1>3, <1>4, NetworkAssumption DEF Settled

(* The clients with a watched descriptor are the ones that are present. *)
LEMMA PresentAreOnline ==
  ASSUME IndInv, NEW i \in IdSpace
  PROVE  /\ online[i] <=> \E f \in ClientFds : Online(f) /\ online_clients[f] = i
         /\ online[i] = TRUE \/ online[i] = FALSE
<1>1. NoId \notin IdSpace
  BY NetworkAssumption DEF IdSpace, StrayWords, NoId
<1> QED
  BY <1>1 DEF IndInv, TypeOK, ServerTypeOK, RegistryConsistent, FlagsMatchMap,
              Online

(* A new client starts without subscriptions. *)
LEMMA ArrivalKeepsTopics ==
  ASSUME IndInv, NEW i \in IdSpace
  PROVE  TopicsOnArrival(i) = topics[i]
<1>1. topics[i] \in [Topics -> Modes]
  BY DEF IndInv, TypeOK, ServerTypeOK
<1>2. i \notin known => \A t \in Topics : topics[i][t] = "off"
  BY DEF IndInv, SubscribersKnown
<1> QED
  BY <1>1, <1>2 DEF TopicsOnArrival

(* Admitting a client is its arrival. *)
LEMMA AdmitIsArrive ==
  ASSUME IndInv, AdmitClient
  PROVE  \E i \in IdSpace : Promise!Arrive(i)
<1> DEFINE i == ReceivedId(peer[newsockfd])
<1>1. /\ i \in IdSpace /\ check_unique_id(i)
      /\ srv = "recvId" /\ srv' = "running"
      /\ online' = [online EXCEPT ![i] = TRUE]
      /\ topics' = [topics EXCEPT ![i] = TopicsOnArrival(i)]
      /\ handed' = [handed EXCEPT ![i] = @ \o pending_messages[i]]
      /\ pending_messages' = [pending_messages EXCEPT ![i] = free_string_list(@)]
      /\ UNCHANGED <<udp_queue, arrived>>
  BY DEF AdmitClient
<1> HIDE DEF i
<1>2. ~online[i]
  BY <1>1, PresentAreOnline DEF check_unique_id
<1>3. topics' = topics
  BY <1>1, ArrivalKeepsTopics DEF IndInv, TypeOK, ServerTypeOK
<1>4. Serving /\ Serving'
  BY <1>1 DEF Serving
<1>5. Promise!Arrive(i)
  BY <1>1, <1>2, <1>3, <1>4 DEF Promise!Arrive, free_string_list
<1> QED
  BY <1>1, <1>5

(* Noticing a disconnection is the client's leaving. *)
LEMMA DisconnectIsLeave ==
  ASSUME IndInv, NEW f \in ClientFds, Disconnect(f)
  PROVE  \E i \in IdSpace : Promise!Leave(i)
<1> DEFINE i == online_clients[f]
<1>1. i \in IdSpace
  BY Turns DEF Disconnect, IndInv, TypeOK, ServerTypeOK, RegistryConsistent,
               WatchedAreOnline
<1>2. online[i]
  BY <1>1 DEF IndInv, RegistryConsistent, FlagsMatchMap
<1>3. /\ online' = [online EXCEPT ![i] = FALSE]
      /\ UNCHANGED <<srv, topics, pending_messages, handed, udp_queue, arrived>>
      /\ srv = "running"
  BY DEF Disconnect, Turn, netVars
<1> HIDE DEF i
<1>4. Promise!Leave(i)
  BY <1>2, <1>3 DEF Promise!Leave, Serving
<1> QED
  BY <1>1, <1>4

(* A command is a choice of its client, or refused. *)
LEMMA CommandIsChoose ==
  ASSUME IndInv, NEW f \in ClientFds, HandleCommand(f)
  PROVE  \/ \E i \in IdSpace, t \in Topics, mode \in Modes :
              Promise!Choose(i, t, mode)
         \/ UNCHANGED Promise!vars
<1> DEFINE i == online_clients[f]
           M == [topic: Topics \cup {NoTopic}, eol: BOOLEAN, sf: Flags]
<1>1. PICK k \in 1..Len(up[peer[f]]) :
        \E d \in decode_message(SubSeq(up[peer[f]], 1, k)) :
          \/ topics' = [topics EXCEPT ![i] =
                          TopicsAfter(i, Verb(SubSeq(up[peer[f]], 1, k)[1]), d.left)]
          \/ topics' = topics
  BY DEF HandleCommand
<1> DEFINE chunk == SubSeq(up[peer[f]], 1, k)
           verb  == Verb(chunk[1])
<1>2. /\ chunk \in Seq(Lines) /\ chunk # <<>> /\ i \in IdSpace /\ online[i]
  BY ChunkOfLines DEF HandleCommand
<1>a. PICK d \in decode_message(chunk) :
        \/ topics' = [topics EXCEPT ![i] = TopicsAfter(i, verb, d.left)]
        \/ topics' = topics
  BY <1>1
<1> HIDE DEF chunk, verb
<1> DEFINE m    == d.left
           name == MessageAfter(verb, m).topic
<1>3. /\ name \in Topics \cup {NoTopic} /\ m.sf \in Modes
      /\ "off" \in Modes
  <2>1. m \in M
    BY <1>2, Decoding
  <2>2. MessageAfter(verb, m) \in M
    BY <2>1, MessageTyped
  <2> QED
    BY <2>1, <2>2 DEF Modes, Flags
<1> HIDE DEF m
<1>4. /\ UNCHANGED <<srv, online, pending_messages, handed, udp_queue, arrived>>
      /\ srv = "running"
  BY DEF HandleCommand, Turn
<1>5. topics \in [IdSpace -> [Topics -> Modes]]
  BY DEF IndInv, TypeOK, ServerTypeOK
<1>6. \/ topics' = topics
      \/ topics' = [topics EXCEPT ![i] = TopicsAfter(i, verb, m)]
  BY <1>a DEF m
<1>7. \/ TopicsAfter(i, verb, m) = topics[i]
      \/ /\ name \in Topics
         /\ \E mode \in Modes :
              TopicsAfter(i, verb, m) = [topics[i] EXCEPT ![name] = mode]
  BY <1>3 DEF TopicsAfter, add_topic, remove_topic
<1> HIDE DEF name, i
<1>8. CASE topics' = topics
  BY <1>4, <1>8 DEF Promise!vars, Serving
<1>9. CASE topics' = [topics EXCEPT ![i] = TopicsAfter(i, verb, m)]
  <2>1. CASE TopicsAfter(i, verb, m) = topics[i]
    <3>1. topics' = topics
      BY <1>2, <1>5, <1>9, <2>1
    <3> QED
      BY <1>8, <3>1
  <2>2. ASSUME NEW mode \in Modes, name \in Topics,
               TopicsAfter(i, verb, m) = [topics[i] EXCEPT ![name] = mode]
        PROVE  Promise!Choose(i, name, mode)
    <3>1. topics' = [topics EXCEPT ![i][name] = mode]
      BY <1>2, <1>5, <1>9, <2>2
    <3> QED
      BY <1>2, <1>4, <3>1 DEF Promise!Choose, Serving
  <2> QED
    BY <1>2, <1>7, <2>1, <2>2
<1> QED
  BY <1>6, <1>8, <1>9
-----------------------------------------------------------------------------
(* The clients a broadcast below descriptor cut reaches. *)
Reached(m, cut) ==
  {i \in IdSpace : \E f \in Targets(m.topic) : f < cut /\ online_clients[f] = i}

(* A broadcast hands the message to clients that follow its topic. *)
LEMMA BroadcastHands ==
  ASSUME IndInv, NEW m \in Messages, NEW cut \in Int, Broadcast(m, cut)
  PROVE  /\ Promise!Hand(m, Reached(m, cut))
         /\ Reached(m, cut) \subseteq {i \in IdSpace : Promise!Follows(i, m.topic)}
<1>1. handed' = [i \in IdSpace |-> IF i \in Reached(m, cut)
                                   THEN Append(handed[i], m) ELSE handed[i]]
  BY DEF Broadcast, Reached
<1>2. \A i \in Reached(m, cut) : Promise!Follows(i, m.topic)
  BY PresentAreOnline
     DEF Reached, Targets, Promise!Follows, check_subscription
<1> QED
  BY <1>1, <1>2 DEF Promise!Hand, Reached

(* A broadcast that is not cut short reaches all of them. *)
LEMMA AllReached ==
  ASSUME IndInv, NEW m \in Messages
  PROVE  Reached(m, MaxFd + 1) = {i \in IdSpace : Promise!Follows(i, m.topic)}
<1>1. \A f \in ClientFds : f < MaxFd + 1
  BY ServerAssumption DEF ClientFds
<1>2. \A i \in IdSpace : i \in Reached(m, MaxFd + 1) <=> Promise!Follows(i, m.topic)
  BY <1>1, PresentAreOnline
     DEF Reached, Targets, Promise!Follows, check_subscription
<1> QED
  BY <1>2 DEF Reached

(* Publishing a datagram delivers it. *)
LEMMA PublishIsDeliver ==
  ASSUME IndInv, PublishDatagram
  PROVE  \E m \in Messages : Promise!Deliver(m)
<1> DEFINE m == Head(udp_queue)
<1>1. /\ Turn(UDP) /\ Broadcast(m, MaxFd + 1) /\ Store(m)
      /\ udp_queue' = Tail(udp_queue) /\ arrived' = arrived
      /\ srv' = srv /\ UNCHANGED <<topics, online>>
  BY DEF PublishDatagram
<1>2. m \in Messages /\ m.n = Settled + 1 /\ Settled' = Settled + 1
  BY <1>1, NextDatagram
<1> HIDE DEF m
<1>3. Serving /\ Serving'
  BY <1>1 DEF Serving, Turn
<1>4. Promise!Hand(m, {i \in IdSpace : Promise!Follows(i, m.topic)})
  <2>1. MaxFd + 1 \in Int
    BY ServerAssumption
  <2> QED
    BY <1>1, <1>2, <2>1, BroadcastHands, AllReached
<1>5. \A i \in IdSpace : i \in Waiting(m.topic) <=> Promise!Awaits(i, m.topic)
  BY <1>2 DEF Waiting, check_sf_active, Promise!Awaits, IndInv,
              SubscribersKnown, Messages
<1>6. pending_messages' =
        [i \in IdSpace |-> IF Promise!Awaits(i, m.topic)
                           THEN Promise!Keep(m, pending_messages[i])
                           ELSE pending_messages[i]]
  BY <1>1, <1>5 DEF Store, add_string_to_list, Promise!Keep
<1>7. Promise!Deliver(m)
  BY <1>1, <1>2, <1>3, <1>4, <1>6 DEF Promise!Deliver, Settled
<1> QED
  BY <1>2, <1>7

(* The server's death in the middle of a broadcast is a failed delivery. *)
LEMMA PublishDiesIsFail ==
  ASSUME IndInv, PublishDies
  PROVE  \E m \in Messages :
           \E S \in SUBSET {i \in IdSpace : Promise!Follows(i, m.topic)} :
             Promise!Fail(m, S)
<1> DEFINE m == Head(udp_queue)
<1>1. /\ Turn(UDP) /\ udp_queue' = Tail(udp_queue) /\ arrived' = arrived
      /\ srv' = "died" /\ UNCHANGED <<topics, online, pending_messages>>
  BY DEF PublishDies, registry
<1>2. PICK cut \in Fatal(m) : Broadcast(m, cut)
  BY DEF PublishDies
<1>3. m \in Messages /\ m.n = Settled + 1 /\ Settled' = Settled + 1
  BY <1>1, NextDatagram
<1>4. cut \in Int
  BY ServerAssumption DEF Fatal, Targets, ClientFds
<1> HIDE DEF m
<1>5. Serving /\ ~Serving'
  BY <1>1 DEF Serving, Turn
<1>6. Promise!Fail(m, Reached(m, cut))
  BY <1>1, <1>2, <1>3, <1>4, <1>5, BroadcastHands DEF Promise!Fail, Settled
<1> QED
  BY <1>2, <1>3, <1>4, <1>6, BroadcastHands

(* Refusing a datagram drops it. *)
LEMMA RefuseIsDrop ==
  ASSUME IndInv, RefuseDatagram
  PROVE  Promise!Drop
<1>1. /\ Turn(UDP) /\ udp_queue' = Tail(udp_queue) /\ arrived' = arrived
      /\ UNCHANGED <<srv, topics, online, pending_messages, handed>>
  BY DEF RefuseDatagram, registry
<1>2. Settled < MaxMsgs /\ Settled' = Settled + 1
  BY <1>1, NextDatagram
<1>3. Serving /\ Serving'
  BY <1>1 DEF Serving, Turn
<1> QED
  BY <1>1, <1>2, <1>3 DEF Promise!Drop, Settled

(* What leaves the registry and the queue alone stops the broker or nothing. *)
LEMMA OtherSteps ==
  ASSUME UNCHANGED <<topics, online, pending_messages, handed, Settled>>,
         Serving' => Serving
  PROVE  Promise!Stop \/ UNCHANGED Promise!vars
BY DEF Promise!Stop, Promise!vars, Settled, Serving

(* A datagram that arrives waits to be settled. *)
LEMMA ArrivalSettlesNothing ==
  ASSUME IndInv, Publish
  PROVE  Settled' = Settled
<1>1. /\ udp_queue \in Seq(Messages) /\ arrived \in Nat
      /\ Len(udp_queue) \in Nat
  BY NetworkAssumption, LenProperties DEF IndInv, TypeOK, NetTypeOK
<1>2. PICK m \in Messages : /\ udp_queue' = Append(udp_queue, m)
                            /\ arrived' = arrived + 1
  BY <1>1, NetworkAssumption DEF Publish, DatagramArrives, Messages
<1>3. Len(udp_queue') = Len(udp_queue) + 1
  BY <1>1, <1>2, AppendProperties
<1> QED
  BY <1>1, <1>2, <1>3 DEF Settled
-----------------------------------------------------------------------------
(* Every step of PubSub is a step of the broker, or none. *)
LEMMA Simulation == IndInv /\ [Next]_vars => [Promise!Next]_(Promise!vars)
<1> SUFFICES ASSUME IndInv, [Next]_vars
             PROVE  Promise!Next \/ UNCHANGED Promise!vars
  OBVIOUS
<1>0. Promise!Messages = Messages /\ Promise!Modes = Modes
  BY DEF Promise!Messages, Messages, Promise!Modes, Modes
<1>1. CASE AdmitClient
  BY <1>1, AdmitIsArrive DEF Promise!Next
<1>2. ASSUME NEW f \in ClientFds, Disconnect(f)
      PROVE  Promise!Next
  BY <1>2, DisconnectIsLeave DEF Promise!Next
<1>3. ASSUME NEW f \in ClientFds, HandleCommand(f)
      PROVE  Promise!Next \/ UNCHANGED Promise!vars
  BY <1>0, <1>3, CommandIsChoose DEF Promise!Next
<1>4. CASE PublishDatagram
  BY <1>0, <1>4, PublishIsDeliver DEF Promise!Next
<1>5. CASE PublishDies
  BY <1>0, <1>5, PublishDiesIsFail DEF Promise!Next
<1>6. CASE RefuseDatagram
  BY <1>6, RefuseIsDrop DEF Promise!Next
<1>7. ASSUME UNCHANGED <<topics, online, pending_messages, handed, Settled>>,
             Serving' => Serving
      PROVE  Promise!Next \/ UNCHANGED Promise!vars
  BY <1>7, OtherSteps DEF Promise!Next
<1>8. CASE ServerStep
  <2>1. CASE \/ Select \/ AcceptConnection \/ AcceptFails \/ RefuseClient
             \/ AdmitDies \/ HandleStdin
             \/ \E f \in ClientFds : RecvFails(f) \/ CommandDies(f)
    BY <1>7, <2>1
       DEF Select, AcceptConnection, AcceptFails, RefuseClient, AdmitDies,
           HandleStdin, RecvFails, CommandDies, Turn, Serving, registry,
           netVars, Settled
  <2> QED
    BY <1>1, <1>2, <1>3, <1>4, <1>5, <1>6, <1>8, <2>1
       DEF ServerStep, ClientStep
<1>9. ASSUME NEW line \in ConsoleLines, ConsoleLine(line)
      PROVE  Promise!Next \/ UNCHANGED Promise!vars
  BY <1>7, <1>9 DEF ConsoleLine, Serving, registry, netVars, Settled
<1>10. CASE UNCHANGED <<udp_queue, arrived, serverVars>>
  BY <1>7, <1>10 DEF serverVars, registry, Serving, Settled
<1>11. ASSUME NEW p \in Procs, SubscriberStep(p), UNCHANGED serverVars
       PROVE  Promise!Next \/ UNCHANGED Promise!vars
  BY <1>10, <1>11
     DEF SubscriberStep, Connect, SendId, KilledEarly, TypeLine, Exit,
         Receive, EndOfStream
<1>12. CASE Publish /\ UNCHANGED serverVars
  BY <1>7, <1>12, ArrivalSettlesNothing DEF serverVars, registry, Serving
<1>13. CASE UNCHANGED vars
  BY <1>10, <1>13 DEF vars, netVars
<1> QED
  BY <1>8, <1>9, <1>11, <1>12, <1>13 DEF Next

(***************************************************************************)
(* Seen through its registry, the server with its sockets, its subscribers *)
(* and its network implements the broker that promises store&forward: it   *)
(* hands each message once to whom it should, or stops.                    *)
(***************************************************************************)
THEOREM Implementation == Spec => ImplementsBroker
<1>1. Init => Promise!Init
  <2>1. Len(<<>>) = 0 /\ 0 - 0 = 0
    OBVIOUS
  <2> QED
    BY <2>1 DEF Init, NetInit, ServerInit, Promise!Init, Serving
<1> QED
  BY <1>1, Simulation, Invariance, PTL DEF Spec, ImplementsBroker, Promise!Spec

(***************************************************************************)
(* Disconnecting, reconnecting and being refused leave subscriptions alone:*)
(* only a present client's choice changes them.                            *)
(***************************************************************************)
THEOREM SubscriptionsKept == Spec => SubscriptionsSurvive
<1>1. IndInv /\ [Next]_vars =>
        [\A i \in IdSpace : topics'[i] # topics[i] => online[i] /\ online'[i]]_vars
  <2> SUFFICES ASSUME IndInv, [Next]_vars, NEW j \in IdSpace, topics'[j] # topics[j]
               PROVE  online[j] /\ online'[j]
    OBVIOUS
  <2>1. PICK i \in IdSpace, t \in Topics, mode \in Promise!Modes :
               Promise!Choose(i, t, mode)
    BY Simulation
       DEF Promise!Next, Promise!vars, Promise!Arrive, Promise!Leave,
           Promise!Deliver, Promise!Fail, Promise!Drop, Promise!Stop
  <2>2. i = j /\ online' = online /\ online[i]
    BY <2>1 DEF Promise!Choose, IndInv, TypeOK, ServerTypeOK
  <2> QED
    BY <2>2
<1> QED
  BY <1>1, Invariance, PTL DEF Spec, SubscriptionsSurvive

(* A sequence is a prefix of its extensions, which hold what extends it. *)
LEMMA Extensions ==
  ASSUME NEW S, NEW s \in Seq(S), NEW e \in Seq(S)
  PROVE  /\ Len(s) <= Len(s \o e)
         /\ SubSeq(s \o e, 1, Len(s)) = s
         /\ \A k \in DOMAIN e : \E j \in DOMAIN (s \o e) : (s \o e)[j] = e[k]
<1> DEFINE c == s \o e
<1>1. /\ Len(s) \in Nat /\ DOMAIN s = 1..Len(s)
      /\ Len(e) \in Nat /\ DOMAIN e = 1..Len(e)
  BY LenProperties
<1>2. /\ c \in Seq(S) /\ Len(c) = Len(s) + Len(e) /\ DOMAIN c = 1..Len(c)
      /\ \A k \in 1..Len(c) : c[k] = IF k <= Len(s) THEN s[k] ELSE e[k - Len(s)]
  BY <1>1, ConcatProperties, LenProperties
<1> HIDE DEF c
<1>3. \A k \in DOMAIN s : k \in DOMAIN c /\ c[k] = s[k]
  BY <1>1, <1>2
<1>4. \A k \in DOMAIN e : k + Len(s) \in DOMAIN c /\ c[k + Len(s)] = e[k]
  BY <1>1, <1>2
<1>5. SubSeq(c, 1, Len(s)) = s
  <2> DEFINE r == SubSeq(c, 1, Len(s))
  <2>1. /\ r \in Seq(S) /\ Len(r) = Len(s)
        /\ \A k \in 1..Len(s) : r[k] = c[k]
    <3>1. \A k \in 1..Len(s) : c[k] \in S
      BY <1>1, <1>2, <1>3, ElementOfSeq
    <3> QED
      BY <1>1, <1>2, <3>1, SubSeqProperties
  <2> HIDE DEF r
  <2>2. \A k \in 1..Len(s) : r[k] = s[k]
    BY <1>1, <1>3, <2>1
  <2>3. r = s
    BY <2>1, <2>2, SeqEqual
  <2> QED
    BY <2>3 DEF r
<1>6. /\ Len(s) <= Len(c)
      /\ SubSeq(c, 1, Len(s)) = s
      /\ \A k \in DOMAIN e : \E j \in DOMAIN c : c[j] = e[k]
  BY <1>1, <1>2, <1>3, <1>4, <1>5
<1> QED
  BY <1>6, Zenon DEF c

(* The same, for lists of messages. *)
LEMMA Extended ==
  \A s, e \in Seq(Messages) :
    /\ Len(s) <= Len(s \o e)
    /\ SubSeq(s \o e, 1, Len(s)) = s
    /\ \A k \in DOMAIN e : \E j \in DOMAIN (s \o e) : (s \o e)[j] = e[k]
BY Extensions

(***************************************************************************)
(* A stored message leaves the store only by being handed to its client,   *)
(* and nothing handed over is taken back.                                  *)
(***************************************************************************)
THEOREM StoredAreSent == Spec => StoredUntilSent
<1>1. ASSUME IndInv, [Next]_vars, NEW i \in IdSpace
      PROVE  KeptOrSent(i) /\ NothingTakenBack(i)
  <2>0. /\ pending_messages \in [IdSpace -> Seq(Messages)]
        /\ handed \in [IdSpace -> Seq(Messages)]
        /\ Promise!Messages = Messages
    BY <1>1 DEF IndInv, TypeOK, ServerTypeOK, Promise!Messages, Messages
  <2>1. ASSUME handed'[i] = handed[i]
        PROVE  NothingTakenBack(i)
    <3>1. Len(handed[i]) \in Nat /\ handed[i] \in Seq(Messages)
      BY <2>0, LenProperties
    <3>2. /\ <<>> \in Seq(Messages)
          /\ handed[i] \o <<>> = handed[i]
      BY <3>1, ConcatEmptySeq, EmptySeq
    <3>3. /\ Len(handed[i]) <= Len(handed[i])
          /\ SubSeq(handed[i] \o <<>>, 1, Len(handed[i])) = handed[i]
      BY <3>1, <3>2, Extended
    <3> QED
      BY <2>1, <3>2, <3>3 DEF NothingTakenBack
  <2>2. ASSUME pending_messages'[i] = pending_messages[i]
        PROVE  KeptOrSent(i)
    BY <2>2 DEF KeptOrSent
  <2>3. ASSUME NEW j \in IdSpace, Promise!Arrive(j)
        PROVE  KeptOrSent(i) /\ NothingTakenBack(i)
    <3>1. CASE i = j
      <4>1. handed'[i] = handed[i] \o pending_messages[i]
        BY <2>0, <2>3, <3>1 DEF Promise!Arrive
      <4>2. handed[i] \in Seq(Messages) /\ pending_messages[i] \in Seq(Messages)
        BY <2>0
      <4> DEFINE c == handed[i] \o pending_messages[i]
      <4>a. /\ Len(handed[i]) <= Len(c)
            /\ SubSeq(c, 1, Len(handed[i])) = handed[i]
            /\ \A k \in DOMAIN pending_messages[i] :
                 \E l \in DOMAIN c : c[l] = pending_messages[i][k]
        BY <4>2, Extended
      <4>b. handed'[i] = c
        BY <4>1
      <4> HIDE DEF c
      <4>3. NothingTakenBack(i)
        BY <4>a, <4>b DEF NothingTakenBack
      <4>4. KeptOrSent(i)
        BY <4>a, <4>b DEF KeptOrSent
      <4> QED
        BY <4>3, <4>4
    <3>2. CASE i # j
      <4>1. handed'[i] = handed[i] /\ pending_messages'[i] = pending_messages[i]
        BY <2>0, <2>3, <3>2 DEF Promise!Arrive
      <4> QED
        BY <2>1, <2>2, <4>1
    <3> QED
      BY <3>1, <3>2
  <2>4. ASSUME NEW m \in Messages, NEW S, Promise!Hand(m, S)
        PROVE  NothingTakenBack(i)
    <3>1. CASE handed'[i] = Append(handed[i], m)
      <4>1. handed[i] \in Seq(Messages) /\ <<m>> \in Seq(Messages)
        BY <2>0, OneElement
      <4>2. Append(handed[i], m) = handed[i] \o <<m>>
        BY <4>1, AppendIsConcat
      <4> QED
        BY <3>1, <4>1, <4>2, Extended DEF NothingTakenBack
    <3>2. handed'[i] = Append(handed[i], m) \/ handed'[i] = handed[i]
      BY <2>4 DEF Promise!Hand
    <3> QED
      BY <2>1, <3>1, <3>2
  <2>5. ASSUME NEW m \in Messages, Promise!Deliver(m)
        PROVE  KeptOrSent(i) /\ NothingTakenBack(i)
    <3>1. CASE pending_messages'[i] = Promise!Keep(m, pending_messages[i])
      <4>1. pending_messages[i] \in Seq(Messages) /\ <<m>> \in Seq(Messages)
        BY <2>0, OneElement
      <4>2. pending_messages'[i] = <<m>> \o pending_messages[i]
        BY <3>1 DEF Promise!Keep
      <4> DEFINE c == <<m>> \o pending_messages[i]
      <4>a. \A k \in DOMAIN pending_messages[i] :
              \E l \in DOMAIN c : c[l] = pending_messages[i][k]
        BY <4>1, Extended
      <4>b. pending_messages'[i] = c
        BY <4>2
      <4> HIDE DEF c
      <4>3. KeptOrSent(i)
        BY <4>a, <4>b DEF KeptOrSent
      <4> QED
        BY <2>4, <2>5, <4>3 DEF Promise!Deliver
    <3>2. \/ pending_messages'[i] = Promise!Keep(m, pending_messages[i])
          \/ pending_messages'[i] = pending_messages[i]
      BY <2>5 DEF Promise!Deliver
    <3> QED
      BY <2>2, <2>4, <2>5, <3>1, <3>2 DEF Promise!Deliver
  <2>6. ASSUME NEW m \in Messages, NEW S, Promise!Fail(m, S)
        PROVE  KeptOrSent(i) /\ NothingTakenBack(i)
    BY <2>2, <2>4, <2>6 DEF Promise!Fail
  <2>7. CASE UNCHANGED <<pending_messages, handed>>
    BY <2>1, <2>2, <2>7
  <2> QED
    BY <1>1, <2>0, <2>3, <2>5, <2>6, <2>7, Simulation
       DEF Promise!Next, Promise!vars, Promise!Leave, Promise!Choose,
           Promise!Drop, Promise!Stop
<1>2. IndInv /\ [Next]_vars =>
        [\A i \in IdSpace : KeptOrSent(i) /\ NothingTakenBack(i)]_vars
  BY <1>1
<1> QED
  BY <1>2, Invariance, PTL DEF Spec, StoredUntilSent
=============================================================================
