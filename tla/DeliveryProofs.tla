--------------------------- MODULE DeliveryProofs ---------------------------
(***************************************************************************)
(* What reaches a subscriber was asked for, comes once and in order, for   *)
(* any subscribers, topics, lines and number of messages. That nothing is  *)
(* sent twice is inherited from the broker that PubSub implements; what    *)
(* the connections add to it is DeliveryInv, one lemma for each part.      *)
(***************************************************************************)
EXTENDS RefinementProofs

(* The elements of the sequences that the actions build. *)
LEMMA Pieces ==
  ASSUME NEW S, NEW s \in Seq(S)
  PROVE  /\ Elements(s) \subseteq S
         /\ \A m : Elements(Append(s, m)) = Elements(s) \cup {m}
         /\ \A r \in Seq(S) : Elements(s \o r) = Elements(s) \cup Elements(r)
         /\ s # <<>> => /\ Head(s) \in Elements(s)
                        /\ Elements(s) = {Head(s)} \cup Elements(Tail(s))
         /\ \A k \in 1..Len(s) : Elements(SubSeq(s, k + 1, Len(s))) \subseteq Elements(s)
<1>0. /\ Len(s) \in Nat /\ DOMAIN s = 1..Len(s)
      /\ \A k \in DOMAIN s : s[k] \in S
  BY LenProperties, ElementOfSeq
<1>1. Elements(s) \subseteq S
  BY <1>0 DEF Elements
<1>2. ASSUME NEW m
      PROVE  Elements(Append(s, m)) = Elements(s) \cup {m}
  <2>1. /\ DOMAIN Append(s, m) = 1..(Len(s) + 1)
        /\ \A k \in 1..(Len(s) + 1) :
             Append(s, m)[k] = IF k <= Len(s) THEN s[k] ELSE m
    <3>1. s \in Seq(S \cup {m}) /\ m \in S \cup {m}
      BY <1>0
    <3> QED
      BY <1>0, <3>1, AppendProperties, LenProperties
  <2>2. ASSUME NEW e \in Elements(Append(s, m))
        PROVE  e \in Elements(s) \cup {m}
    BY <1>0, <2>1 DEF Elements
  <2>3. ASSUME NEW e \in Elements(s)
        PROVE  e \in Elements(Append(s, m))
    BY <1>0, <2>1 DEF Elements
  <2>4. m \in Elements(Append(s, m))
    <3>1. Len(s) + 1 \in DOMAIN Append(s, m) /\ Append(s, m)[Len(s) + 1] = m
      BY <1>0, <2>1
    <3> QED
      BY <3>1 DEF Elements
  <2> QED
    BY <2>2, <2>3, <2>4
<1>3. ASSUME NEW r \in Seq(S)
      PROVE  Elements(s \o r) = Elements(s) \cup Elements(r)
  <2>1. /\ Len(r) \in Nat /\ DOMAIN r = 1..Len(r)
        /\ DOMAIN (s \o r) = 1..(Len(s) + Len(r))
        /\ \A k \in 1..(Len(s) + Len(r)) :
             (s \o r)[k] = IF k <= Len(s) THEN s[k] ELSE r[k - Len(s)]
    BY ConcatProperties, LenProperties
  <2>2. ASSUME NEW k \in DOMAIN (s \o r)
        PROVE  (s \o r)[k] \in Elements(s) \cup Elements(r)
    <3>1. CASE k <= Len(s)
      BY <1>0, <2>1, <3>1 DEF Elements
    <3>2. CASE k > Len(s)
      <4>1. k - Len(s) \in DOMAIN r
        BY <1>0, <2>1, <3>2
      <4> QED
        BY <1>0, <2>1, <3>2, <4>1 DEF Elements
    <3> QED
      BY <1>0, <2>1, <3>1, <3>2
  <2>3. ASSUME NEW k \in DOMAIN s
        PROVE  s[k] \in Elements(s \o r)
    <3>1. k \in DOMAIN (s \o r) /\ (s \o r)[k] = s[k]
      BY <1>0, <2>1
    <3> QED
      BY <3>1 DEF Elements
  <2>4. ASSUME NEW k \in DOMAIN r
        PROVE  r[k] \in Elements(s \o r)
    <3>1. k + Len(s) \in DOMAIN (s \o r) /\ (s \o r)[k + Len(s)] = r[k]
      BY <1>0, <2>1
    <3> QED
      BY <3>1 DEF Elements
  <2> QED
    BY <2>2, <2>3, <2>4 DEF Elements
<1>4. ASSUME s # <<>>
      PROVE  /\ Head(s) \in Elements(s)
             /\ Elements(s) = {Head(s)} \cup Elements(Tail(s))
  <2>1. /\ Head(s) = s[1] /\ 1 \in DOMAIN s
        /\ DOMAIN Tail(s) = 1..(Len(s) - 1)
        /\ \A k \in 1..(Len(s) - 1) : Tail(s)[k] = s[k + 1]
    BY <1>0, <1>4, HeadTailProperties, LenProperties, EmptySeq
  <2>2. ASSUME NEW k \in DOMAIN s
        PROVE  s[k] \in {Head(s)} \cup Elements(Tail(s))
    <3>1. CASE k = 1
      BY <2>1, <3>1
    <3>2. CASE k # 1
      <4>1. k - 1 \in DOMAIN Tail(s) /\ Tail(s)[k - 1] = s[k]
        BY <1>0, <2>1, <3>2
      <4> QED
        BY <4>1 DEF Elements
    <3> QED
      BY <3>1, <3>2
  <2>3. ASSUME NEW k \in DOMAIN Tail(s)
        PROVE  Tail(s)[k] \in Elements(s)
    <3>1. k + 1 \in DOMAIN s /\ s[k + 1] = Tail(s)[k]
      BY <1>0, <2>1
    <3> QED
      BY <3>1 DEF Elements
  <2>4. Head(s) \in Elements(s)
    BY <2>1 DEF Elements
  <2> QED
    BY <2>2, <2>3, <2>4 DEF Elements
<1>5. ASSUME NEW k \in 1..Len(s)
      PROVE  Elements(SubSeq(s, k + 1, Len(s))) \subseteq Elements(s)
  BY Rest DEF Elements
<1> QED
  BY <1>1, <1>2, <1>3, <1>4, <1>5

(* The empty sequence and the sequence of one element. *)
LEMMA FewPieces ==
  /\ Elements(<<>>) = {}
  /\ \A m : Elements(<<m>>) = {m}
BY DEF Elements

(* The notice is no message and an identifier no line. *)
LEMMA ApartFromLines ==
  /\ Notice \notin Messages
  /\ \A i \in Ids : i \notin Lines
  /\ Ids \subseteq IdSpace /\ NoId \notin IdSpace /\ NoId \notin Ids
<1>1. Notice \notin Messages
  BY DEF Notice, Messages
<1>2. \A i \in Ids : i \notin Lines
  BY NetworkAssumption
<1>3. Ids \subseteq IdSpace /\ NoId \notin IdSpace /\ NoId \notin Ids
  BY NetworkAssumption DEF IdSpace, StrayWords, NoId
<1> QED
  BY <1>1, <1>2, <1>3
-----------------------------------------------------------------------------
(* What DeliveryInv is about does not change. *)
Idle ==
  /\ UNCHANGED <<backlog, up, down, link, active_fds, newsockfd, peer,
                 online_clients, topics, pending_messages, s_message, handed,
                 subscriberVars>>
  /\ srv' = "running" => srv = "running"

(* A datagram is sent to its targets below descriptor cut. *)
Publishes(m, cut) ==
  /\ m \in Messages /\ cut \in Int
  /\ m.n = Settled + 1
  /\ Broadcast(m, cut)
  /\ pending_messages' = pending_messages \/ Store(m)
  /\ UNCHANGED <<backlog, up, active_fds, newsockfd, peer, online_clients,
                 topics, s_message, subscriberVars>>
  /\ srv' = "running" => srv = "running"

(***************************************************************************)
(* The steps that matter to what a connection carries.                     *)
(***************************************************************************)
LEMMA StepKinds ==
  ASSUME IndInv, [Next]_vars
  PROVE  \/ Idle
         \/ AcceptConnection /\ UNCHANGED subscriberVars
         \/ RefuseClient /\ UNCHANGED subscriberVars
         \/ AdmitClient /\ UNCHANGED subscriberVars
         \/ \E m \in Messages, cut \in Int : Publishes(m, cut)
         \/ \E f \in ClientFds : Disconnect(f) /\ UNCHANGED subscriberVars
         \/ \E f \in ClientFds : HandleCommand(f) /\ UNCHANGED subscriberVars
         \/ \E p \in Procs : SubscriberStep(p) /\ UNCHANGED serverVars
<1>1. CASE PublishDatagram /\ UNCHANGED subscriberVars
  <2>1. MaxFd + 1 \in Int
    BY ServerAssumption
  <2>2. Head(udp_queue) \in Messages /\ Head(udp_queue).n = Settled + 1
    BY <1>1, NextDatagram DEF PublishDatagram
  <2>3. Publishes(Head(udp_queue), MaxFd + 1)
    BY <1>1, <2>1, <2>2 DEF PublishDatagram, Publishes
  <2> QED
    BY <2>1, <2>2, <2>3
<1>2. CASE PublishDies /\ UNCHANGED subscriberVars
  <2>1. PICK cut \in Fatal(Head(udp_queue)) : Broadcast(Head(udp_queue), cut)
    BY <1>2 DEF PublishDies
  <2>2. cut \in Int
    BY ServerAssumption DEF Fatal, Targets, ClientFds
  <2>3. Head(udp_queue) \in Messages /\ Head(udp_queue).n = Settled + 1
    BY <1>2, NextDatagram DEF PublishDies
  <2>4. Publishes(Head(udp_queue), cut)
    BY <1>2, <2>1, <2>2, <2>3 DEF PublishDies, Publishes, registry
  <2> QED
    BY <2>2, <2>3, <2>4
<1>3. CASE /\ UNCHANGED subscriberVars
           /\ \/ Select \/ AcceptFails \/ AdmitDies \/ RefuseDatagram
              \/ HandleStdin
              \/ \E f \in ClientFds : RecvFails(f) \/ CommandDies(f)
  BY <1>3 DEF Select, AcceptFails, AdmitDies, RefuseDatagram, HandleStdin,
              RecvFails, CommandDies, Turn, registry, netVars, Idle
<1>4. CASE ServerStep /\ UNCHANGED subscriberVars
  BY <1>1, <1>2, <1>3, <1>4 DEF ServerStep, ClientStep
<1>5. ASSUME NEW line \in ConsoleLines, ConsoleLine(line), UNCHANGED subscriberVars
      PROVE  Idle
  BY <1>5 DEF ConsoleLine, registry, netVars, Idle
<1>6. CASE Publish /\ UNCHANGED <<serverVars, subscriberVars>>
  BY <1>6 DEF Publish, DatagramArrives, serverVars, registry, Idle
<1>7. CASE UNCHANGED vars
  BY <1>7 DEF vars, netVars, serverVars, registry, Idle
<1> QED
  BY <1>4, <1>5, <1>6, <1>7 DEF Next
-----------------------------------------------------------------------------
(***************************************************************************)
(* What a run sent beside its identifier it typed.                         *)
(***************************************************************************)
LEMMA TypedStep == IndInv /\ DeliveryInv /\ [Next]_vars => LinesWereTyped'
<1> SUFFICES ASSUME IndInv, DeliveryInv, [Next]_vars, NEW p \in Procs
             PROVE  /\ stage'[p] = "new" => id'[p] = NoId /\ typed'[p] = <<>>
                    /\ Elements(up'[p]) \cap Lines \subseteq Elements(typed'[p])
  BY DEF LinesWereTyped
<1>0. /\ up \in [Procs -> Seq(Ids \cup Lines)] /\ up[p] \in Seq(Ids \cup Lines)
      /\ typed \in [Procs -> Seq(Lines)] /\ typed[p] \in Seq(Lines)
      /\ id \in [Procs -> Ids \cup {NoId}]
      /\ stage \in [Procs -> {"new", "connected", "running", "gone"}]
      /\ stage[p] # "new" => id[p] \in Ids
      /\ stage[p] = "new" => id[p] = NoId /\ typed[p] = <<>>
      /\ Elements(up[p]) \cap Lines \subseteq Elements(typed[p])
  BY DEF IndInv, DeliveryInv, LinesWereTyped, TypeOK, NetTypeOK,
         SubscriberTypeOK, RunsAreNamed
<1>1. CASE ServerStep /\ UNCHANGED subscriberVars
  <2>1. Elements(up'[p]) \subseteq Elements(up[p])
    <3>1. Drained(p)
      BY <1>1, ServerReads
    <3>2. ASSUME NEW k \in 1..Len(up[p]), up'[p] = SubSeq(up[p], k + 1, Len(up[p]))
          PROVE  Elements(up'[p]) \subseteq Elements(up[p])
      BY <1>0, <3>2, Pieces
    <3> QED
      BY <3>1, <3>2 DEF Drained
  <2> QED
    BY <1>0, <1>1, <2>1 DEF subscriberVars
<1>2. ASSUME NEW q \in Procs, SubscriberStep(q)
      PROVE  /\ stage'[p] = "new" => id'[p] = NoId /\ typed'[p] = <<>>
             /\ Elements(up'[p]) \cap Lines \subseteq Elements(typed'[p])
  <2>1. CASE p # q
    BY <1>0, <1>2, <2>1
       DEF SubscriberStep, Connect, SendId, KilledEarly, TypeLine, Exit,
           Receive, EndOfStream
  <2>2. CASE p = q /\ SendId(q)
    <3>1. /\ up'[p] = Append(up[p], id[p]) /\ id[p] \in Ids
          /\ typed' = typed /\ stage'[p] # "new"
      BY <1>0, <2>2 DEF SendId
    <3>2. Elements(up'[p]) = Elements(up[p]) \cup {id[p]}
      BY <1>0, <3>1, Pieces
    <3> QED
      BY <1>0, <3>1, <3>2, ApartFromLines
  <2>3. ASSUME NEW line \in Lines, p = q, TypeLine(q, line)
        PROVE  /\ stage'[p] # "new"
               /\ Elements(up'[p]) \cap Lines \subseteq Elements(typed'[p])
    <3>1. /\ up'[p] = Append(up[p], line) /\ typed'[p] = Append(typed[p], line)
          /\ stage'[p] # "new"
      BY <1>0, <2>3 DEF TypeLine
    <3>2. /\ Elements(up'[p]) = Elements(up[p]) \cup {line}
          /\ Elements(typed'[p]) = Elements(typed[p]) \cup {line}
      BY <1>0, <3>1, Pieces
    <3> QED
      BY <1>0, <3>1, <3>2
  <2>4. CASE /\ p = q
             /\ \/ \E i \in Ids : Connect(q, i)
                \/ KilledEarly(q) \/ Exit(q) \/ Receive(q) \/ EndOfStream(q)
    <3>1. up'[p] = up[p] /\ typed'[p] = typed[p] /\ stage'[p] # "new"
      BY <1>0, <1>2, <2>4, SubscriberActs
         DEF Connect, KilledEarly, Exit, Receive, EndOfStream
    <3> QED
      BY <1>0, <3>1
  <2> QED
    BY <1>2, <2>1, <2>2, <2>3, <2>4 DEF SubscriberStep
<1>3. CASE UNCHANGED <<up, subscriberVars>>
  BY <1>0, <1>3 DEF subscriberVars
<1> QED
  BY <1>1, <1>2, <1>3
     DEF Next, vars, netVars, ConsoleLine, Publish, DatagramArrives

(* Facts that the next lemmas share. *)
LEMMA Facts ==
  ASSUME IndInv, DeliveryInv
  PROVE  /\ backlog \in Seq(Procs) /\ peer \in [ClientFds -> Procs \cup {NoProc}]
         /\ NoProc \notin Procs /\ NoFd \notin ClientFds
         /\ up \in [Procs -> Seq(Ids \cup Lines)]
         /\ down \in [Procs -> Seq(Messages \cup {Notice})]
         /\ printed \in [Procs -> Seq(Messages)]
         /\ stage \in [Procs -> {"new", "connected", "running", "gone"}]
         /\ \A f \in ClientFds : f \in active_fds => peer[f] \in Procs
         /\ \A f \in ClientFds : f \in active_fds <=> Online(f)
         /\ \A f, g \in ClientFds : peer[f] # NoProc /\ peer[f] = peer[g] => f = g
         /\ \A f \in ClientFds : peer[f] # NoProc =>
              stage[peer[f]] # "new" /\ peer[f] \notin Elements(backlog)
         /\ newsockfd \notin active_fds
         /\ srv = "recvId" => /\ newsockfd \in ClientFds
                              /\ peer[newsockfd] \in Procs
<1>1. NoFd \notin ClientFds
  BY ServerAssumption DEF NoFd, ClientFds
<1>2. /\ backlog \in Seq(Procs) /\ peer \in [ClientFds -> Procs \cup {NoProc}]
      /\ NoProc \notin Procs
      /\ up \in [Procs -> Seq(Ids \cup Lines)]
      /\ down \in [Procs -> Seq(Messages \cup {Notice})]
      /\ printed \in [Procs -> Seq(Messages)]
      /\ stage \in [Procs -> {"new", "connected", "running", "gone"}]
  BY ServerAssumption
     DEF IndInv, TypeOK, NetTypeOK, ServerTypeOK, SubscriberTypeOK
<1>3. /\ \A f \in ClientFds : f \in active_fds => peer[f] \in Procs
      /\ \A f, g \in ClientFds : peer[f] # NoProc /\ peer[f] = peer[g] => f = g
  BY <1>2 DEF IndInv, WatchedAreOpen, OnePlaceEach
<1>4. \A f \in ClientFds : f \in active_fds <=> Online(f)
  BY DEF IndInv, RegistryConsistent, WatchedAreOnline, Online
<1>5. newsockfd \notin active_fds
  BY DEF DeliveryInv, IdentifierComesFirst
<1>6. srv = "recvId" => newsockfd \in ClientFds /\ peer[newsockfd] \in Procs
  BY <1>2 DEF IndInv, AwaitedIsOpen
<1>7. ASSUME NEW f \in ClientFds, peer[f] # NoProc
      PROVE  stage[peer[f]] # "new" /\ peer[f] \notin Elements(backlog)
  <2>1. OnePlaceEach
    BY DEF IndInv
  <2>2. \A a \in DOMAIN backlog : peer[f] # backlog[a]
    BY <2>1 DEF OnePlaceEach
  <2>3. stage[peer[f]] # "new"
    BY <1>7, <2>1 DEF OnePlaceEach
  <2> QED
    BY <2>2, <2>3 DEF Elements
<1> QED
  BY <1>1, <1>2, <1>3, <1>4, <1>5, <1>6, <1>7

(* A run not yet served has no watched descriptor. *)
LEMMA WaitingIsUnwatched ==
  ASSUME IndInv, DeliveryInv, NEW p \in Procs, NotYetServed(p),
         NEW f \in ClientFds, peer[f] = p
  PROVE  f = newsockfd /\ f \notin active_fds
<1>1. stage[p] # "new" /\ p \notin Elements(backlog)
  BY Facts
<1> QED
  BY <1>1, Facts DEF NotYetServed

(***************************************************************************)
(* No run becomes one that is not yet served, and one that stays so was    *)
(* not the one whose identifier was read.                                  *)
(***************************************************************************)
LEMMA StillWaiting ==
  ASSUME IndInv, DeliveryInv, [Next]_vars, NEW p \in Procs, NotYetServed(p)'
  PROVE  /\ NotYetServed(p)
         /\ RefuseClient \/ AdmitClient => p # peer[newsockfd]
<1>0. NotYetServed(p)' <=> \/ stage'[p] = "new"
                           \/ p \in Elements(backlog')
                           \/ newsockfd' \in ClientFds /\ peer'[newsockfd'] = p
  BY DEF NotYetServed
<1>1. CASE AcceptConnection /\ UNCHANGED subscriberVars
  <2>1. backlog # <<>> /\ srv = "running"
    BY <1>1, Turns DEF AcceptConnection, Turn
  <2>2. /\ Head(backlog) \in Elements(backlog)
        /\ Elements(backlog') \subseteq Elements(backlog)
    BY <1>1, <2>1, Facts, Pieces DEF AcceptConnection
  <2>3. /\ stage' = stage
        /\ newsockfd' \in ClientFds /\ peer'[newsockfd'] = Head(backlog)
    BY <1>1, Facts DEF AcceptConnection, FreeFds, subscriberVars
  <2> QED
    BY <1>0, <1>1, <2>1, <2>2, <2>3 DEF NotYetServed, RefuseClient, AdmitClient
<1>2. CASE (RefuseClient \/ AdmitClient) /\ UNCHANGED subscriberVars
  <2>1. /\ newsockfd' = NoFd /\ backlog' = backlog /\ stage' = stage
        /\ srv = "recvId"
    BY <1>2 DEF RefuseClient, AdmitClient, subscriberVars
  <2>2. stage[p] = "new" \/ p \in Elements(backlog)
    BY <1>0, <2>1, Facts
  <2>3. \A f \in ClientFds : peer[f] # p
    BY <2>2, Facts
  <2> QED
    BY <2>1, <2>2, <2>3, Facts DEF NotYetServed
<1>3. ASSUME NEW f \in ClientFds, Disconnect(f), UNCHANGED subscriberVars
      PROVE  NotYetServed(p) /\ ~RefuseClient /\ ~AdmitClient
  <2>1. /\ peer' = [peer EXCEPT ![f] = NoProc] /\ newsockfd' = newsockfd
        /\ backlog' = backlog /\ stage' = stage /\ srv = "running"
    BY <1>3 DEF Disconnect, Close, Turn, netVars, subscriberVars
  <2>2. newsockfd \in ClientFds /\ peer'[newsockfd] = p => peer[newsockfd] = p
    BY <2>1, Facts
  <2> QED
    BY <1>0, <2>1, <2>2 DEF NotYetServed, RefuseClient, AdmitClient
<1>4. ASSUME NEW q \in Procs, SubscriberStep(q), UNCHANGED serverVars
      PROVE  NotYetServed(p) /\ srv' = srv
  <2>1. stage'[q] # "new" /\ (p # q => stage'[p] = stage[p])
    BY <1>4, SubscriberActs
  <2>2. \/ backlog' = backlog
        \/ stage[q] = "new" /\ backlog' = Append(backlog, q)
    BY <1>4
       DEF SubscriberStep, Connect, SendId, KilledEarly, TypeLine, Exit,
           Receive, EndOfStream
  <2>3. p \in Elements(backlog') => p \in Elements(backlog) \/ stage[p] = "new"
    <3>1. Elements(Append(backlog, q)) = Elements(backlog) \cup {q}
      BY Facts, Pieces
    <3> QED
      BY <2>2, <3>1
  <2>4. newsockfd' = newsockfd /\ peer' = peer /\ srv' = srv
    BY <1>4 DEF serverVars
  <2> QED
    BY <1>0, <2>1, <2>3, <2>4 DEF NotYetServed
<1>5. CASE UNCHANGED <<stage, backlog, newsockfd, peer>>
  <2>1. NotYetServed(p)
    BY <1>0, <1>5 DEF NotYetServed
  <2>2. RefuseClient \/ AdmitClient => newsockfd' = NoFd /\ newsockfd \in ClientFds
    BY Facts DEF RefuseClient, AdmitClient
  <2> QED
    BY <1>5, <2>1, <2>2, Facts
<1>6. \/ AcceptConnection /\ UNCHANGED subscriberVars
      \/ (RefuseClient \/ AdmitClient) /\ UNCHANGED subscriberVars
      \/ \E f \in ClientFds : Disconnect(f) /\ UNCHANGED subscriberVars
      \/ \E q \in Procs : SubscriberStep(q) /\ UNCHANGED serverVars
      \/ UNCHANGED <<stage, backlog, newsockfd, peer>>
  BY StepKinds DEF Idle, Publishes, HandleCommand, subscriberVars
<1>7. ASSUME UNCHANGED serverVars
      PROVE  ~RefuseClient /\ ~AdmitClient
  BY <1>7 DEF serverVars, RefuseClient, AdmitClient
<1> QED
  BY <1>1, <1>2, <1>3, <1>4, <1>5, <1>6, <1>7

(* What a step of the server does to a run it does not turn to. *)
LEMMA Untouched ==
  ASSUME IndInv, DeliveryInv, NEW p \in Procs,
         \A f \in ClientFds : f \in active_fds => peer[f] # p
  PROVE  /\ \A m, cut : Broadcast(m, cut) => down'[p] = down[p]
         /\ \A f \in ClientFds : HandleCommand(f) => up'[p] = up[p]
<1>1. ASSUME NEW m, NEW cut, Broadcast(m, cut)
      PROVE  down'[p] = down[p]
  <2>1. \A f \in Targets(m.topic) : peer[f] # p
    BY Facts DEF Targets
  <2> QED
    BY <1>1, <2>1 DEF Broadcast
<1>2. ASSUME NEW f \in ClientFds, HandleCommand(f)
      PROVE  up'[p] = up[p]
  <2>1. peer[f] \in Procs /\ peer[f] # p
    BY <1>2, Turns, Facts DEF HandleCommand
  <2>2. \E r : up' = [up EXCEPT ![peer[f]] = r]
    BY <1>2 DEF HandleCommand
  <2> QED
    BY <2>1, <2>2, Facts
<1> QED
  BY <1>1, <1>2

(***************************************************************************)
(* Until its identifier is read, a run was sent nothing and its identifier *)
(* comes first.                                                            *)
(***************************************************************************)
LEMMA IdentifierStep == IndInv /\ DeliveryInv /\ [Next]_vars => IdentifierComesFirst'
<1> SUFFICES ASSUME IndInv, DeliveryInv, [Next]_vars
             PROVE  IdentifierComesFirst'
  OBVIOUS
<1>0. /\ srv = "running" => newsockfd = NoFd
      /\ newsockfd \notin active_fds
      /\ NoFd \notin active_fds
  <2>1. NoFd \notin {STDIN, TCP, UDP}
    BY DEF NoFd, STDIN, TCP, UDP
  <2>2. active_fds \subseteq {STDIN, TCP, UDP} \cup ClientFds
    BY DEF IndInv, TypeOK, ServerTypeOK
  <2> QED
    BY <2>1, <2>2, Facts DEF DeliveryInv, IdentifierComesFirst
<1>1. /\ srv' = "running" => newsockfd' = NoFd
      /\ newsockfd' \notin active_fds'
  <2>1. CASE AcceptConnection
    BY <2>1, Facts DEF AcceptConnection, FreeFds
  <2>2. CASE RefuseClient
    BY <1>0, <2>2 DEF RefuseClient
  <2>3. CASE AdmitClient
    BY <1>0, <2>3, Facts DEF AdmitClient, Watch
  <2>4. ASSUME NEW f \in ClientFds, Disconnect(f)
        PROVE  /\ srv' = "running" => newsockfd' = NoFd
               /\ newsockfd' \notin active_fds'
    BY <1>0, <2>4 DEF Disconnect
  <2>5. ASSUME newsockfd' = newsockfd, active_fds' = active_fds,
               srv' = "running" => srv = "running"
        PROVE  /\ srv' = "running" => newsockfd' = NoFd
               /\ newsockfd' \notin active_fds'
    BY <1>0, <2>5
  <2> QED
    BY <2>1, <2>2, <2>3, <2>4, <2>5, StepKinds
       DEF Idle, Publishes, HandleCommand, serverVars
<1>2. ASSUME NEW p \in Procs, NotYetServed(p)'
      PROVE  /\ down'[p] = <<>> /\ printed'[p] = <<>>
             /\ up'[p] # <<>> => Head(up'[p]) = id'[p]
             /\ stage'[p] = "running" => up'[p] # <<>>
  <2>0. /\ NotYetServed(p) /\ (RefuseClient \/ AdmitClient => p # peer[newsockfd])
        /\ down[p] = <<>> /\ printed[p] = <<>>
        /\ up[p] # <<>> => Head(up[p]) = id[p]
        /\ stage[p] = "running" => up[p] # <<>>
        /\ stage[p] \in {"new", "connected"} => up[p] = <<>>
        /\ up[p] \in Seq(Ids \cup Lines)
    BY <1>2, StillWaiting, Facts
       DEF DeliveryInv, IdentifierComesFirst, IndInv, SubscriberShape
  <2> DEFINE Fresh ==
        /\ down'[p] = <<>> /\ printed'[p] = <<>>
        /\ up'[p] # <<>> => Head(up'[p]) = id'[p]
        /\ stage'[p] = "running" => up'[p] # <<>>
  <2>1. \A f \in ClientFds : f \in active_fds => peer[f] # p
    BY <2>0, WaitingIsUnwatched
  <2>2. ASSUME up'[p] = up[p], down'[p] = down[p], UNCHANGED subscriberVars
        PROVE  Fresh
    BY <2>0, <2>2 DEF subscriberVars
  <2>3. CASE (RefuseClient \/ AdmitClient) /\ UNCHANGED subscriberVars
    <3>1. p # peer[newsockfd] /\ peer[newsockfd] \in Procs
      BY <2>0, <2>3, Facts DEF RefuseClient, AdmitClient
    <3>2. /\ \E r : down' = [down EXCEPT ![peer[newsockfd]] = r]
          /\ up' = up \/ \E r : up' = [up EXCEPT ![peer[newsockfd]] = r]
      BY <2>3 DEF RefuseClient, AdmitClient, DrainsId
    <3>3. up'[p] = up[p] /\ down'[p] = down[p]
      BY <3>1, <3>2, Facts
    <3> QED
      BY <2>2, <2>3, <3>3
  <2>4. ASSUME NEW f \in ClientFds, HandleCommand(f), UNCHANGED subscriberVars
        PROVE  Fresh
    <3>1. up'[p] = up[p] /\ down' = down
      BY <2>1, <2>4, Untouched DEF HandleCommand
    <3> QED
      BY <2>2, <2>4, <3>1
  <2>5. ASSUME NEW m, NEW cut, Publishes(m, cut)
        PROVE  Fresh
    <3>1. up' = up /\ down'[p] = down[p] /\ UNCHANGED subscriberVars
      BY <2>1, <2>5, Untouched DEF Publishes
    <3> QED
      BY <2>2, <3>1
  <2>6. CASE UNCHANGED <<up, down, subscriberVars>>
    BY <2>2, <2>6
  <2>7. ASSUME NEW q \in Procs, SubscriberStep(q)
        PROVE  Fresh
    <3>1. CASE p # q
      BY <2>0, <2>7, <3>1, Facts
         DEF SubscriberStep, Connect, SendId, KilledEarly, TypeLine, Exit,
             Receive, EndOfStream, IndInv, TypeOK, SubscriberTypeOK
    <3>2. ASSUME NEW i \in Ids, p = q, Connect(q, i)
          PROVE  Fresh
      BY <2>0, <3>2 DEF Connect, IndInv, TypeOK, SubscriberTypeOK
    <3>3. CASE p = q /\ SendId(q)
      <4>1. up'[p] = Append(up[p], id[p]) /\ up[p] = <<>> /\ id' = id
        BY <2>0, <3>3, Facts DEF SendId
      <4>2. up'[p] = <<id[p]>>
        BY <4>1
      <4> QED
        BY <2>0, <3>3, <4>1, <4>2 DEF SendId
    <3>4. ASSUME NEW line \in Lines, p = q, TypeLine(q, line)
          PROVE  Fresh
      <4>1. /\ up'[p] = Append(up[p], line) /\ up[p] # <<>>
            /\ UNCHANGED <<id, printed, down>>
        BY <2>0, <3>4, Facts DEF TypeLine
      <4>2. Append(up[p], line) # <<>> /\ Head(Append(up[p], line)) = Head(up[p])
        BY <2>0, <4>1, AppendProperties, HeadTailProperties, LenProperties, EmptySeq
      <4> QED
        BY <2>0, <4>1, <4>2
    <3>5. CASE p = q /\ (KilledEarly(q) \/ Exit(q) \/ EndOfStream(q))
      <4>1. /\ stage'[p] = "gone" /\ up' = up /\ down'[p] = <<>>
            /\ printed' = printed /\ id' = id
        BY <2>0, <3>5, Facts DEF KilledEarly, Exit, EndOfStream
      <4> QED
        BY <2>0, <4>1
    <3>6. ~(p = q /\ Receive(q))
      BY <2>0 DEF Receive, MessageWaits
    <3> QED
      BY <2>7, <3>1, <3>2, <3>3, <3>4, <3>5, <3>6 DEF SubscriberStep
  <2>8. \/ (RefuseClient \/ AdmitClient) /\ UNCHANGED subscriberVars
        \/ \E f \in ClientFds : HandleCommand(f) /\ UNCHANGED subscriberVars
        \/ \E m \in Messages, cut \in Int : Publishes(m, cut)
        \/ UNCHANGED <<up, down, subscriberVars>>
        \/ \E q \in Procs : SubscriberStep(q)
    BY StepKinds DEF Idle, AcceptConnection, Disconnect, netVars
  <2> QED
    BY <2>3, <2>4, <2>5, <2>6, <2>7, <2>8
<1> QED
  BY <1>1, <1>2 DEF IdentifierComesFirst, NotYetServed
-----------------------------------------------------------------------------
(* Identifiers never change once a run has started. *)
LEMMA SameName ==
  ASSUME IndInv, DeliveryInv, [Next]_vars, NEW p \in Procs
  PROVE  id'[p] = id[p] \/ (stage[p] = "new" /\ id[p] = NoId /\ id'[p] \in Ids)
<1>0. id \in [Procs -> Ids \cup {NoId}] /\ (stage[p] = "new" => id[p] = NoId)
  BY DEF IndInv, TypeOK, SubscriberTypeOK, DeliveryInv, LinesWereTyped
<1>1. ASSUME NEW q \in Procs, SubscriberStep(q)
      PROVE  id'[p] = id[p] \/ (stage[p] = "new" /\ id'[p] \in Ids)
  BY <1>0, <1>1
     DEF SubscriberStep, Connect, SendId, KilledEarly, TypeLine, Exit, Receive,
         EndOfStream
<1> QED
  BY <1>0, <1>1 DEF Next, vars, subscriberVars

(* A run that is over sends nothing more. *)
LEMMA SilentWhenOver ==
  ASSUME IndInv, DeliveryInv, [Next]_vars, NEW p \in Procs,
         link[p] # "open", up[p] = <<>>
  PROVE  link'[p] # "open" /\ up'[p] = <<>>
<1>0. stage[p] = "gone" /\ Len(up[p]) = 0
  BY DEF IndInv, SubscriberShape
<1>1. CASE ServerStep
  <2>1. Drained(p) /\ link'[p] # "open"
    BY <1>1, ServerReads
  <2> QED
    BY <1>0, <2>1 DEF Drained
<1>2. ASSUME NEW q \in Procs, SubscriberStep(q)
      PROVE  link'[p] = link[p] /\ up'[p] = up[p]
  <2>1. CASE p # q
    BY <1>2, <2>1, SubscriberActs
  <2>2. p # q
    BY <1>0, <1>2
       DEF SubscriberStep, Connect, SendId, KilledEarly, TypeLine, Exit, Receive,
           EndOfStream, MessageWaits
  <2> QED
    BY <2>1, <2>2
<1> QED
  BY <1>1, <1>2
     DEF Next, vars, netVars, ConsoleLine, Publish, DatagramArrives

(* A descriptor in the map keeps its client, or was just admitted. *)
LEMMA StaysServed ==
  ASSUME IndInv, DeliveryInv, [Next]_vars, NEW f \in ClientFds,
         online_clients'[f] # NoId
  PROVE  \/ /\ peer'[f] = peer[f] /\ online_clients'[f] = online_clients[f]
            /\ peer[f] \in Procs /\ f \in active_fds
         \/ /\ AdmitClient /\ UNCHANGED subscriberVars
            /\ f = newsockfd /\ peer' = peer
            /\ online_clients'[f] = ReceivedId(peer[f])
<1>0. /\ online_clients \in [ClientFds -> IdSpace \cup {NoId}]
      /\ peer \in [ClientFds -> Procs \cup {NoProc}]
      /\ Online(f) <=> f \in active_fds
      /\ f \in active_fds => peer[f] \in Procs
  BY Facts DEF IndInv, TypeOK, ServerTypeOK
<1>1. CASE AcceptConnection
  <2>1. PICK g \in FreeFds : peer' = [peer EXCEPT ![g] = Head(backlog)]
    BY <1>1 DEF AcceptConnection
  <2>2. online_clients' = online_clients
    BY <1>1 DEF AcceptConnection, registry
  <2>3. f # g
    BY <1>0, <2>1, <2>2, Facts DEF FreeFds, Online
  <2> QED
    BY <1>0, <2>1, <2>2, <2>3 DEF Online
<1>2. CASE AdmitClient /\ UNCHANGED subscriberVars
  BY <1>0, <1>2, Facts DEF AdmitClient, Online
<1>3. ASSUME NEW g \in ClientFds, Disconnect(g)
      PROVE  /\ peer'[f] = peer[f] /\ online_clients'[f] = online_clients[f]
             /\ Online(f)
  BY <1>0, <1>3 DEF Disconnect, Close, Online
<1>4. CASE UNCHANGED <<peer, online_clients>>
  BY <1>0, <1>4 DEF Online
<1> QED
  BY <1>0, <1>1, <1>2, <1>3, <1>4, StepKinds
     DEF Idle, RefuseClient, Publishes, HandleCommand, serverVars, registry

(***************************************************************************)
(* A watched connection is served under its run's identifier, or the run   *)
(* was over before it sent one.                                            *)
(***************************************************************************)
LEMMA ServedStep == IndInv /\ DeliveryInv /\ [Next]_vars => ServedByName'
<1> SUFFICES ASSUME IndInv, DeliveryInv, [Next]_vars, NEW f \in ClientFds,
                    online_clients'[f] # NoId
             PROVE  \/ online_clients'[f] = id'[peer'[f]]
                    \/ link'[peer'[f]] # "open" /\ up'[peer'[f]] = <<>>
  BY DEF ServedByName
<1>1. CASE /\ peer'[f] = peer[f] /\ online_clients'[f] = online_clients[f]
           /\ peer[f] \in Procs
  <2>1. stage[peer[f]] # "new"
    BY <1>1, Facts
  <2>2. \/ online_clients[f] = id[peer[f]]
        \/ link[peer[f]] # "open" /\ up[peer[f]] = <<>>
    BY <1>1 DEF DeliveryInv, ServedByName
  <2> QED
    BY <1>1, <2>1, <2>2, SameName, SilentWhenOver
<1>2. CASE /\ AdmitClient /\ UNCHANGED subscriberVars
           /\ f = newsockfd /\ peer' = peer
           /\ online_clients'[f] = ReceivedId(peer[f])
  <2> DEFINE p == peer[newsockfd]
  <2>1. p \in Procs /\ NotYetServed(p)
    BY <1>2, Facts DEF AdmitClient, NotYetServed
  <2>2. up[p] # <<>> => Head(up[p]) = id[p]
    BY <2>1 DEF DeliveryInv, IdentifierComesFirst
  <2>3. CASE up[p] # <<>>
    BY <1>2, <2>2, <2>3 DEF ReceivedId, subscriberVars
  <2>4. CASE up[p] = <<>>
    <3>1. DrainsId(p)
      BY <1>2 DEF AdmitClient
    <3>2. Len(up[p]) = 0
      BY <2>4
    <3>3. link[p] # "open"
      BY <3>1, <3>2 DEF DrainsId
    <3> QED
      BY <1>2, <2>1, <2>4, <3>3, SilentWhenOver
  <2> QED
    BY <2>3, <2>4
<1> QED
  BY <1>1, <1>2, StaysServed
-----------------------------------------------------------------------------
(* A broadcast neither opens nor closes the end of a run. *)
LEMMA BroadcastLinks ==
  ASSUME IndInv, NEW p \in Procs, NEW m, NEW cut, Broadcast(m, cut)
  PROVE  link'[p] = "open" <=> link[p] = "open"
BY DEF Broadcast, LinkAfter, IndInv, TypeOK, NetTypeOK

(***************************************************************************)
(* A run the server neither watches nor turns to moves by itself only.     *)
(***************************************************************************)
LEMMA Elsewhere ==
  ASSUME IndInv, DeliveryInv, [Next]_vars, NEW p \in Procs,
         \A f \in ClientFds : f \in active_fds => peer[f] # p,
         RefuseClient \/ AdmitClient => p # peer[newsockfd]
  PROVE  \/ SubscriberStep(p)
         \/ /\ down'[p] = down[p] /\ printed'[p] = printed[p]
            /\ link'[p] = "open" <=> link[p] = "open"
<1>1. CASE (RefuseClient \/ AdmitClient) /\ UNCHANGED subscriberVars
  <2>1. p # peer[newsockfd] /\ peer[newsockfd] \in Procs
    BY <1>1, Facts DEF RefuseClient, AdmitClient
  <2>2. /\ \E r : down' = [down EXCEPT ![peer[newsockfd]] = r]
        /\ \E r : link' = [link EXCEPT ![peer[newsockfd]] = r]
    BY <1>1 DEF RefuseClient, AdmitClient
  <2>3. link \in [Procs -> LinkStates]
    BY DEF IndInv, TypeOK, NetTypeOK
  <2> QED
    BY <1>1, <2>1, <2>2, <2>3, Facts DEF subscriberVars
<1>2. ASSUME NEW m, NEW cut, Publishes(m, cut)
      PROVE  /\ down'[p] = down[p] /\ printed'[p] = printed[p]
             /\ link'[p] = "open" <=> link[p] = "open"
  BY <1>2, Untouched, BroadcastLinks DEF Publishes, subscriberVars
<1>3. ASSUME NEW q \in Procs, SubscriberStep(q), p # q
      PROVE  down'[p] = down[p] /\ printed'[p] = printed[p] /\ link'[p] = link[p]
  BY <1>3, Facts
     DEF SubscriberStep, Connect, SendId, KilledEarly, TypeLine, Exit, Receive,
         EndOfStream, IndInv, TypeOK, NetTypeOK
<1>4. CASE UNCHANGED <<down, link, subscriberVars>>
  BY <1>4 DEF subscriberVars
<1>5. \/ (RefuseClient \/ AdmitClient) /\ UNCHANGED subscriberVars
      \/ \E m \in Messages, cut \in Int : Publishes(m, cut)
      \/ \E q \in Procs : SubscriberStep(q)
      \/ UNCHANGED <<down, link, subscriberVars>>
  BY StepKinds DEF Idle, AcceptConnection, Disconnect, HandleCommand, netVars
<1> QED
  BY <1>1, <1>2, <1>3, <1>4, <1>5

(* A refused connection stays one, and none but the one being set up joins.*)
LEMMA StaysRefused ==
  ASSUME IndInv, DeliveryInv, [Next]_vars, NEW f \in ClientFds
  PROVE  /\ Refused(f) => Refused(f)' /\ peer'[f] = peer[f]
         /\ Refused(f)' => \/ Refused(f) /\ peer'[f] = peer[f]
                           \/ RefuseClient /\ f = newsockfd
<1>0. Refused(f)' <=> /\ peer'[f] # NoProc
                      /\ f \notin active_fds' /\ f # newsockfd'
  BY DEF Refused
<1>1. CASE AcceptConnection
  <2>1. PICK g \in FreeFds : /\ peer' = [peer EXCEPT ![g] = Head(backlog)]
                             /\ newsockfd' = g
    BY <1>1 DEF AcceptConnection
  <2>2. active_fds' = active_fds /\ newsockfd = NoFd
    BY <1>1 DEF AcceptConnection, Turn, DeliveryInv, IdentifierComesFirst
  <2>3. g \in ClientFds /\ peer[g] = NoProc
    BY DEF FreeFds
  <2> QED
    BY <1>0, <2>1, <2>2, <2>3, Facts DEF Refused
<1>2. CASE RefuseClient
  BY <1>0, <1>2, Facts DEF RefuseClient, Refused
<1>3. CASE AdmitClient
  BY <1>0, <1>3, Facts DEF AdmitClient, Watch, Refused
<1>4. ASSUME NEW g \in ClientFds, Disconnect(g)
      PROVE  Refused(f)' <=> Refused(f) /\ peer'[f] = peer[f]
  <2>1. /\ peer' = [peer EXCEPT ![g] = NoProc] /\ active_fds' = active_fds \ {g}
        /\ newsockfd' = newsockfd /\ g \in active_fds
    BY <1>4, Turns DEF Disconnect, Close
  <2> QED
    BY <1>0, <2>1, Facts DEF Refused
<1>5. CASE UNCHANGED <<peer, active_fds, newsockfd>>
  BY <1>0, <1>5 DEF Refused
<1>6. ASSUME NEW g \in ClientFds, Disconnect(g), Refused(f)
      PROVE  peer'[f] = peer[f]
  BY <1>6, Turns, Facts DEF Disconnect, Close, Refused
<1> QED
  BY <1>1, <1>2, <1>3, <1>4, <1>5, <1>6, StepKinds
     DEF Idle, Publishes, HandleCommand, serverVars

(* A refused connection is nobody else's. *)
LEMMA RefusedIsAlone ==
  ASSUME IndInv, DeliveryInv, NEW f \in ClientFds, Refused(f)
  PROVE  /\ peer[f] \in Procs /\ stage[peer[f]] # "new"
         /\ \A g \in ClientFds : g \in active_fds => peer[g] # peer[f]
         /\ RefuseClient \/ AdmitClient => peer[f] # peer[newsockfd]
<1>1. f \notin active_fds /\ f # newsockfd /\ peer[f] # NoProc
  BY DEF Refused
<1>2. RefuseClient \/ AdmitClient => newsockfd \in ClientFds
  BY Facts DEF RefuseClient, AdmitClient
<1> QED
  BY <1>1, <1>2, Facts

(***************************************************************************)
(* A refused connection carries the notice and no message.                 *)
(***************************************************************************)
LEMMA RefusedStep == IndInv /\ DeliveryInv /\ [Next]_vars => RefusedGetNotice'
<1> SUFFICES ASSUME IndInv, DeliveryInv, [Next]_vars, NEW f \in ClientFds, Refused(f)'
             PROVE  /\ printed'[peer'[f]] = <<>>
                    /\ \/ down'[peer'[f]] = <<Notice>>
                       \/ down'[peer'[f]] = <<>> /\ link'[peer'[f]] # "open"
  BY DEF RefusedGetNotice
<1>1. CASE Refused(f) /\ peer'[f] = peer[f]
  <2> DEFINE p == peer[f]
  <2>1. /\ p \in Procs /\ stage[p] # "new"
        /\ printed[p] = <<>>
        /\ down[p] = <<Notice>> \/ (down[p] = <<>> /\ link[p] # "open")
    BY <1>1, RefusedIsAlone DEF DeliveryInv, RefusedGetNotice
  <2>2. CASE /\ down'[p] = down[p] /\ printed'[p] = printed[p]
             /\ link'[p] = "open" <=> link[p] = "open"
    BY <1>1, <2>1, <2>2
  <2>3. CASE SubscriberStep(p)
    <3>0. link \in [Procs -> LinkStates]
      BY DEF IndInv, TypeOK, NetTypeOK
    <3>1. CASE Receive(p)
      <4>1. down[p] = <<Notice>>
        BY <2>1, <3>1 DEF Receive, MessageWaits
      <4>2. Head(<<Notice>>) = Notice /\ Tail(<<Notice>>) = <<>>
        OBVIOUS
      <4>3. /\ down' = [down EXCEPT ![p] = <<>>] /\ printed' = printed
            /\ link' = [link EXCEPT ![p] = "fin"]
        BY <3>1, <4>1, <4>2 DEF Receive
      <4> QED
        BY <1>1, <2>1, <3>0, <4>3, Facts
    <3>2. CASE Exit(p)
      BY <1>1, <2>1, <3>0, <3>2, Facts DEF Exit
    <3>3. CASE EndOfStream(p) \/ KilledEarly(p)
      BY <1>1, <2>1, <3>0, <3>3, Facts DEF EndOfStream, KilledEarly
    <3>4. CASE SendId(p) \/ \E line \in Lines : TypeLine(p, line)
      BY <1>1, <2>1, <3>4 DEF SendId, TypeLine
    <3>5. ~\E i \in Ids : Connect(p, i)
      BY <2>1 DEF Connect
    <3> QED
      BY <2>3, <3>1, <3>2, <3>3, <3>4, <3>5 DEF SubscriberStep
  <2> QED
    BY <1>1, <2>1, <2>2, <2>3, RefusedIsAlone, Elsewhere
<1>2. CASE RefuseClient /\ f = newsockfd
  <2> DEFINE p == peer[newsockfd]
  <2>1. p \in Procs /\ NotYetServed(p) /\ peer' = peer
    BY <1>2, Facts DEF RefuseClient, NotYetServed
  <2>2. down[p] = <<>> /\ printed[p] = <<>>
    BY <2>1 DEF DeliveryInv, IdentifierComesFirst
  <2>3. /\ down' = [down EXCEPT ![p] = Sent(p, <<Notice>>)]
        /\ link' = [link EXCEPT ![p] = LinkAfter(p)]
    BY <1>2 DEF RefuseClient
  <2>4. printed' = printed
    BY <1>2 DEF Next, vars, subscriberVars, serverVars, RefuseClient, ConsoleLine
  <2>5. /\ down'[p] = Sent(p, <<Notice>>) /\ (link'[p] = "open" <=> link[p] = "open")
    BY <2>1, <2>3, Facts DEF LinkAfter, IndInv, TypeOK, NetTypeOK
  <2>6. <<>> \o <<Notice>> = <<Notice>>
    OBVIOUS
  <2> QED
    BY <1>2, <2>1, <2>2, <2>4, <2>5, <2>6 DEF Sent
<1> QED
  BY <1>1, <1>2, StaysRefused

(* What the server sends adds to what a connection carries, or is lost. *)
LEMMA SentPieces ==
  ASSUME IndInv, DeliveryInv, NEW p \in Procs,
         NEW ms \in Seq(Messages) \cup {<<Notice>>}
  PROVE  /\ Sent(p, ms) \in Seq(Messages \cup {Notice})
         /\ \/ Sent(p, ms) = down[p]
            \/ /\ link[p] = "open"
               /\ Elements(Sent(p, ms)) = Elements(down[p]) \cup Elements(ms)
<1>1. ms \in Seq(Messages \cup {Notice}) /\ down[p] \in Seq(Messages \cup {Notice})
  <2>1. /\ Seq(Messages) \subseteq Seq(Messages \cup {Notice})
        /\ <<Notice>> \in Seq(Messages \cup {Notice})
    OBVIOUS
  <2> QED
    BY <2>1, Facts
<1>2. Sent(p, ms) \in Seq(Messages \cup {Notice})
  BY <1>1, SendTypes
<1>3. Elements(down[p] \o ms) = Elements(down[p]) \cup Elements(ms)
  BY <1>1, Pieces
<1> QED
  BY <1>2, <1>3 DEF Sent

(***************************************************************************)
(* What a step may add to a connection: the notice of a refusal, the       *)
(* stored messages of a client that is admitted, or the datagram sent to   *)
(* the targets.                                                            *)
(***************************************************************************)
LEMMA WhatIsSent ==
  ASSUME IndInv, DeliveryInv, [Next]_vars, NEW p \in Procs
  PROVE  \/ /\ down'[p] = down[p] /\ printed'[p] = printed[p]
         \/ /\ SubscriberStep(p) /\ UNCHANGED serverVars
         \/ /\ RefuseClient /\ p = peer[newsockfd] /\ UNCHANGED subscriberVars
            /\ down'[p] = Sent(p, <<Notice>>)
         \/ /\ AdmitClient /\ p = peer[newsockfd] /\ UNCHANGED subscriberVars
            /\ down'[p] = Sent(p, pending_messages[ReceivedId(p)])
         \/ \E m \in Messages, cut \in Int, f \in ClientFds :
              /\ Publishes(m, cut) /\ f \in Targets(m.topic) /\ f < cut
              /\ peer[f] = p /\ down'[p] = Sent(p, <<m>>)
<1>1. CASE (RefuseClient \/ AdmitClient) /\ UNCHANGED subscriberVars
  <2>1. peer[newsockfd] \in Procs
    BY <1>1, Facts DEF RefuseClient, AdmitClient
  <2> QED
    <3>1. printed' = printed
      BY <1>1 DEF subscriberVars
    <3>2. CASE RefuseClient
      <4>1. down' = [down EXCEPT ![peer[newsockfd]] = Sent(peer[newsockfd], <<Notice>>)]
        BY <3>2 DEF RefuseClient
      <4> QED
        BY <1>1, <2>1, <3>1, <3>2, <4>1, Facts
    <3>3. CASE AdmitClient
      <4>1. down' = [down EXCEPT ![peer[newsockfd]] =
                       Sent(peer[newsockfd],
                            pending_messages[ReceivedId(peer[newsockfd])])]
        BY <3>3 DEF AdmitClient
      <4> QED
        BY <1>1, <2>1, <3>1, <3>3, <4>1, Facts
    <3> QED
      BY <1>1, <3>2, <3>3
<1>2. ASSUME NEW m \in Messages, NEW cut \in Int, Publishes(m, cut)
      PROVE  \/ down'[p] = down[p] /\ printed'[p] = printed[p]
             \/ \E f \in ClientFds :
                  /\ f \in Targets(m.topic) /\ f < cut
                  /\ peer[f] = p /\ down'[p] = Sent(p, <<m>>)
  BY <1>2 DEF Publishes, Broadcast, Targets, subscriberVars
<1>3. ASSUME NEW q \in Procs, SubscriberStep(q), p # q
      PROVE  down'[p] = down[p] /\ printed'[p] = printed[p]
  BY <1>3, Facts
     DEF SubscriberStep, Connect, SendId, KilledEarly, TypeLine, Exit, Receive,
         EndOfStream
<1>4. CASE UNCHANGED <<down, subscriberVars>>
  BY <1>4 DEF subscriberVars
<1>5. \/ (RefuseClient \/ AdmitClient) /\ UNCHANGED subscriberVars
      \/ \E m \in Messages, cut \in Int : Publishes(m, cut)
      \/ \E q \in Procs : SubscriberStep(q) /\ UNCHANGED serverVars
      \/ UNCHANGED <<down, subscriberVars>>
  BY StepKinds DEF Idle, AcceptConnection, Disconnect, HandleCommand, netVars
<1> QED
  BY <1>1, <1>2, <1>3, <1>4, <1>5

(* What a subscriber's own step does to what it carries. *)
LEMMA WhatIsRead ==
  ASSUME IndInv, DeliveryInv, NEW p \in Procs, SubscriberStep(p)
  PROVE  \/ down'[p] = down[p] /\ printed'[p] = printed[p]
         \/ down'[p] = <<>> /\ printed'[p] = printed[p]
         \/ /\ down[p] # <<>>
            /\ down'[p] = Tail(down[p])
            /\ \/ Head(down[p]) = Notice /\ printed'[p] = printed[p]
               \/ /\ Head(down[p]) # Notice
                  /\ printed'[p] = Append(printed[p], Head(down[p]))
<1>1. CASE Receive(p)
  BY <1>1, Facts DEF Receive, MessageWaits
<1> QED
  BY <1>1, Facts
     DEF SubscriberStep, Connect, SendId, KilledEarly, TypeLine, Exit, EndOfStream

(***************************************************************************)
(* The notice goes to refused connections only.                            *)
(***************************************************************************)
LEMMA NoticeStep == IndInv /\ DeliveryInv /\ [Next]_vars => OnlyRefusedGetNotice'
<1> SUFFICES ASSUME IndInv, DeliveryInv, [Next]_vars, NEW p \in Procs,
                    Notice \in Elements(down'[p])
             PROVE  \E f \in ClientFds : Refused(f)' /\ peer'[f] = p
  BY DEF OnlyRefusedGetNotice
<1>0. down[p] \in Seq(Messages \cup {Notice})
  BY Facts
<1>1. CASE Notice \in Elements(down[p])
  <2>1. PICK f \in ClientFds : Refused(f) /\ peer[f] = p
    BY <1>1 DEF DeliveryInv, OnlyRefusedGetNotice
  <2> QED
    BY <2>1, StaysRefused
<1>2. CASE RefuseClient /\ p = peer[newsockfd] /\ UNCHANGED subscriberVars
  <2>1. /\ newsockfd \in ClientFds /\ newsockfd \notin active_fds
        /\ peer' = peer /\ active_fds' = active_fds /\ newsockfd' = NoFd
    BY <1>2, Facts DEF RefuseClient
  <2> QED
    BY <1>2, <2>1, Facts DEF Refused
<1>3. ASSUME NEW ms \in Seq(Messages), down'[p] = Sent(p, ms)
      PROVE  Notice \in Elements(down[p])
  <2>1. Notice \notin Elements(ms)
    BY Pieces, ApartFromLines
  <2> QED
    BY <1>3, <2>1, SentPieces
<1>4. CASE AdmitClient /\ down'[p] = Sent(p, pending_messages[ReceivedId(p)])
           /\ p = peer[newsockfd]
  <2>1. pending_messages[ReceivedId(p)] \in Seq(Messages)
    BY <1>4 DEF AdmitClient, IndInv, TypeOK, ServerTypeOK
  <2> QED
    BY <1>1, <1>3, <1>4, <2>1
<1>5. ASSUME NEW m \in Messages, down'[p] = Sent(p, <<m>>)
      PROVE  Notice \in Elements(down[p])
  BY <1>3, <1>5, OneElement
<1>6. CASE SubscriberStep(p)
  <2>1. Elements(down'[p]) \subseteq Elements(down[p])
    <3>1. down[p] # <<>> => Elements(Tail(down[p])) \subseteq Elements(down[p])
      BY <1>0, Pieces
    <3> QED
      BY <1>6, <3>1, WhatIsRead, FewPieces
  <2> QED
    BY <1>1, <2>1
<1> QED
  BY <1>1, <1>2, <1>4, <1>5, <1>6, WhatIsSent
-----------------------------------------------------------------------------
(***************************************************************************)
(* What is handed over stays handed over; what is added to it, or to the   *)
(* store, was in the store or is on a topic of the client.                 *)
(***************************************************************************)
LEMMA HandedFrom ==
  ASSUME IndInv, DeliveryInv, [Next]_vars, NEW i \in IdSpace
  PROVE  /\ Elements(handed[i]) \subseteq Elements(handed'[i])
         /\ \A m \in Elements(handed'[i]) \cup Elements(pending_messages'[i]) :
              \/ m \in Elements(handed[i]) \cup Elements(pending_messages[i])
              \/ m.topic \in Topics /\ topics[i][m.topic] # "off"
<1>0. /\ handed \in [IdSpace -> Seq(Messages)] /\ handed[i] \in Seq(Messages)
      /\ pending_messages \in [IdSpace -> Seq(Messages)]
      /\ pending_messages[i] \in Seq(Messages)
  BY DEF IndInv, TypeOK, ServerTypeOK
<1>1. CASE AdmitClient
  <2> DEFINE j == ReceivedId(peer[newsockfd])
  <2>1. /\ handed' = [handed EXCEPT ![j] = @ \o pending_messages[j]]
        /\ pending_messages' = [pending_messages EXCEPT ![j] = <<>>]
    BY <1>1 DEF AdmitClient, free_string_list
  <2>2. Elements(handed[i] \o pending_messages[i])
          = Elements(handed[i]) \cup Elements(pending_messages[i])
    BY <1>0, Pieces
  <2> HIDE DEF j
  <2>3. CASE i = j
    <3>1. handed'[i] = handed[i] \o pending_messages[i] /\ pending_messages'[i] = <<>>
      BY <1>0, <2>1, <2>3
    <3> QED
      BY <2>2, <3>1, FewPieces
  <2>4. CASE i # j
    <3>1. handed'[i] = handed[i] /\ pending_messages'[i] = pending_messages[i]
      BY <1>0, <2>1, <2>4
    <3> QED
      BY <3>1
  <2> QED
    BY <2>3, <2>4
<1>2. ASSUME NEW m \in Messages, NEW cut \in Int, Publishes(m, cut)
      PROVE  /\ handed'[i] = handed[i] \/ handed'[i] = Append(handed[i], m)
             /\ \/ pending_messages'[i] = pending_messages[i]
                \/ pending_messages'[i] = <<m>> \o pending_messages[i]
             /\ \/ topics[i][m.topic] # "off"
                \/ /\ handed'[i] = handed[i]
                   /\ pending_messages'[i] = pending_messages[i]
  <2>1. /\ \/ handed'[i] = handed[i]
           \/ handed'[i] = Append(handed[i], m) /\ topics[i][m.topic] # "off"
    BY <1>2 DEF Publishes, Broadcast, Targets, check_subscription
  <2>2. \/ pending_messages'[i] = pending_messages[i]
        \/ /\ pending_messages'[i] = <<m>> \o pending_messages[i]
           /\ topics[i][m.topic] # "off"
    BY <1>2 DEF Publishes, Store, add_string_to_list, Waiting, check_sf_active
  <2> QED
    BY <2>1, <2>2
<1>3. ASSUME NEW m \in Messages, NEW cut \in Int, Publishes(m, cut)
      PROVE  /\ Elements(handed[i]) \subseteq Elements(handed'[i])
             /\ \A e \in Elements(handed'[i]) \cup Elements(pending_messages'[i]) :
                  \/ e \in Elements(handed[i]) \cup Elements(pending_messages[i])
                  \/ e.topic \in Topics /\ topics[i][e.topic] # "off"
  <2>1. Elements(Append(handed[i], m)) = Elements(handed[i]) \cup {m}
    BY <1>0, Pieces
  <2>2. Elements(<<m>> \o pending_messages[i]) = {m} \cup Elements(pending_messages[i])
    <3>1. PICK s \in Seq(Messages) : s = <<m>>
      BY OneElement
    <3>2. Elements(s \o pending_messages[i])
            = Elements(s) \cup Elements(pending_messages[i])
      BY <1>0, Pieces
    <3> QED
      BY <3>1, <3>2, FewPieces
  <2>3. m.topic \in Topics
    BY DEF Messages
  <2> QED
    BY <1>2, <1>3, <2>1, <2>2, <2>3
<1>4. CASE UNCHANGED <<handed, pending_messages>>
  BY <1>4
<1> QED
  BY <1>1, <1>3, <1>4, StepKinds
     DEF Idle, AcceptConnection, RefuseClient, Disconnect, HandleCommand,
         serverVars, registry

(***************************************************************************)
(* What a connection carries was sent for its identifier.                  *)
(***************************************************************************)
LEMMA CarriedStep == IndInv /\ DeliveryInv /\ [Next]_vars => CarriedWasHanded'
<1> SUFFICES ASSUME IndInv, DeliveryInv, [Next]_vars, NEW p \in Procs,
                    NEW e \in Elements(printed'[p]) \cup Elements(down'[p]),
                    e # Notice
             PROVE  id'[p] # NoId /\ e \in Elements(handed'[id'[p]])
  BY DEF CarriedWasHanded
<1>0. /\ down[p] \in Seq(Messages \cup {Notice}) /\ printed[p] \in Seq(Messages)
      /\ id[p] \in Ids \cup {NoId}
      /\ handed \in [IdSpace -> Seq(Messages)]
  BY Facts DEF IndInv, TypeOK, SubscriberTypeOK, ServerTypeOK
<1>1. ASSUME e \in Elements(printed[p]) \cup Elements(down[p])
      PROVE  id'[p] # NoId /\ e \in Elements(handed'[id'[p]])
  <2>1. id[p] # NoId /\ e \in Elements(handed[id[p]])
    BY <1>1 DEF DeliveryInv, CarriedWasHanded
  <2>2. id[p] \in IdSpace
    BY <1>0, <2>1, ApartFromLines
  <2>3. id'[p] = id[p]
    BY <2>1, SameName
  <2> QED
    BY <2>1, <2>2, <2>3, HandedFrom
<1>2. CASE SubscriberStep(p)
  <2>1. down[p] # <<>> => /\ Head(down[p]) \in Elements(down[p])
                          /\ Elements(Tail(down[p])) \subseteq Elements(down[p])
    BY <1>0, Pieces
  <2>2. \A m : Elements(Append(printed[p], m)) = Elements(printed[p]) \cup {m}
    BY <1>0, Pieces
  <2>3. Elements(printed'[p]) \cup Elements(down'[p])
          \subseteq Elements(printed[p]) \cup Elements(down[p])
    <3>1. CASE down'[p] = <<>> /\ printed'[p] = printed[p]
      BY <3>1, FewPieces
    <3>2. CASE /\ down[p] # <<>> /\ down'[p] = Tail(down[p])
               /\ \/ printed'[p] = printed[p]
                  \/ printed'[p] = Append(printed[p], Head(down[p]))
      BY <2>1, <2>2, <3>2
    <3>3. CASE down'[p] = down[p] /\ printed'[p] = printed[p]
      BY <3>3
    <3> QED
      BY <1>2, <3>1, <3>2, <3>3, WhatIsRead
  <2> QED
    BY <1>1, <2>3
<1>3. ASSUME NEW ms \in Seq(Messages) \cup {<<Notice>>}, down'[p] = Sent(p, ms),
             UNCHANGED subscriberVars,
             e \notin Elements(printed[p]) \cup Elements(down[p])
      PROVE  link[p] = "open" /\ e \in Elements(ms) /\ id'[p] = id[p]
  BY <1>3, SentPieces DEF subscriberVars
<1>4. CASE /\ RefuseClient /\ UNCHANGED subscriberVars
           /\ down'[p] = Sent(p, <<Notice>>)
  BY <1>1, <1>3, <1>4, FewPieces
<1>5. CASE /\ AdmitClient /\ p = peer[newsockfd] /\ UNCHANGED subscriberVars
           /\ down'[p] = Sent(p, pending_messages[ReceivedId(p)])
  <2> DEFINE i == ReceivedId(p)
  <2>1. /\ i \in IdSpace /\ pending_messages[i] \in Seq(Messages)
        /\ handed' = [handed EXCEPT ![i] = @ \o pending_messages[i]]
        /\ DrainsId(p) /\ NotYetServed(p)
    BY <1>5, Facts DEF AdmitClient, NotYetServed, IndInv, TypeOK, ServerTypeOK
  <2>2. SUFFICES ASSUME link[p] = "open", e \in Elements(pending_messages[i])
                 PROVE  id'[p] # NoId /\ e \in Elements(handed'[id'[p]])
    BY <1>1, <1>3, <1>5, <2>1
  <2>3. up[p] # <<>> => i = id[p]
    BY <2>1 DEF ReceivedId, DeliveryInv, IdentifierComesFirst
  <2>4. up[p] # <<>>
    <3>1. Len(<<>>) = 0
      OBVIOUS
    <3> QED
      BY <2>1, <2>2, <3>1 DEF DrainsId
  <2>5. Elements(handed[i] \o pending_messages[i])
          = Elements(handed[i]) \cup Elements(pending_messages[i])
    BY <1>0, <2>1, Pieces
  <2>6. id'[p] = i /\ i # NoId /\ handed'[i] = handed[i] \o pending_messages[i]
    BY <1>0, <1>5, <2>1, <2>3, <2>4, ApartFromLines DEF subscriberVars
  <2> QED
    BY <2>2, <2>5, <2>6
<1>6. ASSUME NEW m \in Messages, NEW cut \in Int, NEW f \in ClientFds,
             Publishes(m, cut), f \in Targets(m.topic), f < cut, peer[f] = p,
             down'[p] = Sent(p, <<m>>)
      PROVE  id'[p] # NoId /\ e \in Elements(handed'[id'[p]])
  <2>1. <<m>> \in Seq(Messages)
    BY OneElement
  <2>2. SUFFICES ASSUME link[p] = "open", e = m, id'[p] = id[p]
                 PROVE  id'[p] # NoId /\ e \in Elements(handed'[id'[p]])
    <3>1. UNCHANGED subscriberVars
      BY <1>6 DEF Publishes
    <3>2. ASSUME e \notin Elements(printed[p]) \cup Elements(down[p])
          PROVE  link[p] = "open" /\ e \in Elements(<<m>>) /\ id'[p] = id[p]
      BY <1>3, <1>6, <2>1, <3>1, <3>2
    <3> QED
      BY <1>1, <3>2, FewPieces
  <2>3. online_clients[f] # NoId
    BY <1>6 DEF Targets, Online
  <2>4. online_clients[f] = id[p]
    BY <1>6, <2>2, <2>3 DEF DeliveryInv, ServedByName
  <2>5. id[p] \in IdSpace
    BY <1>0, <2>3, <2>4, ApartFromLines
  <2>6. handed'[id[p]] = Append(handed[id[p]], m)
    BY <1>6, <2>4, <2>5 DEF Publishes, Broadcast
  <2>7. Elements(Append(handed[id[p]], m)) = Elements(handed[id[p]]) \cup {m}
    BY <1>0, <2>5, Pieces
  <2> QED
    BY <2>2, <2>3, <2>4, <2>6, <2>7
<1>7. CASE down'[p] = down[p] /\ printed'[p] = printed[p]
  BY <1>1, <1>7
<1> QED
  BY <1>2, <1>4, <1>5, <1>6, <1>7, WhatIsSent
-----------------------------------------------------------------------------
(* What was typed stays typed. *)
LEMMA TypedStays ==
  ASSUME IndInv, DeliveryInv, [Next]_vars, NEW i \in IdSpace, NEW line, Typed(i, line)
  PROVE  Typed(i, line)'
<1>1. PICK p \in Procs : id[p] = i /\ \E k \in DOMAIN typed[p] : typed[p][k] = line
  BY DEF Typed
<1>2. id'[p] = i
  BY <1>1, SameName, ApartFromLines
<1>3. typed \in [Procs -> Seq(Lines)] /\ typed[p] \in Seq(Lines)
  BY DEF IndInv, TypeOK, SubscriberTypeOK
<1>4. \/ typed'[p] = typed[p]
      \/ \E l \in Lines : typed'[p] = Append(typed[p], l)
  BY <1>3
     DEF Next, vars, subscriberVars, SubscriberStep, Connect, SendId,
         KilledEarly, TypeLine, Exit, Receive, EndOfStream
<1>5. \A l : Elements(Append(typed[p], l)) = Elements(typed[p]) \cup {l}
  BY <1>3, Pieces
<1>6. line \in Elements(typed[p])
  BY <1>1 DEF Elements
<1>7. line \in Elements(typed'[p])
  BY <1>4, <1>5, <1>6
<1> QED
  BY <1>2, <1>7 DEF Typed, Elements

(* So a topic that was named stays named, what was asked for asked for. *)
LEMMA AskedStays ==
  ASSUME IndInv, DeliveryInv, [Next]_vars
  PROVE  /\ \A t : Named(t) => Named(t)'
         /\ \A i \in IdSpace : \A t, mode : AskedFor(i, t, mode) => AskedFor(i, t, mode)'
<1>1. ASSUME NEW t, Named(t)
      PROVE  Named(t)'
  <2>1. PICK i \in Ids, line \in CommandLines : line.topic = t /\ Typed(i, line)
    BY <1>1 DEF Named
  <2>2. i \in IdSpace
    BY ApartFromLines
  <2>3. Typed(i, line)'
    BY <2>1, <2>2, TypedStays
  <2> QED
    BY <2>1, <2>3 DEF Named
<1>2. ASSUME NEW i \in IdSpace, NEW t, NEW mode, AskedFor(i, t, mode)
      PROVE  AskedFor(i, t, mode)'
  <2>1. Typed(i, Subscribe(t, mode)) => Typed(i, Subscribe(t, mode))'
    BY TypedStays
  <2>2. Typed(i, BareWord) => Typed(i, BareWord)'
    BY TypedStays
  <2>3. Named(t) => Named(t)'
    BY <1>1
  <2> QED
    BY <1>2, <2>1, <2>2, <2>3 DEF AskedFor
<1> QED
  BY <1>1, <1>2

(* The forms of the lines that name a topic, and of the bare word. *)
LEMMA LineForms ==
  ASSUME NEW line \in Lines
  PROVE  /\ line.verb \in {"subscribe", "unsubscribe", "bare", "junk"}
         /\ line.verb \in {"subscribe", "unsubscribe"} => line \in CommandLines
         /\ line.verb = "subscribe" => line = Subscribe(line.topic, line.rest)
         /\ line.verb = "bare" /\ line.word = "subscribe" => line = BareWord
<1>1. line \in InputLines
  BY NetworkAssumption
<1>2. CASE line \in CommandLines
  BY <1>2 DEF CommandLines, Subscribe
<1>3. CASE line \in BareLines
  BY <1>3 DEF BareLines, BareWord
<1>4. CASE line \in JunkLines
  BY <1>4 DEF JunkLines
<1> QED
  BY <1>1, <1>2, <1>3, <1>4 DEF InputLines

(* What decode_message leaves is the topic of its line, the topic it found *)
(* or none, whether it accepts the line or refuses it.                     *)
LEMMA LeftTopic ==
  ASSUME NEW chunk, NEW d \in decode_message(chunk)
  PROVE  \/ chunk[1].verb \in {"junk", "bare"} /\ d.left = s_message
         \/ chunk[1].verb \notin {"junk", "bare"} /\ d.left.topic \in {chunk[1].topic, NoTopic}
<1> DEFINE l == chunk[1]
<1>1. CASE l.verb \in {"junk", "bare"}
  <2>1. d = [ok |-> l.verb = "bare" /\ Len(chunk) = 1, left |-> s_message]
    BY <1>1 DEF decode_message
  <2> QED
    BY <1>1, <2>1
<1>2. CASE l.verb \notin {"junk", "bare"}
  <2>1. CASE l.rest \in {"eol", "cut"} /\ Len(chunk) = 1
    <3>1. d = Decoded(l.verb = "unsubscribe", l.topic, l.rest = "eol", s_message.sf)
      BY <1>2, <2>1 DEF decode_message
    <3>2. d.left.topic = l.topic
      BY <3>1 DEF Decoded
    <3> QED
      BY <1>2, <3>2
  <2>2. CASE l.rest \in {"eol", "cut"} /\ Len(chunk) # 1
    <3>1. d \in RunOn
      BY <1>2, <2>2 DEF decode_message
    <3> QED
      BY <1>2, <3>1 DEF RunOn
  <2>3. CASE l.rest \notin {"eol", "cut"}
    <3> DEFINE sf == IF Len(chunk) = 1 THEN FlagAfter(l) ELSE s_message.sf
    <3>1. d = Decoded(Len(chunk) = 1 /\ l.verb = "subscribe" /\ l.rest # "bad", l.topic,
                      FALSE, sf)
      BY <1>2, <2>3 DEF decode_message
    <3> HIDE DEF sf
    <3>2. d.left.topic = l.topic
      BY <3>1 DEF Decoded
    <3> QED
      BY <1>2, <3>2
  <2> QED
    BY <2>1, <2>2, <2>3
<1> QED
  BY <1>1, <1>2

(* A subscribe that is accepted and leaves a topic is a whole line, with a *)
(* flag, which it also leaves.                                             *)
LEMMA AcceptedSubscribe ==
  ASSUME NEW chunk, NEW d \in decode_message(chunk), d.ok,
         chunk[1].verb = "subscribe", chunk[1].rest \in Flags \cup {"eol", "cut", "bad"}
  PROVE  d.left.topic = NoTopic \/ d.left.sf = chunk[1].rest
<1> DEFINE l == chunk[1]
<1>1. CASE l.rest \in {"eol", "cut"} /\ Len(chunk) = 1
  <2>1. d = Decoded(l.verb = "unsubscribe", l.topic, l.rest = "eol", s_message.sf)
    BY <1>1 DEF decode_message
  <2>2. ~d.ok
    BY <2>1 DEF Decoded
  <2> QED
    BY <2>2
<1>2. CASE l.rest \in {"eol", "cut"} /\ Len(chunk) # 1
  <2>1. d \in RunOn
    BY <1>2 DEF decode_message
  <2> QED
    BY <2>1 DEF RunOn
<1>3. CASE l.rest \notin {"eol", "cut"}
  <2> DEFINE sf == IF Len(chunk) = 1 THEN FlagAfter(l) ELSE s_message.sf
  <2>1. d = Decoded(Len(chunk) = 1 /\ l.verb = "subscribe" /\ l.rest # "bad", l.topic,
                    FALSE, sf)
    BY <1>3 DEF decode_message
  <2> HIDE DEF sf
  <2>2. Len(chunk) = 1 /\ l.rest # "bad" /\ d.left.sf = sf
    BY <2>1 DEF Decoded
  <2>3. sf = l.rest
    BY <1>3, <2>2 DEF sf, FlagAfter
  <2> QED
    BY <2>2, <2>3
<1> QED
  BY <1>1, <1>2, <1>3

(* The command the server reads was typed by the client it is read for. *)
LEMMA CommandWasTyped ==
  ASSUME IndInv, DeliveryInv, NEW f \in ClientFds, HandleCommand(f),
         NEW k \in 1..Len(up[peer[f]])
  PROVE  LET chunk == SubSeq(up[peer[f]], 1, k) IN
         /\ chunk[1] \in Lines
         /\ online_clients[f] \in Ids
         /\ Typed(online_clients[f], chunk[1])
<1> DEFINE p == peer[f]
           chunk == SubSeq(up[p], 1, k)
<1>1. /\ p \in Procs /\ f \in active_fds /\ online_clients[f] # NoId
      /\ stage[p] # "new"
  BY Turns, Facts DEF HandleCommand, Online
<1>2. up[p] \in Seq(Ids \cup Lines) /\ Len(up[p]) \in Nat /\ DOMAIN up[p] = 1..Len(up[p])
  BY <1>1, Facts, LenProperties
<1>3. 1 \in DOMAIN up[p] /\ chunk[1] = up[p][1]
  BY <1>2
<1>4. up[p][1] \in Lines
  BY <1>1, <1>3 DEF IndInv, WatchedAreOpen
<1>5. online_clients[f] = id[p]
  <2>1. Len(<<>>) = 0
    OBVIOUS
  <2>2. up[p] # <<>>
    BY <1>2, <2>1
  <2> QED
    BY <1>1, <2>2 DEF DeliveryInv, ServedByName
<1>6. id[p] \in Ids
  BY <1>1 DEF IndInv, RunsAreNamed
<1>7. chunk[1] \in Elements(typed[p])
  <2>1. up[p][1] \in Elements(up[p])
    BY <1>3 DEF Elements
  <2> QED
    BY <1>1, <1>3, <1>4, <2>1 DEF DeliveryInv, LinesWereTyped
<1>8. Typed(id[p], chunk[1])
  BY <1>1, <1>7 DEF Typed, Elements
<1> QED
  BY <1>3, <1>4, <1>5, <1>6, <1>8

(***************************************************************************)
(* The topic the last command left was named by someone.                   *)
(***************************************************************************)
LEMMA LastTopicStep == IndInv /\ DeliveryInv /\ [Next]_vars => LastTopicNamed'
<1> SUFFICES ASSUME IndInv, DeliveryInv, [Next]_vars,
                    NEW t, t = s_message'.topic, t # NoTopic
             PROVE  Named(t)'
  BY DEF LastTopicNamed
<1>1. CASE s_message'.topic = s_message.topic
  <2>1. Named(t)
    BY <1>1 DEF DeliveryInv, LastTopicNamed
  <2> QED
    BY <1>1, <2>1, AskedStays
<1>2. ASSUME NEW f \in ClientFds, HandleCommand(f)
      PROVE  Named(t)'
  <2>1. PICK k \in 1..Len(up[peer[f]]) :
          \E d \in decode_message(SubSeq(up[peer[f]], 1, k)) :
            \/ s_message' = MessageAfter(Verb(SubSeq(up[peer[f]], 1, k)[1]), d.left)
            \/ s_message' = d.left
    BY <1>2 DEF HandleCommand
  <2> DEFINE chunk == SubSeq(up[peer[f]], 1, k)
  <2>2. /\ chunk[1] \in Lines /\ online_clients[f] \in Ids
        /\ Typed(online_clients[f], chunk[1])
    BY <1>2, CommandWasTyped
  <2>3. PICK d \in decode_message(chunk) :
          s_message' = MessageAfter(Verb(chunk[1]), d.left) \/ s_message' = d.left
    BY <2>1
  <2> HIDE DEF chunk
  <2>4. d.left.topic = t
    BY <2>3 DEF MessageAfter, Shortened
  <2>5. CASE chunk[1].verb \in {"junk", "bare"}
    BY <1>1, <2>4, <2>5, LeftTopic
  <2>6. CASE chunk[1].verb \notin {"junk", "bare"}
    <3>1. chunk[1].topic = t
      BY <2>4, <2>6, LeftTopic
    <3>2. chunk[1] \in CommandLines
      BY <2>2, <2>6, LineForms
    <3>3. Named(t)
      BY <2>2, <3>1, <3>2 DEF Named
    <3> QED
      BY <3>3, AskedStays
  <2> QED
    BY <2>5, <2>6
<1>3. CASE s_message' = s_message
  BY <1>1, <1>3
<1>4. ASSUME NEW f \in ClientFds, Disconnect(f)
      PROVE  s_message' = s_message
  BY <1>4 DEF Disconnect
<1> QED
  BY <1>2, <1>3, <1>4, StepKinds
     DEF Idle, AcceptConnection, RefuseClient, AdmitClient, Publishes,
         serverVars, registry

LEMMA TopicsHaveModes == IndInv => topics \in [IdSpace -> [Topics -> Modes]]
<1> SUFFICES ASSUME IndInv
             PROVE  topics \in [IdSpace -> [Topics -> Modes]]
  OBVIOUS
<1>1. ServerTypeOK
  BY DEF IndInv, TypeOK
<1> QED
  BY <1>1 DEF ServerTypeOK

(***************************************************************************)
(* A client is subscribed to what it asked for, as it asked.               *)
(***************************************************************************)
LEMMA TopicsStep == IndInv /\ DeliveryInv /\ [Next]_vars => OnlyNamedTopics'
<1> SUFFICES ASSUME IndInv, DeliveryInv, [Next]_vars, NEW i \in IdSpace,
                    NEW t \in Topics, NEW mode, mode = topics'[i][t], mode # "off"
             PROVE  AskedFor(i, t, mode)'
  BY DEF OnlyNamedTopics
<1>0. topics \in [IdSpace -> [Topics -> Modes]]
  BY TopicsHaveModes
<1>1. CASE topics'[i][t] = topics[i][t]
  <2>1. AskedFor(i, t, mode)
    BY <1>1 DEF DeliveryInv, OnlyNamedTopics
  <2> QED
    BY <1>1, <2>1, AskedStays
<1>2. ASSUME NEW f \in ClientFds, HandleCommand(f)
      PROVE  AskedFor(i, t, mode)'
  <2> DEFINE c == online_clients[f]
  <2>1. PICK k \in 1..Len(up[peer[f]]) :
          \E d \in decode_message(SubSeq(up[peer[f]], 1, k)) :
            IF d.ok
            THEN topics' = [topics EXCEPT ![c] =
                              TopicsAfter(c, Verb(SubSeq(up[peer[f]], 1, k)[1]), d.left)]
            ELSE topics' = topics
    BY <1>2 DEF HandleCommand
  <2> DEFINE chunk == SubSeq(up[peer[f]], 1, k)
             verb  == Verb(chunk[1])
  <2>2. chunk[1] \in Lines /\ c \in Ids /\ Typed(c, chunk[1])
    BY <1>2, CommandWasTyped
  <2>a. PICK d \in decode_message(chunk) :
          IF d.ok
          THEN topics' = [topics EXCEPT ![c] = TopicsAfter(c, verb, d.left)]
          ELSE topics' = topics
    BY <2>1
  <2> HIDE DEF chunk
  <2>3. CASE ~d.ok \/ c # i
    BY <1>0, <1>1, <2>a, <2>3
  <2>4. CASE d.ok /\ c = i
    <3> DEFINE m    == d.left
               name == MessageAfter(verb, m).topic
    <3>1. topics'[i] = TopicsAfter(i, verb, m)
      BY <1>0, <2>a, <2>4
    <3> HIDE DEF m
    <3>2. CASE name = NoTopic \/ verb = "unsubscribe" \/ name # t
      <4>1. topics'[i][t] \in {topics[i][t], "off"}
        BY <1>0, <3>1, <3>2 DEF TopicsAfter, remove_topic, add_topic
      <4> QED
        BY <1>1, <4>1
    <3>3. CASE name = t /\ name # NoTopic /\ verb # "unsubscribe"
      <4>1. m.topic = t /\ m.topic # NoTopic
        BY <3>3 DEF MessageAfter
      <4>2. topics'[i][t] \in {topics[i][t], m.sf}
        BY <1>0, <3>1, <3>3 DEF TopicsAfter, add_topic
      <4>3. CASE chunk[1].verb = "subscribe"
        <5>1. chunk[1] \in CommandLines /\ chunk[1] = Subscribe(chunk[1].topic, chunk[1].rest)
          BY <2>2, <4>3, LineForms
        <5>2. chunk[1].rest \in Flags \cup {"eol", "cut", "bad"}
          BY <5>1 DEF CommandLines
        <5>3. t = chunk[1].topic /\ m.sf = chunk[1].rest
          BY <2>4, <4>1, <4>3, <5>2, LeftTopic, AcceptedSubscribe DEF m
        <5>4. mode = m.sf => AskedFor(i, t, mode)
          BY <2>2, <2>4, <5>1, <5>3 DEF AskedFor
        <5> QED
          BY <1>1, <4>2, <5>4, AskedStays
      <4>4. CASE chunk[1].verb = "bare"
        <5>1. t = s_message.topic /\ t # NoTopic
          BY <4>1, <4>4, LeftTopic DEF m
        <5>2. Named(t)
          BY <5>1 DEF DeliveryInv, LastTopicNamed
        <5>3. chunk[1] \in BareLines
          BY <2>2, <4>4, NetworkAssumption DEF InputLines, CommandLines, JunkLines
        <5>4. chunk[1] = BareWord
          BY <3>3, <4>4, <5>3 DEF BareLines, BareWord, Verb
        <5>5. AskedFor(i, t, mode)
          BY <2>2, <2>4, <5>2, <5>4 DEF AskedFor
        <5> QED
          BY <5>5, AskedStays
      <4>5. chunk[1].verb \in {"subscribe", "bare"}
        <5>1. chunk[1].verb \in {"subscribe", "unsubscribe", "bare", "junk"}
          BY <2>2, LineForms
        <5>2. chunk[1].verb # "unsubscribe"
          BY <3>3 DEF Verb
        <5>3. ASSUME chunk[1].verb = "junk"
              PROVE  FALSE
          <6>1. d = [ok |-> chunk[1].verb = "bare" /\ Len(chunk) = 1, left |-> s_message]
            BY <5>3 DEF decode_message
          <6>2. ~d.ok
            BY <5>3, <6>1
          <6> QED
            BY <2>4, <6>2
        <5> QED
          BY <5>1, <5>2, <5>3
      <4> QED
        BY <4>3, <4>4, <4>5
    <3> QED
      BY <3>2, <3>3
  <2> QED
    BY <2>3, <2>4
<1>3. CASE AdmitClient
  <2>1. \E j \in IdSpace : topics' = [topics EXCEPT ![j] = TopicsOnArrival(j)]
    BY <1>3 DEF AdmitClient
  <2>2. topics' = topics
    BY <1>0, <2>1, ArrivalKeepsTopics
  <2> QED
    BY <1>1, <2>2
<1>4. CASE topics' = topics
  BY <1>1, <1>4
<1>5. ASSUME NEW f \in ClientFds, Disconnect(f)
      PROVE  topics' = topics
  BY <1>5 DEF Disconnect
<1> QED
  BY <1>2, <1>3, <1>4, <1>5, StepKinds
     DEF Idle, AcceptConnection, RefuseClient, Publishes, serverVars, registry

(***************************************************************************)
(* What was sent or stored for an identifier was asked for.                *)
(***************************************************************************)
LEMMA HandedStep == IndInv /\ DeliveryInv /\ [Next]_vars => HandedWasAsked'
<1> SUFFICES ASSUME IndInv, DeliveryInv, [Next]_vars, NEW i \in IdSpace,
                    NEW m \in Elements(handed'[i]) \cup Elements(pending_messages'[i])
             PROVE  Asked(i, m.topic)'
  BY DEF HandedWasAsked
<1>1. Asked(i, m.topic)
  <2>1. CASE m \in Elements(handed[i]) \cup Elements(pending_messages[i])
    BY <2>1 DEF DeliveryInv, HandedWasAsked
  <2>2. CASE m.topic \in Topics /\ topics[i][m.topic] # "off"
    <3>1. AskedFor(i, m.topic, topics[i][m.topic])
      BY <2>2 DEF DeliveryInv, OnlyNamedTopics
    <3>2. topics \in [IdSpace -> [Topics -> Modes]]
      BY TopicsHaveModes
    <3>3. topics[i][m.topic] \in {"sf0", "sf1"}
      BY <2>2, <3>2 DEF Modes
    <3> QED
      BY <3>1, <3>3 DEF Asked, Flags
  <2> QED
    BY <2>1, <2>2, HandedFrom
<1>2. \A mode : AskedFor(i, m.topic, mode) => AskedFor(i, m.topic, mode)'
  BY AskedStays
<1> QED
  BY <1>1, <1>2 DEF Asked
-----------------------------------------------------------------------------
(***************************************************************************)
(* The broker that PubSub implements, with what module BrokerProofs proves *)
(* about it: the same instance as Promise.                                 *)
(***************************************************************************)
Promised == INSTANCE BrokerProofs WITH
  Clients <- IdSpace,
  subs    <- topics,
  present <- online,
  store   <- pending_messages,
  settled <- arrived - Len(udp_queue),
  open    <- Serving

LEMMA SameBroker ==
  /\ Promise!Init => Promised!Init
  /\ [Promise!Next]_(Promise!vars) => [Promised!Next]_(Promised!vars)
<1>1. UNCHANGED Promise!vars => UNCHANGED Promised!vars
  BY DEF Promise!vars, Promised!vars
<1>2. Promise!Next => Promised!Next
  BY DEF Promise!Next, Promise!Arrive, Promise!Leave, Promise!Choose,
         Promise!Deliver, Promise!Fail, Promise!Drop, Promise!Stop,
         Promise!Follows, Promise!Awaits, Promise!Keep, Promise!Hand,
         Promise!Messages, Promise!Modes,
         Promised!Next, Promised!Arrive, Promised!Leave, Promised!Choose,
         Promised!Deliver, Promised!Fail, Promised!Drop, Promised!Stop,
         Promised!Follows, Promised!Awaits, Promised!Keep, Promised!Hand,
         Promised!Messages, Promised!Modes
<1>3. Promise!Init => Promised!Init
  BY DEF Promise!Init, Promised!Init
<1>4. ASSUME [Promise!Next]_(Promise!vars)
      PROVE  [Promised!Next]_(Promised!vars)
  BY <1>1, <1>2, <1>4
<1> QED
  BY <1>3, <1>4

(***************************************************************************)
(* So the broker's ledger is correct in PubSub: numbers of messages handed *)
(* or stored are at most the number settled, stored ones fall, none comes  *)
(* twice.                                                                  *)
(***************************************************************************)
THEOREM LedgerKept == Spec => []Promised!Ledger
<1>1. Promise!Spec => Promised!Spec
  BY SameBroker, PTL DEF Promise!Spec, Promised!Spec
<1>2. Promised!Spec => []Promised!Ledger
  BY NetworkAssumption, Promised!LedgerCorrect, PTL
<1> QED
  BY <1>1, <1>2, Implementation, PTL DEF ImplementsBroker

LEMMA SettledIsCount == IndInv => Settled \in Int /\ \A m \in Messages : m.n \in Int
<1> SUFFICES ASSUME IndInv
             PROVE  Settled \in Int /\ \A m \in Messages : m.n \in Int
  OBVIOUS
<1>1. arrived \in Int /\ Len(udp_queue) \in Nat
  BY NetworkAssumption, LenProperties DEF IndInv, TypeOK, NetTypeOK
<1>2. \A m \in Messages : m.n \in Int
  BY NetworkAssumption DEF Messages
<1> QED
  BY <1>1, <1>2 DEF Settled

LEMMA WhatLedgerSays ==
  ASSUME IndInv, Promised!Ledger, NEW i \in IdSpace
  PROVE  /\ \A m \in Elements(handed[i]) : m.n <= Settled
         /\ \A a, b \in DOMAIN pending_messages[i] :
              a < b => pending_messages[i][a].n > pending_messages[i][b].n
  BY DEF Promised!Ledger, Promised!Accounted, Elements, Settled
-----------------------------------------------------------------------------
(* Carried messages are a stack, then a queue: the cases that arise.       *)
Notices == Messages \cup {Notice}

LEMMA Falling ==
  ASSUME NEW s \in Seq(Notices),
         \A a, b \in DOMAIN s : a < b => s[a].n > s[b].n
  PROVE  StackThenQueue(s)
<1>1. Len(s) \in 0..Len(s) /\ DOMAIN s = 1..Len(s)
  BY LenProperties
<1>2. \A a, b \in MessagesIn(s) :
        a < b => IF b <= Len(s) THEN s[a].n > s[b].n ELSE s[a].n < s[b].n
  BY <1>1 DEF MessagesIn
<1> QED
  BY <1>1, <1>2 DEF StackThenQueue

LEMMA Short ==
  /\ StackThenQueue(<<>>)
  /\ \A e \in Notices : StackThenQueue(<<e>>)
<1>1. StackThenQueue(<<>>)
  <2>1. <<>> \in Seq(Notices) /\ DOMAIN <<>> = {}
    OBVIOUS
  <2> QED
    BY <2>1, Falling
<1>2. ASSUME NEW e \in Notices
      PROVE  StackThenQueue(<<e>>)
  <2>1. PICK s \in Seq(Notices) : s = <<e>> /\ DOMAIN s = {1}
    <3>1. <<e>> \in Seq(Notices) /\ DOMAIN <<e>> = {1}
      OBVIOUS
    <3> QED
      BY <3>1
  <2>2. \A a, b \in DOMAIN s : ~(a < b)
    BY <2>1
  <2>3. StackThenQueue(s)
    BY <2>2, Falling
  <2> QED
    BY <2>1, <2>3
<1> QED
  BY <1>1, <1>2

LEMMA Prefix ==
  ASSUME NEW r \in Seq(Notices), NEW s \in Seq(Notices), StackThenQueue(r \o s)
  PROVE  StackThenQueue(r)
<1>1. /\ Len(r) \in Nat /\ Len(s) \in Nat /\ DOMAIN r = 1..Len(r)
      /\ DOMAIN (r \o s) = 1..(Len(r) + Len(s))
      /\ Len(r \o s) = Len(r) + Len(s)
      /\ \A a \in 1..Len(r) : (r \o s)[a] = r[a]
  BY ConcatProperties, LenProperties
<1>2. MessagesIn(r) \subseteq MessagesIn(r \o s)
  BY <1>1 DEF MessagesIn
<1>3. PICK k \in 0..Len(r \o s) : \A a, b \in MessagesIn(r \o s) :
        a < b => IF b <= k THEN (r \o s)[a].n > (r \o s)[b].n
                 ELSE (r \o s)[a].n < (r \o s)[b].n
  BY DEF StackThenQueue
<1> DEFINE j == IF k <= Len(r) THEN k ELSE Len(r)
<1>4. j \in 0..Len(r)
  BY <1>1
<1>5. ASSUME NEW a \in MessagesIn(r), NEW b \in MessagesIn(r), a < b
      PROVE  IF b <= j THEN r[a].n > r[b].n ELSE r[a].n < r[b].n
  <2>1. /\ a \in MessagesIn(r \o s) /\ b \in MessagesIn(r \o s)
        /\ a \in 1..Len(r) /\ b \in 1..Len(r)
    BY <1>1, <1>2 DEF MessagesIn
  <2>2. b <= j <=> b <= k
    BY <1>1, <2>1
  <2>3. IF b <= k THEN (r \o s)[a].n > (r \o s)[b].n
        ELSE (r \o s)[a].n < (r \o s)[b].n
    BY <1>3, <1>5, <2>1
  <2> QED
    BY <1>1, <2>1, <2>2, <2>3
<1> QED
  BY <1>4, <1>5 DEF StackThenQueue

LEMMA Extend ==
  ASSUME NEW s \in Seq(Notices), StackThenQueue(s), NEW m \in Messages,
         \A e \in Elements(s) : e # Notice => e.n < m.n
  PROVE  StackThenQueue(Append(s, m))
<1>1. /\ Len(s) \in Nat /\ DOMAIN s = 1..Len(s)
      /\ DOMAIN Append(s, m) = 1..(Len(s) + 1)
      /\ Len(Append(s, m)) = Len(s) + 1
      /\ \A a \in 1..Len(s) : Append(s, m)[a] = s[a]
      /\ Append(s, m)[Len(s) + 1] = m
  BY AppendProperties, LenProperties DEF Notices
<1>2. PICK k \in 0..Len(s) : \A a, b \in MessagesIn(s) :
        a < b => IF b <= k THEN s[a].n > s[b].n ELSE s[a].n < s[b].n
  BY DEF StackThenQueue
<1>3. ASSUME NEW a \in MessagesIn(Append(s, m)), NEW b \in MessagesIn(Append(s, m)),
             a < b
      PROVE  IF b <= k THEN Append(s, m)[a].n > Append(s, m)[b].n
             ELSE Append(s, m)[a].n < Append(s, m)[b].n
  <2>1. a \in 1..Len(s) /\ Append(s, m)[a] = s[a] /\ a \in MessagesIn(s)
    BY <1>1, <1>3 DEF MessagesIn
  <2>2. CASE b = Len(s) + 1
    <3>1. s[a] \in Elements(s) /\ s[a] # Notice
      BY <1>1, <2>1 DEF Elements, MessagesIn
    <3>2. s[a].n < m.n
      BY <3>1
    <3>3. ~(b <= k)
      BY <1>1, <2>2
    <3> QED
      BY <1>1, <2>1, <2>2, <3>2, <3>3
  <2>3. CASE b # Len(s) + 1
    <3>1. b \in 1..Len(s) /\ Append(s, m)[b] = s[b] /\ b \in MessagesIn(s)
      BY <1>1, <2>3 DEF MessagesIn
    <3> QED
      BY <1>2, <1>3, <2>1, <3>1
  <2> QED
    BY <2>2, <2>3
<1>4. k \in 0..Len(Append(s, m))
  BY <1>1
<1> QED
  BY <1>3, <1>4 DEF StackThenQueue

(***************************************************************************)
(* A message read moves from down to printed, what is carried stays.       *)
(***************************************************************************)
LEMMA ReadKeeps ==
  ASSUME NEW r \in Seq(Notices), NEW s \in Seq(Notices), s # <<>>
  PROVE  Append(r, Head(s)) \o Tail(s) = r \o s
<1> DEFINE a == Append(r, Head(s))
           t == Tail(s)
<1>1. /\ Len(r) \in Nat /\ Len(s) \in Nat \ {0}
      /\ Head(s) \in Notices /\ t \in Seq(Notices) /\ Len(t) = Len(s) - 1
      /\ \A k \in 1..Len(t) : t[k] = s[k + 1]
  BY HeadTailProperties, LenProperties, EmptySeq
<1>2. s[1] = Head(s)
  OBVIOUS
<1>3. /\ a \in Seq(Notices) /\ Len(a) = Len(r) + 1
      /\ \A k \in 1..Len(r) : a[k] = r[k]
      /\ a[Len(r) + 1] = Head(s)
  BY <1>1, AppendProperties
<1> HIDE DEF a, t
<1>4. /\ a \o t \in Seq(Notices) /\ r \o s \in Seq(Notices)
      /\ Len(a \o t) = Len(r) + Len(s) /\ Len(r \o s) = Len(r) + Len(s)
  <2>1. /\ a \o t \in Seq(Notices) /\ r \o s \in Seq(Notices)
        /\ Len(a \o t) = Len(a) + Len(t) /\ Len(r \o s) = Len(r) + Len(s)
    BY <1>1, <1>3, ConcatProperties
  <2>2. Len(a) + Len(t) = Len(r) + Len(s)
    BY <1>1, <1>3
  <2> QED
    BY <2>1, <2>2
<1>5. ASSUME NEW k \in 1..(Len(r) + Len(s))
      PROVE  (a \o t)[k] = (r \o s)[k]
  <2>1. (a \o t)[k] = IF k <= Len(r) + 1 THEN a[k] ELSE t[k - (Len(r) + 1)]
    BY <1>1, <1>3, ConcatProperties
  <2>2. (r \o s)[k] = IF k <= Len(r) THEN r[k] ELSE s[k - Len(r)]
    BY ConcatProperties
  <2>3. CASE k <= Len(r)
    BY <1>1, <1>3, <2>1, <2>2, <2>3
  <2>4. CASE k = Len(r) + 1
    BY <1>1, <1>2, <1>3, <2>1, <2>2, <2>4
  <2>5. CASE k > Len(r) + 1
    <3>1. k - (Len(r) + 1) \in 1..Len(t)
      BY <1>1, <2>5
    <3>2. t[k - (Len(r) + 1)] = s[k - Len(r)]
      <4>1. (k - (Len(r) + 1)) + 1 = k - Len(r)
        BY <1>1
      <4> QED
        BY <1>1, <3>1, <4>1
    <3> QED
      BY <1>1, <2>1, <2>2, <2>5, <3>2
  <2>6. k \in Nat /\ (k <= Len(r) \/ k = Len(r) + 1 \/ k > Len(r) + 1)
    BY <1>1
  <2> QED
    BY <2>3, <2>4, <2>5, <2>6
<1>6. a \o t = r \o s
  BY <1>4, <1>5, SeqEqual
<1> QED
  BY <1>6 DEF a, t

LEMMA Regrouped ==
  \A r, s, u \in Seq(Notices) : (r \o s) \o u = r \o (s \o u)
BY ConcatAssociative

(***************************************************************************)
(* What a connection carries keeps its order.                              *)
(***************************************************************************)
LEMMA OrderStep ==
  IndInv /\ DeliveryInv /\ Promised!Ledger /\ [Next]_vars => BacklogThenLive'
<1> SUFFICES ASSUME IndInv, DeliveryInv, Promised!Ledger, [Next]_vars,
                    NEW p \in Procs
             PROVE  StackThenQueue(printed'[p] \o down'[p])
  BY DEF BacklogThenLive, Carried
<1>0. /\ printed[p] \in Seq(Notices) /\ down[p] \in Seq(Notices)
      /\ <<>> \in Seq(Notices) /\ <<>> \o <<>> = <<>>
      /\ StackThenQueue(printed[p] \o down[p])
  <2>1. /\ printed[p] \in Seq(Messages) /\ down[p] \in Seq(Notices)
        /\ Messages \subseteq Notices
    BY Facts DEF Notices
  <2>2. printed[p] \in Seq(Notices)
    BY <2>1, SeqMonotonic
  <2>3. <<>> \in Seq(Notices)
    OBVIOUS
  <2> QED
    BY <2>1, <2>2, <2>3, ConcatEmptySeq DEF DeliveryInv, BacklogThenLive, Carried
<1>1. CASE down'[p] = down[p] /\ printed'[p] = printed[p]
  BY <1>0, <1>1
<1>2. CASE SubscriberStep(p)
  <2>1. CASE down'[p] = <<>> /\ printed'[p] = printed[p]
    <3>1. StackThenQueue(printed[p])
      BY <1>0, Prefix
    <3>2. printed[p] \o <<>> = printed[p]
      BY <1>0, ConcatEmptySeq
    <3> QED
      BY <2>1, <3>1, <3>2
  <2>2. CASE /\ down[p] # <<>> /\ down'[p] = Tail(down[p])
             /\ Head(down[p]) = Notice /\ printed'[p] = printed[p]
    <3>1. Notice \in Elements(down[p])
      BY <1>0, <2>2, Pieces
    <3>2. PICK f \in ClientFds : Refused(f) /\ peer[f] = p
      BY <3>1 DEF DeliveryInv, OnlyRefusedGetNotice
    <3>3. printed[p] = <<>> /\ down[p] = <<Notice>>
      BY <2>2, <3>2 DEF DeliveryInv, RefusedGetNotice
    <3>4. Tail(<<Notice>>) = <<>>
      OBVIOUS
    <3> QED
      BY <1>0, <2>2, <3>3, <3>4, Short
  <2>3. CASE /\ down[p] # <<>> /\ down'[p] = Tail(down[p])
             /\ printed'[p] = Append(printed[p], Head(down[p]))
    BY <1>0, <2>3, ReadKeeps
  <2> QED
    BY <1>1, <1>2, <2>1, <2>2, <2>3, WhatIsRead
<1>3. ASSUME NotYetServed(p), UNCHANGED subscriberVars
      PROVE  down[p] = <<>> /\ printed'[p] = <<>>
  BY <1>3 DEF DeliveryInv, IdentifierComesFirst, subscriberVars
<1>4. CASE /\ RefuseClient /\ p = peer[newsockfd] /\ UNCHANGED subscriberVars
           /\ down'[p] = Sent(p, <<Notice>>)
  <2>1. down[p] = <<>> /\ printed'[p] = <<>>
    BY <1>3, <1>4, Facts DEF RefuseClient, NotYetServed
  <2>2. <<Notice>> \in Seq(Notices) /\ Notice \in Notices
    BY DEF Notices
  <2>3. <<>> \o <<Notice>> = <<Notice>>
    BY <2>2, ConcatEmptySeq
  <2> QED
    BY <1>0, <1>4, <2>1, <2>2, <2>3, Short DEF Sent
<1>5. CASE /\ AdmitClient /\ p = peer[newsockfd] /\ UNCHANGED subscriberVars
           /\ down'[p] = Sent(p, pending_messages[ReceivedId(p)])
  <2> DEFINE i == ReceivedId(p)
  <2>1. down[p] = <<>> /\ printed'[p] = <<>>
    BY <1>3, <1>5, Facts DEF AdmitClient, NotYetServed
  <2>2. i \in IdSpace /\ pending_messages[i] \in Seq(Messages)
    BY <1>5 DEF AdmitClient, IndInv, TypeOK, ServerTypeOK
  <2>3. pending_messages[i] \in Seq(Notices)
    BY <2>2, SeqMonotonic DEF Notices
  <2>4. StackThenQueue(pending_messages[i])
    BY <2>2, <2>3, WhatLedgerSays, Falling
  <2>5. <<>> \o pending_messages[i] = pending_messages[i]
    BY <2>3, ConcatEmptySeq
  <2> HIDE DEF i
  <2>6. down'[p] \in {<<>>, pending_messages[i]}
    BY <1>5, <2>1, <2>5 DEF Sent, i
  <2> QED
    BY <1>0, <2>1, <2>4, <2>5, <2>6, Short
<1>6. ASSUME NEW m \in Messages, NEW cut \in Int, Publishes(m, cut),
             down'[p] = Sent(p, <<m>>)
      PROVE  StackThenQueue(printed'[p] \o down'[p])
  <2>1. printed'[p] = printed[p]
    BY <1>6 DEF Publishes, subscriberVars
  <2>2. CASE link[p] # "open"
    BY <1>0, <1>6, <2>1, <2>2 DEF Sent
  <2>3. CASE link[p] = "open"
    <3> DEFINE s == printed[p] \o down[p]
    <3>1. s \in Seq(Notices) /\ StackThenQueue(s)
      BY <1>0, ConcatProperties
    <3>2. ASSUME NEW e \in Elements(s), e # Notice
          PROVE  e.n < m.n
      <4>1. e \in Elements(printed[p]) \cup Elements(down[p])
        BY <1>0, Pieces
      <4>2. id[p] # NoId /\ e \in Elements(handed[id[p]])
        BY <3>2, <4>1 DEF DeliveryInv, CarriedWasHanded
      <4>3. id[p] \in IdSpace
        BY <4>2, ApartFromLines DEF IndInv, TypeOK, SubscriberTypeOK
      <4>4. e.n <= Settled /\ m.n = Settled + 1
        BY <1>6, <4>2, <4>3, WhatLedgerSays DEF Publishes
      <4>5. Settled \in Int /\ e.n \in Int
        <5>1. e \in Messages
          BY <1>0, <3>2, <4>1, Pieces DEF Notices
        <5> QED
          BY <5>1, SettledIsCount
      <4> QED
        BY <4>4, <4>5
    <3>3. StackThenQueue(Append(s, m))
      BY <3>1, <3>2, Extend
    <3>4. m \in Notices /\ <<m>> \in Seq(Notices)
      BY OneElement, SeqMonotonic DEF Notices
    <3>5. Append(s, m) = printed[p] \o (down[p] \o <<m>>)
      <4>1. Append(s, m) = s \o <<m>>
        BY <3>1, <3>4, AppendIsConcat
      <4>2. PICK u \in Seq(Notices) : u = <<m>>
        BY <3>4
      <4>3. (printed[p] \o down[p]) \o u = printed[p] \o (down[p] \o u)
        BY <1>0, Regrouped
      <4> QED
        BY <4>1, <4>2, <4>3
    <3> QED
      BY <1>6, <2>1, <2>3, <3>3, <3>5 DEF Sent
  <2> QED
    BY <2>2, <2>3
<1> QED
  BY <1>1, <1>2, <1>4, <1>5, <1>6, WhatIsSent
-----------------------------------------------------------------------------
(* At the start nobody has connected. *)
LEMMA InitDelivery == Init => DeliveryInv
<1> SUFFICES ASSUME Init
             PROVE  DeliveryInv
  OBVIOUS
<1>0. NetInit /\ ServerInit /\ SubscriberInit
  BY DEF Init
<1>1. LinesWereTyped
  BY <1>0, FewPieces DEF LinesWereTyped, NetInit, SubscriberInit
<1>2. IdentifierComesFirst
  <2>1. newsockfd \notin active_fds
    <3>1. newsockfd = NoFd /\ active_fds = {STDIN, TCP, UDP}
      BY <1>0 DEF ServerInit
    <3>2. NoFd \notin {STDIN, TCP, UDP}
      BY DEF NoFd, STDIN, TCP, UDP
    <3> QED
      BY <3>1, <3>2
  <2>2. \A p \in Procs : down[p] = <<>> /\ printed[p] = <<>> /\ up[p] = <<>>
    BY <1>0 DEF NetInit, SubscriberInit
  <2>3. \A p \in Procs : stage[p] # "running"
    BY <1>0 DEF SubscriberInit
  <2>4. newsockfd = NoFd
    BY <1>0 DEF ServerInit
  <2> QED
    BY <2>1, <2>2, <2>3, <2>4 DEF IdentifierComesFirst
<1>3. ServedByName
  BY <1>0 DEF ServedByName, ServerInit
<1>4. RefusedGetNotice /\ OnlyRefusedGetNotice
  BY <1>0, FewPieces
     DEF RefusedGetNotice, NetInit, ServerInit, OnlyRefusedGetNotice, Refused
<1>5. CarriedWasHanded /\ HandedWasAsked
  BY <1>0, FewPieces
     DEF CarriedWasHanded, HandedWasAsked, NetInit, ServerInit, SubscriberInit
<1>6. LastTopicNamed /\ OnlyNamedTopics
  BY <1>0 DEF LastTopicNamed, OnlyNamedTopics, ServerInit
<1>7. BacklogThenLive
  <2>1. <<>> \in Seq(Notices)
    OBVIOUS
  <2>2. <<>> \o <<>> = <<>>
    BY <2>1, ConcatEmptySeq
  <2> QED
    BY <1>0, <2>2, Short DEF BacklogThenLive, Carried, NetInit, SubscriberInit
<1> QED
  BY <1>1, <1>2, <1>3, <1>4, <1>5, <1>6, <1>7 DEF DeliveryInv

(***************************************************************************)
(* What reaches a subscriber, for any number of subscribers, identifiers,  *)
(* topics, lines, descriptors and messages.                                *)
(***************************************************************************)
THEOREM Delivery == Spec => []DeliveryInv
<1>1. IndInv /\ Promised!Ledger /\ DeliveryInv /\ [Next]_vars => DeliveryInv'
  BY TypedStep, IdentifierStep, ServedStep, RefusedStep, NoticeStep,
     CarriedStep, HandedStep, LastTopicStep, TopicsStep, OrderStep
     DEF DeliveryInv
<1> QED
  BY <1>1, InitDelivery, Invariance, LedgerKept, PTL DEF Spec

(***************************************************************************)
(* A client is subscribed to what it asked for only, by a whole line or by *)
(* the bare word that takes up the topic of the last line that had one, be *)
(* it refused: DeliveryInv relates registry and s_message to what was      *)
(* typed, over reconnections, refusals and reused descriptors.             *)
(***************************************************************************)
THEOREM SubscribedAsAsked == Spec => []OnlyNamedTopics
<1>1. DeliveryInv => OnlyNamedTopics
  BY DEF DeliveryInv
<1> QED
  BY <1>1, Delivery, PTL

(***************************************************************************)
(* A connection carries the stored messages, newest first, then newer ones *)
(* in the order in which they reached the server.                          *)
(***************************************************************************)
THEOREM OrderKept == Spec => []BacklogThenLive
<1>1. DeliveryInv => BacklogThenLive
  BY DEF DeliveryInv
<1> QED
  BY <1>1, Delivery, PTL

(***************************************************************************)
(* Nothing is sent, or stored, twice for one identifier.                   *)
(***************************************************************************)
THEOREM SentAtMostOnce == Spec => []AtMostOnce
<1>1. IndInv /\ Promised!AtMostOnce => AtMostOnce
  <2> SUFFICES ASSUME IndInv, Promised!AtMostOnce, NEW i \in IdSpace,
                      NEW a \in DOMAIN (handed[i] \o pending_messages[i]),
                      NEW b \in DOMAIN (handed[i] \o pending_messages[i]),
                      (handed[i] \o pending_messages[i])[a]
                        = (handed[i] \o pending_messages[i])[b]
               PROVE  a = b
    BY DEF AtMostOnce
  <2> DEFINE h == handed[i]
             s == pending_messages[i]
  <2>1. h \in Seq(Messages) /\ s \in Seq(Messages)
    BY DEF IndInv, TypeOK, ServerTypeOK
  <2>2. /\ \A j, k \in DOMAIN h : h[j] = h[k] => j = k
        /\ \A j, k \in DOMAIN s : s[j] = s[k] => j = k
        /\ \A j \in DOMAIN h, k \in DOMAIN s : h[j] # s[k]
    BY DEF Promised!AtMostOnce
  <2> HIDE DEF h, s
  <2>3. /\ Len(h) \in Nat /\ Len(s) \in Nat
        /\ DOMAIN h = 1..Len(h) /\ DOMAIN s = 1..Len(s)
        /\ DOMAIN (h \o s) = 1..(Len(h) + Len(s))
        /\ \A k \in 1..(Len(h) + Len(s)) :
             (h \o s)[k] = IF k <= Len(h) THEN h[k] ELSE s[k - Len(h)]
    BY <2>1, ConcatProperties, LenProperties
  <2>4. /\ a \in 1..(Len(h) + Len(s)) /\ b \in 1..(Len(h) + Len(s))
        /\ (h \o s)[a] = (h \o s)[b]
    BY <2>3 DEF h, s
  <2>5. \A k \in 1..(Len(h) + Len(s)) : ~(k <= Len(h)) => k - Len(h) \in DOMAIN s
    BY <2>3
  <2>6. CASE a <= Len(h) /\ b <= Len(h)
    BY <2>2, <2>3, <2>4, <2>6
  <2>7. CASE a <= Len(h) /\ ~(b <= Len(h))
    BY <2>2, <2>3, <2>4, <2>5, <2>7
  <2>8. CASE ~(a <= Len(h)) /\ b <= Len(h)
    BY <2>2, <2>3, <2>4, <2>5, <2>8
  <2>9. CASE ~(a <= Len(h)) /\ ~(b <= Len(h))
    <3>1. a - Len(h) = b - Len(h)
      BY <2>2, <2>3, <2>4, <2>5, <2>9
    <3> QED
      BY <2>3, <2>4, <3>1
  <2> QED
    BY <2>6, <2>7, <2>8, <2>9
<1>2. Promised!Spec => []Promised!AtMostOnce
  BY NetworkAssumption, Promised!DeliveredAtMostOnce, PTL
<1>3. Promise!Spec => Promised!Spec
  BY SameBroker, PTL DEF Promise!Spec, Promised!Spec
<1> QED
  BY <1>1, <1>2, <1>3, Invariance, Implementation, PTL DEF ImplementsBroker

(***************************************************************************)
(* What a subscriber prints was sent for its identifier, which asked for   *)
(* it (in a line of its own, or by the bare word), and comes once.         *)
(***************************************************************************)
THEOREM MeantForIt == Spec => []MeantAndOnce
<1>1. IndInv /\ DeliveryInv => PrintedWasMeant
  <2> SUFFICES ASSUME IndInv, DeliveryInv, NEW p \in Procs,
                      NEW k \in DOMAIN printed[p]
               PROVE  /\ \E j \in DOMAIN handed[id[p]] : handed[id[p]][j] = printed[p][k]
                      /\ Asked(id[p], printed[p][k].topic)
    BY DEF PrintedWasMeant
  <2> DEFINE m == printed[p][k]
  <2>1. m \in Elements(printed[p]) /\ m \in Messages /\ m # Notice
    <3>1. printed[p] \in Seq(Messages)
      BY Facts
    <3>2. m \in Elements(printed[p])
      BY DEF Elements
    <3> QED
      BY <3>1, <3>2, Pieces, ApartFromLines
  <2>2. id[p] # NoId /\ m \in Elements(handed[id[p]])
    BY <2>1 DEF DeliveryInv, CarriedWasHanded
  <2>3. id[p] \in IdSpace
    BY <2>2, ApartFromLines DEF IndInv, TypeOK, SubscriberTypeOK
  <2>4. Asked(id[p], m.topic)
    BY <2>2, <2>3 DEF DeliveryInv, HandedWasAsked
  <2>5. \E j \in DOMAIN handed[id[p]] : handed[id[p]][j] = m
    BY <2>2 DEF Elements
  <2> QED
    BY <2>4, <2>5
<1> QED
  BY <1>1, Invariance, Delivery, SentAtMostOnce, PTL DEF MeantAndOnce

(***************************************************************************)
(* A descriptor held without being watched is the one being set up or that *)
(* of a refused connection, which got no message.                          *)
(***************************************************************************)
THEOREM LeaksAreRefused == Spec => []OnlyRefusedLeak
<1>1. DeliveryInv => OnlyRefusedLeak
  <2> SUFFICES ASSUME DeliveryInv, NEW f \in ClientFds, peer[f] # NoProc,
                      f \notin active_fds, f # newsockfd
               PROVE  /\ MessagesIn(printed[peer[f]] \o down[peer[f]]) = {}
                      /\ down[peer[f]] # <<>> \/ link[peer[f]] # "open"
    BY DEF OnlyRefusedLeak, Carried
  <2>1. /\ printed[peer[f]] = <<>>
        /\ \/ down[peer[f]] = <<Notice>>
           \/ down[peer[f]] = <<>> /\ link[peer[f]] # "open"
    BY DEF DeliveryInv, RefusedGetNotice, Refused
  <2>2. /\ <<>> \o <<Notice>> = <<Notice>> /\ <<>> \o <<>> = <<>>
        /\ <<Notice>> # <<>>
    <3>1. <<Notice>> \in Seq({Notice}) /\ <<>> \in Seq({Notice})
      OBVIOUS
    <3>2. Len(<<Notice>>) = 1 /\ Len(<<>>) = 0
      OBVIOUS
    <3> QED
      BY <3>1, <3>2, ConcatEmptySeq
  <2>3. MessagesIn(<<>>) = {} /\ MessagesIn(<<Notice>>) = {}
    BY DEF MessagesIn
  <2> QED
    BY <2>1, <2>2, <2>3
<1> QED
  BY <1>1, Delivery, PTL
=============================================================================
