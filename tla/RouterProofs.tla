---------------------------- MODULE RouterProofs ----------------------------
(***************************************************************************)
(* Theorems about the router among hosts, for any number of addresses,     *)
(* interfaces, routes and hosts and any lookup of routes.                  *)
(***************************************************************************)
EXTENDS RouterNet, FiniteSetTheorems, SequenceTheorems, TLAPS

\* The head and the tail of a sequence that is not empty.
LEMMA Popped ==
  ASSUME NEW S, NEW s \in Seq(S), s # <<>>
  PROVE  /\ Head(s) \in S
         /\ Tail(s) \in Seq(S)
         /\ Len(Tail(s)) = Len(s) - 1
         /\ \A k \in DOMAIN Tail(s) : k + 1 \in DOMAIN s /\ Tail(s)[k] = s[k + 1]
         /\ Head(s) = s[1] /\ 1 \in DOMAIN s
  OBVIOUS

\* One sequence after another.
LEMMA Joined ==
  ASSUME NEW S, NEW s \in Seq(S), NEW t \in Seq(S)
  PROVE  /\ s \o t \in Seq(S)
         /\ \A k \in DOMAIN (s \o t) :
              \/ k \in DOMAIN s /\ (s \o t)[k] = s[k]
              \/ k - Len(s) \in DOMAIN t /\ (s \o t)[k] = t[k - Len(s)]
  OBVIOUS

\* One element more.
LEMMA Appended ==
  ASSUME NEW S, NEW s \in Seq(S), NEW e \in S
  PROVE  /\ Append(s, e) \in Seq(S) /\ Append(s, e) # <<>>
         /\ \A k \in DOMAIN Append(s, e) :
              \/ k \in DOMAIN s /\ Append(s, e)[k] = s[k]
              \/ Append(s, e)[k] = e
  <1>1. Append(s, e) \in Seq(S) /\ Len(Append(s, e)) = Len(s) + 1 /\ Len(s) \in Nat
    OBVIOUS
  <1>2. \A k \in 1..Len(s) : Append(s, e)[k] = s[k]
    OBVIOUS
  <1>3. Append(s, e)[Len(s) + 1] = e
    OBVIOUS
  <1>4. QED
    BY <1>1, <1>2, <1>3

USE RouterAssumption, RouterNetAssumption

\* A message of the router about a packet is a packet.
LEMMA MessageIsPacket ==
  ASSUME NEW f \in Packets, NEW p \in {"reply", "unreachable", "timeout"}
  PROVE  /\ Message(f, p) \in Packets
         /\ Message(f, p).type = "ip" /\ Message(f, p).proto = p
         /\ Message(f, p).to = f.from
         /\ Message(f, p).src = f.dst /\ Message(f, p).dst = f.src
  <1>1. MaxTtl \in 0..MaxTtl
    OBVIOUS
  <1>2. Turned(f) \in Packets
    BY <1>1 DEF Turned, Packets
  <1>3. /\ Turned(f).type = "ip" /\ Turned(f).to = f.from
        /\ Turned(f).src = f.dst /\ Turned(f).dst = f.src
    BY DEF Turned, Packets
  <1>4. p \in Protocols
    BY DEF Protocols
  <1>5. QED
    BY <1>2, <1>3, <1>4 DEF Message, Packets

\* What is passed on is a packet.
LEMMA AgedIsPacket ==
  ASSUME NEW f \in Packets, ~Over(f)
  PROVE  Aged(f) \in Packets
  BY DEF Aged, Over, Packets

\* All entries of the cache hold one address: all of them match, or none.
LEMMA AllOrNone ==
  ASSUME NEW table \in Seq([ip: Addrs, mac: Macs]), NEW x \in Routes \cup {NoRoute},
         \A a, b \in DOMAIN table : table[a].ip = table[b].ip
  PROVE  \/ Matching(table, x) = {} /\ Cardinality(Matching(table, x)) = 0
         \/ /\ Matching(table, x) = 1..Len(table)
            /\ Cardinality(Matching(table, x)) = Len(table)
            /\ Len(table) > 0
            /\ \A n \in 0..(Len(table) - 1) : Nth(Matching(table, x), n) \in 1..Len(table)
  <1>1. CASE Matching(table, x) = {}
    BY <1>1, FS_EmptySet
  <1>2. CASE Matching(table, x) # {}
    <2>1. Matching(table, x) = 1..Len(table)
      BY <1>2 DEF Matching
    <2>2. Len(table) > 0 /\ Len(table) \in Nat
      BY <1>2, <2>1
    <2>3. Cardinality(1..Len(table)) = Len(table)
      BY <2>2, FS_Interval
    <2>4. ASSUME NEW n \in 0..(Len(table) - 1)
          PROVE  Nth(1..Len(table), n) \in 1..Len(table)
      <3>1. {l \in 1..Len(table) : l < n + 1} = 1..n
        BY <2>2
      <3>2. Cardinality(1..n) = n
        BY FS_Interval
      <3>3. n + 1 \in 1..Len(table)
        BY <2>2
      <3>4. \E k \in 1..Len(table) : Cardinality({l \in 1..Len(table) : l < k}) = n
        BY <3>1, <3>2, <3>3
      <3>5. QED
        BY <3>4 DEF Nth
    <2>5. QED
      BY <2>1, <2>2, <2>3, <2>4
  <1>3. QED
    BY <1>1, <1>2

\* All entries are of one address; a sequence repeats what f says.
OneIp(table) == \A a, b \in DOMAIN table : table[a].ip = table[b].ip

Repeats(s, f) ==
  /\ s \in Seq(ArpFrames)
  /\ \A k \in DOMAIN s : s[k].type = f.type /\ s[k].spa = f.spa /\ s[k].sha = f.sha

\* The answer branch sends answers, each from and about whom the answer is.
LEMMA CopiesAreAnswers ==
  ASSUME NEW table \in Seq([ip: Addrs, mac: Macs]), OneIp(table),
         NEW f \in ArpFrames, NEW x \in Routes \cup {NoRoute}, q \in Seq(Packets)
  PROVE  Repeats(AnswerCopies(table, f, x), f)
  <1> DEFINE P == Matching(table, x)
             c == Cardinality(P)
             copy(k) == [f EXCEPT !.to = table[Nth(P, (k - 1) % c)].mac]
  <1>0. Len(table) \in Nat /\ Len(q) \in Nat
    OBVIOUS
  <1>a. c = 0 \/ c = Len(table)
    <2>1. \A a, b \in DOMAIN table : table[a].ip = table[b].ip
      BY DEF OneIp
    <2>2. QED
      BY <2>1, AllOrNone, Zenon
  <1>1. Len(q) \in Nat /\ c \in Nat
    BY <1>0, <1>a
  <1>2. Len(q) * c \in Nat
    BY <1>1, SMT
  <1>3. ASSUME NEW k \in 1..(Len(q) * c)
        PROVE  /\ copy(k) \in ArpFrames
               /\ copy(k).type = f.type /\ copy(k).spa = f.spa /\ copy(k).sha = f.sha
    <2>1. c # 0
      BY <1>3, <1>1, SMT
    <2>2. c = Len(table) /\ \A n \in 0..(Len(table) - 1) : Nth(P, n) \in 1..Len(table)
      BY <2>1, AllOrNone DEF OneIp
    <2> HIDE DEF c
    <2>3. (k - 1) % c \in 0..(c - 1)
      BY <2>1, <1>1, <1>3, <1>2, SMT
    <2>4. Nth(P, (k - 1) % c) \in DOMAIN table
      BY <2>2, <2>3
    <2>5. \A n \in DOMAIN table : table[n].mac \in Macs
      <3>1. ASSUME NEW S, NEW t \in Seq(S), NEW n \in DOMAIN t PROVE t[n] \in S
        OBVIOUS
      <3>2. \A n \in DOMAIN table : table[n] \in [ip: Addrs, mac: Macs]
        BY <3>1
      <3>3. QED
        BY <3>2
    <2>6. table[Nth(P, (k - 1) % c)].mac \in Macs
      BY <2>4, <2>5
    <2>7. QED
      BY <2>6 DEF ArpFrames
  <1>4. AnswerCopies(table, f, x) = [k \in 1..(Len(q) * c) |-> copy(k)]
    BY DEF AnswerCopies
  <1> DEFINE m == Len(q) * c
             copies == [k \in 1..m |-> copy(k)]
  <1>5. m \in Nat
    BY <1>2
  <1>6. \A k \in 1..m : /\ copy(k) \in ArpFrames /\ copy(k).type = f.type
                        /\ copy(k).spa = f.spa /\ copy(k).sha = f.sha
    BY <1>3
  <1> HIDE DEF copy, m
  <1>7. copies \in Seq(ArpFrames) /\ DOMAIN copies = 1..m
    BY <1>5, <1>6
  <1>8. QED
    BY <1>4, <1>6, <1>7 DEF m, Repeats
-----------------------------------------------------------------------------
\* What hosts have received stays right when more is offered.
LEMMA ReceivedStays ==
  ASSUME ReceivedWell, got' = got, offered \subseteq offered'
  PROVE  ReceivedWell'
  BY DEF ReceivedWell, IsReceivedWell, IsOffered, IsAnswer

RxInv == \A i \in Ifaces : \A k \in DOMAIN rx[i] : Inbound(i, rx[i][k], offered)
TxInv == \A i \in Ifaces : \A k \in DOMAIN tx[i] : Outbound(i, tx[i][k], offered)

RxType == rx \in [Ifaces -> Seq(Frames)]
TxType == tx \in [Ifaces -> Seq(Frames)]

\* A frame is taken from an interface.
LEMMA RxPopped ==
  ASSUME RxType, RxInv, NEW i \in Ifaces, rx[i] # <<>>,
         rx' = [rx EXCEPT ![i] = Tail(@)],
         UNCHANGED offered
  PROVE  RxType' /\ RxInv' /\ Head(rx[i]) \in Frames /\ Inbound(i, Head(rx[i]), offered)
  <1>1. /\ rx[i] \in Seq(Frames)
        /\ Tail(rx[i]) \in Seq(Frames)
        /\ Head(rx[i]) = rx[i][1] /\ 1 \in DOMAIN rx[i]
        /\ Head(rx[i]) \in Frames
        /\ \A k \in DOMAIN Tail(rx[i]) :
             k + 1 \in DOMAIN rx[i] /\ Tail(rx[i])[k] = rx[i][k + 1]
    BY Popped DEF RxType
  <1>2. RxType'
    BY <1>1 DEF RxType
  <1>3. ASSUME NEW j \in Ifaces, NEW k \in DOMAIN rx'[j] PROVE Inbound(j, rx'[j][k], offered')
    <2>1. CASE j = i
      <3>1. rx'[j] = Tail(rx[i])
        BY <2>1 DEF RxType
      <3>2. k + 1 \in DOMAIN rx[i] /\ rx'[j][k] = rx[i][k + 1]
        BY <1>1, <1>3, <3>1
      <3>3. Inbound(i, rx[i][k + 1], offered)
        BY <3>2 DEF RxInv
      <3>4. QED
        BY <2>1, <3>2, <3>3 DEF Inbound
    <2>2. CASE j # i
      <3>1. rx'[j] = rx[j]
        BY <2>2 DEF RxType
      <3>2. Inbound(j, rx[j][k], offered)
        BY <1>3, <3>1 DEF RxInv
      <3>3. offered' = offered
        OBVIOUS
      <3>4. QED
        BY <3>1, <3>2, <3>3
    <2>3. QED
      BY <2>1, <2>2
  <1>4. RxInv'
    BY <1>3 DEF RxInv
  <1>5. QED
    BY <1>1, <1>2, <1>4 DEF RxInv

\* The router sends frames that are as they should be.
LEMMA TxSent ==
  ASSUME TxType, TxInv, NEW i \in Ifaces, NEW frames \in Seq(Frames),
         Send(i, frames), UNCHANGED offered,
         \A k \in DOMAIN frames : Outbound(i, frames[k], offered)
  PROVE  TxType' /\ TxInv'
  <1>1. /\ tx[i] \o frames \in Seq(Frames)
        /\ \A k \in DOMAIN (tx[i] \o frames) :
             \/ k \in DOMAIN tx[i] /\ (tx[i] \o frames)[k] = tx[i][k]
             \/ k - Len(tx[i]) \in DOMAIN frames
                /\ (tx[i] \o frames)[k] = frames[k - Len(tx[i])]
    BY Joined DEF TxType
  <1>2. TxType'
    BY <1>1 DEF TxType, Send
  <1>3. ASSUME NEW j \in Ifaces, NEW k \in DOMAIN tx'[j] PROVE Outbound(j, tx'[j][k], offered')
    <2>1. CASE j = i
      <3>1. tx'[j] = tx[i] \o frames
        BY <2>1 DEF TxType, Send
      <3>2. Outbound(i, tx'[j][k], offered)
        BY <1>1, <1>3, <3>1 DEF TxInv
      <3>3. QED
        BY <2>1, <3>2 DEF Outbound, PassedOn
    <2>2. CASE j # i
      <3>1. tx'[j] = tx[j]
        BY <2>2 DEF TxType, Send
      <3>2. Outbound(j, tx[j][k], offered)
        BY <1>3, <3>1 DEF TxInv
      <3>3. QED
        BY <3>1, <3>2 DEF Outbound, PassedOn
    <2>3. QED
      BY <2>1, <2>2
  <1>4. QED
    BY <1>2, <1>3 DEF TxInv

\* A wire loses its first frame.
LEMMA TxPopped ==
  ASSUME TxType, TxInv, NEW i \in Ifaces, WireHead(i), UNCHANGED offered
  PROVE  TxType' /\ TxInv' /\ Head(tx[i]) \in Frames /\ Outbound(i, Head(tx[i]), offered)
  <1>1. /\ tx[i] \in Seq(Frames)
        /\ Tail(tx[i]) \in Seq(Frames)
        /\ Head(tx[i]) = tx[i][1] /\ 1 \in DOMAIN tx[i]
        /\ Head(tx[i]) \in Frames
        /\ \A k \in DOMAIN Tail(tx[i]) :
             k + 1 \in DOMAIN tx[i] /\ Tail(tx[i])[k] = tx[i][k + 1]
    BY Popped DEF TxType, WireHead
  <1>2. TxType'
    BY <1>1 DEF TxType, WireHead
  <1>3. ASSUME NEW j \in Ifaces, NEW k \in DOMAIN tx'[j] PROVE Outbound(j, tx'[j][k], offered')
    <2>1. CASE j = i
      <3>1. tx'[j] = Tail(tx[i])
        BY <2>1 DEF TxType, WireHead
      <3>2. k + 1 \in DOMAIN tx[i] /\ tx'[j][k] = tx[i][k + 1]
        BY <1>1, <1>3, <3>1
      <3>3. Outbound(i, tx[i][k + 1], offered)
        BY <3>2 DEF TxInv
      <3>4. QED
        BY <2>1, <3>2, <3>3 DEF Outbound, PassedOn
    <2>2. CASE j # i
      <3>1. tx'[j] = tx[j]
        BY <2>2 DEF TxType, WireHead
      <3>2. Outbound(j, tx[j][k], offered)
        BY <1>3, <3>1 DEF TxInv
      <3>3. QED
        BY <3>1, <3>2 DEF Outbound, PassedOn
    <2>3. QED
      BY <2>1, <2>2
  <1>4. QED
    BY <1>1, <1>2, <1>3 DEF TxInv

\* A frame comes in from a host.
LEMMA RxArrived ==
  ASSUME RxType, RxInv, NEW i \in Ifaces, NEW f \in Frames, Arrives(i, f),
         offered \subseteq offered', Inbound(i, f, offered')
  PROVE  RxType' /\ RxInv'
  <1>1. /\ rx[i] \in Seq(Frames) /\ Append(rx[i], f) \in Seq(Frames)
        /\ \A k \in DOMAIN Append(rx[i], f) :
             \/ k \in DOMAIN rx[i] /\ Append(rx[i], f)[k] = rx[i][k]
             \/ Append(rx[i], f)[k] = f
    <2>1. rx[i] \in Seq(Frames)
      BY DEF RxType
    <2>2. QED
      BY <2>1, Appended
  <1>2. RxType'
    BY <1>1 DEF RxType, Arrives
  <1>3. ASSUME NEW j \in Ifaces, NEW k \in DOMAIN rx'[j] PROVE Inbound(j, rx'[j][k], offered')
    <2>1. \/ rx'[j][k] = f /\ j = i
          \/ k \in DOMAIN rx[j] /\ rx'[j][k] = rx[j][k]
      BY <1>1, <1>3 DEF RxType, Arrives
    <2>2. CASE rx'[j][k] = f /\ j = i
      BY <2>2 DEF Inbound, PassedOn
    <2>3. CASE k \in DOMAIN rx[j] /\ rx'[j][k] = rx[j][k]
      <3>1. Inbound(j, rx[j][k], offered)
        BY <2>3 DEF RxInv
      <3>2. QED
        BY <2>3, <3>1 DEF Inbound, PassedOn
    <2>4. QED
      BY <2>1, <2>2, <2>3
  <1>4. QED
    BY <1>2, <1>3 DEF RxInv

\* What is on the wires stays as it should be when hosts act.
LEMMA TxStays ==
  ASSUME TxType, TxInv, UNCHANGED tx, offered \subseteq offered'
  PROVE  TxType' /\ TxInv'
  BY DEF TxType, TxInv, Outbound, PassedOn, IsOffered, IsAnswer
-----------------------------------------------------------------------------
(***************************************************************************)
(* The steps of the router. Each takes a frame f from interface i.         *)
(***************************************************************************)
\* What every step of the router starts from and leaves alone.
Step(i, f) ==
  /\ IndInv
  /\ UNCHANGED hostVars
  /\ i \in Ifaces
  /\ Received(i, f)

\* The queues of received frames after a step of the router.
LEMMA StepTakes ==
  ASSUME NEW i, NEW f, Step(i, f)
  PROVE  /\ RxType' /\ RxInv' /\ f \in Frames /\ Inbound(i, f, offered)
         /\ i \in Ifaces /\ RxType /\ RxInv /\ TxType /\ TxInv
         /\ offered' = offered
         /\ sends' = sends /\ got' = got
  <1>1. RxType /\ RxInv /\ TxType /\ TxInv
    BY DEF Step, IndInv, TypeOK, RouterTypeOK, RxType, RxInv, TxType, TxInv
  <1>2. /\ i \in Ifaces /\ offered' = offered
        /\ sends' = sends /\ got' = got
        /\ rx[i] # <<>> /\ f = Head(rx[i]) /\ rx' = [rx EXCEPT ![i] = Tail(@)]
    BY DEF Step, Received, hostVars
  <1>3. QED
    BY <1>1, <1>2, RxPopped

\* A step that leaves cache and queue alone and keeps the wires right.
LEMMA StepDone ==
  ASSUME NEW i, NEW f, Step(i, f), UNCHANGED <<arp_table, q>>, TxType', TxInv'
  PROVE  IndInv'
  <1>1. RxType' /\ RxInv' /\ offered' = offered
        /\ sends' = sends /\ got' = got
    BY StepTakes
  <1>2. TypeOK'
    BY <1>1 DEF Step, IndInv, TypeOK, RouterTypeOK, RxType, TxType
  <1>3. /\ OneAddress' /\ CacheIsTrue' /\ ReceivedWell'
    BY <1>1, ReceivedStays DEF Step, IndInv, OneAddress, CacheIsTrue
  <1>4. QED
    BY <1>1, <1>2, <1>3 DEF IndInv, RxInv, TxInv

\* One frame that is as it should be is sent.
LEMMA StepSends ==
  ASSUME NEW i, NEW f, Step(i, f), UNCHANGED <<arp_table, q>>,
         NEW j \in Ifaces, NEW g \in Frames, Send(j, <<g>>),
         Outbound(j, g, offered)
  PROVE  IndInv'
  <1>1. <<g>> \in Seq(Frames)
        /\ \A k \in DOMAIN <<g>> : Outbound(j, <<g>>[k], offered)
    OBVIOUS
  <1>2. TxType' /\ TxInv'
    BY <1>1, StepTakes, TxSent
  <1>3. QED
    BY <1>2, StepDone

\* A frame of type ip is a packet that its sender offered.
LEMMA InboundPacket ==
  ASSUME NEW i \in Ifaces, NEW f \in Frames, Inbound(i, f, offered),
         f.type = "ip"
  PROVE  /\ f \in Packets /\ f \in offered /\ PassedOn(f)
         /\ f.src \in Hosts /\ f.from = f.src /\ HostIface[f.src] = i
  BY DEF Inbound, Frames, Packets, ArpFrames

\* A message of the router about a packet that came in.
LEMMA MessageOutbound ==
  ASSUME NEW i \in Ifaces, NEW f \in Frames, Inbound(i, f, offered),
         f.type = "ip", NEW p \in {"reply", "unreachable", "timeout"},
         p = "reply" => f.proto = "echo"
  PROVE  /\ Message(f, p) \in Frames
         /\ Outbound(i, Message(f, p), offered)
  <1>1. /\ f \in Packets /\ f \in offered
        /\ f.src \in Hosts /\ f.from = f.src /\ HostIface[f.src] = i
    BY InboundPacket
  <1> DEFINE g == Message(f, p)
  <1>2. /\ g \in Packets /\ g.type = "ip" /\ g.proto = p /\ g.to = f.from
        /\ g.src = f.dst /\ g.dst = f.src
    BY <1>1, MessageIsPacket
  <1> HIDE DEF g
  <1>3. ~PassedOn(g)
    BY <1>2 DEF PassedOn
  <1>4. Outbound(i, g, offered)
    BY <1>1, <1>2, <1>3 DEF Outbound, IsAnswer
  <1>5. QED
    BY <1>2, <1>4 DEF Frames, g

\* router.c:165-192.
LEMMA EchoReplyKeeps ==
  ASSUME NEW i, NEW f, Step(i, f), EchoReply(i, f)
  PROVE  IndInv'
  <1>1. f \in Frames /\ i \in Ifaces /\ Inbound(i, f, offered)
    BY StepTakes
  <1>2. Message(f, "reply") \in Frames
        /\ Outbound(i, Message(f, "reply"), offered)
    BY <1>1, MessageOutbound DEF EchoReply, IsEchoForMe
  <1>3. Send(i, <<Message(f, "reply")>>) /\ UNCHANGED <<arp_table, q>>
    BY DEF EchoReply
  <1>4. QED
    BY <1>1, <1>2, <1>3, StepSends

\* router.c:195-222.
LEMMA UnreachableKeeps ==
  ASSUME NEW i, NEW f, NEW x, Step(i, f), Unreachable(i, f, x)
  PROVE  IndInv'
  <1>1. f \in Frames /\ i \in Ifaces /\ Inbound(i, f, offered)
    BY StepTakes
  <1>2. Message(f, "unreachable") \in Frames
        /\ Outbound(i, Message(f, "unreachable"), offered)
    BY <1>1, MessageOutbound DEF Unreachable, Routed
  <1>3. Send(i, <<Message(f, "unreachable")>>) /\ UNCHANGED <<arp_table, q>>
    BY DEF Unreachable
  <1>4. QED
    BY <1>1, <1>2, <1>3, StepSends

\* router.c:225-257.
LEMMA TimeExceededKeeps ==
  ASSUME NEW i, NEW f, NEW x, Step(i, f), TimeExceeded(i, f, x)
  PROVE  IndInv'
  <1>1. f \in Frames /\ i \in Ifaces /\ Inbound(i, f, offered)
    BY StepTakes
  <1>2. Message(f, "timeout") \in Frames
        /\ Outbound(i, Message(f, "timeout"), offered)
    BY <1>1, MessageOutbound DEF TimeExceeded, Routed
  <1>3. Send(i, <<Message(f, "timeout")>>) /\ UNCHANGED <<arp_table, q>>
    BY DEF TimeExceeded
  <1>4. QED
    BY <1>1, <1>2, <1>3, StepSends

\* A step that sends nothing.
LEMMA StepSilent ==
  ASSUME NEW i, NEW f, Step(i, f), UNCHANGED <<tx, arp_table, q>>
  PROVE  IndInv'
  <1>1. TxType' /\ TxInv'
    BY StepTakes, TxStays
  <1>2. QED
    BY <1>1, StepDone

\* router.c:284-290.
LEMMA SendGarbledKeeps ==
  ASSUME NEW i, NEW f, NEW x \in Routes \cup {NoRoute}, Step(i, f), SendGarbled(i, f, x)
  PROVE  IndInv'
  <1>1. f \in Frames /\ i \in Ifaces /\ Inbound(i, f, offered)
    BY StepTakes
  <1>2. /\ f.type = "ip" /\ x \in Lookup[f.dst] /\ x # NoRoute /\ x \in Routes
        /\ ~Over(f) /\ f.good
    BY DEF SendGarbled, ToForward, Routed
  <1>3. f \in Packets /\ f \in offered /\ PassedOn(f)
    BY <1>1, <1>2, InboundPacket
  <1> DEFINE g == [Aged(f) EXCEPT !.from = f.to, !.to = Garbled]
             j == OutIface[x]
  <1>4. j \in Ifaces
    BY <1>2
  <1>5. /\ Aged(f) \in Packets
        /\ Aged(f).ttl = f.ttl - 1 /\ Aged(f).type = "ip" /\ Aged(f).proto = f.proto
        /\ Aged(f).src = f.src /\ Aged(f).dst = f.dst
    BY <1>2, <1>3, AgedIsPacket DEF Aged, Packets
  <1>6. /\ g \in Packets /\ g.to = Garbled
        /\ g.ttl = f.ttl - 1 /\ g.type = "ip" /\ g.proto = f.proto
        /\ g.src = f.src /\ g.dst = f.dst
    BY <1>3, <1>5 DEF Packets, Macs
  <1>7. f.ttl \in Nat /\ f.ttl > 1
    BY <1>2, <1>3 DEF Over, Packets
  <1>8. Send(j, <<g>>) /\ UNCHANGED <<arp_table, q>>
    BY DEF SendGarbled
  <1> HIDE DEF g, j
  <1>9. f.ttl = g.ttl + 1
    BY <1>6, <1>7
  <1>10. PassedOn(g)
    BY <1>3, <1>6 DEF PassedOn
  <1>11. Outbound(j, g, offered)
    BY <1>2, <1>3, <1>6, <1>9, <1>10 DEF Outbound, IsOffered, j
  <1>12. QED
    BY <1>4, <1>6, <1>8, <1>11, StepSends DEF Frames

\* router.c:330-361.
LEMMA AnswerArpKeeps ==
  ASSUME NEW i, NEW f, Step(i, f), AnswerArp(i, f)
  PROVE  IndInv'
  <1>1. f \in Frames /\ i \in Ifaces
    BY StepTakes
  <1>2. PICK w \in Words : Send(i, <<ArpReply(i, f, w)>>)
    BY DEF AnswerArp
  <1>3. f \in ArpFrames /\ f.tpa = IfaceIp[i]
    BY <1>1 DEF AnswerArp, Frames, Packets
  <1> DEFINE g == ArpReply(i, f, w)
  <1>4. g \in ArpFrames /\ g.type = "answer" /\ g.sha = g.spa
    BY <1>1, <1>3 DEF ArpReply, ArpFrames, Macs
  <1> HIDE DEF g
  <1>5. Outbound(i, g, offered)
    BY <1>4 DEF Outbound, PassedOn
  <1>6. UNCHANGED <<arp_table, q>>
    BY DEF AnswerArp
  <1>7. Send(i, <<g>>)
    BY <1>2 DEF g
  <1>8. QED
    BY <1>1, <1>4, <1>5, <1>6, <1>7, StepSends DEF Frames

\* router.c:293-323.
LEMMA QueueAndAskKeeps ==
  ASSUME NEW i, NEW f, NEW x \in Routes \cup {NoRoute}, Step(i, f), QueueAndAsk(i, f, x)
  PROVE  IndInv'
  <1>1. /\ f \in Frames /\ i \in Ifaces /\ Inbound(i, f, offered)
        /\ RxType' /\ RxInv' /\ TxType /\ TxInv
        /\ offered' = offered /\ sends' = sends /\ got' = got
    BY StepTakes
  <1>2. /\ f.type = "ip" /\ x \in Routes /\ ~Over(f) /\ Cached(NextHop[x])
    BY DEF QueueAndAsk, ToForward, Routed
  <1>3. f \in Packets
    BY <1>1, <1>2, InboundPacket
  <1> DEFINE mine == IfaceIp[OutIface[x]]
             g(w) == [type |-> "request", spa |-> mine, sha |-> mine,
                      tpa |-> NextHop[x], word |-> w, from |-> mine,
                      to |-> Broadcast]
  <1>4. PICK w \in Words : Send(i, <<g(w)>>)
    BY DEF QueueAndAsk
  <1>6. mine \in Addrs /\ NextHop[x] \in Addrs
    BY <1>2
  <1>7. g(w) \in ArpFrames /\ Outbound(i, g(w), offered)
    <2>1. g(w) \in ArpFrames
      BY <1>6 DEF ArpFrames, Macs
    <2>2. g(w).type = "request"
      OBVIOUS
    <2> HIDE DEF g
    <2>3. QED
      BY <2>1, <2>2 DEF Outbound, PassedOn
  <1>8. TxType' /\ TxInv'
    <2>1. <<g(w)>> \in Seq(Frames)
          /\ \A k \in DOMAIN <<g(w)>> : Outbound(i, <<g(w)>>[k], offered)
      <3> HIDE DEF g
      <3>1. QED
        BY <1>7 DEF Frames
    <2> HIDE DEF g
    <2>2. QED
      BY <1>1, <1>4, <2>1, TxSent
  <1>9. q' = Append(q, Aged(f)) /\ arp_table' = arp_table
    BY DEF QueueAndAsk
  <1>10. q' \in Seq(Packets)
    <2>1. q \in Seq(Packets) /\ Aged(f) \in Packets
      BY <1>2, <1>3, AgedIsPacket DEF Step, IndInv, TypeOK, RouterTypeOK
    <2>2. QED
      BY <1>9, <2>1, Appended
  <1>11. TypeOK'
    BY <1>1, <1>8, <1>9, <1>10 DEF Step, IndInv, TypeOK, RouterTypeOK, RxType, TxType
  <1>12. OneAddress' /\ CacheIsTrue' /\ ReceivedWell'
    BY <1>1, <1>9, ReceivedStays DEF Step, IndInv, OneAddress, CacheIsTrue
  <1>13. QED
    BY <1>1, <1>8, <1>11, <1>12 DEF IndInv, RxInv, TxInv

\* router.c:366-383: the cache learns an address only when it has no other.
LEMMA Learned ==
  ASSUME NEW i, NEW f, NEW x, Step(i, f), LearnAndDrain(i, f, x)
  PROVE  /\ arp_table' \in Seq([ip: Addrs, mac: Macs])
         /\ OneAddress' /\ CacheIsTrue'
  <1>1. f \in Frames /\ Inbound(i, f, offered)
    BY StepTakes
  <1>2. f \in ArpFrames /\ f.sha = f.spa
    BY <1>1 DEF LearnAndDrain, Frames, Packets, Inbound
  <1> DEFINE e == [ip |-> f.spa, mac |-> f.sha]
             Entry == [ip: Addrs, mac: Macs]
  <1>3. e \in Entry /\ e.ip = f.spa /\ e.mac = e.ip
    BY <1>2 DEF ArpFrames, Macs
  <1>4. /\ arp_table \in Seq(Entry) /\ OneAddress /\ CacheIsTrue
    BY DEF Step, IndInv, TypeOK, RouterTypeOK
  <1>5. CASE Found(f)
    <2>1. arp_table' = arp_table
      BY <1>5 DEF LearnAndDrain
    <2>2. QED
      BY <1>4, <2>1 DEF OneAddress, CacheIsTrue
  <1>6. CASE ~Found(f)
    <2>1. arp_table' = Append(arp_table, e)
      BY <1>6 DEF LearnAndDrain
    <2>2. \A k \in DOMAIN arp_table : arp_table[k].ip = f.spa
      BY <1>6 DEF Found
    <2> HIDE DEF e, Entry
    <2>3. Append(arp_table, e) \in Seq(Entry)
          /\ \A k \in DOMAIN Append(arp_table, e) :
               \/ k \in DOMAIN arp_table /\ Append(arp_table, e)[k] = arp_table[k]
               \/ Append(arp_table, e)[k] = e
      BY <1>3, <1>4, Appended
    <2>4. \A k \in DOMAIN arp_table' : arp_table'[k].ip = f.spa
      BY <1>3, <2>1, <2>2, <2>3
    <2>5. \A k \in DOMAIN arp_table' : arp_table'[k].mac = arp_table'[k].ip
      BY <1>3, <1>4, <2>1, <2>3 DEF CacheIsTrue
    <2>6. QED
      BY <1>2, <2>1, <2>3, <2>4, <2>5 DEF OneAddress, CacheIsTrue, Entry
  <1>7. QED
    BY <1>5, <1>6

\* router.c:364-404.
LEMMA LearnAndDrainKeeps ==
  ASSUME NEW i, NEW f, NEW x \in Routes \cup {NoRoute}, Step(i, f), LearnAndDrain(i, f, x)
  PROVE  IndInv'
  <1>1. /\ f \in Frames /\ i \in Ifaces /\ Inbound(i, f, offered)
        /\ RxType' /\ RxInv' /\ TxType /\ TxInv
        /\ offered' = offered /\ sends' = sends /\ got' = got
    BY StepTakes
  <1>2. f \in ArpFrames /\ f.type = "answer" /\ f.sha = f.spa
    BY <1>1 DEF LearnAndDrain, Frames, Packets, Inbound
  <1>3. /\ arp_table' \in Seq([ip: Addrs, mac: Macs])
        /\ OneAddress' /\ CacheIsTrue'
    BY Learned
  <1>4. q \in Seq(Packets) /\ q' = q
    BY DEF LearnAndDrain, Step, IndInv, TypeOK, RouterTypeOK
  <1> DEFINE copies == AnswerCopies(arp_table', f, x)
  <1>5. Repeats(copies, f)
    <2>1. OneIp(arp_table')
      BY <1>3 DEF OneAddress, OneIp
    <2>2. QED
      BY <1>2, <1>3, <1>4, <2>1, CopiesAreAnswers, Zenon
  <1>6. Send(i, copies)
    BY DEF LearnAndDrain
  <1> HIDE DEF copies
  <1>7. copies \in Seq(Frames)
    BY <1>5 DEF Frames, Repeats
  <1>8. \A k \in DOMAIN copies : Outbound(i, copies[k], offered)
    BY <1>2, <1>5 DEF Outbound, PassedOn, Repeats
  <1>9. TxType' /\ TxInv'
    BY <1>1, <1>6, <1>7, <1>8, TxSent
  <1>10. TypeOK'
    BY <1>1, <1>3, <1>4, <1>9 DEF Step, IndInv, TypeOK, RouterTypeOK, RxType, TxType
  <1>11. ReceivedWell'
    BY <1>1, ReceivedStays DEF Step, IndInv
  <1>12. QED
    BY <1>1, <1>3, <1>9, <1>10, <1>11 DEF IndInv, RxInv, TxInv

\* Every step of the router keeps the invariant.
LEMMA RouterKeeps ==
  ASSUME IndInv, RouterStep, UNCHANGED hostVars
  PROVE  IndInv'
  <1>1. PICK i \in Ifaces : HandleFrame(i, Head(rx[i]))
    BY DEF RouterStep
  <1> DEFINE f == Head(rx[i])
  <1>2. Received(i, f)
    BY <1>1 DEF HandleFrame, EchoReply, AnswerArp, IgnoreArp, Unreachable, TimeExceeded,
                DropBad, SendGarbled, QueueAndAsk, ToForward, Routed, LearnAndDrain
  <1>3. Step(i, f)
    BY <1>2 DEF Step
  <1> HIDE DEF f
  <1>4. CASE EchoReply(i, f)
    BY <1>3, <1>4, EchoReplyKeeps
  <1>5. CASE AnswerArp(i, f)
    BY <1>3, <1>5, AnswerArpKeeps
  <1>6. CASE IgnoreArp(i, f)
    BY <1>3, <1>6, StepSilent DEF IgnoreArp
  <1>7. ASSUME NEW x \in Routes \cup {NoRoute},
               \/ Unreachable(i, f, x) \/ TimeExceeded(i, f, x) \/ DropBad(i, f, x)
               \/ SendGarbled(i, f, x) \/ QueueAndAsk(i, f, x) \/ LearnAndDrain(i, f, x)
        PROVE  IndInv'
    <2>1. CASE Unreachable(i, f, x)
      BY <1>3, <2>1, UnreachableKeeps
    <2>2. CASE TimeExceeded(i, f, x)
      BY <1>3, <2>2, TimeExceededKeeps
    <2>3. CASE DropBad(i, f, x)
      BY <1>3, <2>3, StepSilent DEF DropBad
    <2>4. CASE SendGarbled(i, f, x)
      BY <1>3, <2>4, SendGarbledKeeps
    <2>5. CASE QueueAndAsk(i, f, x)
      BY <1>3, <2>5, QueueAndAskKeeps
    <2>6. CASE LearnAndDrain(i, f, x)
      BY <1>3, <2>6, LearnAndDrainKeeps
    <2>7. QED
      BY <1>7, <2>1, <2>2, <2>3, <2>4, <2>5, <2>6
  <1>8. QED
    BY <1>1, <1>4, <1>5, <1>6, <1>7 DEF HandleFrame, f
-----------------------------------------------------------------------------
(***************************************************************************)
(* The steps of the hosts and the wires. None touches cache or queue.      *)
(***************************************************************************)
LEMMA HostDone ==
  ASSUME IndInv, UNCHANGED <<arp_table, q>>,
         RxType', RxInv', TxType', TxInv',
         
         offered' \in SUBSET Packets, sends' \in 0..MaxSends,
         got' \in [Hosts -> Seq(Packets)], ReceivedWell'
  PROVE  IndInv'
  <1>1. TypeOK'
    BY DEF IndInv, TypeOK, RouterTypeOK, RxType, TxType
  <1>2. OneAddress' /\ CacheIsTrue'
    BY DEF IndInv, OneAddress, CacheIsTrue
  <1>3. QED
    BY <1>1, <1>2 DEF IndInv, RxInv, TxInv

\* What the invariant says, in the parts the steps use.
LEMMA Parts ==
  ASSUME IndInv
  PROVE  /\ RxType /\ RxInv /\ TxType /\ TxInv
         /\ offered \in SUBSET Packets
         /\ sends \in 0..MaxSends /\ got \in [Hosts -> Seq(Packets)]
         /\ ReceivedWell
  BY DEF IndInv, TypeOK, RouterTypeOK, RxType, RxInv, TxType, TxInv

LEMMA HostPacketKeeps ==
  ASSUME NEW h \in Hosts, IndInv, HostPacket(h)
  PROVE  IndInv'
  <1> DEFINE i == HostIface[h]
             f(o) == [type |-> "ip", proto |-> o.proto, src |-> h, dst |-> o.dst,
                      ttl |-> o.ttl, good |-> o.good, from |-> h, to |-> IfaceIp[i]]
  <1>1. PICK o \in Offers : Arrives(i, f(o)) /\ offered' = offered \cup {f(o)}
    BY DEF HostPacket
  <1>2. /\ i \in Ifaces /\ h \in Addrs /\ IfaceIp[i] \in Addrs
        /\ o.proto \in {"echo", "data"} /\ o.dst \in Addrs
        /\ o.ttl \in 0..MaxTtl /\ o.good \in BOOLEAN
    OBVIOUS
  <1>3. /\ f(o) \in Packets /\ f(o).type = "ip" /\ f(o).proto \in {"echo", "data"}
        /\ f(o).src = h /\ f(o).from = h
    BY <1>2 DEF Packets, Protocols, Macs
  <1>4. /\ sends' = sends + 1 /\ sends < MaxSends
        /\ UNCHANGED <<tx, arp_table, q, got>>
    BY DEF HostPacket
  <1> HIDE DEF f
  <1>5. Inbound(i, f(o), offered')
    BY <1>1, <1>3 DEF Inbound, PassedOn
  <1> HIDE DEF i
  <1>6. RxType' /\ RxInv'
    BY <1>1, <1>2, <1>3, <1>4, <1>5, Parts, RxArrived DEF Frames
  <1>7. TxType' /\ TxInv'
    BY <1>1, <1>4, Parts, TxStays
  <1>8. ReceivedWell'
    BY <1>1, <1>4, Parts, ReceivedStays
  <1>9. sends' \in 0..MaxSends
    BY <1>4, Parts
  <1>10. QED
    BY <1>1, <1>3, <1>4, <1>6, <1>7, <1>8, <1>9, Parts, HostDone

\* What hosts say of themselves is true.
LEMMA ArpIsInbound ==
  ASSUME NEW h \in Hosts, NEW a \in Addrs, NEW w \in Words, NEW i, NEW off
  PROVE  /\ Answer(h, a, w) \in Frames
         /\ Inbound(i, Answer(h, a, w), off)
         /\ [type |-> "request", spa |-> h, sha |-> h, tpa |-> a, word |-> w,
             from |-> h, to |-> Broadcast] \in Frames
         /\ Inbound(i, [type |-> "request", spa |-> h, sha |-> h, tpa |-> a,
                        word |-> w, from |-> h, to |-> Broadcast], off)
  BY DEF Answer, Frames, ArpFrames, Macs, Inbound

LEMMA HostAsksKeeps ==
  ASSUME NEW h \in Hosts, IndInv, HostAsks(h)
  PROVE  IndInv'
  <1> DEFINE i == HostIface[h]
             f(a, w) == [type |-> "request", spa |-> h, sha |-> h, tpa |-> a,
                         word |-> w, from |-> h, to |-> Broadcast]
  <1>1. PICK a \in Addrs, w \in Words : Arrives(i, f(a, w))
    BY DEF HostAsks
  <1>2. i \in Ifaces
    OBVIOUS
  <1>3. f(a, w) \in Frames /\ Inbound(i, f(a, w), offered')
    BY ArpIsInbound
  <1>4. /\ sends' = sends + 1 /\ sends < MaxSends
        /\ UNCHANGED <<tx, arp_table, q, offered, got>>
    BY DEF HostAsks
  <1> HIDE DEF f, i
  <1>5. RxType' /\ RxInv'
    BY <1>1, <1>2, <1>3, <1>4, Parts, RxArrived
  <1>6. TxType' /\ TxInv'
    BY <1>4, Parts, TxStays
  <1>7. ReceivedWell' /\ sends' \in 0..MaxSends
    BY <1>4, Parts, ReceivedStays
  <1>8. QED
    BY <1>4, <1>5, <1>6, <1>7, Parts, HostDone

LEMMA HostAnnouncesKeeps ==
  ASSUME NEW h \in Announcers, IndInv, HostAnnounces(h)
  PROVE  IndInv'
  <1>1. h \in Hosts /\ HostIface[h] \in Ifaces /\ IfaceIp[HostIface[h]] \in Addrs
    OBVIOUS
  <1> DEFINE i == HostIface[h]
             f(w) == Answer(h, IfaceIp[i], w)
  <1>2. PICK w \in Words : Arrives(i, f(w))
    BY DEF HostAnnounces
  <1>3. /\ sends' = sends + 1 /\ sends < MaxSends
        /\ UNCHANGED <<tx, arp_table, q, offered, got>>
    BY DEF HostAnnounces
  <1>4. f(w) \in Frames /\ Inbound(i, f(w), offered')
    BY <1>1, <1>3, ArpIsInbound
  <1> HIDE DEF f, i
  <1>5. RxType' /\ RxInv'
    BY <1>1, <1>2, <1>3, <1>4, Parts, RxArrived DEF i
  <1>6. TxType' /\ TxInv'
    BY <1>3, Parts, TxStays
  <1>7. ReceivedWell' /\ sends' \in 0..MaxSends
    BY <1>3, Parts, ReceivedStays
  <1>8. QED
    BY <1>3, <1>5, <1>6, <1>7, Parts, HostDone

LEMMA HostAcceptsKeeps ==
  ASSUME NEW i \in Ifaces, NEW h \in Hosts, IndInv, HostAccepts(i, h)
  PROVE  IndInv'
  <1> DEFINE f == Head(tx[i])
  <1>0. \/ f.to = h
        \/ /\ f.to = Garbled
           /\ f.dst = h
    BY DEF HostAccepts
  <1>1. /\ WireHead(i) /\ f.type = "ip"
        /\ got' = [got EXCEPT ![h] = Append(@, f)]
        /\ UNCHANGED <<rx, arp_table, q, sends, offered>>
    BY DEF HostAccepts
  <1>2. TxType' /\ TxInv' /\ f \in Frames /\ Outbound(i, f, offered)
    BY <1>1, Parts, TxPopped
  <1> HIDE DEF f
  <1>3. h # Garbled
    OBVIOUS
  <1>4. f \in Packets /\ IsReceivedWell(h, f, offered)
    BY <1>0, <1>1, <1>2, <1>3 DEF Outbound, IsReceivedWell, Frames, Packets, ArpFrames
  <1>5. got' \in [Hosts -> Seq(Packets)]
    BY <1>1, <1>4, Parts
  <1>6. ReceivedWell'
    <2>1. ASSUME NEW g \in Hosts, NEW k \in DOMAIN got'[g]
          PROVE  IsReceivedWell(g, got'[g][k], offered)
      <3>1. \/ g = h /\ got'[g][k] = f
            \/ k \in DOMAIN got[g] /\ got'[g][k] = got[g][k]
        BY <1>1, <1>4, <2>1, Parts
      <3>2. QED
        BY <1>4, <3>1, Parts DEF ReceivedWell
    <2>2. offered' = offered
      BY <1>1
    <2>3. QED
      BY <2>1, <2>2 DEF ReceivedWell
  <1>7. RxType' /\ RxInv'
    BY <1>1, Parts DEF RxType, RxInv
  <1>8. QED
    BY <1>1, <1>2, <1>5, <1>6, <1>7, Parts, HostDone

LEMMA HostAnswersKeeps ==
  ASSUME NEW i \in Ifaces, NEW h \in Hosts, IndInv, HostAnswers(i, h)
  PROVE  IndInv'
  <1> DEFINE f == Head(tx[i])
  <1>1. /\ WireHead(i) /\ f.type = "request" /\ f.tpa = h
        /\ UNCHANGED <<arp_table, q, sends, offered, got>>
    BY DEF HostAnswers
  <1>2. PICK w \in Words : Arrives(i, Answer(h, f.spa, w))
    BY DEF HostAnswers
  <1>3. TxType' /\ TxInv' /\ f \in Frames /\ Outbound(i, f, offered)
    BY <1>1, Parts, TxPopped
  <1> HIDE DEF f
  <1>4. f.spa \in Addrs
    BY <1>1, <1>3 DEF Outbound, Frames, Packets, ArpFrames
  <1> DEFINE g == Answer(h, f.spa, w)
  <1>5. g \in Frames /\ Inbound(i, g, offered')
    BY <1>1, <1>4, ArpIsInbound
  <1>6. Arrives(i, g)
    BY <1>2
  <1> HIDE DEF g
  <1>7. RxType' /\ RxInv'
    BY <1>1, <1>5, <1>6, Parts, RxArrived
  <1>8. ReceivedWell'
    BY <1>1, Parts, ReceivedStays
  <1>9. QED
    BY <1>1, <1>3, <1>7, <1>8, Parts, HostDone

LEMMA VanishesKeeps ==
  ASSUME NEW i \in Ifaces, IndInv, Vanishes(i)
  PROVE  IndInv'
  <1>1. WireHead(i) /\ UNCHANGED <<rx, arp_table, q, sends, offered, got>>
    BY DEF Vanishes, hostVars
  <1>2. TxType' /\ TxInv'
    BY <1>1, Parts, TxPopped
  <1>3. RxType' /\ RxInv' /\ ReceivedWell'
    BY <1>1, Parts, ReceivedStays DEF RxType, RxInv
  <1>4. QED
    BY <1>1, <1>2, <1>3, Parts, HostDone

LEMMA LostBeforeKeeps ==
  ASSUME NEW i \in Ifaces, IndInv, LostBefore(i)
  PROVE  IndInv'
  <1>1. /\ rx[i] # <<>> /\ rx' = [rx EXCEPT ![i] = Tail(@)]
        /\ UNCHANGED <<tx, arp_table, q, sends, offered, got>>
    BY DEF LostBefore, hostVars
  <1>2. RxType' /\ RxInv'
    BY <1>1, Parts, RxPopped
  <1>3. TxType' /\ TxInv' /\ ReceivedWell'
    BY <1>1, Parts, TxStays, ReceivedStays
  <1>4. QED
    BY <1>1, <1>2, <1>3, Parts, HostDone
-----------------------------------------------------------------------------
LEMMA InitIsRight == Init => IndInv
  BY DEF Init, RouterInit, IndInv, TypeOK, RouterTypeOK, OneAddress, CacheIsTrue,
         ReceivedWell

LEMMA NextKeeps ==
  ASSUME IndInv, [Next]_vars
  PROVE  IndInv'
  <1>1. CASE UNCHANGED vars
    BY <1>1 DEF vars, routerVars, hostVars, IndInv, TypeOK, RouterTypeOK, OneAddress,
                CacheIsTrue, ReceivedWell
  <1>2. CASE RouterStep /\ UNCHANGED hostVars
    BY <1>2, RouterKeeps
  <1>3. CASE HostStep
    <2>1. ASSUME NEW h \in Hosts, HostPacket(h) PROVE IndInv'
      BY <2>1, HostPacketKeeps
    <2>2. ASSUME NEW h \in Hosts, HostAsks(h) PROVE IndInv'
      BY <2>2, HostAsksKeeps
    <2>3. ASSUME NEW h \in Announcers, HostAnnounces(h) PROVE IndInv'
      BY <2>3, HostAnnouncesKeeps
    <2>4. ASSUME NEW i \in Ifaces, NEW h \in Hosts, HostAccepts(i, h) PROVE IndInv'
      BY <2>4, HostAcceptsKeeps
    <2>5. ASSUME NEW i \in Ifaces, NEW h \in Hosts, HostAnswers(i, h) PROVE IndInv'
      BY <2>5, HostAnswersKeeps
    <2>6. ASSUME NEW i \in Ifaces, Vanishes(i) PROVE IndInv'
      BY <2>6, VanishesKeeps
    <2>7. ASSUME NEW i \in Ifaces, LostBefore(i) PROVE IndInv'
      BY <2>7, LostBeforeKeeps
    <2>8. QED
      BY <1>3, <2>1, <2>2, <2>3, <2>4, <2>5, <2>6, <2>7 DEF HostStep
  <1>4. QED
    BY <1>1, <1>2, <1>3 DEF Next

(***************************************************************************)
(* The invariant holds of the router among any hosts.                      *)
(***************************************************************************)
THEOREM Invariance == Spec => []IndInv
  BY InitIsRight, NextKeeps, PTL DEF Spec

(* Every variable keeps its type. *)
THEOREM TypeCorrect == Spec => []TypeOK
  <1>1. IndInv => TypeOK
    BY DEF IndInv
  <1>2. QED
    BY <1>1, Invariance, PTL

(***************************************************************************)
(* An ARP answer on a wire, and an entry of the cache, never gives an      *)
(* address another's hardware address (router.c:330-383).                  *)
(***************************************************************************)
THEOREM CacheCorrect == Spec => []ArpIsTrue
  <1>1. IndInv => ArpIsTrue
    BY DEF IndInv, ArpIsTrue, Outbound, OnWire
  <1>2. QED
    BY <1>1, Invariance, PTL

(***************************************************************************)
(* What a host takes from the wire is for it and is a packet that somebody *)
(* offered, aged once, or a message about a packet of its own, whichever   *)
(* hosts take the bytes of router.c:287 for their address.                 *)
(***************************************************************************)
THEOREM ReceivedIsRight == Spec => []ReceivedWell
  <1>1. IndInv => ReceivedWell
    BY DEF IndInv
  <1>2. QED
    BY <1>1, Invariance, PTL

(***************************************************************************)
(* What goes out is right: a packet that is passed on was offered, had a   *)
(* right checksum, has one less to live and a route; the router's own      *)
(* messages go back to the sender of a packet.                             *)
(***************************************************************************)
THEOREM WiresCorrect == Spec => [](ForwardedWell /\ AnswersGoHome)
  <1>1. ASSUME IndInv PROVE ForwardedWell /\ AnswersGoHome
    <2>1. ASSUME NEW i \in Ifaces, NEW f \in OnWire(i)
          PROVE  Outbound(i, f, offered)
      <3>1. PICK k \in DOMAIN tx[i] : f = tx[i][k]
        BY <2>1 DEF OnWire
      <3>2. QED
        BY <1>1, <3>1 DEF IndInv
    <2>2. ForwardedWell
      BY <2>1 DEF ForwardedWell, Outbound
    <2>3. AnswersGoHome
      <3>1. ASSUME NEW i \in Ifaces, NEW f \in OnWire(i), f.type = "ip", ~PassedOn(f)
            PROVE  /\ f.to = f.dst /\ f.dst \in Hosts /\ HostIface[f.dst] = i
                   /\ IsAnswer(f, offered)
        <4>1. Outbound(i, f, offered)
          BY <2>1, <3>1
        <4>2. QED
          BY <3>1, <4>1, Zenon DEF Outbound
      <3>2. QED
        BY <3>1 DEF AnswersGoHome
    <2>4. QED
      BY <2>2, <2>3
  <1>2. QED
    BY <1>1, Invariance, PTL

(***************************************************************************)
(* The router's own messages (router.c:163-258) go to the host whose       *)
(* packet they answer, on its interface, and answer a packet it sent.      *)
(***************************************************************************)
THEOREM AnswersComeHome == Spec => []AnswersGoHome
  <1>1. ForwardedWell /\ AnswersGoHome => AnswersGoHome
    OBVIOUS
  <1>2. QED
    BY <1>1, WiresCorrect, PTL

=============================================================================
