---------------------------- MODULE PubSubProofs ----------------------------
(***************************************************************************)
(* The invariants of PubSub hold for any subscribers, identifiers, topics, *)
(* lines and bounds, and PubSub implements Broker. One lemma per conjunct  *)
(* of IndInv; actions that leave its variables alone share a step.         *)
(***************************************************************************)
EXTENDS PubSubInv, SequenceTheorems, TLAPS

\* Which variables an action of one side leaves to the other.
Quiet == UNCHANGED <<online_clients, known, online, active_fds>>

(* The socket -> client map, the watched descriptors and the online flags. *)
LEMMA RegistryStep == IndInv /\ [Next]_vars => RegistryConsistent'
<1> SUFFICES ASSUME IndInv, [Next]_vars
             PROVE  RegistryConsistent'
  OBVIOUS
<1>1. CASE AdmitClient
  <2> DEFINE i == ReceivedId(peer[newsockfd])
             n == newsockfd
  <2>1. /\ i \in IdSpace
        /\ \A f \in ClientFds : online_clients[f] # i
        /\ n \in ClientFds /\ n \notin active_fds
        /\ active_fds' = active_fds \cup {n}
        /\ online_clients' = [online_clients EXCEPT ![n] = i]
        /\ known' = known \cup {i}
        /\ online' = [online EXCEPT ![i] = TRUE]
    BY <1>1 DEF AdmitClient, check_unique_id, IndInv, AwaitedIsOpen, Watch
  <2>2. i # NoId
    BY <2>1, NetworkAssumption DEF IdSpace, StrayWords, NoId
  <2>3. /\ online_clients \in [ClientFds -> IdSpace \cup {NoId}]
        /\ online \in [IdSpace -> BOOLEAN]
        /\ RegistryConsistent
    BY DEF IndInv, TypeOK, ServerTypeOK
  <2> HIDE DEF i, n
  <2>4. WatchedAreOnline'
    BY <2>1, <2>2, <2>3 DEF RegistryConsistent, WatchedAreOnline
  <2>5. OneSocketEach'
    BY <2>1, <2>2, <2>3 DEF RegistryConsistent, OneSocketEach
  <2>6. FlagsMatchMap'
    <3> SUFFICES ASSUME NEW j \in IdSpace
                 PROVE  online'[j] <=> \E f \in ClientFds : online_clients'[f] = j
      BY DEF FlagsMatchMap
    <3>1. online_clients[n] = NoId /\ NoId \notin IdSpace
      BY <2>1, <2>3, NetworkAssumption
         DEF RegistryConsistent, WatchedAreOnline, IdSpace, StrayWords, NoId
    <3>2. CASE j = i
      BY <2>1, <2>3, <3>2
    <3>3. CASE j # i
      <4>1. online'[j] = online[j]
        BY <2>1, <2>3, <3>3
      <4>2. \A f \in ClientFds : online_clients'[f] = j <=> online_clients[f] = j
        BY <2>1, <2>3, <3>1, <3>3
      <4> QED
        BY <2>3, <4>1, <4>2 DEF RegistryConsistent, FlagsMatchMap
    <3> QED
      BY <3>2, <3>3
  <2>7. OnlineAreKnown'
    BY <2>1, <2>2, <2>3 DEF RegistryConsistent, OnlineAreKnown
  <2> QED
    BY <2>4, <2>5, <2>6, <2>7 DEF RegistryConsistent
<1>2. ASSUME NEW f \in ClientFds, Disconnect(f)
      PROVE  RegistryConsistent'
  <2> DEFINE i == online_clients[f]
  <2>1. /\ online_clients \in [ClientFds -> IdSpace \cup {NoId}]
        /\ online \in [IdSpace -> BOOLEAN]
        /\ RegistryConsistent
    BY DEF IndInv, TypeOK, ServerTypeOK
  <2>2. f \in active_fds
    BY <1>2 DEF Disconnect, Turn, IndInv, ReadyStaysReady, Serving
  <2>3. i \in IdSpace /\ i # NoId
    BY <2>1, <2>2 DEF RegistryConsistent, WatchedAreOnline
  <2>4. /\ active_fds' = active_fds \ {f}
        /\ online_clients' = [online_clients EXCEPT ![f] = NoId]
        /\ known' = known
        /\ online' = [online EXCEPT ![i] = FALSE]
    BY <1>2 DEF Disconnect
  <2>5. NoId \notin IdSpace
    BY NetworkAssumption DEF IdSpace, StrayWords, NoId
  <2>6. WatchedAreOnline'
    BY <2>1, <2>3, <2>4 DEF RegistryConsistent, WatchedAreOnline
  <2>7. OneSocketEach'
    BY <2>1, <2>3, <2>4 DEF RegistryConsistent, OneSocketEach
  <2>8. FlagsMatchMap'
    BY <2>1, <2>3, <2>4, <2>5 DEF RegistryConsistent, FlagsMatchMap, OneSocketEach
  <2>9. OnlineAreKnown'
    BY <2>1, <2>3, <2>4 DEF RegistryConsistent, OnlineAreKnown
  <2> QED
    BY <2>6, <2>7, <2>8, <2>9 DEF RegistryConsistent
<1>3. CASE Quiet
  BY <1>3 DEF Quiet, IndInv, RegistryConsistent, WatchedAreOnline,
              OneSocketEach, FlagsMatchMap, OnlineAreKnown
<1>4. AdmitClient \/ (\E f \in ClientFds : Disconnect(f)) \/ Quiet
  <2> USE DEF Quiet, registry, serverVars
  <2>1. CASE ServerStep
    BY <2>1 DEF ServerStep, ClientStep, Select, AcceptConnection, AcceptFails,
                RefuseClient, AdmitDies, PublishDatagram, PublishDies,
                RefuseDatagram, HandleStdin, RecvFails, HandleCommand,
                CommandDies
  <2>2. CASE \E line \in ConsoleLines : ConsoleLine(line)
    BY <2>2 DEF ConsoleLine
  <2>3. CASE UNCHANGED serverVars
    BY <2>3
  <2> QED
    BY <2>1, <2>2, <2>3 DEF Next, vars
<1> QED
  BY <1>1, <1>2, <1>3, <1>4
-----------------------------------------------------------------------------
(* What is left of a sequence after its first k elements. *)
LEMMA Rest ==
  ASSUME NEW S, NEW s \in Seq(S), NEW k \in 1..Len(s)
  PROVE  LET r == SubSeq(s, k + 1, Len(s)) IN
         /\ r \in Seq(S)
         /\ DOMAIN r = 1..(Len(s) - k)
         /\ \A j \in DOMAIN r : j + k \in DOMAIN s /\ r[j] = s[j + k]
<1> DEFINE r == SubSeq(s, k + 1, Len(s))
<1>1. /\ Len(s) \in Nat /\ DOMAIN s = 1..Len(s) /\ k \in Int
      /\ \A j \in (k + 1)..Len(s) : s[j] \in S
  BY LenProperties, ElementOfSeq
<1>2. /\ r \in Seq(S)
      /\ Len(r) = IF k + 1 <= Len(s) THEN Len(s) - (k + 1) + 1 ELSE 0
      /\ \A j \in 1..(Len(s) - (k + 1) + 1) : r[j] = s[(k + 1) + j - 1]
  BY <1>1, SubSeqProperties
<1>3. DOMAIN r = 1..(Len(s) - k)
  BY <1>1, <1>2, LenProperties
<1>4. \A j \in DOMAIN r : j + k \in DOMAIN s /\ r[j] = s[j + k]
  BY <1>1, <1>2, <1>3
<1> QED
  BY <1>2, <1>3, <1>4

\* The server takes some of what p sent, from the front, or nothing.
Drained(p) ==
  \/ up'[p] = up[p]
  \/ \E k \in 1..Len(up[p]) : up'[p] = SubSeq(up[p], k + 1, Len(up[p]))

(***************************************************************************)
(* A step of the server only reads from the front of a connection, and     *)
(* neither closes nor opens a subscriber's end.                            *)
(***************************************************************************)
LEMMA ServerReads ==
  ASSUME IndInv, ServerStep, NEW p \in Procs
  PROVE  Drained(p) /\ (link'[p] = "open" <=> link[p] = "open")
<1> DEFINE q == peer[newsockfd]
<1>0. /\ up \in [Procs -> Seq(Ids \cup Lines)] /\ link \in [Procs -> LinkStates]
      /\ peer \in [ClientFds -> Procs \cup {NoProc}]
  BY DEF IndInv, TypeOK, NetTypeOK, ServerTypeOK
<1>1. ASSUME DrainsId(q), srv = "recvId"
      PROVE  Drained(p)
  <2>1. q \in Procs
    BY <1>0, <1>1 DEF IndInv, AwaitedIsOpen
  <2> HIDE DEF q
  <2> QED
    BY <1>0, <1>1, <2>1 DEF DrainsId, Drained
<1>2. ASSUME NEW z \in {link[q], LinkAfter(q)}, link' = [link EXCEPT ![q] = z]
      PROVE  link'[p] = "open" <=> link[p] = "open"
  BY <1>0, <1>2 DEF LinkAfter
<1>3. CASE RefuseClient
  BY <1>1, <1>2, <1>3 DEF RefuseClient
<1>4. CASE AdmitClient
  BY <1>1, <1>2, <1>4 DEF AdmitClient
<1>5. ASSUME NEW m, NEW cut, Broadcast(m, cut)
      PROVE  link'[p] = "open" <=> link[p] = "open"
  BY <1>0, <1>5 DEF Broadcast, LinkAfter
<1>6. CASE PublishDatagram
  BY <1>5, <1>6 DEF PublishDatagram, Drained
<1>7. CASE PublishDies
  BY <1>5, <1>7 DEF PublishDies, Drained
<1>8. ASSUME NEW f \in ClientFds, HandleCommand(f)
      PROVE  Drained(p) /\ (link'[p] = "open" <=> link[p] = "open")
  BY <1>0, <1>8 DEF HandleCommand, Drained
<1>9. CASE UNCHANGED <<up, link>>
  BY <1>9 DEF Drained
<1>10. \/ RefuseClient \/ AdmitClient \/ PublishDatagram \/ PublishDies
       \/ \E f \in ClientFds : HandleCommand(f)
       \/ UNCHANGED <<up, link>>
  BY DEF ServerStep, ClientStep, Select, AcceptConnection, AcceptFails,
         AdmitDies, RefuseDatagram, HandleStdin, RecvFails, CommandDies,
         Disconnect, netVars
<1> QED
  BY <1>3, <1>4, <1>6, <1>7, <1>8, <1>9, <1>10

(* Subscribers send their identifier first, and nothing once they closed. *)
LEMMA SubscriberShapeStep == IndInv /\ [Next]_vars => SubscriberShape'
<1> SUFFICES ASSUME IndInv, [Next]_vars, NEW p \in Procs
             PROVE  /\ stage'[p] \in {"new", "connected"} => up'[p] = <<>>
                    /\ \A k \in DOMAIN up'[p] : k > 1 => up'[p][k] \in Lines
                    /\ link'[p] # "open" => stage'[p] = "gone"
  BY DEF SubscriberShape
<1> DEFINE Shape(s, u, l) ==
      /\ s \in {"new", "connected"} => u = <<>>
      /\ \A k \in DOMAIN u : k > 1 => u[k] \in Lines
      /\ l # "open" => s = "gone"
<1>0. /\ up \in [Procs -> Seq(Ids \cup Lines)] /\ link \in [Procs -> LinkStates]
      /\ stage \in [Procs -> {"new", "connected", "running", "gone"}]
      /\ id \in [Procs -> Ids \cup {NoId}]
      /\ Shape(stage[p], up[p], link[p])
  BY DEF IndInv, TypeOK, NetTypeOK, SubscriberTypeOK, SubscriberShape
<1>1. CASE ServerStep /\ UNCHANGED subscriberVars
  <2>1. stage'[p] = stage[p] /\ (link'[p] = "open" <=> link[p] = "open")
    BY <1>1, ServerReads DEF subscriberVars
  <2>2. CASE up'[p] = up[p]
    BY <1>0, <2>1, <2>2
  <2>3. ASSUME NEW k \in 1..Len(up[p]), up'[p] = SubSeq(up[p], k + 1, Len(up[p]))
        PROVE  Shape(stage'[p], up'[p], link'[p])
    <3>1. up[p] \in Seq(Ids \cup Lines) /\ Len(up[p]) \in Nat
      BY <1>0, LenProperties
    <3>2. /\ DOMAIN up'[p] = 1..(Len(up[p]) - k)
          /\ \A j \in DOMAIN up'[p] :
               j + k \in DOMAIN up[p] /\ up'[p][j] = up[p][j + k]
      BY <2>3, <3>1, Rest
    <3>3. up[p] # <<>>
      BY <3>1
    <3>4. \A j \in DOMAIN up'[p] : j + k > 1
      BY <3>1, <3>2
    <3> QED
      BY <1>0, <2>1, <3>2, <3>3, <3>4
  <2> QED
    BY <1>1, <2>2, <2>3, ServerReads DEF Drained
<1>2. ASSUME NEW q \in Procs, SubscriberStep(q)
      PROVE  Shape(stage'[p], up'[p], link'[p])
  <2>1. ASSUME NEW i \in Ids, Connect(q, i)
        PROVE  Shape(stage'[p], up'[p], link'[p])
    BY <1>0, <2>1 DEF Connect
  <2>2. CASE SendId(q)
    <3>1. CASE q = p
      <4>1. up[p] = <<>> /\ link[p] = "open"
        BY <1>0, <2>2, <3>1 DEF SendId
      <4>2. up'[p] = <<id[p]>> /\ stage'[p] = "running" /\ link'[p] = "open"
        BY <1>0, <2>2, <3>1, <4>1 DEF SendId
      <4> QED
        BY <4>2
    <3>2. CASE q # p
      BY <1>0, <2>2, <3>2 DEF SendId
    <3> QED
      BY <3>1, <3>2
  <2>3. CASE KilledEarly(q)
    BY <1>0, <2>3 DEF KilledEarly
  <2>4. ASSUME NEW line \in Lines, TypeLine(q, line)
        PROVE  Shape(stage'[p], up'[p], link'[p])
    <3>1. CASE q = p
      <4>1. /\ up[p] \in Seq(Ids \cup Lines) /\ line \in Ids \cup Lines
            /\ stage[p] = "running" /\ stage'[p] = "running" /\ link'[p] = link[p]
            /\ up'[p] = Append(up[p], line)
        BY <1>0, <2>4, <3>1 DEF TypeLine
      <4>2. \A k \in DOMAIN up'[p] : \/ k \in DOMAIN up[p] /\ up'[p][k] = up[p][k]
                                    \/ up'[p][k] = line
        BY <4>1, AppendProperties, LenProperties
      <4> QED
        BY <1>0, <4>1, <4>2
    <3>2. CASE q # p
      BY <1>0, <2>4, <3>2 DEF TypeLine
    <3> QED
      BY <3>1, <3>2
  <2>5. CASE Exit(q)
    BY <1>0, <2>5 DEF Exit
  <2>6. CASE Receive(q)
    BY <1>0, <2>6 DEF Receive, MessageWaits
  <2>7. CASE EndOfStream(q)
    BY <1>0, <2>7 DEF EndOfStream
  <2> QED
    BY <1>2, <2>1, <2>2, <2>3, <2>4, <2>5, <2>6, <2>7 DEF SubscriberStep
<1>3. CASE UNCHANGED <<up, link, stage>>
  BY <1>0, <1>3
<1>4. \/ ServerStep /\ UNCHANGED subscriberVars
      \/ \E q \in Procs : SubscriberStep(q)
      \/ UNCHANGED <<up, link, stage>>
  BY DEF Next, vars, ConsoleLine, Publish, DatagramArrives, netVars,
         subscriberVars
<1> QED
  BY <1>1, <1>2, <1>3, <1>4
-----------------------------------------------------------------------------
(* What an action of a subscriber does to its own stage, output and end. *)
LEMMA SubscriberActs ==
  ASSUME IndInv, NEW q \in Procs, SubscriberStep(q)
  PROVE  /\ \A p \in Procs \ {q} : stage'[p] = stage[p] /\ up'[p] = up[p]
                                    /\ link'[p] = link[p]
         /\ stage'[q] # "new"
         /\ stage[q] \in {"running", "gone"} => stage'[q] \in {"running", "gone"}
         /\ \/ up'[q] = up[q]
            \/ stage[q] = "connected" /\ up'[q] = Append(up[q], id[q])
            \/ \E line \in Lines : up'[q] = Append(up[q], line)
         /\ link'[q] = "open" => link[q] = "open"
<1>0. /\ up \in [Procs -> Seq(Ids \cup Lines)] /\ link \in [Procs -> LinkStates]
      /\ stage \in [Procs -> {"new", "connected", "running", "gone"}]
  BY DEF IndInv, TypeOK, NetTypeOK, SubscriberTypeOK
<1>1. CASE \E i \in Ids : Connect(q, i)
  BY <1>0, <1>1 DEF Connect
<1>2. CASE SendId(q)
  BY <1>0, <1>2 DEF SendId
<1>3. CASE KilledEarly(q)
  BY <1>0, <1>3 DEF KilledEarly
<1>4. CASE \E line \in Lines : TypeLine(q, line)
  BY <1>0, <1>4 DEF TypeLine
<1>5. CASE Exit(q)
  BY <1>0, <1>5 DEF Exit
<1>6. CASE Receive(q)
  BY <1>0, <1>6 DEF Receive, MessageWaits
<1>7. CASE EndOfStream(q)
  BY <1>0, <1>7 DEF EndOfStream
<1> QED
  BY <1>1, <1>2, <1>3, <1>4, <1>5, <1>6, <1>7 DEF SubscriberStep

(* What select() reported is there when its turn comes. *)
LEMMA Turns ==
  ASSUME IndInv
  PROVE  /\ \A f : Turn(f) => f \in active_fds /\ IsReady(f)
         /\ Turn(TCP) => backlog # <<>>
         /\ Turn(UDP) => udp_queue # <<>>
<1>1. \A f : Turn(f) => f \in active_fds /\ IsReady(f)
  BY DEF Turn, IndInv, ReadyStaysReady, Serving
<1>2. IsReady(TCP) => backlog # <<>>
  BY ServerAssumption DEF IsReady, TCP, STDIN, UDP, ClientFds
<1>3. IsReady(UDP) => udp_queue # <<>>
  BY ServerAssumption DEF IsReady, TCP, STDIN, UDP, ClientFds
<1> QED
  BY <1>1, <1>2, <1>3

(* A run of ./subscriber is in the backlog once, or behind one descriptor. *)
LEMMA OnePlaceStep == IndInv /\ [Next]_vars => OnePlaceEach'
<1> SUFFICES ASSUME IndInv, [Next]_vars
             PROVE  OnePlaceEach'
  OBVIOUS
<1>0. /\ backlog \in Seq(Procs) /\ peer \in [ClientFds -> Procs \cup {NoProc}]
      /\ stage \in [Procs -> {"new", "connected", "running", "gone"}]
      /\ DOMAIN backlog = 1..Len(backlog) /\ Len(backlog) \in Nat
      /\ NoProc \notin Procs
      /\ OnePlaceEach
  BY LenProperties, ServerAssumption
     DEF IndInv, TypeOK, NetTypeOK, ServerTypeOK, SubscriberTypeOK
<1>1. CASE AcceptConnection /\ UNCHANGED subscriberVars
  <2>1. PICK f \in FreeFds : peer' = [peer EXCEPT ![f] = Head(backlog)]
    BY <1>1 DEF AcceptConnection
  <2>2. backlog # <<>>
    BY <1>1, Turns DEF AcceptConnection
  <2>3. /\ backlog' = Tail(backlog) /\ stage' = stage
        /\ f \in ClientFds /\ peer[f] = NoProc
    BY <1>1, <2>1 DEF AcceptConnection, subscriberVars, FreeFds
  <2>4. /\ Head(backlog) = backlog[1] /\ 1 \in DOMAIN backlog
        /\ DOMAIN Tail(backlog) = 1..(Len(backlog) - 1)
        /\ \A a \in DOMAIN Tail(backlog) :
             a + 1 \in DOMAIN backlog /\ Tail(backlog)[a] = backlog[a + 1]
    <3>1. Len(backlog) >= 1
      BY <1>0, <2>2, EmptySeq
    <3>2. /\ Tail(backlog) \in Seq(Procs) /\ Len(Tail(backlog)) = Len(backlog) - 1
          /\ \A a \in 1..Len(Tail(backlog)) : Tail(backlog)[a] = backlog[a + 1]
      BY <1>0, <2>2, HeadTailProperties
    <3>3. DOMAIN Tail(backlog) = 1..Len(Tail(backlog))
      BY <3>2, LenProperties
    <3> QED
      BY <1>0, <3>1, <3>2, <3>3
  <2>5. backlog[1] \in Procs
    BY <1>0, <2>4, ElementOfSeq
  <2>6. \A a \in DOMAIN backlog' :
          /\ a \in Int /\ a + 1 \in DOMAIN backlog /\ a + 1 # 1
          /\ backlog'[a] = backlog[a + 1]
    BY <2>3, <2>4
  <2>7. \A g \in ClientFds : peer'[g] = IF g = f THEN backlog[1] ELSE peer[g]
    BY <1>0, <2>1, <2>3, <2>4
  <2>8. \A a, b \in DOMAIN backlog' : backlog'[a] = backlog'[b] => a = b
    BY <1>0, <2>6 DEF OnePlaceEach
  <2>9. \A a \in DOMAIN backlog' : stage'[backlog'[a]] # "new"
    BY <1>0, <2>3, <2>6 DEF OnePlaceEach
  <2>10. \A a \in DOMAIN backlog', g \in ClientFds : peer'[g] # backlog'[a]
    BY <1>0, <2>4, <2>6, <2>7 DEF OnePlaceEach
  <2>11. \A g \in ClientFds : peer'[g] # NoProc => stage'[peer'[g]] # "new"
    BY <1>0, <2>3, <2>4, <2>7 DEF OnePlaceEach
  <2>12. \A g, h \in ClientFds : peer'[g] # NoProc /\ peer'[g] = peer'[h] => g = h
    BY <1>0, <2>4, <2>7 DEF OnePlaceEach
  <2> QED
    BY <2>8, <2>9, <2>10, <2>11, <2>12 DEF OnePlaceEach
<1>2. ASSUME NEW f \in ClientFds, Disconnect(f), UNCHANGED subscriberVars
      PROVE  OnePlaceEach'
  <2>1. /\ backlog' = backlog /\ stage' = stage
        /\ peer' = [peer EXCEPT ![f] = NoProc]
    BY <1>2 DEF Disconnect, Close, netVars, subscriberVars
  <2>2. \A a \in DOMAIN backlog : backlog[a] \in Procs
    BY <1>0, ElementOfSeq
  <2> QED
    BY <1>0, <2>1, <2>2 DEF OnePlaceEach
<1>3. ASSUME NEW q \in Procs, NEW i \in Ids, Connect(q, i), UNCHANGED serverVars
      PROVE  OnePlaceEach'
  <2>1. /\ backlog' = Append(backlog, q) /\ peer' = peer
        /\ stage[q] = "new" /\ stage' = [stage EXCEPT ![q] = "connected"]
    BY <1>3 DEF Connect, serverVars
  <2>2. /\ DOMAIN backlog' = 1..(Len(backlog) + 1)
        /\ backlog'[Len(backlog) + 1] = q
        /\ \A a \in DOMAIN backlog : backlog'[a] = backlog[a]
    BY <1>0, <2>1, AppendProperties, LenProperties
  <2>3. \A a \in DOMAIN backlog :
          backlog[a] \in Procs /\ backlog[a] # q /\ stage[backlog[a]] # "new"
    BY <1>0, <2>1, ElementOfSeq DEF OnePlaceEach
  <2>4. \A f \in ClientFds : peer[f] # q
    BY <1>0, <2>1 DEF OnePlaceEach
  <2>5. \A a \in DOMAIN backlog' : \/ a \in DOMAIN backlog /\ backlog'[a] = backlog[a]
                                   \/ a = Len(backlog) + 1 /\ backlog'[a] = q
    BY <1>0, <2>2
  <2>6. \A a, b \in DOMAIN backlog' : backlog'[a] = backlog'[b] => a = b
    BY <1>0, <2>3, <2>5 DEF OnePlaceEach
  <2>7. \A a \in DOMAIN backlog' : stage'[backlog'[a]] # "new"
    BY <1>0, <2>1, <2>3, <2>5
  <2>8. \A a \in DOMAIN backlog', f \in ClientFds : peer'[f] # backlog'[a]
    BY <1>0, <2>1, <2>4, <2>5 DEF OnePlaceEach
  <2>9. \A f \in ClientFds : peer'[f] # NoProc => stage'[peer'[f]] # "new"
    BY <1>0, <2>1, <2>4 DEF OnePlaceEach
  <2> QED
    BY <1>0, <2>1, <2>6, <2>7, <2>8, <2>9 DEF OnePlaceEach
<1>4. ASSUME UNCHANGED <<backlog, peer>>,
             \A p \in Procs : stage'[p] = "new" => stage[p] = "new"
      PROVE  OnePlaceEach'
  <2>1. \A a \in DOMAIN backlog : backlog[a] \in Procs
    BY <1>0, ElementOfSeq
  <2> QED
    BY <1>0, <1>4, <2>1 DEF OnePlaceEach
<1>5. CASE ServerStep /\ UNCHANGED subscriberVars
  <2>1. \/ AcceptConnection
        \/ \E f \in ClientFds : Disconnect(f)
        \/ UNCHANGED <<backlog, peer>>
    BY <1>5 DEF ServerStep, ClientStep, Select, AcceptFails, RefuseClient,
                AdmitClient, AdmitDies, PublishDatagram, PublishDies,
                RefuseDatagram, HandleStdin, RecvFails, HandleCommand,
                CommandDies, netVars
  <2> QED
    BY <1>1, <1>2, <1>4, <1>5, <2>1 DEF subscriberVars
<1>6. ASSUME NEW q \in Procs, SubscriberStep(q), UNCHANGED serverVars
      PROVE  OnePlaceEach'
  <2>1. \A p \in Procs : stage'[p] = "new" => stage[p] = "new"
    BY <1>6, SubscriberActs
  <2>2. \/ \E i \in Ids : Connect(q, i)
        \/ UNCHANGED <<backlog, peer>>
    BY <1>6 DEF SubscriberStep, SendId, KilledEarly, TypeLine, Exit, Receive,
                EndOfStream, serverVars
  <2> QED
    BY <1>3, <1>4, <1>6, <2>1, <2>2
<1>7. CASE UNCHANGED <<backlog, peer, stage>>
  BY <1>4, <1>7
<1> QED
  BY <1>5, <1>6, <1>7 DEF Next, vars, ConsoleLine, Publish, DatagramArrives,
                          netVars, serverVars, subscriberVars
-----------------------------------------------------------------------------
(* Who is read for an identifier, and what remains of what it sent. *)
LEMMA IdentifierRead ==
  ASSUME IndInv, srv = "recvId", DrainsId(peer[newsockfd])
  PROVE  /\ peer[newsockfd] \in Procs
         /\ \A k \in DOMAIN up'[peer[newsockfd]] : up'[peer[newsockfd]][k] \in Lines
         /\ stage[peer[newsockfd]] \in {"running", "gone"}
<1> DEFINE q == peer[newsockfd]
<1>1. q \in Procs
  BY DEF IndInv, AwaitedIsOpen, TypeOK, ServerTypeOK
<1>2. /\ up \in [Procs -> Seq(Ids \cup Lines)]
      /\ stage \in [Procs -> {"new", "connected", "running", "gone"}]
      /\ stage[q] \in {"new", "connected"} => up[q] = <<>>
      /\ \A k \in DOMAIN up[q] : k > 1 => up[q][k] \in Lines
      /\ link[q] # "open" => stage[q] = "gone"
  BY <1>1 DEF IndInv, TypeOK, NetTypeOK, SubscriberTypeOK, SubscriberShape
<1>3. CASE up[q] = <<>> /\ link[q] # "open" /\ UNCHANGED up
  BY <1>1, <1>2, <1>3
<1>4. ASSUME NEW k \in 1..Len(up[q]),
             up' = [up EXCEPT ![q] = SubSeq(up[q], k + 1, Len(up[q]))]
      PROVE  /\ \A j \in DOMAIN up'[q] : up'[q][j] \in Lines
             /\ stage[q] \in {"running", "gone"}
  <2>1. up[q] \in Seq(Ids \cup Lines) /\ Len(up[q]) \in Nat
    BY <1>1, <1>2, LenProperties
  <2>2. up'[q] = SubSeq(up[q], k + 1, Len(up[q]))
    BY <1>1, <1>2, <1>4
  <2>3. /\ DOMAIN up'[q] = 1..(Len(up[q]) - k)
        /\ \A j \in DOMAIN up'[q] : j + k \in DOMAIN up[q] /\ up'[q][j] = up[q][j + k]
    BY <2>1, <2>2, Rest
  <2>4. \A j \in DOMAIN up'[q] : j + k > 1
    BY <2>1, <2>3
  <2>5. up[q] # <<>>
    BY <2>1
  <2> QED
    BY <1>1, <1>2, <2>3, <2>4, <2>5
<1> QED
  BY <1>1, <1>3, <1>4 DEF DrainsId

(* A step of the server keeps lines as lines. *)
LEMMA LinesStayLines ==
  ASSUME IndInv, ServerStep, NEW p \in Procs,
         \A k \in DOMAIN up[p] : up[p][k] \in Lines
  PROVE  \A k \in DOMAIN up'[p] : up'[p][k] \in Lines
<1>1. up[p] \in Seq(Ids \cup Lines)
  BY DEF IndInv, TypeOK, NetTypeOK
<1>2. Drained(p)
  BY ServerReads
<1>3. ASSUME NEW k \in 1..Len(up[p]), up'[p] = SubSeq(up[p], k + 1, Len(up[p]))
      PROVE  \A j \in DOMAIN up'[p] : up'[p][j] \in Lines
  BY <1>1, <1>3, Rest
<1> QED
  BY <1>2, <1>3 DEF Drained

(* A watched descriptor is open and carries lines only. *)
LEMMA WatchedOpenStep == IndInv /\ [Next]_vars => WatchedAreOpen'
<1> DEFINE Sound(f) ==
      /\ peer'[f] # NoProc
      /\ \A k \in DOMAIN up'[peer'[f]] : up'[peer'[f]][k] \in Lines
      /\ stage'[peer'[f]] \in {"running", "gone"}
<1> SUFFICES ASSUME IndInv, [Next]_vars, NEW f \in ClientFds, f \in active_fds'
             PROVE  Sound(f)
  BY DEF WatchedAreOpen
<1>0. /\ peer \in [ClientFds -> Procs \cup {NoProc}] /\ NoProc \notin Procs
      /\ up \in [Procs -> Seq(Ids \cup Lines)]
      /\ f \in active_fds =>
           /\ peer[f] \in Procs
           /\ \A k \in DOMAIN up[peer[f]] : up[peer[f]][k] \in Lines
           /\ stage[peer[f]] \in {"running", "gone"}
  BY ServerAssumption
     DEF IndInv, TypeOK, NetTypeOK, ServerTypeOK, WatchedAreOpen
<1>1. ASSUME ServerStep, UNCHANGED subscriberVars, f \in active_fds,
             peer'[f] = peer[f]
      PROVE  Sound(f)
  BY <1>0, <1>1, LinesStayLines DEF subscriberVars
<1>2. CASE AdmitClient /\ UNCHANGED subscriberVars
  <2>1. /\ active_fds' = active_fds \cup {newsockfd} /\ peer' = peer
        /\ srv = "recvId" /\ DrainsId(peer[newsockfd]) /\ stage' = stage
    BY <1>2 DEF AdmitClient, Watch, subscriberVars
  <2>2. CASE f = newsockfd
    BY <1>0, <2>1, <2>2, IdentifierRead
  <2>3. CASE f # newsockfd
    BY <1>1, <1>2, <2>1, <2>3 DEF ServerStep
  <2> QED
    BY <2>2, <2>3
<1>3. CASE ServerStep /\ ~AdmitClient /\ UNCHANGED subscriberVars
  <2>1. CASE AcceptConnection
    <3>1. PICK g \in FreeFds : peer' = [peer EXCEPT ![g] = Head(backlog)]
      BY <2>1 DEF AcceptConnection
    <3>2. active_fds' = active_fds
      BY <2>1 DEF AcceptConnection
    <3>3. g # f
      BY <1>0, <3>2 DEF FreeFds
    <3> QED
      BY <1>0, <1>1, <1>3, <3>1, <3>2, <3>3
  <2>2. ASSUME NEW g \in ClientFds, Disconnect(g)
        PROVE  Sound(f)
    <3>1. f \in active_fds /\ f # g
      BY <2>2 DEF Disconnect
    <3>2. peer'[f] = peer[f]
      BY <1>0, <2>2, <3>1 DEF Disconnect, Close
    <3> QED
      BY <1>1, <1>3, <3>1, <3>2
  <2>3. CASE UNCHANGED <<peer, active_fds>>
    BY <1>1, <1>3, <2>3
  <2> QED
    BY <1>3, <2>1, <2>2, <2>3
       DEF ServerStep, ClientStep, Select, AcceptFails, RefuseClient, AdmitDies,
           PublishDatagram, PublishDies, RefuseDatagram, HandleStdin, RecvFails,
           HandleCommand, CommandDies
<1>4. ASSUME NEW q \in Procs, SubscriberStep(q), UNCHANGED serverVars
      PROVE  Sound(f)
  <2>1. peer' = peer /\ f \in active_fds
    BY <1>4 DEF serverVars
  <2>2. CASE peer[f] # q
    BY <1>0, <1>4, <2>1, <2>2, SubscriberActs
  <2>3. CASE peer[f] = q
    <3>1. up[q] \in Seq(Ids \cup Lines)
      BY <1>0
    <3>2. ASSUME NEW line \in Lines, up'[q] = Append(up[q], line)
          PROVE  \A k \in DOMAIN up'[q] : up'[q][k] \in Lines
      <4>1. \A k \in DOMAIN up'[q] : \/ k \in DOMAIN up[q] /\ up'[q][k] = up[q][k]
                                    \/ up'[q][k] = line
        BY <3>1, <3>2, AppendProperties, LenProperties
      <4> QED
        BY <1>0, <2>1, <2>3, <3>2, <4>1
    <3>3. stage[q] # "connected" /\ stage'[q] \in {"running", "gone"}
      BY <1>0, <1>4, <2>1, <2>3, SubscriberActs
    <3> QED
      BY <1>0, <1>4, <2>1, <2>3, <3>2, <3>3, SubscriberActs
  <2> QED
    BY <2>2, <2>3
<1>5. CASE UNCHANGED <<peer, active_fds, up, stage>>
  BY <1>0, <1>5
<1> QED
  BY <1>2, <1>3, <1>4, <1>5
     DEF Next, vars, ConsoleLine, Publish, DatagramArrives, netVars, serverVars,
         subscriberVars

(* The descriptor whose identifier is awaited stays open and unwatched. *)
LEMMA AwaitedStep == IndInv /\ [Next]_vars => AwaitedIsOpen'
<1> SUFFICES ASSUME IndInv, [Next]_vars, srv' = "recvId"
             PROVE  /\ newsockfd' \in ClientFds
                    /\ newsockfd' \notin active_fds'
                    /\ peer'[newsockfd'] # NoProc
  BY DEF AwaitedIsOpen
<1>1. CASE AcceptConnection
  <2>1. PICK g \in FreeFds : /\ peer' = [peer EXCEPT ![g] = Head(backlog)]
                             /\ newsockfd' = g
    BY <1>1 DEF AcceptConnection
  <2>2. Head(backlog) \in Procs
    BY <1>1, Turns, HeadTailProperties
       DEF AcceptConnection, IndInv, TypeOK, NetTypeOK
  <2>3. /\ g \in ClientFds /\ peer[g] = NoProc /\ active_fds' = active_fds
        /\ peer \in [ClientFds -> Procs \cup {NoProc}]
    BY <1>1, <2>1 DEF FreeFds, AcceptConnection, IndInv, TypeOK, ServerTypeOK
  <2> QED
    BY <2>1, <2>2, <2>3, ServerAssumption DEF IndInv, WatchedAreOpen
<1>2. CASE UNCHANGED <<srv, newsockfd, active_fds, peer>>
  BY <1>2 DEF IndInv, AwaitedIsOpen
<1>3. CASE ServerStep
  BY <1>1, <1>2, <1>3
     DEF ServerStep, ClientStep, Select, AcceptFails, RefuseClient, AdmitClient,
         AdmitDies, PublishDatagram, PublishDies, RefuseDatagram, HandleStdin,
         Disconnect, RecvFails, HandleCommand, CommandDies, Turn
<1> QED
  BY <1>2, <1>3 DEF Next, vars, ConsoleLine, serverVars
-----------------------------------------------------------------------------
(* The descriptors of the server itself are not those of its clients. *)
LEMMA OwnFds ==
  /\ STDIN \notin ClientFds /\ TCP \notin ClientFds /\ UDP \notin ClientFds
  /\ STDIN # TCP /\ STDIN # UDP /\ TCP # UDP
<1>1. MaxFd \in Int
  BY ServerAssumption
<1>2. \A f \in ClientFds : f >= 5
  BY <1>1 DEF ClientFds
<1> QED
  BY <1>2 DEF STDIN, TCP, UDP

(* What keeps a descriptor ready. *)
LEMMA StillReady ==
  ASSUME IndInv, Serving, NEW f \in tmp_fds,
         f = STDIN => console' # "",
         f = TCP => backlog' # <<>>,
         f = UDP => udp_queue' # <<>>,
         f \in ClientFds =>
           /\ peer'[f] = peer[f]
           /\ up[peer[f]] # <<>> => up'[peer[f]] # <<>>
           /\ link'[peer[f]] = "open" => link[peer[f]] = "open"
  PROVE  IsReady(f)'
<1>1. IsReady(f)
  BY DEF IndInv, ReadyStaysReady
<1>2. /\ STDIN \notin ClientFds /\ TCP \notin ClientFds /\ UDP \notin ClientFds
  BY OwnFds
<1>3. CASE f \in ClientFds
  BY <1>1, <1>2, <1>3 DEF IsReady, Readable
<1>4. CASE f \notin ClientFds
  BY <1>1, <1>4 DEF IsReady
<1> QED
  BY <1>3, <1>4

(* A reported descriptor stays open and ready until its turn. *)
LEMMA ReadyStep == IndInv /\ [Next]_vars => ReadyStaysReady'
<1> SUFFICES ASSUME IndInv, [Next]_vars, Serving', NEW f \in tmp_fds'
             PROVE  f \in active_fds' /\ IsReady(f)'
  BY DEF ReadyStaysReady
<1>0. /\ peer \in [ClientFds -> Procs \cup {NoProc}] /\ NoProc \notin Procs
      /\ up \in [Procs -> Seq(Ids \cup Lines)] /\ link \in [Procs -> LinkStates]
      /\ Serving => \A g \in tmp_fds : g \in active_fds /\ IsReady(g)
      /\ \A g \in ClientFds : g \in active_fds => peer[g] \in Procs
      /\ STDIN \notin ClientFds /\ TCP \notin ClientFds /\ UDP \notin ClientFds
      /\ STDIN # TCP /\ STDIN # UDP /\ TCP # UDP
  BY ServerAssumption, OwnFds
     DEF IndInv, TypeOK, NetTypeOK, ServerTypeOK, ReadyStaysReady,
         WatchedAreOpen
<1>1. ASSUME Serving, f \in tmp_fds
      PROVE  /\ f = STDIN => console # ""
             /\ f = TCP => backlog # <<>>
             /\ f = UDP => udp_queue # <<>>
  BY <1>0, <1>1 DEF IsReady
<1>2. CASE ServerStep /\ UNCHANGED subscriberVars
  <2>1. \A p \in Procs : link'[p] = "open" => link[p] = "open"
    BY <1>2, ServerReads
  <2>2. CASE Select
    BY <2>2 DEF Select, Reported, IsReady, Readable, netVars
  <2>3. CASE AcceptConnection
    <3>1. PICK g \in FreeFds : peer' = [peer EXCEPT ![g] = Head(backlog)]
      BY <2>3 DEF AcceptConnection
    <3>2. /\ Serving /\ f \in tmp_fds /\ f # TCP /\ f \in active_fds
          /\ UNCHANGED <<active_fds, console, udp_queue, up, link>>
      BY <1>0, <2>3 DEF AcceptConnection, Turn, Serving
    <3>3. f \in ClientFds => peer'[f] = peer[f]
      BY <1>0, <3>1, <3>2 DEF FreeFds
    <3> QED
      BY <1>1, <3>2, <3>3, StillReady
  <2>4. ASSUME srv = "recvId", DrainsId(peer[newsockfd]),
               active_fds \subseteq active_fds',
               UNCHANGED <<tmp_fds, console, backlog, udp_queue, peer>>
        PROVE  f \in active_fds' /\ IsReady(f)'
    <3>1. Serving /\ f \in tmp_fds /\ f \in active_fds
      BY <1>0, <2>4 DEF Serving
    <3>2. ASSUME f \in ClientFds
          PROVE  peer[f] \in Procs /\ peer[f] # peer[newsockfd]
      BY <1>0, <2>4, <3>1, <3>2 DEF IndInv, AwaitedIsOpen, OnePlaceEach
    <3>3. f \in ClientFds => up'[peer[f]] = up[peer[f]]
      BY <1>0, <2>4, <3>2 DEF DrainsId
    <3> QED
      BY <1>1, <2>1, <2>4, <3>1, <3>2, <3>3, StillReady
  <2>5. CASE RefuseClient
    BY <2>4, <2>5 DEF RefuseClient
  <2>6. CASE AdmitClient
    BY <2>4, <2>6 DEF AdmitClient, Watch
  <2>7. CASE PublishDatagram \/ RefuseDatagram
    <3>1. /\ Serving /\ f \in tmp_fds /\ f # UDP /\ f \in active_fds
          /\ UNCHANGED <<active_fds, console, backlog, up, peer>>
      BY <1>0, <2>7 DEF PublishDatagram, RefuseDatagram, Turn, Serving
    <3> QED
      BY <1>0, <1>1, <2>1, <3>1, StillReady
  <2>8. CASE HandleStdin
    <3>1. /\ Serving /\ f \in tmp_fds /\ f # STDIN /\ f \in active_fds
          /\ UNCHANGED <<active_fds, backlog, udp_queue, up, link, peer>>
      BY <1>0, <2>8 DEF HandleStdin, Turn, Serving, netVars
    <3> QED
      BY <1>1, <3>1, StillReady
  <2>9. ASSUME NEW g \in ClientFds, Disconnect(g)
        PROVE  f \in active_fds' /\ IsReady(f)'
    <3>1. /\ Serving /\ f \in tmp_fds /\ f # g /\ f \in active_fds
          /\ active_fds' = active_fds \ {g}
          /\ peer' = [peer EXCEPT ![g] = NoProc]
          /\ UNCHANGED <<console, backlog, udp_queue, up, link>>
      BY <1>0, <2>9 DEF Disconnect, Close, Turn, Serving, netVars
    <3> QED
      BY <1>0, <1>1, <3>1, StillReady
  <2>10. ASSUME NEW g \in ClientFds, HandleCommand(g)
         PROVE  f \in active_fds' /\ IsReady(f)'
    <3>1. /\ Serving /\ f \in tmp_fds /\ f # g /\ f \in active_fds
          /\ g \in active_fds
          /\ UNCHANGED <<active_fds, peer, console, backlog, udp_queue, link>>
      BY <1>0, <2>10, Turns DEF HandleCommand, Turn, Serving
    <3>2. f \in ClientFds => peer[f] \in Procs /\ peer[f] # peer[g]
      BY <1>0, <3>1 DEF IndInv, OnePlaceEach
    <3>3. PICK k \in 1..Len(up[peer[g]]) :
            up' = [up EXCEPT ![peer[g]] = SubSeq(up[peer[g]], k + 1, Len(up[peer[g]]))]
      BY <2>10 DEF HandleCommand
    <3>4. f \in ClientFds => up'[peer[f]] = up[peer[f]]
      BY <1>0, <3>2, <3>3
    <3> QED
      BY <1>1, <3>1, <3>4, StillReady
  <2> QED
    BY <1>2, <2>2, <2>3, <2>5, <2>6, <2>7, <2>8, <2>9, <2>10
       DEF ServerStep, ClientStep, AcceptFails, AdmitDies, PublishDies,
           RecvFails, CommandDies, Serving
<1>3. ASSUME NEW line \in ConsoleLines, ConsoleLine(line)
      PROVE  f \in active_fds' /\ IsReady(f)'
  <2>1. /\ Serving /\ f \in tmp_fds /\ f \in active_fds /\ console' # ""
        /\ UNCHANGED <<active_fds, peer, backlog, udp_queue, up, link>>
    BY <1>0, <1>3, PubSubAssumption DEF ConsoleLine, Serving, netVars
  <2> QED
    BY <1>1, <2>1, StillReady
<1>4. ASSUME NEW q \in Procs, SubscriberStep(q), UNCHANGED serverVars
      PROVE  f \in active_fds' /\ IsReady(f)'
  <2>1. /\ Serving /\ f \in tmp_fds /\ f \in active_fds
        /\ UNCHANGED <<active_fds, peer, console>>
    BY <1>0, <1>4 DEF serverVars, Serving
  <2>2. /\ \A p \in Procs : link'[p] = "open" => link[p] = "open"
        /\ \A p \in Procs : up[p] # <<>> => up'[p] # <<>>
    <3>1. ASSUME NEW e, up'[q] = Append(up[q], e)
          PROVE  up'[q] # <<>>
      <4>1. up[q] \in Seq(Ids \cup Lines \cup {e})
        BY <1>0, SeqMonotonic
      <4>2. Len(up'[q]) = Len(up[q]) + 1 /\ Len(up[q]) \in Nat
        BY <3>1, <4>1, AppendProperties, LenProperties
      <4> QED
        BY <4>2, EmptySeq
    <3> QED
      BY <1>4, <3>1, SubscriberActs
  <2>3. \/ \E i \in Ids : Connect(q, i)
        \/ UNCHANGED backlog
    BY <1>4 DEF SubscriberStep, SendId, KilledEarly, TypeLine, Exit, Receive,
                EndOfStream
  <2>4. udp_queue' = udp_queue
    BY <1>4 DEF SubscriberStep, Connect, SendId, KilledEarly, TypeLine, Exit,
                Receive, EndOfStream
  <2>5. backlog # <<>> => backlog' # <<>>
    <3>1. ASSUME NEW i \in Ids, Connect(q, i)
          PROVE  backlog' # <<>>
      <4>1. backlog' = Append(backlog, q) /\ backlog \in Seq(Procs)
        BY <3>1 DEF Connect, IndInv, TypeOK, NetTypeOK
      <4>2. Len(backlog') = Len(backlog) + 1 /\ Len(backlog) \in Nat
        BY <4>1, AppendProperties, LenProperties
      <4> QED
        BY <4>2, EmptySeq
    <3> QED
      BY <2>3, <3>1
  <2> QED
    BY <1>0, <1>1, <2>1, <2>2, <2>4, <2>5, StillReady
<1>5. CASE Publish /\ UNCHANGED <<serverVars, subscriberVars>>
  <2>1. /\ Serving /\ f \in tmp_fds /\ f \in active_fds
        /\ UNCHANGED <<active_fds, peer, console, backlog, up, link>>
    BY <1>0, <1>5 DEF serverVars, Serving, Publish, DatagramArrives
  <2>2. udp_queue' # <<>>
    <3>1. PICK e : udp_queue' = Append(udp_queue, e)
      BY <1>5 DEF Publish, DatagramArrives
    <3>2. udp_queue \in Seq(Messages \cup {e})
      BY SeqMonotonic DEF IndInv, TypeOK, NetTypeOK
    <3>3. Len(udp_queue') = Len(udp_queue) + 1 /\ Len(udp_queue) \in Nat
      BY <3>1, <3>2, AppendProperties, LenProperties
    <3> QED
      BY <3>3, EmptySeq
  <2> QED
    BY <1>1, <2>1, <2>2, StillReady
<1>6. CASE UNCHANGED vars
  BY <1>0, <1>6 DEF vars, netVars, serverVars, Serving, IsReady, Readable
<1> QED
  BY <1>2, <1>3, <1>4, <1>5, <1>6 DEF Next

(* Nothing is stored for a client that is online or unknown. *)
LEMMA StoredStep == IndInv /\ [Next]_vars => StoredOnlyOffline'
<1> SUFFICES ASSUME IndInv, [Next]_vars, NEW i \in IdSpace,
                    pending_messages'[i] # <<>>
             PROVE  ~online'[i] /\ i \in known'
  BY DEF StoredOnlyOffline
<1>0. /\ online \in [IdSpace -> BOOLEAN]
      /\ pending_messages \in [IdSpace -> Seq(Messages)]
      /\ pending_messages[i] # <<>> => ~online[i] /\ i \in known
  BY DEF IndInv, TypeOK, ServerTypeOK, StoredOnlyOffline
<1>1. CASE AdmitClient
  BY <1>0, <1>1 DEF AdmitClient, free_string_list
<1>2. CASE PublishDatagram
  BY <1>0, <1>2 DEF PublishDatagram, Store, Waiting
<1>3. ASSUME NEW f \in ClientFds, Disconnect(f)
      PROVE  ~online'[i] /\ i \in known'
  BY <1>0, <1>3 DEF Disconnect
<1>4. CASE UNCHANGED <<pending_messages, online, known>>
  BY <1>0, <1>4
<1>5. CASE ServerStep
  BY <1>1, <1>2, <1>3, <1>4, <1>5
     DEF ServerStep, ClientStep, Select, AcceptConnection, AcceptFails,
         RefuseClient, AdmitDies, PublishDies, RefuseDatagram, HandleStdin,
         RecvFails, HandleCommand, CommandDies, registry
<1> QED
  BY <1>4, <1>5 DEF Next, vars, ConsoleLine, serverVars, registry

(* Subscriptions belong to known clients. *)
LEMMA KnownStep == IndInv /\ [Next]_vars => SubscribersKnown'
<1> SUFFICES ASSUME IndInv, [Next]_vars, NEW i \in IdSpace, NEW t \in Topics,
                    topics'[i][t] # "off"
             PROVE  i \in known'
  BY DEF SubscribersKnown
<1>0. /\ topics \in [IdSpace -> [Topics -> Modes]]
      /\ topics[i][t] # "off" => i \in known
  BY DEF IndInv, TypeOK, ServerTypeOK, SubscribersKnown
<1>1. CASE AdmitClient
  BY <1>0, <1>1 DEF AdmitClient, TopicsOnArrival
<1>2. ASSUME NEW f \in ClientFds, HandleCommand(f)
      PROVE  i \in known'
  <2>1. known' = known
    BY <1>2 DEF HandleCommand
  <2>2. online_clients[f] \in known
    <3>1. f \in active_fds
      BY <1>2, Turns DEF HandleCommand
    <3>2. online_clients[f] \in IdSpace
      BY <3>1 DEF IndInv, TypeOK, ServerTypeOK, RegistryConsistent,
                  WatchedAreOnline
    <3>3. online[online_clients[f]]
      BY <3>2 DEF IndInv, RegistryConsistent, FlagsMatchMap
    <3> QED
      BY <3>2, <3>3 DEF IndInv, RegistryConsistent, OnlineAreKnown
  <2>3. \A j \in IdSpace : j # online_clients[f] => topics'[j] = topics[j]
    BY <1>0, <1>2 DEF HandleCommand
  <2> QED
    BY <1>0, <2>1, <2>2, <2>3
<1>3. CASE UNCHANGED <<topics, known>>
  BY <1>0, <1>3
<1>4. CASE ServerStep
  BY <1>1, <1>2, <1>3, <1>4
     DEF ServerStep, ClientStep, Select, AcceptConnection, AcceptFails,
         RefuseClient, AdmitDies, PublishDatagram, PublishDies, RefuseDatagram,
         HandleStdin, Disconnect, RecvFails, CommandDies, registry
<1> QED
  BY <1>3, <1>4 DEF Next, vars, ConsoleLine, serverVars, registry

(* The UDP queue holds the last datagrams that arrived, in order. *)
LEMMA QueueStep == IndInv /\ [Next]_vars => QueueIsRecent'
<1> SUFFICES ASSUME IndInv, [Next]_vars
             PROVE  QueueIsRecent'
  OBVIOUS
<1>0. /\ udp_queue \in Seq(Messages) /\ arrived \in Nat
      /\ Len(udp_queue) \in Nat /\ DOMAIN udp_queue = 1..Len(udp_queue)
      /\ QueueIsRecent
  BY NetworkAssumption, LenProperties DEF IndInv, TypeOK, NetTypeOK
<1>1. ASSUME udp_queue # <<>>, udp_queue' = Tail(udp_queue), arrived' = arrived
      PROVE  QueueIsRecent'
  <2>1. /\ Len(udp_queue') = Len(udp_queue) - 1
        /\ \A k \in 1..Len(udp_queue') : udp_queue'[k] = udp_queue[k + 1]
        /\ DOMAIN udp_queue' = 1..Len(udp_queue')
    BY <1>0, <1>1, HeadTailProperties, LenProperties
  <2>2. \A k \in DOMAIN udp_queue' :
          k \in Int /\ k + 1 \in DOMAIN udp_queue
    BY <1>0, <2>1
  <2> QED
    BY <1>0, <1>1, <2>1, <2>2 DEF QueueIsRecent
<1>2. ASSUME NEW t \in Topics, NEW k \in Kinds, DatagramArrives(t, k)
      PROVE  QueueIsRecent'
  <2> DEFINE m == [n |-> arrived + 1, topic |-> t, kind |-> k]
  <2>1. /\ udp_queue' = Append(udp_queue, m) /\ arrived' = arrived + 1
        /\ m \in Messages
    BY <1>0, <1>2, NetworkAssumption DEF DatagramArrives, Messages
  <2>2. m.n = arrived + 1
    OBVIOUS
  <2> HIDE DEF m
  <2>3. /\ Len(udp_queue') = Len(udp_queue) + 1
        /\ DOMAIN udp_queue' = 1..(Len(udp_queue) + 1)
        /\ \A j \in DOMAIN udp_queue' :
             \/ j \in DOMAIN udp_queue /\ udp_queue'[j] = udp_queue[j]
             \/ j = Len(udp_queue) + 1 /\ udp_queue'[j] = m
    BY <1>0, <2>1, AppendProperties, LenProperties
  <2> QED
    BY <1>0, <2>1, <2>2, <2>3 DEF QueueIsRecent
<1>3. CASE UNCHANGED <<udp_queue, arrived>>
  BY <1>0, <1>3 DEF QueueIsRecent
<1>4. CASE ServerStep
  BY <1>1, <1>3, <1>4, Turns
     DEF ServerStep, ClientStep, Select, AcceptConnection, AcceptFails,
         RefuseClient, AdmitClient, AdmitDies, PublishDatagram, PublishDies,
         RefuseDatagram, HandleStdin, Disconnect, RecvFails, HandleCommand,
         CommandDies, netVars
<1>5. CASE \E q \in Procs : SubscriberStep(q)
  BY <1>3, <1>5 DEF SubscriberStep, Connect, SendId, KilledEarly, TypeLine,
                    Exit, Receive, EndOfStream
<1> QED
  BY <1>2, <1>3, <1>4, <1>5 DEF Next, vars, ConsoleLine, Publish, netVars
-----------------------------------------------------------------------------
(* Runs keep the identifier they started with. *)
LEMMA NamedStep == IndInv /\ [Next]_vars => RunsAreNamed'
<1> SUFFICES ASSUME IndInv, [Next]_vars, NEW p \in Procs, stage'[p] # "new"
             PROVE  id'[p] \in Ids
  BY DEF RunsAreNamed
<1>0. /\ stage \in [Procs -> {"new", "connected", "running", "gone"}]
      /\ id \in [Procs -> Ids \cup {NoId}]
      /\ stage[p] # "new" => id[p] \in Ids
  BY DEF IndInv, TypeOK, SubscriberTypeOK, RunsAreNamed
<1>1. ASSUME NEW q \in Procs, NEW i \in Ids, Connect(q, i)
      PROVE  id'[p] \in Ids
  BY <1>0, <1>1 DEF Connect
<1>2. ASSUME NEW q \in Procs, SubscriberStep(q), id' = id
      PROVE  id'[p] \in Ids
  <2>1. CASE p # q
    BY <1>0, <1>2, <2>1, SubscriberActs
  <2>2. CASE p = q /\ stage[p] # "new"
    BY <1>0, <1>2, <2>2
  <2>3. CASE p = q /\ stage[p] = "new"
    BY <1>0, <1>1, <1>2, <2>3
       DEF SubscriberStep, SendId, KilledEarly, TypeLine, Exit, Receive,
           EndOfStream, MessageWaits
  <2> QED
    BY <2>1, <2>2, <2>3
<1>3. CASE \E q \in Procs : SubscriberStep(q)
  BY <1>1, <1>2, <1>3 DEF SubscriberStep, SendId, KilledEarly, TypeLine, Exit,
                          Receive, EndOfStream
<1>4. CASE UNCHANGED <<stage, id>>
  BY <1>0, <1>4
<1> QED
  BY <1>3, <1>4 DEF Next, vars, subscriberVars

(* The outcome of a send keeps its type. *)
LEMMA SendTypes ==
  ASSUME IndInv, NEW p \in Procs, NEW ms \in Seq(Messages \cup {Notice})
  PROVE  /\ Sent(p, ms) \in Seq(Messages \cup {Notice})
         /\ LinkAfter(p) \in LinkStates
<1>1. /\ down[p] \in Seq(Messages \cup {Notice}) /\ link[p] \in LinkStates
  BY DEF IndInv, TypeOK, NetTypeOK
<1>2. down[p] \o ms \in Seq(Messages \cup {Notice})
  BY <1>1, ConcatProperties
<1> QED
  BY <1>1, <1>2 DEF Sent, LinkAfter, LinkStates

(* What the server takes from a connection leaves the rest well typed. *)
LEMMA DrainTypes ==
  ASSUME IndInv, srv = "recvId", DrainsId(peer[newsockfd])
  PROVE  up' \in [Procs -> Seq(Ids \cup Lines)]
<1> DEFINE q == peer[newsockfd]
<1>1. q \in Procs /\ up \in [Procs -> Seq(Ids \cup Lines)]
  BY IdentifierRead DEF IndInv, TypeOK, NetTypeOK
<1>2. ASSUME NEW k \in 1..Len(up[q])
      PROVE  SubSeq(up[q], k + 1, Len(up[q])) \in Seq(Ids \cup Lines)
  BY <1>1, Rest
<1> HIDE DEF q
<1>3. ASSUME NEW k \in 1..Len(up[q]),
             up' = [up EXCEPT ![q] = SubSeq(up[q], k + 1, Len(up[q]))]
      PROVE  up' \in [Procs -> Seq(Ids \cup Lines)]
  BY <1>1, <1>2, <1>3
<1> QED
  BY <1>1, <1>3 DEF DrainsId, q

(* The types of the network. *)
LEMMA NetTypeStep == IndInv /\ [Next]_vars => NetTypeOK'
<1> SUFFICES ASSUME IndInv, [Next]_vars
             PROVE  NetTypeOK'
  OBVIOUS
<1>0. NetTypeOK
  BY DEF IndInv, TypeOK
<1> USE <1>0 DEF NetTypeOK
<1>1. CASE AcceptConnection
  BY <1>1, Turns, HeadTailProperties DEF AcceptConnection
<1>2. CASE RefuseClient
  <2> DEFINE q == peer[newsockfd]
  <2>1. q \in Procs /\ up' \in [Procs -> Seq(Ids \cup Lines)]
    BY <1>2, IdentifierRead, DrainTypes DEF RefuseClient
  <2>2. <<Notice>> \in Seq(Messages \cup {Notice})
    OBVIOUS
  <2>3. /\ down' = [down EXCEPT ![q] = Sent(q, <<Notice>>)]
        /\ link' = [link EXCEPT ![q] = LinkAfter(q)]
        /\ UNCHANGED <<backlog, udp_queue, arrived>>
    BY <1>2 DEF RefuseClient
  <2>4. Sent(q, <<Notice>>) \in Seq(Messages \cup {Notice}) /\ LinkAfter(q) \in LinkStates
    BY <2>1, <2>2, SendTypes
  <2> HIDE DEF q
  <2> QED
    BY <2>1, <2>3, <2>4
<1>3. CASE AdmitClient
  <2> DEFINE q    == peer[newsockfd]
             list == pending_messages[ReceivedId(q)]
  <2>1. q \in Procs /\ up' \in [Procs -> Seq(Ids \cup Lines)]
    BY <1>3, IdentifierRead, DrainTypes DEF AdmitClient
  <2>2. list \in Seq(Messages \cup {Notice})
    <3>1. list \in Seq(Messages)
      BY <1>3 DEF AdmitClient, IndInv, TypeOK, ServerTypeOK
    <3> QED
      BY <3>1, SeqMonotonic
  <2>3. /\ down' = [down EXCEPT ![q] = Sent(q, list)]
        /\ link' = [link EXCEPT ![q] = IF list = <<>> THEN @ ELSE LinkAfter(q)]
        /\ UNCHANGED <<backlog, udp_queue, arrived>>
    BY <1>3 DEF AdmitClient
  <2>4. Sent(q, list) \in Seq(Messages \cup {Notice}) /\ LinkAfter(q) \in LinkStates
    BY <2>1, <2>2, SendTypes
  <2> HIDE DEF q, list
  <2> QED
    BY <2>1, <2>3, <2>4
<1>4. ASSUME NEW cut, Turn(UDP), Broadcast(Head(udp_queue), cut),
             udp_queue' = Tail(udp_queue), UNCHANGED <<backlog, up, arrived>>
      PROVE  NetTypeOK'
  <2> DEFINE m == Head(udp_queue)
  <2>1. m \in Messages /\ udp_queue' \in Seq(Messages)
    BY <1>4, Turns, HeadTailProperties
  <2>2. <<m>> \in Seq(Messages \cup {Notice})
    BY <2>1
  <2>3. \A p \in Procs : /\ Sent(p, <<m>>) \in Seq(Messages \cup {Notice})
                         /\ LinkAfter(p) \in LinkStates
    BY <2>2, SendTypes
  <2> HIDE DEF m
  <2>4. /\ down' \in [Procs -> Seq(Messages \cup {Notice})]
        /\ link' \in [Procs -> LinkStates]
    BY <1>4, <2>3 DEF Broadcast, m
  <2> QED
    BY <1>4, <2>1, <2>4
<1>5. CASE PublishDatagram \/ PublishDies
  BY <1>4, <1>5 DEF PublishDatagram, PublishDies
<1>6. CASE RefuseDatagram
  BY <1>6, Turns, HeadTailProperties DEF RefuseDatagram
<1>7. ASSUME NEW f \in ClientFds, HandleCommand(f)
      PROVE  NetTypeOK'
  <2>1. PICK k \in 1..Len(up[peer[f]]) :
          up' = [up EXCEPT ![peer[f]] = SubSeq(up[peer[f]], k + 1, Len(up[peer[f]]))]
    BY <1>7 DEF HandleCommand
  <2>2. peer[f] \in Procs
    BY <1>7, Turns DEF HandleCommand, IndInv, TypeOK, ServerTypeOK, WatchedAreOpen
  <2>3. SubSeq(up[peer[f]], k + 1, Len(up[peer[f]])) \in Seq(Ids \cup Lines)
    BY <2>2, Rest
  <2>4. up' \in [Procs -> Seq(Ids \cup Lines)]
    BY <2>1, <2>2, <2>3
  <2> QED
    BY <1>7, <2>4 DEF HandleCommand
<1>8. CASE UNCHANGED netVars
  BY <1>8 DEF netVars
<1>9. CASE ServerStep
  BY <1>1, <1>2, <1>3, <1>5, <1>6, <1>7, <1>8, <1>9
     DEF ServerStep, ClientStep, Select, AcceptFails, AdmitDies, HandleStdin,
         Disconnect, RecvFails, CommandDies
<1>10. ASSUME NEW q \in Procs, SubscriberStep(q)
       PROVE  NetTypeOK'
  <2>1. CASE \E i \in Ids : Connect(q, i)
    BY <2>1, AppendProperties DEF Connect
  <2>2. CASE SendId(q)
    <3>1. link[q] = "open" /\ id[q] \in Ids
      BY <2>2 DEF SendId, IndInv, SubscriberShape, RunsAreNamed
    <3>2. Append(up[q], id[q]) \in Seq(Ids \cup Lines)
      BY <3>1, AppendProperties
    <3> QED
      BY <2>2, <3>2 DEF SendId
  <2>3. CASE KilledEarly(q)
    BY <2>3 DEF KilledEarly, LinkStates
  <2>4. ASSUME NEW line \in Lines, TypeLine(q, line)
        PROVE  NetTypeOK'
    <3>1. Append(up[q], line) \in Seq(Ids \cup Lines)
      BY AppendProperties
    <3> QED
      BY <2>4, <3>1 DEF TypeLine
  <2>5. CASE Exit(q)
    <3>1. PICK s \in LinkStates : link' = [link EXCEPT ![q] = s]
      BY <2>5 DEF Exit, LinkStates
    <3>2. <<>> \in Seq(Messages \cup {Notice})
      BY EmptySeq
    <3> QED
      BY <2>5, <3>1, <3>2 DEF Exit
  <2>6. CASE Receive(q)
    <3>1. Tail(down[q]) \in Seq(Messages \cup {Notice})
      BY <2>6, HeadTailProperties DEF Receive, MessageWaits
    <3>2. link' \in [Procs -> LinkStates]
      BY <2>6 DEF Receive, LinkStates
    <3> QED
      BY <2>6, <3>1, <3>2 DEF Receive
  <2>7. CASE EndOfStream(q)
    BY <2>7 DEF EndOfStream, LinkStates
  <2> QED
    BY <1>10, <2>1, <2>2, <2>3, <2>4, <2>5, <2>6, <2>7 DEF SubscriberStep
<1>11. ASSUME NEW t \in Topics, NEW k \in Kinds, DatagramArrives(t, k)
       PROVE  NetTypeOK'
  <2> DEFINE m == [n |-> arrived + 1, topic |-> t, kind |-> k]
  <2>1. m \in Messages /\ arrived + 1 \in 0..MaxMsgs
    BY <1>11, NetworkAssumption DEF DatagramArrives, Messages
  <2>2. Append(udp_queue, m) \in Seq(Messages)
    BY <2>1, AppendProperties
  <2> QED
    BY <1>11, <2>1, <2>2 DEF DatagramArrives
<1> QED
  BY <1>8, <1>9, <1>10, <1>11 DEF Next, vars, ConsoleLine, Publish
-----------------------------------------------------------------------------
(* A chunk begins with a line, one of the four sorts. *)
LEMMA FirstLine ==
  ASSUME NEW chunk \in Seq(Lines), chunk # <<>>
  PROVE  /\ chunk[1] \in Lines
         /\ Len(chunk) \in Nat \ {0}
         /\ \/ /\ chunk[1] \in CommandLines
               /\ chunk[1].verb \in {"subscribe", "unsubscribe"}
               /\ chunk[1].topic \in Topics
               /\ chunk[1].rest \in Flags \cup {"eol", "cut", "bad"}
            \/ /\ chunk[1] \in BareLines
               /\ chunk[1].verb = "bare"
               /\ chunk[1].word \in {"subscribe", "unsubscribe"}
            \/ /\ chunk[1].verb = "junk"
               /\ chunk[1].word \in Ids \cup {"junk", TooLong}
<1>1. Len(chunk) \in Nat /\ Len(chunk) # 0
  BY EmptySeq, LenProperties
<1>2. chunk[1] \in Lines
  BY <1>1, ElementOfSeq
<1>3. chunk[1] \in InputLines
  BY <1>2, NetworkAssumption
<1> QED
  BY <1>1, <1>2, <1>3 DEF InputLines, CommandLines, BareLines, JunkLines

(* What decode_message leaves behind, whatever lines arrived together. *)
LEMMA Decoding ==
  ASSUME IndInv, NEW chunk \in Seq(Lines), chunk # <<>>, NEW d \in decode_message(chunk)
  PROVE  /\ FirstWord(chunk) \in Texts
         /\ d.left \in [topic: Topics \cup {NoTopic}, eol: BOOLEAN, sf: Flags]
<1> DEFINE l == chunk[1]
           M == [topic: Topics \cup {NoTopic}, eol: BOOLEAN, sf: Flags]
<1>0. s_message \in M
  BY DEF IndInv, TypeOK, ServerTypeOK
<1>1. /\ "subscribe" \in Texts /\ TooLong \in Texts /\ Ids \cup {"junk", TooLong} \subseteq Texts
  BY DEF Texts, IdSpace, StrayWords, TooLong
<1>2. FirstWord(chunk) \in Texts
  BY <1>1, FirstLine DEF FirstWord, Verb
<1>4. CASE l.verb \in {"junk", "bare"}
  <2>1. decode_message(chunk) = {[ok |-> l.verb = "bare" /\ Len(chunk) = 1, left |-> s_message]}
    BY <1>4 DEF decode_message
  <2> QED
    BY <1>0, <1>2, <2>1
<1>5. CASE l.verb \notin {"junk", "bare"}
  <2>1. l.topic \in Topics /\ s_message.sf \in Flags
    BY <1>0, <1>5, FirstLine
  <2>2. FlagAfter(l) \in Flags
    BY <2>1 DEF FlagAfter
  <2>3. CASE l.rest \in {"eol", "cut"} /\ Len(chunk) = 1
    <3>1. d = Decoded(l.verb = "unsubscribe", l.topic, l.rest = "eol", s_message.sf)
      BY <1>5, <2>3 DEF decode_message
    <3>2. d.left = [topic |-> l.topic, eol |-> l.rest = "eol", sf |-> s_message.sf]
      BY <3>1 DEF Decoded
    <3> QED
      BY <1>2, <2>1, <3>2
  <2>4. CASE l.rest \in {"eol", "cut"} /\ Len(chunk) # 1
    <3>1. d \in RunOn
      BY <1>5, <2>4 DEF decode_message
    <3> QED
      BY <1>2, <3>1 DEF RunOn
  <2>5. CASE l.rest \notin {"eol", "cut"}
    <3> DEFINE sf == IF Len(chunk) = 1 THEN FlagAfter(l) ELSE s_message.sf
    <3>1. d = Decoded(Len(chunk) = 1 /\ l.verb = "subscribe" /\ l.rest # "bad", l.topic,
                      FALSE, sf)
      BY <1>5, <2>5 DEF decode_message
    <3>2. sf \in Flags
      BY <2>1, <2>2
    <3> HIDE DEF sf
    <3>3. d.left = [topic |-> l.topic, eol |-> FALSE, sf |-> sf]
      BY <3>1 DEF Decoded
    <3> QED
      BY <1>2, <2>1, <3>2, <3>3
  <2> QED
    BY <2>3, <2>4, <2>5
<1> QED
  BY <1>4, <1>5

(* An accepted command leaves s_message with its type. *)
LEMMA MessageTyped ==
  ASSUME NEW verb, NEW m \in [topic: Topics \cup {NoTopic}, eol: BOOLEAN, sf: Flags]
  PROVE  MessageAfter(verb, m) \in [topic: Topics \cup {NoTopic}, eol: BOOLEAN, sf: Flags]
BY DEF MessageAfter, Shortened

(* One recv() on a watched descriptor takes a chunk of lines. *)
LEMMA ChunkOfLines ==
  ASSUME IndInv, NEW f \in ClientFds, Turn(f),
         NEW k \in 1..Len(up[peer[f]])
  PROVE  /\ SubSeq(up[peer[f]], 1, k) \in Seq(Lines)
         /\ SubSeq(up[peer[f]], 1, k) # <<>>
         /\ online_clients[f] \in IdSpace
         /\ online[online_clients[f]]
<1> DEFINE u == up[peer[f]]
<1>1. f \in active_fds /\ peer[f] \in Procs
  BY Turns DEF IndInv, WatchedAreOpen, TypeOK, ServerTypeOK
<1>2. /\ u \in Seq(Ids \cup Lines) /\ Len(u) \in Nat /\ DOMAIN u = 1..Len(u)
      /\ \A j \in DOMAIN u : u[j] \in Lines
  BY <1>1, LenProperties DEF IndInv, TypeOK, NetTypeOK, WatchedAreOpen
<1>3. \A j \in 1..k : u[j] \in Lines
  BY <1>2
<1>4. SubSeq(u, 1, k) \in Seq(Lines) /\ Len(SubSeq(u, 1, k)) = k
  BY <1>2, <1>3, SubSeqProperties
<1>5. SubSeq(u, 1, k) # <<>>
  BY <1>2, <1>4, EmptySeq
<1>6. online_clients[f] \in IdSpace
  BY <1>1 DEF IndInv, TypeOK, ServerTypeOK, RegistryConsistent, WatchedAreOnline
<1>7. online[online_clients[f]]
  BY <1>6 DEF IndInv, RegistryConsistent, FlagsMatchMap
<1> QED
  BY <1>4, <1>5, <1>6, <1>7

(* The topics a command leaves the client with. *)
LEMMA TopicsTyped ==
  ASSUME IndInv, NEW verb, NEW i \in IdSpace,
         NEW m \in [topic: Topics \cup {NoTopic}, eol: BOOLEAN, sf: Flags]
  PROVE  TopicsAfter(i, verb, m) \in [Topics -> Modes]
<1>1. topics[i] \in [Topics -> Modes]
  BY DEF IndInv, TypeOK, ServerTypeOK
<1>2. \A t \in Topics, mode \in Modes : [topics[i] EXCEPT ![t] = mode] \in [Topics -> Modes]
  BY <1>1
<1> DEFINE name == MessageAfter(verb, m).topic
<1>3. name # NoTopic => name \in Topics
  BY MessageTyped
<1>4. m.sf \in Modes /\ "off" \in Modes
  BY DEF Flags, Modes
<1>5. TopicsAfter(i, verb, m) \in
        {topics[i]} \cup
        (IF name = NoTopic THEN {}
         ELSE {[topics[i] EXCEPT ![name] = "off"], [topics[i] EXCEPT ![name] = m.sf]})
  BY DEF TopicsAfter, add_topic, remove_topic
<1> HIDE DEF name
<1> QED
  BY <1>1, <1>2, <1>3, <1>4, <1>5

(* A list of one message. *)
LEMMA OneElement ==
  ASSUME NEW m \in Messages
  PROVE  <<m>> \in Seq(Messages)
OBVIOUS

(* The types of the server. *)
LEMMA ServerTypeStep == IndInv /\ [Next]_vars => ServerTypeOK'
<1> SUFFICES ASSUME IndInv, [Next]_vars
             PROVE  ServerTypeOK'
  OBVIOUS
<1>0. ServerTypeOK
  BY DEF IndInv, TypeOK
<1> USE <1>0 DEF ServerTypeOK
<1>1. CASE Select
  BY <1>1 DEF Select, Reported, registry
<1>2. CASE AcceptConnection
  <2>1. PICK f \in FreeFds : /\ newsockfd' = f
                             /\ peer' = [peer EXCEPT ![f] = Head(backlog)]
    BY <1>2 DEF AcceptConnection
  <2>2. f \in ClientFds /\ Head(backlog) \in Procs
    BY <1>2, <2>1, Turns, HeadTailProperties
       DEF FreeFds, AcceptConnection, IndInv, TypeOK, NetTypeOK
  <2>3. peer' \in [ClientFds -> Procs \cup {NoProc}]
    BY <2>1, <2>2
  <2> QED
    BY <1>2, <2>1, <2>2, <2>3 DEF AcceptConnection, registry
<1>3. CASE RefuseClient
  BY <1>3 DEF RefuseClient, registry, NoFd, Texts, IdSpace, StrayWords
<1>4. CASE AdmitClient
  <2> DEFINE i == ReceivedId(peer[newsockfd])
             n == newsockfd
             list == pending_messages[i]
  <2>1. i \in IdSpace /\ n \in ClientFds
    BY <1>4 DEF AdmitClient, IndInv, AwaitedIsOpen
  <2>2. list \in Seq(Messages) /\ handed[i] \o list \in Seq(Messages)
    BY <2>1, ConcatProperties
  <2>3. TopicsOnArrival(i) \in [Topics -> Modes]
    BY <2>1 DEF TopicsOnArrival, Modes
  <2>4. /\ active_fds' = active_fds \cup {n}
        /\ fdmax' = IF n > fdmax THEN n ELSE fdmax
        /\ online_clients' = [online_clients EXCEPT ![n] = i]
        /\ known' = known \cup {i}
        /\ online' = [online EXCEPT ![i] = TRUE]
        /\ topics' = [topics EXCEPT ![i] = TopicsOnArrival(i)]
        /\ wild' \in {wild, wild \cup {i}}
        /\ handed' = [handed EXCEPT ![i] = @ \o list]
        /\ pending_messages' = [pending_messages EXCEPT ![i] = <<>>]
        /\ freed' \in {freed, freed \cup {"value"}}
        /\ buffer' = i /\ newsockfd' = NoFd /\ srv' = "running"
        /\ UNCHANGED <<console, tmp_fds, peer, s_message>>
    BY <1>4 DEF AdmitClient, Watch, FdmaxAfter, free_string_list
  <2> HIDE DEF i, n, list
  <2>5. i \in Texts
    BY <2>1 DEF Texts
  <2>6. <<>> \in Seq(Messages)
    BY EmptySeq
  <2>7. /\ active_fds' \subseteq {STDIN, TCP, UDP} \cup ClientFds
        /\ fdmax' \in {TCP} \cup ClientFds
        /\ online_clients' \in [ClientFds -> IdSpace \cup {NoId}]
        /\ known' \subseteq IdSpace
        /\ wild' \subseteq IdSpace
    BY <2>1, <2>4
  <2>8. /\ online' \in [IdSpace -> BOOLEAN]
        /\ topics' \in [IdSpace -> [Topics -> Modes]]
        /\ handed' \in [IdSpace -> Seq(Messages)]
        /\ pending_messages' \in [IdSpace -> Seq(Messages)]
    BY <2>1, <2>2, <2>3, <2>4, <2>6
  <2> QED
    BY <2>4, <2>5, <2>7, <2>8 DEF NoFd
<1>5. ASSUME NEW cut, Turn(UDP), Broadcast(Head(udp_queue), cut)
      PROVE  handed' \in [IdSpace -> Seq(Messages)]
  <2>1. Head(udp_queue) \in Messages
    BY <1>5, Turns, HeadTailProperties DEF IndInv, TypeOK, NetTypeOK
  <2>2. \A i \in IdSpace : Append(handed[i], Head(udp_queue)) \in Seq(Messages)
    BY <2>1, AppendProperties
  <2> QED
    BY <1>5, <2>2 DEF Broadcast
<1>6. CASE PublishDatagram
  <2>1. handed' \in [IdSpace -> Seq(Messages)]
    BY <1>5, <1>6 DEF PublishDatagram
  <2>2. pending_messages' \in [IdSpace -> Seq(Messages)]
    <3>1. Head(udp_queue) \in Messages
      BY <1>6, Turns, HeadTailProperties
         DEF PublishDatagram, IndInv, TypeOK, NetTypeOK
    <3>2. <<Head(udp_queue)>> \in Seq(Messages)
      BY <3>1, OneElement
    <3>3. \A i \in IdSpace :
            add_string_to_list(Head(udp_queue), pending_messages[i]) \in Seq(Messages)
      BY <3>2, ConcatProperties DEF add_string_to_list
    <3> QED
      BY <1>6, <3>3 DEF PublishDatagram, Store
  <2> QED
    BY <1>6, <2>1, <2>2 DEF PublishDatagram, Texts
<1>7. CASE PublishDies
  <2>1. handed' \in [IdSpace -> Seq(Messages)]
    BY <1>5, <1>7 DEF PublishDies
  <2> QED
    BY <1>7, <2>1 DEF PublishDies, registry
<1>8. CASE RefuseDatagram
  BY <1>8 DEF RefuseDatagram, registry, Texts, IdSpace, StrayWords
<1>9. CASE HandleStdin
  BY <1>9 DEF HandleStdin, registry, Texts, IdSpace, StrayWords
<1>10. ASSUME NEW f \in ClientFds, Disconnect(f)
       PROVE  ServerTypeOK'
  BY <1>10 DEF Disconnect, Close, Texts, IdSpace, StrayWords
<1>11. ASSUME NEW f \in ClientFds, HandleCommand(f)
       PROVE  ServerTypeOK'
  <2> DEFINE i     == online_clients[f]
             M     == [topic: Topics \cup {NoTopic}, eol: BOOLEAN, sf: Flags]
  <2>1. PICK k \in 1..Len(up[peer[f]]) :
          \E d \in decode_message(SubSeq(up[peer[f]], 1, k)) :
            /\ buffer' = FirstWord(SubSeq(up[peer[f]], 1, k))
            /\ \/ /\ topics' = [topics EXCEPT ![i] =
                                  TopicsAfter(i, Verb(SubSeq(up[peer[f]], 1, k)[1]), d.left)]
                  /\ s_message' = MessageAfter(Verb(SubSeq(up[peer[f]], 1, k)[1]), d.left)
               \/ topics' = topics /\ s_message' = d.left
    BY <1>11 DEF HandleCommand
  <2> DEFINE chunk == SubSeq(up[peer[f]], 1, k)
             verb  == Verb(chunk[1])
  <2>2. chunk \in Seq(Lines) /\ chunk # <<>> /\ i \in IdSpace
    BY <1>11, ChunkOfLines DEF HandleCommand
  <2> HIDE DEF chunk
  <2>3. PICK d \in decode_message(chunk) :
            /\ buffer' = FirstWord(chunk)
            /\ \/ /\ topics' = [topics EXCEPT ![i] = TopicsAfter(i, verb, d.left)]
                  /\ s_message' = MessageAfter(verb, d.left)
               \/ topics' = topics /\ s_message' = d.left
    BY <2>1 DEF chunk
  <2> HIDE DEF verb
  <2>4. buffer' \in Texts /\ d.left \in M
    BY <2>2, <2>3, Decoding
  <2>5. /\ TopicsAfter(i, verb, d.left) \in [Topics -> Modes]
        /\ MessageAfter(verb, d.left) \in M
    BY <2>2, <2>4, TopicsTyped, MessageTyped
  <2>51. topics' \in [IdSpace -> [Topics -> Modes]] /\ s_message' \in M
    <3> DEFINE T == TopicsAfter(i, verb, d.left)
               W == MessageAfter(verb, d.left)
    <3>1. /\ T \in [Topics -> Modes] /\ W \in M /\ d.left \in M /\ i \in IdSpace
          /\ \/ topics' = [topics EXCEPT ![i] = T] /\ s_message' = W
             \/ topics' = topics /\ s_message' = d.left
      BY <2>2, <2>3, <2>4, <2>5, Zenon
    <3>2. topics \in [IdSpace -> [Topics -> Modes]]
      BY DEF ServerTypeOK
    <3> HIDE DEF T, W, M, i
    <3>3. [topics EXCEPT ![i] = T] \in [IdSpace -> [Topics -> Modes]]
      BY ONLY <3>1, <3>2
    <3> QED
      BY ONLY <3>1, <3>2, <3>3
  <2>6. tmp_fds' = tmp_fds \ {f}
    BY <1>11 DEF HandleCommand
  <2>7. UNCHANGED <<srv, console, active_fds, fdmax, newsockfd, peer,
                    online_clients, known, online, pending_messages, wild,
                    freed, handed>>
    BY <1>11 DEF HandleCommand
  <2> QED
    BY <2>4, <2>51, <2>6, <2>7
<1>12. ASSUME srv' = "died",
              UNCHANGED <<console, active_fds, tmp_fds, fdmax, newsockfd, peer,
                          registry, buffer, s_message, freed, handed>>
       PROVE  ServerTypeOK'
  BY <1>12 DEF registry
<1>13. CASE ServerStep
  <2>1. ASSUME AcceptFails \/ AdmitDies \/ \E f \in ClientFds : RecvFails(f) \/ CommandDies(f)
        PROVE  ServerTypeOK'
    BY <1>12, <2>1 DEF AcceptFails, AdmitDies, RecvFails, CommandDies
  <2> QED
    BY <1>1, <1>2, <1>3, <1>4, <1>6, <1>7, <1>8, <1>9, <1>10, <1>11, <1>13,
       <2>1 DEF ServerStep, ClientStep
<1>14. ASSUME NEW line \in ConsoleLines, ConsoleLine(line)
       PROVE  ServerTypeOK'
  BY <1>14, PubSubAssumption DEF ConsoleLine, registry
<1>15. CASE UNCHANGED serverVars
  BY <1>15 DEF serverVars, registry
<1> QED
  BY <1>13, <1>14, <1>15 DEF Next, vars

(* The types of the subscribers. *)
LEMMA SubscriberTypeStep == IndInv /\ [Next]_vars => SubscriberTypeOK'
<1> SUFFICES ASSUME IndInv, [Next]_vars
             PROVE  SubscriberTypeOK'
  OBVIOUS
<1>0. SubscriberTypeOK
  BY DEF IndInv, TypeOK
<1> USE <1>0 DEF SubscriberTypeOK
<1>1. ASSUME NEW q \in Procs, SubscriberStep(q)
      PROVE  SubscriberTypeOK'
  <2>1. CASE \E i \in Ids : Connect(q, i)
    BY <2>1 DEF Connect
  <2>2. CASE SendId(q)
    BY <2>2 DEF SendId
  <2>3. CASE KilledEarly(q)
    BY <2>3 DEF KilledEarly
  <2>4. ASSUME NEW line \in Lines, TypeLine(q, line)
        PROVE  SubscriberTypeOK'
    <3>1. Append(typed[q], line) \in Seq(Lines)
      BY AppendProperties
    <3> QED
      BY <2>4, <3>1 DEF TypeLine
  <2>5. CASE Exit(q)
    BY <2>5 DEF Exit
  <2>6. CASE Receive(q)
    <3>1. down[q] \in Seq(Messages \cup {Notice}) /\ down[q] # <<>>
      BY <2>6 DEF Receive, MessageWaits, IndInv, TypeOK, NetTypeOK
    <3>2. CASE Head(down[q]) = Notice
      BY <2>6, <3>2 DEF Receive
    <3>3. CASE Head(down[q]) # Notice
      <4>1. Head(down[q]) \in Messages
        BY <3>1, <3>3, HeadTailProperties
      <4>2. Append(printed[q], Head(down[q])) \in Seq(Messages)
        BY <4>1, AppendProperties
      <4> QED
        BY <2>6, <3>3, <4>2 DEF Receive
    <3> QED
      BY <3>2, <3>3
  <2>7. CASE EndOfStream(q)
    BY <2>7 DEF EndOfStream
  <2> QED
    BY <1>1, <2>1, <2>2, <2>3, <2>4, <2>5, <2>6, <2>7 DEF SubscriberStep
<1>2. CASE UNCHANGED subscriberVars
  BY <1>2 DEF subscriberVars
<1> QED
  BY <1>1, <1>2 DEF Next, vars
-----------------------------------------------------------------------------
(***************************************************************************)
(* The conjuncts of IndInv together: each one needs some of the others.    *)
(***************************************************************************)
LEMMA InitInv == Init => IndInv
<1> SUFFICES ASSUME Init
             PROVE  IndInv
  OBVIOUS
<1>0. NetInit /\ ServerInit /\ SubscriberInit
  BY DEF Init
<1>a. /\ \A S : <<>> \in Seq(S)
      /\ Len(<<>>) = 0
      /\ DOMAIN <<>> = {}
  OBVIOUS
<1>b. \A f \in ClientFds : f \notin active_fds
  <2>1. active_fds = {0, 3, 4}
    BY <1>0 DEF ServerInit, STDIN, TCP, UDP
  <2>2. \A f \in ClientFds : f \in Int /\ f >= 5
    BY ServerAssumption DEF ClientFds
  <2> QED
    BY <2>1, <2>2
<1>1. NetTypeOK
  BY <1>0, <1>a, NetworkAssumption DEF NetInit, NetTypeOK, LinkStates
<1>2. ServerTypeOK
  <2>1. "" \in Texts /\ "off" \in Modes
    BY DEF Texts, IdSpace, StrayWords, Modes
  <2>2. /\ topics \in [IdSpace -> [Topics -> Modes]]
        /\ online \in [IdSpace -> BOOLEAN]
        /\ pending_messages \in [IdSpace -> Seq(Messages)]
        /\ handed \in [IdSpace -> Seq(Messages)]
    BY <1>0, <1>a, <2>1 DEF ServerInit
  <2>3. /\ peer \in [ClientFds -> Procs \cup {NoProc}]
        /\ online_clients \in [ClientFds -> IdSpace \cup {NoId}]
    BY <1>0 DEF ServerInit
  <2>4. s_message \in [topic: Topics \cup {NoTopic}, eol: BOOLEAN, sf: Flags]
    BY <1>0 DEF ServerInit
  <2> QED
    BY <1>0, <2>1, <2>2, <2>3, <2>4 DEF ServerInit, ServerTypeOK
<1>3. SubscriberTypeOK
  BY <1>0, <1>a DEF SubscriberInit, SubscriberTypeOK
<1>4. SubscriberShape /\ RunsAreNamed
  BY <1>0, <1>a DEF NetInit, SubscriberInit, SubscriberShape, RunsAreNamed
<1>5. OnePlaceEach
  BY <1>0, <1>a DEF NetInit, ServerInit, OnePlaceEach
<1>6. WatchedAreOpen /\ AwaitedIsOpen
  BY <1>0, <1>b DEF ServerInit, WatchedAreOpen, AwaitedIsOpen
<1>7. RegistryConsistent
  <2>1. WatchedAreOnline
    BY <1>0, <1>b DEF ServerInit, WatchedAreOnline
  <2>2. \A i \in IdSpace : i # NoId
    BY NetworkAssumption DEF IdSpace, StrayWords, NoId
  <2> QED
    BY <1>0, <2>1, <2>2
       DEF ServerInit, RegistryConsistent, OneSocketEach, FlagsMatchMap,
           OnlineAreKnown
<1>8. ReadyStaysReady /\ StoredOnlyOffline /\ SubscribersKnown
  BY <1>0 DEF ServerInit, ReadyStaysReady, StoredOnlyOffline, SubscribersKnown
<1>9. QueueIsRecent
  BY <1>0, <1>a DEF NetInit, QueueIsRecent
<1> QED
  BY <1>1, <1>2, <1>3, <1>4, <1>5, <1>6, <1>7, <1>8, <1>9 DEF IndInv, TypeOK

(***************************************************************************)
(* IndInv holds in every reachable state, for any number of subscribers,   *)
(* identifiers, topics, descriptors and messages.                          *)
(***************************************************************************)
THEOREM Invariance == Spec => []IndInv
<1>1. IndInv /\ [Next]_vars => IndInv'
  <2> SUFFICES ASSUME IndInv, [Next]_vars
               PROVE  IndInv'
    OBVIOUS
  <2>1. TypeOK'
    BY NetTypeStep, ServerTypeStep, SubscriberTypeStep DEF TypeOK
  <2>2. SubscriberShape' /\ RunsAreNamed' /\ OnePlaceEach'
    BY SubscriberShapeStep, NamedStep, OnePlaceStep
  <2>3. WatchedAreOpen' /\ AwaitedIsOpen'
    BY WatchedOpenStep, AwaitedStep
  <2>4. RegistryConsistent' /\ ReadyStaysReady' /\ StoredOnlyOffline'
    BY RegistryStep, ReadyStep, StoredStep
  <2>5. QueueIsRecent' /\ SubscribersKnown'
    BY QueueStep, KnownStep
  <2> QED
    BY <2>1, <2>2, <2>3, <2>4, <2>5 DEF IndInv
<1> QED
  BY <1>1, InitInv, PTL DEF Spec

(* Every variable keeps its type. *)
THEOREM TypeCorrect == Spec => []TypeOK
<1>1. IndInv => TypeOK
  BY DEF IndInv
<1> QED
  BY <1>1, Invariance, PTL

(***************************************************************************)
(* The descriptor set, the socket -> client map and the online flags agree *)
(* in every reachable state: no client has two sockets, no lookup fails.   *)
(***************************************************************************)
THEOREM RegistryCorrect == Spec => []RegistryConsistent
<1>1. IndInv => RegistryConsistent
  BY DEF IndInv
<1> QED
  BY <1>1, Invariance, PTL

(***************************************************************************)
(* No accept() or recv() of a sweep blocks: what select() reported is still*)
(* open and ready when its turn comes.                                     *)
(***************************************************************************)
THEOREM SweepNeverBlocks == Spec => []ReadyStaysReady
<1>1. IndInv => ReadyStaysReady
  BY DEF IndInv
<1> QED
  BY <1>1, Invariance, PTL

(* Messages are stored for known clients that are offline, for no others. *)
THEOREM StoreCorrect == Spec => []StoredOnlyOffline
<1>1. IndInv => StoredOnlyOffline
  BY DEF IndInv
<1> QED
  BY <1>1, Invariance, PTL
=============================================================================
