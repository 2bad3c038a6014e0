----------------------------- MODULE RouterNet ------------------------------
(***************************************************************************)
(* The router among hosts: one wire per interface, frames wait in both     *)
(* directions and may be lost. The hosts are not part of the repository:   *)
(* they send packets by way of the router, answer ARP requests for their   *)
(* own address, accept what is addressed to them, and some announce        *)
(* themselves with an ARP answer nobody asked for.                         *)
(***************************************************************************)
EXTENDS Router

CONSTANTS
  Hosts,       \* the addresses of the hosts
  HostIface,   \* HostIface[h]: the interface whose wire h is on
  Announcers,  \* the hosts that announce themselves
  Offers,      \* the packets they send: records with proto, dst, ttl and good
  MaxSends     \* bound: frames the hosts send of their own accord

ASSUME RouterNetAssumption ==
  /\ Hosts \subseteq Addrs
  /\ HostIface \in [Hosts -> Ifaces]
  /\ Announcers \subseteq Hosts
  /\ \A i \in Ifaces : IfaceIp[i] \notin Hosts
  /\ Offers \subseteq [proto: {"echo", "data"}, dst: Addrs, ttl: 0..MaxTtl,
                       good: BOOLEAN]
  /\ MaxSends \in Nat

VARIABLES
  sends,      \* number of frames the hosts sent of their own accord
  offered,    \* history: the packets the hosts sent
  got         \* got[h]: history: the packets h accepted

hostVars == <<sends, offered, got>>
vars     == <<routerVars, hostVars>>

TypeOK ==
  /\ RouterTypeOK
  /\ sends \in 0..MaxSends
  /\ offered \in SUBSET Packets
  /\ got \in [Hosts -> Seq(Packets)]

Init ==
  /\ RouterInit
  /\ sends = 0
  /\ offered = {}
  /\ got = [h \in Hosts |-> <<>>]

Arrives(i, f) == rx' = [rx EXCEPT ![i] = Append(@, f)]

\* A host sends a packet to the router, which is its gateway.
HostPacket(h) ==
  /\ sends < MaxSends
  /\ sends' = sends + 1
  /\ \E o \in Offers :
       LET f == [type |-> "ip", proto |-> o.proto, src |-> h, dst |-> o.dst,
                 ttl |-> o.ttl, good |-> o.good, from |-> h,
                 to |-> IfaceIp[HostIface[h]]]
       IN /\ Arrives(HostIface[h], f)
          /\ offered' = offered \cup {f}
  /\ UNCHANGED <<tx, arp_table, q, got>>

Answer(h, asker, w) ==
  [type |-> "answer", spa |-> h, sha |-> h, tpa |-> asker, word |-> w,
   from |-> h, to |-> asker]

\* A host asks for the address of its gateway, or of a neighbour.
HostAsks(h) ==
  /\ sends < MaxSends
  /\ sends' = sends + 1
  /\ \E a \in Addrs, w \in Words :
       Arrives(HostIface[h], [type |-> "request", spa |-> h, sha |-> h, tpa |-> a,
                              word |-> w, from |-> h, to |-> Broadcast])
  /\ UNCHANGED <<tx, arp_table, q, offered, got>>

HostAnnounces(h) ==
  /\ sends < MaxSends
  /\ sends' = sends + 1
  /\ \E w \in Words :
       Arrives(HostIface[h], Answer(h, IfaceIp[HostIface[h]], w))
  /\ UNCHANGED <<tx, arp_table, q, offered, got>>

\* The frame at the head of wire i reaches the hosts on it.
WireHead(i) == tx[i] # <<>> /\ tx' = [tx EXCEPT ![i] = Tail(@)]

\* A host takes a packet to its own hardware address, and one of its own that
\* came to a group address.
HostAccepts(i, h) ==
  /\ WireHead(i)
  /\ HostIface[h] = i
  /\ Head(tx[i]).type = "ip"
  /\ \/ Head(tx[i]).to = h
     \/ Head(tx[i]).to = Garbled /\ Head(tx[i]).dst = h
  /\ got' = [got EXCEPT ![h] = Append(@, Head(tx[i]))]
  /\ UNCHANGED <<rx, arp_table, q, sends, offered>>

HostAnswers(i, h) ==
  /\ WireHead(i)
  /\ HostIface[h] = i
  /\ Head(tx[i]).type = "request"
  /\ Head(tx[i]).tpa = h
  /\ \E w \in Words : Arrives(i, Answer(h, Head(tx[i]).spa, w))
  /\ UNCHANGED <<arp_table, q, sends, offered, got>>

\* A frame for nobody on the wire, or one that is lost.
Vanishes(i) ==
  /\ WireHead(i)
  /\ UNCHANGED <<rx, arp_table, q, hostVars>>

LostBefore(i) ==
  /\ rx[i] # <<>>
  /\ rx' = [rx EXCEPT ![i] = Tail(@)]
  /\ UNCHANGED <<tx, arp_table, q, hostVars>>

HostStep ==
  \/ \E h \in Hosts : HostPacket(h) \/ HostAsks(h)
  \/ \E h \in Announcers : HostAnnounces(h)
  \/ \E i \in Ifaces, h \in Hosts : HostAccepts(i, h) \/ HostAnswers(i, h)
  \/ \E i \in Ifaces : Vanishes(i) \/ LostBefore(i)

Next == HostStep \/ (RouterStep /\ UNCHANGED hostVars)

Spec == Init /\ [][Next]_vars

\* The router handles what arrives.
FairSpec == Spec /\ WF_vars(RouterStep /\ UNCHANGED hostVars)
-----------------------------------------------------------------------------
OnWire(i) == {tx[i][k] : k \in DOMAIN tx[i]}

(***************************************************************************)
(* Whatever the order of requests, answers and drains of the queue: an ARP *)
(* answer on a wire, and an entry of the cache, gives an address the       *)
(* hardware address of its owner.                                          *)
(***************************************************************************)
CacheIsTrue == \A k \in DOMAIN arp_table : arp_table[k].mac = arp_table[k].ip

ArpIsTrue ==
  /\ CacheIsTrue
  /\ \A i \in Ifaces : \A f \in OnWire(i) : f.type = "answer" => f.sha = f.spa

(***************************************************************************)
(* What the router passes on is a packet some host sent, with a right      *)
(* checksum and exactly one less to live, on the interface of a route the  *)
(* lookup gives for its destination (router.c:262-291). From which time to *)
(* live on a packet is not passed on is left open: router.c:225 says 1,    *)
(* README.txt:14 less than 1.                                              *)
(***************************************************************************)
PassedOn(f) == f.type = "ip" /\ f.proto \in {"echo", "data"}

IsOffered(f, off) ==
  \E g \in off : /\ g.proto = f.proto /\ g.src = f.src /\ g.dst = f.dst
                 /\ g.good /\ g.ttl = f.ttl + 1

ForwardedWell ==
  \A i \in Ifaces : \A f \in OnWire(i) : PassedOn(f) =>
    /\ IsOffered(f, offered)
    /\ \E x \in Lookup[f.dst] : x # NoRoute /\ OutIface[x] = i

(***************************************************************************)
(* The router's own messages go to the host whose packet they answer, on   *)
(* its interface, and answer a packet it sent.                             *)
(***************************************************************************)
IsAnswer(f, off) ==
  \E g \in off : /\ g.src = f.dst /\ g.dst = f.src
                 /\ f.proto = "reply" => g.proto = "echo"

AnswersGoHome ==
  \A i \in Ifaces : \A f \in OnWire(i) :
    f.type = "ip" /\ ~PassedOn(f) =>
      /\ f.to = f.dst /\ f.dst \in Hosts /\ HostIface[f.dst] = i
      /\ IsAnswer(f, offered)

(***************************************************************************)
(* From end to end: whatever a host takes from the wire, were it sent to   *)
(* bytes of the heap, is for it; it is a packet that its sender offered,   *)
(* aged once, or the router's message about a packet of its own.           *)
(***************************************************************************)
IsReceivedWell(h, f, off) ==
  /\ f.dst = h
  /\ IF PassedOn(f) THEN IsOffered(f, off) ELSE IsAnswer(f, off)

ReceivedWell ==
  \A h \in Hosts : \A k \in DOMAIN got[h] : IsReceivedWell(h, got[h][k], offered)

(***************************************************************************)
(* Because router.c:368 takes a different entry for the one it looks for,  *)
(* the cache never holds two addresses, only one, perhaps several times.   *)
(* Nobody wants this, yet all entries match a route then, or none does,    *)
(* which is how the copies that a drain of the queue sends are counted.    *)
(***************************************************************************)
OneAddress ==
  \A a, b \in DOMAIN arp_table : arp_table[a].ip = arp_table[b].ip

(***************************************************************************)
(* The inductive invariant behind all of these: what is known of a frame   *)
(* that waits to be read, and of one the router has sent, when the packets *)
(* of off were sent.                                                       *)
(***************************************************************************)
Inbound(i, f, off) ==
  /\ f.type = "ip" => /\ f \in off
                      /\ f.src \in Hosts /\ f.from = f.src /\ HostIface[f.src] = i
                      /\ PassedOn(f)
  /\ f.type # "ip" => f.sha = f.spa

Outbound(i, f, off) ==
  /\ f.type = "answer" => f.sha = f.spa
  /\ PassedOn(f) =>
       /\ f.to = Garbled
       /\ IsOffered(f, off)
       /\ \E x \in Lookup[f.dst] : x # NoRoute /\ OutIface[x] = i
  /\ f.type = "ip" /\ ~PassedOn(f) =>
       /\ f.to = f.dst /\ f.dst \in Hosts /\ HostIface[f.dst] = i
       /\ IsAnswer(f, off)

IndInv ==
  /\ TypeOK
  /\ OneAddress
  /\ CacheIsTrue
  /\ ReceivedWell
  /\ \A i \in Ifaces : \A k \in DOMAIN rx[i] : Inbound(i, rx[i][k], offered)
  /\ \A i \in Ifaces : \A k \in DOMAIN tx[i] : Outbound(i, tx[i][k], offered)
-----------------------------------------------------------------------------
(***************************************************************************)
(* README.txt:10: "pentru reply (arp_op == 2) daca ip-ul dat exista deja in*)
(* arp_Table, transmit toate pachetele din coada catre destinatie.(cele    *)
(* care au ruta pana la destinatie)": when the router handles an answer    *)
(* from an address it has an entry for, it sends the packets of the queue  *)
(* whose route leads there.                                                *)
(***************************************************************************)
LeadsTo(f, ip) == \E x \in Lookup[f.dst] : x # NoRoute /\ NextHop[x] = ip

SendsNow(f) ==
  \E j \in Ifaces : \E k \in DOMAIN tx'[j] :
    /\ tx'[j][k].type = "ip" /\ tx'[j][k].proto = f.proto
    /\ tx'[j][k].src = f.src /\ tx'[j][k].dst = f.dst /\ tx'[j][k].ttl = f.ttl

QueuedAreSent ==
  [][\A i \in Ifaces :
       RouterStep /\ Received(i, Head(rx[i])) /\ Head(rx[i]).type = "answer"
       /\ Cached(Head(rx[i]).spa) =>
         \A k \in DOMAIN q : LeadsTo(q[k], Head(rx[i]).spa) => SendsNow(q[k])]_vars
=============================================================================
