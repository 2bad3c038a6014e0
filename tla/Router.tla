------------------------------- MODULE Router -------------------------------
(***************************************************************************)
(* The forwarding loop of router.c. One action per branch: the program has *)
(* one thread and waits only in get_packet(), so a frame is taken and      *)
(* handled in one step; frames arrive, and leave the wires, in between.    *)
(*                                                                         *)
(* A hardware address is written as the IP address of its owner.           *)
(***************************************************************************)
EXTENDS Integers, Sequences, FiniteSets

CONSTANTS
  Addrs,        \* IP addresses
  Ifaces,       \* the interfaces, 0..ROUTER_NUM_INTERFACES-1
  IfaceIp,      \* IfaceIp[i]: the router's address on interface i
  Routes,       \* the positions of the routing table
  NextHop, OutIface,    \* NextHop[x], OutIface[x]: of the route at position x
  Lookup,       \* Lookup[d]: what get_best_route(d) may return, see RouteTable
  Words,        \* the addresses an ARP frame may hold in place of an IP header's
  MaxTtl        \* bound: the initial time to live, 64 in the code

NoRoute   == -1
Broadcast == "broadcast"
Garbled   == "garbled"    \* what bytes of the heap make as one, see SendGarbled
Macs      == Addrs \cup {Broadcast, Garbled}

ASSUME RouterAssumption ==
  /\ Ifaces \subseteq Nat
  /\ IfaceIp \in [Ifaces -> Addrs]
  /\ Routes \subseteq Nat
  /\ NextHop \in [Routes -> Addrs]
  /\ OutIface \in [Routes -> Ifaces]
  /\ Lookup \in [Addrs -> SUBSET (Routes \cup {NoRoute})]
  /\ Words \subseteq Addrs
  /\ MaxTtl \in Nat \ {0}
  /\ {Broadcast, Garbled} \cap Addrs = {}

(***************************************************************************)
(* Frames. "good" says whether the checksum of the IP header is right.     *)
(* "word" is what an ARP frame holds where an IP header has its            *)
(* destination: the end of its sender's IP address and the beginning of its*)
(* target's hardware address, which may be any address.                    *)
(***************************************************************************)
Protocols == {"echo", "reply", "unreachable", "timeout", "data"}

Packets == [type: {"ip"}, proto: Protocols, src: Addrs, dst: Addrs,
            ttl: 0..MaxTtl, good: BOOLEAN, from: Macs, to: Macs]

ArpFrames == [type: {"request", "answer"}, spa: Addrs, sha: Macs, tpa: Addrs,
              word: Words, from: Macs, to: Macs]

Frames == Packets \cup ArpFrames

VARIABLES
  rx,         \* rx[i]: frames waiting to be read on interface i
  tx,         \* tx[i]: frames on the wire of interface i
  arp_table,  \* the ARP cache, entries with ip and mac
  q           \* the packets queue_enq was called for. Each element of the
              \* queue is the address of the ONE packet m of main(), so what
              \* queue_deq returns is the frame received last; the packet
              \* itself is kept here as history

routerVars == <<rx, tx, arp_table, q>>

RouterTypeOK ==
  /\ rx \in [Ifaces -> Seq(Frames)]
  /\ tx \in [Ifaces -> Seq(Frames)]
  /\ arp_table \in Seq([ip: Addrs, mac: Macs])
  /\ q \in Seq(Packets)

RouterInit ==
  /\ rx = [i \in Ifaces |-> <<>>]
  /\ tx = [i \in Ifaces |-> <<>>]
  /\ arp_table = <<>>
  /\ q = <<>>
-----------------------------------------------------------------------------
(***************************************************************************)
(* skel.c:49-71. Of the interfaces with a frame the lowest is served.      *)
(***************************************************************************)
Received(i, f) ==
  /\ rx[i] # <<>>
  /\ \A j \in Ifaces : j < i => rx[j] = <<>>
  /\ f = Head(rx[i])
  /\ rx' = [rx EXCEPT ![i] = Tail(@)]

\* send_packet(i, .) for the frames of a sequence.
Send(i, frames) == tx' = [tx EXCEPT ![i] = @ \o frames]

\* An answer goes to where the frame came from.
Turned(f) == [f EXCEPT !.from = f.to, !.to = f.from, !.src = f.dst, !.dst = f.src,
                       !.ttl = MaxTtl, !.good = TRUE]

\* Mutants: the type of the message stays; the hardware addresses stay.
SameProto(f, p) == Turned(f)
SameMacs(f, p)  == [Turned(f) EXCEPT !.proto = p, !.from = f.from, !.to = f.to]

\* The router's own message about f.
Message(f, p) == [Turned(f) EXCEPT !.proto = p]

IsEchoForMe(i, f) == f.proto = "echo" /\ f.dst = IfaceIp[i]

\* router.c:165-192. The checksum of the request is not looked at.
EchoReply(i, f) ==
  /\ Received(i, f)
  /\ f.type = "ip"
  /\ IsEchoForMe(i, f)
  /\ Send(i, <<Message(f, "reply")>>)
  /\ UNCHANGED <<arp_table, q>>

\* What is left to the rest of the branch, with what get_best_route returned.
Routed(i, f, x) ==
  /\ Received(i, f)
  /\ f.type = "ip"
  /\ ~IsEchoForMe(i, f)
  /\ x \in Lookup[f.dst]

\* router.c:195-222.
Unreachable(i, f, x) ==
  /\ Routed(i, f, x)
  /\ x = NoRoute
  /\ Send(i, <<Message(f, "unreachable")>>)
  /\ UNCHANGED <<arp_table, q>>

\* Mutant: none is.
NeverOver(f) == FALSE

Over(f) == f.ttl <= 1

\* router.c:225-257.
TimeExceeded(i, f, x) ==
  /\ Routed(i, f, x)
  /\ x # NoRoute
  /\ Over(f)
  /\ Send(i, <<Message(f, "timeout")>>)
  /\ UNCHANGED <<arp_table, q>>

\* router.c:262-266: nothing is done with a packet whose checksum is wrong.
DropBad(i, f, x) ==
  /\ Routed(i, f, x)
  /\ x # NoRoute
  /\ ~Over(f)
  /\ ~f.good
  /\ UNCHANGED <<tx, arp_table, q>>

\* Mutant: the time to live stays.
SameTtl(f) == f

\* router.c:267-270.
Aged(f) == [f EXCEPT !.ttl = f.ttl - 1]

ToForward(i, f, x) ==
  /\ Routed(i, f, x)
  /\ x # NoRoute
  /\ ~Over(f)
  /\ f.good

\* router.c:274-282.
Cached(ip) == \E k \in DOMAIN arp_table : arp_table[k].ip = ip

(***************************************************************************)
(* router.c:284-290: no entry for the next hop. The packet is sent with    *)
(* five bytes from before the cache as its hardware address: bookkeeping of*)
(* the heap, which may look like a group address, that every host on the   *)
(* wire listens to, or like one that is nobody's.                          *)
(***************************************************************************)
SendGarbled(i, f, x) ==
  /\ ToForward(i, f, x)
  /\ ~Cached(NextHop[x])
  /\ Send(OutIface[x], <<[Aged(f) EXCEPT !.from = f.to, !.to = Garbled]>>)
  /\ UNCHANGED <<arp_table, q>>

(***************************************************************************)
(* router.c:293-323: there is an entry. The packet is queued, and a request*)
(* for the address of the next hop goes out where the packet came in.      *)
(***************************************************************************)
QueueAndAsk(i, f, x) ==
  /\ ToForward(i, f, x)
  /\ Cached(NextHop[x])
  /\ q' = Append(q, Aged(f))
  /\ \E w \in Words :
       LET mine == IfaceIp[OutIface[x]] IN
       Send(i, <<[type |-> "request", spa |-> mine, sha |-> mine,
                  tpa |-> NextHop[x], word |-> w, from |-> mine,
                  to |-> Broadcast]>>)
  /\ UNCHANGED arp_table
-----------------------------------------------------------------------------
\* Mutant: the IP addresses are not exchanged.
Unswapped(i, f, w) ==
  [type |-> "answer", spa |-> f.spa, sha |-> IfaceIp[i], tpa |-> f.tpa,
   word |-> w, from |-> IfaceIp[i], to |-> f.from]

\* router.c:337-361.
ArpReply(i, f, w) ==
  [type |-> "answer", spa |-> f.tpa, sha |-> IfaceIp[i], tpa |-> f.spa,
   word |-> w, from |-> IfaceIp[i], to |-> f.from]

\* router.c:330-361: a request for the address of the interface it came in on.
AnswerArp(i, f) ==
  /\ Received(i, f)
  /\ f.type = "request"
  /\ f.tpa = IfaceIp[i]
  /\ \E w \in Words : Send(i, <<ArpReply(i, f, w)>>)
  /\ UNCHANGED <<arp_table, q>>

\* router.c:334.
IgnoreArp(i, f) ==
  /\ Received(i, f)
  /\ f.type = "request"
  /\ f.tpa # IfaceIp[i]
  /\ UNCHANGED <<tx, arp_table, q>>

\* router.c:366-372: memcmp() is not 0 where the addresses DIFFER.
Found(f) == \E k \in DOMAIN arp_table : arp_table[k].ip # f.spa

(***************************************************************************)
(* router.c:385-403: the queue is gone through and filled again. Whatever  *)
(* it holds is the answer itself, which is sent, once per element and      *)
(* matching entry, back to the interface it came in on.                    *)
(***************************************************************************)
Matching(table, x) ==
  {k \in DOMAIN table : x # NoRoute /\ table[k].ip = NextHop[x]}

\* The member of a set of numbers that has n smaller ones.
Nth(P, n) == CHOOSE k \in P : Cardinality({l \in P : l < k}) = n

AnswerCopies(table, f, x) ==
  LET P == Matching(table, x)
  IN [k \in 1..(Len(q) * Cardinality(P)) |->
        [f EXCEPT !.to = table[Nth(P, (k - 1) % Cardinality(P))].mac]]

\* router.c:364-404.
LearnAndDrain(i, f, x) ==
  /\ Received(i, f)
  /\ f.type = "answer"
  /\ x \in Lookup[f.word]
  /\ arp_table' = IF Found(f) THEN arp_table
                  ELSE Append(arp_table, [ip |-> f.spa, mac |-> f.sha])
  /\ Send(i, AnswerCopies(arp_table', f, x))
  /\ UNCHANGED q

HandleFrame(i, f) ==
  \/ EchoReply(i, f)
  \/ AnswerArp(i, f) \/ IgnoreArp(i, f)
  \/ \E x \in Routes \cup {NoRoute} :
       \/ Unreachable(i, f, x) \/ TimeExceeded(i, f, x) \/ DropBad(i, f, x)
       \/ SendGarbled(i, f, x) \/ QueueAndAsk(i, f, x)
       \/ LearnAndDrain(i, f, x)

RouterStep == \E i \in Ifaces : rx[i] # <<>> /\ HandleFrame(i, Head(rx[i]))
=============================================================================
