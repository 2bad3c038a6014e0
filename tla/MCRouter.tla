------------------------------ MODULE MCRouter ------------------------------
(***************************************************************************)
(* A router with two interfaces and two hosts, each the next hop of a route*)
(* to itself; nowhere is an address without a route.                       *)
(***************************************************************************)
EXTENDS RouterNet, TLC

CONSTANTS r0, r1, ann, ben, nowhere

McAddrs     == {r0, r1, ann, ben, nowhere}
McIfaceIp   == (0 :> r0) @@ (1 :> r1)
McNextHop   == (0 :> ann) @@ (1 :> ben)
McOutIface  == (0 :> 0) @@ (1 :> 1)
McHostIface == (ann :> 0) @@ (ben :> 1)
McLookup    == [d \in McAddrs |-> CASE d = ann -> {0}
                                    [] d = ben -> {1}
                                    [] OTHER   -> {NoRoute}]

Packet(p, d, t, g) == [proto |-> p, dst |-> d, ttl |-> t, good |-> g]

\* One packet for each way through the loop.
McOffers == { Packet("data", ann, 2, TRUE),    Packet("data", ben, 2, TRUE),
              Packet("data", ben, 2, FALSE),   Packet("data", ann, 1, TRUE),
              Packet("data", nowhere, 2, TRUE), Packet("echo", ben, 0, TRUE),
              Packet("echo", r0, 2, FALSE),    Packet("echo", r1, 1, TRUE) }
=============================================================================
