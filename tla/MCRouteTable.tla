--------------------------- MODULE MCRouteTable ----------------------------
(***************************************************************************)
(* Small instances of RouteTable: addresses of two octets of two bits,     *)
(* octet a.b being the number a + 4 * b as router.c reads it.              *)
(***************************************************************************)
EXTENDS RouteTable, Bitwise

Addresses == 0..15

\* The masks of length 0 to 4: 0.0, 2.0, 3.0, 3.2 and 3.3.
Masks == {0, 2, 3, 11, 15}

Routes(masks) == {e \in [prefix: Addresses, mask: masks] :
                    e.prefix & e.mask = e.prefix}

SomeRoutes == {e \in Routes(Masks) : e.prefix \in {0, 1, 2, 5}}
FlatRoutes == Routes({11})

BitAnd(a, b) == a & b
=============================================================================
