---------------------------- MODULE RouteTable -----------------------------
(***************************************************************************)
(* The routing table of router.c: quicksort() sorts it once, then          *)
(* get_best_route() looks destinations up, by binarySearch() and a walk    *)
(* back over the entries before the one it hit.                            *)
(*                                                                         *)
(* Addresses are the numbers the code compares: inet_addr() leaves the     *)
(* octets in network order, so that the FIRST octet is the least           *)
(* significant one.                                                        *)
(***************************************************************************)
EXTENDS Integers, Sequences, FiniteSets

CONSTANTS
  Size,        \* rtable_size, the lines of rtable.txt
  Entries,     \* the routes that may be listed: records with prefix and mask
  Dests,       \* the destinations looked up
  Masked(_, _)  \* bitwise and of two addresses

ASSUME RouteTableAssumption ==
  /\ Size \in Nat
  /\ \A e \in Entries : e.prefix \in Nat /\ e.mask \in Nat
  /\ \A d \in Dests, e \in Entries : Masked(d, e.mask) \in Nat

(***************************************************************************)
(* Netmasks are runs of leading ones, so of two the larger has all bits of *)
(* the other: what a long mask and a short one leave alike, every mask     *)
(* between them leaves alike.                                              *)
(***************************************************************************)
ASSUME NetmaskAssumption ==
  \A d \in Dests, e, f, g \in Entries :
    /\ e.mask >= f.mask /\ f.mask >= g.mask
    /\ Masked(d, e.mask) = Masked(d, g.mask)
    => Masked(d, f.mask) = Masked(d, g.mask)

Slots == 0..(Size - 1)

VARIABLES
  rtable,      \* the table
  listed,      \* history: the table as it was read
  pc,          \* "call", "scan" (quicksort), "ready" (sorted), "search",
               \* "walk" (get_best_route) and "done" (it returned)
  todo,        \* the calls of quicksort still to be made, a stack
  start, end, i, pIndex,   \* the variables of partition
  dest, l, r,  \* the arguments of binarySearch
  index        \* what get_best_route holds or returned

sortVars == <<rtable, listed, todo, start, end, i, pIndex>>
findVars == <<dest, l, r, index>>
vars == <<sortVars, findVars, pc>>

TypeOK ==
  /\ rtable \in [Slots -> Entries]
  /\ listed \in [Slots -> Entries]
  /\ pc \in {"call", "scan", "ready", "search", "walk", "done"}
  /\ todo \in Seq((0..Size) \X (-1..(Size - 1)))
  /\ start \in Int /\ end \in Int /\ i \in Int /\ pIndex \in Int
  /\ dest \in Dests
  /\ l \in 0..Size /\ r \in -1..(Size - 1) /\ index \in -1..(Size - 1)

\* router.c:141-145 (read_rtable fills the table in the order of the file).
Init ==
  /\ rtable \in [Slots -> Entries]
  /\ listed = rtable
  /\ pc = "call"
  /\ todo = << <<0, Size - 1>> >>
  /\ start = 0 /\ end = 0 /\ i = 0 /\ pIndex = 0
  /\ dest \in Dests
  /\ l = 0 /\ r = -1 /\ index = -1
-----------------------------------------------------------------------------
\* Mutant: an exchange without the copy aux.
Overwritten(a, b) == [rtable EXCEPT ![a] = rtable[b]]

\* router.c:45-67, swap().
Swapped(a, b) == [rtable EXCEPT ![a] = rtable[b], ![b] = rtable[a]]

\* Mutant: the shorter mask first.
BeforeByShorter(e, p) == \/ e.prefix < p.prefix
                         \/ e.prefix = p.prefix /\ e.mask < p.mask

\* The order partition() sorts by: by prefix, then the longer mask first.
Before(e, p) ==
  \/ e.prefix < p.prefix
  \/ e.prefix = p.prefix /\ e.mask > p.mask

\* router.c:84-91. A range of fewer than two entries is sorted.
Call ==
  /\ pc = "call"
  /\ todo # <<>>
  /\ LET range == Head(todo) IN
       IF range[1] < range[2]
       THEN /\ pc' = "scan"
            /\ start' = range[1] /\ end' = range[2]
            /\ i' = range[1] /\ pIndex' = range[1]
       ELSE UNCHANGED <<pc, start, end, i, pIndex>>
  /\ todo' = Tail(todo)
  /\ UNCHANGED <<rtable, listed, findVars>>

\* router.c:69-79: one round of the loop.
Scan ==
  /\ pc = "scan"
  /\ i < end
  /\ IF Before(rtable[i], rtable[end])
     THEN /\ rtable' = Swapped(i, pIndex)
          /\ pIndex' = pIndex + 1
     ELSE UNCHANGED <<rtable, pIndex>>
  /\ i' = i + 1
  /\ UNCHANGED <<listed, pc, todo, start, end, findVars>>

\* Mutants: the right part starts one entry late, or ends one late.
SkipOne(p)   == << <<start, p - 1>>, <<p + 2, end>> >>
OneTooFar(p) == << <<start, p - 1>>, <<p + 1, end + 1>> >>

\* The two calls quicksort() makes after partition() returned p.
Halves(p) == << <<start, p - 1>>, <<p + 1, end>> >>

\* router.c:80-81 and 88-89: the pivot takes its place.
Place ==
  /\ pc = "scan"
  /\ i = end
  /\ rtable' = Swapped(end, pIndex)
  /\ todo' = Halves(pIndex) \o todo
  /\ pc' = "call"
  /\ UNCHANGED <<listed, start, end, i, pIndex, findVars>>

Sorted ==
  /\ pc = "call"
  /\ todo = <<>>
  /\ pc' = "ready"
  /\ UNCHANGED <<sortVars, findVars>>
-----------------------------------------------------------------------------
Matches(e) == Masked(dest, e.mask) = e.prefix

\* router.c:113-115: a lookup starts.
Lookup ==
  /\ pc \in {"ready", "done"}
  /\ dest' \in Dests
  /\ l' = 0 /\ r' = Size - 1 /\ index' = -1
  /\ pc' = "search"
  /\ UNCHANGED sortVars

Mid == l + (r - l) \div 2

\* Mutants: the lower part leaves out one entry more, or keeps the middle.
LowerPartLess  == Mid - 2
LowerPartStays == Mid

LowerPart == Mid - 1

\* router.c:95-107: one call of binarySearch.
Probe ==
  /\ pc = "search"
  /\ r >= l
  /\ LET e == rtable[Mid] IN
     \/ /\ Matches(e)
        /\ index' = Mid /\ pc' = "walk"
        /\ UNCHANGED <<l, r>>
     \/ /\ Masked(dest, e.mask) < e.prefix
        /\ r' = LowerPart
        /\ UNCHANGED <<l, index, pc>>
     \/ /\ Masked(dest, e.mask) > e.prefix
        /\ l' = Mid + 1
        /\ UNCHANGED <<r, index, pc>>
  /\ UNCHANGED <<sortVars, dest>>

\* router.c:110 and 117-119: nothing matches.
Miss ==
  /\ pc = "search"
  /\ r < l
  /\ index' = -1
  /\ pc' = "done"
  /\ UNCHANGED <<sortVars, dest, l, r>>

\* Mutant: an entry of the same prefix need not match.
BetterByPrefix(e) == e.mask > rtable[index].mask /\ e.prefix = rtable[index].prefix

\* router.c:122: an entry worth going back to.
Better(e) ==
  /\ Matches(e)
  /\ e.mask > rtable[index].mask
  /\ e.prefix = rtable[index].prefix

\* router.c:121-123.
WalkBack ==
  /\ pc = "walk"
  /\ index > 0
  /\ Better(rtable[index - 1])
  /\ index' = index - 1
  /\ UNCHANGED <<sortVars, pc, dest, l, r>>

\* router.c:125-128.
Answer ==
  /\ pc = "walk"
  /\ index > 0 => ~Better(rtable[index - 1])
  /\ pc' = "done"
  /\ UNCHANGED <<sortVars, findVars>>

(***************************************************************************)
(* rtable[-1] is read when index is 0. The bytes before the table are the  *)
(* header of its heap block: prefix 0 and some mask. When the first entry  *)
(* has prefix 0 the walk may go there, and -1 is returned.                 *)
(***************************************************************************)
WalkOff ==
  /\ pc = "walk"
  /\ index = 0
  /\ rtable[0].prefix = 0
  /\ index' = -1
  /\ pc' = "done"
  /\ UNCHANGED <<sortVars, dest, l, r>>

Next ==
  \/ Call \/ Scan \/ Place \/ Sorted
  \/ Lookup \/ Probe \/ Miss \/ WalkBack \/ Answer \/ WalkOff

Spec == Init /\ [][Next]_vars

\* The program does not stop in the middle of a call.
FairSpec == Spec /\ WF_vars(Next /\ pc \notin {"ready", "done"})
-----------------------------------------------------------------------------
Sorting == pc \in {"call", "scan"}

(***************************************************************************)
(* Once quicksort() returned, no entry stands before one it should follow. *)
(***************************************************************************)
InOrder ==
  ~Sorting => \A a, b \in Slots : a < b => ~Before(rtable[b], rtable[a])

(* Sorting loses no entry and repeats none. *)
SameEntries ==
  \A a \in Slots : Cardinality({s \in Slots : rtable[s] = listed[a]})
                     = Cardinality({s \in Slots : listed[s] = listed[a]})

(***************************************************************************)
(* quicksort() and partition() sort: the entries are the ones that were    *)
(* listed, at every step, and stand in order at the end.                   *)
(***************************************************************************)
Sorts == InOrder /\ SameEntries

(***************************************************************************)
(* No access outside the table but the one before its first entry: all     *)
(* that partition() and binarySearch() touch is inside.                    *)
(***************************************************************************)
InsideTable ==
  /\ pc = "scan" => {i, end, pIndex} \subseteq Slots
  /\ pc = "search" /\ r >= l => Mid \in Slots
  /\ pc = "walk" => index \in Slots

(* A route that is returned matches the destination. *)
AnswerMatches == pc = "done" /\ index # -1 => index \in Slots /\ Matches(rtable[index])

(***************************************************************************)
(* Of the routes to one prefix the one returned has the longest mask that  *)
(* matches, when no prefix is listed twice with the same mask.             *)
(***************************************************************************)
SameNet(e, f) == e.prefix = f.prefix /\ e.mask = f.mask
ListedOnce    == \A a, b \in Slots : SameNet(listed[a], listed[b]) => a = b

LongestOfItsPrefix ==
  ListedOnce /\ pc = "done" /\ index # -1 =>
    \A s \in Slots :
      Matches(rtable[s]) /\ rtable[s].prefix = rtable[index].prefix
        => rtable[s].mask <= rtable[index].mask

(***************************************************************************)
(* In a table whose routes all have one mask, and none has prefix 0, a     *)
(* matching route is always found.                                         *)
(***************************************************************************)
OneMask ==
  /\ \A a, b \in Slots : listed[a].mask = listed[b].mask
  /\ \A a \in Slots : listed[a].prefix # 0

FoundIfOneMask ==
  OneMask /\ pc = "done" /\ (\E s \in Slots : Matches(rtable[s]))
    => index # -1

(***************************************************************************)
(* What get_best_route() returns: a route that matches, of its prefix the  *)
(* most specific, and one at all whenever the masks are equal.             *)
(***************************************************************************)
BestRoute == AnswerMatches /\ LongestOfItsPrefix /\ FoundIfOneMask

-----------------------------------------------------------------------------
(***************************************************************************)
(* The inductive invariant. While quicksort() runs, what is out of order   *)
(* lies within one of the ranges still to be sorted: the one partition()   *)
(* works on and those on the stack, which follow each other.               *)
(***************************************************************************)
RangesFollow ==
  /\ \A j, k \in DOMAIN todo : j < k => todo[j][2] < todo[k][1]
  /\ pc = "scan" => \A k \in DOMAIN todo : end < todo[k][1]
  /\ ~Sorting => todo = <<>>

Together(a, b) ==
  \/ pc = "scan" /\ start <= a /\ b <= end
  \/ \E k \in DOMAIN todo : todo[k][1] <= a /\ b <= todo[k][2]

NearlyInOrder ==
  \A a, b \in Slots :
    a < b => Together(a, b) \/ ~Before(rtable[b], rtable[a])

(* Before pIndex stands what goes before the pivot, from there to i what   *)
(* does not.                                                               *)
Partitioned ==
  pc = "scan" =>
    /\ 0 <= start /\ start <= pIndex /\ pIndex <= i /\ i <= end
    /\ start < end /\ end < Size
    /\ \A s \in start..(pIndex - 1) : Before(rtable[s], rtable[end])
    /\ \A s \in pIndex..(i - 1) : ~Before(rtable[s], rtable[end])

(* The table is the list with its lines exchanged. *)
Permutation(h) ==
  /\ h \in [Slots -> Slots]
  /\ \A a, b \in Slots : h[a] = h[b] => a = b
  /\ \A b \in Slots : \E a \in Slots : h[a] = b

Permuted ==
  \E h \in [Slots -> Slots] :
    Permutation(h) /\ \A s \in Slots : rtable[s] = listed[h[s]]

(* What may match is between l and r, when the masks are equal. *)
NotPassedBy ==
  OneMask /\ pc = "search" => \A s \in Slots : Matches(rtable[s]) => l <= s /\ s <= r

FoundMatches == pc = "walk" => Matches(rtable[index])

IndInv ==
  /\ TypeOK
  /\ InsideTable
  /\ RangesFollow
  /\ NearlyInOrder
  /\ Partitioned
  /\ Permuted
  /\ NotPassedBy
  /\ FoundMatches
  /\ BestRoute
-----------------------------------------------------------------------------
(* quicksort() and get_best_route() return. *)
Returns == []<>(pc \in {"ready", "done"})
-----------------------------------------------------------------------------
(***************************************************************************)
(* README.txt:5: "am cautat binar intrare care corespunde cerintelor(ip &  *)
(* mask == prefix)", the binary search looks for an entry that matches.    *)
(* But a probe that does not match chooses the half to go on in by the     *)
(* destination under that entry's mask, and an entry with a shorter mask   *)
(* that matches may be in the other (router.c:99-107).                     *)
(***************************************************************************)
MatchIsFound ==
  [][Miss => \A s \in Slots : ~Matches(rtable[s])]_vars
=============================================================================
