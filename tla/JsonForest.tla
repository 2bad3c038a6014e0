----------------------------- MODULE JsonForest -----------------------------
(***************************************************************************)
(* What parson.h promises of the values of a program, whatever it calls:   *)
(* they are trees, each value in one of them and in one place of it, and   *)
(* each tree the program's to free. A call makes a tree, hangs one into    *)
(* another, cuts some of one off or frees one; or it fails, and then it has*)
(* done nothing.                                                           *)
(***************************************************************************)
EXTENDS JsonHeap

VARIABLES
  heap,       \* see JsonHeap
  held,       \* the values the program has to free
  refused,    \* history: those that json_object_dotset_value() did not take
  call        \* history: the last call, its object, name, value and status

vars == <<heap, held, refused, call>>

Live       == DOMAIN heap.cells
Objects    == {o \in Live : heap.cells[o].type = "object"}
Arrays     == {a \in Live : heap.cells[a].type = "array"}

NoCall == [op |-> "none", at |-> NULL, name |-> <<>>, v |-> NULL, ok |-> TRUE]

Init == /\ heap = [cells |-> <<>>, blocks |-> 0, lost |-> 0, fuel |-> 0]
        /\ held = {} /\ refused = {} /\ call = NoCall

(***************************************************************************)
(* Properties                                                              *)
(***************************************************************************)
Types    == Containers \cup {"string", "number", "word"}
Cells    == [type : Types, data : Seq(STRING), parent : Nat,
             names : Seq(Seq(STRING)), vals : Seq(Nat), capacity : Nat]

\* A name for every value of an object, and no more of them than the tables hold.
Fits(c) == /\ Len(c.vals) <= c.capacity
           /\ Len(c.names) = IF c.type = "object" THEN Len(c.vals) ELSE 0

\* Types; what a table holds is in it.
TypeOK == /\ Live \subseteq Nat \ {NULL} /\ IsFiniteSet(Live)
          /\ heap.cells \in [Live -> Cells]
          /\ held \subseteq Live /\ refused \subseteq held
          /\ \A v \in Live : Fits(heap.cells[v])

\* No object has a name twice, whether set, dotted, copied or parsed.
NamesUnique == \A o \in Objects : IsInjective(heap.cells[o].names)

\* Every value is the program's or in one place of one container, and below
\* something the program holds: nothing is freed that is still linked, and
\* nothing is linked twice.
OneOwner == IsForest(heap, Live, held)

\* The values are well formed after every call, also one that failed: tables
\* not overrun, every value in one place, every name for one value.
WellFormed == TypeOK /\ OneOwner /\ NamesUnique

\* A value knows the container it is in. One that is in none may think it is
\* only if json_object_dotset_value() failed to set it: it is then taken by
\* no other object either.
ParentsMatch ==
  /\ \A o \in Live : \A v \in Kids(heap, o) : heap.cells[v].parent = o
  /\ \A v \in held : heap.cells[v].parent # NULL => v \in refused

\* All that malloc() gave and nobody freed is part of a value, but for the
\* keys the parser loses (parse_object_value()).
NothingLeaks == heap.lost \in Nat /\ heap.blocks = heap.lost + Blocks(heap, Live)

(***************************************************************************)
(* The contract                                                            *)
(***************************************************************************)
New     == Live' \ Live
Same(S) == \A v \in S : heap'.cells[v] = heap.cells[v]

\* The values T of h are one tree with the root r, and r is in p.
IsTree(h, T, r, p) ==
  /\ T \subseteq Nat \ {NULL} /\ IsFiniteSet(T)
  /\ IsForest(h, T, {r}) /\ h.cells[r].parent = p
  /\ \A v \in T : LET c == h.cells[v] IN
       /\ c \in Cells /\ Fits(c)
       /\ c.type = "object" => IsInjective(c.names)
       /\ \A w \in Kids(h, v) : h.cells[w].parent = v

\* A tree is made of nothing, and the program's.
Make == \E r \in New :
          /\ Live \subseteq Live' /\ Same(Live)
          /\ IsTree(heap', New, r, NULL)
          /\ held' = held \cup {r} /\ refused' = refused /\ call'.ok

\* What becomes of a container's cell c when w is put in it, in the place of
\* the values in old or behind the last.
Filled(c, d, w, old) ==
  /\ d = [c EXCEPT !.names = d.names, !.vals = d.vals, !.capacity = d.capacity]
  /\ \/ /\ old = {} /\ d.vals = Append(c.vals, w)
        /\ d.capacity \in Nat /\ d.capacity > Len(c.vals)
        /\ IF c.type # "object" THEN d.names = c.names
           ELSE LET name == Last(d.names)
                IN  /\ d.names = Append(c.names, name)
                    /\ name \in Seq(STRING) /\ name \notin Range(c.names)
     \/ \E i \in DOMAIN c.vals : old = {c.vals[i]} /\ d = [c EXCEPT !.vals[i] = w]

\* The values in v, one that the program holds or none, and those that are new
\* are put in the container o as one tree; what it replaces is freed.
Put(o, v, old) ==
  /\ o \notin Below(heap, v)
  /\ Live' = (Live \ Below(heap, old)) \cup New
  /\ Same(Live \ (Below(heap, old) \cup v \cup {o}))
  /\ \A x \in v : heap'.cells[x] = [heap.cells[x] EXCEPT !.parent = heap'.cells[x].parent]
  /\ \E w \in New \cup v : /\ IsTree(heap', New \cup Below(heap, v), w, o)
                           /\ Filled(heap.cells[o], heap'.cells[o], w, old)
  /\ held' = held \ v /\ refused' = refused \ v /\ call'.ok

\* What becomes of a container's cell c when the values in old leave it.
Emptied(c, d, old) ==
  \/ old = Range(c.vals) /\ d = [c EXCEPT !.names = <<>>, !.vals = <<>>]
  \/ \E i \in DOMAIN c.vals :
       /\ old = {c.vals[i]}
       /\ IF c.type = "object"
          THEN d = [c EXCEPT !.names = Without(@, i), !.vals = Without(@, i)]
          ELSE d = [c EXCEPT !.vals = RemoveAt(@, i)]

Cut(o, old) ==
  /\ Live' = Live \ Below(heap, old) /\ Same(Live' \ {o})
  /\ Emptied(heap.cells[o], heap'.cells[o], old)
  /\ UNCHANGED <<held, refused>> /\ call'.ok

Discard(v) == /\ Live' = Live \ Below(heap, {v}) /\ Same(Live')
              /\ held' = held \ {v} /\ refused' = refused \ {v} /\ call'.ok

\* A call that fails leaves the same values, each with what it had in it. A
\* table may have grown, and a value that was not taken may think it was.
Fail ==
  /\ ~call'.ok
  /\ Live' = Live /\ held' = held /\ refused \subseteq refused' /\ refused' \subseteq held
  /\ \A v \in Live : LET c == heap.cells[v]
                         d == heap'.cells[v]
                     IN  /\ d = [c EXCEPT !.capacity = d.capacity, !.parent = d.parent]
                         /\ d.capacity \in Nat /\ d.capacity >= c.capacity
                         /\ d.parent # c.parent => v \in refused' /\ d.parent \in Nat

\* The values that can be put somewhere, or replaced or removed there.
None(S)    == {{}} \cup {{v} : v \in S}
Removed(o) == None(Kids(heap, o)) \cup {Kids(heap, o)}

Keeps ==
  /\ heap'.cells = [v \in Live' |-> heap'.cells[v]]
  /\ \/ Make
     \/ Fail
     \/ \E o \in Live : \/ \E v \in None(held), old \in None(Kids(heap, o)) : Put(o, v, old)
                        \/ \E old \in Removed(o) : Cut(o, old)
     \/ \E v \in held : Discard(v)

\* Every call of the program keeps to what parson.h promises: it is whole, or it
\* fails and has changed nothing, wherever malloc() failed in it.
Contract == Init /\ [][Keeps]_vars
=============================================================================
