------------------------------ MODULE JsonHeap ------------------------------
(***************************************************************************)
(* The values of parson.c in memory: objects, arrays, strings and the rest,*)
(* and the functions that create, link and free them.                      *)
(*                                                                         *)
(* A heap h has the live values in h.cells, by the number that stands for  *)
(* their address, the blocks malloc() has given and free() not taken back  *)
(* in h.blocks, those that nobody can free any more in h.lost, and in      *)
(* h.fuel how often malloc() will still succeed. A function that changes   *)
(* the heap gives the heap after the call.                                 *)
(***************************************************************************)
EXTENDS Integers, Sequences, SequencesExt, FiniteSetsExt

CONSTANT STARTING_CAPACITY      \* 16 in the code
ASSUME CapacityAssumption == STARTING_CAPACITY \in Nat \ {0}

NULL == 0
BAD  == "bad byte"              \* stands for bytes that are not UTF-8

Containers == {"object", "array"}

\* What a value is made of: itself, and its characters or its object or array.
Parts(type)  == IF type \in Containers \cup {"string"} THEN 2 ELSE 1
\* The blocks a container's names and values are kept in.
Tables(type) == IF type = "object" THEN 2 ELSE 1

Owned(c) == Parts(c.type) + Len(c.names) + (IF c.capacity > 0 THEN Tables(c.type) ELSE 0)

\* The blocks of some values.
Blocks(h, T) == MapThenSumSet(LAMBDA v : Owned(h.cells[v]), T)

Cell(type, data) == [type |-> type, data |-> data, parent |-> NULL,
                     names |-> <<>>, vals |-> <<>>, capacity |-> 0]

Status(h, ok) == [h |-> h, ok |-> ok]
Made(h, v)    == [h |-> h, v |-> v]

\* n calls of malloc(). When one of them fails those before it are freed.
HasMemory(h, n) == h.fuel >= n
Take(h, n)      == [h EXCEPT !.fuel = @ - n, !.blocks = @ + n]
Spent(h)        == [h EXCEPT !.fuel = 0]
Release(h, n)   == [h EXCEPT !.blocks = @ - n]

Address(h) == CHOOSE n \in 1 .. Cardinality(DOMAIN h.cells) + 1 : n \notin DOMAIN h.cells

\* The cells with the one of v.
With(cells, v, cell) == [x \in DOMAIN cells \cup {v} |-> IF x = v THEN cell ELSE cells[x]]

\* A new value, for which n blocks are still to be had.
Place(h, n, type, data) ==
  IF HasMemory(h, n)
  THEN Made([Take(h, n) EXCEPT !.cells = With(@, Address(h), Cell(type, data))], Address(h))
  ELSE Made(Spent(h), NULL)

\* json_value_init_object(), _array(), _string(), _number(), _boolean(), _null()
json_value_init(h, type, data) ==
  IF type = "string" /\ BAD \in Range(data) THEN Made(h, NULL)
  ELSE Place(h, Parts(type), type, data)

Kids(h, v)   == Range(h.cells[v].vals)
Closed(h, S) == \A v \in S : Kids(h, v) \subseteq S

\* Some values and all below them.
Below(h, roots) ==
  {w \in DOMAIN h.cells :
     \A S \in SUBSET DOMAIN h.cells : roots \subseteq S /\ Closed(h, S) => w \in S}

\* Each value of T is once among the roots or in one place of one value of T.
EachOnce(h, T, roots) ==
  /\ roots \subseteq T
  /\ \A v \in T : Kids(h, v) \subseteq T \ roots /\ IsInjective(h.cells[v].vals)
  /\ \A v, w \in T : v # w => Kids(h, v) \cap Kids(h, w) = {}

\* T is the trees of some roots.
IsForest(h, T, roots) == EachOnce(h, T, roots) /\ T = Below(h, roots)

\* To free what is not there, or a value twice, is the end; the heap shows it.
FreeAll(h, roots) ==
  LET T == Below(h, roots)
  IN  IF EachOnce(h, T, roots)
      THEN [Release(h, Blocks(h, T)) EXCEPT
              !.cells = [w \in DOMAIN h.cells \ T |-> h.cells[w]]]
      ELSE [h EXCEPT !.blocks = -1000]

json_value_free(h, v) == IF v = NULL THEN h ELSE FreeAll(h, {v})

Count(h, o) == Len(h.cells[o].vals)
Index(h, o, name) == {i \in 1 .. Len(h.cells[o].names) : h.cells[o].names[i] = name}

json_object_get_value(h, o, name) ==
  IF Index(h, o, name) = {} THEN NULL ELSE h.cells[o].vals[Min(Index(h, o, name))]

\* json_object_resize() and json_array_resize()
resize(h, o, capacity) ==
  LET c == h.cells[o]
      n == Tables(c.type)
  IN  IF capacity > 0 /\ HasMemory(h, n)
      THEN Status([Release(Take(h, n), IF c.capacity > 0 THEN n ELSE 0) EXCEPT
                     !.cells[o].capacity = capacity], TRUE)
      ELSE Status(IF capacity > 0 THEN Spent(h) ELSE h, FALSE)

\* Mutant: a full table is noticed one pair too late.
RoomLate(h, o) == IF Count(h, o) > h.cells[o].capacity
                  THEN resize(h, o, Max({2 * h.cells[o].capacity, STARTING_CAPACITY}))
                  ELSE Status(h, TRUE)

\* Room for one more, in a table twice as large where there is none.
Room(h, o) == IF Count(h, o) >= h.cells[o].capacity
              THEN resize(h, o, Max({2 * h.cells[o].capacity, STARTING_CAPACITY}))
              ELSE Status(h, TRUE)

\* The container o gets the cell c, and v is in it.
Hang(h, o, c, v) == [h EXCEPT !.cells = [[@ EXCEPT ![o] = c] EXCEPT ![v].parent = o]]

\* A new pair; also the mutant of json_object_addn() that does not look for
\* the name first.
AddPair(h, o, name, v) ==
  LET r == Room(h, o)
      c == [r.h.cells[o] EXCEPT !.names = Append(@, name), !.vals = Append(@, v)]
  IN  IF r.ok /\ HasMemory(r.h, 1) THEN Status(Hang(Take(r.h, 1), o, c, v), TRUE)
                                   ELSE Status(r.h, FALSE)

json_object_addn(h, o, name, v) ==
  IF json_object_get_value(h, o, name) # NULL THEN Status(h, FALSE)
  ELSE AddPair(h, o, name, v)

json_array_add(h, a, v) ==
  LET r == Room(h, a)
  IN  IF r.ok THEN Status(Hang(r.h, a, [r.h.cells[a] EXCEPT !.vals = Append(@, v)], v), TRUE)
              ELSE r

\* Mutants: the last value is moved and the last name is not; the name is
\* not freed.
HalfMoved(h, o, i) ==
  [Release(h, 1) EXCEPT !.cells[o].names = Front(@), !.cells[o].vals = RemoveAt(@, i)]
NameKept(h, o, i) ==
  [h EXCEPT !.cells[o].names = RemoveAt(@, i), !.cells[o].vals = RemoveAt(@, i)]

\* A pair goes, and the last one takes its place.
Without(s, i)     == Front([s EXCEPT ![i] = Last(s)])
DropPair(h, o, i) ==
  LET c == h.cells[o]
  IN  [Release(h, 1) EXCEPT
         !.cells[o] = [c EXCEPT !.names = Without(@, i), !.vals = Without(@, i)]]

json_object_remove_internal(h, o, name, free_value) ==
  IF Index(h, o, name) = {} THEN Status(h, FALSE)
  ELSE LET i == Min(Index(h, o, name))
           v == h.cells[o].vals[i]
       IN  Status(DropPair(IF free_value THEN json_value_free(h, v) ELSE h, o, i), TRUE)

\* Mutants: the value is not told where it is; the old pair is removed before
\* there is room for the new one.
SetUntold(h, o, name, v) ==
  LET old == json_object_get_value(h, o, name)
  IN  IF v = NULL \/ h.cells[v].parent # NULL THEN Status(h, FALSE)
      ELSE IF old = NULL THEN json_object_addn(h, o, name, v)
      ELSE Status([json_value_free(h, old) EXCEPT
                     !.cells[o].vals[Min(Index(h, o, name))] = v], TRUE)
RemoveThenAdd(h, o, name, v) ==
  IF v = NULL \/ h.cells[v].parent # NULL THEN Status(h, FALSE)
  ELSE json_object_addn(json_object_remove_internal(h, o, name, TRUE).h, o, name, v)

\* The old value is freed, the new one is not copied.
json_object_set_value(h, o, name, v) ==
  IF v = NULL \/ h.cells[v].parent # NULL THEN Status(h, FALSE)
  ELSE LET old == json_object_get_value(h, o, name)
       IN  IF old = NULL THEN json_object_addn(h, o, name, v)
           ELSE LET c == [h.cells[o] EXCEPT !.vals[Min(Index(h, o, name))] = v]
                IN  Status(Hang(json_value_free(h, old), o, c, v), TRUE)

json_array_remove(h, a, i) ==
  IF i > Count(h, a) THEN Status(h, FALSE)
  ELSE Status([json_value_free(h, h.cells[a].vals[i]) EXCEPT
                 !.cells[a].vals = RemoveAt(@, i)], TRUE)

\* Mutant: the old value is not freed.
ReplaceOnly(h, a, i, v) ==
  IF v = NULL \/ h.cells[v].parent # NULL \/ i > Count(h, a) THEN Status(h, FALSE)
  ELSE Status([h EXCEPT !.cells[v].parent = a, !.cells[a].vals[i] = v], TRUE)

json_array_replace_value(h, a, i, v) ==
  IF v = NULL \/ h.cells[v].parent # NULL \/ i > Count(h, a) THEN Status(h, FALSE)
  ELSE LET c == [h.cells[a] EXCEPT !.vals[i] = v]
       IN  Status(Hang(json_value_free(h, h.cells[a].vals[i]), a, c, v), TRUE)

json_array_append_value(h, a, v) ==
  IF v = NULL \/ h.cells[v].parent # NULL THEN Status(h, FALSE) ELSE json_array_add(h, a, v)

\* json_object_clear() and json_array_clear(): the tables stay.
clear(h, o) == LET c == h.cells[o]
               IN  [Release(FreeAll(h, Kids(h, o)), Len(c.names)) EXCEPT
                      !.cells[o] = [@ EXCEPT !.names = <<>>, !.vals = <<>>]]
=============================================================================
