----------------------------- MODULE JsonCalls ------------------------------
(***************************************************************************)
(* A program that uses parson: it makes values, links them, looks for them,*)
(* removes and frees them in any order, and malloc() may fail in any call. *)
(* It keeps to parson.h: it frees what it holds and nothing that it has    *)
(* given to an object or an array, and it makes no value a part of itself. *)
(*                                                                         *)
(* These are the calls that work on one object or array; the others are in *)
(* Json.                                                                   *)
(***************************************************************************)
EXTENDS JsonForest

CONSTANTS
  Names,      \* the names of values in an object
  Strings,    \* the strings set
  MaxValues,  \* most values at a time
  MaxContainers,  \* most objects and arrays among them
  MaxFuel     \* more calls of malloc() than any call makes

ASSUME NamesAssumption   == Names \subseteq Seq(STRING)
ASSUME StringsAssumption == Strings \cup {<<BAD>>} \subseteq Seq(STRING)

Call(op, o, name, v, ok) == [op |-> op, at |-> o, name |-> name, v |-> v, ok |-> ok]
Other(ok)                == [NoCall EXCEPT !.ok = ok]

\* What a call gives when malloc() never fails in it, or fails from the call's
\* n-th malloc() on, for each n that it makes. The blocks that earlier calls have
\* lost are left out of the count.
Begin == [heap EXCEPT !.blocks = @ - heap.lost, !.lost = 0]
Results(F(_)) ==
  LET Outcome(n) == F([Begin EXCEPT !.fuel = n])
      Calls      == MaxFuel - Outcome(MaxFuel).h.fuel
  IN  {LET r == Outcome(n) IN [r EXCEPT !.h = Spent(@)] : n \in {n \in 0 .. MaxFuel : n <= Calls}}
Result(F(_)) == F(Begin)

Returns(h, c, keeps) == /\ Cardinality(DOMAIN h.cells) <= MaxValues
                        /\ Cardinality({v \in DOMAIN h.cells : h.cells[v].type \in Containers})
                             <= MaxContainers
                        /\ heap' = h /\ call' = c /\ held' = keeps

\* What is made of nothing: a value, a copy, or what a text stands for.
Gain(F(_)) == \E r \in Results(F) :
                /\ Returns(r.h, Other(r.v # NULL), held \cup ({r.v} \ {NULL}))
                /\ UNCHANGED refused
Create(type, data) == Gain(LAMBDA h : json_value_init(h, type, data))

\* A value the program holds is given to an object or an array.
Give(op, o, name, v, F(_)) ==
  /\ v \in held /\ o \notin Below(heap, {v})
  /\ \E r \in Results(F) :
       /\ Returns(r.h, Call(op, o, name, v, r.ok), IF r.ok THEN held \ {v} ELSE held)
       /\ refused' = IF r.ok THEN refused \ {v}
                     ELSE IF op = "dotset" THEN refused \cup {v} ELSE refused
SetValue(o, name, v) ==
  Give("set", o, name, v, LAMBDA h : json_object_set_value(h, o, name, v))
AppendValue(a, v) ==
  Give("append", a, <<>>, v, LAMBDA h : json_array_append_value(h, a, v))
Replace(a, i, v) ==
  Give("replace", a, <<>>, v, LAMBDA h : json_array_replace_value(h, a, i, v))

\* json_object_set_string(), json_array_append_string() and their like make
\* the value themselves, and free it when they fail.
Set(op, o, name, s, Setter(_, _)) ==
  LET F(h) == LET n == json_value_init(h, "string", s)
                  r == Setter(n.h, n.v)
              IN  [h |-> IF r.ok THEN r.h ELSE json_value_free(r.h, n.v), ok |-> r.ok, v |-> n.v]
  IN  \E r \in Results(F) : /\ Returns(r.h, Call(op, o, name, r.v, r.ok), held)
                            /\ UNCHANGED refused
SetString(o, name, s) ==
  Set("set", o, name, s, LAMBDA h, v : json_object_set_value(h, o, name, v))
AppendString(a, s) ==
  Set("append", a, <<>>, s, LAMBDA h, v : json_array_append_value(h, a, v))
ReplaceString(a, i, s) ==
  Set("replace", a, <<>>, s, LAMBDA h, v : json_array_replace_value(h, a, i, v))

Less(op, o, name, F(_)) == /\ Returns(Result(F).h, Call(op, o, name, NULL, Result(F).ok), held)
                           /\ UNCHANGED refused
RemoveName(o, name) ==
  Less("remove", o, name, LAMBDA h : json_object_remove_internal(h, o, name, TRUE))
RemoveItem(a, i) == Less("item", a, <<>>, LAMBDA h : json_array_remove(h, a, i))
Clear(o)         == Less("clear", o, <<>>, LAMBDA h : Status(clear(h, o), TRUE))

Free(v) == /\ v \in held
           /\ Returns(json_value_free(Begin, v), Other(TRUE), held \ {v})
           /\ refused' = refused \ {v}

PlainCall ==
  \/ Create("object", <<>>) \/ Create("array", <<>>)
  \/ \E s \in Strings \cup {<<BAD>>} : Create("string", s)
  \/ \E o \in Objects, name \in Names :
       \/ \E v \in held : SetValue(o, name, v)
       \/ \E s \in Strings : SetString(o, name, s)
       \/ RemoveName(o, name)
  \/ \E a \in Arrays : \/ \E v \in held : AppendValue(a, v)
                       \/ \E s \in Strings : AppendString(a, s)
                       \/ \E i \in 1 .. Count(heap, a) + 1 :
                            \/ RemoveItem(a, i)
                            \/ \E v \in held : Replace(a, i, v)
                            \/ \E s \in Strings : ReplaceString(a, i, s)
  \/ \E o \in Objects \cup Arrays : Clear(o)
  \/ \E v \in held : Free(v)

\* The program that makes no other calls.
PlainSpec == Init /\ [][PlainCall]_vars
=============================================================================
