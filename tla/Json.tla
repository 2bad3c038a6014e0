-------------------------------- MODULE Json --------------------------------
(***************************************************************************)
(* All calls of a program that uses parson: those of JsonCalls, and those  *)
(* that go down a value, copy it or parse a text.                          *)
(***************************************************************************)
EXTENDS JsonText, JsonCalls

CONSTANTS
  Paths,      \* the names with dots between them
  Texts       \* what json_parse_string() is given

View == <<heap, held, refused>>

DeepCopy(v)    == Gain(LAMBDA h : json_value_deep_copy(h, v))
ParseString(s) == Live = {} /\ Gain(LAMBDA h : json_parse_string(h, s))

DotSetValue(o, name, v) ==
  Give("dotset", o, name, v, LAMBDA h : json_object_dotset_value(h, o, name, v))
DotSetString(o, name, s) ==
  Set("dotset", o, name, s, LAMBDA h, v : json_object_dotset_value(h, o, name, v))
DotRemove(o, name) ==
  Less("dotremove", o, name, LAMBDA h : json_object_dotremove_internal(h, o, name, TRUE))

Next ==
  \/ PlainCall
  \/ \E o \in Objects, name \in Paths :
       \/ \E v \in held : DotSetValue(o, name, v)
       \/ \E s \in Strings : DotSetString(o, name, s)
       \/ DotRemove(o, name)
  \/ \E v \in held : DeepCopy(v)
  \/ \E s \in Texts : ParseString(s)

Spec == Init /\ [][Next]_vars

(***************************************************************************)
(* Properties, besides those of JsonForest                                 *)
(***************************************************************************)

Fresh == [cells |-> <<>>, blocks |-> 0, lost |-> 0, fuel |-> 1000]
RECURSIVE Depth(_, _)
Depth(h, v) == Max({0} \cup {1 + Depth(h, w) : w \in Kids(h, v)})

\* What is serialised, pretty or not, is read back as the same value to the
\* last character, unless it is deeper than the parser goes. It is enough to look
\* at a value that is the only one held: the others can always be freed.
ReadBack ==
  \A v \in Live, pretty \in BOOLEAN : held = {v} =>
    LET s == Text(heap, v, pretty)
        r == json_parse_string(Fresh, s)
    IN  IF Depth(heap, v) > MAX_NESTING THEN r.v = NULL
        ELSE r.v # NULL /\ r.p = Len(s) + 1 /\ json_value_equals(heap, v, r.h, r.v)

\* Every string of few characters, whatever has to be escaped in it, is read
\* back as itself and as nothing else (json_serialize_string(), process_string()).
Characters == {QUOTE, BACKSLASH, "/", LF, TAB, NUL, ONE, "A", "u", "n"}
EscapesRoundTrip ==
  Live = {} => \A n \in 0 .. 3 : \A s \in [1 .. n -> Characters] :
                 LET k == get_quoted_string(Fresh, json_serialize_string(s), 1)
                 IN  k.chars = {s} /\ k.p = Len(json_serialize_string(s)) + 1

\* Wherever malloc() fails in it, json_value_deep_copy() gives either a whole
\* copy that shares nothing with the value, or nothing, and has then freed all
\* it had made; the value itself is left alone.
CopyIsWhole ==
  \A v \in Live : \A r \in Results(LAMBDA h : json_value_deep_copy(h, v)) :
    LET new == DOMAIN r.h.cells \ Live
    IN  /\ \A w \in Live : r.h.cells[w] = heap.cells[w]
        /\ r.h.blocks - Begin.blocks = Blocks(r.h, new)
        /\ IF r.v = NULL THEN new = {}
           ELSE Below(r.h, {r.v}) = new /\ json_value_equals(heap, v, r.h, r.v)

\* The text of an object or an array that is cut short is nothing, and leaves
\* nothing behind (client.c takes a token from such a text).
CutIsRejected ==
  \A v \in Live : held = {v} /\ heap.cells[v].type \in Containers =>
    LET s == Text(heap, v, FALSE)
    IN  \A n \in 0 .. Len(s) - 1 :
          LET r == json_parse_string(Fresh, SubSeq(s, 1, n))
          IN  r.v = NULL /\ DOMAIN r.h.cells = {} /\ r.h.blocks = 0

\* What is written is read back, all of it, as it was and not in part.
RoundTrip == ReadBack /\ EscapesRoundTrip /\ CutIsRejected

\* A value that has been set is found under its name, dotted or not, and one
\* that has been removed is not.
Found(h, c) == IF c.op \in {"dotset", "dotremove"}
               THEN json_object_dotget_value(h, c.at, c.name)
               ELSE json_object_get_value(h, c.at, c.name)
SetIsFound ==
  call'.ok => /\ call'.op \in {"set", "dotset"} => Found(heap', call') = call'.v
              /\ call'.op \in {"remove", "dotremove"} => Found(heap', call') = NULL

\* The object that has the pair a name ends at.
RECURSIVE Owner(_, _, _)
Owner(h, o, name) ==
  IF Dots(name) = {} THEN <<o, name>>
  ELSE LET v == json_object_get_value(h, o, First(name))
       IN  IF IsObject(h, v) THEN Owner(h, v, Rest(name)) ELSE <<o, First(name)>>

\* A call changes an object only under the name it was given: the other pairs
\* of an object that loses or gets one stay what they were.
OthersStay ==
  \A o \in Live \cap Live' :
    \A name \in Range(heap.cells[o].names) \cup Range(heap'.cells[o].names) :
      heap.cells[o].type = "object" /\ heap'.cells[o].type = "object" =>
        \/ json_object_get_value(heap, o, name) = json_object_get_value(heap', o, name)
        \/ call'.op \in {"set", "remove"} /\ <<o, name>> = <<call'.at, call'.name>>
        \/ call'.op \in {"dotset", "dotremove"} /\ <<o, name>> = Owner(heap, call'.at, call'.name)
        \/ call'.op = "clear" /\ call'.at = o

\* A call does to the pair it names what it says, and nothing to any other.
OnlyTheNamed == [][SetIsFound /\ OthersStay]_vars
=============================================================================
