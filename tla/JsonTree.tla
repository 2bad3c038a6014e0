------------------------------ MODULE JsonTree ------------------------------
(***************************************************************************)
(* The functions of parson.c that go down a value: to the place that a name*)
(* with dots stands for, and all of it, to copy it.                        *)
(***************************************************************************)
EXTENDS JsonHeap

DOT == "."

\* The part of a name before its first dot, and the part behind it.
Dots(name) == {i \in 1 .. Len(name) : name[i] = DOT}
First(name) == SubSeq(name, 1, Min(Dots(name)) - 1)
Rest(name)  == SubSeq(name, Min(Dots(name)) + 1, Len(name))

IsObject(h, v) == v # NULL /\ h.cells[v].type = "object"

RECURSIVE json_object_dotget_value(_, _, _)
json_object_dotget_value(h, o, name) ==
  IF Dots(name) = {} THEN json_object_get_value(h, o, name)
  ELSE LET v == json_object_get_value(h, o, First(name))
       IN  IF IsObject(h, v) THEN json_object_dotget_value(h, v, Rest(name)) ELSE NULL

RECURSIVE json_object_dotremove_internal(_, _, _, _)
json_object_dotremove_internal(h, o, name, free_value) ==
  IF Dots(name) = {} THEN json_object_remove_internal(h, o, name, free_value)
  ELSE LET v == json_object_get_value(h, o, First(name))
       IN  IF IsObject(h, v)
           THEN json_object_dotremove_internal(h, v, Rest(name), free_value)
           ELSE Status(h, FALSE)

\* Objects are created for the parts of the name that are not there, and
\* freed, without the value, when there is no memory for one of them.
RECURSIVE json_object_dotset_value(_, _, _, _)
json_object_dotset_value(h, o, name, v) ==
  IF v = NULL THEN Status(h, FALSE)
  ELSE IF Dots(name) = {} THEN json_object_set_value(h, o, name, v)
  ELSE LET w == json_object_get_value(h, o, First(name))
       IN  IF w # NULL
           THEN IF IsObject(h, w) THEN json_object_dotset_value(h, w, Rest(name), v)
                ELSE Status(h, FALSE)
           ELSE LET n == json_value_init(h, "object", <<>>)
                IN  IF n.v = NULL THEN Status(n.h, FALSE)
                    ELSE LET r == json_object_dotset_value(n.h, n.v, Rest(name), v)
                             s == json_object_addn(r.h, o, First(name), n.v)
                             t == json_object_dotremove_internal(s.h, n.v, Rest(name), FALSE)
                         IN  IF ~r.ok THEN Status(json_value_free(r.h, n.v), FALSE)
                             ELSE IF ~s.ok THEN Status(json_value_free(t.h, n.v), FALSE)
                             ELSE s

\* Mutant: the part that could not be linked is not freed.
FreeCopyOnly(h, copy, part) == json_value_free(h, copy)

\* What is freed when there is no memory for the rest of a copy.
FreeCopies(h, copy, part) == json_value_free(json_value_free(h, copy), part)

\* A copy of a value and all below it; what there is of it is freed when
\* there is no memory for the rest.
RECURSIVE json_value_deep_copy(_, _)
json_value_deep_copy(h, v) ==
  LET c == h.cells[v]
      n == json_value_init(h, c.type, c.data)
      AddCopy(r, i) ==
        IF r.v = NULL THEN r
        ELSE LET k == json_value_deep_copy(r.h, c.vals[i])
                 s == IF c.type = "object" THEN json_object_addn(k.h, r.v, c.names[i], k.v)
                                           ELSE json_array_add(k.h, r.v, k.v)
             IN  IF k.v = NULL THEN Made(FreeCopies(k.h, r.v, NULL), NULL)
                 ELSE IF s.ok THEN Made(s.h, r.v)
                 ELSE Made(FreeCopies(s.h, r.v, k.v), NULL)
  IN  FoldLeft(AddCopy, n, [i \in 1 .. Len(c.vals) |-> i])
=============================================================================
