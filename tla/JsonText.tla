------------------------------ MODULE JsonText ------------------------------
(***************************************************************************)
(* The text of a value: the parser and the serialiser of parson.c.         *)
(*                                                                         *)
(* A text is a sequence of characters; a number, a word (true, false,      *)
(* null), the four digits of a \u and one level of indentation are one     *)
(* character here, and so are the control characters. A string comes back  *)
(* from the parser as the set of the strings it can be: none on failure.   *)
(***************************************************************************)
EXTENDS JsonTree

CONSTANT MAX_NESTING            \* 2048 in the code

END       == ""                 \* the \0 a text ends with
QUOTE     == "\""
BACKSLASH == "\\"
NUL == "NUL"   ONE == "ONE"   LF == "LF"   TAB == "TAB"
INDENT == "    "
\* Mutant: line ends are no white space.
NoLines == {" ", TAB, INDENT}

White   == {" ", LF, TAB, INDENT}
Control == {NUL, ONE, LF, TAB}  \* less than 0x20
Words   == {"true", "false", "null"}
Numbers == {"1", "-0.5"}        \* what strtod() takes and is_decimal() allows
Pair    == "d83d"               \* the first half of a surrogate pair, with
Half    == "de00"               \* the second half of it

Escape   == (QUOTE :> QUOTE) @@ (BACKSLASH :> BACKSLASH) @@ ("/" :> "/")
            @@ ("n" :> LF) @@ ("t" :> TAB)
\* \u and four digits that are a character by themselves
Unicode  == ("0000" :> NUL) @@ ("0001" :> ONE) @@ ("0041" :> "A")

(***************************************************************************)
(* The parser                                                              *)
(***************************************************************************)
At(s, p) == IF p \in 1 .. Len(s) THEN s[p] ELSE END

SKIP_WHITESPACES(s, p) == Min({q \in p .. p + Len(s) : At(s, q) \notin White})

\* The position behind the quote that ends a string, 0 if none does.
RECURSIVE skip_quotes(_, _)
skip_quotes(s, p) ==
  CASE At(s, p) = END -> 0
    [] At(s, p) = QUOTE -> p + 1
    [] At(s, p) = BACKSLASH -> IF At(s, p + 1) = END THEN 0 ELSE skip_quotes(s, p + 2)
    [] OTHER -> skip_quotes(s, p + 1)

\* A \u that is a character, a pair of them that is one, or neither.
parse_utf16(t) ==
  IF At(t, 3) \in DOMAIN Unicode THEN {<<Unicode[At(t, 3)], 3>>}
  ELSE IF IsPrefix(<<BACKSLASH, "u", Pair, BACKSLASH, "u", Half>>, t)
  THEN {<<"pair", 6>>}
  ELSE {}

\* The character an escape stands for, and how long the escape is.
Escaped(t) == IF At(t, 2) = "u" THEN parse_utf16(t)
              ELSE {<<Escape[c], 2>> : c \in {At(t, 2)} \cap DOMAIN Escape}

RECURSIVE process_string(_)
process_string(t) ==
  CASE t = <<>> -> {<<>>}
    [] Head(t) = BACKSLASH ->
         UNION {{<<e[1]>> \o r : r \in process_string(SubSeq(t, e[2] + 1, Len(t)))} :
                  e \in Escaped(t)}
    [] Head(t) \in Control -> {}
    [] OTHER -> {<<Head(t)>> \o r : r \in process_string(Tail(t))}

Parsed(h, p, v) == [h |-> h, p |-> p, v |-> v]
Failed(h)       == Parsed(h, 0, NULL)

\* Two blocks are asked for, the string as it may be and as it is.
get_quoted_string(h, s, p) ==
  LET q == IF At(s, p) = QUOTE THEN skip_quotes(s, p + 1) ELSE 0
      t == IF q > 0 THEN process_string(SubSeq(s, p + 1, q - 2)) ELSE {}
  IN  IF q > 0 /\ HasMemory(h, 2) /\ t # {}
      THEN [h |-> Release(Take(h, 2), 1), p |-> q, chars |-> t]
      ELSE [h |-> IF q > 0 /\ ~HasMemory(h, 2) THEN Spent(h) ELSE h,
            p |-> 0, chars |-> {}]

parse_string_value(h, s, p) ==
  LET k == get_quoted_string(h, s, p)
      n == Place(k.h, 1, "string", CHOOSE t \in k.chars : TRUE)
  IN  IF k.chars = {} THEN Failed(k.h)
      ELSE IF n.v # NULL THEN Parsed(n.h, k.p, n.v)
      ELSE Failed(Release(n.h, 1))

parse_word(h, s, p, type) ==
  LET n == json_value_init(h, type, <<At(s, p)>>) IN Parsed(n.h, p + 1, n.v)

\* Mutant: the end of the text closes what is open.
FinishAtEnd(h, s, p, o, close) ==
  LET r == resize(h, o, Count(h, o))
  IN  IF r.ok THEN Parsed(r.h, SKIP_WHITESPACES(s, p) + 1, o) ELSE Failed(json_value_free(r.h, o))

\* The end of a container: what it has too much of its tables is given back.
Finish(h, s, p, o, close) ==
  LET q == SKIP_WHITESPACES(s, p)
      r == resize(h, o, Count(h, o))
  IN  IF At(s, q) = close
      THEN IF r.ok THEN Parsed(r.h, q + 1, o) ELSE Failed(json_value_free(r.h, o))
      ELSE Failed(json_value_free(h, o))

RECURSIVE parse_value(_, _, _, _), Members(_, _, _, _, _), Items(_, _, _, _, _),
          Container(_, _, _, _, _, _)

\* The loop of parse_object_value(). A key with a \0 in it is not supported,
\* and not freed.
Members(h, s, p, nesting, o) ==
  LET k    == get_quoted_string(h, s, p)
      key  == CHOOSE t \in k.chars : TRUE
      q    == SKIP_WHITESPACES(s, k.p)
      r    == parse_value(k.h, s, q + 1, nesting)
      a    == json_object_addn(r.h, o, key, r.v)
      z    == SKIP_WHITESPACES(s, r.p)
      Drop(g) == Failed(json_value_free(Release(g, 1), o))
  IN  IF At(s, p) = END THEN Finish(h, s, p, o, "}")
      ELSE IF k.chars = {} THEN Failed(json_value_free(k.h, o))
      ELSE IF NUL \in Range(key)
      THEN Failed(json_value_free([k.h EXCEPT !.lost = @ + 1], o))
      ELSE IF At(s, q) # ":" THEN Drop(k.h)
      ELSE IF r.v = NULL THEN Drop(r.h)
      ELSE IF ~a.ok THEN Drop(json_value_free(a.h, r.v))
      ELSE IF At(s, z) = ","
      THEN Members(Release(a.h, 1), s, SKIP_WHITESPACES(s, z + 1), nesting, o)
      ELSE Finish(Release(a.h, 1), s, z, o, "}")

\* The loop of parse_array_value().
Items(h, s, p, nesting, o) ==
  LET r == parse_value(h, s, p, nesting)
      a == json_array_add(r.h, o, r.v)
      z == SKIP_WHITESPACES(s, r.p)
  IN  IF At(s, p) = END THEN Finish(h, s, p, o, "]")
      ELSE IF r.v = NULL THEN Failed(json_value_free(r.h, o))
      ELSE IF ~a.ok THEN Failed(json_value_free(json_value_free(a.h, r.v), o))
      ELSE IF At(s, z) = ","
      THEN Items(a.h, s, SKIP_WHITESPACES(s, z + 1), nesting, o)
      ELSE Finish(a.h, s, z, o, "]")

Container(h, s, p, nesting, type, close) ==
  LET n == json_value_init(h, type, <<>>)
      q == SKIP_WHITESPACES(s, p + 1)
  IN  IF n.v = NULL THEN Failed(n.h)
      ELSE IF At(s, q) = close THEN Parsed(n.h, q + 1, n.v)
      ELSE IF type = "object" THEN Members(n.h, s, q, nesting, n.v)
      ELSE Items(n.h, s, q, nesting, n.v)

parse_value(h, s, from, nesting) ==
  LET p == SKIP_WHITESPACES(s, from)
      c == At(s, p)
  IN  CASE nesting > MAX_NESTING -> Failed(h)
        [] nesting <= MAX_NESTING /\ c = "{" ->
             Container(h, s, p, nesting + 1, "object", "}")
        [] nesting <= MAX_NESTING /\ c = "[" ->
             Container(h, s, p, nesting + 1, "array", "]")
        [] nesting <= MAX_NESTING /\ c = QUOTE -> parse_string_value(h, s, p)
        [] nesting <= MAX_NESTING /\ c \in Numbers -> parse_word(h, s, p, "number")
        [] nesting <= MAX_NESTING /\ c \in Words -> parse_word(h, s, p, "word")
        [] OTHER -> Failed(h)

json_parse_string(h, s) == parse_value(h, s, 1, 0)

(***************************************************************************)
(* The serialiser                                                          *)
(***************************************************************************)
Concat(ss) == FoldLeft(LAMBDA s, t : s \o t, <<>>, ss)

\* Mutant: a backslash is written as it is.
EscapesFew(c) == CASE c \in {QUOTE, "/"} -> <<BACKSLASH, c>>
                   [] c = LF  -> <<BACKSLASH, "n">>
                   [] c = TAB -> <<BACKSLASH, "t">>
                   [] c = NUL -> <<BACKSLASH, "u", "0000">>
                   [] c = ONE -> <<BACKSLASH, "u", "0001">>
                   [] OTHER   -> <<c>>

\* parson_escape_slashes is 1.
Escapes(c) == CASE c \in {QUOTE, BACKSLASH, "/"} -> <<BACKSLASH, c>>
                [] c = LF  -> <<BACKSLASH, "n">>
                [] c = TAB -> <<BACKSLASH, "t">>
                [] c = NUL -> <<BACKSLASH, "u", "0000">>
                [] c = ONE -> <<BACKSLASH, "u", "0001">>
                [] OTHER   -> <<c>>

json_serialize_string(s) ==
  <<QUOTE>> \o Concat([i \in 1 .. Len(s) |-> Escapes(s[i])]) \o <<QUOTE>>

RECURSIVE json_serialize_to_buffer_r(_, _, _, _)
json_serialize_to_buffer_r(h, v, level, pretty) ==
  LET c == h.cells[v]
      n == Len(c.vals)
      Indent(k)  == IF pretty THEN [i \in 1 .. k |-> INDENT] ELSE <<>>
      NewLine    == IF pretty THEN <<LF>> ELSE <<>>
      Value(w)   == json_serialize_to_buffer_r(h, w, level + 1, pretty)
      Member(i)  == IF c.type = "array" THEN Value(c.vals[i])
                    ELSE json_serialize_string(c.names[i]) \o <<":">>
                         \o (IF pretty THEN <<" ">> ELSE <<>>)
                         \o Value(json_object_get_value(h, v, c.names[i]))
      Line(i)    == Indent(level + 1) \o Member(i)
                    \o (IF i < n THEN <<",">> ELSE <<>>) \o NewLine
      Open       == IF c.type = "object" THEN "{" ELSE "["
      Close      == IF c.type = "object" THEN "}" ELSE "]"
  IN  IF c.type = "string" THEN json_serialize_string(c.data)
      ELSE IF c.type \notin Containers THEN c.data
      ELSE <<Open>> \o (IF n > 0 THEN NewLine ELSE <<>>)
           \o Concat([i \in 1 .. n |-> Line(i)])
           \o (IF n > 0 THEN Indent(level) ELSE <<>>) \o <<Close>>

\* json_serialize_to_string() and json_serialize_to_string_pretty()
Text(h, v, pretty) == json_serialize_to_buffer_r(h, v, 0, pretty)

(***************************************************************************)
(* Comparing                                                               *)
(***************************************************************************)
RECURSIVE json_value_equals(_, _, _, _)
json_value_equals(h, a, g, b) ==
  LET c == h.cells[a]
      d == g.cells[b]
      Other(i) == IF c.type = "array" THEN d.vals[i]
                  ELSE json_object_get_value(g, b, c.names[i])
  IN  /\ c.type = d.type /\ c.data = d.data
      /\ Len(c.vals) = Len(d.vals)
      /\ \A i \in 1 .. Len(c.vals) :
           Other(i) # NULL /\ json_value_equals(h, c.vals[i], g, Other(i))
=============================================================================
