------------------------------- MODULE MCRest -------------------------------
(***************************************************************************)
(* The REST client with two users and a service that accepts, refuses and  *)
(* ends connections when it likes.                                         *)
(***************************************************************************)
EXTENDS RestClient, TLC

McUsers == {"ana", "ben"}

McSymbols == McUsers \cup {"no answer", "status", CRLF, "Content-Length: ", "content-length: ",
  SID, ";", JSON, TOKEN, "error", "book", CLOSE, LIST, "]"} \cup {Digits[i] : i \in 1 .. Len(Digits)}

McPages == { [digits |-> TRUE,  value |-> 0],     \* not positive
             [digits |-> TRUE,  value |-> 3],
             [digits |-> TRUE,  value |-> 5],     \* negative as an int
             [digits |-> TRUE,  value |-> 9],     \* another number as an int
             [digits |-> FALSE, value |-> 3] }    \* digits, then letters

\* A response with its status, a cookie, perhaps a length, and a body.
Response(cookie, length, body) ==
  <<"status", CRLF>> \o cookie \o length \o <<CRLF>> \o body
WithLength(body) == <<"Content-Length: ", Digits[Len(body) + 1], CRLF>>

\* Every answer comes with its length and, closing the connection, without.
Both(cookie, body) == { Response(cookie, WithLength(body), body),
                        Response(cookie, <<>>, body) }

Refused == Both(<<>>, <<JSON, "error", CLOSE>>)
Granted(q) ==
  CASE q.op \in {"register", "logout"} -> Both(<<>>, <<>>)
    [] q.op = "login" /\ q.owner \in McUsers ->
         Both(<<SID, q.owner, ";", CRLF>>, <<>>)
    [] q.op = "enter_library" /\ q.owner \in McUsers ->
         Both(<<>>, <<JSON, TOKEN, q.owner, CLOSE>>)
    [] q.op = "get_books" /\ q.token \in McUsers ->
         Both(<<>>, <<LIST, "]">>) \cup Both(<<>>, <<LIST, JSON, "book", CLOSE, "]">>)
    [] q.op = "get_book" /\ q.token \in McUsers ->
         Both(<<>>, <<LIST, JSON, "book", CLOSE, "]">>)
    [] q.op \in {"add_book", "delete_book"} /\ q.token \in McUsers ->
         Both(<<>>, <<>>)
    [] OTHER -> {}

McAnswers == [q \in Asks |-> Refused \cup Granted(q)]
=============================================================================
