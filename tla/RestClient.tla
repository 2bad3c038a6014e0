----------------------------- MODULE RestClient -----------------------------
(***************************************************************************)
(* The loop of client.c: one connection per command, the session cookie in *)
(* cookies[0] and the access token of the library in cookies[1]. A cookie  *)
(* and a token are written as the user they were given to.                 *)
(***************************************************************************)
EXTENDS HttpExchange

CONSTANTS
  Users,      \* who may register and log in
  PageWords,  \* what may be typed for page_count, see isNumber and atoi
  IntMod      \* int counts modulo this, 2^32 in the code

VARIABLES
  cookies,    \* cookies[0], cookies[1]
  saved,      \* strtok() has been given a string, and remembers its rest
  entry,      \* what add_book has asked for
  printed,    \* what the last command has printed
  session     \* history: what the commands so far have done, see Session

client == <<cookies, saved, entry, printed, session>>
vars   == <<stage, fds, exchange, client>>

JUNK     == "junk"      \* a part of a response that is not a cookie's value
NULLTEXT == "(null)"    \* what sprintf() makes of a null pointer
Fields   == Users \cup {NULL, JUNK, NULLTEXT}

Ops == {"none", "register", "login", "enter_library", "get_books", "get_book",
        "add_book", "delete_book", "logout", "exit"}

\* What may be sent. NULL: the header is not there.
Requests == [op : Ops, user : Users \cup {NULL}, cookie : Fields,
             token : Fields, pages : Int]
Asks     == [op : Ops, owner : Fields, token : Fields]
NoRequest == [op |-> "none", user |-> NULL, cookie |-> NULL, token |-> NULL, pages |-> 0]

JSON     == "{\""               \* basic_extract_json_response()
SID      == "connect.sid="
LIST     == "["
TOKEN    == "token"
CLOSE    == "}"
NoEntry  == [pages |-> [digits |-> TRUE, value |-> 1], author |-> FALSE]

\* The service answers with a length or without; what it says for whom is
\* right, and what it says in JSON can be found.
strstr(s, c) == buffer_find(s, <<c>>)
Framed(a) == LET h == HeaderEnd(a)
             IN  /\ h >= 0
                 /\ LengthStart(a) >= 0 => /\ LengthStart(a) < h
                                           /\ h + LengthAt(a) = Len(a)
Expected(op, a) ==
  \/ strstr(a, JSON) >= 0
  \/ op \notin {"login", "enter_library", "get_books", "get_book"}
  \/ op = "login"     /\ strstr(a, SID) >= 0 /\ strstr(a, SID) + 2 <= Len(a)
  \/ op = "get_books" /\ strstr(a, LIST) >= 0

ASSUME RestAssumption ==
  /\ {LENGTH[1], NoAnswer[1]} \subseteq Symbols
  /\ Users \cap {NULL, JUNK, NULLTEXT} = {}
  /\ ReqLen \in Nat \ {0} /\ BUFLEN \in Nat \ {0} /\ MaxFds \in Nat
  /\ SizeMod \in Nat \ {0} /\ IntMod \in Nat \ {0}
  /\ PageWords \subseteq [digits : BOOLEAN, value : Nat]
  /\ Answers \in [Asks -> SUBSET Seq(Symbols)]
  /\ \A q \in Asks : \A a \in Answers[q] :
       /\ Framed(a) /\ Len(a) < SizeMod
       /\ a # NoAnswer
       /\ \A i \in 1 .. Len(a) : a[i] \in {SID, TOKEN} =>
            i < Len(a) /\ a[i + 1] = q.owner /\ q.owner \in Users
       /\ Expected(q.op, a)

(***************************************************************************)
(* The requests                                                            *)
(***************************************************************************)
Shown(v) == IF v = NULL THEN NULLTEXT ELSE v

compute_get_request(op, count) ==
  [op |-> op, user |-> NULL, cookie |-> cookies[0], pages |-> 0,
   token |-> IF count = 2 /\ cookies[0] # NULL THEN cookies[1] ELSE NULL]

compute_post_request(op, user, pages, count) ==
  [op |-> op, user |-> user, pages |-> pages,
   cookie |-> IF count = 2 THEN Shown(cookies[0]) ELSE NULL,
   token  |-> IF count = 2 THEN Shown(cookies[1]) ELSE NULL]

\* There is no Cookie line in this one.
compute_delete_request(op) ==
  [op |-> op, user |-> NULL, cookie |-> NULL, token |-> cookies[1], pages |-> 0]

(***************************************************************************)
(* Reading a command, and what it asks for                                 *)
(***************************************************************************)
Send(r) == /\ request' = r /\ stage' = "send"
           /\ UNCHANGED <<fds, sent, peer, answer, wire, buf,
                          header_end, content_length, total, cut>>

Typed == stage = "prompt" /\ printed' = NULL

register(u) == /\ Typed
               /\ Send(compute_post_request("register", u, 0, 0))
               /\ UNCHANGED <<cookies, saved, entry, session>>

login(u) == /\ Typed
            /\ Send(compute_post_request("login", u, 0, 0))
            /\ UNCHANGED <<cookies, saved, entry, session>>

\* enter_library and logout send the cookie, get_books and get_book both.
get(op, count) == /\ Typed
                  /\ Send(compute_get_request(op, count))
                  /\ UNCHANGED <<cookies, saved, entry, session>>

delete_book == /\ Typed
               /\ Send(compute_delete_request("delete_book"))
               /\ UNCHANGED <<cookies, saved, entry, session>>

\* The five fields of a book; author says whether the author is a number.
add_book == /\ Typed
            /\ stage' = "entry"
            /\ entry' \in [pages : PageWords, author : BOOLEAN]
            /\ UNCHANGED <<fds, exchange, cookies, saved, session>>

atoi(w)     == LET v == w.value % IntMod
               IN  IF v < IntMod \div 2 THEN v ELSE v - IntMod
isNumber(w) == w.digits
BadIfNone(w) == ~isNumber(w) \/ atoi(w) = 0     \* mutant: not zero is enough
BadPages(w)  == ~isNumber(w) \/ atoi(w) <= 0

check_pages == /\ stage = "entry" /\ BadPages(entry.pages)
               /\ \E w \in PageWords : entry' = [entry EXCEPT !.pages = w]
               /\ UNCHANGED <<stage, fds, exchange, cookies, saved, printed, session>>

check_author == /\ stage = "entry" /\ ~BadPages(entry.pages) /\ entry.author
                /\ \E b \in BOOLEAN : entry' = [entry EXCEPT !.author = b]
                /\ UNCHANGED <<stage, fds, exchange, cookies, saved, printed, session>>

post_book ==
  /\ stage = "entry" /\ ~BadPages(entry.pages) /\ ~entry.author
  /\ Send(compute_post_request("add_book", NULL, atoi(entry.pages), 2))
  /\ UNCHANGED client

\* A word that is no command: the connection just made is forgotten.
unknown == /\ Typed
           /\ stage' = "connect"
           /\ UNCHANGED <<fds, exchange, cookies, saved, entry, session>>

exit == /\ Typed
        /\ stage' = "exited" /\ fds' = fds - 1
        /\ request' = [request EXCEPT !.op = "exit"]
        /\ UNCHANGED <<sent, peer, answer, wire, buf, header_end,
                       content_length, total, cut, cookies, saved, entry, session>>

(***************************************************************************)
(* What the commands do with the response, a text that ends where buf does *)
(***************************************************************************)
Handles(op) == stage = "got" /\ request.op = op /\ UNCHANGED <<fds, exchange, entry>>

Done(text) == stage' = "connect" /\ printed' = text
Crash      == /\ stage' = "crashed"
              /\ UNCHANGED <<cookies, saved, printed, session>>

Json == strstr(buf, JSON)

\* register, add_book, delete_book: no JSON, no error.
show_result == /\ \E op \in {"register", "add_book", "delete_book"} : Handles(op)
               /\ Done(IF Json < 0 THEN "OK" ELSE JSON)
               /\ UNCHANGED <<cookies, saved, session>>

\* The cookie is what follows its name, if that has arrived.
CookieAt(s) == LET at == strstr(s, SID)
               IN  IF at + 2 <= Len(s) THEN s[at + 2] ELSE JUNK
Logged == IF session \in {"library", "again"} THEN "again" ELSE "in"

\* No JSON and no cookie: strtok(NULL) goes on with the last response it was
\* given, if there was one; puts(NULL) is the end.
login_done ==
  /\ Handles("login")
  /\ \/ /\ Json >= 0
        /\ Done(JSON)
        /\ UNCHANGED <<cookies, saved, session>>
     \/ /\ Json < 0 /\ strstr(buf, SID) >= 0
        /\ cookies' = [cookies EXCEPT ![0] = CookieAt(buf)]
        /\ saved' = TRUE /\ session' = Logged
        /\ Done(SID)
     \/ /\ Json < 0 /\ strstr(buf, SID) < 0 /\ saved
        /\ cookies' = [cookies EXCEPT ![0] = JUNK]
        /\ session' = Logged
        /\ Done(JUNK)
        /\ UNCHANGED saved
     \/ /\ Json < 0 /\ strstr(buf, SID) < 0
        /\ Crash

\* Mutant: a text that is cut is read as far as it goes.
ParsedPart(s, at) == IF at + 3 > Len(s) THEN JUNK
                     ELSE IF s[at + 2] = TOKEN THEN s[at + 3] ELSE NULL

\* json_parse_string() gives nothing for a text that is cut, and
\* json_object_get_string() nothing for an object without the name.
Parsed(s, at) == IF /\ at + 4 <= Len(s)
                    /\ s[at + 2] = TOKEN /\ s[at + 4] = CLOSE
                 THEN s[at + 3] ELSE NULL

enter_library_done ==
  /\ Handles("enter_library")
  /\ \/ /\ Json >= 0
        /\ IF Parsed(buf, Json) # NULL
           THEN /\ cookies' = [cookies EXCEPT ![1] = Parsed(buf, Json)]
                /\ session' = "library"
           ELSE UNCHANGED <<cookies, session>>
        /\ Done(JSON)
        /\ UNCHANGED saved
     \/ /\ Json < 0
        /\ Crash

\* Without JSON get_books prints from the list, get_book from a list of JSON.
get_books_done == /\ Handles("get_books")
                  /\ \/ /\ Json >= 0 \/ strstr(buf, LIST) >= 0
                        /\ Done(IF Json >= 0 THEN JSON ELSE LIST)
                        /\ UNCHANGED <<cookies, saved, session>>
                     \/ /\ Json < 0 /\ strstr(buf, LIST) < 0
                        /\ Crash

get_book_done == /\ Handles("get_book")
                 /\ \/ /\ Json >= 0
                       /\ Done(JSON)
                       /\ UNCHANGED <<cookies, saved, session>>
                    \/ /\ Json < 0
                       /\ Crash

\* Mutant: only the end of the session is taken note of.
LogoutKeepsToken == /\ Handles("logout")
                    /\ session' = "out"
                    /\ Done(IF Json < 0 THEN "OK" ELSE JSON)
                    /\ UNCHANGED <<cookies, saved>>

\* The token is forgotten whatever the service said; the cookie is kept.
logout_done == /\ Handles("logout")
               /\ cookies' = [cookies EXCEPT ![1] = NULL]
               /\ session' = "out"
               /\ Done(IF Json < 0 THEN "OK" ELSE JSON)
               /\ UNCHANGED saved

(***************************************************************************)
(* The program                                                             *)
(***************************************************************************)

\* malloc() gives the first blocks of the process from fresh, zeroed memory.
Init ==
  /\ stage = "connect" /\ fds = 0
  /\ request = NoRequest /\ sent = 0
  /\ peer = "closed" /\ answer = NoAnswer /\ wire = <<>> /\ buf = <<>>
  /\ header_end = 0 /\ content_length = 0 /\ total = 0 /\ cut = FALSE
  /\ cookies = [i \in 0 .. 1 |-> NULL] /\ saved = FALSE
  /\ entry = NoEntry /\ printed = NULL /\ session = "out"

Command ==
  \/ \E u \in Users : register(u) \/ login(u)
  \/ get("enter_library", 1) \/ get("logout", 1)
  \/ get("get_books", 2) \/ get("get_book", 2)
  \/ add_book \/ delete_book \/ unknown \/ exit

Handle == \/ show_result \/ login_done \/ enter_library_done
          \/ get_books_done \/ get_book_done \/ logout_done

Exchange == open_connection \/ send_to_server \/ receive_header \/ receive_body

Program == (Exchange /\ UNCHANGED client) \/ post_book \/ Handle
User    == Command \/ check_pages \/ check_author
Service == (ServiceAnswers \/ ServiceCloses \/ ServiceResets) /\ UNCHANGED client

Next == Program \/ User \/ Service

Spec == Init /\ [][Next]_vars

\* The program runs when it can, the service answers what it has received and
\* closes a connection in the end; nobody has to type a command.
FairSpec == /\ Spec
            /\ WF_vars(Program)
            /\ WF_vars(ServiceAnswers /\ UNCHANGED client)
            /\ WF_vars(ServiceCloses /\ UNCHANGED client)

(***************************************************************************)
(* Properties                                                              *)
(***************************************************************************)
Stages == {"connect", "prompt", "entry", "send", "header", "body", "got",
           "crashed", "exited"}

\* Types, and the bounds of what is counted.
TypeOK ==
  /\ stage \in Stages /\ sent \in 0 .. ReqLen
  /\ fds \in 0 .. MaxFds /\ (stage = "prompt" => fds > 0)
  /\ request \in Requests /\ peer \in {"open", "closed", "reset", "refused"}
  /\ answer \in Seq(Symbols) /\ wire \in Seq(Symbols) /\ buf \in Seq(Symbols)
  /\ header_end \in Int /\ content_length \in Nat /\ total \in Nat
  /\ cookies \in [0 .. 1 -> Fields \ {NULLTEXT}] /\ saved \in BOOLEAN /\ cut \in BOOLEAN
  /\ entry \in [pages : PageWords \cup {NoEntry.pages}, author : BOOLEAN]
  /\ printed \in {NULL, "OK", JSON, SID, LIST, JUNK}
  /\ session \in {"out", "in", "library", "again"}

\* However a response is divided into reads, with its length or without, the
\* client goes on with all of it, unless the connection was cut: it neither
\* stops early nor acts on a part (receive_from_server()).
WholeAnswer == stage = "got" /\ ~cut => buf = answer

\* OK is printed for a request that was refused or never handled only if the
\* connection was cut: no JSON in the response is taken for success.
OkMeansAccepted ==
  stage = "connect" /\ printed = "OK" /\ ~cut =>
    answer # NoAnswer /\ strstr(answer, JSON) < 0

\* The null pointers that strstr() and strtok() return are followed only
\* after a response that was cut.
CrashOnlyIfCut == stage = "crashed" => cut

\* Without a cut no response, in whatever reads it comes, is taken for what it
\* is not: refusal for success, or what is missing in it for something there.
MisledOnlyIfCut == OkMeansAccepted /\ CrashOnlyIfCut

\* The cookie and the token are of two users only when one has logged in
\* without the other having logged out: login leaves the token alone.
Mixed == cookies[0] \in Users /\ cookies[1] \in Users /\ cookies[0] # cookies[1]
MixedOnlyWithoutLogout == Mixed => session = "again"

\* A credential changes only to one the service gave to the user that asked,
\* for the cookie whatever was cut off, for the token never to anything else.
CredentialsAreGiven ==
  [][/\ cookies'[0] # cookies[0] => /\ request.op = "login"
                                    /\ (cookies'[0] = request.user \/ cut)
     /\ cookies'[1] # cookies[1] =>
          \/ request.op = "logout" /\ cookies'[1] = NULL
          \/ request.op = "enter_library" /\ cookies'[1] = request.cookie]_vars

\* A book is posted with the page count that was typed, as long as an int
\* holds it, and always with a positive one.
PagesAsTyped ==
  stage \in {"send", "header", "body", "got"} /\ request.op = "add_book" =>
    /\ request.pages > 0 /\ entry.pages.digits
    /\ entry.pages.value < IntMod \div 2 => request.pages = entry.pages.value

\* Nothing but exit, a connection that could not be made or was reset, and the
\* last descriptor ends the program: the connections it never closes add up to
\* that. A service that just closes a connection does not.
EndsForAReason ==
  stage = "exited" =>
    request.op = "exit" \/ peer \in {"refused", "reset"} \/ fds = MaxFds

\* A command that has been read is done with: no response, whole or cut, and no
\* missing length keeps the program waiting, as long as the service closes.
CommandEnds ==
  stage \in {"send", "header", "body", "got"} ~>
    stage \in {"connect", "exited", "crashed"}

(***************************************************************************)
(* The invariant the proofs rest on                                        *)
(***************************************************************************)
Busy == stage \in {"send", "header", "body", "got"}

\* What has been read and what can still be read make up the answer, in this
\* order, but for what a cut has taken.
StreamInv ==
  /\ stage \in {"prompt", "entry", "send"} => answer = NoAnswer
  /\ answer = NoAnswer => wire = <<>> /\ buf = <<>>
  /\ peer = "open" => ~cut
  /\ answer = NoAnswer /\ peer # "open" /\ (Waiting \/ stage = "got") => cut
  /\ answer # NoAnswer =>
       /\ answer \in Answers[Ask(request)]
       /\ Len(buf) + Len(wire) <= Len(answer)
       /\ ~cut => Len(buf) + Len(wire) = Len(answer)
       /\ \A i \in 1 .. Len(buf) : buf[i] = answer[i]
       /\ \A i \in 1 .. Len(wire) : wire[i] = answer[Len(buf) + i]

\* The second loop runs to the end of the answer or of the stream, and a
\* stream that has ended without a cut has brought all of the answer.
LoopInv ==
  /\ stage = "body" => \/ peer # "open" /\ wire = <<>>
                       \/ answer # NoAnswer /\ total = Len(answer)
  /\ stage = "got" /\ ~cut => answer # NoAnswer /\ buf = answer

\* The token is that of the cookie until somebody logs in on top of it.
SessionInv ==
  /\ Busy /\ request.op = "enter_library" => request.cookie = cookies[0]
  /\ session \in {"out", "in"} => cookies[1] = NULL
  /\ session = "library" => cookies[1] = cookies[0]

RestInv == StreamInv /\ LoopInv /\ SessionInv

\* Types and all of this, which every step of program, user and service keeps.
IndInv == TypeOK /\ RestInv
=============================================================================
