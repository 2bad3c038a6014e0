---------------------------- MODULE HttpExchange ----------------------------
(***************************************************************************)
(* One request and its response over one connection: helpers.c and buffer.c*)
(* of the REST client, and the web service at the other end.               *)
(*                                                                         *)
(* A response is a sequence of symbols. What the client looks for in it is *)
(* a symbol of its own, the line ends included, so that a read may stop    *)
(* inside the header's terminator or between a field and its value.        *)
(***************************************************************************)
EXTENDS Integers, Sequences

CONSTANTS
  Symbols,    \* what a response is made of
  Answers,    \* Answers[Ask(r)]: the responses the service may give to request r
  ReqLen,     \* units a request is written in: write() may take any part
  BUFLEN,     \* most symbols one read() takes, 4096 bytes in the code
  SizeMod,    \* size_t counts modulo this, 2^64 in the code
  MaxFds      \* descriptors the process may open

VARIABLES
  stage,      \* where the program stands
  fds,        \* descriptors it has opened and not closed
  request,    \* what it sends, see RestClient
  sent,       \* units of it written
  peer,       \* how the service's end of the connection is
  answer,     \* what the service answered, NoAnswer before
  wire,       \* the part of it that can still be read
  buf,        \* buffer: the part that has been read
  header_end, content_length, total,   \* the locals of receive_from_server()
  cut         \* history: the connection ended before the answer was through

exchange == <<request, sent, peer, answer, wire, buf,
              header_end, content_length, total, cut>>

NULL      == "NULL"
NoAnswer  == <<"no answer">>

\* What the service goes by: what is asked, for whom, with which token.
Ask(r) == [op |-> r.op, owner |-> IF r.op = "login" THEN r.user ELSE r.cookie,
           token |-> r.token]

CRLF       == "CRLF"
TERMINATOR == <<CRLF, CRLF>>             \* HEADER_TERMINATOR
LENGTH     == <<"content-length: ">>     \* CONTENT_LENGTH
Digits     == <<"0", "1", "2", "3", "4", "5">>

\* Field names come in either case.
tolower(c) == IF c = "Content-Length: " THEN "content-length: " ELSE c

(***************************************************************************)
(* buffer.c                                                                *)
(***************************************************************************)

\* The first position, from 0, at which data stands in s; -1 if none.
buffer_find(s, data) ==
  LET Here(i) == \A j \in 1 .. Len(data) : s[i + j] = data[j]
      At == {i \in 0 .. Len(s) - Len(data) : Here(i)}
  IN  IF At = {} THEN -1 ELSE CHOOSE i \in At : \A k \in At : i <= k

buffer_find_insensitive(s, data) ==
  buffer_find([i \in 1 .. Len(s) |-> tolower(s[i])], data)

\* Mutant: what has been read is replaced.
BufferSet(s, data) == data

buffer_add(s, data) == s \o data

(***************************************************************************)
(* helpers.c                                                               *)
(***************************************************************************)

\* strtol(): what does not start with a digit is 0.
strtol(c) == IF \E n \in 1 .. Len(Digits) : Digits[n] = c
             THEN (CHOOSE n \in 1 .. Len(Digits) : Digits[n] = c) - 1
             ELSE 0

\* Behind the terminator, or -1.
HeaderEnd(s) == LET at == buffer_find(s, TERMINATOR)
                IN  IF at >= 0 THEN at + Len(TERMINATOR) ELSE at

\* The position of the Content-Length field's value, or -1; its value, which
\* is there whenever the header has ended behind the field.
LengthStart(s) == LET at == buffer_find_insensitive(s, LENGTH)
                  IN  IF at >= 0 THEN at + Len(LENGTH) ELSE at
LengthAt(s) == IF LengthStart(s) < Len(s) THEN strtol(s[LengthStart(s) + 1]) ELSE 0

\* Mutants: an int is not converted; the last byte is not counted.
SignedSize(n) == n
SizeShort(n)  == (n - 1) % SizeMod

\* size_t total = content_length + (size_t) header_end
SizeT(n) == n % SizeMod

Smaller(a, b) == IF a < b THEN a ELSE b

\* error(): the process ends, after what the open connection has cost.
Fail == /\ stage' = "exited"
        /\ UNCHANGED <<fds, exchange>>

\* socket() fails when no descriptor is left, connect() whenever the service
\* cannot be reached; the socket is open by then.
open_connection ==
  /\ stage = "connect"
  /\ \/ /\ fds < MaxFds
        /\ stage' = "prompt" /\ fds' = fds + 1
        /\ peer' = "open" /\ sent' = 0
        /\ answer' = NoAnswer /\ wire' = <<>> /\ buf' = <<>>
        /\ header_end' = 0 /\ content_length' = 0 /\ total' = 0 /\ cut' = FALSE
        /\ UNCHANGED request
     \/ /\ fds < MaxFds
        /\ stage' = "exited" /\ fds' = fds + 1
        /\ peer' = "refused"
        /\ UNCHANGED <<request, sent, answer, wire, buf,
                       header_end, content_length, total, cut>>
     \/ /\ fds = MaxFds
        /\ Fail

\* One turn of the loop of send_to_server(). A connection that was reset
\* raises SIGPIPE; one the service has only closed still takes the bytes.
send_to_server ==
  /\ stage = "send"
  /\ \/ /\ peer # "reset"
        /\ \E n \in 1 .. ReqLen - sent : sent' = sent + n
        /\ stage' = IF sent' < ReqLen THEN "send" ELSE "header"
        /\ UNCHANGED <<fds, request, peer, answer, wire, buf,
                       header_end, content_length, total, cut>>
     \/ /\ peer = "reset"
        /\ Fail

\* Mutants: to have read all is taken for the end; the end is not seen; a
\* closed connection is an error.
EndWhenDry   == wire = <<>>
NeverAtEnd   == FALSE
ErrorIfClosed == wire = <<>> /\ peer # "open"

\* The outcomes of read(): bytes, the end of the stream, an error.
ReadSome == \E n \in 1 .. Smaller(Len(wire), BUFLEN) :
              /\ buf'  = buffer_add(buf, SubSeq(wire, 1, n))
              /\ wire' = SubSeq(wire, n + 1, Len(wire))
AtEnd    == wire = <<>> /\ peer = "closed"
AtError  == wire = <<>> /\ peer = "reset"

\* One turn of the first loop of receive_from_server(): it is left with the
\* length of the body known, or at the end of the stream.
receive_header ==
  /\ stage = "header"
  /\ \/ /\ ReadSome
        /\ header_end' = HeaderEnd(buf')
        /\ IF header_end' >= 0 /\ LengthStart(buf') >= 0
           THEN /\ content_length' = LengthAt(buf')
                /\ total' = SizeT(content_length' + header_end')
                /\ stage' = "body"
           ELSE UNCHANGED <<content_length, total, stage>>
        /\ UNCHANGED <<fds, request, sent, peer, answer, cut>>
     \/ /\ AtEnd
        /\ total' = SizeT(content_length + header_end)
        /\ stage' = "body"
        /\ UNCHANGED <<fds, request, sent, peer, answer, wire, buf,
                       header_end, content_length, cut>>
     \/ /\ AtError
        /\ Fail

\* One turn of the second loop, and its end.
receive_body ==
  /\ stage = "body"
  /\ \/ /\ Len(buf) < total
        /\ ReadSome
        /\ UNCHANGED <<stage, fds, request, sent, peer, answer,
                       header_end, content_length, total, cut>>
     \/ /\ Len(buf) >= total \/ AtEnd
        /\ stage' = "got"
        /\ UNCHANGED <<fds, exchange>>
     \/ /\ Len(buf) < total /\ AtError
        /\ Fail

(***************************************************************************)
(* The web service                                                         *)
(***************************************************************************)

Waiting == stage \in {"prompt", "entry", "send", "header", "body"}

\* It answers a request once it has all of it.
ServiceAnswers ==
  /\ stage = "header" /\ peer = "open" /\ answer = NoAnswer
  /\ answer' \in Answers[Ask(request)]
  /\ wire' = answer'
  /\ UNCHANGED <<stage, fds, request, sent, peer, buf,
                 header_end, content_length, total, cut>>

\* It closes the connection, after the answer, in the middle of it, or while
\* it is still waiting for a request.
ServiceCloses ==
  /\ Waiting /\ peer = "open"
  /\ peer' \in {"closed", "reset"}
  /\ \E n \in 0 .. Len(wire) : wire' = SubSeq(wire, 1, n)
  /\ cut' = (answer = NoAnswer \/ wire' # wire)
  /\ UNCHANGED <<stage, fds, request, sent, answer, buf,
                 header_end, content_length, total>>

\* A request that meets a closed connection is answered with a reset.
ServiceResets ==
  /\ Waiting /\ peer = "closed" /\ sent > 0 /\ answer = NoAnswer
  /\ peer' = "reset"
  /\ UNCHANGED <<stage, fds, request, sent, answer, wire, buf,
                 header_end, content_length, total, cut>>
=============================================================================
