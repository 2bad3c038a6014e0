----------------------------- MODULE RestProofs -----------------------------
(***************************************************************************)
(* The REST client acts only on whole responses, whatever the service is,  *)
(* the sizes and the number of users, as long as the service frames its    *)
(* responses and names the right user in them (RestAssumption).            *)
(***************************************************************************)
EXTENDS RestClient, WellFoundedInduction, SequenceTheorems, TLAPS

(***************************************************************************)
(* buffer.c                                                                *)
(***************************************************************************)
LEMMA NatMin ==
  ASSUME NEW T, T \subseteq Nat, T # {}
  PROVE  \E x \in T : \A y \in T : x <= y
<1>1. PICK x \in T : \A y \in T : ~ (<<y, x>> \in OpToRel(<, Nat))
  BY WFMin, NatLessThanWellFounded
<1>2. ASSUME NEW y \in T PROVE x <= y
  <2>1. x \in Nat /\ y \in Nat /\ ~ (<<y, x>> \in OpToRel(<, Nat))
    BY <1>1
  <2>2. QED
    BY <2>1 DEF OpToRel
<1>3. QED
  BY <1>2

\* Where a buffer holds data, position by position.
Here(s, data, i) == \A j \in 1 .. Len(data) : s[i + j] = data[j]

\* What buffer_find() returns is the first such position, or -1.
IsFirst(s, data, r) ==
  /\ r \in -1 .. Len(s)
  /\ r >= 0 => r + Len(data) <= Len(s) /\ Here(s, data, r)
  /\ \A i \in 0 .. Len(s) - Len(data) : Here(s, data, i) => r >= 0 /\ r <= i

LEMMA FindFirst ==
  ASSUME NEW s \in Seq(Symbols), NEW data, Len(data) \in Nat, Len(data) > 0
  PROVE  IsFirst(s, data, buffer_find(s, data))
<1> DEFINE At == {i \in 0 .. Len(s) - Len(data) : \A j \in 1 .. Len(data) : s[i + j] = data[j]}
           r  == buffer_find(s, data)
<1>1. CASE At = {}
  <2>1. r = -1
    BY <1>1 DEF buffer_find
  <2>2. \A i \in 0 .. Len(s) - Len(data) : ~Here(s, data, i)
    BY <1>1 DEF Here
  <2>3. QED
    BY <2>1, <2>2 DEF IsFirst
<1>2. CASE At # {}
  <2>1. r = CHOOSE i \in At : \A k \in At : i <= k
    BY <1>2 DEF buffer_find
  <2>2. At \subseteq Nat
    OBVIOUS
  <2>3. \E i \in At : \A k \in At : i <= k
    BY <1>2, <2>2, NatMin
  <2>4. r \in At /\ \A k \in At : r <= k
    BY <2>1, <2>3
  <2>5. QED
    BY <2>4 DEF Here, IsFirst
<1>3. QED
  BY <1>1, <1>2

\* Found in what has been read, found at the same place in the whole.
Begins(s, t) == Len(s) <= Len(t) /\ \A i \in 1 .. Len(s) : s[i] = t[i]

LEMMA FirstInPrefix ==
  ASSUME NEW s \in Seq(Symbols), NEW t \in Seq(Symbols), Begins(s, t),
         NEW data, Len(data) \in Nat, Len(data) > 0,
         NEW r \in Int, NEW q \in Int, r >= 0, IsFirst(s, data, r), IsFirst(t, data, q)
  PROVE  q = r
<1>1. r + Len(data) <= Len(s) /\ Here(s, data, r)
  BY DEF IsFirst
<1>2. Here(t, data, r) /\ r \in 0 .. Len(t) - Len(data)
  <2>1. ASSUME NEW j \in 1 .. Len(data) PROVE t[r + j] = data[j]
    <3>1. r + j \in 1 .. Len(s)
      BY <1>1
    <3>2. QED
      BY <1>1, <3>1 DEF Begins, Here
  <2>2. QED
    BY <1>1, <2>1 DEF Begins, Here
<1>3. q >= 0 /\ q <= r /\ q + Len(data) <= Len(t) /\ Here(t, data, q)
  BY <1>2 DEF IsFirst
<1>4. Here(s, data, q) /\ q \in 0 .. Len(s) - Len(data)
  <2>1. ASSUME NEW j \in 1 .. Len(data) PROVE s[q + j] = data[j]
    <3>1. q + j \in 1 .. Len(s)
      BY <1>1, <1>3
    <3>2. QED
      BY <1>3, <3>1 DEF Begins, Here
  <2>2. QED
    BY <1>1, <1>3, <2>1 DEF Here
<1>5. r <= q
  BY <1>4 DEF IsFirst
<1>6. QED
  BY <1>3, <1>5

LEMMA FindInPrefix ==
  ASSUME NEW s \in Seq(Symbols), NEW t \in Seq(Symbols), Begins(s, t),
         NEW data, Len(data) \in Nat, Len(data) > 0, buffer_find(s, data) >= 0
  PROVE  buffer_find(t, data) = buffer_find(s, data)
<1> DEFINE r == buffer_find(s, data)
           q == buffer_find(t, data)
<1>1. IsFirst(s, data, r) /\ IsFirst(t, data, q)
  BY FindFirst
<1>2. r \in Int /\ q \in Int /\ r >= 0
  BY <1>1 DEF IsFirst
<1>3. q = r
  <2> HIDE DEF r, q
  <2>1. QED
    BY <1>1, <1>2, FirstInPrefix
<1>4. QED
  BY <1>3

LEMMA StrStr ==
  ASSUME NEW s \in Seq(Symbols), NEW c
  PROVE  /\ strstr(s, c) \in Int /\ strstr(s, c) >= -1
         /\ strstr(s, c) >= 0 => /\ strstr(s, c) + 1 \in 1 .. Len(s)
                                 /\ s[strstr(s, c) + 1] = c
<1> DEFINE d == <<c>>
           r == buffer_find(s, d)
<1>1. Len(d) = 1 /\ d[1] = c
  OBVIOUS
<1>2. r = strstr(s, c)
  BY DEF strstr
<1>3. IsFirst(s, d, r)
  <2>1. Len(d) \in Nat /\ Len(d) > 0
    BY <1>1
  <2> HIDE DEF d
  <2>2. QED
    BY <2>1, FindFirst, Zenon
<1>4. QED
  <2> HIDE DEF d, r
  <2>1. r \in Int /\ r >= -1 /\ (r >= 0 => r + 1 <= Len(s) /\ Here(s, d, r))
    BY <1>1, <1>3 DEF IsFirst
  <2>2. r >= 0 => s[r + 1] = c
    BY <1>1, <2>1 DEF Here
  <2>3. QED
    BY <1>2, <2>1, <2>2

(***************************************************************************)
(* The header and the length                                               *)
(***************************************************************************)
LEMMA Terms ==
  /\ Len(TERMINATOR) = 2 /\ Len(TERMINATOR) \in Nat /\ Len(TERMINATOR) > 0
  /\ Len(LENGTH) = 1 /\ Len(LENGTH) \in Nat /\ Len(LENGTH) > 0
  BY DEF TERMINATOR, LENGTH

LEMMA DigitValue == ASSUME NEW c PROVE strtol(c) \in Nat
<1>1. Len(Digits) \in Nat
  BY DEF Digits
<1>2. QED
  BY <1>1 DEF strtol

Lower(s) == [i \in 1 .. Len(s) |-> tolower(s[i])]

LEMMA LowerSeq ==
  ASSUME NEW s \in Seq(Symbols)
  PROVE  /\ Lower(s) \in Seq(Symbols) /\ Len(Lower(s)) = Len(s)
         /\ \A i \in 1 .. Len(s) : Lower(s)[i] = tolower(s[i])
<1>1. "content-length: " \in Symbols
  BY RestAssumption DEF LENGTH
<1>2. ASSUME NEW i \in 1 .. Len(s) PROVE tolower(s[i]) \in Symbols
  <2>1. s[i] \in Symbols
    OBVIOUS
  <2>2. QED
    BY <1>1, <2>1, Zenon DEF tolower
<1>3. QED
  BY <1>2 DEF Lower

LEMMA HeaderFacts ==
  ASSUME NEW s \in Seq(Symbols)
  PROVE  /\ HeaderEnd(s) \in Int /\ HeaderEnd(s) <= Len(s)
         /\ LengthStart(s) \in Int /\ LengthStart(s) <= Len(s)
         /\ LengthAt(s) \in Nat
<1> DEFINE h == buffer_find(s, TERMINATOR)
           l == buffer_find(Lower(s), LENGTH)
<1>1. IsFirst(s, TERMINATOR, h)
  BY Terms, FindFirst, Zenon
<1>2. IsFirst(Lower(s), LENGTH, l)
  BY Terms, FindFirst, LowerSeq, Zenon
<1>3. HeaderEnd(s) = IF h >= 0 THEN h + Len(TERMINATOR) ELSE h
  BY DEF HeaderEnd
<1>4. LengthStart(s) = IF l >= 0 THEN l + Len(LENGTH) ELSE l
  BY DEF LengthStart, buffer_find_insensitive, Lower
<1>5. LengthAt(s) \in Nat
  BY DigitValue DEF LengthAt
<1> HIDE DEF h, l
<1>6. HeaderEnd(s) \in Int /\ HeaderEnd(s) <= Len(s)
  BY <1>1, <1>3, Terms DEF IsFirst
<1>7. LengthStart(s) \in Int /\ LengthStart(s) <= Len(s)
  BY <1>2, <1>4, Terms, LowerSeq DEF IsFirst
<1>8. QED
  BY <1>5, <1>6, <1>7

\* The header's end and the length are read alike in a part that holds both
\* and in the whole response, whose length they give.
LEMMA FramedPart ==
  ASSUME NEW s \in Seq(Symbols), NEW a \in Seq(Symbols), Begins(s, a), Framed(a),
         HeaderEnd(s) >= 0, LengthStart(s) >= 0
  PROVE  LengthAt(s) + HeaderEnd(s) = Len(a)
<1>1. buffer_find(s, TERMINATOR) >= 0 /\ buffer_find(Lower(s), LENGTH) >= 0
  BY Terms DEF HeaderEnd, LengthStart, buffer_find_insensitive, Lower
<1>2. HeaderEnd(a) = HeaderEnd(s)
  BY <1>1, Terms, FindInPrefix DEF HeaderEnd
<1>3. Begins(Lower(s), Lower(a))
  BY LowerSeq DEF Begins
<1>4. LengthStart(a) = LengthStart(s)
  <2>1. buffer_find(Lower(a), LENGTH) = buffer_find(Lower(s), LENGTH)
    BY <1>1, <1>3, Terms, FindInPrefix, LowerSeq
  <2>2. QED
    BY <2>1 DEF LengthStart, buffer_find_insensitive, Lower
<1>5. LengthStart(s) < HeaderEnd(s) /\ HeaderEnd(s) + LengthAt(a) = Len(a)
  BY <1>2, <1>4 DEF Framed
<1>6. LengthStart(s) \in Int /\ HeaderEnd(s) \in Int /\ HeaderEnd(s) <= Len(s)
      /\ LengthAt(s) \in Nat
  BY HeaderFacts
<1>7. s[LengthStart(s) + 1] = a[LengthStart(s) + 1]
  BY <1>5, <1>6 DEF Begins
<1>8. LengthAt(s) = LengthAt(a)
  BY <1>4, <1>5, <1>6, <1>7 DEF LengthAt, Begins
<1>9. QED
  BY <1>5, <1>6, <1>8

(***************************************************************************)
(* The stream                                                              *)
(***************************************************************************)

\* What has been read, b, and what can be read, w, are one part of a after
\* the other.
PartsOf(b, w, a) == /\ Len(b) + Len(w) <= Len(a)
                    /\ \A i \in 1 .. Len(b) : b[i] = a[i]
                    /\ \A i \in 1 .. Len(w) : w[i] = a[Len(b) + i]

\* After n more symbols have been read the two parts are still those of a.
ReadsOn(b, w, a, n) ==
  /\ b \o SubSeq(w, 1, n) \in Seq(Symbols) /\ SubSeq(w, n + 1, Len(w)) \in Seq(Symbols)
  /\ PartsOf(b \o SubSeq(w, 1, n), SubSeq(w, n + 1, Len(w)), a)
  /\ Len(b \o SubSeq(w, 1, n)) + Len(SubSeq(w, n + 1, Len(w))) = Len(b) + Len(w)

LEMMA ReadPart ==
  ASSUME NEW a \in Seq(Symbols), NEW b \in Seq(Symbols), NEW w \in Seq(Symbols),
         PartsOf(b, w, a), NEW n \in 1 .. Len(w)
  PROVE  ReadsOn(b, w, a, n)
<1> DEFINE u == SubSeq(w, 1, n)
           v == SubSeq(w, n + 1, Len(w))
           c == b \o u
<1>1. /\ u \in Seq(Symbols) /\ Len(u) = n
      /\ \A i \in 1 .. n : u[i] = w[i]
  <2>1. \A i \in 1 .. n : w[i] \in Symbols
    OBVIOUS
  <2>2. QED
    BY <2>1, SubSeqProperties
<1>2. /\ v \in Seq(Symbols) /\ Len(v) = Len(w) - n
      /\ \A i \in 1 .. Len(w) - n : v[i] = w[n + i]
  <2>1. \A i \in n + 1 .. Len(w) : w[i] \in Symbols
    OBVIOUS
  <2>2. QED
    BY <2>1, SubSeqProperties
<1>3. /\ c \in Seq(Symbols) /\ Len(c) = Len(b) + n
      /\ \A i \in 1 .. Len(b) + n : c[i] = IF i <= Len(b) THEN b[i] ELSE u[i - Len(b)]
  BY <1>1, ConcatProperties
<1> HIDE DEF u, v, c
<1>4. Len(c) + Len(v) = Len(b) + Len(w)
  BY <1>2, <1>3
<1>5. \A i \in 1 .. Len(c) : c[i] = a[i]
  <2>1. ASSUME NEW i \in 1 .. Len(c), i > Len(b) PROVE c[i] = a[i]
    <3>1. i - Len(b) \in 1 .. n
      BY <1>3, <2>1
    <3>2. c[i] = w[i - Len(b)]
      BY <1>1, <1>3, <2>1, <3>1
    <3>3. w[i - Len(b)] = a[Len(b) + (i - Len(b))]
      BY <3>1 DEF PartsOf
    <3>4. QED
      BY <3>1, <3>2, <3>3
  <2>2. ASSUME NEW i \in 1 .. Len(c), i <= Len(b) PROVE c[i] = a[i]
    BY <1>3, <2>2 DEF PartsOf
  <2>3. QED
    BY <1>3, <2>1, <2>2
<1>6. \A i \in 1 .. Len(v) : v[i] = a[Len(c) + i]
  <2>1. ASSUME NEW i \in 1 .. Len(v) PROVE v[i] = a[Len(c) + i]
    <3>1. n + i \in 1 .. Len(w) /\ v[i] = w[n + i]
      BY <1>2
    <3>2. w[n + i] = a[Len(b) + (n + i)]
      BY <3>1 DEF PartsOf
    <3>3. QED
      BY <1>3, <3>1, <3>2
  <2>2. QED
    BY <2>1
<1>7. c \in Seq(Symbols) /\ v \in Seq(Symbols) /\ PartsOf(c, v, a)
  BY <1>1, <1>2, <1>3, <1>4, <1>5, <1>6 DEF PartsOf
<1>8. QED
  BY <1>4, <1>7 DEF ReadsOn, u, v, c

LEMMA CutPart ==
  ASSUME NEW a \in Seq(Symbols), NEW b \in Seq(Symbols), NEW w \in Seq(Symbols),
         PartsOf(b, w, a), NEW n \in 0 .. Len(w)
  PROVE  SubSeq(w, 1, n) \in Seq(Symbols) /\ PartsOf(b, SubSeq(w, 1, n), a)
<1> DEFINE u == SubSeq(w, 1, n)
<1>1. /\ u \in Seq(Symbols) /\ Len(u) = n
      /\ \A i \in 1 .. n : u[i] = w[i]
  <2>1. \A i \in 1 .. n : w[i] \in Symbols
    OBVIOUS
  <2>2. QED
    BY <2>1, SubSeqProperties
<1> HIDE DEF u
<1>2. QED
  BY <1>1 DEF PartsOf, u

\* What the service may have answered is framed, and names who asked.
LEMMA AnswerFacts ==
  ASSUME TypeOK, StreamInv, answer # NoAnswer
  PROVE  /\ answer \in Seq(Symbols) /\ PartsOf(buf, wire, answer)
         /\ Framed(answer) /\ Len(answer) < SizeMod /\ Expected(request.op, answer)
         /\ \A i \in 1 .. Len(answer) : answer[i] \in {SID, TOKEN} =>
              /\ i < Len(answer) /\ answer[i + 1] = Ask(request).owner
              /\ Ask(request).owner \in Users
<1>1. answer \in Answers[Ask(request)] /\ PartsOf(buf, wire, answer)
  BY DEF StreamInv, PartsOf
<1>2. Ask(request) \in Asks
  BY DEF TypeOK, Requests, Asks, Ask, Fields
<1>3. Ask(request).op = request.op
  BY DEF Ask
<1>4. QED
  BY <1>1, <1>2, <1>3, RestAssumption DEF TypeOK

LEMMA NoAnswerSeq == NoAnswer \in Seq(Symbols)
<1> DEFINE c == NoAnswer[1]
<1>1. NoAnswer = <<c>>
  BY DEF NoAnswer
<1>2. c \in Symbols
  BY RestAssumption
<1> HIDE DEF c
<1>3. <<c>> \in Seq(Symbols)
  BY <1>2
<1>4. QED
  BY <1>1, <1>3

LEMMA InitInv == ASSUME Init PROVE IndInv
<1>1. TypeOK
  <2>1. NoRequest \in Requests
    BY DEF NoRequest, Requests, Ops, Fields
  <2>2. NoAnswer \in Seq(Symbols)
    BY NoAnswerSeq
  <2>3. cookies \in [0 .. 1 -> Fields \ {NULLTEXT}]
    BY DEF Init, Fields, NULL, NULLTEXT
  <2>4. entry \in [pages : PageWords \cup {NoEntry.pages}, author : BOOLEAN]
    BY DEF Init, NoEntry
  <2>5. /\ stage \in Stages /\ stage # "prompt" /\ printed = NULL /\ session = "out"
        /\ peer \in {"open", "closed", "reset"} /\ fds \in 0 .. MaxFds /\ sent \in 0 .. ReqLen
    BY RestAssumption DEF Init, Stages
  <2>6. answer \in Seq(Symbols) /\ wire \in Seq(Symbols) /\ buf \in Seq(Symbols)
    BY <2>2 DEF Init
  <2>7. /\ header_end \in Int /\ content_length \in Nat /\ total \in Nat
        /\ saved \in BOOLEAN /\ cut \in BOOLEAN /\ request \in Requests
    BY <2>1 DEF Init
  <2>8. QED
    BY <2>3, <2>4, <2>5, <2>6, <2>7 DEF TypeOK
<1>2. RestInv
  BY DEF Init, RestInv, StreamInv, LoopInv, SessionInv, Busy, Waiting
<1>3. QED
  BY <1>1, <1>2 DEF IndInv

(***************************************************************************)
(* The exchange                                                            *)
(***************************************************************************)
LEMMA FailStep ==
  ASSUME IndInv, Fail, UNCHANGED client
  PROVE  IndInv'
<1> USE DEF Fail, exchange, client
<1>1. TypeOK'
  BY DEF IndInv, TypeOK, Stages
<1>2. RestInv'
  BY DEF IndInv, RestInv, StreamInv, LoopInv, SessionInv, Busy, Waiting, Ask
<1>3. QED
  BY <1>1, <1>2 DEF IndInv

LEMMA OpenStep ==
  ASSUME IndInv, open_connection, UNCHANGED client
  PROVE  IndInv'
<1> USE DEF client
<1>1. CASE Fail
  BY <1>1, FailStep
<1>2. CASE fds < MaxFds /\ peer' = "refused"
  <2>1. /\ stage' = "exited" /\ fds' = fds + 1
        /\ UNCHANGED <<request, sent, answer, wire, buf,
                       header_end, content_length, total, cut>>
    BY <1>2, RestAssumption DEF open_connection, IndInv, TypeOK
  <2>2. fds' \in 0 .. MaxFds
    BY <1>2, <2>1, RestAssumption DEF IndInv, TypeOK
  <2>3. TypeOK'
    BY <1>2, <2>1, <2>2 DEF IndInv, TypeOK, Stages
  <2>4. RestInv'
    BY <1>2, <2>1 DEF IndInv, RestInv, StreamInv, LoopInv, SessionInv, Busy, Waiting, Ask
  <2>5. QED
    BY <2>3, <2>4 DEF IndInv
<1>3. CASE fds < MaxFds /\ stage' = "prompt"
  <2>1. /\ fds < MaxFds /\ stage' = "prompt" /\ fds' = fds + 1
        /\ peer' = "open" /\ sent' = 0
        /\ answer' = NoAnswer /\ wire' = <<>> /\ buf' = <<>>
        /\ header_end' = 0 /\ content_length' = 0 /\ total' = 0 /\ cut' = FALSE
        /\ UNCHANGED request
    BY <1>3 DEF open_connection, Fail
  <2>2. TypeOK'
    <3>1. NoAnswer \in Seq(Symbols)
      BY NoAnswerSeq
    <3>2. fds' \in 0 .. MaxFds /\ fds' > 0 /\ sent' \in 0 .. ReqLen
      BY <2>1, RestAssumption DEF IndInv, TypeOK
    <3>3. answer' \in Seq(Symbols) /\ wire' \in Seq(Symbols) /\ buf' \in Seq(Symbols)
      BY <2>1, <3>1
    <3>4. header_end' \in Int /\ content_length' \in Nat /\ total' \in Nat
      BY <2>1
    <3>5. cut' \in BOOLEAN
      BY <2>1, Zenon
    <3>6. QED
      BY <2>1, <3>2, <3>3, <3>4, <3>5 DEF IndInv, TypeOK, Stages
  <2>3. RestInv'
    BY <2>1 DEF IndInv, RestInv, StreamInv, LoopInv, SessionInv, Busy, Waiting
  <2>4. QED
    BY <2>2, <2>3 DEF IndInv
<1>4. QED
  BY <1>1, <1>2, <1>3 DEF open_connection

LEMMA SendStep ==
  ASSUME IndInv, send_to_server, UNCHANGED client
  PROVE  IndInv'
<1> USE DEF client
<1>1. CASE Fail
  BY <1>1, FailStep
<1>2. CASE ~Fail
  <2>1. /\ stage = "send" /\ \E n \in 1 .. ReqLen - sent : sent' = sent + n
        /\ stage' \in {"send", "header"}
        /\ UNCHANGED <<fds, request, peer, answer, wire, buf,
                       header_end, content_length, total, cut>>
    BY <1>2 DEF send_to_server
  <2>2. sent' \in 0 .. ReqLen
    BY <2>1, RestAssumption DEF IndInv, TypeOK
  <2>3. TypeOK'
    BY <2>1, <2>2 DEF IndInv, TypeOK, Stages
  <2>4. RestInv'
    BY <2>1 DEF IndInv, RestInv, StreamInv, LoopInv, SessionInv, Busy, Waiting, Ask
  <2>5. QED
    BY <2>3, <2>4 DEF IndInv
<1>3. QED
  BY <1>1, <1>2

\* A read that brings something leaves the answer in two parts.
LEMMA ReadStep ==
  ASSUME IndInv, ReadSome
  PROVE  /\ buf' \in Seq(Symbols) /\ wire' \in Seq(Symbols) /\ answer # NoAnswer
         /\ PartsOf(buf', wire', answer) /\ Len(buf') + Len(wire') = Len(buf) + Len(wire)
<1>1. PICK n \in 1 .. Smaller(Len(wire), BUFLEN) :
        buf' = buf \o SubSeq(wire, 1, n) /\ wire' = SubSeq(wire, n + 1, Len(wire))
  BY DEF ReadSome, buffer_add
<1>2. /\ answer \in Seq(Symbols) /\ buf \in Seq(Symbols) /\ wire \in Seq(Symbols)
      /\ BUFLEN \in Nat
  BY RestAssumption DEF IndInv, TypeOK
<1>3. n \in 1 .. Len(wire)
  BY <1>1, <1>2 DEF Smaller
<1>4. answer # NoAnswer
  BY <1>2, <1>3 DEF IndInv, RestInv, StreamInv
<1>5. PartsOf(buf, wire, answer)
  BY <1>4, AnswerFacts DEF IndInv, RestInv
<1>6. ReadsOn(buf, wire, answer, n)
  BY <1>2, <1>3, <1>5, ReadPart
<1>7. QED
  BY <1>1, <1>4, <1>6 DEF ReadsOn

LEMMA SizeTypes == ASSUME NEW n \in Int PROVE SizeT(n) \in Nat
  BY RestAssumption DEF SizeT

LEMMA SizeFits == ASSUME NEW n \in Nat, n < SizeMod PROVE SizeT(n) = n
  BY RestAssumption DEF SizeT

LEMMA HeaderStep ==
  ASSUME IndInv, receive_header, UNCHANGED client
  PROVE  IndInv'
<1> USE DEF client
<1>1. CASE Fail
  BY <1>1, FailStep
<1>2. ASSUME ReadSome, header_end' = HeaderEnd(buf'),
             IF header_end' >= 0 /\ LengthStart(buf') >= 0
               THEN /\ content_length' = LengthAt(buf')
                    /\ total' = SizeT(content_length' + header_end')
                    /\ stage' = "body"
               ELSE UNCHANGED <<content_length, total, stage>>,
             UNCHANGED <<fds, request, sent, peer, answer, cut>>, stage = "header"
      PROVE  IndInv'
  <2>1. /\ buf' \in Seq(Symbols) /\ wire' \in Seq(Symbols) /\ answer # NoAnswer
        /\ PartsOf(buf', wire', answer) /\ Len(buf') + Len(wire') = Len(buf) + Len(wire)
    BY <1>2, ReadStep
  <2>2. /\ answer \in Seq(Symbols) /\ Framed(answer) /\ Len(answer) < SizeMod
    BY <2>1, AnswerFacts DEF IndInv, RestInv
  <2>3. Begins(buf', answer)
    BY <2>1, <2>2 DEF PartsOf, Begins
  <2>4. HeaderEnd(buf') \in Int /\ LengthAt(buf') \in Nat
    BY <2>1, HeaderFacts
  <2>5. TypeOK'
    <3>1. CASE header_end' >= 0 /\ LengthStart(buf') >= 0
      <4>1. content_length' \in Nat /\ total' \in Nat /\ header_end' \in Int /\ stage' = "body"
        BY <1>2, <2>4, <3>1, SizeTypes
      <4>2. QED
        BY <1>2, <2>1, <4>1 DEF IndInv, TypeOK, Stages
    <3>2. CASE ~(header_end' >= 0 /\ LengthStart(buf') >= 0)
      BY <1>2, <2>1, <2>4, <3>2 DEF IndInv, TypeOK, Stages
    <3>3. QED
      BY <3>1, <3>2
  <2>6. StreamInv'
    <3>1. stage' \in {"header", "body"}
      BY <1>2
    <3>2. QED
      BY <1>2, <2>1, <3>1 DEF IndInv, RestInv, StreamInv, Waiting, Ask, PartsOf
  <2>7. LoopInv'
    <3>1. CASE header_end' >= 0 /\ LengthStart(buf') >= 0
      <4>1. LengthAt(buf') + HeaderEnd(buf') = Len(answer)
        BY <1>2, <2>1, <2>2, <2>3, <3>1, FramedPart
      <4>2. total' = SizeT(Len(answer))
        BY <1>2, <3>1, <4>1
      <4>3. total' = Len(answer)
        BY <2>2, <4>2, SizeFits
      <4>4. QED
        BY <1>2, <2>1, <3>1, <4>3 DEF LoopInv
    <3>2. CASE ~(header_end' >= 0 /\ LengthStart(buf') >= 0)
      BY <1>2, <3>2 DEF LoopInv
    <3>3. QED
      BY <3>1, <3>2
  <2>8. SessionInv'
    BY <1>2 DEF IndInv, RestInv, SessionInv, Busy
  <2>9. QED
    BY <2>5, <2>6, <2>7, <2>8 DEF IndInv, RestInv
<1>3. ASSUME AtEnd, total' = SizeT(content_length + header_end), stage' = "body",
             stage = "header",
             UNCHANGED <<fds, request, sent, peer, answer, wire, buf,
                         header_end, content_length, cut>>
      PROVE  IndInv'
  <2>1. total' \in Nat
    <3>1. content_length + header_end \in Int
      BY DEF IndInv, TypeOK
    <3>2. QED
      BY <1>3, <3>1, SizeTypes
  <2>2. TypeOK'
    BY <1>3, <2>1 DEF IndInv, TypeOK, Stages
  <2>3. RestInv'
    BY <1>3 DEF IndInv, RestInv, StreamInv, LoopInv, SessionInv, Busy, Waiting, Ask, AtEnd
  <2>4. QED
    BY <2>2, <2>3 DEF IndInv
<1>4. QED
  BY <1>1, <1>2, <1>3 DEF receive_header

LEMMA BodyStep ==
  ASSUME IndInv, receive_body, UNCHANGED client
  PROVE  IndInv'
<1> USE DEF client
<1>1. CASE Fail
  BY <1>1, FailStep
<1>2. ASSUME ReadSome, stage = "body",
             UNCHANGED <<stage, fds, request, sent, peer, answer,
                         header_end, content_length, total, cut>>
      PROVE  IndInv'
  <2>1. /\ buf' \in Seq(Symbols) /\ wire' \in Seq(Symbols) /\ answer # NoAnswer
        /\ PartsOf(buf', wire', answer) /\ Len(buf') + Len(wire') = Len(buf) + Len(wire)
    BY <1>2, ReadStep
  <2>2. TypeOK'
    BY <1>2, <2>1 DEF IndInv, TypeOK, Stages
  <2>3. StreamInv'
    BY <1>2, <2>1 DEF IndInv, RestInv, StreamInv, Waiting, Ask, PartsOf
  <2>4. LoopInv'
    <3>1. wire # <<>>
      BY <1>2, RestAssumption DEF ReadSome, Smaller, IndInv, TypeOK
    <3>2. QED
      BY <1>2, <3>1 DEF IndInv, RestInv, LoopInv
  <2>5. SessionInv'
    BY <1>2 DEF IndInv, RestInv, SessionInv, Busy
  <2>6. QED
    BY <2>2, <2>3, <2>4, <2>5 DEF IndInv, RestInv
<1>3. ASSUME Len(buf) >= total \/ AtEnd, stage' = "got", stage = "body", UNCHANGED <<fds, exchange>>
      PROVE  IndInv'
  <2> USE DEF exchange
  <2>1. TypeOK'
    BY <1>3 DEF IndInv, TypeOK, Stages
  <2>2. StreamInv'
    BY <1>3 DEF IndInv, RestInv, StreamInv, Waiting, Ask
  <2>3. ASSUME ~cut PROVE answer # NoAnswer /\ buf = answer
    <3>1. answer # NoAnswer
      BY <1>3, <2>3 DEF IndInv, RestInv, StreamInv, LoopInv, Waiting, AtEnd
    <3>2. /\ answer \in Seq(Symbols) /\ buf \in Seq(Symbols) /\ wire \in Seq(Symbols)
          /\ Len(buf) + Len(wire) = Len(answer)
          /\ \A i \in 1 .. Len(buf) : buf[i] = answer[i]
      BY <2>3, <3>1 DEF IndInv, TypeOK, RestInv, StreamInv
    <3>3. wire = <<>> \/ Len(buf) >= Len(answer)
      BY <1>3 DEF IndInv, RestInv, LoopInv, AtEnd
    <3>4. Len(buf) = Len(answer)
      BY <3>2, <3>3
    <3>5. buf = answer
      BY <3>2, <3>4, SeqEqual
    <3>6. QED
      BY <3>1, <3>5
  <2>4. LoopInv'
    BY <1>3, <2>3 DEF LoopInv
  <2>5. SessionInv'
    BY <1>3 DEF IndInv, RestInv, SessionInv, Busy
  <2>6. QED
    BY <2>1, <2>2, <2>4, <2>5 DEF IndInv, RestInv
<1>4. QED
  BY <1>1, <1>2, <1>3 DEF receive_body

(***************************************************************************)
(* The service                                                             *)
(***************************************************************************)
LEMMA ServiceStep ==
  ASSUME IndInv, Service
  PROVE  IndInv'
<1> USE DEF client
<1>1. CASE ServiceAnswers
  <2>1. /\ stage = "header" /\ answer = NoAnswer /\ buf = <<>> /\ peer = "open"
        /\ answer' \in Answers[Ask(request)] /\ wire' = answer'
        /\ UNCHANGED <<stage, fds, request, sent, peer, buf,
                       header_end, content_length, total, cut, client>>
    BY <1>1 DEF Service, ServiceAnswers, IndInv, RestInv, StreamInv
  <2>2. Ask(request) \in Asks
    BY DEF IndInv, TypeOK, Requests, Asks, Ask, Fields
  <2>3. answer' \in Seq(Symbols) /\ answer' # NoAnswer
    BY <2>1, <2>2, RestAssumption
  <2>4. TypeOK'
    BY <2>1, <2>3 DEF IndInv, TypeOK
  <2>5. StreamInv'
    <3>1. Len(buf') = 0
      BY <2>1
    <3>2. Len(wire') \in Nat /\ wire' = answer'
      BY <2>1, <2>3
    <3>3. \A i \in 1 .. Len(wire') : wire'[i] = answer'[Len(buf') + i]
      BY <3>1, <3>2
    <3>4. Ask(request)' = Ask(request)
      BY <2>1 DEF Ask
    <3>5. Len(buf') + Len(wire') = Len(answer')
      BY <3>1, <3>2
    <3>6. \A i \in 1 .. Len(buf') : buf'[i] = answer'[i]
      BY <3>1
    <3>7. stage' = "header" /\ answer' # NoAnswer /\ answer' \in Answers[Ask(request)']
          /\ (peer' = "open" => ~cut')
      BY <2>1, <2>3, <3>4 DEF IndInv, RestInv, StreamInv
    <3>8. Len(answer') \in Nat
      BY <2>3
    <3>9. QED
      BY <3>3, <3>5, <3>6, <3>7, <3>8 DEF StreamInv
  <2>6. LoopInv' /\ SessionInv'
    BY <2>1 DEF IndInv, RestInv, LoopInv, SessionInv, Busy
  <2>7. QED
    BY <2>4, <2>5, <2>6 DEF IndInv, RestInv
<1>2. CASE ServiceCloses
  <2>1. PICK n \in 0 .. Len(wire) : wire' = SubSeq(wire, 1, n)
    BY <1>2 DEF ServiceCloses
  <2>2. /\ Waiting /\ peer = "open" /\ peer' \in {"closed", "reset"}
        /\ cut' = (answer = NoAnswer \/ wire' # wire)
        /\ UNCHANGED <<stage, fds, request, sent, answer, buf,
                       header_end, content_length, total, client>>
    BY <1>2 DEF Service, ServiceCloses
  <2>3. wire' \in Seq(Symbols) /\ (answer # NoAnswer => PartsOf(buf, wire', answer))
    <3>1. CASE answer = NoAnswer
      <4>1. wire = <<>>
        BY <3>1 DEF IndInv, RestInv, StreamInv
      <4>2. wire' \in Seq(Symbols)
        BY <2>1, <4>1
      <4>3. QED
        BY <3>1, <4>2
    <3>2. CASE answer # NoAnswer
      <4>1. PartsOf(buf, wire, answer)
        BY <3>2, AnswerFacts DEF IndInv, RestInv
      <4>2. QED
        BY <2>1, <4>1, CutPart DEF IndInv, TypeOK
    <3>3. QED
      BY <3>1, <3>2
  <2>4. cut' \in BOOLEAN
    BY <2>2, Zenon
  <2>5. TypeOK'
    BY <2>2, <2>3, <2>4 DEF IndInv, TypeOK
  <2>6. /\ stage \in {"prompt", "entry", "send"} => answer = NoAnswer
        /\ answer = NoAnswer => wire' = <<>> /\ buf = <<>> /\ cut'
        /\ ~cut' => wire' = wire /\ ~cut
    <3>1. answer = NoAnswer => wire = <<>> /\ buf = <<>>
      BY DEF IndInv, RestInv, StreamInv
    <3>2. wire = <<>> => wire' = <<>>
      BY <2>1
    <3>3. ~cut
      BY <2>2 DEF IndInv, RestInv, StreamInv
    <3>4. (answer = NoAnswer => cut') /\ (~cut' => wire' = wire)
      BY <2>2
    <3>5. stage \in {"prompt", "entry", "send"} => answer = NoAnswer
      BY DEF IndInv, RestInv, StreamInv
    <3>6. QED
      BY <3>1, <3>2, <3>3, <3>4, <3>5
  <2>7. StreamInv'
    <3>1. peer' # "open"
      BY <2>2
    <3>2. CASE answer = NoAnswer
      BY <2>2, <2>6, <3>1, <3>2 DEF StreamInv
    <3>3. CASE answer # NoAnswer
      <4>1. /\ answer \in Answers[Ask(request)]
            /\ ~cut => Len(buf) + Len(wire) = Len(answer)
        BY <3>3 DEF IndInv, RestInv, StreamInv
      <4>2. Ask(request)' = Ask(request)
        BY <2>2 DEF Ask
      <4>3. QED
        BY <2>2, <2>3, <2>6, <3>1, <3>3, <4>1, <4>2 DEF StreamInv, PartsOf, Waiting
    <3>4. QED
      BY <3>2, <3>3
  <2>8. LoopInv'
    <3>1. stage # "got"
      BY <2>2 DEF Waiting
    <3>2. QED
      BY <2>2, <3>1 DEF IndInv, RestInv, LoopInv
  <2>9. SessionInv'
    BY <2>2 DEF IndInv, RestInv, SessionInv, Busy
  <2>10. QED
    BY <2>5, <2>7, <2>8, <2>9 DEF IndInv, RestInv
<1>3. CASE ServiceResets
  <2>1. /\ peer = "closed" /\ peer' = "reset" /\ Waiting
        /\ UNCHANGED <<stage, fds, request, sent, answer, wire, buf,
                       header_end, content_length, total, cut, client>>
    BY <1>3 DEF Service, ServiceResets
  <2>2. TypeOK'
    BY <2>1 DEF IndInv, TypeOK
  <2>3. RestInv'
    BY <2>1 DEF IndInv, RestInv, StreamInv, LoopInv, SessionInv, Busy, Waiting, Ask
  <2>4. QED
    BY <2>2, <2>3 DEF IndInv
<1>4. QED
  BY <1>1, <1>2, <1>3 DEF Service

(***************************************************************************)
(* The commands                                                            *)
(***************************************************************************)
Prints == {NULL, "OK", JSON, SID, LIST, JUNK}
Entries == [pages : PageWords \cup {NoEntry.pages}, author : BOOLEAN]

\* Sending a request keeps the invariant, whatever it is, as long as
\* enter_library sends the cookie.
LEMMA Requested ==
  ASSUME IndInv, NEW r \in Requests, Send(r), stage \in {"prompt", "entry"},
         r.op = "enter_library" => r.cookie = cookies[0],
         printed' \in Prints, entry' \in Entries, UNCHANGED <<cookies, saved, session>>
  PROVE  IndInv'
<1>1. /\ request' = r /\ stage' = "send"
      /\ UNCHANGED <<fds, sent, peer, answer, wire, buf, header_end, content_length, total, cut>>
  BY DEF Send
<1>2. TypeOK'
  BY <1>1 DEF IndInv, TypeOK, Stages, Prints, Entries
<1>3. answer = NoAnswer
  BY DEF IndInv, RestInv, StreamInv
<1>4. StreamInv' /\ LoopInv'
  BY <1>1, <1>3 DEF IndInv, RestInv, StreamInv, LoopInv, Waiting
<1>5. SessionInv'
  BY <1>1 DEF IndInv, RestInv, SessionInv, Busy
<1>6. QED
  BY <1>2, <1>4, <1>5 DEF IndInv, RestInv

LEMMA CookieTypes == ASSUME TypeOK PROVE /\ cookies[0] \in Fields \ {NULLTEXT}
                                         /\ cookies[1] \in Fields \ {NULLTEXT}
  BY DEF TypeOK

LEMMA Requestables ==
  ASSUME TypeOK, NEW op \in Ops, NEW user \in Users \cup {NULL}, NEW pages \in Int, NEW count
  PROVE  /\ compute_get_request(op, count) \in Requests
         /\ compute_post_request(op, user, pages, count) \in Requests
         /\ compute_delete_request(op) \in Requests
<1>1. cookies[0] \in Fields /\ cookies[1] \in Fields /\ NULL \in Fields /\ NULLTEXT \in Fields
  BY CookieTypes DEF Fields
<1>2. \A v \in Fields : Shown(v) \in Fields
  BY <1>1 DEF Shown
<1>3. compute_get_request(op, count) \in Requests
  BY <1>1 DEF compute_get_request, Requests
<1>4. compute_post_request(op, user, pages, count) \in Requests
  BY <1>1, <1>2 DEF compute_post_request, Requests
<1>5. compute_delete_request(op) \in Requests
  BY <1>1 DEF compute_delete_request, Requests
<1>6. QED
  BY <1>3, <1>4, <1>5

LEMMA PostedBy ==
  ASSUME NEW op, NEW user, NEW pages, NEW count
  PROVE  compute_post_request(op, user, pages, count).op = op
  BY DEF compute_post_request

LEMMA CommandStep ==
  ASSUME IndInv, Command
  PROVE  IndInv'
<1>1. NULL \in Prints /\ 0 \in Int /\ NULL \in Users \cup {NULL}
  BY DEF Prints
<1>2. entry \in Entries /\ TypeOK
  BY DEF IndInv, TypeOK, Entries
<1>3. ASSUME NEW u \in Users, register(u) \/ login(u) PROVE IndInv'
  <2>1. PICK op \in {"register", "login"} :
          Typed /\ Send(compute_post_request(op, u, 0, 0)) /\ UNCHANGED <<cookies, saved, entry, session>>
    BY <1>3 DEF register, login
  <2> DEFINE r == compute_post_request(op, u, 0, 0)
  <2>2. r \in Requests /\ r.op # "enter_library"
    BY <1>1, <1>2, Requestables, PostedBy DEF Ops
  <2> HIDE DEF r
  <2>3. QED
    BY <1>1, <1>2, <2>1, <2>2, Requested DEF Typed, r
<1>4. ASSUME NEW op \in {"enter_library", "logout", "get_books", "get_book"}, NEW count \in {1, 2},
             get(op, count)
      PROVE  IndInv'
  <2> DEFINE r == compute_get_request(op, count)
  <2>1. Typed /\ Send(r) /\ UNCHANGED <<cookies, saved, entry, session>>
    BY <1>4 DEF get
  <2>2. r \in Requests /\ r.cookie = cookies[0]
    BY <1>1, <1>2, Requestables DEF Ops, compute_get_request
  <2> HIDE DEF r
  <2>3. QED
    BY <1>1, <1>2, <2>1, <2>2, Requested DEF Typed
<1>5. CASE delete_book
  <2> DEFINE r == compute_delete_request("delete_book")
  <2>1. Typed /\ Send(r) /\ UNCHANGED <<cookies, saved, entry, session>>
    BY <1>5 DEF delete_book
  <2>2. r \in Requests /\ r.op # "enter_library"
    BY <1>1, <1>2, Requestables DEF Ops, compute_delete_request
  <2> HIDE DEF r
  <2>3. QED
    BY <1>1, <1>2, <2>1, <2>2, Requested DEF Typed
<1>6. CASE add_book
  <2>1. /\ stage = "prompt" /\ stage' = "entry" /\ printed' = NULL
        /\ entry' \in [pages : PageWords, author : BOOLEAN]
        /\ UNCHANGED <<fds, exchange, cookies, saved, session>>
    BY <1>6 DEF add_book, Typed
  <2>2. entry' \in Entries
    BY <2>1 DEF Entries
  <2>3. TypeOK'
    BY <2>1, <2>2 DEF IndInv, TypeOK, Stages, exchange, Entries
  <2>4. RestInv'
    BY <2>1 DEF IndInv, RestInv, StreamInv, LoopInv, SessionInv, Busy, Waiting, Ask, exchange
  <2>5. QED
    BY <2>3, <2>4 DEF IndInv
<1>7. CASE unknown
  <2>1. /\ stage = "prompt" /\ stage' = "connect" /\ printed' = NULL
        /\ UNCHANGED <<fds, exchange, cookies, saved, entry, session>>
    BY <1>7 DEF unknown, Typed
  <2>2. TypeOK'
    BY <2>1 DEF IndInv, TypeOK, Stages, exchange
  <2>3. RestInv'
    BY <2>1 DEF IndInv, RestInv, StreamInv, LoopInv, SessionInv, Busy, Waiting, Ask, exchange
  <2>4. QED
    BY <2>2, <2>3 DEF IndInv
<1>8. CASE exit
  <2>1. /\ stage = "prompt" /\ stage' = "exited" /\ printed' = NULL /\ fds' = fds - 1
        /\ request' = [request EXCEPT !.op = "exit"]
        /\ UNCHANGED <<sent, peer, answer, wire, buf, header_end,
                       content_length, total, cut, cookies, saved, entry, session>>
    BY <1>8 DEF exit, Typed
  <2>2. request' \in Requests
    BY <2>1 DEF IndInv, TypeOK, Requests, Ops
  <2>3. fds' \in 0 .. MaxFds
    BY <2>1, RestAssumption DEF IndInv, TypeOK
  <2>4. TypeOK'
    BY <2>1, <2>2, <2>3 DEF IndInv, TypeOK, Stages
  <2>5. answer = NoAnswer
    BY <2>1 DEF IndInv, RestInv, StreamInv
  <2>6. RestInv'
    BY <2>1, <2>5 DEF IndInv, RestInv, StreamInv, LoopInv, SessionInv, Busy, Waiting
  <2>7. QED
    BY <2>4, <2>6 DEF IndInv
<1>9. QED
  BY <1>3, <1>4, <1>5, <1>6, <1>7, <1>8 DEF Command

LEMMA EntryStep ==
  ASSUME IndInv, check_pages \/ check_author
  PROVE  IndInv'
<1>1. /\ stage = "entry" /\ UNCHANGED <<stage, fds, exchange, cookies, saved, printed, session>>
      /\ entry' \in Entries
  <2>1. entry \in Entries
    BY DEF IndInv, TypeOK, Entries
  <2>2. CASE check_pages
    BY <2>1, <2>2 DEF check_pages, Entries
  <2>3. CASE check_author
    BY <2>1, <2>3 DEF check_author, Entries
  <2>4. QED
    BY <2>2, <2>3
<1>2. TypeOK'
  BY <1>1 DEF IndInv, TypeOK, exchange, Entries
<1>3. RestInv'
  BY <1>1 DEF IndInv, RestInv, StreamInv, LoopInv, SessionInv, Busy, Waiting, Ask, exchange
<1>4. QED
  BY <1>2, <1>3 DEF IndInv

LEMMA PostStep ==
  ASSUME IndInv, post_book
  PROVE  IndInv'
<1> DEFINE n == atoi(entry.pages)
           r == compute_post_request("add_book", NULL, n, 2)
<1>1. stage = "entry" /\ Send(r) /\ UNCHANGED client
  BY DEF post_book
<1>2. entry.pages.value \in Nat
  BY RestAssumption DEF IndInv, TypeOK, NoEntry
<1>3. n \in Int
  <2>1. ASSUME NEW w \in Nat, NEW m \in Nat \ {0} PROVE w % m \in Int
    BY <2>1
  <2>2. entry.pages.value % IntMod \in Int /\ IntMod \in Int
    BY ONLY <1>2, RestAssumption, <2>1
  <2>3. QED
    BY ONLY <2>2 DEF atoi
<1> HIDE DEF n
<1>4. r \in Requests /\ r.op # "enter_library"
  BY <1>3, Requestables, PostedBy DEF Ops, IndInv
<1> HIDE DEF r
<1>5. printed' \in Prints /\ entry' \in Entries
  BY <1>1 DEF client, IndInv, TypeOK, Prints, Entries
<1>6. QED
  BY <1>1, <1>4, <1>5, Requested DEF client

(***************************************************************************)
(* The responses                                                           *)
(***************************************************************************)

\* What the client reads as a cookie is the user's, or the response was cut.
LEMMA CookieGiven ==
  ASSUME IndInv, stage = "got", request.op = "login", strstr(buf, SID) >= 0
  PROVE  /\ CookieAt(buf) \in Users \cup {JUNK}
         /\ CookieAt(buf) = request.user \/ cut
<1> DEFINE at == strstr(buf, SID)
<1>1. buf \in Seq(Symbols)
  BY DEF IndInv, TypeOK
<1>2. at \in Int /\ at >= 0 /\ at + 1 \in 1 .. Len(buf) /\ buf[at + 1] = SID
  BY <1>1, StrStr
<1>3. CookieAt(buf) = IF at + 2 <= Len(buf) THEN buf[at + 2] ELSE JUNK
  BY DEF CookieAt
<1> HIDE DEF at
<1>4. answer # NoAnswer
  BY <1>1, <1>2 DEF IndInv, RestInv, StreamInv
<1>5. /\ answer \in Seq(Symbols) /\ PartsOf(buf, wire, answer)
      /\ \A i \in 1 .. Len(answer) : answer[i] \in {SID, TOKEN} =>
           /\ i < Len(answer) /\ answer[i + 1] = Ask(request).owner
           /\ Ask(request).owner \in Users
  BY <1>4, AnswerFacts DEF IndInv, RestInv
<1>6. Ask(request).owner = request.user
  BY DEF Ask
<1>7. Len(wire) \in Nat /\ Len(buf) \in Nat /\ Len(answer) \in Nat
  BY <1>5 DEF IndInv, TypeOK
<1>8. at + 1 \in 1 .. Len(answer) /\ answer[at + 1] = SID
  BY <1>2, <1>5, <1>7 DEF PartsOf
<1>9. /\ at + 1 < Len(answer) /\ answer[(at + 1) + 1] = request.user /\ request.user \in Users
  BY <1>5, <1>6, <1>8
<1>10. CASE at + 2 <= Len(buf)
  <2>1. at + 2 \in 1 .. Len(buf) /\ (at + 1) + 1 = at + 2
    BY <1>2, <1>10
  <2>2. buf[at + 2] = answer[at + 2]
    BY <1>5, <2>1 DEF PartsOf
  <2>3. QED
    BY <1>3, <1>9, <1>10, <2>1, <2>2
<1>11. CASE ~(at + 2 <= Len(buf))
  <2>1. cut
    <3>1. ~cut => buf = answer
      BY DEF IndInv, RestInv, LoopInv
    <3>2. QED
      BY <1>2, <1>7, <1>9, <1>11, <3>1
  <2>2. QED
    BY <1>3, <1>11, <2>1
<1>12. QED
  BY <1>10, <1>11

\* What it takes for a token is the token of its cookie, cut or not.
LEMMA TokenGiven ==
  ASSUME IndInv, stage = "got", request.op = "enter_library", Json >= 0,
         Parsed(buf, Json) # NULL
  PROVE  /\ Parsed(buf, Json) \in Users
         /\ Parsed(buf, Json) = request.cookie /\ request.cookie = cookies[0]
<1> DEFINE at == Json
<1>1. buf \in Seq(Symbols)
  BY DEF IndInv, TypeOK
<1>2. at \in Int /\ at >= 0
  BY <1>1, StrStr DEF Json
<1>3. /\ at + 4 <= Len(buf) /\ buf[at + 2] = TOKEN
      /\ Parsed(buf, at) = buf[at + 3]
  BY DEF Parsed
<1> HIDE DEF at
<1>4. Len(buf) \in Nat /\ at + 2 \in 1 .. Len(buf) /\ at + 3 \in 1 .. Len(buf)
  BY <1>1, <1>2, <1>3
<1>5. answer # NoAnswer
  BY <1>1, <1>4 DEF IndInv, RestInv, StreamInv
<1>6. /\ answer \in Seq(Symbols) /\ PartsOf(buf, wire, answer)
      /\ \A i \in 1 .. Len(answer) : answer[i] \in {SID, TOKEN} =>
           /\ i < Len(answer) /\ answer[i + 1] = Ask(request).owner
           /\ Ask(request).owner \in Users
  BY <1>5, AnswerFacts DEF IndInv, RestInv
<1>7. Ask(request).owner = request.cookie
  BY DEF Ask
<1>8. Len(wire) \in Nat /\ Len(answer) \in Nat
  BY <1>6 DEF IndInv, TypeOK
<1>9. at + 2 \in 1 .. Len(answer) /\ answer[at + 2] = TOKEN /\ buf[at + 3] = answer[at + 3]
  BY <1>3, <1>4, <1>6, <1>8 DEF PartsOf
<1>10. answer[(at + 2) + 1] = request.cookie /\ request.cookie \in Users
  BY <1>6, <1>7, <1>9
<1>11. (at + 2) + 1 = at + 3
  BY <1>2
<1>12. Parsed(buf, at) = request.cookie /\ request.cookie \in Users
  BY <1>3, <1>9, <1>10, <1>11
<1>13. request.cookie = cookies[0]
  BY DEF IndInv, RestInv, SessionInv, Busy
<1>14. QED
  BY <1>12, <1>13 DEF at

\* A response that was not cut is one the client expects.
LEMMA ExpectedIn ==
  ASSUME IndInv, stage = "got", ~cut
  PROVE  Expected(request.op, buf)
<1>1. answer # NoAnswer /\ buf = answer
  BY DEF IndInv, RestInv, LoopInv
<1>2. QED
  BY <1>1, AnswerFacts DEF IndInv, RestInv

\* What a handler may do to the client without breaking the invariant.
LEMMA Handled ==
  ASSUME IndInv, stage = "got", stage' \in {"connect", "crashed"},
         UNCHANGED <<fds, exchange, entry>>,
         cookies' \in [0 .. 1 -> Fields \ {NULLTEXT}], saved' \in BOOLEAN,
         printed' \in Prints, session' \in {"out", "in", "library", "again"},
         session' \in {"out", "in"} => cookies'[1] = NULL,
         session' = "library" => cookies'[1] = cookies'[0]
  PROVE  IndInv'
<1>1. TypeOK'
  BY DEF IndInv, TypeOK, exchange, Stages, Prints
<1>2. StreamInv' /\ LoopInv' /\ SessionInv'
  BY DEF IndInv, RestInv, StreamInv, LoopInv, SessionInv, Busy, Waiting, Ask, exchange
<1>3. QED
  BY <1>1, <1>2 DEF IndInv, RestInv

LEMMA UserFields == Users \cup {NULL, JUNK} \subseteq Fields \ {NULLTEXT}
  BY RestAssumption DEF Fields, NULL, JUNK, NULLTEXT

LEMMA HandleStep ==
  ASSUME IndInv, Handle
  PROVE  IndInv'
<1>1. /\ cookies \in [0 .. 1 -> Fields \ {NULLTEXT}] /\ saved \in BOOLEAN /\ printed \in Prints
      /\ session \in {"out", "in", "library", "again"}
      /\ session \in {"out", "in"} => cookies[1] = NULL
      /\ session = "library" => cookies[1] = cookies[0]
  BY DEF IndInv, TypeOK, Prints, RestInv, SessionInv
<1>2. ASSUME stage = "got", UNCHANGED <<fds, exchange, entry, cookies, saved, session>>,
             NEW text \in Prints, Done(text)
      PROVE  IndInv'
  BY <1>1, <1>2, Handled DEF Done
<1>3. ASSUME stage = "got", UNCHANGED <<fds, exchange, entry>>, Crash
      PROVE  IndInv'
  BY <1>1, <1>3, Handled DEF Crash
<1>4. CASE show_result
  BY <1>2, <1>4 DEF show_result, Handles, Prints
<1>5. CASE get_books_done
  BY <1>2, <1>3, <1>5 DEF get_books_done, Handles, Prints
<1>6. CASE get_book_done
  BY <1>2, <1>3, <1>6 DEF get_book_done, Handles, Prints
<1>7. CASE logout_done
  <2>1. /\ stage = "got" /\ UNCHANGED <<fds, exchange, entry, saved>>
        /\ cookies' = [cookies EXCEPT ![1] = NULL] /\ session' = "out"
        /\ stage' = "connect" /\ printed' \in Prints
    BY <1>7 DEF logout_done, Handles, Done, Prints
  <2>2. cookies' \in [0 .. 1 -> Fields \ {NULLTEXT}] /\ cookies'[1] = NULL
    BY <1>1, <2>1, UserFields
  <2>3. QED
    BY <1>1, <2>1, <2>2, Handled
<1>8. CASE login_done
  <2>1. stage = "got" /\ request.op = "login" /\ UNCHANGED <<fds, exchange, entry>>
    BY <1>8 DEF login_done, Handles
  <2>2. ASSUME NEW c \in Users \cup {JUNK}, cookies' = [cookies EXCEPT ![0] = c],
               saved' \in BOOLEAN, session' = Logged, NEW text \in Prints, Done(text)
        PROVE  IndInv'
    <3>1. cookies' \in [0 .. 1 -> Fields \ {NULLTEXT}] /\ cookies'[1] = cookies[1]
      BY <1>1, <2>2, UserFields
    <3>2. /\ session' \in {"in", "again"}
          /\ session' = "in" => session \notin {"library", "again"}
      BY <2>2 DEF Logged
    <3>3. QED
      BY <1>1, <2>1, <2>2, <3>1, <3>2, Handled DEF Done
  <2>3. CASE Json >= 0 /\ Done(JSON) /\ UNCHANGED <<cookies, saved, session>>
    BY <1>2, <2>1, <2>3 DEF Prints
  <2>4. CASE /\ Json < 0 /\ strstr(buf, SID) >= 0
             /\ cookies' = [cookies EXCEPT ![0] = CookieAt(buf)]
             /\ saved' = TRUE /\ session' = Logged /\ Done(SID)
    <3>1. CookieAt(buf) \in Users \cup {JUNK} /\ SID \in Prints
      BY <2>1, <2>4, CookieGiven DEF Prints
    <3>2. saved' \in BOOLEAN
      BY <2>4, Zenon
    <3>3. QED
      BY <2>2, <2>4, <3>1, <3>2
  <2>5. CASE /\ Json < 0 /\ strstr(buf, SID) < 0 /\ saved
             /\ cookies' = [cookies EXCEPT ![0] = JUNK]
             /\ session' = Logged /\ Done(JUNK) /\ UNCHANGED saved
    BY <1>1, <2>2, <2>5 DEF Prints
  <2>6. CASE Crash
    BY <1>3, <2>1, <2>6
  <2>7. QED
    BY <1>8, <2>3, <2>4, <2>5, <2>6 DEF login_done
<1>9. CASE enter_library_done
  <2>1. stage = "got" /\ request.op = "enter_library" /\ UNCHANGED <<fds, exchange, entry>>
    BY <1>9 DEF enter_library_done, Handles
  <2>2. CASE /\ Json >= 0 /\ Parsed(buf, Json) # NULL
             /\ cookies' = [cookies EXCEPT ![1] = Parsed(buf, Json)]
             /\ session' = "library" /\ Done(JSON) /\ UNCHANGED saved
    <3>1. Parsed(buf, Json) \in Users /\ Parsed(buf, Json) = cookies[0]
      BY <2>1, <2>2, TokenGiven
    <3>2. /\ cookies' \in [0 .. 1 -> Fields \ {NULLTEXT}]
          /\ cookies'[1] = cookies'[0]
      BY <1>1, <2>2, <3>1, UserFields
    <3>3. QED
      BY <1>1, <2>1, <2>2, <3>2, Handled DEF Done, Prints
  <2>3. CASE Done(JSON) /\ UNCHANGED <<cookies, saved, session>>
    BY <1>2, <2>1, <2>3 DEF Prints
  <2>4. CASE Crash
    BY <1>3, <2>1, <2>4
  <2>5. QED
    BY <1>9, <2>2, <2>3, <2>4 DEF enter_library_done
<1>10. QED
  BY <1>4, <1>5, <1>6, <1>7, <1>8, <1>9 DEF Handle

LEMMA NextInv ==
  ASSUME IndInv, [Next]_vars
  PROVE  IndInv'
<1>1. CASE Exchange /\ UNCHANGED client
  BY <1>1, OpenStep, SendStep, HeaderStep, BodyStep DEF Exchange
<1>2. CASE post_book \/ Handle
  BY <1>2, PostStep, HandleStep
<1>3. CASE User
  BY <1>3, CommandStep, EntryStep DEF User
<1>4. CASE Service
  BY <1>4, ServiceStep
<1>5. CASE UNCHANGED vars
  <2>1. TypeOK'
    BY <1>5 DEF IndInv, TypeOK, vars, exchange, client
  <2>2. RestInv'
    BY <1>5 DEF IndInv, RestInv, StreamInv, LoopInv, SessionInv, Busy, Waiting, Ask,
                vars, exchange, client
  <2>3. QED
    BY <2>1, <2>2 DEF IndInv
<1>6. QED
  BY <1>1, <1>2, <1>3, <1>4, <1>5 DEF Next, Program

(***************************************************************************)
(* The theorems                                                            *)
(***************************************************************************)

\* The types and the invariant the rest follows from.
THEOREM RestInvariance == Spec => []IndInv
<1>1. Init => IndInv
  BY InitInv
<1>2. IndInv /\ [Next]_vars => IndInv'
  BY NextInv
<1>3. QED
  BY <1>1, <1>2, PTL DEF Spec

\* The client handles a response only when it has all of it, in whatever
\* reads it came, unless the connection was cut (receive_from_server()).
THEOREM RestWholeAnswer == Spec => []WholeAnswer
<1>1. IndInv => WholeAnswer
  BY DEF IndInv, RestInv, LoopInv, WholeAnswer
<1>2. QED
  BY <1>1, RestInvariance, PTL

\* Cookie and token are of two users only after a login without a logout.
THEOREM RestMixed == Spec => []MixedOnlyWithoutLogout
<1>1. ASSUME IndInv PROVE MixedOnlyWithoutLogout
  <2>1. NULL \notin Users
    BY RestAssumption
  <2>2. session \in {"out", "in", "library", "again"}
    BY <1>1 DEF IndInv, TypeOK
  <2>3. QED
    BY <1>1, <2>1, <2>2 DEF IndInv, RestInv, SessionInv, MixedOnlyWithoutLogout, Mixed
<1>2. QED
  BY <1>1, RestInvariance, PTL

\* Where a step of each kind starts, and what it leaves alone.
LEMMA Moves ==
  ASSUME [Next]_vars
  PROVE  \/ Exchange /\ UNCHANGED client
         \/ stage = "entry" /\ stage' = "send" /\ post_book
         \/ stage = "got" /\ UNCHANGED <<fds, exchange, entry>> /\ Handle
         \/ stage = "prompt" /\ printed' = NULL /\ Command
         \/ stage = "entry" /\ UNCHANGED <<stage, fds, exchange, printed>>
         \/ Waiting /\ UNCHANGED <<stage, fds, request, client>>
         \/ UNCHANGED vars
<1>1. CASE post_book
  BY <1>1 DEF post_book, Send
<1>2. CASE Handle
  BY <1>2 DEF Handle, show_result, login_done, enter_library_done, get_books_done,
              get_book_done, logout_done, Handles
<1>3. CASE Command
  BY <1>3 DEF Command, register, login, get, add_book, delete_book, unknown, exit, Typed
<1>4. CASE check_pages \/ check_author
  BY <1>4 DEF check_pages, check_author
<1>5. CASE Service
  BY <1>5 DEF Service, ServiceAnswers, ServiceCloses, ServiceResets, Waiting
<1>6. QED
  BY <1>1, <1>2, <1>3, <1>4, <1>5 DEF Next, Program, User

\* The prompt is left for a request, the questions of add_book, another
\* connection or the end.
LEMMA CommandMoves ==
  ASSUME Command
  PROVE  \/ stage' = "send" /\ request'.op # "add_book"
         \/ stage' \in {"entry", "connect"}
         \/ stage' = "exited" /\ request'.op = "exit"
<1>1. ASSUME NEW u \in Users, register(u) \/ login(u)
      PROVE  stage' = "send" /\ request'.op # "add_book"
  BY <1>1, PostedBy DEF register, login, Send
<1>2. ASSUME NEW op \in {"enter_library", "logout", "get_books", "get_book"}, NEW count,
             get(op, count)
      PROVE  stage' = "send" /\ request'.op # "add_book"
  BY <1>2 DEF get, Send, compute_get_request
<1>3. CASE delete_book
  BY <1>3 DEF delete_book, Send, compute_delete_request
<1>4. CASE add_book \/ unknown
  BY <1>4 DEF add_book, unknown
<1>5. ASSUME exit PROVE stage' = "exited" /\ request'.op = "exit"
  BY <1>5 DEF exit
<1>6. QED
  BY <1>1, <1>2, <1>3, <1>4, <1>5 DEF Command

\* The exchange never comes back to the prompt or crashes, and gives up for
\* a reason.
LEMMA ExchangeMoves ==
  ASSUME IndInv, Exchange
  PROVE  /\ stage' \in {"prompt", "send", "header", "body", "got", "exited"}
         /\ stage' = "exited" => peer' \in {"refused", "reset"} \/ fds' = MaxFds
         /\ stage' \in {"send", "header", "body", "got"} =>
              stage \in {"send", "header", "body", "got"} /\ request' = request
<1>1. CASE open_connection
  BY <1>1 DEF open_connection, Fail, exchange
<1>2. CASE send_to_server
  BY <1>2 DEF send_to_server, Fail, exchange
<1>3. CASE receive_header
  BY <1>3 DEF receive_header, Fail, exchange, AtError
<1>4. CASE receive_body
  BY <1>4 DEF receive_body, Fail, exchange, AtError
<1>5. QED
  BY <1>1, <1>2, <1>3, <1>4 DEF Exchange

\* Only the program's own handling of a response crashes it, and only one
\* that was cut.
LEMMA HandleMoves ==
  ASSUME IndInv, stage = "got", Handle
  PROVE  /\ stage' \in {"connect", "crashed"}
         /\ stage' = "crashed" => cut
         /\ stage' = "connect" /\ printed' = "OK" => Json < 0
<1>1. CASE show_result
  BY <1>1 DEF show_result, Done, JSON
<1>2. CASE login_done
  <2>1. request.op = "login"
    BY <1>2 DEF login_done, Handles
  <2>2. ASSUME Json < 0, strstr(buf, SID) < 0 PROVE cut
    <3>1. ~cut => Expected("login", buf)
      BY <2>1, ExpectedIn
    <3>2. buf \in Seq(Symbols)
      BY DEF IndInv, TypeOK
    <3>3. strstr(buf, SID) \in Int /\ Json \in Int
      BY <3>2, StrStr DEF Json
    <3>4. QED
      BY <2>2, <3>1, <3>3 DEF Expected, Json
  <2>3. QED
    BY <1>2, <2>2 DEF login_done, Done, Crash, JSON, SID, JUNK
<1>3. CASE enter_library_done
  <2>1. request.op = "enter_library"
    BY <1>3 DEF enter_library_done, Handles
  <2>2. ASSUME Json < 0 PROVE cut
    <3>1. ~cut => Expected("enter_library", buf)
      BY <2>1, ExpectedIn
    <3>2. buf \in Seq(Symbols)
      BY DEF IndInv, TypeOK
    <3>3. Json \in Int
      BY <3>2, StrStr DEF Json
    <3>4. QED
      BY <2>2, <3>1, <3>3 DEF Expected, Json
  <2>3. QED
    BY <1>3, <2>2 DEF enter_library_done, Done, Crash, JSON
<1>4. CASE get_books_done
  <2>1. request.op = "get_books"
    BY <1>4 DEF get_books_done, Handles
  <2>2. ASSUME Json < 0, strstr(buf, LIST) < 0 PROVE cut
    <3>1. ~cut => Expected("get_books", buf)
      BY <2>1, ExpectedIn
    <3>2. buf \in Seq(Symbols)
      BY DEF IndInv, TypeOK
    <3>3. strstr(buf, LIST) \in Int /\ Json \in Int
      BY <3>2, StrStr DEF Json
    <3>4. QED
      BY <2>2, <3>1, <3>3 DEF Expected, Json
  <2>3. QED
    BY <1>4, <2>2 DEF get_books_done, Done, Crash, JSON, LIST
<1>5. CASE get_book_done
  <2>1. request.op = "get_book"
    BY <1>5 DEF get_book_done, Handles
  <2>2. ASSUME Json < 0 PROVE cut
    <3>1. ~cut => Expected("get_book", buf)
      BY <2>1, ExpectedIn
    <3>2. buf \in Seq(Symbols)
      BY DEF IndInv, TypeOK
    <3>3. Json \in Int
      BY <3>2, StrStr DEF Json
    <3>4. QED
      BY <2>2, <3>1, <3>3 DEF Expected, Json
  <2>3. QED
    BY <1>5, <2>2 DEF get_book_done, Done, Crash, JSON
<1>6. CASE logout_done
  BY <1>6 DEF logout_done, Done, JSON
<1>7. QED
  BY <1>1, <1>2, <1>3, <1>4, <1>5, <1>6 DEF Handle

LEMMA InitOutcome == Init => OkMeansAccepted /\ CrashOnlyIfCut /\ PagesAsTyped /\ EndsForAReason
  BY DEF Init, OkMeansAccepted, CrashOnlyIfCut, PagesAsTyped, EndsForAReason, NULL

LEMMA OkStep == IndInv /\ OkMeansAccepted /\ [Next]_vars => OkMeansAccepted'
<1> SUFFICES ASSUME IndInv, OkMeansAccepted, [Next]_vars, stage' = "connect", printed' = "OK", ~cut'
             PROVE  answer' # NoAnswer /\ strstr(answer', JSON) < 0
  BY DEF OkMeansAccepted
<1>1. CASE stage = "got" /\ UNCHANGED <<fds, exchange, entry>> /\ Handle
  <2>1. Json < 0
    BY <1>1, HandleMoves
  <2>2. answer' = answer /\ ~cut
    BY <1>1 DEF exchange
  <2>3. answer # NoAnswer /\ buf = answer
    BY <1>1, <2>2 DEF IndInv, RestInv, LoopInv
  <2>4. QED
    BY <2>1, <2>2, <2>3 DEF Json
<1>2. CASE UNCHANGED vars
  BY <1>2 DEF OkMeansAccepted, vars, exchange, client
<1>3. CASE Exchange /\ UNCHANGED client
  BY <1>3, ExchangeMoves
<1>4. CASE stage = "prompt" /\ printed' = NULL /\ Command
  BY <1>4 DEF NULL
<1>5. CASE stage = "entry" /\ UNCHANGED <<stage, fds, exchange, printed>>
  BY <1>5
<1>6. CASE Waiting /\ UNCHANGED <<stage, fds, request, client>>
  BY <1>6 DEF Waiting
<1>7. CASE stage = "entry" /\ stage' = "send" /\ post_book
  BY <1>7
<1>8. QED
  BY <1>1, <1>2, <1>3, <1>4, <1>5, <1>6, <1>7, Moves

LEMMA CrashStep == IndInv /\ CrashOnlyIfCut /\ [Next]_vars => CrashOnlyIfCut'
<1> SUFFICES ASSUME IndInv, CrashOnlyIfCut, [Next]_vars, stage' = "crashed"
             PROVE  cut'
  BY DEF CrashOnlyIfCut
<1>1. CASE stage = "got" /\ UNCHANGED <<fds, exchange, entry>> /\ Handle
  BY <1>1, HandleMoves DEF exchange
<1>2. CASE UNCHANGED vars
  BY <1>2 DEF CrashOnlyIfCut, vars, exchange, client
<1>3. CASE Exchange /\ UNCHANGED client
  BY <1>3, ExchangeMoves
<1>4. CASE stage = "prompt" /\ printed' = NULL /\ Command
  BY <1>4, CommandMoves
<1>5. CASE stage = "entry" /\ UNCHANGED <<stage, fds, exchange, printed>>
  BY <1>5
<1>6. CASE Waiting /\ UNCHANGED <<stage, fds, request, client>>
  BY <1>6 DEF Waiting
<1>7. CASE stage = "entry" /\ stage' = "send" /\ post_book
  BY <1>7
<1>8. QED
  BY <1>1, <1>2, <1>3, <1>4, <1>5, <1>6, <1>7, Moves

LEMMA EndStep == IndInv /\ EndsForAReason /\ [Next]_vars => EndsForAReason'
<1> SUFFICES ASSUME IndInv, EndsForAReason, [Next]_vars, stage' = "exited"
             PROVE  \/ request'.op = "exit"
                    \/ peer' \in {"refused", "reset"}
                    \/ fds' = MaxFds
  BY DEF EndsForAReason
<1>1. CASE stage = "got" /\ UNCHANGED <<fds, exchange, entry>> /\ Handle
  BY <1>1, HandleMoves
<1>2. CASE UNCHANGED vars
  BY <1>2 DEF EndsForAReason, vars, exchange, client
<1>3. CASE Exchange /\ UNCHANGED client
  BY <1>3, ExchangeMoves
<1>4. CASE stage = "prompt" /\ printed' = NULL /\ Command
  BY <1>4, CommandMoves
<1>5. CASE stage = "entry" /\ UNCHANGED <<stage, fds, exchange, printed>>
  BY <1>5
<1>6. CASE Waiting /\ UNCHANGED <<stage, fds, request, client>>
  BY <1>6 DEF Waiting
<1>7. CASE stage = "entry" /\ stage' = "send" /\ post_book
  BY <1>7
<1>8. QED
  BY <1>1, <1>2, <1>3, <1>4, <1>5, <1>6, <1>7, Moves

LEMMA PagesStep == IndInv /\ PagesAsTyped /\ [Next]_vars => PagesAsTyped'
<1> DEFINE At(st) == st \in {"send", "header", "body", "got"}
<1> SUFFICES ASSUME IndInv, PagesAsTyped, [Next]_vars, At(stage'), request'.op = "add_book"
             PROVE  /\ request'.pages > 0 /\ entry'.pages.digits
                    /\ entry'.pages.value < IntMod \div 2 =>
                         request'.pages = entry'.pages.value
  BY DEF PagesAsTyped
<1>1. CASE stage = "entry" /\ post_book
  <2> DEFINE n == atoi(entry.pages)
  <2>1. request'.pages = n /\ entry' = entry /\ ~BadPages(entry.pages)
    BY <1>1 DEF post_book, Send, compute_post_request, client
  <2>2. entry.pages.value \in Nat
    BY RestAssumption DEF IndInv, TypeOK, NoEntry
  <2>3. entry.pages.value < IntMod \div 2 => n = entry.pages.value
    <3> DEFINE v == entry.pages.value
    <3>1. IntMod \in Nat /\ IntMod > 0 /\ IntMod \div 2 <= IntMod
      BY RestAssumption
    <3>2. v < IntMod => v % IntMod = v
      BY <2>2, <3>1
    <3>3. n = IF v % IntMod < IntMod \div 2 THEN v % IntMod ELSE (v % IntMod) - IntMod
      BY DEF atoi
    <3> HIDE DEF n, v
    <3>4. v < IntMod \div 2 => n = v
      BY <2>2, <3>1, <3>2, <3>3 DEF v
    <3>5. QED
      BY <3>4 DEF v
  <2>4. entry.pages.digits /\ n > 0
    <3>1. n \in Int
      BY <2>2, RestAssumption DEF atoi
    <3>2. entry.pages.digits /\ ~(n <= 0)
      BY <2>1 DEF BadPages, isNumber
    <3> HIDE DEF n
    <3>3. QED
      BY <3>1, <3>2
  <2>5. QED
    BY <2>1, <2>3, <2>4
<1>2. CASE UNCHANGED vars
  BY <1>2 DEF PagesAsTyped, vars, exchange, client
<1>3. CASE Exchange /\ UNCHANGED client
  <2>1. At(stage) /\ request' = request /\ entry' = entry
    BY <1>3, ExchangeMoves DEF client
  <2>2. QED
    BY <2>1 DEF PagesAsTyped
<1>4. CASE Command
  BY <1>4, CommandMoves
<1>5. CASE stage = "entry" /\ UNCHANGED stage
  BY <1>5
<1>6. CASE Waiting /\ UNCHANGED <<stage, fds, request, client>>
  BY <1>6 DEF PagesAsTyped, client
<1>7. CASE stage = "got" /\ Handle
  BY <1>7, HandleMoves
<1>8. QED
  BY <1>1, <1>2, <1>3, <1>4, <1>5, <1>6, <1>7, Moves

\* No JSON is taken for success only when the service was content, and no null
\* pointer is followed, unless the connection was cut.
THEOREM RestNotMisled == Spec => []MisledOnlyIfCut
<1>1. Spec => []OkMeansAccepted
  BY InitOutcome, OkStep, RestInvariance, PTL DEF Spec
<1>2. Spec => []CrashOnlyIfCut
  BY InitOutcome, CrashStep, RestInvariance, PTL DEF Spec
<1>3. OkMeansAccepted /\ CrashOnlyIfCut => MisledOnlyIfCut
  BY DEF MisledOnlyIfCut
<1>4. QED
  BY <1>1, <1>2, <1>3, PTL

\* The page count of a book is the number typed (add_book).
THEOREM RestPages == Spec => []PagesAsTyped
  BY InitOutcome, PagesStep, RestInvariance, PTL DEF Spec

\* The program ends by exit, by a reset or with its last descriptor open.
THEOREM RestEnds == Spec => []EndsForAReason
  BY InitOutcome, EndStep, RestInvariance, PTL DEF Spec

\* The cookie and the token change only to what the service gave to whom.
THEOREM RestCredentials == Spec => CredentialsAreGiven
<1> DEFINE Given == /\ cookies'[0] # cookies[0] =>
                         /\ request.op = "login"
                         /\ cookies'[0] = request.user \/ cut
                    /\ cookies'[1] # cookies[1] =>
                         \/ request.op = "logout" /\ cookies'[1] = NULL
                         \/ request.op = "enter_library" /\ cookies'[1] = request.cookie
<1>1. ASSUME IndInv, [Next]_vars PROVE [Given]_vars
  <2>1. DOMAIN cookies = 0 .. 1
    BY <1>1 DEF IndInv, TypeOK
  <2>2. CASE stage = "got" /\ login_done
    <3>1. request.op = "login"
      BY <2>2 DEF login_done, Handles
    <3>2. ASSUME NEW c, cookies' = [cookies EXCEPT ![0] = c]
          PROVE  cookies'[0] = c /\ cookies'[1] = cookies[1]
      BY <2>1, <3>2
    <3>3. CASE UNCHANGED cookies
      BY <3>3
    <3>4. CASE strstr(buf, SID) >= 0 /\ cookies' = [cookies EXCEPT ![0] = CookieAt(buf)]
      BY <1>1, <2>2, <3>1, <3>2, <3>4, CookieGiven
    <3>5. CASE Json < 0 /\ strstr(buf, SID) < 0 /\ cookies' = [cookies EXCEPT ![0] = JUNK]
      <4>1. cut
        <5>1. ~cut => Expected("login", buf)
          BY <1>1, <2>2, <3>1, ExpectedIn
        <5>2. strstr(buf, SID) \in Int /\ Json \in Int
          BY <1>1, StrStr DEF Json, IndInv, TypeOK
        <5>3. QED
          BY <3>5, <5>1, <5>2 DEF Expected, Json
      <4>2. QED
        BY <3>1, <3>2, <3>5, <4>1
    <3>6. QED
      BY <2>2, <3>3, <3>4, <3>5 DEF login_done, Crash
  <2>3. CASE stage = "got" /\ enter_library_done
    <3>1. request.op = "enter_library"
      BY <2>3 DEF enter_library_done, Handles
    <3>2. CASE UNCHANGED cookies
      BY <3>2
    <3>3. CASE /\ Json >= 0 /\ Parsed(buf, Json) # NULL
               /\ cookies' = [cookies EXCEPT ![1] = Parsed(buf, Json)]
      <4>1. Parsed(buf, Json) = request.cookie
        BY <1>1, <2>3, <3>1, <3>3, TokenGiven
      <4>2. cookies'[0] = cookies[0] /\ cookies'[1] = request.cookie
        BY <2>1, <3>3, <4>1
      <4>3. QED
        BY <3>1, <4>2
    <3>4. QED
      BY <2>3, <3>2, <3>3 DEF enter_library_done, Crash
  <2>4. CASE logout_done
    BY <2>1, <2>4 DEF logout_done, Handles
  <2>5. CASE UNCHANGED cookies
    BY <2>5
  <2>6. CASE Command
    <3>1. UNCHANGED cookies
      BY <2>6 DEF Command, register, login, get, delete_book, add_book, unknown, exit
    <3>2. QED
      BY <3>1
  <2>7. CASE post_book
    BY <2>7 DEF post_book, client
  <2>8. CASE show_result \/ get_books_done \/ get_book_done
    <3>1. UNCHANGED cookies
      BY <2>8 DEF show_result, get_books_done, get_book_done, Crash
    <3>2. QED
      BY <3>1
  <2>9. CASE check_pages \/ check_author
    BY <2>9 DEF check_pages, check_author
  <2>10. CASE (Exchange /\ UNCHANGED client) \/ Service \/ UNCHANGED vars
    BY <2>10 DEF Service, client, vars
  <2>11. stage = "got" \/ ~Handle
    BY DEF Handle, show_result, login_done, enter_library_done, get_books_done,
           get_book_done, logout_done, Handles
  <2>12. QED
    BY <1>1, <2>2, <2>3, <2>4, <2>6, <2>7, <2>8, <2>9, <2>10, <2>11
       DEF Next, Program, User, Handle
<1>2. Spec => [][IndInv /\ [Next]_vars]_vars
  BY RestInvariance, PTL DEF Spec
<1>3. QED
  BY <1>1, <1>2, RestInvariance, PTL DEF Spec, CredentialsAreGiven
=============================================================================
