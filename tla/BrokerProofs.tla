---------------------------- MODULE BrokerProofs ----------------------------
(***************************************************************************)
(* The abstract broker keeps its promises for any clients, topics and      *)
(* number of messages. What a client was handed and what is kept for it is *)
(* followed as a pair of sequences; each action treats the pair in one of  *)
(* four ways, one lemma each.                                              *)
(***************************************************************************)
EXTENDS Broker, SequenceTheorems, TLAPS

\* h was handed over and s is kept, c messages are settled.
Accounted(h, s, c) ==
  /\ \A a \in DOMAIN h : h[a].n <= c
  /\ \A a \in DOMAIN s : s[a].n <= c
  /\ \A a, b \in DOMAIN h : h[a] = h[b] => a = b
  /\ \A a, b \in DOMAIN s : a < b => s[a].n > s[b].n
  /\ \A a \in DOMAIN h, b \in DOMAIN s : h[a] # s[b]

(* The messages of a sequence have numbers. *)
LEMMA Numbers ==
  ASSUME NEW s \in Seq(Messages)
  PROVE  /\ DOMAIN s = 1..Len(s) /\ Len(s) \in Nat
         /\ \A a \in DOMAIN s : s[a].n \in Nat
<1>1. \A m \in Messages : m.n \in Nat
  BY DEF Messages
<1>2. DOMAIN s = 1..Len(s) /\ Len(s) \in Nat
  BY LenProperties
<1>3. \A a \in DOMAIN s : s[a] \in Messages
  BY <1>2, ElementOfSeq
<1> QED
  BY <1>1, <1>2, <1>3

(* What is kept may be handed over. *)
LEMMA HandAll ==
  ASSUME NEW h \in Seq(Messages), NEW s \in Seq(Messages), NEW c \in Nat,
         Accounted(h, s, c)
  PROVE  Accounted(h \o s, <<>>, c)
<1>1. /\ DOMAIN (h \o s) = 1..(Len(h) + Len(s))
      /\ Len(h) \in Nat /\ Len(s) \in Nat
      /\ DOMAIN h = 1..Len(h) /\ DOMAIN s = 1..Len(s)
  BY ConcatProperties, LenProperties
<1>2. \A a \in 1..(Len(h) + Len(s)) :
        (h \o s)[a] = IF a <= Len(h) THEN h[a] ELSE s[a - Len(h)]
  BY ConcatProperties
<1>3. \A a \in DOMAIN s : s[a].n \in Nat
  BY Numbers
<1>4. \A a, b \in DOMAIN s : s[a] = s[b] => a = b
  BY <1>1, <1>3 DEF Accounted
<1>5. \A a \in DOMAIN (h \o s) : (h \o s)[a].n <= c
  BY <1>1, <1>2 DEF Accounted
<1>6. \A a, b \in DOMAIN (h \o s) : (h \o s)[a] = (h \o s)[b] => a = b
  BY <1>1, <1>2, <1>4 DEF Accounted
<1> QED
  BY <1>5, <1>6 DEF Accounted

(* The next message may be handed over. *)
LEMMA HandNext ==
  ASSUME NEW h \in Seq(Messages), NEW s \in Seq(Messages), NEW c \in Nat,
         NEW m \in Messages, m.n = c + 1, Accounted(h, s, c)
  PROVE  Accounted(Append(h, m), s, c + 1)
<1>1. /\ Append(h, m) \in Seq(Messages)
      /\ DOMAIN Append(h, m) = 1..(Len(h) + 1)
      /\ DOMAIN h = 1..Len(h) /\ DOMAIN s = 1..Len(s)
      /\ Len(h) \in Nat /\ Len(s) \in Nat
      /\ \A a \in 1..Len(h) : Append(h, m)[a] = h[a]
      /\ Append(h, m)[Len(h) + 1] = m
  BY AppendProperties, LenProperties
<1>2. /\ \A a \in DOMAIN h : h[a].n \in Nat
      /\ \A a \in DOMAIN s : s[a].n \in Nat
  BY Numbers
<1>3. \A a \in DOMAIN Append(h, m) :
        \/ a \in DOMAIN h /\ Append(h, m)[a] = h[a]
        \/ a = Len(h) + 1 /\ Append(h, m)[a] = m
  BY <1>1
<1>4. \A a \in DOMAIN h : h[a] # m
  BY <1>2 DEF Accounted
<1>5. \A a \in DOMAIN s : s[a] # m
  BY <1>2 DEF Accounted
<1>6. /\ \A a \in DOMAIN Append(h, m) : Append(h, m)[a].n <= c + 1
      /\ \A a \in DOMAIN s : s[a].n <= c + 1
  BY <1>2, <1>3 DEF Accounted
<1>7. \A a, b \in DOMAIN Append(h, m) : Append(h, m)[a] = Append(h, m)[b] => a = b
  BY <1>3, <1>4 DEF Accounted
<1>8. \A a \in DOMAIN Append(h, m), b \in DOMAIN s : Append(h, m)[a] # s[b]
  BY <1>3, <1>5 DEF Accounted
<1> QED
  BY <1>6, <1>7, <1>8 DEF Accounted

(* The next message may be kept. *)
LEMMA KeepNext ==
  ASSUME NEW h \in Seq(Messages), NEW s \in Seq(Messages), NEW c \in Nat,
         NEW m \in Messages, m.n = c + 1, Accounted(h, s, c)
  PROVE  Accounted(h, Keep(m, s), c + 1)
<1> DEFINE k == Keep(m, s)
<1>1. /\ <<m>> \in Seq(Messages)
      /\ Len(<<m>>) = 1
      /\ <<m>>[1] = m
  OBVIOUS
<1>2. /\ DOMAIN k = 1..(1 + Len(s))
      /\ DOMAIN h = 1..Len(h) /\ DOMAIN s = 1..Len(s)
      /\ Len(h) \in Nat /\ Len(s) \in Nat
  BY <1>1, ConcatProperties, LenProperties DEF Keep
<1>3. \A a \in 1..(1 + Len(s)) : k[a] = IF a <= 1 THEN <<m>>[a] ELSE s[a - 1]
  BY <1>1, ConcatProperties DEF Keep
<1>4. \A a \in DOMAIN k : \/ a = 1 /\ k[a] = m
                          \/ a > 1 /\ a - 1 \in DOMAIN s /\ k[a] = s[a - 1]
  BY <1>1, <1>2, <1>3
<1>5. /\ \A a \in DOMAIN h : h[a].n \in Nat
      /\ \A a \in DOMAIN s : s[a].n \in Nat
  BY Numbers
<1> HIDE DEF k
<1>6. /\ \A a \in DOMAIN k : k[a].n <= c + 1
      /\ \A a \in DOMAIN h : h[a].n <= c + 1
  BY <1>4, <1>5 DEF Accounted
<1>7. ASSUME NEW a \in DOMAIN k, NEW b \in DOMAIN k, a < b
      PROVE  k[a].n > k[b].n
  <2>1. a \in Int /\ b \in Int /\ 1 <= a
    BY <1>2
  <2>2. b - 1 \in DOMAIN s /\ k[b] = s[b - 1]
    BY <1>4, <1>7, <2>1
  <2>3. s[b - 1].n \in Nat /\ s[b - 1].n <= c
    BY <1>5, <2>2 DEF Accounted
  <2>4. CASE a = 1
    BY <1>4, <2>2, <2>3, <2>4
  <2>5. CASE a # 1
    <3>1. a - 1 \in DOMAIN s /\ k[a] = s[a - 1] /\ a - 1 < b - 1
      BY <1>4, <1>7, <2>1, <2>5
    <3> QED
      BY <2>2, <3>1 DEF Accounted
  <2> QED
    BY <2>4, <2>5
<1>8. \A a \in DOMAIN h, b \in DOMAIN k : h[a] # k[b]
  BY <1>4, <1>5 DEF Accounted
<1>9. Accounted(h, k, c + 1)
  BY <1>6, <1>7, <1>8 DEF Accounted
<1> QED
  BY <1>9 DEF k

(* A message the client has no part in may be settled. *)
LEMMA SettleNext ==
  ASSUME NEW h \in Seq(Messages), NEW s \in Seq(Messages), NEW c \in Nat,
         Accounted(h, s, c)
  PROVE  Accounted(h, s, c + 1)
<1>1. /\ DOMAIN h = 1..Len(h) /\ DOMAIN s = 1..Len(s)
  BY LenProperties
<1>2. /\ \A a \in DOMAIN h : h[a].n \in Nat
      /\ \A a \in DOMAIN s : s[a].n \in Nat
  BY Numbers
<1> QED
  BY <1>2 DEF Accounted
-----------------------------------------------------------------------------
(* Every variable of the broker has its type. *)
THEOREM TypeCorrect == Spec => []TypeOK
<1>1. Init => TypeOK
  BY BrokerAssumption DEF Init, TypeOK, Modes
<1>2. TypeOK /\ [Next]_vars => TypeOK'
  <2> SUFFICES ASSUME TypeOK, [Next]_vars
               PROVE  TypeOK'
    OBVIOUS
  <2> USE DEF TypeOK
  <2>1. ASSUME NEW i \in Clients, Arrive(i)
        PROVE  TypeOK'
    <3>1. /\ handed[i] \in Seq(Messages) /\ store[i] \in Seq(Messages)
          /\ handed[i] \o store[i] \in Seq(Messages)
          /\ <<>> \in Seq(Messages)
      BY ConcatProperties, EmptySeq
    <3> QED
      BY <2>1, <3>1 DEF Arrive
  <2>2. ASSUME NEW i \in Clients, Leave(i)
        PROVE  TypeOK'
    BY <2>2 DEF Leave
  <2>3. ASSUME NEW i \in Clients, NEW t \in Topics, NEW mode \in Modes,
               Choose(i, t, mode)
        PROVE  TypeOK'
    BY <2>3 DEF Choose
  <2>4. ASSUME NEW m \in Messages, Deliver(m)
        PROVE  TypeOK'
    <3>1. settled' \in 0..MaxMsgs
      BY <2>4, BrokerAssumption DEF Deliver, Messages
    <3>2. handed' \in [Clients -> Seq(Messages)]
      BY <2>4, AppendProperties DEF Deliver, Hand
    <3>3. \A s \in Seq(Messages) : Keep(m, s) \in Seq(Messages)
      <4>1. <<m>> \in Seq(Messages)
        OBVIOUS
      <4> QED
        BY <4>1, ConcatProperties DEF Keep
    <3>4. store' \in [Clients -> Seq(Messages)]
      BY <2>4, <3>3 DEF Deliver
    <3> QED
      BY <2>4, <3>1, <3>2, <3>4 DEF Deliver
  <2>5. ASSUME NEW m \in Messages,
               NEW S \in SUBSET {i \in Clients : Follows(i, m.topic)}, Fail(m, S)
        PROVE  TypeOK'
    <3>1. settled' \in 0..MaxMsgs
      BY <2>5, BrokerAssumption DEF Fail, Messages
    <3>2. handed' \in [Clients -> Seq(Messages)]
      BY <2>5, AppendProperties DEF Fail, Hand
    <3> QED
      BY <2>5, <3>1, <3>2 DEF Fail
  <2>6. CASE Drop
    BY <2>6, BrokerAssumption DEF Drop
  <2>7. CASE Stop
    BY <2>7 DEF Stop
  <2>8. CASE UNCHANGED vars
    BY <2>8 DEF vars
  <2> QED
    BY <2>1, <2>2, <2>3, <2>4, <2>5, <2>6, <2>7, <2>8 DEF Next
<1> QED
  BY <1>1, <1>2, PTL DEF Spec

(***************************************************************************)
(* The inductive invariant: what every client was handed and what is kept  *)
(* for it is accounted for.                                                *)
(***************************************************************************)
Ledger == \A i \in Clients : Accounted(handed[i], store[i], settled)

(* The ledger is correct throughout. *)
THEOREM LedgerCorrect == Spec => []Ledger
<1>1. Init => Ledger
  <2>1. Accounted(<<>>, <<>>, 0)
    BY DEF Accounted
  <2> QED
    BY <2>1 DEF Init, Ledger
<1>2. TypeOK /\ Ledger /\ [Next]_vars => Ledger'
  <2> SUFFICES ASSUME TypeOK, Ledger, [Next]_vars, NEW j \in Clients
               PROVE  Accounted(handed'[j], store'[j], settled')
    BY DEF Ledger
  <2>0. /\ handed[j] \in Seq(Messages) /\ store[j] \in Seq(Messages)
        /\ settled \in Nat
        /\ Accounted(handed[j], store[j], settled)
    BY BrokerAssumption DEF TypeOK, Ledger
  <2>1. ASSUME NEW i \in Clients, Arrive(i)
        PROVE  Accounted(handed'[j], store'[j], settled')
    <3>1. CASE i = j
      <4>1. /\ handed'[j] = handed[j] \o store[j]
            /\ store'[j] = <<>>
            /\ settled' = settled
        BY <2>1, <3>1 DEF Arrive, TypeOK
      <4> QED
        BY <2>0, <4>1, HandAll
    <3>2. CASE i # j
      BY <2>0, <2>1, <3>2 DEF Arrive, TypeOK
    <3> QED
      BY <3>1, <3>2
  <2>2. ASSUME NEW i \in Clients, Leave(i)
        PROVE  Accounted(handed'[j], store'[j], settled')
    BY <2>0, <2>2 DEF Leave
  <2>3. ASSUME NEW i \in Clients, NEW t \in Topics, NEW mode \in Modes,
               Choose(i, t, mode)
        PROVE  Accounted(handed'[j], store'[j], settled')
    BY <2>0, <2>3 DEF Choose
  <2>4. ASSUME NEW m \in Messages, Deliver(m)
        PROVE  Accounted(handed'[j], store'[j], settled')
    <3>1. m.n = settled + 1 /\ settled' = settled + 1
      BY <2>4 DEF Deliver
    <3>2. CASE Follows(j, m.topic)
      <4>1. handed'[j] = Append(handed[j], m) /\ store'[j] = store[j]
        BY <2>4, <3>2 DEF Deliver, Hand, Follows, Awaits
      <4> QED
        BY <2>0, <3>1, <4>1, HandNext
    <3>3. CASE Awaits(j, m.topic)
      <4>1. handed'[j] = handed[j] /\ store'[j] = Keep(m, store[j])
        BY <2>4, <3>3 DEF Deliver, Hand, Follows, Awaits
      <4> QED
        BY <2>0, <3>1, <4>1, KeepNext
    <3>4. CASE ~Follows(j, m.topic) /\ ~Awaits(j, m.topic)
      <4>1. handed'[j] = handed[j] /\ store'[j] = store[j]
        BY <2>4, <3>4 DEF Deliver, Hand
      <4> QED
        BY <2>0, <3>1, <4>1, SettleNext
    <3> QED
      BY <3>2, <3>3, <3>4
  <2>5. ASSUME NEW m \in Messages,
               NEW S \in SUBSET {i \in Clients : Follows(i, m.topic)}, Fail(m, S)
        PROVE  Accounted(handed'[j], store'[j], settled')
    <3>1. m.n = settled + 1 /\ settled' = settled + 1 /\ store'[j] = store[j]
      BY <2>5 DEF Fail
    <3>2. CASE j \in S
      <4>1. handed'[j] = Append(handed[j], m)
        BY <2>5, <3>2 DEF Fail, Hand
      <4> QED
        BY <2>0, <3>1, <4>1, HandNext
    <3>3. CASE j \notin S
      <4>1. handed'[j] = handed[j]
        BY <2>5, <3>3 DEF Fail, Hand
      <4> QED
        BY <2>0, <3>1, <4>1, SettleNext
    <3> QED
      BY <3>2, <3>3
  <2>6. CASE Drop
    BY <2>0, <2>6, SettleNext DEF Drop
  <2>7. CASE Stop
    BY <2>0, <2>7 DEF Stop
  <2>8. CASE UNCHANGED vars
    BY <2>0, <2>8 DEF vars
  <2> QED
    BY <2>1, <2>2, <2>3, <2>4, <2>5, <2>6, <2>7, <2>8 DEF Next
<1> QED
  BY <1>1, <1>2, TypeCorrect, PTL DEF Spec

(***************************************************************************)
(* What is kept for a client is kept in strictly falling order, so nothing *)
(* is kept twice; with the rest of the ledger, nothing reaches a client    *)
(* twice whatever the reconnections (server.cpp:113-123 and 147-162).      *)
(***************************************************************************)
THEOREM DeliveredAtMostOnce == Spec => [](AtMostOnce /\ NewestFirst)
<1>1. TypeOK /\ Ledger => AtMostOnce /\ NewestFirst
  <2> SUFFICES ASSUME TypeOK, Ledger
               PROVE  AtMostOnce /\ NewestFirst
    OBVIOUS
  <2>1. \A i \in Clients : Accounted(handed[i], store[i], settled)
    BY DEF Ledger
  <2>2. NewestFirst
    BY <2>1 DEF NewestFirst, Accounted
  <2>3. ASSUME NEW i \in Clients, NEW a \in DOMAIN store[i],
               NEW b \in DOMAIN store[i], store[i][a] = store[i][b]
        PROVE  a = b
    <3>1. store[i] \in Seq(Messages)
      BY DEF TypeOK
    <3>2. a \in Int /\ b \in Int /\ store[i][a].n \in Nat
      BY <3>1, Numbers
    <3>3. ~(a < b) /\ ~(b < a)
      BY <2>2, <2>3, <3>2 DEF NewestFirst
    <3> QED
      BY <3>2, <3>3
  <2>4. AtMostOnce
    BY <2>1, <2>3 DEF AtMostOnce, Accounted
  <2> QED
    BY <2>2, <2>4
<1> QED
  BY <1>1, TypeCorrect, LedgerCorrect, PTL

(***************************************************************************)
(* Nothing is kept for a client that is present: its stored messages are   *)
(* all sent before any newer one.                                          *)
(***************************************************************************)
THEOREM NothingKeptForPresent == Spec => []KeptForAbsent
<1>1. Init => KeptForAbsent
  BY DEF Init, KeptForAbsent
<1>2. TypeOK /\ KeptForAbsent /\ [Next]_vars => KeptForAbsent'
  <2> SUFFICES ASSUME TypeOK, KeptForAbsent, [Next]_vars, NEW j \in Clients,
                      store'[j] # <<>>
               PROVE  ~present'[j]
    BY DEF KeptForAbsent
  <2> USE DEF TypeOK, KeptForAbsent
  <2>1. ASSUME NEW i \in Clients, Arrive(i)
        PROVE  ~present'[j]
    BY <2>1 DEF Arrive
  <2>2. ASSUME NEW i \in Clients, Leave(i)
        PROVE  ~present'[j]
    BY <2>2 DEF Leave
  <2>3. ASSUME NEW i \in Clients, NEW t \in Topics, NEW mode \in Modes,
               Choose(i, t, mode)
        PROVE  ~present'[j]
    BY <2>3 DEF Choose
  <2>4. ASSUME NEW m \in Messages, Deliver(m)
        PROVE  ~present'[j]
    BY <2>4 DEF Deliver, Awaits
  <2>5. ASSUME NEW m \in Messages,
               NEW S \in SUBSET {i \in Clients : Follows(i, m.topic)}, Fail(m, S)
        PROVE  ~present'[j]
    BY <2>5 DEF Fail
  <2>6. CASE Drop \/ Stop \/ UNCHANGED vars
    BY <2>6 DEF Drop, Stop, vars
  <2> QED
    BY <2>1, <2>2, <2>3, <2>4, <2>5, <2>6 DEF Next
<1> QED
  BY <1>1, <1>2, TypeCorrect, PTL DEF Spec
=============================================================================
