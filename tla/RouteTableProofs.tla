-------------------------- MODULE RouteTableProofs --------------------------
(***************************************************************************)
(* quicksort() sorts and get_best_route() answers as RouteTable says, for  *)
(* any table, any destinations and any netmasks.                           *)
(***************************************************************************)
EXTENDS RouteTable, SequenceTheorems, FiniteSetTheorems, TLAPS

(***************************************************************************)
(* The order of the sort: irreflexive, transitive, and two entries neither *)
(* of which goes before the other are alike to every third.                *)
(***************************************************************************)
LEMMA Order ==
  ASSUME NEW e \in Entries, NEW f \in Entries, NEW p \in Entries
  PROVE  /\ ~Before(e, e)
         /\ Before(e, f) => ~Before(f, e)
         /\ Before(e, p) /\ ~Before(f, p) => ~Before(f, e)
         /\ ~Before(f, e) => e.prefix <= f.prefix
         /\ ~Before(f, e) /\ e.prefix = f.prefix => f.mask <= e.mask
<1>1. /\ e.prefix \in Nat /\ f.prefix \in Nat /\ p.prefix \in Nat
      /\ e.mask \in Nat /\ f.mask \in Nat /\ p.mask \in Nat
  BY RouteTableAssumption
<1> QED
  BY <1>1 DEF Before

(* The table is made of entries, its positions are numbers. *)
LEMMA Positions ==
  ASSUME TypeOK
  PROVE  /\ Size \in Nat
         /\ \A a \in Slots : a \in Int /\ 0 <= a /\ a < Size /\ rtable[a] \in Entries
         /\ \A a \in Int : 0 <= a /\ a < Size => a \in Slots
  BY RouteTableAssumption DEF TypeOK, Slots

(* The stack without its first range, and with two more. *)
LEMMA Stack ==
  ASSUME TypeOK
  PROVE  /\ DOMAIN todo = 1..Len(todo) /\ Len(todo) \in Nat
         /\ \A k \in DOMAIN todo : todo[k] \in (0..Size) \X (-1..(Size - 1))
         /\ \A k \in DOMAIN todo : todo[k][1] \in Int /\ todo[k][2] \in Int
<1>1. /\ DOMAIN todo = 1..Len(todo) /\ Len(todo) \in Nat
      /\ \A k \in 1..Len(todo) : todo[k] \in (0..Size) \X (-1..(Size - 1))
  BY LenProperties, ElementOfSeq DEF TypeOK
<1> QED
  BY <1>1, RouteTableAssumption

LEMMA StackTail ==
  ASSUME TypeOK, todo # <<>>
  PROVE  /\ Tail(todo) \in Seq((0..Size) \X (-1..(Size - 1)))
         /\ DOMAIN Tail(todo) = 1..(Len(todo) - 1)
         /\ \A k \in 1..(Len(todo) - 1) : Tail(todo)[k] = todo[k + 1]
         /\ 1 \in DOMAIN todo /\ Head(todo) = todo[1]
  BY HeadTailProperties, LenProperties DEF TypeOK

Ranges == (0..Size) \X (-1..(Size - 1))

LEMMA StackHalves ==
  ASSUME TypeOK, NEW x \in Ranges, NEW y \in Ranges
  PROVE  /\ <<x, y>> \o todo \in Seq(Ranges)
         /\ DOMAIN (<<x, y>> \o todo) = 1..(Len(todo) + 2)
         /\ (<<x, y>> \o todo)[1] = x /\ (<<x, y>> \o todo)[2] = y
         /\ \A k \in DOMAIN todo : (<<x, y>> \o todo)[k + 2] = todo[k]
<1> DEFINE c == <<x, y>> \o todo
<1>1. <<x, y>> \in Seq(Ranges) /\ Len(<<x, y>>) = 2 /\ todo \in Seq(Ranges)
  BY DEF TypeOK, Ranges
<1>2. /\ c \in Seq(Ranges) /\ Len(c) = 2 + Len(todo)
      /\ \A k \in 1..(2 + Len(todo)) : c[k] = IF k <= 2 THEN <<x, y>>[k] ELSE todo[k - 2]
  BY <1>1, ConcatProperties
<1>3. DOMAIN todo = 1..Len(todo) /\ Len(todo) \in Nat
  BY Stack
<1>4. c[1] = x /\ c[2] = y
  BY <1>2, <1>3
<1> HIDE DEF c
<1>5. DOMAIN c = 1..(Len(todo) + 2)
  BY <1>2, <1>3, LenProperties
<1>6. ASSUME NEW k \in DOMAIN todo
      PROVE  c[k + 2] = todo[k]
  <2>1. k + 2 \in 1..(2 + Len(todo)) /\ ~(k + 2 <= 2) /\ (k + 2) - 2 = k
    BY <1>3
  <2> QED
    BY <1>2, <2>1
<1> QED
  BY <1>2, <1>4, <1>5, <1>6 DEF c
-----------------------------------------------------------------------------
(***************************************************************************)
(* swap() exchanges two entries of the range x..y: each position of the    *)
(* range then holds what one of them held, the others what they held.      *)
(***************************************************************************)
LEMMA Exchange ==
  ASSUME TypeOK, NEW a \in Slots, NEW b \in Slots
  PROVE  /\ Swapped(a, b) \in [Slots -> Entries]
         /\ Swapped(a, b)[a] = rtable[b] /\ Swapped(a, b)[b] = rtable[a]
         /\ \A s \in Slots : s # a /\ s # b => Swapped(a, b)[s] = rtable[s]
  BY DEF TypeOK, Swapped

LEMMA ExchangePermutes ==
  ASSUME TypeOK, Permuted, NEW a \in Slots, NEW b \in Slots,
         rtable' = Swapped(a, b), listed' = listed
  PROVE  Permuted'
<1>1. PICK h \in [Slots -> Slots] :
        Permutation(h) /\ \A s \in Slots : rtable[s] = listed[h[s]]
  BY DEF Permuted
<1> DEFINE g == [h EXCEPT ![a] = h[b], ![b] = h[a]]
<1>2. /\ g \in [Slots -> Slots] /\ g[a] = h[b] /\ g[b] = h[a]
      /\ \A s \in Slots : s # a /\ s # b => g[s] = h[s]
  OBVIOUS
<1> HIDE DEF g
<1>3. \A s \in Slots : rtable'[s] = listed[g[s]]
  <2>1. /\ rtable'[a] = rtable[b] /\ rtable'[b] = rtable[a]
        /\ \A s \in Slots : s # a /\ s # b => rtable'[s] = rtable[s]
    BY Exchange
  <2> QED
    BY <1>1, <1>2, <2>1
<1>4. \A s, u \in Slots : g[s] = g[u] => s = u
  BY <1>1, <1>2 DEF Permutation
<1>5. \A u \in Slots : \E s \in Slots : g[s] = u
  <2> SUFFICES ASSUME NEW u \in Slots PROVE \E s \in Slots : g[s] = u
    OBVIOUS
  <2>1. PICK s \in Slots : h[s] = u
    BY <1>1 DEF Permutation
  <2>2. g[s] = u \/ s = a \/ s = b
    BY <1>2, <2>1
  <2> QED
    BY <1>2, <2>1, <2>2
<1> QED
  BY <1>2, <1>3, <1>4, <1>5 DEF Permuted, Permutation
-----------------------------------------------------------------------------
(***************************************************************************)
(* Ranges that follow each other do not overlap: an entry of the range     *)
(* that is worked on and one outside are in order, whatever the entries of *)
(* the range are exchanged for among themselves.                           *)
(***************************************************************************)
Inside(s) == start <= s /\ s <= end

LEMMA AcrossInOrder ==
  ASSUME TypeOK, RangesFollow, NearlyInOrder, pc = "scan",
         NEW a \in Slots, NEW b \in Slots, a < b, Inside(a) # Inside(b)
  PROVE  ~Before(rtable[b], rtable[a])
<1>1. /\ a \in Int /\ b \in Int /\ start \in Int /\ end \in Int
      /\ \A k \in DOMAIN todo : todo[k][1] \in Int /\ todo[k][2] \in Int
  BY Positions, Stack DEF TypeOK
<1>2. ~(start <= a /\ b <= end)
  BY <1>1 DEF Inside
<1>3. \A k \in DOMAIN todo : end < todo[k][1]
  BY DEF RangesFollow
<1>4. \A k \in DOMAIN todo : ~(todo[k][1] <= a /\ b <= todo[k][2])
  <2> SUFFICES ASSUME NEW k \in DOMAIN todo, todo[k][1] <= a, b <= todo[k][2]
               PROVE  FALSE
    OBVIOUS
  <2>1. end < a /\ end < b
    BY <1>1, <1>3
  <2> QED
    BY <1>1, <2>1 DEF Inside
<1>5. ~Together(a, b)
  BY <1>2, <1>4 DEF Together
<1> QED
  BY <1>5 DEF NearlyInOrder

LEMMA ExchangeAcross ==
  ASSUME TypeOK, RangesFollow, NearlyInOrder, pc = "scan",
         NEW x \in Slots, NEW y \in Slots, Inside(x), Inside(y),
         rtable' = Swapped(x, y),
         NEW a \in Slots, NEW b \in Slots, a < b, ~(Inside(a) /\ Inside(b))
  PROVE  \/ ~Before(rtable'[b], rtable'[a])
         \/ \E k \in DOMAIN todo : todo[k][1] <= a /\ b <= todo[k][2]
<1>1. /\ a \in Int /\ b \in Int /\ start \in Int /\ end \in Int
      /\ x \in Int /\ y \in Int
  BY Positions DEF TypeOK
<1>2. /\ rtable'[x] = rtable[y] /\ rtable'[y] = rtable[x]
      /\ \A s \in Slots : s # x /\ s # y => rtable'[s] = rtable[s]
  BY Exchange
<1>3. CASE ~Inside(a) /\ ~Inside(b)
  <2>1. rtable'[a] = rtable[a] /\ rtable'[b] = rtable[b]
    BY <1>2, <1>3
  <2>2. ~(start <= a /\ b <= end)
    BY <1>1, <1>3 DEF Inside
  <2> QED
    BY <2>1, <2>2 DEF NearlyInOrder, Together
<1>4. CASE ~Inside(a) /\ Inside(b)
  <2>1. PICK c \in Slots : Inside(c) /\ rtable'[b] = rtable[c]
    BY <1>2, <1>4
  <2>2. rtable'[a] = rtable[a]
    BY <1>2, <1>4
  <2>3. a < c
    BY <1>1, <1>4, <2>1, Positions DEF Inside
  <2> QED
    BY <1>4, <2>1, <2>2, <2>3, AcrossInOrder
<1>5. CASE Inside(a) /\ ~Inside(b)
  <2>1. PICK c \in Slots : Inside(c) /\ rtable'[a] = rtable[c]
    BY <1>2, <1>5
  <2>2. rtable'[b] = rtable[b]
    BY <1>2, <1>5
  <2>3. c < b
    BY <1>1, <1>5, <2>1, Positions DEF Inside
  <2> QED
    BY <1>5, <2>1, <2>2, <2>3, AcrossInOrder
<1> QED
  BY <1>3, <1>4, <1>5
-----------------------------------------------------------------------------
SortInv == TypeOK /\ RangesFollow /\ NearlyInOrder /\ Partitioned /\ Permuted

LEMMA CallKeeps ==
  ASSUME SortInv, Call
  PROVE  SortInv'
<1>1. TypeOK /\ pc = "call" /\ todo # <<>> /\ todo' = Tail(todo)
      /\ rtable' = rtable /\ listed' = listed /\ dest' = dest
      /\ l' = l /\ r' = r /\ index' = index
  BY DEF SortInv, Call, findVars
<1>2. /\ todo' \in Seq((0..Size) \X (-1..(Size - 1)))
      /\ DOMAIN todo' = 1..(Len(todo) - 1)
      /\ \A k \in 1..(Len(todo) - 1) : todo'[k] = todo[k + 1]
      /\ DOMAIN todo = 1..Len(todo) /\ Len(todo) \in Nat /\ 1 \in DOMAIN todo
      /\ \A k \in DOMAIN todo : todo[k][1] \in Int /\ todo[k][2] \in Int
      /\ todo[1] \in (0..Size) \X (-1..(Size - 1))
  BY <1>1, StackTail, Stack
<1>3. Size \in Nat
  BY RouteTableAssumption
<1>4. \/ /\ todo[1][1] < todo[1][2] /\ pc' = "scan"
         /\ start' = todo[1][1] /\ end' = todo[1][2]
         /\ i' = todo[1][1] /\ pIndex' = todo[1][1]
      \/ /\ ~(todo[1][1] < todo[1][2])
         /\ pc' = pc /\ start' = start /\ end' = end /\ i' = i /\ pIndex' = pIndex
  <2>1. Head(todo) = todo[1]
    BY <1>1, StackTail
  <2> QED
    BY <2>1 DEF Call
<1>5. TypeOK'
  BY <1>1, <1>2, <1>3, <1>4 DEF TypeOK
<1>6. RangesFollow'
  <2>1. \A k \in DOMAIN todo' : k + 1 \in DOMAIN todo /\ todo'[k] = todo[k + 1] /\ 1 < k + 1
    <3> SUFFICES ASSUME NEW k \in DOMAIN todo'
                 PROVE  k + 1 \in DOMAIN todo /\ todo'[k] = todo[k + 1] /\ 1 < k + 1
      OBVIOUS
    <3>1. k \in 1..(Len(todo) - 1)
      BY <1>2
    <3>2. Len(todo) \in Nat
      BY <1>2
    <3>3. k + 1 \in 1..Len(todo) /\ 1 < k + 1
      BY <3>1, <3>2
    <3> QED
      BY <1>2, <3>1, <3>3
  <2>2. \A j, k \in DOMAIN todo' : j < k => todo'[j][2] < todo'[k][1]
    <3> SUFFICES ASSUME NEW j \in DOMAIN todo', NEW k \in DOMAIN todo', j < k
                 PROVE  todo'[j][2] < todo'[k][1]
      OBVIOUS
    <3>1. j + 1 < k + 1
      BY <1>2
    <3> QED
      BY <2>1, <3>1 DEF SortInv, RangesFollow
  <2>3. pc' = "scan" => \A k \in DOMAIN todo' : end' < todo'[k][1]
    BY <1>1, <1>2, <1>4, <2>1 DEF SortInv, RangesFollow
  <2>4. pc' \in {"call", "scan"}
    BY <1>1, <1>4
  <2> QED
    BY <2>2, <2>3, <2>4 DEF RangesFollow, Sorting
<1>7. NearlyInOrder'
  <2> SUFFICES ASSUME NEW a \in Slots, NEW b \in Slots, a < b,
                      Before(rtable[b], rtable[a])
               PROVE  Together(a, b)'
    BY <1>1 DEF NearlyInOrder, Before
  <2>1. a \in Int /\ b \in Int
    BY <1>1, Positions
  <2>2. PICK k \in DOMAIN todo : todo[k][1] <= a /\ b <= todo[k][2]
    BY <1>1 DEF SortInv, NearlyInOrder, Together
  <2>3. CASE k = 1
    <3>1. todo[1][1] < todo[1][2]
      BY <1>2, <2>1, <2>2, <2>3
    <3> QED
      BY <1>4, <2>2, <2>3, <3>1 DEF Together
  <2>4. CASE k # 1
    <3>1. k - 1 \in DOMAIN todo' /\ todo'[k - 1] = todo[k]
      BY <1>2, <2>4
    <3> QED
      BY <2>2, <3>1 DEF Together
  <2> QED
    BY <2>3, <2>4
<1>8. Partitioned'
  <2>1. CASE pc' = "scan"
    <3>1. /\ todo[1][1] < todo[1][2]
          /\ start' = todo[1][1] /\ end' = todo[1][2]
          /\ i' = todo[1][1] /\ pIndex' = todo[1][1]
      BY <1>1, <1>4, <2>1
    <3>2. todo[1][1] \in 0..Size /\ todo[1][2] \in -1..(Size - 1)
      BY <1>2
    <3> QED
      BY <1>3, <3>1, <3>2 DEF Partitioned
  <2> QED
    BY <2>1 DEF Partitioned
<1>9. Permuted'
  BY <1>1 DEF SortInv, Permuted, Permutation
<1> QED
  BY <1>5, <1>6, <1>7, <1>8, <1>9 DEF SortInv

(* What partition() works on, while it does. *)
LEMMA Bounds ==
  ASSUME SortInv, pc = "scan"
  PROVE  /\ start \in Int /\ end \in Int /\ i \in Int /\ pIndex \in Int
         /\ 0 <= start /\ start <= pIndex /\ pIndex <= i /\ i <= end
         /\ start < end /\ end < Size
         /\ pIndex \in Slots /\ i \in Slots /\ end \in Slots
         /\ Inside(pIndex) /\ Inside(i) /\ Inside(end)
<1>1. /\ start \in Int /\ end \in Int /\ i \in Int /\ pIndex \in Int
      /\ 0 <= start /\ start <= pIndex /\ pIndex <= i /\ i <= end
      /\ start < end /\ end < Size
  BY DEF SortInv, TypeOK, Partitioned
<1>2. Size \in Nat /\ \A a \in Int : 0 <= a /\ a < Size => a \in Slots
  BY Positions DEF SortInv
<1>3. /\ 0 <= pIndex /\ pIndex < Size /\ 0 <= i /\ i < Size /\ 0 <= end
      /\ start <= i /\ pIndex <= end /\ start <= end
  BY <1>1, <1>2
<1> QED
  BY <1>1, <1>2, <1>3 DEF Inside

LEMMA ScanKeeps ==
  ASSUME SortInv, Scan
  PROVE  SortInv'
<1>1. /\ TypeOK /\ pc = "scan" /\ i < end /\ i' = i + 1
      /\ todo' = todo /\ start' = start /\ end' = end /\ pc' = pc
      /\ listed' = listed /\ dest' = dest /\ l' = l /\ r' = r /\ index' = index
  BY DEF SortInv, Scan, findVars
<1>2. \/ /\ Before(rtable[i], rtable[end])
         /\ rtable' = Swapped(i, pIndex) /\ pIndex' = pIndex + 1
      \/ /\ ~Before(rtable[i], rtable[end])
         /\ rtable' = rtable /\ pIndex' = pIndex
  BY DEF Scan
<1>3. /\ Swapped(i, pIndex) \in [Slots -> Entries]
      /\ Swapped(i, pIndex)[i] = rtable[pIndex] /\ Swapped(i, pIndex)[pIndex] = rtable[i]
      /\ \A s \in Slots : s # i /\ s # pIndex => Swapped(i, pIndex)[s] = rtable[s]
  BY <1>1, Bounds, Exchange
<1>4. TypeOK'
  BY <1>1, <1>2, <1>3 DEF TypeOK
<1>5. RangesFollow'
  BY <1>1 DEF SortInv, RangesFollow, Sorting
<1>6. NearlyInOrder'
  <2> SUFFICES ASSUME NEW a \in Slots, NEW b \in Slots, a < b
               PROVE  Together(a, b)' \/ ~Before(rtable'[b], rtable'[a])
    BY DEF NearlyInOrder, Before
  <2>1. CASE Inside(a) /\ Inside(b)
    BY <1>1, <2>1 DEF Together, Inside
  <2>2. CASE ~(Inside(a) /\ Inside(b)) /\ rtable' = rtable
    BY <1>1, <2>2 DEF SortInv, NearlyInOrder, Together
  <2>3. CASE ~(Inside(a) /\ Inside(b)) /\ rtable' = Swapped(i, pIndex)
    <3>1. \/ ~Before(rtable'[b], rtable'[a])
          \/ \E k \in DOMAIN todo : todo[k][1] <= a /\ b <= todo[k][2]
      BY <1>1, <2>3, Bounds, ExchangeAcross DEF SortInv
    <3> QED
      BY <1>1, <3>1 DEF Together
  <2> QED
    BY <1>2, <2>1, <2>2, <2>3
<1>7. Partitioned'
  <2>1. /\ \A s \in start..(pIndex - 1) : Before(rtable[s], rtable[end])
        /\ \A s \in pIndex..(i - 1) : ~Before(rtable[s], rtable[end])
    BY <1>1 DEF SortInv, Partitioned
  <2>2. \A s \in Int : 0 <= s /\ s < Size => s \in Slots
    BY <1>1, Positions
  <2>5. /\ start \in Int /\ end \in Int /\ i \in Int /\ pIndex \in Int /\ Size \in Nat
        /\ 0 <= start /\ start <= pIndex /\ pIndex <= i /\ i < end /\ end < Size
    BY <1>1, Bounds, RouteTableAssumption
  <2>3. CASE rtable' = rtable /\ pIndex' = pIndex /\ ~Before(rtable[i], rtable[end])
    <3>1. \A s \in pIndex..i : ~Before(rtable[s], rtable[end])
      BY <1>1, <2>1, <2>3, Bounds
    <3> QED
      BY <1>1, <2>1, <2>3, <3>1, Bounds DEF Partitioned, Before
  <2>4. CASE /\ rtable' = Swapped(i, pIndex) /\ pIndex' = pIndex + 1
             /\ Before(rtable[i], rtable[end])
    <3>1. rtable'[end] = rtable[end]
      BY <1>1, <1>3, <2>4, Bounds
    <3>2. \A s \in start..pIndex : Before(rtable'[s], rtable[end])
      <4> SUFFICES ASSUME NEW s \in start..pIndex PROVE Before(rtable'[s], rtable[end])
        OBVIOUS
      <4>1. CASE s = pIndex
        BY <1>3, <2>4, <4>1
      <4>2. CASE s # pIndex
        <5>1. s \in start..(pIndex - 1) /\ s # i /\ 0 <= s /\ s < Size /\ s \in Int
          BY <2>5, <4>2
        <5> QED
          BY <1>3, <2>1, <2>2, <2>4, <4>2, <5>1
      <4> QED
        BY <4>1, <4>2
    <3>3. \A s \in (pIndex + 1)..i : ~Before(rtable'[s], rtable[end])
      <4> SUFFICES ASSUME NEW s \in (pIndex + 1)..i PROVE ~Before(rtable'[s], rtable[end])
        OBVIOUS
      <4>1. CASE s = i
        <5>1. rtable'[s] = rtable[pIndex] /\ pIndex \in pIndex..(i - 1)
          BY <1>1, <1>3, <2>4, <4>1, Bounds
        <5> QED
          BY <2>1, <5>1
      <4>2. CASE s # i
        <5>1. s \in pIndex..(i - 1) /\ s # pIndex /\ 0 <= s /\ s < Size /\ s \in Int
          BY <2>5, <4>2
        <5> QED
          BY <1>3, <2>1, <2>2, <2>4, <4>2, <5>1
      <4> QED
        BY <4>1, <4>2
    <3>4. (pIndex + 1) - 1 = pIndex /\ (i + 1) - 1 = i
      BY <1>1, Bounds
    <3> QED
      BY <1>1, <2>4, <3>1, <3>2, <3>3, <3>4, Bounds DEF Partitioned, Before
  <2> QED
    BY <1>2, <2>3, <2>4
<1>8. Permuted'
  <2>1. CASE rtable' = rtable
    BY <1>1, <2>1 DEF SortInv, Permuted, Permutation
  <2>2. CASE rtable' = Swapped(i, pIndex)
    BY <1>1, <2>2, Bounds, ExchangePermutes DEF SortInv
  <2> QED
    BY <1>2, <2>1, <2>2
<1> QED
  BY <1>4, <1>5, <1>6, <1>7, <1>8 DEF SortInv

LEMMA PlaceKeeps ==
  ASSUME SortInv, Place
  PROVE  SortInv'
<1> DEFINE x == <<start, pIndex - 1>>
           y == <<pIndex + 1, end>>
<1>1. /\ TypeOK /\ pc = "scan" /\ i = end /\ pc' = "call" /\ i' = i
      /\ todo' = <<x, y>> \o todo /\ rtable' = Swapped(end, pIndex)
      /\ start' = start /\ end' = end /\ pIndex' = pIndex
      /\ listed' = listed /\ dest' = dest /\ l' = l /\ r' = r /\ index' = index
  BY DEF SortInv, Place, findVars, Halves
<1>2. /\ start \in Int /\ end \in Int /\ i \in Int /\ pIndex \in Int /\ Size \in Nat
      /\ 0 <= start /\ start <= pIndex /\ pIndex <= end /\ start < end /\ end < Size
      /\ pIndex \in Slots /\ end \in Slots /\ Inside(pIndex) /\ Inside(end)
  BY <1>1, Bounds, RouteTableAssumption
<1>3. /\ x \in (0..Size) \X (-1..(Size - 1)) /\ y \in (0..Size) \X (-1..(Size - 1))
      /\ x[1] = start /\ x[2] = pIndex - 1 /\ y[1] = pIndex + 1 /\ y[2] = end
  BY <1>2
<1> HIDE DEF x, y
<1>4. /\ todo' \in Seq((0..Size) \X (-1..(Size - 1)))
      /\ DOMAIN todo' = 1..(Len(todo) + 2)
      /\ todo'[1] = x /\ todo'[2] = y
      /\ \A k \in DOMAIN todo : todo'[k + 2] = todo[k]
      /\ DOMAIN todo = 1..Len(todo) /\ Len(todo) \in Nat
      /\ \A k \in DOMAIN todo : todo[k][1] \in Int /\ todo[k][2] \in Int
  <2>1. /\ <<x, y>> \o todo \in Seq(Ranges)
        /\ DOMAIN (<<x, y>> \o todo) = 1..(Len(todo) + 2)
        /\ (<<x, y>> \o todo)[1] = x /\ (<<x, y>> \o todo)[2] = y
        /\ \A k \in DOMAIN todo : (<<x, y>> \o todo)[k + 2] = todo[k]
    <3>1. x \in Ranges /\ y \in Ranges
      BY <1>3 DEF Ranges
    <3>2. TypeOK
      BY <1>1
    <3> QED
      BY <3>1, <3>2, StackHalves
  <2>2. /\ DOMAIN todo = 1..Len(todo) /\ Len(todo) \in Nat
        /\ \A k \in DOMAIN todo : todo[k][1] \in Int /\ todo[k][2] \in Int
    BY <1>1, Stack
  <2> QED
    BY <1>1, <2>1, <2>2 DEF Ranges
<1>5. /\ rtable' \in [Slots -> Entries]
      /\ rtable'[end] = rtable[pIndex] /\ rtable'[pIndex] = rtable[end]
      /\ \A s \in Slots : s # end /\ s # pIndex => rtable'[s] = rtable[s]
  BY <1>1, <1>2, Exchange
<1>6. TypeOK'
  BY <1>1, <1>4, <1>5 DEF TypeOK
<1>7. RangesFollow'
  <2>1. /\ \A k \in DOMAIN todo : end < todo[k][1]
        /\ \A j, k \in DOMAIN todo : j < k => todo[j][2] < todo[k][1]
    BY <1>1 DEF SortInv, RangesFollow
  <2>2. ASSUME NEW k \in DOMAIN todo'
        PROVE  k = 1 \/ k = 2 \/ (k - 2 \in DOMAIN todo /\ todo'[k] = todo[k - 2])
    <3>1. Len(todo) \in Nat /\ k \in 1..(Len(todo) + 2)
      BY <1>4
    <3>2. k = 1 \/ k = 2 \/ (k - 2 \in 1..Len(todo) /\ (k - 2) + 2 = k)
      BY <3>1
    <3> QED
      BY <1>4, <3>2
  <2>3. ASSUME NEW j \in DOMAIN todo', NEW k \in DOMAIN todo', j < k
        PROVE  todo'[j][2] < todo'[k][1]
    <3>1. j \in Int /\ k \in Int /\ 1 <= j
      BY <1>4
    <3>2. CASE k = 2
      BY <1>2, <1>3, <1>4, <2>3, <3>1, <3>2
    <3>3. CASE k # 2
      <4>1. k - 2 \in DOMAIN todo /\ todo'[k] = todo[k - 2]
        BY <2>2, <2>3, <3>1, <3>3
      <4>2. end < todo[k - 2][1] /\ todo[k - 2][1] \in Int
        BY <1>4, <2>1, <4>1
      <4>3. CASE j = 1
        <5>1. todo'[j][2] = pIndex - 1
          BY <1>3, <1>4, <4>3
        <5> QED
          BY <1>2, <4>1, <4>2, <5>1
      <4>4. CASE j = 2
        BY <1>2, <1>3, <1>4, <4>1, <4>2, <4>4
      <4>5. CASE j # 1 /\ j # 2
        <5>1. j - 2 \in DOMAIN todo /\ todo'[j] = todo[j - 2] /\ j - 2 < k - 2
          BY <2>2, <2>3, <3>1, <4>5
        <5> QED
          BY <2>1, <4>1, <5>1
      <4> QED
        BY <4>3, <4>4, <4>5
    <3> QED
      BY <3>2, <3>3
  <2> QED
    BY <1>1, <2>3 DEF RangesFollow, Sorting
<1>8. \A a, b \in Slots :
        (\E k \in DOMAIN todo : todo[k][1] <= a /\ b <= todo[k][2]) => Together(a, b)'
  <2> SUFFICES ASSUME NEW a \in Slots, NEW b \in Slots, NEW k \in DOMAIN todo,
                      todo[k][1] <= a, b <= todo[k][2]
               PROVE  Together(a, b)'
    OBVIOUS
  <2>1. Len(todo) \in Nat /\ k \in 1..Len(todo)
    BY <1>4
  <2>2. k + 2 \in 1..(Len(todo) + 2)
    BY <2>1
  <2>3. k + 2 \in DOMAIN todo' /\ todo'[k + 2] = todo[k]
    BY <1>4, <2>2
  <2> QED
    BY <2>3 DEF Together
<1>9. NearlyInOrder'
  <2> SUFFICES ASSUME NEW a \in Slots, NEW b \in Slots, a < b
               PROVE  Together(a, b)' \/ ~Before(rtable'[b], rtable'[a])
    BY DEF NearlyInOrder, Before
  <2>1. a \in Int /\ b \in Int /\ rtable[a] \in Entries /\ rtable[b] \in Entries
        /\ rtable[pIndex] \in Entries /\ rtable[end] \in Entries
    BY <1>1, <1>2, Positions
  <2>2. CASE ~(Inside(a) /\ Inside(b))
    <3>1. \/ ~Before(rtable'[b], rtable'[a])
          \/ \E k \in DOMAIN todo : todo[k][1] <= a /\ b <= todo[k][2]
      BY <1>1, <1>2, <2>2, ExchangeAcross DEF SortInv
    <3> QED
      BY <1>8, <3>1
  <2>3. CASE Inside(a) /\ Inside(b) /\ b < pIndex
    <3>1. 1 \in DOMAIN todo' /\ x[1] <= a /\ b <= x[2]
      BY <1>2, <1>3, <1>4, <2>1, <2>3 DEF Inside
    <3> QED
      BY <1>4, <3>1 DEF Together
  <2>4. CASE Inside(a) /\ Inside(b) /\ pIndex < a
    <3>1. 2 \in DOMAIN todo' /\ y[1] <= a /\ b <= y[2]
      BY <1>2, <1>3, <1>4, <2>1, <2>4 DEF Inside
    <3> QED
      BY <1>4, <3>1 DEF Together
  <2>5. CASE Inside(a) /\ Inside(b) /\ a <= pIndex /\ pIndex <= b
    <3>1. /\ \A s \in start..(pIndex - 1) : Before(rtable[s], rtable[end])
          /\ \A s \in pIndex..(end - 1) : ~Before(rtable[s], rtable[end])
      BY <1>1 DEF SortInv, Partitioned
    <3>2. a = pIndex \/ (Before(rtable[a], rtable[end]) /\ rtable'[a] = rtable[a])
      <4>1. a = pIndex \/ (a \in start..(pIndex - 1) /\ a # end)
        BY <1>2, <2>1, <2>5 DEF Inside
      <4> QED
        BY <1>5, <3>1, <4>1
    <3>3. b = pIndex \/ ~Before(rtable'[b], rtable[end])
      <4>1. \/ b = pIndex
            \/ b = end /\ pIndex \in pIndex..(end - 1)
            \/ b \in pIndex..(end - 1) /\ b # end /\ b # pIndex
        BY <1>2, <2>1, <2>5 DEF Inside
      <4> QED
        BY <1>5, <3>1, <4>1
    <3>4. rtable'[a] \in Entries /\ rtable'[b] \in Entries
      BY <1>5
    <3>5. CASE a = pIndex
      BY <1>5, <2>1, <3>3, <3>5
    <3>6. CASE a # pIndex /\ b = pIndex
      BY <1>5, <2>1, <3>2, <3>6, Order
    <3>7. CASE a # pIndex /\ b # pIndex
      BY <2>1, <3>2, <3>3, <3>4, <3>7, Order
    <3> QED
      BY <3>5, <3>6, <3>7
  <2> QED
    BY <1>2, <2>1, <2>2, <2>3, <2>4, <2>5
<1>10. Permuted'
  BY <1>1, <1>2, ExchangePermutes DEF SortInv
<1> QED
  BY <1>1, <1>6, <1>7, <1>9, <1>10 DEF SortInv, Partitioned

(* What does not sort leaves the sorted table alone. *)
LEMMA SortedStays ==
  ASSUME SortInv, UNCHANGED sortVars, TypeOK',
         pc' = pc \/ (~Sorting /\ ~Sorting') \/ (pc = "call" /\ pc' = "ready" /\ todo = <<>>)
  PROVE  SortInv'
<1>1. /\ rtable' = rtable /\ listed' = listed /\ todo' = todo
      /\ start' = start /\ end' = end /\ i' = i /\ pIndex' = pIndex
  BY DEF sortVars
<1>2. pc' = "scan" => pc = "scan"
  BY DEF Sorting
<1>3. pc = "scan" => pc' = "scan"
  BY DEF Sorting
<1>4. RangesFollow'
  BY <1>1, <1>2 DEF SortInv, RangesFollow, Sorting
<1>5. NearlyInOrder'
  BY <1>1, <1>3 DEF SortInv, NearlyInOrder, Together, Before
<1>6. Partitioned'
  BY <1>1, <1>2 DEF SortInv, Partitioned, Before
<1>7. Permuted'
  BY <1>1 DEF SortInv, Permuted, Permutation
<1> QED
  BY <1>4, <1>5, <1>6, <1>7 DEF SortInv
-----------------------------------------------------------------------------
(* Once sorted, the prefixes rise, and the masks of a prefix fall. *)
LEMMA SortedTable ==
  ASSUME SortInv, ~Sorting
  PROVE  /\ InOrder
         /\ \A a, b \in Slots : a <= b => rtable[a].prefix <= rtable[b].prefix
         /\ \A a, b \in Slots : a <= b /\ rtable[a].prefix = rtable[b].prefix
                                => rtable[b].mask <= rtable[a].mask
         /\ \A a \in Slots : rtable[a].prefix \in Nat /\ rtable[a].mask \in Nat
<1>1. TypeOK /\ todo = <<>> /\ pc # "scan"
  BY DEF SortInv, RangesFollow, Sorting
<1>2. DOMAIN todo = {}
  BY <1>1, Stack
<1>3. \A a, b \in Slots : a < b => ~Before(rtable[b], rtable[a])
  BY <1>1, <1>2 DEF SortInv, NearlyInOrder, Together
<1>4. \A a \in Slots : a \in Int /\ rtable[a] \in Entries
  BY <1>1, Positions
<1>5. \A a \in Slots : rtable[a].prefix \in Nat /\ rtable[a].mask \in Nat
  BY <1>4, RouteTableAssumption
<1>6. ASSUME NEW a \in Slots, NEW b \in Slots, a <= b
      PROVE  /\ rtable[a].prefix <= rtable[b].prefix
             /\ rtable[a].prefix = rtable[b].prefix => rtable[b].mask <= rtable[a].mask
  <2>1. CASE a = b
    BY <1>5, <2>1
  <2>2. CASE a # b
    <3>1. a < b
      BY <1>4, <1>6, <2>2
    <3> QED
      BY <1>3, <1>4, <3>1, Order
  <2> QED
    BY <2>1, <2>2
<1> QED
  BY <1>3, <1>5, <1>6 DEF InOrder

(* The routes of the table are the listed ones, each once. *)
LEMMA TableIsList ==
  ASSUME Permuted
  PROVE  /\ OneMask => \A a, b \in Slots : /\ rtable[a].mask = rtable[b].mask
                                           /\ rtable[a].prefix # 0
         /\ ListedOnce => \A a, b \in Slots : SameNet(rtable[a], rtable[b]) => a = b
<1>1. PICK h \in [Slots -> Slots] :
        Permutation(h) /\ \A s \in Slots : rtable[s] = listed[h[s]]
  BY DEF Permuted
<1>2. \A s \in Slots : h[s] \in Slots
  OBVIOUS
<1>3. ASSUME OneMask
      PROVE  \A a, b \in Slots : /\ rtable[a].mask = rtable[b].mask
                                 /\ rtable[a].prefix # 0
  BY <1>1, <1>2, <1>3 DEF OneMask
<1>4. ASSUME ListedOnce, NEW a \in Slots, NEW b \in Slots, SameNet(rtable[a], rtable[b])
      PROVE  a = b
  <2>1. SameNet(listed[h[a]], listed[h[b]])
    BY <1>1, <1>4
  <2>2. h[a] = h[b]
    BY <1>2, <1>4, <2>1 DEF ListedOnce
  <2> QED
    BY <1>1, <2>2 DEF Permutation
<1> QED
  BY <1>3, <1>4

(***************************************************************************)
(* The search. The middle of what is left of the table is in the table.    *)
(***************************************************************************)
LEMMA Halfway ==
  ASSUME NEW x \in 0..Size, NEW y \in -1..(Size - 1), y >= x
  PROVE  /\ x + (y - x) \div 2 \in Slots /\ x + (y - x) \div 2 \in Int
         /\ x <= x + (y - x) \div 2 /\ x + (y - x) \div 2 <= y
  BY RouteTableAssumption DEF Slots

LEMMA Middle ==
  ASSUME TypeOK, r >= l
  PROVE  Mid \in Slots /\ l <= Mid /\ Mid <= r /\ Mid \in Int
  BY Halfway DEF Mid, TypeOK

FindInv ==
  InsideTable /\ NotPassedBy /\ FoundMatches /\ BestRoute

LEMMA LookupKeeps ==
  ASSUME SortInv, Lookup
  PROVE  SortInv' /\ FindInv'
<1>1. /\ TypeOK /\ pc \in {"ready", "done"} /\ pc' = "search" /\ dest' \in Dests
      /\ l' = 0 /\ r' = Size - 1 /\ index' = -1 /\ UNCHANGED sortVars
  BY DEF SortInv, Lookup
<1>2. Size \in Nat
  BY RouteTableAssumption
<1>3. TypeOK'
  BY <1>1, <1>2 DEF TypeOK, sortVars
<1>4. SortInv'
  BY <1>1, <1>3, SortedStays DEF Sorting
<1>5. InsideTable'
  <2>1. (r >= l)' => (Mid \in Slots)'
    BY <1>1, <1>2 DEF Mid, Slots
  <2> QED
    BY <1>1, <2>1 DEF InsideTable
<1>6. NotPassedBy'
  BY <1>1, <1>2 DEF NotPassedBy, Slots
<1> QED
  BY <1>1, <1>4, <1>5, <1>6
     DEF FindInv, FoundMatches, BestRoute, AnswerMatches, LongestOfItsPrefix, FoundIfOneMask

(* With one mask in the table the search leaves out only what cannot match. *)
LEMMA SearchNarrows ==
  ASSUME SortInv, ~Sorting, OneMask, NEW m \in Slots, NEW s \in Slots, Matches(rtable[s]),
         dest \in Dests
  PROVE  /\ Masked(dest, rtable[m].mask) < rtable[m].prefix => s < m
         /\ Masked(dest, rtable[m].mask) > rtable[m].prefix => m < s
<1>1. Masked(dest, rtable[m].mask) = rtable[s].prefix
  <2>1. rtable[m].mask = rtable[s].mask
    BY TableIsList DEF SortInv
  <2> QED
    BY <2>1 DEF Matches
<1>2. m \in Int /\ s \in Int
  BY Positions DEF SortInv
<1>3. /\ s <= m => rtable[s].prefix <= rtable[m].prefix
      /\ m <= s => rtable[m].prefix <= rtable[s].prefix
      /\ rtable[s].prefix \in Nat /\ rtable[m].prefix \in Nat
  BY SortedTable
<1> QED
  BY <1>1, <1>2, <1>3

LEMMA ProbeKeeps ==
  ASSUME SortInv, FindInv, Probe
  PROVE  SortInv' /\ FindInv'
<1>1. /\ TypeOK /\ pc = "search" /\ r >= l /\ dest' = dest /\ UNCHANGED sortVars
      /\ rtable' = rtable /\ listed' = listed
  BY DEF SortInv, Probe, sortVars
<1>2. /\ Mid \in Slots /\ l <= Mid /\ Mid <= r /\ Mid \in Int
      /\ Size \in Nat /\ l \in 0..Size /\ r \in -1..(Size - 1)
      /\ Slots = 0..(Size - 1)
  BY <1>1, Middle, RouteTableAssumption DEF TypeOK, Slots
<1> DEFINE m == Mid
<1>3. \/ /\ Matches(rtable[m]) /\ index' = m /\ pc' = "walk" /\ l' = l /\ r' = r
      \/ /\ Masked(dest, rtable[m].mask) < rtable[m].prefix
         /\ r' = m - 1 /\ l' = l /\ index' = index /\ pc' = pc
      \/ /\ Masked(dest, rtable[m].mask) > rtable[m].prefix
         /\ l' = m + 1 /\ r' = r /\ index' = index /\ pc' = pc
  BY DEF Probe, LowerPart
<1>4. m \in Slots /\ l <= m /\ m <= r /\ m \in Int
  BY <1>2
<1> HIDE DEF m
<1>5. TypeOK'
  <2>1. l' \in 0..Size /\ r' \in -1..(Size - 1) /\ index' \in -1..(Size - 1)
    BY <1>1, <1>2, <1>3, <1>4 DEF TypeOK
  <2> QED
    BY <1>1, <1>3, <2>1 DEF TypeOK, sortVars
<1>6. SortInv'
  BY <1>1, <1>3, <1>5, SortedStays DEF Sorting
<1>7. InsideTable'
  <2>1. (r >= l)' => (Mid \in Slots)'
    <3>1. l' \in 0..Size /\ r' \in -1..(Size - 1)
      BY <1>5 DEF TypeOK
    <3> QED
      BY <3>1, Halfway DEF Mid
  <2> QED
    BY <1>1, <1>3, <1>4, <2>1 DEF InsideTable
<1>8. NotPassedBy'
  <2> SUFFICES ASSUME OneMask', pc' = "search", NEW s \in Slots, Matches(rtable[s])
               PROVE  l' <= s /\ s <= r'
    BY <1>1 DEF NotPassedBy, Matches
  <2>1. OneMask /\ l <= s /\ s <= r /\ s \in Int
    BY <1>1, <1>2 DEF FindInv, NotPassedBy, OneMask
  <2>2. /\ Masked(dest, rtable[m].mask) < rtable[m].prefix => s < m
        /\ Masked(dest, rtable[m].mask) > rtable[m].prefix => m < s
    BY <1>1, <1>4, <2>1, SearchNarrows DEF Sorting, TypeOK
  <2> QED
    BY <1>2, <1>3, <1>4, <2>1, <2>2
<1>9. FoundMatches'
  BY <1>1, <1>3 DEF FoundMatches, Matches
<1> QED
  BY <1>1, <1>3, <1>6, <1>7, <1>8, <1>9
     DEF FindInv, BestRoute, AnswerMatches, LongestOfItsPrefix, FoundIfOneMask

LEMMA MissKeeps ==
  ASSUME SortInv, FindInv, Miss
  PROVE  SortInv' /\ FindInv'
<1>1. /\ TypeOK /\ pc = "search" /\ pc' = "done" /\ r < l /\ index' = -1
      /\ dest' = dest /\ l' = l /\ r' = r /\ UNCHANGED sortVars
      /\ rtable' = rtable /\ listed' = listed
  BY DEF SortInv, Miss, sortVars
<1>2. Size \in Nat /\ l \in 0..Size /\ r \in -1..(Size - 1) /\ Slots = 0..(Size - 1)
  BY <1>1, RouteTableAssumption DEF TypeOK, Slots
<1>3. TypeOK'
  BY <1>1, <1>2 DEF TypeOK, sortVars
<1>4. SortInv'
  BY <1>1, <1>3, SortedStays DEF Sorting
<1>5. FoundIfOneMask'
  <2> SUFFICES ASSUME OneMask', NEW s \in Slots, Matches(rtable[s])
               PROVE  FALSE
    BY <1>1 DEF FoundIfOneMask, Matches
  <2>1. l <= s /\ s <= r /\ s \in Int
    BY <1>1, <1>2 DEF FindInv, NotPassedBy, OneMask
  <2> QED
    BY <1>1, <1>2, <2>1
<1> QED
  BY <1>1, <1>4, <1>5
     DEF FindInv, InsideTable, NotPassedBy, FoundMatches, BestRoute, AnswerMatches,
         LongestOfItsPrefix

LEMMA WalkBackKeeps ==
  ASSUME SortInv, FindInv, WalkBack
  PROVE  SortInv' /\ FindInv'
<1>1. /\ TypeOK /\ pc = "walk" /\ pc' = pc /\ index > 0 /\ index' = index - 1
      /\ Matches(rtable[index - 1])
      /\ dest' = dest /\ l' = l /\ r' = r /\ UNCHANGED sortVars
      /\ rtable' = rtable /\ listed' = listed
  BY DEF SortInv, WalkBack, Better, sortVars
<1>2. Size \in Nat /\ index \in -1..(Size - 1) /\ Slots = 0..(Size - 1)
  BY <1>1, RouteTableAssumption DEF TypeOK, Slots
<1>3. index' \in Slots /\ index' \in -1..(Size - 1)
  BY <1>1, <1>2
<1>4. TypeOK'
  BY <1>1, <1>3 DEF TypeOK, sortVars
<1>5. SortInv'
  BY <1>1, <1>4, SortedStays
<1> QED
  BY <1>1, <1>3, <1>5
     DEF FindInv, InsideTable, NotPassedBy, FoundMatches, Matches, BestRoute, AnswerMatches,
         LongestOfItsPrefix, FoundIfOneMask

(***************************************************************************)
(* Where the walk back ends, no route before it is better: the one just    *)
(* before would have to match as well, because its mask lies between.      *)
(***************************************************************************)
LEMMA WalkEndsAtLongest ==
  ASSUME SortInv, ~Sorting, ListedOnce, index \in Slots, Matches(rtable[index]),
         index > 0 => ~Better(rtable[index - 1]),
         NEW s \in Slots, Matches(rtable[s]), rtable[s].prefix = rtable[index].prefix
  PROVE  rtable[s].mask <= rtable[index].mask
<1>1. TypeOK /\ s \in Int /\ index \in Int /\ 0 <= s /\ index < Size
  BY Positions DEF SortInv
<1>2. /\ rtable[s].mask \in Nat /\ rtable[index].mask \in Nat
      /\ \A a, b \in Slots : a <= b => rtable[a].prefix <= rtable[b].prefix
      /\ \A a, b \in Slots : a <= b /\ rtable[a].prefix = rtable[b].prefix
                             => rtable[b].mask <= rtable[a].mask
      /\ \A a \in Slots : rtable[a].prefix \in Nat /\ rtable[a].mask \in Nat
  BY SortedTable
<1>3. CASE index <= s
  BY <1>2, <1>3
<1>4. CASE s < index
  <2> DEFINE m == index - 1
  <2>1. m \in Int /\ s <= m /\ m <= index /\ m # index /\ index > 0 /\ 0 <= m /\ m < Size
    BY <1>1, <1>4, RouteTableAssumption
  <2>2. m \in Slots
    BY <1>1, <2>1, Positions
  <2> HIDE DEF m
  <2>3. rtable[m].prefix = rtable[index].prefix
    <3>1. rtable[s].prefix <= rtable[m].prefix /\ rtable[m].prefix <= rtable[index].prefix
      BY <1>2, <2>1, <2>2
    <3> QED
      BY <1>2, <2>2, <3>1
  <2>4. rtable[m].mask <= rtable[s].mask /\ rtable[index].mask <= rtable[m].mask
    BY <1>2, <2>1, <2>2, <2>3
  <2>5. rtable[m].mask # rtable[index].mask
    <3>1. SameNet(rtable[m], rtable[index]) => m = index
      BY <2>2, TableIsList DEF SortInv
    <3> QED
      BY <2>1, <2>3, <3>1 DEF SameNet
  <2>6. rtable[m].mask > rtable[index].mask
    BY <1>2, <2>2, <2>4, <2>5
  <2>7. Matches(rtable[m])
    <3>1. Masked(dest, rtable[s].mask) = Masked(dest, rtable[index].mask)
      BY DEF Matches
    <3>2. /\ rtable[s].mask >= rtable[m].mask /\ rtable[m].mask >= rtable[index].mask
          /\ rtable[s] \in Entries /\ rtable[m] \in Entries /\ rtable[index] \in Entries
          /\ dest \in Dests
      BY <1>1, <1>2, <2>2, <2>4, Positions DEF TypeOK
    <3>3. Masked(dest, rtable[m].mask) = Masked(dest, rtable[index].mask)
      BY <3>1, <3>2, NetmaskAssumption
    <3> QED
      BY <2>3, <3>3 DEF Matches
  <2>8. Better(rtable[m])
    BY <2>3, <2>6, <2>7 DEF Better
  <2> QED
    BY <2>1, <2>8 DEF m
<1> QED
  BY <1>1, <1>3, <1>4

LEMMA AnswerKeeps ==
  ASSUME SortInv, FindInv, Answer
  PROVE  SortInv' /\ FindInv'
<1>1. /\ TypeOK /\ pc = "walk" /\ pc' = "done" /\ index' = index
      /\ index > 0 => ~Better(rtable[index - 1])
      /\ dest' = dest /\ l' = l /\ r' = r /\ UNCHANGED sortVars
      /\ rtable' = rtable /\ listed' = listed
  BY DEF SortInv, Answer, sortVars, findVars
<1>2. index \in Slots /\ Matches(rtable[index])
  BY <1>1 DEF FindInv, InsideTable, FoundMatches
<1>3. TypeOK'
  BY <1>1 DEF TypeOK, sortVars
<1>4. SortInv'
  BY <1>1, <1>3, SortedStays DEF Sorting
<1>5. AnswerMatches'
  BY <1>1, <1>2 DEF AnswerMatches, Matches
<1>6. LongestOfItsPrefix'
  <2> SUFFICES ASSUME ListedOnce, NEW s \in Slots, Matches(rtable[s]),
                      rtable[s].prefix = rtable[index].prefix
               PROVE  rtable[s].mask <= rtable[index].mask
    BY <1>1 DEF LongestOfItsPrefix, ListedOnce, Matches
  <2> QED
    BY <1>1, <1>2, WalkEndsAtLongest DEF Sorting
<1>7. FoundIfOneMask'
  <2>1. index # -1
    BY <1>1, <1>2, Positions
  <2> QED
    BY <1>1, <2>1 DEF FoundIfOneMask
<1> QED
  BY <1>1, <1>4, <1>5, <1>6, <1>7
     DEF FindInv, InsideTable, NotPassedBy, FoundMatches, BestRoute

LEMMA WalkOffKeeps ==
  ASSUME SortInv, FindInv, WalkOff
  PROVE  SortInv' /\ FindInv'
<1>1. /\ TypeOK /\ pc = "walk" /\ pc' = "done" /\ index' = -1 /\ index = 0
      /\ rtable[0].prefix = 0
      /\ dest' = dest /\ l' = l /\ r' = r /\ UNCHANGED sortVars
      /\ rtable' = rtable /\ listed' = listed
  BY DEF SortInv, WalkOff, sortVars
<1>2. 0 \in Slots
  BY <1>1 DEF FindInv, InsideTable
<1>3. TypeOK'
  <2>1. index' \in -1..(Size - 1)
    BY <1>1, RouteTableAssumption
  <2> QED
    BY <1>1, <2>1 DEF TypeOK, sortVars
<1>4. SortInv'
  BY <1>1, <1>3, SortedStays DEF Sorting
<1>5. ~OneMask'
  BY <1>1, <1>2, TableIsList DEF SortInv, OneMask
<1> QED
  BY <1>1, <1>4, <1>5
     DEF FindInv, InsideTable, NotPassedBy, FoundMatches, BestRoute, AnswerMatches,
         LongestOfItsPrefix, FoundIfOneMask
-----------------------------------------------------------------------------
SortStep == Call \/ Scan \/ Place \/ Sorted

(* While the table is being sorted nothing is looked up. *)
LEMMA SortStepKeeps ==
  ASSUME SortInv, FindInv, SortStep
  PROVE  SortInv' /\ FindInv'
<1>1. SortInv'
  <2>1. CASE Sorted
    <3>1. /\ TypeOK /\ pc = "call" /\ todo = <<>> /\ pc' = "ready" /\ UNCHANGED sortVars
          /\ dest' = dest /\ l' = l /\ r' = r /\ index' = index
      BY <2>1 DEF SortInv, Sorted, findVars
    <3>2. TypeOK'
      BY <3>1 DEF TypeOK, sortVars
    <3> QED
      BY <3>1, <3>2, SortedStays
  <2> QED
    BY <2>1, CallKeeps, ScanKeeps, PlaceKeeps DEF SortStep
<1>2. pc' \in {"call", "scan", "ready"}
  BY DEF SortStep, Call, Scan, Place, Sorted
<1>3. pc' = "scan" => (i \in Slots /\ end \in Slots /\ pIndex \in Slots)'
  <2> SUFFICES ASSUME pc' = "scan" PROVE (i \in Slots /\ end \in Slots /\ pIndex \in Slots)'
    OBVIOUS
  <2>1. /\ start' \in Int /\ end' \in Int /\ i' \in Int /\ pIndex' \in Int
        /\ 0 <= start' /\ start' <= pIndex' /\ pIndex' <= i' /\ i' <= end' /\ end' < Size
    BY <1>1 DEF SortInv, TypeOK, Partitioned
  <2> QED
    BY <2>1, RouteTableAssumption DEF Slots
<1> QED
  BY <1>1, <1>2, <1>3
     DEF FindInv, InsideTable, NotPassedBy, FoundMatches, BestRoute, AnswerMatches,
         LongestOfItsPrefix, FoundIfOneMask

LEMMA InitIsRight == Init => SortInv /\ FindInv
<1> SUFFICES ASSUME Init PROVE SortInv /\ FindInv
  OBVIOUS
<1>1. /\ Size \in Nat /\ rtable \in [Slots -> Entries] /\ listed = rtable /\ pc = "call"
      /\ todo = << <<0, Size - 1>> >> /\ dest \in Dests
      /\ start = 0 /\ end = 0 /\ i = 0 /\ pIndex = 0 /\ l = 0 /\ r = -1 /\ index = -1
  BY RouteTableAssumption DEF Init
<1>2. <<0, Size - 1>> \in (0..Size) \X (-1..(Size - 1))
  BY <1>1
<1>3. /\ todo \in Seq((0..Size) \X (-1..(Size - 1)))
      /\ DOMAIN todo = {1} /\ todo[1][1] = 0 /\ todo[1][2] = Size - 1
  BY <1>1, <1>2
<1>4. TypeOK
  BY <1>1, <1>3 DEF TypeOK
<1>5. RangesFollow
  BY <1>1, <1>3 DEF RangesFollow, Sorting
<1>6. NearlyInOrder
  <2> SUFFICES ASSUME NEW a \in Slots, NEW b \in Slots, a < b
               PROVE  Together(a, b)
    BY DEF NearlyInOrder
  <2>1. 0 <= a /\ b <= Size - 1
    BY <1>1 DEF Slots
  <2> QED
    BY <1>3, <2>1 DEF Together
<1>7. Permuted
  <2> DEFINE h == [s \in Slots |-> s]
  <2>1. h \in [Slots -> Slots] /\ \A s \in Slots : h[s] = s
    OBVIOUS
  <2> HIDE DEF h
  <2> QED
    BY <1>1, <2>1 DEF Permuted, Permutation
<1> QED
  BY <1>1, <1>4, <1>5, <1>6, <1>7
     DEF SortInv, FindInv, Partitioned, InsideTable, NotPassedBy, FoundMatches, BestRoute,
         AnswerMatches, LongestOfItsPrefix, FoundIfOneMask

LEMMA NextKeeps == SortInv /\ FindInv /\ [Next]_vars => (SortInv /\ FindInv)'
<1> SUFFICES ASSUME SortInv, FindInv, [Next]_vars
             PROVE  (SortInv /\ FindInv)'
  OBVIOUS
<1>1. CASE UNCHANGED vars
  <2>1. /\ UNCHANGED sortVars /\ pc' = pc /\ dest' = dest /\ l' = l /\ r' = r
        /\ index' = index /\ rtable' = rtable /\ listed' = listed
        /\ i' = i /\ end' = end /\ pIndex' = pIndex
    BY <1>1 DEF vars, sortVars, findVars
  <2>2. TypeOK'
    BY <2>1 DEF SortInv, TypeOK, sortVars
  <2>3. SortInv'
    BY <2>1, <2>2, SortedStays
  <2>4. Mid' = Mid
    BY <2>1 DEF Mid
  <2> QED
    BY <2>1, <2>3, <2>4
       DEF FindInv, InsideTable, NotPassedBy, FoundMatches, BestRoute, AnswerMatches,
           LongestOfItsPrefix, FoundIfOneMask, OneMask, ListedOnce, Matches
<1> QED
  BY <1>1, SortStepKeeps, LookupKeeps, ProbeKeeps, MissKeeps, WalkBackKeeps, AnswerKeeps,
     WalkOffKeeps DEF Next, SortStep

(***************************************************************************)
(* The inductive invariant of sorting and lookup holds for every table     *)
(* that may be listed and every destination (router.c:69-128); no access   *)
(* is outside the table but the one before its first entry.                *)
(***************************************************************************)
THEOREM Invariance == Spec => []IndInv
<1>1. Init => SortInv /\ FindInv
  BY InitIsRight
<1>2. SortInv /\ FindInv /\ [Next]_vars => (SortInv /\ FindInv)'
  BY NextKeeps
<1>3. SortInv /\ FindInv => IndInv
  BY DEF SortInv, FindInv, IndInv
<1> QED
  BY <1>1, <1>2, <1>3, PTL DEF Spec
-----------------------------------------------------------------------------
(* As often as an entry is listed, so often it is in the table. *)
LEMMA NoneLost ==
  ASSUME Permuted
  PROVE  SameEntries
<1> SUFFICES ASSUME NEW a \in Slots
             PROVE  Cardinality({s \in Slots : rtable[s] = listed[a]})
                      = Cardinality({s \in Slots : listed[s] = listed[a]})
  BY DEF SameEntries
<1>1. PICK h \in [Slots -> Slots] :
        Permutation(h) /\ \A s \in Slots : rtable[s] = listed[h[s]]
  BY DEF Permuted
<1> DEFINE A == {s \in Slots : rtable[s] = listed[a]}
           B == {s \in Slots : listed[s] = listed[a]}
           g == [s \in A |-> h[s]]
<1>2. IsFiniteSet(A)
  <2>1. IsFiniteSet(Slots)
    BY FS_Interval, RouteTableAssumption DEF Slots
  <2> QED
    BY <2>1, FS_Subset
<1>3. g \in [A -> B]
  BY <1>1
<1>4. \A s, u \in A : g[s] = g[u] => s = u
  BY <1>1 DEF Permutation
<1>5. \A u \in B : \E s \in A : g[s] = u
  <2> SUFFICES ASSUME NEW u \in B PROVE \E s \in A : g[s] = u
    OBVIOUS
  <2>1. PICK s \in Slots : h[s] = u
    BY <1>1 DEF Permutation
  <2>2. s \in A
    BY <1>1, <2>1
  <2> QED
    BY <2>1, <2>2
<1>6. ExistsBijection(A, B)
  <2> HIDE DEF A, B, g
  <2>1. g \in Bijection(A, B)
    BY <1>3, <1>4, <1>5 DEF Bijection, Injection, Surjection, IsInjective
  <2> QED
    BY <2>1 DEF ExistsBijection
<1> QED
  BY <1>2, <1>6, FS_Bijection

(***************************************************************************)
(* quicksort() sorts: at every step the entries are those of rtable.txt,   *)
(* each as often as it was listed, and at the end they are in order.       *)
(***************************************************************************)
THEOREM TableSorted == Spec => []Sorts
<1>1. IndInv => Sorts
  <2> SUFFICES ASSUME IndInv PROVE Sorts
    OBVIOUS
  <2>1. SortInv
    BY DEF IndInv, SortInv
  <2>2. SameEntries
    BY <2>1, NoneLost DEF SortInv
  <2>3. InOrder
    BY <2>1, SortedTable DEF InOrder
  <2> QED
    BY <2>2, <2>3 DEF Sorts
<1> QED
  BY <1>1, Invariance, PTL

(***************************************************************************)
(* get_best_route() returns a route that matches, the longest of its       *)
(* prefix where no prefix is listed twice with one mask, and finds one     *)
(* where all masks are equal and no prefix is 0.                           *)
(***************************************************************************)
THEOREM RouteIsBest == Spec => []BestRoute
<1>1. IndInv => BestRoute
  BY DEF IndInv
<1> QED
  BY <1>1, Invariance, PTL
=============================================================================
