----------------------------- MODULE JsonProofs -----------------------------
(***************************************************************************)
(* Proofs about the values of parson.c: what follows from the contract of  *)
(* JsonForest, and that the calls of JsonCalls keep it.                    *)
(***************************************************************************)
EXTENDS JsonCalls, FiniteSetTheorems, SequenceTheorems, WellFoundedInduction, TLAPS

(***************************************************************************)
(* Trees                                                                   *)
(***************************************************************************)

\* The values below some roots are the least set that has them and what is
\* below each of its values.
LEMMA BelowLeast ==
  ASSUME NEW h, NEW roots, NEW S, S \subseteq DOMAIN h.cells, roots \subseteq S, Closed(h, S)
  PROVE  Below(h, roots) \subseteq S
BY Zenon DEF Below

\* What a forest's values have below them is in the forest.
KidsLive(h) == \A x \in DOMAIN h.cells : Kids(h, x) \subseteq DOMAIN h.cells

LEMMA BelowClosed ==
  ASSUME NEW h, NEW roots, roots \subseteq DOMAIN h.cells, KidsLive(h)
  PROVE  /\ Below(h, roots) \subseteq DOMAIN h.cells
         /\ roots \subseteq Below(h, roots)
         /\ Closed(h, Below(h, roots))
<1>1. Below(h, roots) \subseteq DOMAIN h.cells /\ roots \subseteq Below(h, roots)
  BY Zenon DEF Below
<1>2. ASSUME NEW x \in Below(h, roots), NEW y \in Kids(h, x) PROVE y \in Below(h, roots)
  <2>1. y \in DOMAIN h.cells
    BY <1>1, <1>2, Zenon DEF KidsLive
  <2>2. ASSUME NEW S \in SUBSET DOMAIN h.cells, roots \subseteq S, Closed(h, S) PROVE y \in S
    <3>1. x \in S BY <1>2, <2>2, Zenon DEF Below
    <3> QED BY <3>1, <1>2, <2>2, Zenon DEF Closed
  <2> QED BY <2>1, <2>2, Zenon DEF Below
<1> QED BY <1>1, <1>2, Zenon DEF Closed

\* What is below the roots and none of them is in something below them.
LEMMA BelowHasParent ==
  ASSUME NEW h, NEW roots, roots \subseteq DOMAIN h.cells, KidsLive(h),
         NEW w \in Below(h, roots), w \notin roots
  PROVE  \E x \in Below(h, roots) : w \in Kids(h, x)
<1>1. SUFFICES ASSUME \A x \in Below(h, roots) : w \notin Kids(h, x) PROVE FALSE
  BY Zenon
<1> DEFINE S == Below(h, roots) \ {w}
<1>2. S \subseteq DOMAIN h.cells /\ roots \subseteq S /\ Closed(h, S)
  BY BelowClosed, <1>1 DEF Closed
<1>3. Below(h, roots) \subseteq S
  <2> HIDE DEF S
  <2> QED BY <1>2, BelowLeast
<1> QED BY <1>3

\* All of the heap is a forest with the roots H.
Forest(h, H) == IsForest(h, DOMAIN h.cells, H)

LEMMA ForestFacts ==
  ASSUME NEW h, NEW H, Forest(h, H)
  PROVE  /\ H \subseteq DOMAIN h.cells /\ KidsLive(h)
         /\ \A x \in DOMAIN h.cells : \A y \in Kids(h, x) : y \notin H
         /\ \A x \in DOMAIN h.cells : IsInjective(h.cells[x].vals)
         /\ \A x, z \in DOMAIN h.cells : \A y \in Kids(h, x) : y \in Kids(h, z) => x = z
         /\ DOMAIN h.cells = Below(h, H)
BY Zenon DEF Forest, IsForest, EachOnce, KidsLive

\* One comes to what is below some values of the container o only from there,
\* or from o; and o is not below them.
LEMMA OnlyFromAbove ==
  ASSUME NEW h, NEW H, Forest(h, H), NEW o \in DOMAIN h.cells,
         NEW old, old \subseteq Kids(h, o)
  PROVE  /\ old \subseteq DOMAIN h.cells
         /\ o \notin Below(h, old) /\ H \cap Below(h, old) = {}
         /\ \A x \in DOMAIN h.cells \ Below(h, old) : \A y \in Kids(h, x) :
              y \in Below(h, old) => x = o /\ y \in old
<1> DEFINE D == DOMAIN h.cells
           B == Below(h, old)
<1>1. old \subseteq D /\ B \subseteq D /\ old \subseteq B /\ Closed(h, B)
  BY ForestFacts, BelowClosed DEF KidsLive
<1>2. ASSUME NEW x \in D \ B, NEW y \in Kids(h, x), y \in B PROVE x = o /\ y \in old
  <2>1. CASE y \in old
    BY <2>1, <1>2, ForestFacts
  <2>2. CASE y \notin old
    <3>1. PICK z \in B : y \in Kids(h, z)
      BY <2>2, <1>2, <1>1, BelowHasParent, ForestFacts
    <3>2. x = z BY <3>1, <1>1, <1>2, ForestFacts
    <3> QED BY <3>1, <3>2
  <2> QED BY <2>1, <2>2
<1>3. H \cap B = {}
  <2>1. ASSUME NEW y \in H, y \in B PROVE FALSE
    <3>1. y \notin old BY <2>1, ForestFacts
    <3>2. PICK z \in B : y \in Kids(h, z)
      BY <3>1, <2>1, <1>1, BelowHasParent, ForestFacts
    <3> QED BY <3>2, <1>1, <2>1, ForestFacts
  <2> QED BY <2>1
<1>4. ASSUME o \in B PROVE FALSE
  <2> DEFINE S == D \ B
  <2>1. Closed(h, S)
    BY <1>2, <1>4, ForestFacts DEF Closed, KidsLive
  <2>2. H \subseteq S BY <1>3, ForestFacts
  <2>3. Below(h, H) \subseteq S
    <3>1. S \subseteq DOMAIN h.cells OBVIOUS
    <3> HIDE DEF S
    <3> QED BY <2>1, <2>2, <3>1, BelowLeast
  <2>4. Below(h, H) = D BY ForestFacts
  <2> QED BY <2>3, <2>4, <1>4
<1> QED BY <1>1, <1>2, <1>3, <1>4

\* Nothing leads from outside into the trees of some roots.
LEMMA TreesApart ==
  ASSUME NEW h, NEW H, Forest(h, H), NEW v, v \subseteq H
  PROVE  /\ v \subseteq Below(h, v) /\ Below(h, v) \subseteq DOMAIN h.cells
         /\ Below(h, v) \cap H = v
         /\ \A x \in DOMAIN h.cells \ Below(h, v) : Kids(h, x) \cap Below(h, v) = {}
<1> DEFINE D == DOMAIN h.cells
           V == Below(h, v)
<1>1. v \subseteq D /\ V \subseteq D /\ v \subseteq V /\ Closed(h, V)
  BY ForestFacts, BelowClosed
<1>2. ASSUME NEW y \in V, y \notin v PROVE \E z \in V : y \in Kids(h, z)
  BY <1>2, <1>1, BelowHasParent, ForestFacts
<1>3. V \cap H = v
  BY <1>1, <1>2, ForestFacts
<1>4. ASSUME NEW x \in D \ V, NEW y \in Kids(h, x), y \in V PROVE FALSE
  <2>1. y \notin v BY <1>4, ForestFacts
  <2>2. PICK z \in V : y \in Kids(h, z) BY <2>1, <1>2, <1>4
  <2> QED BY <2>2, <1>1, <1>4, ForestFacts
<1> QED BY <1>1, <1>3, <1>4

\* A tree of the program's has nothing in common with what is below values of a
\* container that is not in it.
LEMMA TreesDisjoint ==
  ASSUME NEW h, NEW H, Forest(h, H), NEW v, v \subseteq H,
         NEW o \in DOMAIN h.cells, o \notin Below(h, v), NEW old, old \subseteq Kids(h, o)
  PROVE  Below(h, v) \cap Below(h, old) = {}
<1> DEFINE S == Below(h, v) \ Below(h, old)
<1>1. S \subseteq DOMAIN h.cells /\ v \subseteq S
  BY TreesApart, OnlyFromAbove
<1>2. Closed(h, S)
  <2>1. Closed(h, Below(h, v)) BY BelowClosed, ForestFacts
  <2>2. \A x \in S : o # x /\ x \in DOMAIN h.cells \ Below(h, old) /\ x \in Below(h, v) BY <1>1
  <2> QED BY <2>1, <2>2, OnlyFromAbove DEF Closed
<1>3. Below(h, v) \subseteq S
  <2> HIDE DEF S
  <2> QED BY <1>1, <1>2, BelowLeast
<1> QED BY <1>3

(***************************************************************************)
(* What the steps of the contract do to a forest                           *)
(***************************************************************************)

\* The values in S have below them in g what they have in h.
SameKids(h, g, S) == \A x \in S : g.cells[x].vals = h.cells[x].vals

LEMMA SameBelow ==
  ASSUME NEW h, NEW g, NEW S, SameKids(h, g, S), NEW x \in S
  PROVE  Kids(g, x) = Kids(h, x)
BY Zenon DEF SameKids, Kids

\* The same trees, whatever became of the rest of their values.
LEMMA FailForest ==
  ASSUME NEW h, NEW g, NEW H, Forest(h, H),
         DOMAIN g.cells = DOMAIN h.cells, SameKids(h, g, DOMAIN h.cells)
  PROVE  Forest(g, H)
<1> DEFINE D == DOMAIN h.cells
<1>1. \A x \in D : Kids(g, x) = Kids(h, x) /\ g.cells[x].vals = h.cells[x].vals
  BY SameBelow DEF SameKids
<1>2. EachOnce(g, D, H)
  BY <1>1, Zenon DEF Forest, IsForest, EachOnce
<1>3. \A S \in SUBSET D : Closed(g, S) <=> Closed(h, S)
  BY <1>1 DEF Closed
<1>4. Below(g, H) = Below(h, H)
  BY <1>3, Zenon DEF Below
<1> QED BY <1>2, <1>4, Zenon DEF Forest, IsForest

\* To show a forest it is enough to show that a set which has the roots, and
\* what is below its values, has all.
LEMMA ForestIf ==
  ASSUME NEW g, NEW H, EachOnce(g, DOMAIN g.cells, H),
         \A S \in SUBSET DOMAIN g.cells : H \subseteq S /\ Closed(g, S) => DOMAIN g.cells \subseteq S
  PROVE  Forest(g, H)
<1>1. H \subseteq DOMAIN g.cells /\ KidsLive(g)
  BY Zenon DEF EachOnce, KidsLive
<1>2. Below(g, H) \subseteq DOMAIN g.cells /\ H \subseteq Below(g, H) /\ Closed(g, Below(g, H))
  BY <1>1, BelowClosed
<1> QED BY <1>2 DEF Forest, IsForest

\* The tree of a root is freed.
LEMMA DiscardForest ==
  ASSUME NEW h, NEW g, NEW H, Forest(h, H), NEW v \in H,
         DOMAIN g.cells = DOMAIN h.cells \ Below(h, {v}),
         SameKids(h, g, DOMAIN g.cells)
  PROVE  Forest(g, H \ {v})
<1> DEFINE D == DOMAIN h.cells
           B == Below(h, {v})
<1>0. {v} \subseteq H OBVIOUS
<1>1. B \subseteq D /\ v \in B /\ B \cap H = {v} /\ Closed(h, B)
  BY <1>0, TreesApart, BelowClosed, ForestFacts
<1>2. \A x \in D \ B : /\ Kids(g, x) = Kids(h, x) /\ g.cells[x].vals = h.cells[x].vals
                       /\ Kids(h, x) \cap B = {}
  <2> SUFFICES ASSUME NEW x \in D \ B
               PROVE  /\ Kids(g, x) = Kids(h, x) /\ g.cells[x].vals = h.cells[x].vals
                      /\ Kids(h, x) \cap B = {}
    OBVIOUS
  <2>1. Kids(g, x) = Kids(h, x) BY SameBelow
  <2>2. g.cells[x].vals = h.cells[x].vals BY DEF SameKids
  <2>3. Kids(h, x) \cap B = {} BY <1>0, TreesApart
  <2> QED BY <2>1, <2>2, <2>3
<1>3. EachOnce(g, D \ B, H \ {v})
  <2>1. H \ {v} \subseteq D \ B BY <1>1, ForestFacts
  <2>2. \A x \in D \ B : Kids(g, x) \subseteq (D \ B) \ (H \ {v}) /\ IsInjective(g.cells[x].vals)
    <3> SUFFICES ASSUME NEW x \in D \ B
                 PROVE Kids(g, x) \subseteq (D \ B) \ (H \ {v}) /\ IsInjective(g.cells[x].vals)
      OBVIOUS
    <3>1. Kids(g, x) = Kids(h, x) /\ Kids(h, x) \cap B = {} BY <1>2
    <3>2. Kids(h, x) \subseteq D /\ \A y \in Kids(h, x) : y \notin H BY ForestFacts DEF KidsLive
    <3>3. IsInjective(g.cells[x].vals) BY <1>2, ForestFacts
    <3> QED BY <3>1, <3>2, <3>3
  <2>3. \A x, z \in D \ B : x # z => Kids(g, x) \cap Kids(g, z) = {}
    BY <1>2, ForestFacts
  <2> QED BY <2>1, <2>2, <2>3, Zenon DEF EachOnce
<1>4. ASSUME NEW S \in SUBSET (D \ B), H \ {v} \subseteq S, Closed(g, S) PROVE D \ B \subseteq S
  <2>1. Closed(h, S \cup B)
    BY <1>1, <1>2, <1>4 DEF Closed
  <2>2. H \subseteq S \cup B /\ S \cup B \subseteq D BY <1>1, <1>4
  <2>3. Below(h, H) \subseteq S \cup B
    <3> DEFINE U == S \cup B
    <3>1. U \subseteq DOMAIN h.cells /\ H \subseteq U /\ Closed(h, U) BY <2>1, <2>2
    <3> HIDE DEF U
    <3>2. Below(h, H) \subseteq U BY <3>1, BelowLeast
    <3> QED BY <3>2 DEF U
  <2> QED BY <2>3, ForestFacts
<1> QED BY <1>3, <1>4, ForestIf

\* Some of what a container has in it is freed.
LEMMA CutForest ==
  ASSUME NEW h, NEW g, NEW H, Forest(h, H), NEW o \in DOMAIN h.cells,
         NEW old, old \subseteq Kids(h, o),
         DOMAIN g.cells = DOMAIN h.cells \ Below(h, old),
         SameKids(h, g, DOMAIN g.cells \ {o}),
         Kids(g, o) = Kids(h, o) \ old, IsInjective(g.cells[o].vals)
  PROVE  Forest(g, H)
<1> DEFINE D == DOMAIN h.cells
           B == Below(h, old)
<1>1. B \subseteq D /\ old \subseteq B /\ B \cap H = {} /\ o \notin B /\ Closed(h, B)
  BY OnlyFromAbove, BelowClosed, ForestFacts
<1>2. \A x \in D \ B : /\ Kids(g, x) \subseteq Kids(h, x) /\ Kids(g, x) \cap B = {}
                       /\ x # o => Kids(g, x) = Kids(h, x)
                       /\ IsInjective(g.cells[x].vals)
  <2> SUFFICES ASSUME NEW x \in D \ B
               PROVE  /\ Kids(g, x) \subseteq Kids(h, x) /\ Kids(g, x) \cap B = {}
                      /\ x # o => Kids(g, x) = Kids(h, x)
                      /\ IsInjective(g.cells[x].vals)
    OBVIOUS
  <2>1. CASE x = o
    <3>1. \A y \in Kids(h, o) : y \in B => y \in old BY <1>1, OnlyFromAbove
    <3> QED BY <2>1, <3>1
  <2>2. CASE x # o
    <3>1. g.cells[x].vals = h.cells[x].vals BY <2>2 DEF SameKids
    <3>4. Kids(g, x) = Kids(h, x) BY <3>1 DEF Kids
    <3>2. \A y \in Kids(h, x) : y \notin B BY <2>2, OnlyFromAbove
    <3>3. IsInjective(h.cells[x].vals) BY ForestFacts
    <3> QED BY <2>2, <3>1, <3>2, <3>3, <3>4
  <2> QED BY <2>1, <2>2
<1>3. EachOnce(g, D \ B, H)
  <2>1. H \subseteq D \ B BY <1>1, ForestFacts
  <2>2. \A x \in D \ B : Kids(g, x) \subseteq (D \ B) \ H /\ IsInjective(g.cells[x].vals)
    <3> SUFFICES ASSUME NEW x \in D \ B
                 PROVE  Kids(g, x) \subseteq (D \ B) \ H /\ IsInjective(g.cells[x].vals)
      OBVIOUS
    <3>1. Kids(h, x) \subseteq D /\ \A y \in Kids(h, x) : y \notin H BY ForestFacts DEF KidsLive
    <3>2. Kids(g, x) \subseteq Kids(h, x) /\ Kids(g, x) \cap B = {} BY <1>2
    <3>3. IsInjective(g.cells[x].vals) BY <1>2
    <3> QED BY ONLY <3>1, <3>2, <3>3
  <2>3. \A x, z \in D \ B : x # z => Kids(g, x) \cap Kids(g, z) = {}
    <3>1. \A x, z \in D : x # z => Kids(h, x) \cap Kids(h, z) = {} BY ForestFacts
    <3>2. \A x \in D \ B : Kids(g, x) \subseteq Kids(h, x) BY <1>2
    <3> QED BY ONLY <3>1, <3>2
  <2> QED BY <2>1, <2>2, <2>3, Zenon DEF EachOnce
<1>4. ASSUME NEW S \in SUBSET (D \ B), H \subseteq S, Closed(g, S) PROVE D \ B \subseteq S
  <2>1. Closed(h, S \cup B)
    <3> SUFFICES ASSUME NEW x \in S \cup B, NEW y \in Kids(h, x) PROVE y \in S \cup B
      BY DEF Closed
    <3>1. CASE x \in B BY <3>1, <1>1 DEF Closed
    <3>2. CASE x \in S /\ x # o
      <4>1. x \in D \ B /\ Kids(g, x) \subseteq S BY <3>2, <1>4 DEF Closed
      <4>2. Kids(g, x) = Kids(h, x) BY <3>2, <4>1, <1>2
      <4> QED BY ONLY <4>1, <4>2, y \in Kids(h, x)
    <3>3. CASE x \in S /\ x = o BY <3>3, <1>1, <1>4 DEF Closed
    <3> QED BY <3>1, <3>2, <3>3
  <2>2. H \subseteq S \cup B /\ S \cup B \subseteq D BY <1>1, <1>4
  <2>3. Below(h, H) \subseteq S \cup B
    <3> DEFINE U == S \cup B
    <3>1. U \subseteq DOMAIN h.cells /\ H \subseteq U /\ Closed(h, U) BY <2>1, <2>2
    <3> HIDE DEF U
    <3>2. Below(h, H) \subseteq U BY <3>1, BelowLeast
    <3> QED BY <3>2 DEF U
  <2> QED BY <2>3, ForestFacts
<1> QED BY <1>3, <1>4, ForestIf

\* A new tree stands beside the others.
LEMMA MakeForest ==
  ASSUME NEW h, NEW g, NEW H, Forest(h, H), NEW T, T \cap DOMAIN h.cells = {}, NEW r,
         DOMAIN g.cells = DOMAIN h.cells \cup T, SameKids(h, g, DOMAIN h.cells),
         IsForest(g, T, {r})
  PROVE  Forest(g, H \cup {r})
<1> DEFINE D == DOMAIN h.cells
<1>1. \A x \in D : Kids(g, x) = Kids(h, x) /\ g.cells[x].vals = h.cells[x].vals
  BY SameBelow DEF SameKids
<1>2. /\ r \in T
      /\ \A x \in T : Kids(g, x) \subseteq T \ {r} /\ IsInjective(g.cells[x].vals)
      /\ \A x, z \in T : x # z => Kids(g, x) \cap Kids(g, z) = {}
      /\ T = Below(g, {r})
  BY Zenon DEF IsForest, EachOnce
<1>3. EachOnce(g, D \cup T, H \cup {r})
  <2>1. H \cup {r} \subseteq D \cup T BY <1>2, ForestFacts
  <2>2. \A x \in D : Kids(g, x) \subseteq D \ H /\ IsInjective(g.cells[x].vals)
    BY <1>1, ForestFacts DEF KidsLive
  <2>3. \A x \in D \cup T : /\ Kids(g, x) \subseteq (D \cup T) \ (H \cup {r})
                            /\ IsInjective(g.cells[x].vals)
    <3>1. \A x \in T : x \notin H BY ForestFacts
    <3>2. \A x \in D : r # x BY <1>2
    <3> QED BY <2>2, <1>2, <3>1, <3>2
  <2>4. \A x, z \in D \cup T : x # z => Kids(g, x) \cap Kids(g, z) = {}
    <3>1. \A x, z \in D : x # z => Kids(g, x) \cap Kids(g, z) = {} BY <1>1, ForestFacts
    <3> QED BY <2>2, <3>1, <1>2
  <2> QED BY <2>1, <2>3, <2>4, Zenon DEF EachOnce
<1>4. ASSUME NEW S \in SUBSET (D \cup T), H \cup {r} \subseteq S, Closed(g, S)
      PROVE  D \cup T \subseteq S
  <2>1. T \subseteq S
    <3>1. Below(g, {r}) \subseteq S
      <4>1. S \subseteq DOMAIN g.cells /\ {r} \subseteq S BY <1>4
      <4> QED BY <4>1, <1>4, BelowLeast
    <3> QED BY <3>1, <1>2
  <2>2. Closed(h, S \cap D) BY <1>1, <1>4, ForestFacts DEF Closed, KidsLive
  <2>3. H \subseteq S \cap D /\ S \cap D \subseteq D BY <1>4, ForestFacts
  <2>4. D \subseteq S \cap D BY <2>2, <2>3, BelowLeast, ForestFacts
  <2> QED BY <2>1, <2>4
<1> QED BY <1>3, <1>4, ForestIf

\* New values and a tree of the program's, or one of the two, are put in a
\* container as one tree, and what they replace is freed.
LEMMA PutForest ==
  ASSUME NEW h, NEW g, NEW H, Forest(h, H), NEW o \in DOMAIN h.cells,
         NEW v, v \subseteq H, o \notin Below(h, v),
         NEW old, old \subseteq Kids(h, o),
         NEW N, N \cap DOMAIN h.cells = {}, NEW w,
         DOMAIN g.cells = (DOMAIN h.cells \ Below(h, old)) \cup N,
         SameKids(h, g, DOMAIN h.cells \ (Below(h, old) \cup Below(h, v) \cup {o})),
         IsForest(g, N \cup Below(h, v), {w}),
         Kids(g, o) = (Kids(h, o) \ old) \cup {w}, IsInjective(g.cells[o].vals)
  PROVE  Forest(g, H \ v)
<1> DEFINE D == DOMAIN h.cells
           B == Below(h, old)
           V == Below(h, v)
           T == N \cup V
           R == D \ (B \cup V)
           E == (D \ B) \cup N
<1>1. /\ B \subseteq D /\ old \subseteq B /\ B \cap H = {} /\ Closed(h, B)
      /\ V \subseteq D /\ v \subseteq V /\ V \cap H = v /\ Closed(h, V)
      /\ V \cap B = {} /\ o \in R /\ N \cap D = {} /\ E = R \cup T /\ R \cap T = {}
      /\ H \subseteq D
  <2>1. B \subseteq D /\ old \subseteq B /\ B \cap H = {} /\ o \notin B /\ Closed(h, B)
    BY OnlyFromAbove, BelowClosed, ForestFacts
  <2>2. V \subseteq D /\ v \subseteq V /\ V \cap H = v /\ Closed(h, V)
    BY TreesApart, BelowClosed, ForestFacts
  <2>3. V \cap B = {} BY TreesDisjoint
  <2>4. H \subseteq D BY ForestFacts
  <2> QED BY <2>1, <2>2, <2>3, <2>4
<1>2. /\ w \in T
      /\ \A x \in T : Kids(g, x) \subseteq T \ {w}
      /\ \A x \in T : IsInjective(g.cells[x].vals)
      /\ \A x, z \in T : x # z => Kids(g, x) \cap Kids(g, z) = {}
      /\ T = Below(g, {w})
  BY Zenon DEF IsForest, EachOnce
<1>3. /\ \A x \in R : Kids(h, x) \subseteq D /\ Kids(h, x) \cap V = {} /\ Kids(h, x) \cap H = {}
      /\ \A x \in R : x # o => Kids(h, x) \cap B = {}
      /\ Kids(h, o) \cap B = old
      /\ \A x, z \in R : x # z => Kids(h, x) \cap Kids(h, z) = {}
  <2>1. \A x \in R : Kids(h, x) \subseteq D /\ Kids(h, x) \cap H = {} BY ForestFacts DEF KidsLive
  <2>2. \A x \in R : Kids(h, x) \cap V = {} BY TreesApart
  <2>3. \A x \in R : \A y \in Kids(h, x) : y \in B => x = o /\ y \in old BY OnlyFromAbove
  <2>4. \A x, z \in R : x # z => Kids(h, x) \cap Kids(h, z) = {} BY ForestFacts
  <2>5. Kids(h, o) \cap B = old BY <2>3, <1>1
  <2>6. \A x \in R : x # o => Kids(h, x) \cap B = {} BY <2>3
  <2> QED BY <2>1, <2>2, <2>4, <2>5, <2>6
<1>4. \A x \in R : x # o => Kids(g, x) = Kids(h, x) /\ g.cells[x].vals = h.cells[x].vals
  BY <1>1 DEF SameKids, Kids
<1>5. /\ \A x \in R : x # o => Kids(g, x) \subseteq R /\ Kids(g, x) \cap H = {}
      /\ Kids(g, o) \subseteq R \cup {w} /\ (Kids(g, o) \ {w}) \cap H = {}
      /\ w \in Kids(g, o)
  <2> HIDE DEF D, B, V, T, E
  <2>1. ASSUME NEW x \in R, x # o PROVE Kids(g, x) \subseteq R /\ Kids(g, x) \cap H = {}
    <3>1. Kids(g, x) = Kids(h, x) BY <2>1, <1>4
    <3>2. Kids(h, x) \subseteq D /\ Kids(h, x) \cap V = {} /\ Kids(h, x) \cap H = {} /\ Kids(h, x) \cap B = {}
      BY <2>1, <1>3
    <3> QED BY ONLY <3>1, <3>2 DEF R
  <2>2. Kids(g, o) = (Kids(h, o) \ old) \cup {w} OBVIOUS
  <2>3. Kids(h, o) \subseteq D /\ Kids(h, o) \cap V = {} /\ Kids(h, o) \cap H = {} /\ Kids(h, o) \cap B = old
    BY <1>1, <1>3
  <2>4. Kids(g, o) \subseteq R \cup {w} /\ (Kids(g, o) \ {w}) \cap H = {} /\ w \in Kids(g, o)
    BY ONLY <2>2, <2>3 DEF R
  <2> QED BY <2>1, <2>4
<1> HIDE DEF D, B, V, T, R, E
<1>6. EachOnce(g, E, H \ v)
  <2>1. H \ v \subseteq E BY <1>1 DEF E
  <2>2. \A x \in T : x \notin H \ v BY <1>1 DEF T
  <2>3. \A x \in E : Kids(g, x) \subseteq E \ (H \ v) /\ IsInjective(g.cells[x].vals)
    <3> SUFFICES ASSUME NEW x \in E
                 PROVE  Kids(g, x) \subseteq E \ (H \ v) /\ IsInjective(g.cells[x].vals)
      OBVIOUS
    <3>1. CASE x \in T
      <4>1. Kids(g, x) \subseteq T /\ IsInjective(g.cells[x].vals) BY <3>1, <1>2
      <4> QED BY ONLY <4>1, <2>2, <1>1
    <3>2. CASE x \in R /\ x # o
      <4>1. Kids(g, x) \subseteq R /\ Kids(g, x) \cap H = {} BY <3>2, <1>5
      <4>2. IsInjective(g.cells[x].vals)
        <5>1. x \in D BY <3>2 DEF R
        <5>2. IsInjective(h.cells[x].vals) BY <5>1, ForestFacts DEF D
        <5> QED BY <3>2, <1>4, <5>2
      <4> QED BY ONLY <4>1, <4>2, <1>1
    <3>3. CASE x = o
      <4>1. IsInjective(g.cells[x].vals) BY <3>3
      <4>2. Kids(g, x) \subseteq R \cup {w} /\ (Kids(g, x) \ {w}) \cap H = {} BY <3>3, <1>5
      <4> QED BY ONLY <4>1, <4>2, <2>2, <1>1, <1>2
    <3> QED BY ONLY <3>1, <3>2, <3>3, <1>1, x \in E
  <2>4. \A x, z \in E : x # z => Kids(g, x) \cap Kids(g, z) = {}
    <3> SUFFICES ASSUME NEW x \in E, NEW z \in E, x # z, NEW y, y \in Kids(g, x), y \in Kids(g, z)
                 PROVE  FALSE
      OBVIOUS
    <3>1. CASE x \in T /\ z \in T BY <3>1, <1>2
    <3>2. ASSUME NEW a \in T, NEW b \in R, y \in Kids(g, a), y \in Kids(g, b) PROVE FALSE
      <4>1. y \in T /\ y # w BY <3>2, <1>2
      <4>2. y \in R BY <4>1, <3>2, <1>5
      <4> QED BY <4>1, <4>2, <1>1
    <3>3. ASSUME NEW a \in R, a # o, NEW b \in R, a # b, y \in Kids(g, a), y \in Kids(g, b) PROVE FALSE
      <4>1. y \in Kids(h, a) /\ y \in R BY <3>3, <1>4, <1>5
      <4>2. y # w BY <4>1, <1>1, <1>2
      <4>3. y \in Kids(h, b)
        <5>1. CASE b = o BY <5>1, <4>2, <3>3
        <5>2. CASE b # o BY <5>2, <3>3, <1>4
        <5> QED BY <5>1, <5>2
      <4> QED BY <4>1, <4>3, <3>3, <1>3
    <3>4. CASE x \in R /\ z \in R
      <4>1. x # o \/ z # o OBVIOUS
      <4> QED BY <4>1, <3>3, <3>4
    <3> QED BY <3>1, <3>2, <3>4, <1>1
  <2> QED BY <2>1, <2>3, <2>4, Zenon DEF EachOnce
<1>7. ASSUME NEW S \in SUBSET E, H \ v \subseteq S, Closed(g, S) PROVE E \subseteq S
  <2> DEFINE U == (S \cap D) \cup B \cup V
  <2>1. Closed(h, U)
    <3> SUFFICES ASSUME NEW x \in U, NEW y \in Kids(h, x) PROVE y \in U
      BY Zenon DEF Closed
    <3>1. CASE x \in B BY <3>1, <1>1 DEF Closed
    <3>2. CASE x \in V BY <3>2, <1>1 DEF Closed
    <3>3. CASE x \in S /\ x \in R
      <4>1. Kids(g, x) \subseteq S BY <3>3, <1>7 DEF Closed
      <4>2. CASE x # o
        <5>1. Kids(g, x) = Kids(h, x) /\ Kids(h, x) \subseteq D BY <4>2, <3>3, <1>3, <1>4
        <5> QED BY ONLY <5>1, <4>1, y \in Kids(h, x)
      <4>3. CASE x = o
        <5>1. Kids(h, o) \subseteq D /\ old \subseteq B BY <1>1, <1>3
        <5>2. Kids(g, o) = (Kids(h, o) \ old) \cup {w} OBVIOUS
        <5> QED BY ONLY <5>1, <5>2, <4>1, <4>3, y \in Kids(h, x)
      <4> QED BY <4>2, <4>3
    <3> QED BY <3>1, <3>2, <3>3 DEF R
  <2>2. U \subseteq D /\ H \subseteq U BY <1>1, <1>7
  <2>3. Below(h, H) \subseteq U
    <3> HIDE DEF U
    <3> QED BY <2>1, <2>2, BelowLeast DEF D
  <2>4. R \subseteq S
    <3>1. D \subseteq U BY <2>3, ForestFacts DEF D
    <3> QED BY <3>1 DEF R
  <2>5. w \in S
    <3>1. o \in S BY <2>4, <1>1
    <3> QED BY <3>1, <1>5, <1>7 DEF Closed
  <2>6. T \subseteq S
    <3>1. S \subseteq DOMAIN g.cells /\ {w} \subseteq S BY <1>7, <2>5 DEF E, D, B
    <3>2. Below(g, {w}) \subseteq S BY <3>1, <1>7, BelowLeast
    <3> QED BY <3>2, <1>2
  <2> QED BY <2>4, <2>6, <1>1
<1>8. DOMAIN g.cells = E BY DEF E, D, B
<1> QED BY <1>6, <1>7, <1>8, ForestIf

(***************************************************************************)
(* What is in a container                                                  *)
(***************************************************************************)

\* A value behind the last, or in the place of another, is one more.
LEMMA AppendFacts ==
  ASSUME NEW S, NEW s \in Seq(S), NEW w \in S
  PROVE  /\ Append(s, w) \in Seq(S) /\ Len(Append(s, w)) = Len(s) + 1
         /\ Range(Append(s, w)) = Range(s) \cup {w}
         /\ IsInjective(s) /\ w \notin Range(s) => IsInjective(Append(s, w))
<1> DEFINE t == Append(s, w)
<1>1. t \in Seq(S) /\ Len(t) = Len(s) + 1 /\ Len(s) \in Nat OBVIOUS
<1>2. \A i \in 1 .. Len(s) : t[i] = s[i] OBVIOUS
<1>3. t[Len(s) + 1] = w OBVIOUS
<1>4. DOMAIN s = 1 .. Len(s) /\ DOMAIN t = 1 .. Len(s) + 1 OBVIOUS
<1> HIDE DEF t
<1>5. Range(t) = Range(s) \cup {w}
  <2>1. ASSUME NEW y \in Range(t) PROVE y \in Range(s) \cup {w}
    <3>1. PICK i \in 1 .. Len(s) + 1 : y = t[i] BY <2>1, <1>4 DEF Range
    <3>2. i \in 1 .. Len(s) \/ i = Len(s) + 1 BY <1>1
    <3> QED BY <3>1, <3>2, <1>2, <1>3, <1>4 DEF Range
  <2>2. ASSUME NEW y \in Range(s) PROVE y \in Range(t)
    <3>1. PICK i \in 1 .. Len(s) : y = s[i] BY <2>2, <1>4 DEF Range
    <3>2. i \in 1 .. Len(s) + 1 BY <1>1
    <3> QED BY <3>1, <3>2, <1>2, <1>4 DEF Range
  <2>3. w \in Range(t)
    <3>1. Len(s) + 1 \in 1 .. Len(s) + 1 BY <1>1
    <3> QED BY <3>1, <1>3, <1>4 DEF Range
  <2> QED BY <2>1, <2>2, <2>3
<1>6. ASSUME IsInjective(s), w \notin Range(s) PROVE IsInjective(t)
  <2>1. \A i \in 1 .. Len(s) : s[i] # w BY <1>6, <1>4 DEF Range
  <2>2. \A i, j \in 1 .. Len(s) : s[i] = s[j] => i = j BY <1>6, <1>4 DEF IsInjective
  <2>3. ASSUME NEW i \in 1 .. Len(s) + 1, NEW j \in 1 .. Len(s) + 1, t[i] = t[j] PROVE i = j
    <3>1. (i \in 1 .. Len(s) \/ i = Len(s) + 1) /\ (j \in 1 .. Len(s) \/ j = Len(s) + 1)
      BY <1>1
    <3> QED BY <3>1, <2>1, <2>2, <2>3, <1>2, <1>3
  <2> QED BY <2>3, <1>4 DEF IsInjective
<1> QED BY <1>1, <1>5, <1>6 DEF t

LEMMA ReplaceFacts ==
  ASSUME NEW S, NEW s \in Seq(S), NEW w \in S, NEW i \in DOMAIN s, IsInjective(s), w \notin Range(s)
  PROVE  /\ [s EXCEPT ![i] = w] \in Seq(S) /\ Len([s EXCEPT ![i] = w]) = Len(s)
         /\ Range([s EXCEPT ![i] = w]) = (Range(s) \ {s[i]}) \cup {w}
         /\ IsInjective([s EXCEPT ![i] = w])
<1> DEFINE t == [s EXCEPT ![i] = w]
<1>1. t \in Seq(S) /\ Len(t) = Len(s) OBVIOUS
<1>2. DOMAIN t = DOMAIN s /\ t[i] = w /\ \A j \in DOMAIN s : j # i => t[j] = s[j] OBVIOUS
<1> HIDE DEF t
<1>3. \A j \in DOMAIN s : s[j] # w BY DEF Range
<1>4. \A j, k \in DOMAIN s : s[j] = s[k] => j = k BY DEF IsInjective
<1>5. Range(t) = (Range(s) \ {s[i]}) \cup {w}
  <2>1. ASSUME NEW y \in Range(t) PROVE y \in (Range(s) \ {s[i]}) \cup {w}
    <3>1. PICK j \in DOMAIN s : y = t[j] BY <2>1, <1>2 DEF Range
    <3> QED BY <3>1, <1>2, <1>4 DEF Range
  <2>2. ASSUME NEW y \in Range(s), y # s[i] PROVE y \in Range(t)
    <3>1. PICK j \in DOMAIN s : y = s[j] BY <2>2 DEF Range
    <3> QED BY <3>1, <2>2, <1>2 DEF Range
  <2>3. w \in Range(t) BY <1>2 DEF Range
  <2> QED BY <2>1, <2>2, <2>3
<1>6. IsInjective(t) BY <1>2, <1>3, <1>4 DEF IsInjective
<1> QED BY <1>1, <1>5, <1>6 DEF t

\* One that goes is one less: its place is closed, or the last one takes it.
\* It is enough to say where the others have gone.
LEMMA OneLess ==
  ASSUME NEW S, NEW s \in Seq(S), NEW i \in DOMAIN s, IsInjective(s), NEW t \in Seq(S),
         Len(t) = Len(s) - 1,
         \A j \in DOMAIN t : \E k \in DOMAIN s : k # i /\ t[j] = s[k],
         \A k \in DOMAIN s : k # i => \E j \in DOMAIN t : t[j] = s[k],
         \A j, k \in DOMAIN t : t[j] = t[k] => j = k
  PROVE  Range(t) = Range(s) \ {s[i]} /\ IsInjective(t)
<1>1. \A j, k \in DOMAIN s : s[j] = s[k] => j = k BY DEF IsInjective
<1>2. ASSUME NEW y \in Range(t) PROVE y \in Range(s) \ {s[i]}
  <2>1. PICK j \in DOMAIN t : y = t[j] BY <1>2 DEF Range
  <2>2. PICK k \in DOMAIN s : k # i /\ y = s[k] BY <2>1
  <2> QED BY <2>2, <1>1 DEF Range
<1>3. ASSUME NEW y \in Range(s), y # s[i] PROVE y \in Range(t)
  <2>1. PICK k \in DOMAIN s : y = s[k] BY <1>3 DEF Range
  <2>2. PICK j \in DOMAIN t : t[j] = s[k] BY <2>1, <1>3
  <2> QED BY <2>1, <2>2 DEF Range
<1> QED BY <1>2, <1>3 DEF IsInjective

LEMMA RemoveAtFacts ==
  ASSUME NEW S, NEW s \in Seq(S), NEW i \in DOMAIN s, IsInjective(s)
  PROVE  /\ RemoveAt(s, i) \in Seq(S) /\ Len(RemoveAt(s, i)) = Len(s) - 1
         /\ Range(RemoveAt(s, i)) = Range(s) \ {s[i]} /\ IsInjective(RemoveAt(s, i))
<1> DEFINE t == RemoveAt(s, i)
<1>1. i \in Nat /\ 1 <= i /\ i <= Len(s) /\ Len(s) \in Nat /\ DOMAIN s = 1 .. Len(s) OBVIOUS
<1>2. t \in Seq(S) /\ Len(t) = Len(s) - 1 BY <1>1 DEF RemoveAt
<1> DEFINE a == SubSeq(s, 1, i - 1)
           b == SubSeq(s, i + 1, Len(s))
<1>3. \A j \in 1 .. Len(s) - 1 : t[j] = IF j < i THEN s[j] ELSE s[j + 1]
  <2>1. a \in Seq(S) /\ Len(a) = i - 1 /\ \A j \in 1 .. i - 1 : a[j] = s[j] BY <1>1
  <2>2. b \in Seq(S) /\ Len(b) = Len(s) - i BY <1>1
  <2>3. \A j \in 1 .. Len(s) - i : b[j] = s[j + i] BY <1>1
  <2>4. t = a \o b BY DEF RemoveAt
  <2> HIDE DEF a, b, t
  <2>7. \A j \in 1 .. Len(a) + Len(b) : (a \o b)[j] = IF j <= Len(a) THEN a[j] ELSE b[j - Len(a)]
    BY <2>1, <2>2, ConcatProperties
  <2> SUFFICES ASSUME NEW j \in 1 .. Len(s) - 1
               PROVE  t[j] = IF j < i THEN s[j] ELSE s[j + 1]
    OBVIOUS
  <2>5. CASE j < i
    <3>1. j \in 1 .. i - 1 BY <2>5, <1>1
    <3> QED BY <2>1, <2>2, <2>4, <2>5, <2>7, <3>1, <1>1
  <2>6. CASE ~(j < i)
    <3>1. j - (i - 1) \in 1 .. Len(s) - i /\ (j - (i - 1)) + i = j + 1 BY <2>6, <1>1
    <3>2. j \in 1 .. Len(a) + Len(b) /\ ~(j <= Len(a)) /\ Len(a) = i - 1
      BY <2>1, <2>2, <2>6, <1>1
    <3>3. t[j] = b[j - (i - 1)] BY <2>4, <2>7, <3>2
    <3> QED BY <2>3, <2>6, <3>1, <3>3
  <2> QED BY <2>5, <2>6
<1>4. DOMAIN t = 1 .. Len(s) - 1 BY <1>2
<1> HIDE DEF t
<1>5. \A j, k \in 1 .. Len(s) : s[j] = s[k] => j = k BY <1>1 DEF IsInjective
<1>6. \A j \in DOMAIN t : \E k \in DOMAIN s : k # i /\ t[j] = s[k]
  <2> SUFFICES ASSUME NEW j \in 1 .. Len(s) - 1 PROVE \E k \in 1 .. Len(s) : k # i /\ t[j] = s[k]
    BY <1>1, <1>4
  <2>1. CASE j < i
    <3>1. j \in 1 .. Len(s) /\ j # i /\ t[j] = s[j] BY <2>1, <1>1, <1>3
    <3> QED BY <3>1
  <2>2. CASE ~(j < i)
    <3>1. j + 1 \in 1 .. Len(s) /\ j + 1 # i /\ t[j] = s[j + 1] BY <2>2, <1>1, <1>3
    <3> QED BY <3>1
  <2> QED BY <2>1, <2>2
<1>7. \A k \in DOMAIN s : k # i => \E j \in DOMAIN t : t[j] = s[k]
  <2> SUFFICES ASSUME NEW k \in 1 .. Len(s), k # i PROVE \E j \in 1 .. Len(s) - 1 : t[j] = s[k]
    BY <1>1, <1>4
  <2>1. CASE k < i
    <3>1. k \in 1 .. Len(s) - 1 /\ t[k] = s[k] BY <2>1, <1>1, <1>3
    <3> QED BY <3>1
  <2>2. CASE ~(k < i)
    <3>1. k - 1 \in 1 .. Len(s) - 1 /\ ~(k - 1 < i) /\ (k - 1) + 1 = k BY <2>2, <1>1
    <3>2. t[k - 1] = s[k] BY <3>1, <1>3
    <3> QED BY <3>1, <3>2
  <2> QED BY <2>1, <2>2
<1>8. ASSUME NEW j \in DOMAIN t, NEW k \in DOMAIN t, t[j] = t[k] PROVE j = k
  <2>1. j \in 1 .. Len(s) - 1 /\ k \in 1 .. Len(s) - 1 BY <1>4, <1>8
  <2>2. j \in 1 .. Len(s) /\ j + 1 \in 1 .. Len(s) /\ k \in 1 .. Len(s) /\ k + 1 \in 1 .. Len(s)
    BY <2>1, <1>1
  <2>3. CASE j < i /\ k < i BY <2>1, <2>2, <2>3, <1>3, <1>5, <1>8
  <2>4. CASE ~(j < i) /\ ~(k < i)
    <3>1. s[j + 1] = s[k + 1] BY <2>1, <2>4, <1>3, <1>8
    <3>2. j + 1 = k + 1 BY <3>1, <2>2, <1>5
    <3> QED BY <3>2, <2>1
  <2>5. CASE j < i /\ ~(k < i)
    <3>1. s[j] = s[k + 1] BY <2>1, <2>5, <1>3, <1>8
    <3>2. j = k + 1 BY <3>1, <2>2, <1>5
    <3> QED BY <3>2, <2>1, <2>5, <1>1
  <2>6. CASE ~(j < i) /\ k < i
    <3>1. s[j + 1] = s[k] BY <2>1, <2>6, <1>3, <1>8
    <3>2. j + 1 = k BY <3>1, <2>2, <1>5
    <3> QED BY <3>2, <2>1, <2>6, <1>1
  <2> QED BY <2>3, <2>4, <2>5, <2>6
<1>9. Range(t) = Range(s) \ {s[i]} /\ IsInjective(t) BY <1>2, <1>6, <1>7, <1>8, OneLess
<1> QED BY <1>2, <1>9 DEF t

LEMMA WithoutFacts ==
  ASSUME NEW S, NEW s \in Seq(S), NEW i \in DOMAIN s, IsInjective(s)
  PROVE  /\ Without(s, i) \in Seq(S) /\ Len(Without(s, i)) = Len(s) - 1
         /\ Range(Without(s, i)) = Range(s) \ {s[i]} /\ IsInjective(Without(s, i))
<1> DEFINE t == Without(s, i)
<1>1. i \in Nat /\ 1 <= i /\ i <= Len(s) /\ Len(s) \in Nat /\ DOMAIN s = 1 .. Len(s) OBVIOUS
<1>0. [s EXCEPT ![i] = Last(s)] \in Seq(S) /\ Len([s EXCEPT ![i] = Last(s)]) = Len(s)
  <2>1. Last(s) \in S BY <1>1 DEF Last
  <2> QED BY <2>1
<1>2. t \in Seq(S) /\ Len(t) = Len(s) - 1 BY <1>0, <1>1 DEF Without, Front
<1>3. \A j \in 1 .. Len(s) - 1 : t[j] = IF j = i THEN s[Len(s)] ELSE s[j]
  BY <1>0, <1>1 DEF Without, Front, Last
<1>4. DOMAIN t = 1 .. Len(s) - 1 BY <1>2
<1> HIDE DEF t
<1>5. \A j, k \in 1 .. Len(s) : s[j] = s[k] => j = k BY <1>1 DEF IsInjective
<1>6. \A j \in DOMAIN t : \E k \in DOMAIN s : k # i /\ t[j] = s[k]
  <2> SUFFICES ASSUME NEW j \in 1 .. Len(s) - 1 PROVE \E k \in 1 .. Len(s) : k # i /\ t[j] = s[k]
    BY <1>1, <1>4
  <2>1. CASE j = i
    <3>1. Len(s) \in 1 .. Len(s) /\ Len(s) # i /\ t[j] = s[Len(s)] BY <2>1, <1>1, <1>3
    <3> QED BY <3>1
  <2>2. CASE j # i
    <3>1. j \in 1 .. Len(s) /\ t[j] = s[j] BY <2>2, <1>1, <1>3
    <3> QED BY <3>1, <2>2
  <2> QED BY <2>1, <2>2
<1>7. \A k \in DOMAIN s : k # i => \E j \in DOMAIN t : t[j] = s[k]
  <2> SUFFICES ASSUME NEW k \in 1 .. Len(s), k # i PROVE \E j \in 1 .. Len(s) - 1 : t[j] = s[k]
    BY <1>1, <1>4
  <2>1. CASE k < Len(s)
    <3>1. k \in 1 .. Len(s) - 1 /\ t[k] = s[k] BY <2>1, <1>1, <1>3
    <3> QED BY <3>1
  <2>2. CASE k = Len(s)
    <3>1. i \in 1 .. Len(s) - 1 /\ t[i] = s[k] BY <2>2, <1>1, <1>3
    <3> QED BY <3>1
  <2> QED BY <2>1, <2>2
<1>8. ASSUME NEW j \in DOMAIN t, NEW k \in DOMAIN t, t[j] = t[k] PROVE j = k
  <2>1. j \in 1 .. Len(s) - 1 /\ k \in 1 .. Len(s) - 1 BY <1>4, <1>8
  <2>2. j \in 1 .. Len(s) /\ k \in 1 .. Len(s) /\ Len(s) \in 1 .. Len(s) /\ j # Len(s) /\ k # Len(s)
    BY <2>1, <1>1
  <2>3. CASE j # i /\ k # i BY <2>1, <2>2, <2>3, <1>3, <1>5, <1>8
  <2>4. CASE j = i /\ k # i
    <3>1. s[Len(s)] = s[k] BY <2>1, <2>4, <1>3, <1>8
    <3> QED BY <3>1, <2>2, <1>5
  <2>5. CASE j # i /\ k = i
    <3>1. s[Len(s)] = s[j] BY <2>1, <2>5, <1>3, <1>8
    <3> QED BY <3>1, <2>2, <1>5
  <2> QED BY <2>3, <2>4, <2>5
<1>9. Range(t) = Range(s) \ {s[i]} /\ IsInjective(t) BY <1>2, <1>6, <1>7, <1>8, OneLess
<1> QED BY <1>2, <1>9 DEF t

\* What a value must be by itself.
CellOK(c) == c \in Cells /\ Fits(c) /\ (c.type = "object" => IsInjective(c.names))

LEMMA CellFields ==
  ASSUME NEW c \in Cells
  PROVE  /\ c.type \in Types /\ c.parent \in Nat /\ c.capacity \in Nat
         /\ c.names \in Seq(Seq(STRING)) /\ c.vals \in Seq(Nat)
BY DEF Cells

\* One more value in a container, or another for one that was there.
LEMMA FilledFacts ==
  ASSUME NEW c, CellOK(c), IsInjective(c.vals), NEW d, NEW w \in Nat, w \notin Range(c.vals),
         NEW old, Filled(c, d, w, old)
  PROVE  /\ CellOK(d) /\ d.parent = c.parent
         /\ Range(d.vals) = (Range(c.vals) \ old) \cup {w} /\ IsInjective(d.vals)
<1>0. c \in Cells /\ Fits(c) BY DEF CellOK
<1>1. /\ c.vals \in Seq(Nat) /\ c.names \in Seq(Seq(STRING)) /\ c.capacity \in Nat
      /\ Len(c.vals) \in Nat
  BY <1>0, CellFields
<1>2. CASE /\ old = {} /\ d.vals = Append(c.vals, w)
           /\ d.capacity \in Nat /\ d.capacity > Len(c.vals)
           /\ IF c.type # "object" THEN d.names = c.names
              ELSE LET name == Last(d.names)
                   IN  /\ d.names = Append(c.names, name)
                       /\ name \in Seq(STRING) /\ name \notin Range(c.names)
  <2>1. d = [c EXCEPT !.names = d.names, !.vals = d.vals, !.capacity = d.capacity]
    BY Zenon DEF Filled
  <2>2. /\ d.vals \in Seq(Nat) /\ Len(d.vals) = Len(c.vals) + 1
        /\ Range(d.vals) = Range(c.vals) \cup {w} /\ IsInjective(d.vals)
    BY <1>1, <1>2, AppendFacts
  <2>3. /\ d.names \in Seq(Seq(STRING))
        /\ Len(d.names) = IF c.type = "object" THEN Len(c.vals) + 1 ELSE 0
        /\ c.type = "object" => IsInjective(d.names)
    <3>1. CASE c.type # "object" BY <3>1, <1>0, <1>1, <1>2 DEF Fits
    <3>2. CASE c.type = "object"
      <4> DEFINE name == Last(d.names)
      <4>1. d.names = Append(c.names, name) /\ name \in Seq(STRING) /\ name \notin Range(c.names)
        BY <3>2, <1>2
      <4>2. IsInjective(c.names) /\ Len(c.names) = Len(c.vals) BY <3>2, <1>0 DEF CellOK, Fits
      <4> HIDE DEF name
      <4> QED BY <4>1, <4>2, <1>1, <3>2, AppendFacts
    <3> QED BY <3>1, <3>2
  <2>4. d.type = c.type /\ d.parent = c.parent BY <2>1, <1>0 DEF Cells
  <2>5. d \in Cells
    <3>1. d.names \in Seq(Seq(STRING)) /\ d.vals \in Seq(Nat) /\ d.capacity \in Nat
      BY <1>2, <2>2, <2>3
    <3> QED BY <2>1, <3>1, <1>0 DEF Cells
  <2>6. Fits(d) BY <2>2, <2>3, <2>4, <1>1, <1>2 DEF Fits
  <2> QED BY <2>2, <2>3, <2>4, <2>5, <2>6, <1>2 DEF CellOK
<1>3. CASE \E i \in DOMAIN c.vals : old = {c.vals[i]} /\ d = [c EXCEPT !.vals[i] = w]
  <2>1. PICK i \in DOMAIN c.vals : old = {c.vals[i]} /\ d = [c EXCEPT !.vals[i] = w] BY <1>3
  <2>2. /\ d.vals = [c.vals EXCEPT ![i] = w] /\ d.type = c.type /\ d.parent = c.parent
        /\ d.names = c.names /\ d.capacity = c.capacity
    BY <2>1, <1>0 DEF Cells
  <2>3. /\ d.vals \in Seq(Nat) /\ Len(d.vals) = Len(c.vals)
        /\ Range(d.vals) = (Range(c.vals) \ {c.vals[i]}) \cup {w} /\ IsInjective(d.vals)
    <3> DEFINE u == [c.vals EXCEPT ![i] = w]
    <3>1. /\ u \in Seq(Nat) /\ Len(u) = Len(c.vals)
          /\ Range(u) = (Range(c.vals) \ {c.vals[i]}) \cup {w} /\ IsInjective(u)
      BY <1>1, ReplaceFacts
    <3> HIDE DEF u
    <3>2. d.vals = u BY <2>2 DEF u
    <3> QED BY <3>1, <3>2
  <2>4. d \in Cells
    <3>1. d = [c EXCEPT !.vals = d.vals] BY <2>1, <1>0 DEF Cells
    <3> QED BY <3>1, <2>3, <1>0 DEF Cells
  <2>5. Fits(d) BY <2>2, <2>3, <1>0 DEF Fits
  <2> QED BY <2>1, <2>2, <2>3, <2>4, <2>5 DEF CellOK
<1> QED BY <1>2, <1>3, Zenon DEF Filled

\* Some values fewer in a container.
LEMMA EmptiedFacts ==
  ASSUME NEW c, CellOK(c), IsInjective(c.vals), NEW d, NEW old, Emptied(c, d, old)
  PROVE  /\ CellOK(d) /\ d.parent = c.parent /\ d.type = c.type /\ d.capacity = c.capacity
         /\ Range(d.vals) = Range(c.vals) \ old /\ IsInjective(d.vals)
<1>0. c \in Cells /\ Fits(c) BY DEF CellOK
<1>1. /\ c.vals \in Seq(Nat) /\ c.names \in Seq(Seq(STRING)) /\ c.capacity \in Nat
      /\ Len(c.vals) \in Nat
  BY <1>0, CellFields
<1>2. CASE old = Range(c.vals) /\ d = [c EXCEPT !.names = <<>>, !.vals = <<>>]
  <2>1. /\ d.names = <<>> /\ d.vals = <<>> /\ d.capacity = c.capacity /\ d \in Cells
        /\ d.type = c.type /\ d.parent = c.parent
    <3> DEFINE u == <<>>
    <3>1. u \in Seq(Nat) /\ u \in Seq(Seq(STRING)) /\ d = [c EXCEPT !.names = u, !.vals = u]
      BY <1>2
    <3> HIDE DEF u
    <3>2. /\ d.names = u /\ d.vals = u /\ d.capacity = c.capacity /\ d \in Cells
          /\ d.type = c.type /\ d.parent = c.parent
      BY <3>1, <1>0 DEF Cells
    <3> QED BY <3>2 DEF u
  <2>2. Range(d.vals) = {} /\ IsInjective(d.vals) /\ IsInjective(d.names)
    BY <2>1 DEF Range, IsInjective
  <2>3. Fits(d) BY <2>1, <1>1 DEF Fits
  <2> QED BY <2>1, <2>2, <2>3, <1>2 DEF CellOK
<1>3. CASE \E i \in DOMAIN c.vals :
             /\ old = {c.vals[i]}
             /\ IF c.type = "object"
                THEN d = [c EXCEPT !.names = Without(@, i), !.vals = Without(@, i)]
                ELSE d = [c EXCEPT !.vals = RemoveAt(@, i)]
  <2>1. PICK i \in DOMAIN c.vals :
          /\ old = {c.vals[i]}
          /\ IF c.type = "object"
             THEN d = [c EXCEPT !.names = Without(@, i), !.vals = Without(@, i)]
             ELSE d = [c EXCEPT !.vals = RemoveAt(@, i)]
    BY <1>3
  <2>2. CASE c.type = "object"
    <3>1. /\ Without(c.vals, i) \in Seq(Nat) /\ Len(Without(c.vals, i)) = Len(c.vals) - 1
          /\ Range(Without(c.vals, i)) = Range(c.vals) \ {c.vals[i]}
          /\ IsInjective(Without(c.vals, i))
      BY <1>1, WithoutFacts
    <3>2. i \in DOMAIN c.names /\ IsInjective(c.names) /\ Len(c.names) = Len(c.vals)
      BY <2>2, <1>0, <1>1 DEF CellOK, Fits
    <3>3. /\ Without(c.names, i) \in Seq(Seq(STRING)) /\ Len(Without(c.names, i)) = Len(c.names) - 1
          /\ IsInjective(Without(c.names, i))
      BY <1>1, <3>2, WithoutFacts
    <3>4. /\ d.names = Without(c.names, i) /\ d.vals = Without(c.vals, i) /\ d.type = c.type
          /\ d.capacity = c.capacity /\ d.parent = c.parent /\ d \in Cells
      BY <2>1, <2>2, <3>1, <3>3, <1>0 DEF Cells
    <3>5. Fits(d) BY <3>1, <3>2, <3>3, <3>4, <1>0, <1>1, <2>2 DEF Fits
    <3> QED BY <2>1, <3>1, <3>3, <3>4, <3>5 DEF CellOK
  <2>3. CASE c.type # "object"
    <3>1. /\ RemoveAt(c.vals, i) \in Seq(Nat) /\ Len(RemoveAt(c.vals, i)) = Len(c.vals) - 1
          /\ Range(RemoveAt(c.vals, i)) = Range(c.vals) \ {c.vals[i]}
          /\ IsInjective(RemoveAt(c.vals, i))
      BY <1>1, RemoveAtFacts
    <3>2. /\ d.names = c.names /\ d.vals = RemoveAt(c.vals, i) /\ d.type = c.type
          /\ d.capacity = c.capacity /\ d.parent = c.parent /\ d \in Cells
      BY <2>1, <2>3, <3>1, <1>0 DEF Cells
    <3>3. Fits(d) BY <3>1, <3>2, <1>0, <1>1, <2>3 DEF Fits
    <3> QED BY <2>1, <2>3, <3>1, <3>2, <3>3 DEF CellOK
  <2> QED BY <2>2, <2>3
<1> QED BY <1>2, <1>3, Zenon DEF Emptied

(***************************************************************************)
(* The contract keeps the values well formed                               *)
(***************************************************************************)

\* The values in S are well formed, and what is in them knows that it is.
Sound(h, S) == \A x \in S : /\ CellOK(h.cells[x])
                            /\ \A y \in Kids(h, x) : h.cells[y].parent = x

\* All that WellFormed and ParentsMatch say, of any heap.
Whole(h, H, R) ==
  /\ DOMAIN h.cells \subseteq Nat \ {NULL} /\ IsFiniteSet(DOMAIN h.cells)
  /\ h.cells = [x \in DOMAIN h.cells |-> h.cells[x]]
  /\ Sound(h, DOMAIN h.cells) /\ Forest(h, H)
  /\ R \subseteq H /\ \A x \in H : h.cells[x].parent # NULL => x \in R

LEMMA WholeIf ==
  ASSUME WellFormed, ParentsMatch
  PROVE  Whole(heap, held, refused)
<1>1. /\ Live \subseteq Nat \ {NULL} /\ IsFiniteSet(Live) /\ heap.cells \in [Live -> Cells]
      /\ refused \subseteq held /\ \A x \in Live : Fits(heap.cells[x])
  BY DEF WellFormed, TypeOK
<1>2. Forest(heap, held) BY DEF WellFormed, OneOwner, Forest, Live
<1>3. Sound(heap, Live)
  BY <1>1 DEF Sound, CellOK, WellFormed, NamesUnique, Objects, ParentsMatch
<1>4. \A x \in held : heap.cells[x].parent # NULL => x \in refused BY DEF ParentsMatch
<1>5. heap.cells = [x \in Live |-> heap.cells[x]] BY <1>1
<1> QED BY <1>1, <1>2, <1>3, <1>4, <1>5 DEF Whole, Live

LEMMA WholeThen ==
  ASSUME Whole(heap', held', refused')
  PROVE  WellFormed' /\ ParentsMatch'
<1>1. /\ Live' \subseteq Nat \ {NULL} /\ IsFiniteSet(Live') /\ Sound(heap', Live')
      /\ heap'.cells = [x \in Live' |-> heap'.cells[x]] /\ Forest(heap', held')
      /\ refused' \subseteq held'
      /\ \A x \in held' : heap'.cells[x].parent # NULL => x \in refused'
  BY DEF Whole, Live
<1>2. \A x \in Live' : /\ heap'.cells[x] \in Cells /\ Fits(heap'.cells[x])
                       /\ heap'.cells[x].type = "object" => IsInjective(heap'.cells[x].names)
                       /\ \A y \in Kids(heap', x) : heap'.cells[y].parent = x
  BY <1>1 DEF Sound, CellOK
<1>3. held' \subseteq Live' BY <1>1, ForestFacts DEF Live
<1>4. TypeOK'
  <2>1. heap'.cells \in [Live' -> Cells] BY <1>1, <1>2
  <2> QED BY <2>1, <1>1, <1>2, <1>3 DEF TypeOK
<1>5. OneOwner' BY <1>1 DEF OneOwner, Forest, Live
<1>6. NamesUnique' BY <1>2 DEF NamesUnique, Objects
<1>7. ParentsMatch' BY <1>1, <1>2 DEF ParentsMatch
<1> QED BY <1>4, <1>5, <1>6, <1>7 DEF WellFormed

\* What a value knows by itself does not change while its cell does not.
LEMMA WholeFacts ==
  ASSUME NEW h, NEW H, NEW R, Whole(h, H, R)
  PROVE  /\ DOMAIN h.cells \subseteq Nat \ {NULL} /\ IsFiniteSet(DOMAIN h.cells)
         /\ Forest(h, H) /\ R \subseteq H /\ H \subseteq DOMAIN h.cells
         /\ \A x \in DOMAIN h.cells : /\ CellOK(h.cells[x]) /\ IsInjective(h.cells[x].vals)
                                      /\ Kids(h, x) \subseteq DOMAIN h.cells
                                      /\ \A y \in Kids(h, x) : h.cells[y].parent = x /\ y \notin H
         /\ \A x \in H : h.cells[x].parent # NULL => x \in R
<1>1. Forest(h, H) /\ Sound(h, DOMAIN h.cells) BY DEF Whole
<1>2. /\ H \subseteq DOMAIN h.cells /\ KidsLive(h)
      /\ \A x \in DOMAIN h.cells : \A y \in Kids(h, x) : y \notin H
      /\ \A x \in DOMAIN h.cells : IsInjective(h.cells[x].vals)
  BY <1>1, ForestFacts
<1> QED BY <1>1, <1>2 DEF Whole, Sound, KidsLive

\* The cells of IsTree are what Sound asks for.
LEMMA TreeFacts ==
  ASSUME NEW h, NEW T, NEW r, NEW p, IsTree(h, T, r, p)
  PROVE  /\ T \subseteq Nat \ {NULL} /\ IsFiniteSet(T) /\ Sound(h, T) /\ r \in T
         /\ IsForest(h, T, {r}) /\ h.cells[r].parent = p
         /\ \A x \in T : Kids(h, x) \subseteq T
<1>1. /\ T \subseteq Nat \ {NULL} /\ IsFiniteSet(T)
      /\ IsForest(h, T, {r}) /\ h.cells[r].parent = p
  BY Zenon DEF IsTree
<1>2. \A x \in T : /\ h.cells[x] \in Cells /\ Fits(h.cells[x])
                   /\ h.cells[x].type = "object" => IsInjective(h.cells[x].names)
                   /\ \A y \in Kids(h, x) : h.cells[y].parent = x
  BY Zenon DEF IsTree
<1>3. r \in T /\ \A x \in T : Kids(h, x) \subseteq T BY <1>1 DEF IsForest, EachOnce
<1> QED BY <1>1, <1>2, <1>3 DEF Sound, CellOK

\* The cells of the values in S are as they were, and so is what they have in
\* them and, where that is the same, what it knows.
LEMMA SameSound ==
  ASSUME NEW S, Same(S), NEW x \in S
  PROVE  Kids(heap', x) = Kids(heap, x) /\ heap'.cells[x] = heap.cells[x]
BY DEF Same, Kids

LEMMA MakeWhole ==
  ASSUME NEW h, NEW H, NEW R, Whole(h, H, R), NEW g, NEW T, T \cap DOMAIN h.cells = {}, NEW r,
         DOMAIN g.cells = DOMAIN h.cells \cup T, \A x \in DOMAIN h.cells : g.cells[x] = h.cells[x],
         g.cells = [x \in DOMAIN g.cells |-> g.cells[x]], IsTree(g, T, r, NULL)
  PROVE  Whole(g, H \cup {r}, R)
<1> DEFINE D == DOMAIN h.cells
           E == DOMAIN g.cells
<1>1. /\ D \subseteq Nat \ {NULL} /\ IsFiniteSet(D) /\ Forest(h, H)
      /\ R \subseteq H /\ H \subseteq D
      /\ \A x \in D : /\ CellOK(h.cells[x]) /\ Kids(h, x) \subseteq D
                      /\ \A y \in Kids(h, x) : h.cells[y].parent = x
      /\ \A x \in H : h.cells[x].parent # NULL => x \in R
  BY WholeFacts
<1>2. /\ T \subseteq Nat \ {NULL} /\ IsFiniteSet(T) /\ Sound(g, T) /\ r \in T
      /\ IsForest(g, T, {r}) /\ g.cells[r].parent = NULL
  BY TreeFacts
<1>3. E \subseteq Nat \ {NULL} /\ IsFiniteSet(E)
  <2>1. IsFiniteSet(D \cup T) BY <1>1, <1>2, FS_Union
  <2> QED BY <2>1, <1>1, <1>2
<1>4. \A x \in D : Kids(g, x) = Kids(h, x) /\ g.cells[x] = h.cells[x] BY DEF Kids
<1>5. Sound(g, E)
  <2>1. Sound(g, D) BY <1>1, <1>4 DEF Sound
  <2> QED BY <2>1, <1>2 DEF Sound
<1>6. Forest(g, H \cup {r})
  <2>1. SameKids(h, g, DOMAIN h.cells) BY DEF SameKids
  <2> QED BY <2>1, <1>1, <1>2, MakeForest
<1>7. R \subseteq H \cup {r} /\ \A x \in H \cup {r} : g.cells[x].parent # NULL => x \in R
  BY <1>1, <1>2, <1>4
<1> QED BY <1>3, <1>5, <1>6, <1>7 DEF Whole

LEMMA MakeKeeps ==
  ASSUME Whole(heap, held, refused), Make,
         heap'.cells = [x \in Live' |-> heap'.cells[x]]
  PROVE  Whole(heap', held', refused')
<1>1. PICK r \in New : /\ Live \subseteq Live' /\ Same(Live)
                       /\ IsTree(heap', New, r, NULL)
                       /\ held' = held \cup {r} /\ refused' = refused
  BY Zenon DEF Make
<1>2. DOMAIN heap'.cells = DOMAIN heap.cells \cup New /\ New \cap DOMAIN heap.cells = {}
  BY <1>1 DEF New, Live
<1>3. \A x \in DOMAIN heap.cells : heap'.cells[x] = heap.cells[x] BY <1>1 DEF Same, Live
<1>4. heap'.cells = [x \in DOMAIN heap'.cells |-> heap'.cells[x]] BY DEF Live
<1>5. Whole(heap', held \cup {r}, refused) BY <1>1, <1>2, <1>3, <1>4, MakeWhole
<1> QED BY <1>1, <1>5

LEMMA FailKeeps ==
  ASSUME Whole(heap, held, refused), Fail,
         heap'.cells = [x \in Live' |-> heap'.cells[x]]
  PROVE  Whole(heap', held', refused')
<1>1. /\ Live' = Live /\ held' = held /\ refused \subseteq refused' /\ refused' \subseteq held
      /\ \A v \in Live : LET c == heap.cells[v]
                             d == heap'.cells[v]
                         IN  /\ d = [c EXCEPT !.capacity = d.capacity, !.parent = d.parent]
                             /\ d.capacity \in Nat /\ d.capacity >= c.capacity
                             /\ d.parent # c.parent => v \in refused' /\ d.parent \in Nat
  BY Zenon DEF Fail
<1>2. /\ Live \subseteq Nat \ {NULL} /\ IsFiniteSet(Live) /\ Forest(heap, held)
      /\ held \subseteq Live
      /\ \A x \in Live : /\ CellOK(heap.cells[x])
                         /\ Kids(heap, x) \subseteq Live
                         /\ \A y \in Kids(heap, x) : heap.cells[y].parent = x /\ y \notin held
      /\ \A x \in held : heap.cells[x].parent # NULL => x \in refused
  BY WholeFacts DEF Live
<1>3. ASSUME NEW x \in Live
      PROVE  /\ CellOK(heap'.cells[x]) /\ heap'.cells[x].vals = heap.cells[x].vals
             /\ heap'.cells[x].parent # heap.cells[x].parent => x \in refused'
  <2> DEFINE c == heap.cells[x]
             d == heap'.cells[x]
  <2>1. /\ d = [c EXCEPT !.capacity = d.capacity, !.parent = d.parent]
        /\ d.capacity \in Nat /\ d.capacity >= c.capacity
        /\ d.parent # c.parent => x \in refused' /\ d.parent \in Nat
    BY <1>1
  <2>2. CellOK(c) BY <1>2
  <2> HIDE DEF c, d
  <2>3. c \in Cells /\ Fits(c) BY <2>2 DEF CellOK
  <2>4. c.capacity \in Nat /\ c.parent \in Nat /\ c.vals \in Seq(Nat) BY <2>3, CellFields
  <2>5. d.names = c.names /\ d.vals = c.vals /\ d.type = c.type
    <3> DEFINE k == d.capacity
               q == d.parent
    <3>1. d = [c EXCEPT !.capacity = k, !.parent = q] BY <2>1
    <3> HIDE DEF k, q
    <3> QED BY <3>1, <2>3 DEF Cells
  <2>6. d \in Cells
    <3> DEFINE k == d.capacity
               q == d.parent
    <3>1. d = [c EXCEPT !.capacity = k, !.parent = q] /\ k \in Nat /\ q \in Nat BY <2>1, <2>4
    <3> HIDE DEF k, q
    <3> QED BY <3>1, <2>3 DEF Cells
  <2>7. Fits(d) BY <2>1, <2>3, <2>4, <2>5 DEF Fits
  <2>8. CellOK(d) BY <2>2, <2>5, <2>6, <2>7 DEF CellOK
  <2> QED BY <2>1, <2>5, <2>8 DEF c, d
<1>4. \A x \in Live : Kids(heap', x) = Kids(heap, x) BY <1>3 DEF Kids
<1>5. Sound(heap', Live')
  <2>1. ASSUME NEW x \in Live, NEW y \in Kids(heap', x) PROVE heap'.cells[y].parent = x
    <3>1. y \in Live /\ heap.cells[y].parent = x /\ y \notin held BY <2>1, <1>2, <1>4
    <3> QED BY <3>1, <1>1, <1>3
  <2> QED BY <2>1, <1>1, <1>3 DEF Sound
<1>6. Forest(heap', held')
  <2>1. SameKids(heap, heap', DOMAIN heap.cells) BY <1>3 DEF SameKids, Live
  <2>2. DOMAIN heap'.cells = DOMAIN heap.cells BY <1>1 DEF Live
  <2>3. Forest(heap', held) BY <2>1, <2>2, <1>2, FailForest
  <2> QED BY <2>3, <1>1
<1>7. \A x \in held' : heap'.cells[x].parent # NULL => x \in refused'
  BY <1>1, <1>2, <1>3
<1> QED BY <1>1, <1>2, <1>5, <1>6, <1>7 DEF Whole, Live

LEMMA DiscardKeeps ==
  ASSUME Whole(heap, held, refused), NEW v \in held, Discard(v),
         heap'.cells = [x \in Live' |-> heap'.cells[x]]
  PROVE  Whole(heap', held', refused')
<1>1. /\ Live' = Live \ Below(heap, {v}) /\ Same(Live')
      /\ held' = held \ {v} /\ refused' = refused \ {v}
  BY DEF Discard
<1>2. /\ Live \subseteq Nat \ {NULL} /\ IsFiniteSet(Live) /\ Forest(heap, held)
      /\ refused \subseteq held /\ held \subseteq Live
      /\ \A x \in Live : /\ CellOK(heap.cells[x]) /\ Kids(heap, x) \subseteq Live
                         /\ \A y \in Kids(heap, x) : heap.cells[y].parent = x
      /\ \A x \in held : heap.cells[x].parent # NULL => x \in refused
  BY WholeFacts DEF Live
<1>3. Live' \subseteq Nat \ {NULL} /\ IsFiniteSet(Live')
  <2>1. Live' \subseteq Live BY <1>1
  <2> QED BY <2>1, <1>2, FS_Subset
<1>4. \A x \in Live' : Kids(heap', x) = Kids(heap, x) /\ heap'.cells[x] = heap.cells[x]
  BY <1>1, SameSound
<1>5. Forest(heap', held')
  <2>1. SameKids(heap, heap', DOMAIN heap'.cells) BY <1>4 DEF SameKids, Live
  <2>2. DOMAIN heap'.cells = DOMAIN heap.cells \ Below(heap, {v}) BY <1>1 DEF Live
  <2>3. Forest(heap', held \ {v}) BY <2>1, <2>2, <1>2, DiscardForest
  <2> QED BY <2>3, <1>1
<1>6. Sound(heap', Live')
  <2>1. ASSUME NEW x \in Live', NEW y \in Kids(heap', x) PROVE heap'.cells[y].parent = x
    <3>1. y \in Live' BY <1>5, <2>1, ForestFacts DEF KidsLive, Live
    <3>2. x \in Live BY <1>1
    <3> QED BY <3>1, <3>2, <2>1, <1>2, <1>4
  <2>2. \A x \in Live' : CellOK(heap'.cells[x]) BY <1>1, <1>2, <1>4
  <2> QED BY <2>1, <2>2 DEF Sound
<1>7. refused' \subseteq held' /\ \A x \in held' : heap'.cells[x].parent # NULL => x \in refused'
  <2>1. held' \subseteq Live' BY <1>5, ForestFacts DEF Live
  <2> QED BY <2>1, <1>1, <1>2, <1>4
<1> QED BY <1>3, <1>5, <1>6, <1>7 DEF Whole, Live

LEMMA CutKeeps ==
  ASSUME Whole(heap, held, refused), NEW o \in Live, NEW old, old \subseteq Kids(heap, o),
         Cut(o, old), heap'.cells = [x \in Live' |-> heap'.cells[x]]
  PROVE  Whole(heap', held', refused')
<1>1. /\ Live' = Live \ Below(heap, old) /\ Same(Live' \ {o})
      /\ Emptied(heap.cells[o], heap'.cells[o], old)
      /\ held' = held /\ refused' = refused
  BY DEF Cut
<1>2. /\ Live \subseteq Nat \ {NULL} /\ IsFiniteSet(Live) /\ Forest(heap, held)
      /\ refused \subseteq held /\ held \subseteq Live
      /\ \A x \in Live : /\ CellOK(heap.cells[x]) /\ IsInjective(heap.cells[x].vals)
                         /\ \A y \in Kids(heap, x) : heap.cells[y].parent = x
      /\ \A x \in held : heap.cells[x].parent # NULL => x \in refused
  BY WholeFacts DEF Live
<1>3. Live' \subseteq Nat \ {NULL} /\ IsFiniteSet(Live')
  <2>1. Live' \subseteq Live BY <1>1
  <2> QED BY <2>1, <1>2, FS_Subset
<1>4. \A x \in Live' \ {o} : Kids(heap', x) = Kids(heap, x) /\ heap'.cells[x] = heap.cells[x]
  BY <1>1, SameSound
<1>5. /\ CellOK(heap'.cells[o]) /\ heap'.cells[o].parent = heap.cells[o].parent
      /\ Kids(heap', o) = Kids(heap, o) \ old /\ IsInjective(heap'.cells[o].vals)
  <2> DEFINE c == heap.cells[o]
             d == heap'.cells[o]
  <2>1. CellOK(c) /\ IsInjective(c.vals) /\ Emptied(c, d, old) BY <1>1, <1>2
  <2> HIDE DEF c, d
  <2>2. /\ CellOK(d) /\ d.parent = c.parent
        /\ Range(d.vals) = Range(c.vals) \ old /\ IsInjective(d.vals)
    BY <2>1, EmptiedFacts
  <2> QED BY <2>2 DEF c, d, Kids
<1>6. Forest(heap', held')
  <2>1. SameKids(heap, heap', DOMAIN heap'.cells \ {o}) BY <1>4 DEF SameKids, Live
  <2>2. DOMAIN heap'.cells = DOMAIN heap.cells \ Below(heap, old) /\ o \in DOMAIN heap.cells
    BY <1>1 DEF Live
  <2>3. Forest(heap', held) BY <2>1, <2>2, <1>2, <1>5, CutForest
  <2> QED BY <2>3, <1>1
<1>7. \A x \in Live' : /\ heap'.cells[x].parent = heap.cells[x].parent
                       /\ Kids(heap', x) \subseteq Kids(heap, x) /\ CellOK(heap'.cells[x])
  <2> SUFFICES ASSUME NEW x \in Live'
               PROVE  /\ heap'.cells[x].parent = heap.cells[x].parent
                      /\ Kids(heap', x) \subseteq Kids(heap, x) /\ CellOK(heap'.cells[x])
    OBVIOUS
  <2>1. CASE x = o BY <2>1, <1>5
  <2>2. CASE x # o BY <2>2, <1>1, <1>2, <1>4
  <2> QED BY <2>1, <2>2
<1>8. Sound(heap', Live')
  <2>1. ASSUME NEW x \in Live', NEW y \in Kids(heap', x) PROVE heap'.cells[y].parent = x
    <3>1. y \in Live' BY <1>6, <2>1, ForestFacts DEF KidsLive, Live
    <3>2. x \in Live /\ y \in Kids(heap, x) BY <1>1, <1>7, <2>1
    <3> QED BY <3>1, <3>2, <1>2, <1>7
  <2> QED BY <2>1, <1>7 DEF Sound
<1>9. \A x \in held' : heap'.cells[x].parent # NULL => x \in refused'
  <2>1. held' \subseteq Live' BY <1>6, ForestFacts DEF Live
  <2> QED BY <2>1, <1>1, <1>2, <1>7
<1> QED BY <1>1, <1>2, <1>3, <1>6, <1>8, <1>9 DEF Whole, Live

LEMMA PutKeeps ==
  ASSUME Whole(heap, held, refused), NEW o \in Live, NEW v, v \subseteq held,
         NEW old, old \subseteq Kids(heap, o), Put(o, v, old),
         heap'.cells = [x \in Live' |-> heap'.cells[x]]
  PROVE  Whole(heap', held', refused')
<1> DEFINE B == Below(heap, old)
           V == Below(heap, v)
           T == New \cup V
           K == Live \ (B \cup V)
<1>1. /\ o \notin V /\ Live' = (Live \ B) \cup New /\ Same(Live \ (B \cup v \cup {o}))
      /\ held' = held \ v /\ refused' = refused \ v
  BY DEF Put
<1>2. PICK w \in New \cup v : /\ IsTree(heap', T, w, o)
                              /\ Filled(heap.cells[o], heap'.cells[o], w, old)
  BY Zenon DEF Put
<1>3. /\ Live \subseteq Nat \ {NULL} /\ IsFiniteSet(Live) /\ Forest(heap, held)
      /\ refused \subseteq held /\ held \subseteq Live
      /\ \A x \in Live : /\ CellOK(heap.cells[x]) /\ IsInjective(heap.cells[x].vals)
                         /\ Kids(heap, x) \subseteq Live
                         /\ \A y \in Kids(heap, x) : heap.cells[y].parent = x /\ y \notin held
      /\ \A x \in held : heap.cells[x].parent # NULL => x \in refused
  BY WholeFacts DEF Live
<1>4. /\ T \subseteq Nat \ {NULL} /\ IsFiniteSet(T) /\ Sound(heap', T) /\ w \in T
      /\ IsForest(heap', T, {w}) /\ heap'.cells[w].parent = o
      /\ \A x \in T : Kids(heap', x) \subseteq T
  BY <1>2, TreeFacts
<1>5. /\ B \subseteq Live /\ old \subseteq B /\ o \notin B /\ B \cap held = {}
      /\ V \subseteq Live /\ v \subseteq V /\ V \cap held = v /\ V \cap B = {}
      /\ New \cap Live = {}
  <2>1. o \notin B /\ B \cap held = {} BY <1>3, OnlyFromAbove DEF Live
  <2>2. B \subseteq Live /\ old \subseteq B
    BY <1>3, OnlyFromAbove, BelowClosed, ForestFacts DEF Live
  <2>3. V \subseteq Live /\ v \subseteq V /\ V \cap held = v BY <1>3, TreesApart DEF Live
  <2>4. V \cap B = {} BY <1>1, <1>3, TreesDisjoint DEF Live
  <2> QED BY <2>1, <2>2, <2>3, <2>4 DEF New
<1> HIDE DEF B, V
<1>6. /\ Live' = K \cup T /\ o \in K /\ K \cap T = {} BY <1>1, <1>5
<1>7. \A x \in K \ {o} : Kids(heap', x) = Kids(heap, x) /\ heap'.cells[x] = heap.cells[x]
  <2>1. \A x \in K \ {o} : x \in Live \ (B \cup v \cup {o}) BY <1>5
  <2> QED BY <2>1, <1>1, SameSound
<1>8. w \notin Range(heap.cells[o].vals) /\ w \in Nat
  <2>1. w \notin Kids(heap, o) BY <1>2, <1>3, <1>5
  <2> QED BY <2>1, <1>4 DEF Kids
<1>9. /\ CellOK(heap'.cells[o]) /\ heap'.cells[o].parent = heap.cells[o].parent
      /\ Kids(heap', o) = (Kids(heap, o) \ old) \cup {w} /\ IsInjective(heap'.cells[o].vals)
  <2> DEFINE c == heap.cells[o]
             d == heap'.cells[o]
  <2>1. CellOK(c) /\ IsInjective(c.vals) /\ Filled(c, d, w, old) /\ w \notin Range(c.vals)
    BY <1>2, <1>3, <1>8
  <2> HIDE DEF c, d
  <2>2. /\ CellOK(d) /\ d.parent = c.parent
        /\ Range(d.vals) = (Range(c.vals) \ old) \cup {w} /\ IsInjective(d.vals)
    BY <2>1, <1>8, FilledFacts
  <2> QED BY <2>2 DEF c, d, Kids
<1>10. Forest(heap', held')
  <2>1. SameKids(heap, heap', DOMAIN heap.cells \ (B \cup V \cup {o}))
    <3>1. \A x \in Live \ (B \cup V \cup {o}) : heap'.cells[x].vals = heap.cells[x].vals BY <1>7
    <3> QED BY <3>1 DEF SameKids, Live
  <2>2. DOMAIN heap'.cells = (DOMAIN heap.cells \ B) \cup New /\ o \in DOMAIN heap.cells
    BY <1>1 DEF Live
  <2>3. New \cap DOMAIN heap.cells = {} BY DEF New, Live
  <2>4. Forest(heap', held \ v)
    BY <2>1, <2>2, <2>3, <1>1, <1>3, <1>4, <1>9, PutForest DEF B, V
  <2> QED BY <2>4, <1>1
<1>11. /\ \A x \in K : heap'.cells[x].parent = heap.cells[x].parent /\ CellOK(heap'.cells[x])
       /\ \A x \in K : Kids(heap', x) \ {w} \subseteq K /\ Kids(heap', x) \ {w} \subseteq Kids(heap, x)
  <2> SUFFICES ASSUME NEW x \in K
               PROVE  /\ heap'.cells[x].parent = heap.cells[x].parent /\ CellOK(heap'.cells[x])
                      /\ Kids(heap', x) \ {w} \subseteq K
                      /\ Kids(heap', x) \ {w} \subseteq Kids(heap, x)
    OBVIOUS
  <2>1. x \in DOMAIN heap.cells \ V /\ x \in DOMAIN heap.cells \ B BY DEF Live
  <2>2. Kids(heap, x) \cap V = {} BY <2>1, <1>3, TreesApart DEF V
  <2>3. \A y \in Kids(heap, x) : y \in B => x = o /\ y \in old
    BY <2>1, <1>3, OnlyFromAbove DEF B, Live
  <2>4. CASE x = o
    <3>1. Kids(heap', x) \ {w} \subseteq Kids(heap, x) \ old BY <2>4, <1>9
    <3>2. Kids(heap, x) \ old \subseteq K BY <2>2, <2>3, <1>3
    <3> QED BY <2>4, <3>1, <3>2, <1>9
  <2>5. CASE x # o
    <3>1. Kids(heap', x) = Kids(heap, x) /\ heap'.cells[x] = heap.cells[x] BY <2>5, <1>7
    <3>2. Kids(heap, x) \subseteq K BY <2>2, <2>3, <2>5, <1>3
    <3> QED BY <3>1, <3>2, <1>3
  <2> QED BY <2>4, <2>5
<1>12. Sound(heap', Live')
  <2>1. ASSUME NEW x \in K, NEW y \in Kids(heap', x) PROVE heap'.cells[y].parent = x
    <3>1. CASE y = w
      <4>1. x = o
        <5>1. CASE x # o
          <6>1. w \in Kids(heap, x) BY <3>1, <5>1, <1>7, <2>1
          <6> QED BY <6>1, <1>2, <1>3, <1>5
        <5> QED BY <5>1
      <4> QED BY <3>1, <4>1, <1>4
    <3>2. CASE y # w
      <4>1. y \in K /\ y \in Kids(heap, x) /\ x \in Live BY <3>2, <2>1, <1>11
      <4> QED BY <4>1, <1>3, <1>11
    <3> QED BY <3>1, <3>2
  <2>2. Sound(heap', K) BY <2>1, <1>11 DEF Sound
  <2> QED BY <2>2, <1>4, <1>6 DEF Sound
<1>13. Live' \subseteq Nat \ {NULL} /\ IsFiniteSet(Live')
  <2>1. IsFiniteSet(K) BY <1>3, FS_Subset
  <2>2. IsFiniteSet(K \cup T) BY <2>1, <1>4, FS_Union
  <2> QED BY <2>2, <1>3, <1>4, <1>6
<1>14. /\ refused' \subseteq held'
       /\ \A x \in held' : heap'.cells[x].parent # NULL => x \in refused'
  <2>1. held' \subseteq K BY <1>1, <1>3, <1>5
  <2> QED BY <2>1, <1>1, <1>3, <1>11
<1> QED BY <1>10, <1>12, <1>13, <1>14 DEF Whole, Live

\* Every step of the contract keeps the values whole.
LEMMA KeepsWhole ==
  ASSUME WellFormed, ParentsMatch, [Keeps]_vars
  PROVE  WellFormed' /\ ParentsMatch'
<1>1. Whole(heap, held, refused) BY WholeIf
<1>2. CASE Keeps
  <2>1. heap'.cells = [x \in Live' |-> heap'.cells[x]] BY <1>2, Zenon DEF Keeps
  <2>2. CASE Make BY <1>1, <2>1, <2>2, MakeKeeps, WholeThen
  <2>3. CASE Fail BY <1>1, <2>1, <2>3, FailKeeps, WholeThen
  <2>4. ASSUME NEW o \in Live, NEW v \in None(held), NEW old \in None(Kids(heap, o)), Put(o, v, old)
        PROVE  WellFormed' /\ ParentsMatch'
    <3>1. v \subseteq held /\ old \subseteq Kids(heap, o) BY DEF None
    <3> QED BY <1>1, <2>1, <2>4, <3>1, PutKeeps, WholeThen
  <2>5. ASSUME NEW o \in Live, NEW old \in Removed(o), Cut(o, old)
        PROVE  WellFormed' /\ ParentsMatch'
    <3>1. old \subseteq Kids(heap, o) BY DEF None, Removed
    <3> QED BY <1>1, <2>1, <2>5, <3>1, CutKeeps, WholeThen
  <2>6. ASSUME NEW v \in held, Discard(v) PROVE WellFormed' /\ ParentsMatch'
    BY <1>1, <2>1, <2>6, DiscardKeeps, WholeThen
  <2> QED BY <1>2, <2>2, <2>3, <2>4, <2>5, <2>6, Zenon DEF Keeps
<1>3. CASE UNCHANGED vars
  <2>1. heap' = heap /\ held' = held /\ refused' = refused BY <1>3 DEF vars
  <2>2. Whole(heap', held', refused') BY <1>1, <2>1
  <2> QED BY <2>2, WholeThen
<1> QED BY <1>2, <1>3

\* A program without values is whole.
LEMMA InitWhole ==
  ASSUME Init
  PROVE  WellFormed /\ ParentsMatch
<1>1. DOMAIN heap.cells = {} /\ held = {} /\ refused = {}
  BY DEF Init
<1>2. Live = {} /\ IsFiniteSet(Live) BY <1>1, FS_EmptySet DEF Live
<1>3. heap.cells \in [Live -> Cells]
  <2>1. heap.cells = <<>> BY DEF Init
  <2> QED BY <2>1, <1>2
<1>4. TypeOK BY <1>1, <1>2, <1>3 DEF TypeOK
<1>5. OneOwner
  <2>1. EachOnce(heap, {}, {}) BY Zenon DEF EachOnce
  <2>2. Below(heap, {}) = {} BY <1>1 DEF Below
  <2> QED BY <2>1, <2>2, <1>1, <1>2 DEF OneOwner, IsForest
<1>6. NamesUnique BY <1>2 DEF NamesUnique, Objects
<1> QED BY <1>1, <1>2, <1>4, <1>5, <1>6 DEF WellFormed, ParentsMatch

\* Whatever a program calls, as long as each call keeps to what parson.h promises:
\* its values are trees, each value in one place, each name for one value.
THEOREM ContractWellFormed == Contract => []WellFormed
<1>1. Init => WellFormed /\ ParentsMatch BY InitWhole
<1>2. WellFormed /\ ParentsMatch /\ [Keeps]_vars => WellFormed' /\ ParentsMatch' BY KeepsWhole
<1> QED BY <1>1, <1>2, PTL DEF Contract

\* And each of them knows the object or array that it is in.
THEOREM ContractParentsMatch == Contract => []ParentsMatch
<1>1. Init => WellFormed /\ ParentsMatch BY InitWhole
<1>2. WellFormed /\ ParentsMatch /\ [Keeps]_vars => WellFormed' /\ ParentsMatch' BY KeepsWhole
<1> QED BY <1>1, <1>2, PTL DEF Contract

(***************************************************************************)
(* What the functions of JsonHeap make of the cells of a heap              *)
(***************************************************************************)

\* A heap is a record of four things.
IsHeap(h) == h = [cells |-> h.cells, blocks |-> h.blocks, lost |-> h.lost, fuel |-> h.fuel]

LEMMA CellsField ==
  ASSUME NEW h, IsHeap(h), NEW x, NEW g, g = [h EXCEPT !.cells = x]
  PROVE  IsHeap(g) /\ g.cells = x
BY DEF IsHeap

LEMMA BlocksField ==
  ASSUME NEW h, IsHeap(h), NEW x, NEW g, g = [h EXCEPT !.blocks = x]
  PROVE  IsHeap(g) /\ g.cells = h.cells
BY DEF IsHeap

LEMMA FuelField ==
  ASSUME NEW h, IsHeap(h), NEW x, NEW g, g = [h EXCEPT !.fuel = x]
  PROVE  IsHeap(g) /\ g.cells = h.cells
BY DEF IsHeap

\* The memory that is had or freed leaves the cells alone.
LEMMA MemoryFacts ==
  ASSUME NEW h, IsHeap(h), NEW n
  PROVE  /\ IsHeap(Take(h, n)) /\ Take(h, n).cells = h.cells
         /\ IsHeap(Spent(h)) /\ Spent(h).cells = h.cells
         /\ IsHeap(Release(h, n)) /\ Release(h, n).cells = h.cells
<1>1. IsHeap(Spent(h)) /\ Spent(h).cells = h.cells
  BY FuelField DEF Spent
<1>2. IsHeap(Release(h, n)) /\ Release(h, n).cells = h.cells
  BY BlocksField DEF Release
<1>3. IsHeap(Take(h, n)) /\ Take(h, n).cells = h.cells
  <2> DEFINE k == [h EXCEPT !.fuel = h.fuel - n]
  <2>1. IsHeap(k) /\ k.cells = h.cells BY FuelField
  <2>2. Take(h, n) = [k EXCEPT !.blocks = h.blocks + n] BY DEF Take
  <2> HIDE DEF k
  <2> QED BY <2>1, <2>2, BlocksField
<1> QED BY <1>1, <1>2, <1>3

\* What is below some values depends on the cells alone.
LEMMA SameCells ==
  ASSUME NEW h, NEW g, g.cells = h.cells
  PROVE  /\ \A x : Kids(g, x) = Kids(h, x)
         /\ \A S : Below(g, S) = Below(h, S)
         /\ \A T, S : EachOnce(g, T, S) <=> EachOnce(h, T, S)
         /\ \A H, R : Whole(h, H, R) => Whole(g, H, R)
<1>1. \A x : Kids(g, x) = Kids(h, x) BY DEF Kids
<1>2. \A S : Closed(g, S) <=> Closed(h, S) BY <1>1, Zenon DEF Closed
<1>3. \A S : Below(g, S) = Below(h, S) BY <1>2, Zenon DEF Below
<1>4. \A T, S : EachOnce(g, T, S) <=> EachOnce(h, T, S) BY <1>1, Zenon DEF EachOnce
<1>5. ASSUME NEW H, NEW R, Whole(h, H, R) PROVE Whole(g, H, R)
  <2>1. Sound(g, DOMAIN g.cells) BY <1>1, <1>5 DEF Whole, Sound
  <2>2. Forest(g, H) BY <1>3, <1>4, <1>5 DEF Whole, Forest, IsForest
  <2> QED BY <2>1, <2>2, <1>5 DEF Whole
<1> QED BY <1>1, <1>3, <1>4, <1>5

\* The blocks a heap has after malloc() and free().
LEMMA MemoryBlocks ==
  ASSUME NEW h, IsHeap(h), NEW n
  PROVE  /\ Take(h, n).blocks = h.blocks + n /\ Take(h, n).lost = h.lost
         /\ Spent(h).blocks = h.blocks /\ Spent(h).lost = h.lost
         /\ Release(h, n).blocks = h.blocks - n /\ Release(h, n).lost = h.lost
BY DEF IsHeap, Take, Spent, Release
LEMMA CellsBlocks ==
  ASSUME NEW h, IsHeap(h), NEW x, NEW g, g = [h EXCEPT !.cells = x]
  PROVE  g.blocks = h.blocks /\ g.lost = h.lost
BY DEF IsHeap

\* The blocks of some values, one by one.
Places(h, T) == UNION {{v} \X (1 .. Owned(h.cells[v])) : v \in T}

Counted(h, T) == \A v \in T : Owned(h.cells[v]) \in Nat

LEMMA PlacesFinite ==
  ASSUME NEW h, NEW T, IsFiniteSet(T), Counted(h, T)
  PROVE  IsFiniteSet(Places(h, T))
<1> DEFINE P == {{v} \X (1 .. Owned(h.cells[v])) : v \in T}
           f == [v \in T |-> {v} \X (1 .. Owned(h.cells[v]))]
<1>1. f \in Surjection(T, P) BY DEF Surjection
<1>2. IsFiniteSet(P) BY <1>1, FS_Surjection
<1>3. ASSUME NEW v \in T PROVE IsFiniteSet({v} \X (1 .. Owned(h.cells[v])))
  <2> DEFINE n == Owned(h.cells[v])
  <2>1. n \in Int BY DEF Counted
  <2> HIDE DEF n
  <2>2. IsFiniteSet({v}) BY FS_Singleton
  <2>3. IsFiniteSet(1 .. n) BY <2>1, FS_Interval
  <2>4. IsFiniteSet({v} \X (1 .. n)) BY <2>2, <2>3, FS_Product
  <2> QED BY <2>4 DEF n
<1>4. \A S \in P : IsFiniteSet(S) BY <1>3
<1> HIDE DEF P
<1>5. IsFiniteSet(UNION P) BY <1>2, <1>4, FS_UNION
<1> QED BY <1>5 DEF Places, P

LEMMA PlacesApart ==
  ASSUME NEW h, NEW T, NEW U, T \cap U = {}, IsFiniteSet(T), IsFiniteSet(U),
         Counted(h, T \cup U)
  PROVE  Cardinality(Places(h, T \cup U)) = Cardinality(Places(h, T)) + Cardinality(Places(h, U))
<1>1. Places(h, T \cup U) = Places(h, T) \cup Places(h, U) BY DEF Places
<1>2. Places(h, T) \cap Places(h, U) = {} BY DEF Places
<1>3. IsFiniteSet(Places(h, T)) /\ IsFiniteSet(Places(h, U)) BY PlacesFinite DEF Counted
<1> DEFINE P == Places(h, T)
           Q == Places(h, U)
<1>4. P \cap Q = {} /\ IsFiniteSet(P) /\ IsFiniteSet(Q) BY <1>2, <1>3
<1> HIDE DEF P, Q
<1>5. Cardinality(P \cup Q) = Cardinality(P) + Cardinality(Q) - Cardinality(P \cap Q)
  BY <1>4, FS_Union
<1>6. Cardinality(P \cap Q) = 0 BY <1>4, FS_EmptySet
<1>7. Cardinality(P) \in Nat /\ Cardinality(Q) \in Nat BY <1>4, FS_CardinalityType
<1>8. Cardinality(P \cup Q) = Cardinality(P) + Cardinality(Q) BY <1>5, <1>6, <1>7
<1> QED BY <1>1, <1>8 DEF P, Q

LEMMA PlacesOne ==
  ASSUME NEW h, NEW v, Owned(h.cells[v]) \in Nat
  PROVE  Cardinality(Places(h, {v})) = Owned(h.cells[v])
<1> DEFINE n == Owned(h.cells[v])
<1>1. Places(h, {v}) = {v} \X (1 .. n) BY DEF Places
<1>2. IsFiniteSet({v}) /\ Cardinality({v}) = 1 BY FS_Singleton
<1> HIDE DEF n
<1>3. n \in Nat BY DEF n
<1>4. IsFiniteSet(1 .. n) /\ Cardinality(1 .. n) = n BY <1>3, FS_Interval
<1>5. Cardinality({v} \X (1 .. n)) = Cardinality({v}) * Cardinality(1 .. n)
  BY <1>2, <1>4, FS_Product
<1>6. Cardinality({v} \X (1 .. n)) = n BY <1>2, <1>3, <1>4, <1>5
<1> QED BY <1>1, <1>6 DEF n

Some(s) == CHOOSE x \in s : TRUE
Summed(h, T, g) == g = [s \in SUBSET T |-> IF s = {} THEN 0
                                           ELSE Owned(h.cells[Some(s)]) + g[s \ {Some(s)}]]

LEMMA BlocksForm ==
  ASSUME NEW h, NEW T
  PROVE  Blocks(h, T) = (CHOOSE g : Summed(h, T, g))[T]
BY Zenon DEF Blocks, MapThenSumSet, MapThenFoldSet, Summed, Some

LEMMA BlocksCounted ==
  ASSUME NEW h, NEW T, IsFiniteSet(T), Counted(h, T)
  PROVE  Blocks(h, T) = Cardinality(Places(h, T))
<1> DEFINE c == [s \in SUBSET T |-> Cardinality(Places(h, s))]
<1>1. ASSUME NEW s \in SUBSET T, s # {}
      PROVE  /\ Some(s) \in s /\ s \ {Some(s)} \in SUBSET T
             /\ c[s] = Owned(h.cells[Some(s)]) + c[s \ {Some(s)}]
  <2> DEFINE x == Some(s)
             r == s \ {x}
  <2>1. x \in s BY <1>1 DEF Some
  <2> HIDE DEF x
  <2>2. {x} \cap r = {} /\ {x} \cup r = s /\ r \in SUBSET T BY <2>1
  <2>3. IsFiniteSet({x}) /\ IsFiniteSet(r) BY <2>2, FS_Singleton, FS_Subset
  <2>4. Counted(h, {x} \cup r) /\ Owned(h.cells[x]) \in Nat BY <2>1, <2>2 DEF Counted
  <2> HIDE DEF r
  <2>5. Cardinality(Places(h, s)) = Cardinality(Places(h, {x})) + Cardinality(Places(h, r))
    BY <2>2, <2>3, <2>4, PlacesApart
  <2>6. Cardinality(Places(h, {x})) = Owned(h.cells[x]) BY <2>4, PlacesOne
  <2> QED BY <2>1, <2>2, <2>5, <2>6 DEF x, r
<1>2. c[{}] = 0
  <2>1. Places(h, {}) = {} BY DEF Places
  <2> QED BY <2>1, FS_EmptySet
<1>3. Summed(h, T, c)
  <2>1. \A s \in SUBSET T : c[s] = IF s = {} THEN 0
                                   ELSE Owned(h.cells[Some(s)]) + c[s \ {Some(s)}]
    BY <1>1, <1>2
  <2>2. c = [s \in SUBSET T |-> c[s]] OBVIOUS
  <2> HIDE DEF c
  <2> QED BY <2>1, <2>2 DEF Summed
<1> DEFINE g == CHOOSE g : Summed(h, T, g)
<1>4. Summed(h, T, g)
  <2> HIDE DEF c, g
  <2> QED BY <1>3, Zenon DEF g
<1> HIDE DEF c, g
<1>5. \A s \in SUBSET T : g[s] = IF s = {} THEN 0
                                 ELSE Owned(h.cells[Some(s)]) + g[s \ {Some(s)}]
  BY <1>4 DEF Summed
<1> DEFINE R == StrictSubsetOrdering(T)
           W == {s \in SUBSET T : g[s] # c[s]}
<1>6. W = {}
  <2>1. SUFFICES ASSUME W # {} PROVE FALSE OBVIOUS
  <2>2. IsWellFoundedOn(R, SUBSET T)
    <3>1. IsWellFoundedOn(R, FiniteSubsetsOf(T)) BY FS_StrictSubsetOrderingWellFounded
    <3>2. FiniteSubsetsOf(T) = SUBSET T BY FS_FiniteSubsetsOfFinite
    <3> QED BY <3>1, <3>2
  <2>3. PICK s \in W : \A u \in W : ~ (<<u, s>> \in R)
    <3>1. W \subseteq SUBSET T OBVIOUS
    <3> HIDE DEF R, W
    <3> QED BY <2>1, <2>2, <3>1, WFMin, Zenon
  <2>4. s # {} BY <1>2, <1>5
  <2>5. Some(s) \in s /\ s \ {Some(s)} \in SUBSET T BY <1>1, <2>4
  <2>6. <<s \ {Some(s)}, s>> \in R BY <2>5 DEF StrictSubsetOrdering
  <2>7. s \ {Some(s)} \notin W BY <2>3, <2>6
  <2>8. g[s \ {Some(s)}] = c[s \ {Some(s)}] BY <2>5, <2>7
  <2>9. g[s] = c[s] BY <1>1, <1>5, <2>4, <2>5, <2>8
  <2> QED BY <2>9
<1>7. g[T] = c[T] BY <1>6
<1> QED BY <1>7, BlocksForm DEF g, c

\* The blocks of some values and of others, and of the same values elsewhere.
LEMMA BlocksApart ==
  ASSUME NEW h, NEW T, NEW U, T \cap U = {}, IsFiniteSet(T), IsFiniteSet(U),
         Counted(h, T \cup U)
  PROVE  Blocks(h, T \cup U) = Blocks(h, T) + Blocks(h, U)
<1>1. IsFiniteSet(T \cup U) BY FS_Union
<1>2. Counted(h, T) /\ Counted(h, U) BY DEF Counted
<1> QED BY <1>1, <1>2, BlocksCounted, PlacesApart

LEMMA BlocksOne ==
  ASSUME NEW h, NEW v, Owned(h.cells[v]) \in Nat
  PROVE  Blocks(h, {v}) = Owned(h.cells[v])
<1>1. IsFiniteSet({v}) /\ Counted(h, {v}) BY FS_Singleton DEF Counted
<1> QED BY <1>1, BlocksCounted, PlacesOne

LEMMA BlocksSame ==
  ASSUME NEW h, NEW g, NEW T, IsFiniteSet(T), Counted(h, T),
         \A v \in T : Owned(g.cells[v]) = Owned(h.cells[v])
  PROVE  Blocks(g, T) = Blocks(h, T)
<1>1. Counted(g, T) BY DEF Counted
<1>2. Places(g, T) = Places(h, T) BY DEF Places
<1> QED BY <1>1, <1>2, BlocksCounted

LEMMA BlocksNat ==
  ASSUME NEW h, NEW T, IsFiniteSet(T), Counted(h, T)
  PROVE  Blocks(h, T) \in Nat
<1>1. IsFiniteSet(Places(h, T)) BY PlacesFinite
<1> QED BY <1>1, BlocksCounted, FS_CardinalityType

\* What is in memory of a value.
LEMMA OwnedFacts ==
  ASSUME NEW c \in Cells
  PROVE  /\ Owned(c) \in Nat /\ Parts(c.type) \in Nat /\ Tables(c.type) \in Nat
         /\ Len(c.names) \in Nat
<1>1. Len(c.names) \in Nat BY CellFields
<1>2. Parts(c.type) \in Nat /\ Tables(c.type) \in Nat BY DEF Parts, Tables
<1> QED BY <1>1, <1>2 DEF Owned

\* All blocks are part of a value.
Exact(h) ==
  /\ IsFiniteSet(DOMAIN h.cells) /\ \A x \in DOMAIN h.cells : h.cells[x] \in Cells
  /\ h.blocks = Blocks(h, DOMAIN h.cells) /\ h.lost = 0

LEMMA ExactNat ==
  ASSUME NEW h, Exact(h)
  PROVE  h.blocks \in Nat
<1>1. Counted(h, DOMAIN h.cells) BY OwnedFacts DEF Exact, Counted
<1> QED BY <1>1, BlocksNat DEF Exact

LEMMA ExactSame ==
  ASSUME NEW h, Exact(h), NEW g, g.cells = h.cells, g.blocks = h.blocks, g.lost = h.lost
  PROVE  Exact(g)
<1>1. Counted(h, DOMAIN h.cells) BY OwnedFacts DEF Exact, Counted
<1>2. Blocks(g, DOMAIN h.cells) = Blocks(h, DOMAIN h.cells) BY <1>1, BlocksSame DEF Exact
<1> QED BY <1>2 DEF Exact

\* One value changes, and with it what it is made of.
LEMMA ExactChange ==
  ASSUME NEW h, Exact(h), NEW o \in DOMAIN h.cells, NEW g, DOMAIN g.cells = DOMAIN h.cells,
         \A x \in DOMAIN h.cells : g.cells[x] \in Cells,
         \A x \in DOMAIN h.cells \ {o} : Owned(g.cells[x]) = Owned(h.cells[x]),
         NEW n \in Int, Owned(g.cells[o]) = Owned(h.cells[o]) + n,
         g.blocks = h.blocks + n, g.lost = h.lost
  PROVE  Exact(g)
<1> DEFINE D == DOMAIN h.cells
           R == D \ {o}
<1>1. Counted(h, D) /\ Counted(g, D) BY OwnedFacts DEF Exact, Counted
<1>2. /\ R \cap {o} = {} /\ R \cup {o} = D /\ IsFiniteSet(D) /\ IsFiniteSet(R)
      /\ IsFiniteSet({o})
  BY FS_Subset, FS_Singleton DEF Exact
<1>3. Counted(h, R) /\ Owned(h.cells[o]) \in Nat /\ Owned(g.cells[o]) \in Nat
  BY <1>1 DEF Counted
<1>4. DOMAIN g.cells = D /\ \A x \in R : Owned(g.cells[x]) = Owned(h.cells[x]) OBVIOUS
<1>5. h.blocks = Blocks(h, D) /\ h.lost = 0 BY DEF Exact
<1> HIDE DEF D, R
<1>6. Blocks(h, D) = Blocks(h, R) + Owned(h.cells[o]) BY <1>1, <1>2, <1>3, BlocksApart, BlocksOne
<1>7. Blocks(g, D) = Blocks(g, R) + Owned(g.cells[o]) BY <1>1, <1>2, <1>3, BlocksApart, BlocksOne
<1>8. Blocks(g, R) = Blocks(h, R) /\ Blocks(h, R) \in Nat
  BY <1>2, <1>3, <1>4, BlocksSame, BlocksNat
<1>9. g.blocks = Blocks(g, D) BY <1>3, <1>5, <1>6, <1>7, <1>8
<1> QED BY <1>2, <1>4, <1>5, <1>9 DEF Exact, D

LEMMA ExactMore ==
  ASSUME NEW h, Exact(h), NEW v, v \notin DOMAIN h.cells, NEW c \in Cells,
         NEW g, g.cells = With(h.cells, v, c), g.blocks = h.blocks + Owned(c), g.lost = h.lost
  PROVE  Exact(g)
<1> DEFINE D == DOMAIN h.cells
<1>1. /\ DOMAIN g.cells = D \cup {v} /\ g.cells[v] = c
      /\ \A x \in D : g.cells[x] = h.cells[x]
  BY DEF With
<1>2. D \cap {v} = {} /\ IsFiniteSet(D) /\ IsFiniteSet({v}) /\ IsFiniteSet(D \cup {v})
  BY FS_Union, FS_Singleton DEF Exact
<1>3. \A x \in D \cup {v} : g.cells[x] \in Cells BY <1>1 DEF Exact
<1>4. Counted(h, D) /\ Counted(g, D \cup {v}) /\ Owned(g.cells[v]) \in Nat
  BY <1>1, <1>3, OwnedFacts DEF Exact, Counted
<1>5. h.blocks = Blocks(h, D) /\ h.lost = 0 BY DEF Exact
<1> HIDE DEF D
<1>6. Blocks(g, D \cup {v}) = Blocks(g, D) + Owned(c)
  <2>1. Blocks(g, D \cup {v}) = Blocks(g, D) + Blocks(g, {v}) BY <1>2, <1>4, BlocksApart
  <2>2. Blocks(g, {v}) = Owned(g.cells[v]) BY <1>4, BlocksOne
  <2> QED BY <2>1, <2>2, <1>1
<1>7. Blocks(g, D) = Blocks(h, D) BY <1>1, <1>2, <1>4, BlocksSame
<1> QED BY <1>1, <1>2, <1>3, <1>5, <1>6, <1>7 DEF Exact

LEMMA ExactLess ==
  ASSUME NEW h, Exact(h), NEW T, T \subseteq DOMAIN h.cells,
         NEW g, g.cells = [x \in DOMAIN h.cells \ T |-> h.cells[x]],
         g.blocks = h.blocks - Blocks(h, T), g.lost = h.lost
  PROVE  Exact(g)
<1> DEFINE D == DOMAIN h.cells
           R == D \ T
<1>1. DOMAIN g.cells = R /\ \A x \in R : g.cells[x] = h.cells[x] OBVIOUS
<1>2. /\ R \cap T = {} /\ R \cup T = D
      /\ IsFiniteSet(D) /\ IsFiniteSet(R) /\ IsFiniteSet(T)
  <2>1. IsFiniteSet(D) /\ T \in SUBSET D /\ R \in SUBSET D /\ R \cap T = {} /\ R \cup T = D
    BY DEF Exact
  <2> HIDE DEF D, R
  <2> QED BY <2>1, FS_Subset
<1>3. \A x \in R : g.cells[x] \in Cells BY <1>1 DEF Exact
<1>4. Counted(h, D) /\ Counted(h, R) /\ Counted(h, T)
  BY OwnedFacts DEF Exact, Counted
<1>5. h.blocks = Blocks(h, D) /\ h.lost = 0 BY DEF Exact
<1> HIDE DEF D, R
<1>6. Blocks(h, D) = Blocks(h, R) + Blocks(h, T) BY <1>2, <1>4, BlocksApart
<1>7. Blocks(g, R) = Blocks(h, R) BY <1>1, <1>2, <1>4, BlocksSame
<1>8. Blocks(h, R) \in Nat /\ Blocks(h, T) \in Nat BY <1>2, <1>4, BlocksNat
<1>9. g.blocks = Blocks(g, R) BY <1>5, <1>6, <1>7, <1>8
<1> QED BY <1>1, <1>2, <1>3, <1>5, <1>9 DEF Exact

\* There is a number for a new value.
LEMMA AddressFacts ==
  ASSUME NEW h, DOMAIN h.cells \subseteq Nat \ {NULL}, IsFiniteSet(DOMAIN h.cells)
  PROVE  Address(h) \in Nat \ {NULL} /\ Address(h) \notin DOMAIN h.cells
<1> DEFINE D == DOMAIN h.cells
           n == Cardinality(D) + 1
<1>1. n \in Nat /\ n > Cardinality(D) BY FS_CardinalityType
<1>2. \E x \in 1 .. n : x \notin D
  <2>1. CASE 1 .. n \subseteq D
    <3>1. Cardinality(1 .. n) <= Cardinality(D) BY <2>1, FS_Subset
    <3>2. Cardinality(1 .. n) = n BY <1>1, FS_Interval
    <3> QED BY <3>1, <3>2, <1>1, FS_CardinalityType
  <2> QED BY <2>1
<1>3. Address(h) = CHOOSE x \in 1 .. n : x \notin D BY DEF Address
<1> HIDE DEF n, D
<1>4. Address(h) \in 1 .. n /\ Address(h) \notin D BY <1>2, <1>3
<1> QED BY <1>1, <1>4 DEF D, NULL

\* A value is made alone, or it is not made.
LEMMA MadeFacts ==
  ASSUME NEW h, IsHeap(h), DOMAIN h.cells \subseteq Nat \ {NULL}, IsFiniteSet(DOMAIN h.cells),
         NEW type, NEW data, NEW r, r = json_value_init(h, type, data)
  PROVE  /\ IsHeap(r.h) /\ r = [h |-> r.h, v |-> r.v]
         /\ \/ r.v = NULL /\ r.h.cells = h.cells
            \/ /\ r.v \in Nat \ {NULL} /\ r.v \notin DOMAIN h.cells
               /\ r.h.cells = With(h.cells, r.v, Cell(type, data))
<1> DEFINE n == Parts(type)
           a == Address(h)
<1>1. CASE type = "string" /\ BAD \in Range(data)
  <2>1. r = [h |-> h, v |-> NULL] BY <1>1 DEF json_value_init, Made
  <2> QED BY <2>1
<1>2. CASE ~(type = "string" /\ BAD \in Range(data))
  <2>1. r = Place(h, n, type, data) BY <1>2 DEF json_value_init
  <2> HIDE DEF n
  <2>2. CASE HasMemory(h, n)
    <3> DEFINE m == Take(h, n)
               f == With(m.cells, a, Cell(type, data))
               k == [m EXCEPT !.cells = f]
    <3>1. r = [h |-> k, v |-> a] BY <2>1, <2>2 DEF Place, Made
    <3>2. IsHeap(m) /\ m.cells = h.cells BY MemoryFacts
    <3>3. IsHeap(k) /\ k.cells = f
      <4> HIDE DEF m, f
      <4>1. k = [m EXCEPT !.cells = f] OBVIOUS
      <4> HIDE DEF k
      <4> QED BY <3>2, <4>1, CellsField
    <3> HIDE DEF k
    <3>4. a \in Nat \ {NULL} /\ a \notin DOMAIN h.cells BY AddressFacts
    <3>5. f = With(h.cells, a, Cell(type, data)) BY <3>2
    <3> HIDE DEF a, f
    <3> QED BY <3>1, <3>3, <3>4, <3>5
  <2>3. CASE ~HasMemory(h, n)
    <3>1. r = [h |-> Spent(h), v |-> NULL] BY <2>1, <2>3 DEF Place, Made
    <3>2. IsHeap(Spent(h)) /\ Spent(h).cells = h.cells BY MemoryFacts
    <3> QED BY <3>1, <3>2
  <2> QED BY <2>2, <2>3
<1> QED BY <1>1, <1>2

\* A value that has nothing in it.
LEMMA NewCell ==
  ASSUME NEW type \in Types, NEW data \in Seq(STRING), NEW c, c = Cell(type, data)
  PROVE  /\ c \in Cells /\ Owned(c) = Parts(type)
         /\ c.type = type /\ c.parent = NULL /\ c.names = <<>> /\ c.vals = <<>>
         /\ c.capacity = 0
<1> DEFINE e == <<>>
<1>1. e \in Seq(Nat) /\ e \in Seq(Seq(STRING)) /\ Len(e) = 0 /\ NULL \in Nat BY DEF NULL
<1>2. c = [type |-> type, data |-> data, parent |-> NULL, names |-> e, vals |-> e, capacity |-> 0]
  BY DEF Cell
<1> HIDE DEF e
<1>3. /\ c \in Cells /\ c.type = type /\ c.parent = NULL /\ c.names = e /\ c.vals = e
      /\ c.capacity = 0
  BY <1>1, <1>2 DEF Cells
<1>4. Parts(type) \in Nat BY DEF Parts
<1>5. Owned(c) = Parts(type) BY <1>1, <1>3, <1>4 DEF Owned
<1> QED BY <1>3, <1>5 DEF e

LEMMA MadeExact ==
  ASSUME NEW h, IsHeap(h), Exact(h), DOMAIN h.cells \subseteq Nat \ {NULL},
         NEW type \in Types, NEW data \in Seq(STRING), NEW r, r = json_value_init(h, type, data)
  PROVE  Exact(r.h)
<1> DEFINE n == Parts(type)
           a == Address(h)
           c == Cell(type, data)
<1>1. CASE type = "string" /\ BAD \in Range(data)
  <2>1. r = [h |-> h, v |-> NULL] BY <1>1 DEF json_value_init, Made
  <2> QED BY <2>1
<1>2. CASE ~(type = "string" /\ BAD \in Range(data))
  <2>1. r = Place(h, n, type, data) BY <1>2 DEF json_value_init
  <2>2. c \in Cells /\ Owned(c) = n BY NewCell
  <2> HIDE DEF n, c
  <2>3. CASE HasMemory(h, n)
    <3> DEFINE m == Take(h, n)
               f == With(m.cells, a, c)
               k == [m EXCEPT !.cells = f]
    <3>1. r = [h |-> k, v |-> a] BY <2>1, <2>3 DEF Place, Made, c
    <3>2. IsHeap(m) /\ m.cells = h.cells /\ m.blocks = h.blocks + n /\ m.lost = h.lost
      BY MemoryFacts, MemoryBlocks
    <3>3. k.cells = f /\ k.blocks = m.blocks /\ k.lost = m.lost
      <4> HIDE DEF m, f
      <4>1. k = [m EXCEPT !.cells = f] OBVIOUS
      <4> HIDE DEF k
      <4> QED BY <3>2, <4>1, CellsField, CellsBlocks
    <3> HIDE DEF k
    <3>4. a \notin DOMAIN h.cells BY AddressFacts DEF Exact
    <3>5. f = With(h.cells, a, c) BY <3>2
    <3> HIDE DEF a, f, m
    <3>6. Exact(k) BY <2>2, <3>2, <3>3, <3>4, <3>5, ExactMore
    <3> QED BY <3>1, <3>6
  <2>4. CASE ~HasMemory(h, n)
    <3>1. r = [h |-> Spent(h), v |-> NULL] BY <2>1, <2>4 DEF Place, Made
    <3>2. Exact(Spent(h)) BY MemoryFacts, MemoryBlocks, ExactSame
    <3> QED BY <3>1, <3>2
  <2> QED BY <2>3, <2>4
<1> QED BY <1>1, <1>2

\* What is freed is there, and freed once.
LEMMA FreedOnce ==
  ASSUME NEW h, NEW H, Forest(h, H), NEW S,
         S \subseteq H \/ \E o \in DOMAIN h.cells : S \subseteq Kids(h, o)
  PROVE  EachOnce(h, Below(h, S), S)
<1> DEFINE T == Below(h, S)
<1>1. /\ KidsLive(h) /\ H \subseteq DOMAIN h.cells
      /\ \A x \in DOMAIN h.cells : \A y \in Kids(h, x) : y \notin H
      /\ \A x \in DOMAIN h.cells : IsInjective(h.cells[x].vals)
      /\ \A x, z \in DOMAIN h.cells : \A y \in Kids(h, x) : y \in Kids(h, z) => x = z
  BY ForestFacts
<1>2. S \subseteq T /\ T \subseteq DOMAIN h.cells /\ Closed(h, T)
  <2>1. S \subseteq DOMAIN h.cells BY <1>1 DEF KidsLive
  <2> QED BY <1>1, <2>1, BelowClosed
<1>3. ASSUME NEW x \in T, NEW y \in Kids(h, x), y \in S PROVE FALSE
  <2>1. CASE S \subseteq H BY <2>1, <1>1, <1>2, <1>3
  <2>2. CASE \E o \in DOMAIN h.cells : S \subseteq Kids(h, o)
    <3>1. PICK o \in DOMAIN h.cells : S \subseteq Kids(h, o) BY <2>2
    <3>2. o \notin T BY <3>1, OnlyFromAbove
    <3>3. x = o BY <3>1, <1>1, <1>2, <1>3
    <3> QED BY <3>2, <3>3, <1>3
  <2> QED BY <2>1, <2>2
<1> HIDE DEF T
<1>4. \A x \in T : Kids(h, x) \subseteq T \ S BY <1>2, <1>3 DEF Closed
<1>5. \A x, z \in T : x # z => Kids(h, x) \cap Kids(h, z) = {} BY <1>1, <1>2
<1>6. \A x \in T : IsInjective(h.cells[x].vals) BY <1>1, <1>2
<1>7. EachOnce(h, T, S) BY <1>2, <1>4, <1>5, <1>6, Zenon DEF EachOnce
<1> QED BY <1>7 DEF T

LEMMA FreeFacts ==
  ASSUME NEW h, IsHeap(h), NEW S, EachOnce(h, Below(h, S), S)
  PROVE  /\ IsHeap(FreeAll(h, S))
         /\ FreeAll(h, S).cells = [x \in DOMAIN h.cells \ Below(h, S) |-> h.cells[x]]
         /\ Exact(h) => Exact(FreeAll(h, S))
<1> DEFINE T == Below(h, S)
           n == Blocks(h, T)
           f == [x \in DOMAIN h.cells \ T |-> h.cells[x]]
<1>1. FreeAll(h, S) = [Release(h, n) EXCEPT !.cells = f] BY Zenon DEF FreeAll
<1>2. T \subseteq DOMAIN h.cells BY DEF Below
<1> HIDE DEF n, f, T
<1>3. IsHeap(Release(h, n)) BY MemoryFacts
<1>4. IsHeap(FreeAll(h, S)) /\ FreeAll(h, S).cells = f BY <1>1, <1>3, CellsField
<1>5. ASSUME Exact(h) PROVE Exact(FreeAll(h, S))
  <2>1. FreeAll(h, S).blocks = h.blocks - n /\ FreeAll(h, S).lost = h.lost
    <3>1. Release(h, n).blocks = h.blocks - n /\ Release(h, n).lost = h.lost BY MemoryBlocks
    <3> QED BY <3>1, <1>1, <1>3, CellsBlocks
  <2>2. FreeAll(h, S).cells = [x \in DOMAIN h.cells \ T |-> h.cells[x]] BY <1>4 DEF f
  <2> QED BY <2>1, <2>2, <1>2, <1>5, ExactLess DEF n
<1> QED BY <1>4, <1>5 DEF f, T

LEMMA MaxOfTwo ==
  ASSUME NEW a \in Nat, NEW b \in Nat
  PROVE  Max({a, b}) \in Nat /\ Max({a, b}) >= a /\ Max({a, b}) >= b
<1>1. \E x \in {a, b} : \A y \in {a, b} : x >= y
  <2>1. a >= b \/ b >= a OBVIOUS
  <2> QED BY <2>1
<1>2. Max({a, b}) \in {a, b} /\ \A y \in {a, b} : Max({a, b}) >= y
  <2> DEFINE m == CHOOSE x \in {a, b} : \A y \in {a, b} : x >= y
  <2>1. m \in {a, b} /\ \A y \in {a, b} : m >= y
    <3> HIDE DEF m
    <3> QED BY <1>1 DEF m
  <2> QED BY <2>1 DEF Max
<1> QED BY <1>2

\* The cells with another capacity for the value o.
Resized(h, o, k) == [h.cells EXCEPT ![o] = [h.cells[o] EXCEPT !.capacity = k]]

LEMMA ResizedFacts ==
  ASSUME NEW h, NEW D, h.cells = [x \in D |-> h.cells[x]], NEW o \in D, NEW k
  PROVE  Resized(h, o, k) =
           [x \in D |-> IF x = o THEN [h.cells[o] EXCEPT !.capacity = k] ELSE h.cells[x]]
BY DEF Resized

\* A table that is full grows, and one that could not grow is not smaller.
LEMMA RoomFacts ==
  ASSUME NEW h, IsHeap(h), NEW o \in DOMAIN h.cells, CellOK(h.cells[o]),
         h.cells = [x \in DOMAIN h.cells |-> h.cells[x]]
  PROVE  LET r == Room(h, o)
         IN  /\ IsHeap(r.h) /\ r = [h |-> r.h, ok |-> r.ok] /\ r.ok \in BOOLEAN
             /\ Exact(h) => Exact(r.h)
             /\ \E k \in Nat : /\ k >= h.cells[o].capacity /\ (r.ok => k > Len(h.cells[o].vals))
                               /\ r.h.cells = Resized(h, o, k)
<1> DEFINE c == h.cells[o]
           r == Room(h, o)
           k == Max({2 * c.capacity, STARTING_CAPACITY})
           n == Tables(c.type)
<1>1. /\ c \in Cells /\ c.capacity \in Nat /\ Len(c.vals) \in Nat
      /\ Len(c.vals) <= c.capacity
  BY CellFields DEF CellOK, Fits
<1>2. Count(h, o) = Len(c.vals) BY DEF Count
<1>3. h.cells = Resized(h, o, c.capacity)
  <2>1. c = [c EXCEPT !.capacity = c.capacity] BY <1>1 DEF Cells
  <2> QED BY <2>1 DEF Resized
<1>4. CASE ~(Count(h, o) >= c.capacity)
  <2>1. r = [h |-> h, ok |-> TRUE] BY <1>4 DEF Room, Status
  <2> HIDE DEF r, c
  <2> QED BY <2>1, <1>1, <1>2, <1>3, <1>4 DEF r, c
<1>5. CASE Count(h, o) >= c.capacity
  <2>1. r = resize(h, o, k) BY <1>5 DEF Room
  <2>2. k \in Nat /\ k > 0 /\ k >= 2 * c.capacity
    <3>1. STARTING_CAPACITY \in Nat /\ STARTING_CAPACITY > 0 BY CapacityAssumption
    <3> QED BY <1>1, <3>1, MaxOfTwo
  <2>3. k > Len(c.vals) /\ k >= c.capacity
    <3>1. CASE c.capacity = 0 BY <1>1, <2>2, <3>1
    <3>2. CASE c.capacity > 0 BY <1>1, <2>2, <3>2
    <3> QED BY <1>1, <3>1, <3>2
  <2> HIDE DEF k
  <2>4. CASE HasMemory(h, n)
    <3> DEFINE m == Release(Take(h, n), IF c.capacity > 0 THEN n ELSE 0)
               g == [m EXCEPT !.cells[o].capacity = k]
    <3>1. r = [h |-> g, ok |-> TRUE]
      <4>1. resize(h, o, k) = [h |-> g, ok |-> TRUE] BY <2>2, <2>4, Zenon DEF resize, Status
      <4> QED BY <2>1, <4>1
    <3>2. IsHeap(m) /\ m.cells = h.cells
      <4>1. IsHeap(Take(h, n)) /\ Take(h, n).cells = h.cells BY MemoryFacts
      <4> QED BY <4>1, MemoryFacts
    <3> HIDE DEF m
    <3>3. g = [m EXCEPT !.cells = Resized(m, o, k)] BY DEF Resized
    <3> HIDE DEF g
    <3>4. IsHeap(g) /\ g.cells = Resized(m, o, k) BY <3>2, <3>3, CellsField
    <3>5. Resized(m, o, k) = Resized(h, o, k) BY <3>2 DEF Resized
    <3>6. ASSUME Exact(h) PROVE Exact(g)
      <4> DEFINE u == IF c.capacity > 0 THEN n ELSE 0
                 q == n - u
      <4>1. m.blocks = h.blocks + q /\ m.lost = h.lost
        <5> DEFINE t == Take(h, n)
        <5>1. IsHeap(t) /\ t.blocks = h.blocks + n /\ t.lost = h.lost
          BY MemoryFacts, MemoryBlocks
        <5>2. m = Release(t, u) BY DEF m
        <5>3. h.blocks \in Nat BY <3>6, ExactNat
        <5>4. n \in Nat /\ u \in Nat BY <1>1, OwnedFacts
        <5> HIDE DEF t, u, n
        <5>5. m.blocks = t.blocks - u /\ m.lost = t.lost BY <5>1, <5>2, MemoryBlocks
        <5> QED BY <5>1, <5>3, <5>4, <5>5
      <4>2. g.blocks = m.blocks /\ g.lost = m.lost BY <3>2, <3>3, CellsBlocks
      <4> DEFINE D == DOMAIN h.cells
                 d == [c EXCEPT !.capacity = k]
      <4>3. g.cells = [x \in D |-> IF x = o THEN d ELSE h.cells[x]]
        BY <3>4, <3>5, ResizedFacts
      <4>4. d \in Cells BY <1>1, <2>2 DEF Cells
      <4>5. Owned(d) = Owned(c) + q /\ q \in Int
        <5>1. d.type = c.type /\ d.names = c.names /\ d.capacity = k BY <1>1 DEF Cells
        <5>2. Parts(c.type) \in Nat /\ Len(c.names) \in Nat /\ n \in Nat BY <1>1, OwnedFacts
        <5> HIDE DEF c, d
        <5> QED BY <2>2, <5>1, <5>2 DEF Owned
      <4> HIDE DEF d, q
      <4>6. /\ DOMAIN g.cells = D /\ \A x \in D : g.cells[x] \in Cells
            /\ \A x \in D \ {o} : Owned(g.cells[x]) = Owned(h.cells[x])
            /\ Owned(g.cells[o]) = Owned(c) + q
        BY <3>6, <4>3, <4>4, <4>5 DEF Exact
      <4>7. g.blocks = h.blocks + q /\ g.lost = h.lost BY <4>1, <4>2
      <4> QED BY <3>6, <4>5, <4>6, <4>7, ExactChange
    <3> HIDE DEF r
    <3> QED BY <2>2, <2>3, <3>1, <3>4, <3>5, <3>6 DEF r
  <2>5. CASE ~HasMemory(h, n)
    <3>1. r = [h |-> Spent(h), ok |-> FALSE] BY <2>1, <2>2, <2>5, Zenon DEF resize, Status
    <3>2. IsHeap(Spent(h)) /\ Spent(h).cells = h.cells BY MemoryFacts
    <3>3. Exact(h) => Exact(Spent(h)) BY <3>2, MemoryBlocks, ExactSame
    <3> HIDE DEF r, c
    <3> QED BY <3>1, <3>2, <3>3, <1>1, <1>3 DEF r, c
  <2> QED BY <2>4, <2>5
<1> QED BY <1>4, <1>5

LEMMA BelowNone == ASSUME NEW h PROVE Below(h, {}) = {}
<1>1. Closed(h, {}) BY DEF Closed
<1>2. Below(h, {}) \subseteq {} BY <1>1, BelowLeast
<1> QED BY <1>2

\* The value v is in o, in the place of those in old, which are freed.
Gave(h, g, o, v, old) ==
  \E d : /\ Filled(h.cells[o], d, v, old)
         /\ g.cells = [x \in DOMAIN h.cells \ Below(h, old) |->
                         IF x = o THEN d
                         ELSE IF x = v THEN [h.cells[v] EXCEPT !.parent = o] ELSE h.cells[x]]

\* Nothing but the table of o may have changed.
Kept(h, g, o) == \E k \in Nat : k >= h.cells[o].capacity /\ g.cells = Resized(h, o, k)

\* What a call gives that puts the value v in o.
GiveResult(h, r, o, v) ==
  /\ IsHeap(r.h) /\ r = [h |-> r.h, ok |-> r.ok] /\ r.ok \in BOOLEAN
  /\ Exact(h) => Exact(r.h)
  /\ r.ok => v # NULL /\ \E old \in None(Kids(h, o)) : Gave(h, r.h, o, v, old)
  /\ ~r.ok => Kept(h, r.h, o)

LEMMA KeptSame ==
  ASSUME NEW h, h.cells = [x \in DOMAIN h.cells |-> h.cells[x]], NEW o \in DOMAIN h.cells,
         CellOK(h.cells[o])
  PROVE  Kept(h, h, o)
<1> DEFINE c == h.cells[o]
<1>1. c \in Cells /\ c.capacity \in Nat BY CellFields DEF CellOK
<1>2. c = [c EXCEPT !.capacity = c.capacity] BY <1>1 DEF Cells
<1>3. h.cells = Resized(h, o, c.capacity) BY <1>2 DEF Resized
<1> QED BY <1>1, <1>3 DEF Kept

\* What Hang makes of a heap whose cells are those of h without those in B, and
\* with another table for o.
LEMMA HangFacts ==
  ASSUME NEW m, IsHeap(m), NEW D, m.cells = [x \in D |-> m.cells[x]],
         NEW o \in D, NEW v \in D, o # v, NEW c
  PROVE  /\ IsHeap(Hang(m, o, c, v))
         /\ Hang(m, o, c, v).cells =
              [x \in D |-> IF x = o THEN c
                           ELSE IF x = v THEN [m.cells[v] EXCEPT !.parent = o] ELSE m.cells[x]]
         /\ Hang(m, o, c, v).blocks = m.blocks /\ Hang(m, o, c, v).lost = m.lost
<1> DEFINE f == [x \in D |-> IF x = o THEN c
                             ELSE IF x = v THEN [m.cells[v] EXCEPT !.parent = o] ELSE m.cells[x]]
           g == [[m.cells EXCEPT ![o] = c] EXCEPT ![v].parent = o]
<1>1. g = f OBVIOUS
<1>2. Hang(m, o, c, v) = [m EXCEPT !.cells = g] BY DEF Hang
<1> HIDE DEF f, g
<1>3. IsHeap(Hang(m, o, c, v)) /\ Hang(m, o, c, v).cells = g BY <1>2, CellsField
<1>4. Hang(m, o, c, v).blocks = m.blocks /\ Hang(m, o, c, v).lost = m.lost BY <1>2, CellsBlocks
<1> QED BY <1>1, <1>3, <1>4 DEF f

\* To say where it is takes no memory of a value.
LEMMA HangExact ==
  ASSUME NEW h, Exact(h), NEW D, D = DOMAIN h.cells, NEW o \in D, o \in Nat, NEW v \in D,
         NEW d \in Cells, NEW n \in Int, Owned(d) = Owned(h.cells[o]) + n,
         NEW g, g.blocks = h.blocks + n, g.lost = h.lost,
         g.cells = [x \in D |-> IF x = o THEN d
                                ELSE IF x = v THEN [h.cells[v] EXCEPT !.parent = o]
                                ELSE h.cells[x]]
  PROVE  Exact(g)
<1> DEFINE c == h.cells[v]
           e == [c EXCEPT !.parent = o]
<1>1. c \in Cells BY DEF Exact
<1>2. e \in Cells /\ e.type = c.type /\ e.names = c.names /\ e.capacity = c.capacity
  BY <1>1 DEF Cells
<1>3. Owned(e) = Owned(c) BY <1>2 DEF Owned
<1> HIDE DEF e
<1>4. DOMAIN g.cells = DOMAIN h.cells /\ g.cells[o] = d BY DEF e
<1>5. \A x \in DOMAIN h.cells : x # o => g.cells[x] = IF x = v THEN e ELSE h.cells[x] BY DEF e
<1>6. \A x \in DOMAIN h.cells : g.cells[x] \in Cells BY <1>2, <1>4, <1>5 DEF Exact
<1>7. \A x \in DOMAIN h.cells \ {o} : Owned(g.cells[x]) = Owned(h.cells[x]) BY <1>3, <1>5
<1>8. o \in DOMAIN h.cells /\ Owned(g.cells[o]) = Owned(h.cells[o]) + n BY <1>4
<1> QED BY <1>4, <1>6, <1>7, <1>8, ExactChange

LEMMA AddPairFacts ==
  ASSUME NEW h, IsHeap(h), NEW o \in DOMAIN h.cells, o \in Nat, CellOK(h.cells[o]),
         h.cells = [x \in DOMAIN h.cells |-> h.cells[x]], h.cells[o].type = "object",
         NEW v \in DOMAIN h.cells, v \in Nat, v # o, v # NULL,
         NEW name \in Seq(STRING), name \notin Range(h.cells[o].names)
  PROVE  GiveResult(h, AddPair(h, o, name, v), o, v)
<1> DEFINE D == DOMAIN h.cells
           c == h.cells[o]
           r == Room(h, o)
           m == Take(r.h, 1)
           d == [r.h.cells[o] EXCEPT !.names = Append(@, name), !.vals = Append(@, v)]
           s == AddPair(h, o, name, v)
<1>1. PICK k \in Nat : /\ k >= c.capacity /\ (r.ok => k > Len(c.vals))
                       /\ r.h.cells = Resized(h, o, k)
  BY RoomFacts
<1>2. IsHeap(r.h) /\ r.ok \in BOOLEAN /\ (Exact(h) => Exact(r.h)) BY RoomFacts
<1>3. c \in Cells /\ c.names \in Seq(Seq(STRING)) /\ c.vals \in Seq(Nat)
  BY CellFields DEF CellOK
<1>4. r.h.cells = [x \in D |-> IF x = o THEN [c EXCEPT !.capacity = k] ELSE h.cells[x]]
  BY <1>1, ResizedFacts
<1> HIDE DEF r
<1>5. CASE ~(r.ok /\ HasMemory(r.h, 1))
  <2>1. s = [h |-> r.h, ok |-> FALSE] BY <1>5, Zenon DEF AddPair, Status, r
  <2>2. Kept(h, r.h, o) BY <1>1 DEF Kept
  <2> HIDE DEF s
  <2> QED BY <2>1, <2>2, <1>2 DEF GiveResult, s
<1>6. CASE r.ok /\ HasMemory(r.h, 1)
  <2> DEFINE g == Hang(m, o, d, v)
  <2>1. s = [h |-> g, ok |-> TRUE] BY <1>6, Zenon DEF AddPair, Status, r
  <2>2. /\ IsHeap(m) /\ m.cells = r.h.cells /\ m.blocks = r.h.blocks + 1
        /\ m.lost = r.h.lost
    BY <1>2, MemoryFacts, MemoryBlocks
  <2>3. d = [c EXCEPT !.capacity = k, !.names = Append(c.names, name), !.vals = Append(c.vals, v)]
    BY <1>3, <1>4 DEF Cells
  <2> HIDE DEF m, d, s, g
  <2>4. /\ IsHeap(g)
        /\ g.cells = [x \in D |-> IF x = o THEN d
                                  ELSE IF x = v THEN [h.cells[v] EXCEPT !.parent = o]
                                  ELSE h.cells[x]]
        /\ Exact(h) => Exact(g)
    <3>1. m.cells = [x \in D |-> m.cells[x]] /\ o \in D /\ v \in D /\ o # v BY <2>2, <1>4
    <3> HIDE DEF D, c
    <3>2. /\ IsHeap(g)
          /\ g.cells = [x \in D |-> IF x = o THEN d
                                    ELSE IF x = v THEN [m.cells[v] EXCEPT !.parent = o]
                                    ELSE m.cells[x]]
          /\ g.blocks = m.blocks /\ g.lost = m.lost
      BY <3>1, <2>2, HangFacts DEF g
    <3>3. \A x \in D : x # o => m.cells[x] = h.cells[x] BY <2>2, <1>4
    <3>4. ASSUME Exact(h) PROVE Exact(g)
      <4>1. Exact(r.h) /\ DOMAIN r.h.cells = D /\ g.blocks = r.h.blocks + 1 /\ g.lost = r.h.lost
        BY <3>2, <3>4, <2>2, <1>2, <1>4
      <4>2. /\ g.cells = [x \in D |-> IF x = o THEN d
                                      ELSE IF x = v THEN [r.h.cells[v] EXCEPT !.parent = o]
                                      ELSE r.h.cells[x]]
        BY <3>2, <2>2
      <4>3. d \in Cells /\ Owned(d) = Owned(r.h.cells[o]) + 1
        <5> DEFINE b == r.h.cells[o]
        <5>1. b = [c EXCEPT !.capacity = k] /\ b \in Cells BY <1>3, <1>4 DEF c, D, Cells
        <5>2. d = [b EXCEPT !.names = Append(b.names, name), !.vals = Append(b.vals, v)]
          BY DEF d
        <5>3. v \in Nat /\ b.names \in Seq(Seq(STRING)) /\ b.vals \in Seq(Nat)
          BY <5>1, CellFields
        <5> DEFINE us == Append(b.names, name)
                   ws == Append(b.vals, v)
        <5> HIDE DEF b
        <5>7. /\ us \in Seq(Seq(STRING)) /\ Len(us) = Len(b.names) + 1
              /\ ws \in Seq(Nat)
          BY <5>3
        <5>8. d = [b EXCEPT !.names = us, !.vals = ws] BY <5>2
        <5> HIDE DEF us, ws
        <5>4. /\ d \in Cells /\ d.type = b.type /\ d.capacity = b.capacity
              /\ Len(d.names) = Len(b.names) + 1
          BY <5>1, <5>7, <5>8 DEF Cells
        <5>5. /\ Parts(b.type) \in Nat /\ Len(b.names) \in Nat /\ Tables(b.type) \in Nat
          BY <5>1, OwnedFacts
        <5>6. Owned(d) = Owned(b) + 1 BY <5>4, <5>5 DEF Owned
        <5> QED BY <5>4, <5>6 DEF b
      <4>4. o \in D /\ v \in D /\ o \in Nat /\ D = DOMAIN r.h.cells BY <3>1, <4>1
      <4> DEFINE n == 1
      <4>5. /\ n \in Int /\ Owned(d) = Owned(r.h.cells[o]) + n /\ g.blocks = r.h.blocks + n
        BY <4>1, <4>3
      <4> HIDE DEF n
      <4> QED BY ONLY <4>1, <4>2, <4>3, <4>4, <4>5, HangExact, SMTT(60)
    <3> QED BY <3>2, <3>3, <3>4 DEF D
  <2>5. Filled(c, d, v, {})
    <3>1. /\ d.names = Append(c.names, name) /\ d.vals = Append(c.vals, v) /\ d.capacity = k
          /\ d = [c EXCEPT !.names = d.names, !.vals = d.vals, !.capacity = d.capacity]
      BY <1>3, <2>3 DEF Cells
    <3>2. Last(d.names) = name BY <3>1, <1>3 DEF Last
    <3>3. d.capacity \in Nat /\ d.capacity > Len(c.vals) BY <3>1, <1>1, <1>6
    <3> HIDE DEF c
    <3> QED BY <3>1, <3>2, <3>3 DEF Filled, c
  <2>6. Gave(h, g, o, v, {})
    <3>1. DOMAIN h.cells \ Below(h, {}) = D BY BelowNone
    <3> QED BY <2>4, <2>5, <3>1 DEF Gave
  <2>7. {} \in None(Kids(h, o)) BY DEF None
  <2> QED BY <2>1, <2>4, <2>6, <2>7 DEF GiveResult, s
<1> QED BY <1>5, <1>6

LEMMA ArrayAddFacts ==
  ASSUME NEW h, IsHeap(h), NEW o \in DOMAIN h.cells, o \in Nat, CellOK(h.cells[o]),
         h.cells = [x \in DOMAIN h.cells |-> h.cells[x]], h.cells[o].type # "object",
         NEW v \in DOMAIN h.cells, v \in Nat, v # o, v # NULL
  PROVE  GiveResult(h, json_array_add(h, o, v), o, v)
<1> DEFINE D == DOMAIN h.cells
           c == h.cells[o]
           r == Room(h, o)
           d == [r.h.cells[o] EXCEPT !.vals = Append(@, v)]
           s == json_array_add(h, o, v)
<1>1. PICK k \in Nat : /\ k >= c.capacity /\ (r.ok => k > Len(c.vals))
                       /\ r.h.cells = Resized(h, o, k)
  BY RoomFacts
<1>2. /\ IsHeap(r.h) /\ r.ok \in BOOLEAN /\ r = [h |-> r.h, ok |-> r.ok]
      /\ Exact(h) => Exact(r.h)
  BY RoomFacts
<1>3. c \in Cells /\ c.names \in Seq(Seq(STRING)) /\ c.vals \in Seq(Nat)
  BY CellFields DEF CellOK
<1>4. r.h.cells = [x \in D |-> IF x = o THEN [c EXCEPT !.capacity = k] ELSE h.cells[x]]
  BY <1>1, ResizedFacts
<1> HIDE DEF r
<1>5. CASE ~r.ok
  <2>1. s = r BY <1>5, Zenon DEF json_array_add, r
  <2>2. Kept(h, r.h, o) BY <1>1 DEF Kept
  <2> HIDE DEF s
  <2>3. IsHeap(s.h) /\ s = [h |-> s.h, ok |-> s.ok] /\ s.ok \in BOOLEAN BY <2>1, <1>2
  <2>4. ~s.ok /\ Kept(h, s.h, o) /\ (Exact(h) => Exact(s.h)) BY <2>1, <2>2, <1>2, <1>5
  <2> QED BY <2>3, <2>4 DEF GiveResult, s
<1>6. CASE r.ok
  <2> DEFINE g == Hang(r.h, o, d, v)
  <2>1. s = [h |-> g, ok |-> TRUE] BY <1>6, Zenon DEF json_array_add, Status, r
  <2>2. d = [c EXCEPT !.capacity = k, !.vals = Append(c.vals, v)]
    BY <1>3, <1>4 DEF Cells
  <2> HIDE DEF d, s, g
  <2>3. /\ IsHeap(g)
        /\ g.cells = [x \in D |-> IF x = o THEN d
                                  ELSE IF x = v THEN [h.cells[v] EXCEPT !.parent = o]
                                  ELSE h.cells[x]]
        /\ Exact(h) => Exact(g)
    <3>1. r.h.cells = [x \in D |-> r.h.cells[x]] /\ o \in D /\ v \in D /\ o # v BY <1>4
    <3> HIDE DEF D, c
    <3>2. /\ IsHeap(g)
          /\ g.cells = [x \in D |-> IF x = o THEN d
                                    ELSE IF x = v THEN [r.h.cells[v] EXCEPT !.parent = o]
                                    ELSE r.h.cells[x]]
          /\ g.blocks = r.h.blocks /\ g.lost = r.h.lost
      BY <3>1, <1>2, HangFacts DEF g
    <3>3. \A x \in D : x # o => r.h.cells[x] = h.cells[x] BY <1>4
    <3>4. ASSUME Exact(h) PROVE Exact(g)
      <4>1. Exact(r.h) /\ DOMAIN r.h.cells = D /\ g.lost = r.h.lost BY <3>2, <3>4, <1>2, <1>4
      <4>2. d \in Cells /\ Owned(d) = Owned(r.h.cells[o]) + 0
        <5> DEFINE b == r.h.cells[o]
        <5>1. b = [c EXCEPT !.capacity = k] /\ b \in Cells BY <1>3, <1>4 DEF c, D, Cells
        <5>2. d = [b EXCEPT !.vals = Append(b.vals, v)] BY DEF d
        <5>3. v \in Nat /\ b.vals \in Seq(Nat) BY <5>1, CellFields
        <5> DEFINE ws == Append(b.vals, v)
        <5> HIDE DEF b
        <5>7. ws \in Seq(Nat) /\ d = [b EXCEPT !.vals = ws] BY <5>2, <5>3
        <5> HIDE DEF ws
        <5>4. d \in Cells /\ d.type = b.type /\ d.capacity = b.capacity /\ d.names = b.names
          BY <5>1, <5>7 DEF Cells
        <5>5. Owned(b) \in Nat BY <5>1, OwnedFacts
        <5>6. Owned(d) = Owned(b) BY <5>4 DEF Owned
        <5> QED BY <5>4, <5>5, <5>6 DEF b
      <4>3. g.blocks = r.h.blocks + 0
        <5>1. r.h.blocks \in Nat BY <4>1, ExactNat
        <5> QED BY <5>1, <3>2
      <4>4. o \in D /\ v \in D /\ o \in Nat /\ D = DOMAIN r.h.cells BY <3>1, <4>1
      <4>5. /\ g.cells = [x \in D |-> IF x = o THEN d
                                      ELSE IF x = v THEN [r.h.cells[v] EXCEPT !.parent = o]
                                      ELSE r.h.cells[x]]
        BY <3>2
      <4> QED BY ONLY <4>1, <4>2, <4>3, <4>4, <4>5, HangExact
    <3> QED BY <3>2, <3>3, <3>4 DEF D
  <2>4. Filled(c, d, v, {})
    <3>1. /\ d.names = c.names /\ d.vals = Append(c.vals, v) /\ d.capacity = k
          /\ d = [c EXCEPT !.names = d.names, !.vals = d.vals, !.capacity = d.capacity]
      BY <1>3, <2>2 DEF Cells
    <3>2. d.capacity \in Nat /\ d.capacity > Len(c.vals) BY <3>1, <1>1, <1>6
    <3>3. c.type # "object" OBVIOUS
    <3> HIDE DEF c
    <3> QED BY <3>1, <3>2, <3>3 DEF Filled
  <2>5. Gave(h, g, o, v, {})
    <3>1. DOMAIN h.cells \ Below(h, {}) = D BY BelowNone
    <3> QED BY <2>3, <2>4, <3>1 DEF Gave
  <2>6. {} \in None(Kids(h, o)) BY DEF None
  <2> QED BY <2>1, <2>3, <2>5, <2>6 DEF GiveResult, s
<1> QED BY <1>5, <1>6

\* A value that is there makes way for another.
LEMMA SwapFacts ==
  ASSUME NEW h, IsHeap(h), NEW H, NEW R, Whole(h, H, R), NEW o \in DOMAIN h.cells,
         NEW v \in H, o \notin Below(h, {v}), NEW i \in DOMAIN h.cells[o].vals
  PROVE  LET old == h.cells[o].vals[i]
             g   == Hang(json_value_free(h, old), o, [h.cells[o] EXCEPT !.vals[i] = v], v)
         IN  /\ IsHeap(g) /\ (Exact(h) => Exact(g))
             /\ Gave(h, g, o, v, {old}) /\ {old} \in None(Kids(h, o))
<1> DEFINE c == h.cells[o]
           old == c.vals[i]
           d == [c EXCEPT !.vals[i] = v]
           m == json_value_free(h, old)
           g == Hang(m, o, d, v)
           E == DOMAIN h.cells \ Below(h, {old})
<1>1. /\ Forest(h, H) /\ H \subseteq DOMAIN h.cells /\ DOMAIN h.cells \subseteq Nat \ {NULL}
      /\ Kids(h, o) \subseteq DOMAIN h.cells
  BY WholeFacts
<1>2. old \in Kids(h, o) BY DEF Kids, Range
<1>3. old # NULL /\ {old} \subseteq Kids(h, o) BY <1>1, <1>2
<1> HIDE DEF old
<1>4. /\ IsHeap(m) /\ m.cells = [x \in E |-> h.cells[x]]
      /\ Exact(h) => Exact(m)
  <2>1. EachOnce(h, Below(h, {old}), {old}) BY <1>1, <1>3, FreedOnce
  <2>2. m = FreeAll(h, {old}) BY <1>3 DEF json_value_free
  <2> QED BY <2>1, <2>2, FreeFacts
<1>5. o \in E /\ v \in E /\ o # v
  <2>1. v \in Below(h, {v}) /\ {v} \subseteq H BY <1>1, TreesApart
  <2>2. Below(h, {v}) \cap Below(h, {old}) = {} BY <1>1, <1>3, <2>1, TreesDisjoint
  <2>3. o \notin Below(h, {old}) BY <1>1, <1>3, OnlyFromAbove
  <2> QED BY <1>1, <2>1, <2>2, <2>3
<1>6. /\ IsHeap(g)
      /\ g.cells = [x \in E |-> IF x = o THEN d
                                ELSE IF x = v THEN [h.cells[v] EXCEPT !.parent = o]
                                ELSE h.cells[x]]
      /\ Exact(h) => Exact(g)
  <2>0. d \in Cells /\ d.type = c.type /\ d.names = c.names /\ d.capacity = c.capacity
    <3>1. c \in Cells /\ c.vals \in Seq(Nat) /\ v \in Nat /\ i \in DOMAIN c.vals
      BY <1>1, WholeFacts, CellFields DEF CellOK
    <3>2. [c.vals EXCEPT ![i] = v] \in Seq(Nat)
      <4> DEFINE t == c.vals
      <4>1. t \in Seq(Nat) /\ v \in Nat /\ i \in DOMAIN t BY <3>1
      <4> HIDE DEF t
      <4>2. [t EXCEPT ![i] = v] \in Seq(Nat) BY <4>1
      <4> QED BY <4>2 DEF t
    <3> DEFINE u == [c.vals EXCEPT ![i] = v]
    <3>3. d = [c EXCEPT !.vals = u] OBVIOUS
    <3> HIDE DEF c, u, d
    <3>4. u \in Seq(Nat) /\ c \in Cells BY <3>1, <3>2 DEF u
    <3> QED BY <3>3, <3>4 DEF Cells
  <2> HIDE DEF E, d, m, g
  <2>1. m.cells = [x \in E |-> m.cells[x]] BY <1>4
  <2>2. /\ IsHeap(g)
        /\ g.cells = [x \in E |-> IF x = o THEN d
                                  ELSE IF x = v THEN [m.cells[v] EXCEPT !.parent = o]
                                  ELSE m.cells[x]]
        /\ g.blocks = m.blocks /\ g.lost = m.lost
    BY <1>4, <1>5, <2>1, HangFacts DEF g
  <2>3. \A x \in E : m.cells[x] = h.cells[x] BY <1>4
  <2>4. ASSUME Exact(h) PROVE Exact(g)
    <3>1. Exact(m) /\ E = DOMAIN m.cells /\ o \in E /\ v \in E /\ o \in Nat
      BY <1>1, <1>4, <1>5, <2>4
    <3>2. Owned(d) = Owned(m.cells[o]) + 0 /\ g.blocks = m.blocks + 0
      <4>1. m.cells[o] = c BY <1>5, <2>3
      <4>2. Owned(d) = Owned(c) BY <2>0 DEF Owned
      <4>3. Owned(d) \in Nat BY <2>0, OwnedFacts
      <4>4. m.blocks \in Nat BY <3>1, ExactNat
      <4> HIDE DEF c
      <4> QED BY <4>1, <4>2, <4>3, <4>4, <2>2
    <3> QED BY <2>0, <2>2, <3>1, <3>2, HangExact
  <2> QED BY <1>5, <2>2, <2>3, <2>4
<1>7. Filled(c, d, v, {old})
  <2>1. CellOK(c) BY WholeFacts
  <2>2. c \in Cells /\ {old} = {c.vals[i]} /\ i \in DOMAIN c.vals /\ d = [c EXCEPT !.vals[i] = v]
    BY <2>1 DEF CellOK, old
  <2>3. d = [c EXCEPT !.names = d.names, !.vals = d.vals, !.capacity = d.capacity]
    BY <2>2 DEF Cells
  <2> HIDE DEF c, d
  <2> QED BY <2>2, <2>3, Zenon DEF Filled
<1>8. Gave(h, g, o, v, {old}) BY <1>6, <1>7 DEF Gave
<1> QED BY <1>2, <1>6, <1>8 DEF None, old

\* The least place where a name is.
LEMMA IndexFacts ==
  ASSUME NEW h, NEW o, h.cells[o].names \in Seq(Seq(STRING)), NEW name, Index(h, o, name) # {}
  PROVE  /\ Min(Index(h, o, name)) \in DOMAIN h.cells[o].names
         /\ h.cells[o].names[Min(Index(h, o, name))] = name
<1> DEFINE S == Index(h, o, name)
           R == OpToRel(<, Nat)
<1>1. S \subseteq Nat /\ S # {} BY DEF Index
<1>2. IsWellFoundedOn(R, Nat) BY NatLessThanWellFounded, Zenon
<1>3. \E x \in S : \A y \in S : ~ (<<y, x>> \in R)
  <2> HIDE DEF S, R
  <2> QED BY <1>1, <1>2, WFMin, Zenon
<1>4. \E x \in S : \A y \in S : x <= y
  <2>1. PICK x \in S : \A y \in S : ~ (<<y, x>> \in R) BY <1>3
  <2>2. \A y \in S : ~ (y < x) BY <2>1, <1>1 DEF OpToRel
  <2>3. \A y \in S : x <= y BY <2>2, <1>1
  <2> QED BY <2>3
<1>5. Min(S) \in S
  <2> HIDE DEF S
  <2>1. Min(S) = CHOOSE x \in S : \A y \in S : x <= y BY DEF Min
  <2> QED BY <1>4, <2>1
<1> QED BY <1>5 DEF Index

\* A value that the program does not hold, or that says it is somewhere, is not taken.
MayGive(h, H, o, v) == v = NULL \/ (v \in H /\ o \notin Below(h, {v}))

LEMMA NotTaken ==
  ASSUME NEW h, IsHeap(h), NEW H, NEW R, Whole(h, H, R), NEW o \in DOMAIN h.cells, NEW v
  PROVE  GiveResult(h, Status(h, FALSE), o, v)
<1>1. h.cells = [x \in DOMAIN h.cells |-> h.cells[x]] BY DEF Whole
<1>2. Kept(h, h, o) BY <1>1, WholeFacts, KeptSame
<1> QED BY <1>2 DEF GiveResult, Status

LEMMA SwapResult ==
  ASSUME NEW h, IsHeap(h), NEW H, NEW R, Whole(h, H, R), NEW o \in DOMAIN h.cells,
         NEW v \in H, o \notin Below(h, {v}), NEW i \in DOMAIN h.cells[o].vals
  PROVE  GiveResult(h, Status(Hang(json_value_free(h, h.cells[o].vals[i]), o,
                                   [h.cells[o] EXCEPT !.vals[i] = v], v), TRUE), o, v)
<1> DEFINE old == h.cells[o].vals[i]
           g   == Hang(json_value_free(h, old), o, [h.cells[o] EXCEPT !.vals[i] = v], v)
<1>1. /\ IsHeap(g) /\ (Exact(h) => Exact(g))
      /\ Gave(h, g, o, v, {old}) /\ {old} \in None(Kids(h, o))
  BY SwapFacts
<1>2. v # NULL BY WholeFacts
<1> HIDE DEF g, old
<1>3. GiveResult(h, Status(g, TRUE), o, v) BY <1>1, <1>2 DEF GiveResult, Status
<1> QED BY <1>3 DEF g, old

LEMMA HeldFacts ==
  ASSUME NEW h, NEW H, NEW R, Whole(h, H, R), NEW o \in DOMAIN h.cells,
         NEW v \in H, o \notin Below(h, {v})
  PROVE  /\ v \in DOMAIN h.cells /\ v # NULL /\ v # o /\ CellOK(h.cells[o])
         /\ v \in Nat /\ o \in Nat
         /\ h.cells = [x \in DOMAIN h.cells |-> h.cells[x]]
<1>1. {v} \subseteq H /\ Forest(h, H) BY WholeFacts
<1>2. v \in Below(h, {v}) BY <1>1, TreesApart
<1>3. h.cells = [x \in DOMAIN h.cells |-> h.cells[x]] BY DEF Whole
<1> QED BY <1>2, <1>3, WholeFacts

LEMMA SetValueFacts ==
  ASSUME NEW h, IsHeap(h), NEW H, NEW R, Whole(h, H, R), NEW o \in DOMAIN h.cells,
         h.cells[o].type = "object", NEW v, MayGive(h, H, o, v), NEW name \in Seq(STRING)
  PROVE  GiveResult(h, json_object_set_value(h, o, name, v), o, v)
<1> DEFINE I == Index(h, o, name)
<1>1. CASE v = NULL \/ h.cells[v].parent # NULL
  BY <1>1, NotTaken DEF json_object_set_value
<1>2. CASE ~(v = NULL \/ h.cells[v].parent # NULL)
  <2>1. v \in H /\ o \notin Below(h, {v}) BY <1>2 DEF MayGive
  <2>2. /\ v \in DOMAIN h.cells /\ v # NULL /\ v # o /\ CellOK(h.cells[o])
        /\ v \in Nat /\ o \in Nat
        /\ h.cells = [x \in DOMAIN h.cells |-> h.cells[x]]
    BY <2>1, HeldFacts
  <2>3. /\ h.cells[o].names \in Seq(Seq(STRING)) /\ Len(h.cells[o].names) = Len(h.cells[o].vals)
        /\ h.cells[o].vals \in Seq(Nat)
    BY <2>2, CellFields DEF CellOK, Fits
  <2>4. CASE I = {}
    <3>1. json_object_get_value(h, o, name) = NULL BY <2>4 DEF json_object_get_value
    <3>2. json_object_set_value(h, o, name, v) = AddPair(h, o, name, v)
      BY <1>2, <3>1, Zenon DEF json_object_set_value, json_object_addn
    <3>3. name \notin Range(h.cells[o].names)
      <4> DEFINE t == h.cells[o].names
      <4>1. \A i \in 1 .. Len(t) : t[i] # name BY <2>4 DEF Index
      <4>2. DOMAIN t = 1 .. Len(t) BY <2>3
      <4> HIDE DEF t
      <4>3. name \notin Range(t) BY <4>1, <4>2 DEF Range
      <4> QED BY <4>3 DEF t
    <3> QED BY <2>2, <3>2, <3>3, AddPairFacts
  <2>5. CASE I # {}
    <3> DEFINE i == Min(I)
    <3>1. i \in DOMAIN h.cells[o].vals BY <2>3, <2>5, IndexFacts
    <3>2. json_object_get_value(h, o, name) = h.cells[o].vals[i]
      BY <2>5 DEF json_object_get_value
    <3>3. h.cells[o].vals[i] # NULL
      <4>1. h.cells[o].vals[i] \in Kids(h, o) BY <3>1 DEF Kids, Range
      <4> QED BY <4>1, WholeFacts
    <3>4. json_object_set_value(h, o, name, v) =
            Status(Hang(json_value_free(h, h.cells[o].vals[i]), o,
                        [h.cells[o] EXCEPT !.vals[i] = v], v), TRUE)
      BY <1>2, <3>2, <3>3, Zenon DEF json_object_set_value
    <3> HIDE DEF i
    <3> QED BY <2>1, <3>1, <3>4, SwapResult
  <2> QED BY <2>4, <2>5
<1> QED BY <1>1, <1>2

LEMMA AppendValueFacts ==
  ASSUME NEW h, IsHeap(h), NEW H, NEW R, Whole(h, H, R), NEW o \in DOMAIN h.cells,
         h.cells[o].type # "object", NEW v, MayGive(h, H, o, v)
  PROVE  GiveResult(h, json_array_append_value(h, o, v), o, v)
<1>1. CASE v = NULL \/ h.cells[v].parent # NULL
  BY <1>1, NotTaken DEF json_array_append_value
<1>2. CASE ~(v = NULL \/ h.cells[v].parent # NULL)
  <2>1. v \in H /\ o \notin Below(h, {v}) BY <1>2 DEF MayGive
  <2>2. json_array_append_value(h, o, v) = json_array_add(h, o, v)
    BY <1>2 DEF json_array_append_value
  <2>3. /\ v \in DOMAIN h.cells /\ v # NULL /\ v # o /\ CellOK(h.cells[o])
        /\ v \in Nat /\ o \in Nat
        /\ h.cells = [x \in DOMAIN h.cells |-> h.cells[x]]
    BY <2>1, HeldFacts
  <2>4. GiveResult(h, json_array_add(h, o, v), o, v) BY <2>3, ArrayAddFacts
  <2> QED BY <2>2, <2>4
<1> QED BY <1>1, <1>2

LEMMA ReplaceValueFacts ==
  ASSUME NEW h, IsHeap(h), NEW H, NEW R, Whole(h, H, R), NEW o \in DOMAIN h.cells,
         NEW v, MayGive(h, H, o, v), NEW i, i > Count(h, o) \/ i \in DOMAIN h.cells[o].vals
  PROVE  GiveResult(h, json_array_replace_value(h, o, i, v), o, v)
<1>1. CASE v = NULL \/ h.cells[v].parent # NULL \/ i > Count(h, o)
  BY <1>1, NotTaken DEF json_array_replace_value
<1>2. CASE ~(v = NULL \/ h.cells[v].parent # NULL \/ i > Count(h, o))
  <2>1. v \in H /\ o \notin Below(h, {v}) /\ i \in DOMAIN h.cells[o].vals
    BY <1>2 DEF MayGive
  <2>2. json_array_replace_value(h, o, i, v) =
          Status(Hang(json_value_free(h, h.cells[o].vals[i]), o,
                      [h.cells[o] EXCEPT !.vals[i] = v], v), TRUE)
    BY <1>2, Zenon DEF json_array_replace_value
  <2> QED BY <2>1, <2>2, SwapResult
<1> QED BY <1>1, <1>2

(***************************************************************************)
(* The calls of JsonCalls keep the contract                                *)
(***************************************************************************)

\* What is below some values is the same in two heaps that agree on a set which
\* has all below its values.
LEMMA BelowPart ==
  ASSUME NEW h, NEW g, NEW D, D \subseteq DOMAIN h.cells, D \subseteq DOMAIN g.cells,
         Closed(h, D), SameKids(h, g, D), NEW S, S \subseteq D
  PROVE  Below(h, S) \subseteq Below(g, S)
<1>1. Below(h, S) \subseteq D BY BelowLeast
<1>2. ASSUME NEW U \in SUBSET DOMAIN g.cells, S \subseteq U, Closed(g, U)
      PROVE  Below(h, S) \subseteq U
  <2> DEFINE W == U \cap D
  <2>1. \A x \in D : Kids(g, x) = Kids(h, x) BY SameBelow
  <2>2. W \subseteq DOMAIN h.cells /\ S \subseteq W /\ Closed(h, W)
    BY <1>2, <2>1 DEF Closed
  <2>3. Below(h, S) \subseteq W
    <3> HIDE DEF W
    <3> QED BY <2>2, BelowLeast
  <2> QED BY <2>3
<1>3. \A x \in Below(h, S) : x \in DOMAIN g.cells BY <1>1
<1>4. \A x \in Below(h, S) : \A U \in SUBSET DOMAIN g.cells : S \subseteq U /\ Closed(g, U) => x \in U
  BY <1>2
<1> QED BY <1>3, <1>4, Zenon DEF Below

LEMMA BelowSame ==
  ASSUME NEW h, NEW g, NEW D, D \subseteq DOMAIN h.cells, D \subseteq DOMAIN g.cells,
         Closed(h, D), SameKids(h, g, D), NEW S, S \subseteq D
  PROVE  Below(g, S) = Below(h, S)
<1>1. \A x \in D : Kids(g, x) = Kids(h, x) BY SameBelow
<1>2. Closed(g, D) /\ SameKids(g, h, D) BY <1>1 DEF Closed, SameKids
<1>3. Below(h, S) \subseteq Below(g, S) BY BelowPart
<1>4. Below(g, S) \subseteq Below(h, S) BY <1>2, BelowPart
<1> QED BY <1>3, <1>4

\* The tree that is put in a container is the tree it was.
LEMMA TreeStays ==
  ASSUME NEW h, NEW H, NEW R, Whole(h, H, R), NEW o \in DOMAIN h.cells,
         NEW v \in H, o \notin Below(h, {v}), NEW old, old \subseteq Kids(h, o),
         NEW g, Gave(h, g, o, v, old)
  PROVE  IsTree(g, Below(h, {v}), v, o)
<1> DEFINE T == Below(h, {v})
           B == Below(h, old)
           p == [h.cells[v] EXCEPT !.parent = o]
<1>1. PICK d : g.cells = [x \in DOMAIN h.cells \ B |->
                            IF x = o THEN d ELSE IF x = v THEN p ELSE h.cells[x]]
  BY Zenon DEF Gave
<1>2. /\ Forest(h, H) /\ H \subseteq DOMAIN h.cells /\ DOMAIN h.cells \subseteq Nat \ {NULL}
      /\ IsFiniteSet(DOMAIN h.cells) /\ {v} \subseteq H
      /\ \A x \in DOMAIN h.cells :
           /\ CellOK(h.cells[x]) /\ IsInjective(h.cells[x].vals)
           /\ Kids(h, x) \subseteq DOMAIN h.cells
           /\ \A y \in Kids(h, x) : h.cells[y].parent = x /\ y \notin H
  BY WholeFacts
<1>3. v \in T /\ T \subseteq DOMAIN h.cells /\ T \cap B = {} /\ Closed(h, T)
  <2>1. v \in T /\ T \subseteq DOMAIN h.cells BY <1>2, TreesApart
  <2>2. T \cap B = {} BY <1>2, TreesDisjoint
  <2>3. {v} \subseteq DOMAIN h.cells /\ KidsLive(h) BY <1>2 DEF KidsLive
  <2>4. Closed(h, T) BY <2>3, BelowClosed
  <2> QED BY <2>1, <2>2, <2>4
<1> HIDE DEF T, B
<1>4. T \subseteq DOMAIN g.cells /\ \A x \in T : g.cells[x] = IF x = v THEN p ELSE h.cells[x]
  BY <1>1, <1>3 DEF T
<1>5. h.cells[v] \in Cells /\ o \in Nat BY <1>2 DEF CellOK
<1>6. p \in Cells /\ p.vals = h.cells[v].vals /\ p.names = h.cells[v].names
      /\ p.type = h.cells[v].type /\ p.capacity = h.cells[v].capacity /\ p.parent = o
  BY <1>5 DEF Cells
<1>7. SameKids(h, g, T) BY <1>4, <1>6 DEF SameKids
<1>8. \A x \in T : Kids(g, x) = Kids(h, x) BY <1>7, SameBelow
<1>9. Below(g, {v}) = T
  <2>1. {v} \subseteq T BY <1>3
  <2>2. T \subseteq DOMAIN g.cells BY <1>4
  <2>3. Below(g, {v}) = Below(h, {v}) BY <2>1, <2>2, <1>3, <1>7, BelowSame
  <2> QED BY <2>3 DEF T
<1>10. EachOnce(g, T, {v})
  <2>1. EachOnce(h, T, {v}) BY <1>2, FreedOnce DEF T
  <2>2. \A x \in T : g.cells[x].vals = h.cells[x].vals BY <1>7 DEF SameKids
  <2> QED BY <2>1, <2>2, <1>8, Zenon DEF EachOnce
<1>11. IsFiniteSet(T) BY <1>2, <1>3, FS_Subset
<1>12. ASSUME NEW x \in T
       PROVE  /\ g.cells[x] \in Cells /\ Fits(g.cells[x])
              /\ g.cells[x].type = "object" => IsInjective(g.cells[x].names)
              /\ \A y \in Kids(g, x) : g.cells[y].parent = x
  <2>1. CellOK(h.cells[x]) BY <1>2, <1>3
  <2>2. CellOK(g.cells[x])
    <3>1. CASE x = v
      <4>1. Fits(p) BY <2>1, <3>1, <1>6 DEF CellOK, Fits
      <4>2. CellOK(p) BY <2>1, <3>1, <4>1, <1>6 DEF CellOK
      <4> QED BY <3>1, <4>2, <1>4
    <3>2. CASE x # v BY <2>1, <3>2, <1>4
    <3> QED BY <3>1, <3>2
  <2>3. ASSUME NEW y \in Kids(g, x) PROVE g.cells[y].parent = x
    <3>1. y \in Kids(h, x) /\ x \in DOMAIN h.cells BY <2>3, <1>3, <1>8
    <3>2. y \in T /\ y # v /\ h.cells[y].parent = x BY <3>1, <1>2, <1>3 DEF Closed
    <3> QED BY <3>2, <1>4
  <2> QED BY <2>2, <2>3 DEF CellOK
<1>13. T \subseteq Nat \ {NULL} BY <1>2, <1>3
<1>14. g.cells[v].parent = o BY <1>3, <1>4, <1>6
<1>15. IsForest(g, T, {v}) BY <1>9, <1>10 DEF IsForest
<1>16. IsTree(g, T, v, o) BY <1>11, <1>12, <1>13, <1>14, <1>15, Zenon DEF IsTree
<1> QED BY <1>16 DEF T

\* A value that the program holds, or has just made in the call, is put in o.
LEMMA GavePut ==
  ASSUME Whole(heap, held, refused), NEW o \in Live, NEW old, old \subseteq Kids(heap, o),
         NEW h, NEW H, NEW R, Whole(h, H, R), NEW v \in H, o \notin Below(h, {v}),
         DOMAIN h.cells = Live \cup {v}, \A x \in Live : h.cells[x] = heap.cells[x],
         v \notin Live => Kids(h, v) = {},
         NEW vs, vs = {v} \cap Live, Gave(h, heap', o, v, old),
         held' = held \ vs, refused' = refused \ vs, call'.ok
  PROVE  Put(o, vs, old) /\ heap'.cells = [x \in Live' |-> heap'.cells[x]]
<1> DEFINE T == Below(h, {v})
           B == Below(heap, old)
           p == [h.cells[v] EXCEPT !.parent = o]
<1>1. /\ Forest(heap, held) /\ held \subseteq Live /\ Kids(heap, o) \subseteq Live
      /\ \A x \in Live : Kids(heap, x) \subseteq Live /\ CellOK(heap.cells[x])
  BY WholeFacts DEF Live
<1>2. \A x \in Live : Kids(h, x) = Kids(heap, x) BY DEF Kids
<1>3. SameKids(heap, h, Live) /\ Closed(heap, Live) BY <1>1 DEF SameKids, Closed
<1>4. ASSUME NEW S, S \subseteq Live PROVE Below(h, S) = Below(heap, S)
  <2>1. Live \subseteq DOMAIN heap.cells /\ Live \subseteq DOMAIN h.cells BY DEF Live
  <2> QED BY <1>3, <1>4, <2>1, BelowSame
<1>5. Below(h, old) = B BY <1>1, <1>4
<1>6. /\ o \in DOMAIN h.cells /\ old \subseteq Kids(h, o) /\ Forest(h, H) /\ {v} \subseteq H
      /\ H \subseteq DOMAIN h.cells
  BY <1>2, WholeFacts
<1>7. v \in T /\ T \subseteq DOMAIN h.cells /\ T \cap B = {} /\ o \notin B /\ o # v
  <2>1. v \in T /\ T \subseteq DOMAIN h.cells BY <1>6, TreesApart
  <2>2. T \cap B = {} BY <1>5, <1>6, TreesDisjoint
  <2>3. o \notin B BY <1>5, <1>6, OnlyFromAbove
  <2> QED BY <2>1, <2>2, <2>3
<1>8. IsTree(heap', T, v, o) BY <1>6, TreeStays
<1>9. PICK d : /\ Filled(h.cells[o], d, v, old)
               /\ heap'.cells = [x \in DOMAIN h.cells \ B |->
                                   IF x = o THEN d ELSE IF x = v THEN p ELSE h.cells[x]]
  BY <1>5, Zenon DEF Gave
<1> HIDE DEF B, p
<1>10. /\ Live' = (Live \cup {v}) \ B /\ heap'.cells[o] = d /\ heap'.cells[v] = p
       /\ \A x \in Live' : x # o /\ x # v => heap'.cells[x] = h.cells[x]
       /\ heap'.cells = [x \in Live' |-> heap'.cells[x]]
  BY <1>7, <1>9 DEF Live
<1>11. New = {v} \ Live BY <1>7, <1>10 DEF New
<1>12. T = New \cup Below(heap, vs)
  <2>1. CASE v \in Live
    <3>1. vs = {v} /\ New = {} BY <2>1, <1>11
    <3> QED BY <2>1, <3>1, <1>4
  <2>2. CASE v \notin Live
    <3>1. vs = {} /\ New = {v} BY <2>2, <1>11
    <3>2. Closed(h, {v}) BY <2>2 DEF Closed
    <3>3. T \subseteq {v} BY <3>2, BelowLeast
    <3> QED BY <3>1, <3>3, <1>7, BelowNone
  <2> QED BY <2>1, <2>2
<1> HIDE DEF T
<1>13. o \notin Below(heap, vs) BY <1>12 DEF T
<1>14. Live' = (Live \ B) \cup New BY <1>7, <1>10, <1>11
<1>15. Same(Live \ (B \cup vs \cup {o})) BY <1>10 DEF Same
<1>16. \A x \in vs : heap'.cells[x] = [heap.cells[x] EXCEPT !.parent = heap'.cells[x].parent]
  <2> SUFFICES ASSUME NEW x \in vs
               PROVE  heap'.cells[x] = [heap.cells[x] EXCEPT !.parent = heap'.cells[x].parent]
    OBVIOUS
  <2> DEFINE c == heap.cells[x]
  <2>1. x = v /\ x \in Live BY DEF Live
  <2>2. c \in Cells BY <2>1, <1>1 DEF CellOK
  <2>3. heap'.cells[x] = [c EXCEPT !.parent = o] BY <2>1, <1>10 DEF p
  <2> HIDE DEF c
  <2>4. [c EXCEPT !.parent = o].parent = o BY <2>2 DEF Cells
  <2>5. heap'.cells[x] = [c EXCEPT !.parent = heap'.cells[x].parent] BY <2>3, <2>4
  <2> QED BY <2>5 DEF c
<1>17. v \in New \cup vs BY <1>11
<1>18. Filled(heap.cells[o], heap'.cells[o], v, old) BY <1>9, <1>10
<1>19. IsTree(heap', New \cup Below(heap, vs), v, o) BY <1>8, <1>12
<1>20. \E w \in New \cup vs : /\ IsTree(heap', New \cup Below(heap, vs), w, o)
                              /\ Filled(heap.cells[o], heap'.cells[o], w, old)
  BY <1>17, <1>18, <1>19
<1>21. Put(o, vs, old)
  BY <1>13, <1>14, <1>15, <1>16, <1>20, Zenon DEF Put, B
<1> QED BY <1>10, <1>21

\* Only the table of a container may have grown: the call has failed.
LEMMA KeptFail ==
  ASSUME Whole(heap, held, refused), NEW o \in Live,
         heap'.cells = Resized(heap, o, heap'.cells[o].capacity),
         heap'.cells[o].capacity \in Nat, heap'.cells[o].capacity >= heap.cells[o].capacity,
         held' = held, refused \subseteq refused', refused' \subseteq held, ~call'.ok
  PROVE  Fail /\ heap'.cells = [x \in Live' |-> heap'.cells[x]]
<1> DEFINE k == heap'.cells[o].capacity
<1>1. /\ heap.cells = [x \in Live |-> heap.cells[x]]
      /\ \A x \in Live : heap.cells[x] \in Cells
  BY WholeFacts DEF Whole, CellOK, Live
<1>2. heap'.cells = [x \in Live |-> IF x = o THEN [heap.cells[o] EXCEPT !.capacity = k]
                                             ELSE heap.cells[x]]
  BY <1>1, ResizedFacts
<1>3. k \in Nat /\ k >= heap.cells[o].capacity OBVIOUS
<1> HIDE DEF k
<1>4. Live' = Live /\ heap'.cells = [x \in Live' |-> heap'.cells[x]]
  BY <1>2 DEF Live
<1>5. ASSUME NEW x \in Live
      PROVE  LET c == heap.cells[x]
                 d == heap'.cells[x]
             IN  /\ d = [c EXCEPT !.capacity = d.capacity, !.parent = d.parent]
                 /\ d.capacity \in Nat /\ d.capacity >= c.capacity
                 /\ d.parent # c.parent => x \in refused' /\ d.parent \in Nat
  <2> DEFINE c == heap.cells[x]
             d == heap'.cells[x]
             q == IF x = o THEN k ELSE c.capacity
  <2>1. c \in Cells BY <1>1
  <2>2. d = [c EXCEPT !.capacity = q]
    <3>1. CASE x = o BY <3>1, <1>2
    <3>2. CASE x # o
      <4>1. d = c BY <3>2, <1>2
      <4> HIDE DEF c, d
      <4> QED BY <3>2, <4>1, <2>1 DEF Cells
    <3> QED BY <3>1, <3>2
  <2>3. q \in Nat /\ q >= c.capacity
    <3>1. c.capacity \in Nat BY <2>1 DEF Cells
    <3> QED BY <3>1, <1>3
  <2> HIDE DEF c, d, q
  <2>4. d.capacity = q /\ d.parent = c.parent /\ d = [c EXCEPT !.capacity = q, !.parent = c.parent]
    BY <2>1, <2>2 DEF Cells
  <2>5. /\ d = [c EXCEPT !.capacity = d.capacity, !.parent = d.parent]
        /\ d.capacity \in Nat /\ d.capacity >= c.capacity
        /\ d.parent # c.parent => x \in refused' /\ d.parent \in Nat
    BY <2>3, <2>4
  <2> QED BY <2>5 DEF c, d
<1>6. Fail BY <1>4, <1>5, Zenon DEF Fail
<1> QED BY <1>4, <1>6

\* The heap that a call begins with, and what it leaves behind.
Start(n) == [Begin EXCEPT !.fuel = n]

LEMMA StartFacts ==
  ASSUME IsHeap(heap), NEW n
  PROVE  IsHeap(Begin) /\ Begin.cells = heap.cells /\ IsHeap(Start(n)) /\ Start(n).cells = heap.cells
<1>1. IsHeap(Begin) /\ Begin.cells = heap.cells
  <2> DEFINE g == [heap EXCEPT !.blocks = heap.blocks - heap.lost]
  <2>1. IsHeap(g) /\ g.cells = heap.cells BY BlocksField
  <2>2. Begin = [g EXCEPT !.lost = 0] BY DEF Begin
  <2> HIDE DEF g
  <2> QED BY <2>1, <2>2 DEF IsHeap
<1> QED BY <1>1, FuelField DEF Start

\* The program's heap, whole and a heap, and nothing lost.
Ready == IsHeap(heap) /\ Exact(heap) /\ Whole(heap, held, refused)

LEMMA StartExact ==
  ASSUME Ready, NEW n
  PROVE  Exact(Begin) /\ Exact(Start(n))
<1>1. heap.blocks \in Nat /\ heap.lost = 0 BY ExactNat DEF Exact, Ready
<1>2. Begin.blocks = heap.blocks /\ Begin.lost = 0 BY <1>1 DEF Begin, IsHeap, Ready
<1>3. IsHeap(Begin) /\ Begin.cells = heap.cells /\ Start(n).cells = heap.cells
  BY StartFacts DEF Ready
<1>4. Start(n).blocks = Begin.blocks /\ Start(n).lost = Begin.lost BY <1>3 DEF Start, IsHeap
<1> QED BY <1>1, <1>2, <1>3, <1>4, ExactSame DEF Ready

LEMMA StartWhole ==
  ASSUME Ready, NEW n
  PROVE  /\ IsHeap(Start(n)) /\ Start(n).cells = heap.cells /\ Whole(Start(n), held, refused)
         /\ Exact(Start(n))
BY StartFacts, StartExact, SameCells DEF Ready

\* Nor does the end of a call change what there is.
LEMMA SpentExact ==
  ASSUME NEW h, IsHeap(h), Exact(h)
  PROVE  Exact(Spent(h))
BY MemoryFacts, MemoryBlocks, ExactSame

\* A value that has nothing in it is a tree.
LEMMA AloneTree ==
  ASSUME NEW h, NEW v \in Nat \ {NULL}, v \in DOMAIN h.cells,
         NEW type \in Types, NEW data \in Seq(STRING), h.cells[v] = Cell(type, data)
  PROVE  IsTree(h, {v}, v, NULL) /\ Kids(h, v) = {}
<1> DEFINE c == h.cells[v]
<1>1. c = [type |-> type, data |-> data, parent |-> NULL,
           names |-> <<>>, vals |-> <<>>, capacity |-> 0]
  BY DEF Cell
<1>2. /\ c.type = type /\ c.parent = NULL /\ c.names = <<>> /\ c.vals = <<>>
      /\ c.capacity = 0
  BY <1>1
<1>3. c \in Cells
  <2> DEFINE e == <<>>
  <2>1. e \in Seq(Nat) /\ e \in Seq(Seq(STRING)) /\ NULL \in Nat BY DEF NULL
  <2>2. c = [type |-> type, data |-> data, parent |-> NULL, names |-> e, vals |-> e, capacity |-> 0]
    BY <1>1
  <2> HIDE DEF e, c
  <2> QED BY <2>1, <2>2 DEF Cells
<1>4. Fits(c) BY <1>2 DEF Fits
<1>5. IsInjective(c.names) /\ IsInjective(c.vals) /\ Range(c.vals) = {}
  BY <1>2 DEF IsInjective, Range
<1>6. Kids(h, v) = {} BY <1>5 DEF Kids
<1>7. EachOnce(h, {v}, {v}) BY <1>5, <1>6 DEF EachOnce
<1>8. Below(h, {v}) = {v}
  <2>1. Closed(h, {v}) BY <1>6 DEF Closed
  <2>2. Below(h, {v}) \subseteq {v} BY <2>1, BelowLeast
  <2>3. v \in Below(h, {v}) BY DEF Below
  <2> QED BY <2>2, <2>3
<1>9. IsForest(h, {v}, {v}) BY <1>7, <1>8 DEF IsForest
<1>10. IsFiniteSet({v}) BY FS_Singleton
<1> HIDE DEF c
<1>11. \A x \in {v} : /\ h.cells[x] \in Cells /\ Fits(h.cells[x])
                      /\ h.cells[x].type = "object" => IsInjective(h.cells[x].names)
                      /\ \A w \in Kids(h, x) : h.cells[w].parent = x
  BY <1>3, <1>4, <1>5, <1>6 DEF c
<1> QED BY <1>2, <1>6, <1>9, <1>10, <1>11, Zenon DEF IsTree, c

\* The same cells, and a call that did not do what it was for.
LEMMA SameFail ==
  ASSUME Whole(heap, held, refused), heap'.cells = heap.cells,
         held' = held, refused \subseteq refused', refused' \subseteq held, ~call'.ok
  PROVE  Fail /\ heap'.cells = [x \in Live' |-> heap'.cells[x]]
<1>1. Live' = Live /\ heap'.cells = [x \in Live' |-> heap'.cells[x]]
  BY DEF Live, Whole
<1>2. ASSUME NEW x \in Live
      PROVE  LET c == heap.cells[x]
                 d == heap'.cells[x]
             IN  /\ d = [c EXCEPT !.capacity = d.capacity, !.parent = d.parent]
                 /\ d.capacity \in Nat /\ d.capacity >= c.capacity
                 /\ d.parent # c.parent => x \in refused' /\ d.parent \in Nat
  <2> DEFINE c == heap.cells[x]
             d == heap'.cells[x]
  <2>1. c \in Cells /\ d = c BY <1>2, WholeFacts DEF CellOK, Live
  <2> HIDE DEF c, d
  <2>2. d.capacity \in Nat /\ d.capacity >= c.capacity /\ d.parent = c.parent
    BY <2>1, CellFields
  <2>3. c = [c EXCEPT !.capacity = c.capacity, !.parent = c.parent] BY <2>1 DEF Cells
  <2>4. d = [c EXCEPT !.capacity = d.capacity, !.parent = d.parent] BY <2>1, <2>3
  <2>5. /\ d = [c EXCEPT !.capacity = d.capacity, !.parent = d.parent]
        /\ d.capacity \in Nat /\ d.capacity >= c.capacity
        /\ d.parent # c.parent => x \in refused' /\ d.parent \in Nat
    BY <2>2, <2>4
  <2> QED BY <2>5 DEF c, d
<1> QED BY <1>1, <1>2, Zenon DEF Fail

LEMMA CreateKeeps ==
  ASSUME Ready, NEW type \in Types, NEW data \in Seq(STRING), Create(type, data)
  PROVE  Keeps /\ IsHeap(heap') /\ Exact(heap')
<1> DEFINE Outcome(n) == json_value_init(Start(n), type, data)
<1>1. PICK r \in Results(LAMBDA h : json_value_init(h, type, data)) :
        /\ Returns(r.h, Other(r.v # NULL), held \cup ({r.v} \ {NULL}))
        /\ refused' = refused
  BY Zenon DEF Create, Gain
<1>2. PICK n \in 0 .. MaxFuel : r = [Outcome(n) EXCEPT !.h = Spent(Outcome(n).h)]
  BY <1>1, Zenon DEF Results, Start
<1> DEFINE k == Start(n)
           m == Outcome(n)
<1>3. /\ IsHeap(k) /\ k.cells = heap.cells /\ Whole(k, held, refused) /\ Whole(heap, held, refused)
      /\ Exact(k)
  BY StartWhole DEF Ready
<1>4. /\ DOMAIN k.cells \subseteq Nat \ {NULL} /\ IsFiniteSet(DOMAIN k.cells)
  BY <1>3 DEF Whole
<1>5. /\ IsHeap(m.h) /\ m = [h |-> m.h, v |-> m.v]
      /\ \/ m.v = NULL /\ m.h.cells = k.cells
         \/ /\ m.v \in Nat \ {NULL} /\ m.v \notin DOMAIN k.cells
            /\ m.h.cells = With(k.cells, m.v, Cell(type, data))
      /\ Exact(m.h)
  <2>1. m = json_value_init(k, type, data) OBVIOUS
  <2> HIDE DEF k, m
  <2> QED BY <2>1, <1>3, <1>4, MadeFacts, MadeExact
<1> HIDE DEF k, m
<1>6. r.h = Spent(m.h) /\ r.v = m.v BY <1>2, <1>5 DEF m
<1>7. IsHeap(heap') /\ heap'.cells = m.h.cells /\ Exact(heap')
  <2>1. heap' = Spent(m.h) BY <1>1, <1>6 DEF Returns
  <2> QED BY <2>1, <1>5, MemoryFacts, SpentExact
<1>8. held' = held \cup ({m.v} \ {NULL}) /\ refused' = refused /\ call'.ok = (m.v # NULL)
  <2>1. held' = held \cup ({m.v} \ {NULL}) /\ call' = Other(m.v # NULL) BY <1>1, <1>6 DEF Returns
  <2>2. call'.ok = (m.v # NULL) BY <2>1 DEF Other, NoCall
  <2> QED BY <1>1, <2>1, <2>2
<1>9. refused \subseteq held BY <1>3 DEF Whole
<1>10. CASE m.v = NULL /\ m.h.cells = k.cells
  <2>1. heap'.cells = heap.cells /\ held' = held /\ ~call'.ok BY <1>3, <1>7, <1>8, <1>10
  <2>2. Fail /\ heap'.cells = [x \in Live' |-> heap'.cells[x]]
    BY <2>1, <1>3, <1>8, <1>9, SameFail
  <2> QED BY <2>2, <1>7, Zenon DEF Keeps
<1>11. CASE /\ m.v \in Nat \ {NULL} /\ m.v \notin DOMAIN k.cells
            /\ m.h.cells = With(k.cells, m.v, Cell(type, data))
  <2> DEFINE v == m.v
  <2>1. v \in Nat \ {NULL} /\ v \notin Live BY <1>3, <1>11 DEF Live
  <2>2. heap'.cells = [x \in Live \cup {v} |-> IF x = v THEN Cell(type, data) ELSE heap.cells[x]]
    BY <1>3, <1>7, <1>11 DEF Live, With
  <2>3. held' = held \cup {v} /\ call'.ok BY <1>8, <2>1
  <2> HIDE DEF v
  <2>4. Live' = Live \cup {v} /\ heap'.cells = [x \in Live' |-> heap'.cells[x]]
    BY <2>2 DEF Live
  <2>5. New = {v} /\ Same(Live) BY <2>1, <2>2, <2>4 DEF New, Same
  <2>6. IsTree(heap', {v}, v, NULL)
    <3>1. v \in DOMAIN heap'.cells /\ heap'.cells[v] = Cell(type, data) BY <2>2
    <3> QED BY <2>1, <3>1, AloneTree
  <2>7. Make BY <2>3, <2>4, <2>5, <2>6, <1>8 DEF Make
  <2> QED BY <2>4, <2>7, <1>7, Zenon DEF Keeps
<1> QED BY <1>5, <1>10, <1>11

\* A value of the program's is put in o, or the call fails.
LEMMA GiveKeeps ==
  ASSUME Ready, NEW v \in held, NEW o \in Live, o \notin Below(heap, {v}),
         NEW n, NEW m, GiveResult(Start(n), m, o, v), heap' = Spent(m.h), call'.ok = m.ok,
         held' = IF m.ok THEN held \ {v} ELSE held,
         m.ok => refused' = refused \ {v},
         ~m.ok => refused \subseteq refused' /\ refused' \subseteq held
  PROVE  Keeps /\ IsHeap(heap') /\ Exact(heap')
<1> DEFINE k == Start(n)
<1>1. /\ IsHeap(k) /\ k.cells = heap.cells /\ Whole(k, held, refused) /\ Whole(heap, held, refused)
      /\ Exact(k)
  BY StartWhole DEF Ready
<1> HIDE DEF k
<1>2. /\ IsHeap(m.h) /\ m.ok \in BOOLEAN /\ Exact(m.h)
      /\ m.ok => \E old \in None(Kids(k, o)) : Gave(k, m.h, o, v, old)
      /\ ~m.ok => Kept(k, m.h, o)
  BY <1>1, Zenon DEF GiveResult, k
<1>3. IsHeap(heap') /\ heap'.cells = m.h.cells /\ Exact(heap')
  BY <1>2, MemoryFacts, SpentExact
<1>4. CASE m.ok
  <2>1. PICK old \in None(Kids(k, o)) : Gave(k, m.h, o, v, old) BY <1>2, <1>4
  <2>2. Gave(k, heap', o, v, old) BY <2>1, <1>3 DEF Gave
  <2>3. old \in None(Kids(heap, o)) /\ old \subseteq Kids(heap, o)
    BY <2>1, <1>1, SameCells DEF None
  <2>4. o \notin Below(k, {v}) BY <1>1, SameCells
  <2>5. DOMAIN k.cells = Live \cup {v} /\ v \in Live /\ {v} = {v} \cap Live
    BY <1>1, WholeFacts DEF Live
  <2>6. \A x \in Live : k.cells[x] = heap.cells[x] BY <1>1
  <2>7. held' = held \ {v} /\ refused' = refused \ {v} /\ call'.ok BY <1>4
  <2>8. Put(o, {v}, old) /\ heap'.cells = [x \in Live' |-> heap'.cells[x]]
    BY <2>2, <2>3, <2>4, <2>5, <2>6, <2>7, <1>1, GavePut
  <2>9. {v} \in None(held) BY DEF None
  <2> QED BY <2>3, <2>8, <2>9, <1>3, Zenon DEF Keeps
<1>5. CASE ~m.ok
  <2>1. PICK c \in Nat : c >= k.cells[o].capacity /\ m.h.cells = Resized(k, o, c)
    BY <1>2, <1>5, Zenon DEF Kept
  <2>2. heap'.cells = Resized(heap, o, c) BY <2>1, <1>1, <1>3 DEF Resized
  <2>3. heap.cells = [x \in Live |-> heap.cells[x]] /\ heap.cells[o] \in Cells
    BY <1>1, WholeFacts DEF Whole, CellOK, Live
  <2>4. heap'.cells[o].capacity = c
    <3>1. heap'.cells[o] = [heap.cells[o] EXCEPT !.capacity = c] BY <2>2, <2>3, ResizedFacts
    <3> QED BY <3>1, <2>3 DEF Cells
  <2>5. held' = held /\ ~call'.ok BY <1>5
  <2>6. Fail /\ heap'.cells = [x \in Live' |-> heap'.cells[x]]
    BY <2>1, <2>2, <2>4, <2>5, <1>1, <1>5, KeptFail
  <2> QED BY <2>6, <1>3, Zenon DEF Keeps
<1> QED BY <1>2, <1>4, <1>5

LEMMA SetValueKeeps ==
  ASSUME Ready, NEW o \in Objects, NEW name \in Names, NEW v \in held, SetValue(o, name, v)
  PROVE  Keeps /\ IsHeap(heap') /\ Exact(heap')
<1> DEFINE Outcome(n) == json_object_set_value(Start(n), o, name, v)
<1>1. PICK r \in Results(LAMBDA h : json_object_set_value(h, o, name, v)) :
        /\ Returns(r.h, Call("set", o, name, v, r.ok), IF r.ok THEN held \ {v} ELSE held)
        /\ refused' = IF r.ok THEN refused \ {v}
                      ELSE IF "set" = "dotset" THEN refused \cup {v} ELSE refused
  BY Zenon DEF SetValue, Give
<1>2. PICK n \in 0 .. MaxFuel : r = [Outcome(n) EXCEPT !.h = Spent(Outcome(n).h)]
  BY <1>1, Zenon DEF Results, Start
<1> DEFINE k == Start(n)
           m == Outcome(n)
<1>3. o \notin Below(heap, {v}) BY DEF SetValue, Give
<1>4. IsHeap(k) /\ k.cells = heap.cells /\ Whole(k, held, refused) BY StartWhole
<1>5. o \in Live /\ o \in DOMAIN k.cells /\ k.cells[o].type = "object" /\ name \in Seq(STRING)
  BY <1>4, NamesAssumption DEF Objects, Live
<1>6. MayGive(k, held, o, v) BY <1>3, <1>4, SameCells DEF MayGive
<1>7. GiveResult(k, m, o, v)
  <2>1. m = json_object_set_value(k, o, name, v) OBVIOUS
  <2> HIDE DEF k, m
  <2> QED BY <2>1, <1>4, <1>5, <1>6, SetValueFacts
<1> HIDE DEF m
<1>8. r.h = Spent(m.h) /\ r.ok = m.ok
  <2>1. m = [h |-> m.h, ok |-> m.ok] BY <1>7, Zenon DEF GiveResult
  <2>2. r = [m EXCEPT !.h = Spent(m.h)] BY <1>2 DEF m
  <2> QED BY <2>1, <2>2
<1>9. /\ heap' = Spent(m.h) /\ call'.ok = m.ok
      /\ held' = IF m.ok THEN held \ {v} ELSE held
      /\ refused' = IF m.ok THEN refused \ {v} ELSE refused
  BY <1>1, <1>8 DEF Returns, Call
<1>10. refused \subseteq held BY <1>4 DEF Whole
<1> QED BY <1>3, <1>5, <1>7, <1>9, <1>10, GiveKeeps

LEMMA AppendValueKeeps ==
  ASSUME Ready, NEW o \in Arrays, NEW v \in held, AppendValue(o, v)
  PROVE  Keeps /\ IsHeap(heap') /\ Exact(heap')
<1> DEFINE Outcome(n) == json_array_append_value(Start(n), o, v)
<1>1. PICK r \in Results(LAMBDA h : json_array_append_value(h, o, v)) :
        /\ Returns(r.h, Call("append", o, <<>>, v, r.ok), IF r.ok THEN held \ {v} ELSE held)
        /\ refused' = IF r.ok THEN refused \ {v}
                      ELSE IF "append" = "dotset" THEN refused \cup {v} ELSE refused
  BY Zenon DEF AppendValue, Give
<1>2. PICK n \in 0 .. MaxFuel : r = [Outcome(n) EXCEPT !.h = Spent(Outcome(n).h)]
  BY <1>1, Zenon DEF Results, Start
<1> DEFINE k == Start(n)
           m == Outcome(n)
<1>3. o \notin Below(heap, {v}) BY DEF AppendValue, Give
<1>4. IsHeap(k) /\ k.cells = heap.cells /\ Whole(k, held, refused) BY StartWhole
<1>5. o \in Live /\ o \in DOMAIN k.cells /\ k.cells[o].type # "object"
  BY <1>4 DEF Arrays, Live
<1>6. MayGive(k, held, o, v) BY <1>3, <1>4, SameCells DEF MayGive
<1>7. GiveResult(k, m, o, v)
  <2>1. m = json_array_append_value(k, o, v) OBVIOUS
  <2> HIDE DEF k, m
  <2> QED BY <2>1, <1>4, <1>5, <1>6, AppendValueFacts
<1> HIDE DEF m
<1>8. r.h = Spent(m.h) /\ r.ok = m.ok
  <2>1. m = [h |-> m.h, ok |-> m.ok] BY <1>7, Zenon DEF GiveResult
  <2>2. r = [m EXCEPT !.h = Spent(m.h)] BY <1>2 DEF m
  <2> QED BY <2>1, <2>2
<1>9. /\ heap' = Spent(m.h) /\ call'.ok = m.ok
      /\ held' = IF m.ok THEN held \ {v} ELSE held
      /\ refused' = IF m.ok THEN refused \ {v} ELSE refused
  BY <1>1, <1>8 DEF Returns, Call
<1>10. refused \subseteq held BY <1>4 DEF Whole
<1> QED BY <1>3, <1>5, <1>7, <1>9, <1>10, GiveKeeps

\* An index is past the end or is the place of a value.
LEMMA ItemPlace ==
  ASSUME Ready, NEW o \in Live, NEW i \in 1 .. Count(heap, o) + 1
  PROVE  i > Count(heap, o) \/ i \in DOMAIN heap.cells[o].vals
<1>1. Whole(heap, held, refused) /\ o \in DOMAIN heap.cells BY DEF Ready, Live
<1>2. heap.cells[o].vals \in Seq(Nat) BY <1>1, WholeFacts, CellFields DEF CellOK
<1> QED BY <1>2 DEF Count

LEMMA ReplaceKeeps ==
  ASSUME Ready, NEW o \in Arrays, NEW v \in held,
         NEW i \in 1 .. Count(heap, o) + 1, Replace(o, i, v)
  PROVE  Keeps /\ IsHeap(heap') /\ Exact(heap')
<1> DEFINE Outcome(n) == json_array_replace_value(Start(n), o, i, v)
<1>1. PICK r \in Results(LAMBDA h : json_array_replace_value(h, o, i, v)) :
        /\ Returns(r.h, Call("replace", o, <<>>, v, r.ok), IF r.ok THEN held \ {v} ELSE held)
        /\ refused' = IF r.ok THEN refused \ {v}
                      ELSE IF "replace" = "dotset" THEN refused \cup {v} ELSE refused
  BY Zenon DEF Replace, Give
<1>2. PICK n \in 0 .. MaxFuel : r = [Outcome(n) EXCEPT !.h = Spent(Outcome(n).h)]
  BY <1>1, Zenon DEF Results, Start
<1> DEFINE k == Start(n)
           m == Outcome(n)
<1>3. o \notin Below(heap, {v}) BY DEF Replace, Give
<1>4. IsHeap(k) /\ k.cells = heap.cells /\ Whole(k, held, refused) BY StartWhole
<1>5. o \in Live /\ o \in DOMAIN k.cells BY <1>4 DEF Arrays, Live
<1>6. i > Count(k, o) \/ i \in DOMAIN k.cells[o].vals BY <1>4, <1>5, ItemPlace DEF Count
<1>7. MayGive(k, held, o, v) BY <1>3, <1>4, SameCells DEF MayGive
<1>8. GiveResult(k, m, o, v)
  <2>1. m = json_array_replace_value(k, o, i, v) OBVIOUS
  <2> HIDE DEF k, m
  <2> QED BY <2>1, <1>4, <1>5, <1>6, <1>7, ReplaceValueFacts
<1> HIDE DEF m
<1>9. r.h = Spent(m.h) /\ r.ok = m.ok
  <2>1. m = [h |-> m.h, ok |-> m.ok] BY <1>8, Zenon DEF GiveResult
  <2>2. r = [m EXCEPT !.h = Spent(m.h)] BY <1>2 DEF m
  <2> QED BY <2>1, <2>2
<1>10. /\ heap' = Spent(m.h) /\ call'.ok = m.ok
       /\ held' = IF m.ok THEN held \ {v} ELSE held
       /\ refused' = IF m.ok THEN refused \ {v} ELSE refused
  BY <1>1, <1>9 DEF Returns, Call
<1>11. refused \subseteq held BY <1>4 DEF Whole
<1> QED BY <1>3, <1>5, <1>8, <1>10, <1>11, GiveKeeps

\* The calls that make a string first: what they have then.
StringMade(h, v, o, str) ==
  /\ IsHeap(h) /\ Exact(h) /\ o \in DOMAIN h.cells /\ h.cells[o] = heap.cells[o]
  /\ Whole(h, held \cup ({v} \ {NULL}), refused)
  /\ MayGive(h, held \cup ({v} \ {NULL}), o, v)
  /\ v = NULL => h.cells = heap.cells
  /\ v # NULL => /\ v \notin Live /\ Kids(h, v) = {}
                 /\ h.cells = With(heap.cells, v, Cell("string", str))

LEMMA StringWhole ==
  ASSUME Ready, NEW o \in Live, NEW n, NEW str \in Seq(STRING),
         NEW m, m = json_value_init(Start(n), "string", str)
  PROVE  StringMade(m.h, m.v, o, str)
<1> DEFINE k == Start(n)
           v == m.v
<1>1. /\ IsHeap(k) /\ k.cells = heap.cells /\ Whole(k, held, refused) /\ Whole(heap, held, refused)
      /\ Exact(k)
  BY StartWhole DEF Ready
<1>2. /\ IsHeap(m.h) /\ m = [h |-> m.h, v |-> m.v]
      /\ \/ m.v = NULL /\ m.h.cells = k.cells
         \/ /\ m.v \in Nat \ {NULL} /\ m.v \notin DOMAIN k.cells
            /\ m.h.cells = With(k.cells, m.v, Cell("string", str))
      /\ Exact(m.h)
  <2>1. DOMAIN k.cells \subseteq Nat \ {NULL} /\ IsFiniteSet(DOMAIN k.cells) BY <1>1 DEF Whole
  <2> HIDE DEF k
  <2>2. "string" \in Types /\ m = json_value_init(k, "string", str) BY DEF Types, k
  <2> QED BY <2>1, <2>2, <1>1, MadeFacts, MadeExact
<1> HIDE DEF k
<1>3. CASE v = NULL /\ m.h.cells = k.cells
  <2>1. held \cup ({v} \ {NULL}) = held BY <1>3
  <2>2. Whole(m.h, held, refused) BY <1>1, <1>3, SameCells
  <2>3. MayGive(m.h, held, o, v) BY <1>3 DEF MayGive
  <2>4. m.h.cells = heap.cells /\ o \in DOMAIN m.h.cells /\ m.h.cells[o] = heap.cells[o]
    BY <1>1, <1>3 DEF Live
  <2>5. m.v = NULL BY <1>3
  <2> QED BY <2>1, <2>2, <2>3, <2>4, <2>5, <1>2, Zenon DEF StringMade
<1>4. CASE v \in Nat \ {NULL} /\ v \notin DOMAIN k.cells
           /\ m.h.cells = With(k.cells, v, Cell("string", str))
  <2> DEFINE c == Cell("string", str)
  <2> HIDE DEF c, v
  <2>1. v \in Nat \ {NULL} /\ v \notin Live /\ m.h.cells = With(heap.cells, v, c)
    BY <1>1, <1>4 DEF Live, c
  <2>2. /\ DOMAIN m.h.cells = Live \cup {v} /\ m.h.cells[v] = c
        /\ \A x \in Live : m.h.cells[x] = heap.cells[x]
        /\ m.h.cells = [x \in DOMAIN m.h.cells |-> m.h.cells[x]]
    BY <2>1 DEF With, Live
  <2>3. IsTree(m.h, {v}, v, NULL) /\ Kids(m.h, v) = {}
    <3>1. "string" \in Types BY DEF Types
    <3> QED BY <2>1, <2>2, <3>1, AloneTree DEF c
  <2>4. Whole(m.h, held \cup {v}, refused)
    <3>1. {v} \cap DOMAIN heap.cells = {} /\ DOMAIN m.h.cells = DOMAIN heap.cells \cup {v}
      BY <2>1, <2>2 DEF Live
    <3>2. \A x \in DOMAIN heap.cells : m.h.cells[x] = heap.cells[x] BY <2>2 DEF Live
    <3> QED BY <2>2, <2>3, <3>1, <3>2, <1>1, MakeWhole
  <2>5. o \notin Below(m.h, {v})
    <3>1. Below(m.h, {v}) = {v} BY <2>3 DEF IsTree, IsForest
    <3> QED BY <2>1, <3>1
  <2>6. held \cup ({v} \ {NULL}) = held \cup {v} BY <2>1
  <2>7. v \in held \cup {v} /\ o \in DOMAIN m.h.cells /\ m.h.cells[o] = heap.cells[o] BY <2>2
  <2>8. MayGive(m.h, held \cup {v}, o, v) BY <2>5, <2>7 DEF MayGive
  <2>9. StringMade(m.h, v, o, str)
    BY <2>1, <2>3, <2>4, <2>6, <2>7, <2>8, <1>2, Zenon DEF StringMade, c
  <2> QED BY <2>9 DEF v
<1> QED BY <1>2, <1>3, <1>4

\* The string that was made is put in o, or freed.
LEMMA SetKeeps ==
  ASSUME Ready, NEW o \in Live, NEW n, NEW str \in Seq(STRING),
         NEW m, m = json_value_init(Start(n), "string", str),
         NEW q, GiveResult(m.h, q, o, m.v),
         heap' = Spent(IF q.ok THEN q.h ELSE json_value_free(q.h, m.v)), call'.ok = q.ok,
         held' = held, refused' = refused
  PROVE  Keeps /\ IsHeap(heap') /\ Exact(heap')
<1> DEFINE v == m.v
           H == held \cup ({v} \ {NULL})
           Final == IF q.ok THEN q.h ELSE json_value_free(q.h, v)
           cell == Cell("string", str)
<1>1. /\ IsHeap(m.h) /\ o \in DOMAIN m.h.cells /\ m.h.cells[o] = heap.cells[o]
      /\ Whole(m.h, H, refused) /\ MayGive(m.h, H, o, v) /\ Exact(m.h)
      /\ v = NULL => m.h.cells = heap.cells
      /\ v # NULL => /\ v \notin Live /\ Kids(m.h, v) = {} /\ m.h.cells = With(heap.cells, v, cell)
  <2>1. StringMade(m.h, m.v, o, str) BY StringWhole
  <2> QED BY <2>1, Zenon DEF StringMade
<1>2. Whole(heap, held, refused) /\ IsHeap(heap) BY DEF Ready
<1>3. /\ IsHeap(q.h) /\ q.ok \in BOOLEAN /\ Exact(q.h)
      /\ q.ok => v # NULL /\ \E old \in None(Kids(m.h, o)) : Gave(m.h, q.h, o, v, old)
      /\ ~q.ok => Kept(m.h, q.h, o)
  BY <1>1, Zenon DEF GiveResult
<1>4. /\ heap.cells = [x \in Live |-> heap.cells[x]] /\ heap.cells[o] \in Cells
      /\ refused \subseteq held
  BY <1>2, WholeFacts DEF Whole, CellOK, Live
<1>5. heap' = Spent(Final) OBVIOUS
<1> HIDE DEF v, cell, Final
<1>6. v # NULL => /\ DOMAIN m.h.cells = Live \cup {v} /\ m.h.cells[v] = cell
                  /\ \A x \in Live : m.h.cells[x] = heap.cells[x]
  BY <1>1 DEF With, Live
<1>7. CASE q.ok
  <2>1. v # NULL BY <1>3, <1>7
  <2>2. PICK old \in None(Kids(m.h, o)) : Gave(m.h, q.h, o, v, old) BY <1>3, <1>7
  <2>3. heap' = Spent(q.h) BY <1>5, <1>7 DEF Final
  <2>4. IsHeap(heap') /\ heap'.cells = q.h.cells /\ Exact(heap')
    BY <2>3, <1>3, MemoryFacts, SpentExact
  <2>5. Gave(m.h, heap', o, v, old) BY <2>2, <2>4 DEF Gave
  <2>6. Kids(m.h, o) = Kids(heap, o) BY <1>1 DEF Kids
  <2>7. old \in None(Kids(heap, o)) /\ old \subseteq Kids(heap, o) BY <2>2, <2>6 DEF None
  <2>8. v \in H /\ o \notin Below(m.h, {v}) BY <2>1, <1>1 DEF MayGive
  <2>9. /\ DOMAIN m.h.cells = Live \cup {v} /\ \A x \in Live : m.h.cells[x] = heap.cells[x]
        /\ v \notin Live => Kids(m.h, v) = {}
    BY <2>1, <1>1, <1>6
  <2>10. {} = {v} \cap Live BY <2>1, <1>1
  <2>11. held' = held \ {} /\ refused' = refused \ {} /\ call'.ok BY <1>7
  <2>12. Put(o, {}, old) /\ heap'.cells = [x \in Live' |-> heap'.cells[x]]
    <3> DEFINE none == {}
    <3>1. none = {v} \cap Live /\ held' = held \ none /\ refused' = refused \ none
      BY <2>10, <2>11
    <3> HIDE DEF none, H
    <3>2. Put(o, none, old) /\ heap'.cells = [x \in Live' |-> heap'.cells[x]]
      BY <2>5, <2>7, <2>8, <2>9, <2>11, <3>1, <1>1, <1>2, GavePut
    <3> QED BY <3>2 DEF none
  <2>13. {} \in None(held) BY DEF None
  <2> QED BY <2>4, <2>7, <2>12, <2>13, Zenon DEF Keeps
<1>8. CASE ~q.ok
  <2>1. PICK c \in Nat : c >= heap.cells[o].capacity /\ q.h.cells = Resized(m.h, o, c)
    BY <1>1, <1>3, <1>8 DEF Kept
  <2>2. IsHeap(Final) /\ Final.cells = Resized(heap, o, c) /\ Exact(Final)
    <3>1. CASE v = NULL
      <4>1. Final = q.h BY <3>1, <1>8 DEF Final, json_value_free
      <4> QED BY <3>1, <4>1, <2>1, <1>1, <1>3 DEF Resized
    <3>2. CASE v # NULL
      <4>1. Final = FreeAll(q.h, {v}) BY <3>2, <1>8 DEF Final, json_value_free
      <4>2. /\ DOMAIN m.h.cells = Live \cup {v} /\ m.h.cells[v] = cell /\ v \notin Live
            /\ m.h.cells = [x \in DOMAIN m.h.cells |-> m.h.cells[x]]
            /\ \A x \in Live : m.h.cells[x] = heap.cells[x]
        BY <3>2, <1>1, <1>6 DEF With
      <4>3. /\ DOMAIN q.h.cells = Live \cup {v} /\ q.h.cells[v] = cell
            /\ \A x \in Live : q.h.cells[x] = IF x = o THEN [heap.cells[o] EXCEPT !.capacity = c]
                                                       ELSE heap.cells[x]
        BY <4>2, <2>1 DEF Resized
      <4>4. IsTree(q.h, {v}, v, NULL)
        <5>1. "string" \in Types BY DEF Types
        <5>2. v \in Nat \ {NULL} BY <3>2, <4>2, <1>1, WholeFacts
        <5> QED BY <4>3, <5>1, <5>2, AloneTree DEF cell
      <4>5. EachOnce(q.h, Below(q.h, {v}), {v}) /\ Below(q.h, {v}) = {v}
        BY <4>4 DEF IsTree, IsForest
      <4>6. /\ IsHeap(Final) /\ Final.cells = [x \in DOMAIN q.h.cells \ {v} |-> q.h.cells[x]]
            /\ Exact(Final)
        <5>1. /\ IsHeap(FreeAll(q.h, {v})) /\ Exact(FreeAll(q.h, {v}))
              /\ FreeAll(q.h, {v}).cells = [x \in DOMAIN q.h.cells \ Below(q.h, {v}) |-> q.h.cells[x]]
          BY <4>5, <1>3, FreeFacts
        <5> QED BY <4>1, <4>5, <5>1
      <4>7. DOMAIN q.h.cells \ {v} = Live BY <4>2, <4>3
      <4>8. Final.cells = [x \in Live |-> IF x = o THEN [heap.cells[o] EXCEPT !.capacity = c]
                                                   ELSE heap.cells[x]]
        BY <4>3, <4>6, <4>7
      <4>9. Resized(heap, o, c) = [x \in Live |-> IF x = o THEN [heap.cells[o] EXCEPT !.capacity = c]
                                                           ELSE heap.cells[x]]
        BY <1>4, ResizedFacts
      <4> QED BY <4>6, <4>8, <4>9
    <3> QED BY <3>1, <3>2
  <2>3. IsHeap(heap') /\ heap'.cells = Resized(heap, o, c) /\ Exact(heap')
    BY <2>2, <1>5, MemoryFacts, SpentExact
  <2>4. heap'.cells[o].capacity = c
    <3>1. heap'.cells[o] = [heap.cells[o] EXCEPT !.capacity = c] BY <2>3, <1>4, ResizedFacts
    <3> QED BY <3>1, <1>4 DEF Cells
  <2>5. Fail /\ heap'.cells = [x \in Live' |-> heap'.cells[x]]
    BY <2>1, <2>3, <2>4, <1>2, <1>4, <1>8, KeptFail
  <2> QED BY <2>3, <2>5, Zenon DEF Keeps
<1> QED BY <1>3, <1>7, <1>8
LEMMA SetStringKeeps ==
  ASSUME Ready, NEW o \in Objects, NEW name \in Names, NEW str \in Seq(STRING), SetString(o, name, str)
  PROVE  Keeps /\ IsHeap(heap') /\ Exact(heap')
<1> DEFINE String(h)    == json_value_init(h, "string", str)
           Setter(h, v) == json_object_set_value(h, o, name, v)
           Both(h)      == LET n == String(h)
                               r == Setter(n.h, n.v)
                           IN  [h |-> IF r.ok THEN r.h ELSE json_value_free(r.h, n.v),
                                ok |-> r.ok, v |-> n.v]
<1>1. PICK r \in Results(Both) :
        /\ Returns(r.h, Call("set", o, name, r.v, r.ok), held)
        /\ refused' = refused
  BY Zenon DEF SetString, Set
<1>2. PICK n \in 0 .. MaxFuel : r = [Both(Start(n)) EXCEPT !.h = Spent(Both(Start(n)).h)]
  BY <1>1, Zenon DEF Results, Start
<1> DEFINE m == String(Start(n))
           q == Setter(m.h, m.v)
           Final == IF q.ok THEN q.h ELSE json_value_free(q.h, m.v)
<1>3. o \in Live /\ heap.cells[o].type = "object" /\ name \in Seq(STRING)
  BY NamesAssumption DEF Objects, Live
<1>4. StringMade(m.h, m.v, o, str)
  <2>1. m = json_value_init(Start(n), "string", str) OBVIOUS
  <2> HIDE DEF m
  <2> QED BY <2>1, <1>3, StringWhole
<1>5. GiveResult(m.h, q, o, m.v)
  <2>1. q = Setter(m.h, m.v) OBVIOUS
  <2> HIDE DEF m, q
  <2>2. /\ IsHeap(m.h) /\ o \in DOMAIN m.h.cells /\ m.h.cells[o] = heap.cells[o]
        /\ Whole(m.h, held \cup ({m.v} \ {NULL}), refused)
        /\ MayGive(m.h, held \cup ({m.v} \ {NULL}), o, m.v)
    BY <1>4, Zenon DEF StringMade
  <2> QED BY <2>1, <2>2, <1>3, SetValueFacts
<1>6. r.h = Spent(Final) /\ r.ok = q.ok
  <2>1. Both(Start(n)) = [h |-> Final, ok |-> q.ok, v |-> m.v] BY Zenon
  <2> HIDE DEF Both, Final, q, m
  <2> QED BY <2>1, <1>2
<1>7. heap' = Spent(Final) /\ call'.ok = q.ok /\ held' = held
  <2> HIDE DEF Both, Final, q, m
  <2> QED BY <1>1, <1>6 DEF Returns, Call
<1>8. m = json_value_init(Start(n), "string", str) OBVIOUS
<1> HIDE DEF m, q
<1> QED BY <1>1, <1>3, <1>5, <1>7, <1>8, SetKeeps DEF Final

LEMMA AppendStringKeeps ==
  ASSUME Ready, NEW o \in Arrays, NEW str \in Seq(STRING), AppendString(o, str)
  PROVE  Keeps /\ IsHeap(heap') /\ Exact(heap')
<1> DEFINE String(h)    == json_value_init(h, "string", str)
           Setter(h, v) == json_array_append_value(h, o, v)
           Both(h)      == LET n == String(h)
                               r == Setter(n.h, n.v)
                           IN  [h |-> IF r.ok THEN r.h ELSE json_value_free(r.h, n.v),
                                ok |-> r.ok, v |-> n.v]
<1>1. PICK r \in Results(Both) :
        /\ Returns(r.h, Call("append", o, <<>>, r.v, r.ok), held)
        /\ refused' = refused
  BY Zenon DEF AppendString, Set
<1>2. PICK n \in 0 .. MaxFuel : r = [Both(Start(n)) EXCEPT !.h = Spent(Both(Start(n)).h)]
  BY <1>1, Zenon DEF Results, Start
<1> DEFINE m == String(Start(n))
           q == Setter(m.h, m.v)
           Final == IF q.ok THEN q.h ELSE json_value_free(q.h, m.v)
<1>3. o \in Live /\ heap.cells[o].type # "object"
  BY DEF Arrays, Live
<1>4. StringMade(m.h, m.v, o, str)
  <2>1. m = json_value_init(Start(n), "string", str) OBVIOUS
  <2> HIDE DEF m
  <2> QED BY <2>1, <1>3, StringWhole
<1>5. GiveResult(m.h, q, o, m.v)
  <2>1. q = Setter(m.h, m.v) OBVIOUS
  <2> HIDE DEF m, q
  <2>2. /\ IsHeap(m.h) /\ o \in DOMAIN m.h.cells /\ m.h.cells[o] = heap.cells[o]
        /\ Whole(m.h, held \cup ({m.v} \ {NULL}), refused)
        /\ MayGive(m.h, held \cup ({m.v} \ {NULL}), o, m.v)
    BY <1>4, Zenon DEF StringMade
  <2> QED BY <2>1, <2>2, <1>3, AppendValueFacts
<1>6. r.h = Spent(Final) /\ r.ok = q.ok
  <2>1. Both(Start(n)) = [h |-> Final, ok |-> q.ok, v |-> m.v] BY Zenon
  <2> HIDE DEF Both, Final, q, m
  <2> QED BY <2>1, <1>2
<1>7. heap' = Spent(Final) /\ call'.ok = q.ok /\ held' = held
  <2> HIDE DEF Both, Final, q, m
  <2> QED BY <1>1, <1>6 DEF Returns, Call
<1>8. m = json_value_init(Start(n), "string", str) OBVIOUS
<1> HIDE DEF m, q
<1> QED BY <1>1, <1>3, <1>5, <1>7, <1>8, SetKeeps DEF Final

LEMMA ReplaceStringKeeps ==
  ASSUME Ready, NEW o \in Arrays, NEW str \in Seq(STRING),
         NEW i \in 1 .. Count(heap, o) + 1, ReplaceString(o, i, str)
  PROVE  Keeps /\ IsHeap(heap') /\ Exact(heap')
<1> DEFINE String(h)    == json_value_init(h, "string", str)
           Setter(h, v) == json_array_replace_value(h, o, i, v)
           Both(h)      == LET n == String(h)
                               r == Setter(n.h, n.v)
                           IN  [h |-> IF r.ok THEN r.h ELSE json_value_free(r.h, n.v),
                                ok |-> r.ok, v |-> n.v]
<1>1. PICK r \in Results(Both) :
        /\ Returns(r.h, Call("replace", o, <<>>, r.v, r.ok), held)
        /\ refused' = refused
  BY Zenon DEF ReplaceString, Set
<1>2. PICK n \in 0 .. MaxFuel : r = [Both(Start(n)) EXCEPT !.h = Spent(Both(Start(n)).h)]
  BY <1>1, Zenon DEF Results, Start
<1> DEFINE m == String(Start(n))
           q == Setter(m.h, m.v)
           Final == IF q.ok THEN q.h ELSE json_value_free(q.h, m.v)
<1>3. o \in Live /\ (i > Count(heap, o) \/ i \in DOMAIN heap.cells[o].vals)
  <2>1. o \in Live BY DEF Arrays
  <2> QED BY <2>1, ItemPlace
<1>4. StringMade(m.h, m.v, o, str)
  <2>1. m = json_value_init(Start(n), "string", str) OBVIOUS
  <2> HIDE DEF m
  <2> QED BY <2>1, <1>3, StringWhole
<1>5. GiveResult(m.h, q, o, m.v)
  <2>1. q = Setter(m.h, m.v) OBVIOUS
  <2> HIDE DEF m, q
  <2>2. /\ IsHeap(m.h) /\ o \in DOMAIN m.h.cells /\ m.h.cells[o] = heap.cells[o]
        /\ Whole(m.h, held \cup ({m.v} \ {NULL}), refused)
        /\ MayGive(m.h, held \cup ({m.v} \ {NULL}), o, m.v)
    BY <1>4, Zenon DEF StringMade
  <2>3. i > Count(m.h, o) \/ i \in DOMAIN m.h.cells[o].vals BY <1>3, <2>2 DEF Count
  <2> QED BY <2>1, <2>2, <2>3, ReplaceValueFacts
<1>6. r.h = Spent(Final) /\ r.ok = q.ok
  <2>1. Both(Start(n)) = [h |-> Final, ok |-> q.ok, v |-> m.v] BY Zenon
  <2> HIDE DEF Both, Final, q, m
  <2> QED BY <2>1, <1>2
<1>7. heap' = Spent(Final) /\ call'.ok = q.ok /\ held' = held
  <2> HIDE DEF Both, Final, q, m
  <2> QED BY <1>1, <1>6 DEF Returns, Call
<1>8. m = json_value_init(Start(n), "string", str) OBVIOUS
<1> HIDE DEF m, q
<1> QED BY <1>1, <1>3, <1>5, <1>7, <1>8, SetKeeps DEF Final

\* One cell of a heap is written.
LEMMA CellField ==
  ASSUME NEW h, IsHeap(h), NEW E, h.cells = [x \in E |-> h.cells[x]], NEW o \in E, NEW d,
         NEW g, g = [h EXCEPT !.cells = [@ EXCEPT ![o] = d]]
  PROVE  IsHeap(g) /\ g.cells = [x \in E |-> IF x = o THEN d ELSE h.cells[x]]
<1> DEFINE f == [h.cells EXCEPT ![o] = d]
<1>1. g = [h EXCEPT !.cells = f] OBVIOUS
<1>2. f = [x \in E |-> IF x = o THEN d ELSE h.cells[x]] OBVIOUS
<1> HIDE DEF f
<1>3. IsHeap(g) /\ g.cells = f BY <1>1, CellsField
<1> QED BY <1>2, <1>3

\* The heap a call begins with, when what is below some values of o is freed.
LEMMA FreedBelow ==
  ASSUME Ready, NEW o \in Live, NEW S, S \subseteq Kids(heap, o)
  PROVE  LET g == FreeAll(Begin, S)
             E == Live \ Below(heap, S)
         IN  IsHeap(g) /\ g.cells = [x \in E |-> heap.cells[x]] /\ o \in E /\ Exact(g)
<1>1. /\ IsHeap(Begin) /\ Begin.cells = heap.cells /\ Whole(Begin, held, refused) /\ Exact(Begin)
      /\ Whole(heap, held, refused)
  <2>1. IsHeap(Begin) /\ Begin.cells = heap.cells BY StartFacts DEF Ready
  <2> QED BY <2>1, SameCells, StartExact DEF Ready
<1>2. Forest(Begin, held) /\ Forest(heap, held) BY <1>1, WholeFacts
<1>3. S \subseteq Kids(Begin, o) /\ o \in DOMAIN Begin.cells /\ Below(Begin, S) = Below(heap, S)
  BY <1>1, SameCells DEF Live
<1>4. EachOnce(Begin, Below(Begin, S), S) BY <1>2, <1>3, FreedOnce
<1>5. o \notin Below(heap, S) BY <1>2, OnlyFromAbove DEF Live
<1>6. /\ IsHeap(FreeAll(Begin, S)) /\ Exact(FreeAll(Begin, S))
      /\ FreeAll(Begin, S).cells = [x \in DOMAIN Begin.cells \ Below(Begin, S) |-> Begin.cells[x]]
  BY <1>1, <1>4, FreeFacts
<1> QED BY <1>1, <1>3, <1>5, <1>6 DEF Live

\* The table of o has n names more than before, and the heap p n blocks more than g.
Edited(g, p, o, d, n) ==
  /\ o \in DOMAIN g.cells /\ DOMAIN p.cells = DOMAIN g.cells
  /\ g.cells[o] = heap.cells[o] /\ p.cells[o] = d
  /\ \A x \in DOMAIN g.cells \ {o} : p.cells[x] = g.cells[x]
  /\ n \in Int /\ Len(d.names) = Len(heap.cells[o].names) + n
  /\ p.blocks = g.blocks + n /\ p.lost = g.lost

LEMMA CutExact ==
  ASSUME Ready, NEW o \in Live, NEW d, NEW old, Emptied(heap.cells[o], d, old),
         NEW g, Exact(g), NEW p, NEW n, Edited(g, p, o, d, n)
  PROVE  Exact(p)
<1> DEFINE c == heap.cells[o]
<1>1. CellOK(c) /\ IsInjective(c.vals) BY WholeFacts DEF Ready, Live
<1> HIDE DEF c
<1>2. CellOK(d) /\ d.type = c.type /\ d.capacity = c.capacity BY <1>1, EmptiedFacts DEF c
<1>3. c \in Cells /\ d \in Cells BY <1>1, <1>2 DEF CellOK
<1>4. Owned(d) = Owned(c) + n
  <2>1. Len(d.names) = Len(c.names) + n /\ n \in Int BY DEF c, Edited
  <2>2. Parts(c.type) \in Nat /\ Tables(c.type) \in Nat /\ Len(c.names) \in Nat
    BY <1>3, OwnedFacts
  <2> QED BY <2>1, <2>2, <1>2 DEF Owned
<1>5. DOMAIN p.cells = DOMAIN g.cells /\ o \in DOMAIN g.cells /\ p.cells[o] = d /\ g.cells[o] = c
  BY DEF c, Edited
<1>6. \A x \in DOMAIN g.cells : x # o => p.cells[x] = g.cells[x] BY DEF Edited
<1>7. \A x \in DOMAIN g.cells : p.cells[x] \in Cells BY <1>3, <1>5, <1>6 DEF Exact
<1>8. \A x \in DOMAIN g.cells \ {o} : Owned(p.cells[x]) = Owned(g.cells[x]) BY <1>6
<1>9. Owned(p.cells[o]) = Owned(g.cells[o]) + n BY <1>4, <1>5
<1>10. n \in Int /\ p.blocks = g.blocks + n /\ p.lost = g.lost BY DEF Edited
<1> QED BY <1>5, <1>7, <1>8, <1>9, <1>10, ExactChange

\* What is in old leaves o.
LEMMA CutKept ==
  ASSUME Ready, NEW o \in Live, NEW old \in Removed(o), NEW d, Emptied(heap.cells[o], d, old),
         IsHeap(heap'), Exact(heap'), o \notin Below(heap, old),
         heap'.cells = [x \in Live \ Below(heap, old) |-> IF x = o THEN d ELSE heap.cells[x]],
         held' = held, refused' = refused, call'.ok
  PROVE  Keeps /\ IsHeap(heap') /\ Exact(heap')
<1>1. /\ Live' = Live \ Below(heap, old)
      /\ heap'.cells = [x \in Live' |-> heap'.cells[x]]
  BY DEF Live
<1>2. Same(Live' \ {o}) /\ heap'.cells[o] = d BY <1>1 DEF Same
<1>3. Cut(o, old) BY <1>1, <1>2 DEF Cut
<1> QED BY <1>1, <1>3, Zenon DEF Keeps

\* A value of o is freed.
LEMMA FreedItem ==
  ASSUME Ready, NEW o \in Live, NEW i \in DOMAIN heap.cells[o].vals
  PROVE  LET old == heap.cells[o].vals[i]
             g   == json_value_free(Begin, old)
             E   == Live \ Below(heap, {old})
         IN  /\ IsHeap(g) /\ g.cells = [x \in E |-> heap.cells[x]] /\ o \in E
             /\ {old} \in Removed(o) /\ Exact(g)
<1> DEFINE old == heap.cells[o].vals[i]
<1>1. old \in Kids(heap, o) BY DEF Kids, Range
<1>2. old # NULL
  <2>1. Whole(heap, held, refused) BY DEF Ready
  <2>2. DOMAIN heap.cells \subseteq Nat \ {NULL} /\ Kids(heap, o) \subseteq DOMAIN heap.cells
    BY <2>1, WholeFacts DEF Live
  <2> QED BY <1>1, <2>2
<1>3. json_value_free(Begin, old) = FreeAll(Begin, {old}) BY <1>2 DEF json_value_free
<1> HIDE DEF old
<1>4. {old} \subseteq Kids(heap, o) /\ {old} \in Removed(o) BY <1>1 DEF Removed, None
<1> QED BY <1>3, <1>4, FreedBelow DEF old

LEMMA RemoveNameKeeps ==
  ASSUME Ready, NEW o \in Objects, NEW name \in Names, RemoveName(o, name)
  PROVE  Keeps /\ IsHeap(heap') /\ Exact(heap')
<1> DEFINE m == json_object_remove_internal(Begin, o, name, TRUE)
           I == Index(heap, o, name)
           c == heap.cells[o]
<1>1. heap' = m.h /\ call'.ok = m.ok /\ held' = held /\ refused' = refused
  <2>1. Returns(m.h, Call("remove", o, name, NULL, m.ok), held) /\ refused' = refused
    BY Zenon DEF RemoveName, Less, Result
  <2> HIDE DEF m
  <2> QED BY <2>1 DEF Returns, Call
<1>2. /\ IsHeap(Begin) /\ Begin.cells = heap.cells /\ Whole(heap, held, refused)
      /\ o \in Live /\ o \in DOMAIN heap.cells /\ c.type = "object" /\ Exact(Begin)
  BY StartFacts, StartExact DEF Ready, Objects, Live
<1>3. /\ c.names \in Seq(Seq(STRING)) /\ c.vals \in Seq(Nat) /\ Len(c.names) = Len(c.vals)
      /\ refused \subseteq held
  BY <1>2, WholeFacts, CellFields DEF CellOK, Fits
<1>4. Index(Begin, o, name) = I BY <1>2 DEF Index
<1>5. CASE I = {}
  <2>1. m = [h |-> Begin, ok |-> FALSE]
    BY <1>4, <1>5, Zenon DEF json_object_remove_internal, Status
  <2> HIDE DEF m
  <2>2. heap'.cells = heap.cells /\ IsHeap(heap') /\ ~call'.ok /\ Exact(heap') BY <2>1, <1>1, <1>2
  <2>3. Fail /\ heap'.cells = [x \in Live' |-> heap'.cells[x]]
    BY <2>2, <1>1, <1>2, <1>3, SameFail
  <2> QED BY <2>2, <2>3, Zenon DEF Keeps
<1>6. CASE I # {}
  <2> DEFINE i == Min(I)
             old == c.vals[i]
             g == json_value_free(Begin, old)
             d == [c EXCEPT !.names = Without(@, i), !.vals = Without(@, i)]
             E == Live \ Below(heap, {old})
             k == Release(g, 1)
  <2>1. i \in DOMAIN c.vals BY <1>3, <1>6, IndexFacts
  <2>2. m = [h |-> DropPair(g, o, i), ok |-> TRUE]
    <3>1. Min(Index(Begin, o, name)) = i /\ Begin.cells[o].vals[i] = old BY <1>2, <1>4
    <3>2. m = Status(DropPair(json_value_free(Begin, Begin.cells[o].vals[i]), o, i), TRUE)
      BY <1>4, <1>6, Zenon DEF json_object_remove_internal
    <3> HIDE DEF m, i
    <3> QED BY <3>1, <3>2 DEF Status
  <2> HIDE DEF i
  <2>3. /\ IsHeap(g) /\ g.cells = [x \in E |-> heap.cells[x]] /\ o \in E
        /\ {old} \in Removed(o) /\ Exact(g)
    BY <1>2, <2>1, FreedItem
  <2>4. /\ IsHeap(k) /\ k.cells = [x \in E |-> heap.cells[x]]
        /\ k.blocks = g.blocks - 1 /\ k.lost = g.lost
    BY <2>3, MemoryFacts, MemoryBlocks
  <2>5. DropPair(g, o, i) = [k EXCEPT !.cells = [@ EXCEPT ![o] = d]]
    <3>1. g.cells[o] = c BY <2>3
    <3>2. DropPair(g, o, i) = [k EXCEPT !.cells[o] = d]
      BY <3>1 DEF DropPair
    <3> HIDE DEF d, k
    <3> QED BY <3>2
  <2> HIDE DEF m, g, k, E, old
  <2>6. /\ IsHeap(DropPair(g, o, i))
        /\ DropPair(g, o, i).cells = [x \in E |-> IF x = o THEN d ELSE k.cells[x]]
        /\ DropPair(g, o, i).blocks = k.blocks /\ DropPair(g, o, i).lost = k.lost
    <3>1. k.cells = [x \in E |-> k.cells[x]] BY <2>4
    <3>2. IsHeap(k) /\ o \in E BY <2>3, <2>4
    <3> DEFINE p == DropPair(g, o, i)
    <3> HIDE DEF d, p
    <3>3. p = [k EXCEPT !.cells = [@ EXCEPT ![o] = d]] BY <2>5 DEF p
    <3>4. IsHeap(p) /\ p.cells = [x \in E |-> IF x = o THEN d ELSE k.cells[x]]
      BY ONLY <3>1, <3>2, <3>3, CellField
    <3>5. p.blocks = k.blocks /\ p.lost = k.lost
      <4> DEFINE f == [k.cells EXCEPT ![o] = d]
      <4>1. p = [k EXCEPT !.cells = f] BY <3>3
      <4> HIDE DEF f
      <4> QED BY ONLY <3>2, <4>1, CellsBlocks
    <3> QED BY <3>4, <3>5 DEF p
  <2>7. heap' = DropPair(g, o, i) /\ call'.ok BY <2>2, <1>1
  <2>8. heap'.cells = [x \in E |-> IF x = o THEN d ELSE heap.cells[x]]
    <3>1. \A x \in E : k.cells[x] = heap.cells[x] BY <2>4
    <3> HIDE DEF d
    <3> QED BY <3>1, <2>6, <2>7
  <2>9. Emptied(c, d, {old}) BY <1>2, <2>1 DEF Emptied, old
  <2>10. Len(d.names) = Len(c.names) + (-1)
    <3>1. i \in DOMAIN c.names BY <2>1, <1>3
    <3> DEFINE u == c.names
               w == Without(u, i)
    <3>2. d.names = w /\ u \in Seq(Seq(STRING)) /\ i \in DOMAIN u /\ IsInjective(u)
      <4>1. c \in Cells /\ IsInjective(c.names) BY <1>2, WholeFacts DEF CellOK
      <4> HIDE DEF c, w
      <4>2. d.names = Without(c.names, i) BY <4>1 DEF Cells
      <4> QED BY <4>1, <4>2, <3>1, <1>3 DEF w
    <3> HIDE DEF u, c, d
    <3>3. Len(w) = Len(u) - 1 /\ Len(u) \in Nat BY <3>2, WithoutFacts
    <3> QED BY <3>2, <3>3 DEF u
  <2>11. Exact(heap')
    <3>1. heap'.blocks = g.blocks + (-1) /\ heap'.lost = g.lost
      <4>1. g.blocks \in Nat BY <2>3, ExactNat
      <4> QED BY <4>1, <2>4, <2>6, <2>7
    <3> DEFINE n == -1
    <3>2. n \in Int /\ heap'.blocks = g.blocks + n /\ Len(d.names) = Len(c.names) + n
      BY <3>1, <2>10
    <3> HIDE DEF n, d
    <3>3. DOMAIN g.cells = E /\ o \in E /\ \A x \in E : g.cells[x] = heap.cells[x] BY <2>3
    <3>4. /\ DOMAIN heap'.cells = E /\ heap'.cells[o] = d
          /\ \A x \in E \ {o} : heap'.cells[x] = heap.cells[x]
      BY <2>3, <2>8
    <3>5. Edited(g, heap', o, d, n) BY <3>1, <3>2, <3>3, <3>4 DEF Edited
    <3> QED BY <3>5, <2>3, <2>9, <1>2, CutExact
  <2> QED BY <2>3, <2>6, <2>7, <2>8, <2>9, <2>11, <1>1, <1>2, CutKept DEF E
<1> QED BY <1>5, <1>6

LEMMA ItemRemoved ==
  ASSUME Ready, NEW o \in Arrays, NEW i \in DOMAIN heap.cells[o].vals, ~(i > Count(heap, o)),
         RemoveItem(o, i)
  PROVE  Keeps /\ IsHeap(heap') /\ Exact(heap')
<1> DEFINE m == json_array_remove(Begin, o, i)
           c == heap.cells[o]
           old == c.vals[i]
           g == json_value_free(Begin, old)
           d == [c EXCEPT !.vals = RemoveAt(@, i)]
           E == Live \ Below(heap, {old})
           k == [g EXCEPT !.cells = [@ EXCEPT ![o] = d]]
<1>1. heap' = m.h /\ call'.ok = m.ok /\ held' = held /\ refused' = refused
  <2>1. Returns(m.h, Call("item", o, <<>>, NULL, m.ok), held) /\ refused' = refused
    BY Zenon DEF RemoveItem, Less, Result
  <2> HIDE DEF m
  <2> QED BY <2>1 DEF Returns, Call
<1>2. Begin.cells = heap.cells /\ o \in Live /\ c.type # "object"
  BY StartFacts DEF Ready, Arrays, Live
<1>3. i \in DOMAIN c.vals OBVIOUS
<1>4. /\ IsHeap(g) /\ g.cells = [x \in E |-> heap.cells[x]] /\ o \in E
      /\ {old} \in Removed(o) /\ Exact(g)
  BY <1>2, <1>3, FreedItem
<1>5. m = [h |-> k, ok |-> TRUE]
  <2>1. g.cells[o] = c BY <1>4
  <2>2. ~(i > Count(Begin, o)) BY <1>2 DEF Count
  <2> QED BY <2>1, <2>2, <1>2 DEF json_array_remove, Status
<1> HIDE DEF m, g, E, old
<1>6. /\ IsHeap(k) /\ k.cells = [x \in E |-> IF x = o THEN d ELSE g.cells[x]]
      /\ k.blocks = g.blocks /\ k.lost = g.lost
  <2>1. g.cells = [x \in E |-> g.cells[x]] BY <1>4
  <2> HIDE DEF d
  <2>2. IsHeap(k) /\ k.cells = [x \in E |-> IF x = o THEN d ELSE g.cells[x]]
    BY <2>1, <1>4, CellField
  <2>3. k.blocks = g.blocks /\ k.lost = g.lost BY <1>4, CellsBlocks
  <2> QED BY <2>2, <2>3
<1>7. heap' = k /\ call'.ok BY <1>1, <1>5
<1>8. heap'.cells = [x \in E |-> IF x = o THEN d ELSE heap.cells[x]]
  <2>1. \A x \in E : g.cells[x] = heap.cells[x] BY <1>4
  <2> HIDE DEF d, k
  <2> QED BY <2>1, <1>6, <1>7
<1>9. Emptied(c, d, {old}) BY <1>2, <1>3 DEF Emptied, old
<1>10. Exact(heap')
  <2> DEFINE n == 0
  <2>1. Len(d.names) = Len(c.names) + n /\ n \in Int
    <3>1. c \in Cells BY <1>2, WholeFacts DEF CellOK, Ready, Live
    <3>2. d.names = c.names
      <4> HIDE DEF c
      <4> QED BY <3>1 DEF Cells
    <3>3. Len(c.names) \in Nat BY <3>1, OwnedFacts
    <3> QED BY <3>2, <3>3
  <2>2. heap'.blocks = g.blocks + n /\ heap'.lost = g.lost
    <3>1. g.blocks \in Nat BY <1>4, ExactNat
    <3> HIDE DEF k
    <3> QED BY <3>1, <1>6, <1>7
  <2> HIDE DEF n, d, k
  <2>3. DOMAIN g.cells = E /\ o \in E /\ \A x \in E : g.cells[x] = heap.cells[x] BY <1>4
  <2>4. /\ DOMAIN heap'.cells = E /\ heap'.cells[o] = d
        /\ \A x \in E \ {o} : heap'.cells[x] = heap.cells[x]
    BY <1>4, <1>8
  <2>5. Edited(g, heap', o, d, n) BY <2>1, <2>2, <2>3, <2>4 DEF Edited
  <2> QED BY <2>5, <1>2, <1>4, <1>9, CutExact
<1> QED BY <1>1, <1>2, <1>4, <1>6, <1>7, <1>8, <1>9, <1>10, CutKept DEF E

LEMMA RemoveItemKeeps ==
  ASSUME Ready, NEW o \in Arrays, NEW i \in 1 .. Count(heap, o) + 1, RemoveItem(o, i)
  PROVE  Keeps /\ IsHeap(heap') /\ Exact(heap')
<1> DEFINE m == json_array_remove(Begin, o, i)
<1>1. heap' = m.h /\ call'.ok = m.ok /\ held' = held /\ refused' = refused
  <2>1. Returns(m.h, Call("item", o, <<>>, NULL, m.ok), held) /\ refused' = refused
    BY Zenon DEF RemoveItem, Less, Result
  <2> HIDE DEF m
  <2> QED BY <2>1 DEF Returns, Call
<1>2. /\ IsHeap(Begin) /\ Begin.cells = heap.cells /\ Whole(heap, held, refused)
      /\ o \in Live /\ Exact(Begin)
  BY StartFacts, StartExact DEF Ready, Arrays, Live
<1>3. CASE i > Count(heap, o)
  <2>1. i > Count(Begin, o) BY <1>2, <1>3 DEF Count
  <2>2. m = [h |-> Begin, ok |-> FALSE] BY <2>1, Zenon DEF json_array_remove, Status
  <2> HIDE DEF m
  <2>3. heap'.cells = heap.cells /\ IsHeap(heap') /\ ~call'.ok /\ Exact(heap') BY <2>2, <1>1, <1>2
  <2>4. refused \subseteq held BY <1>2, WholeFacts
  <2>5. Fail /\ heap'.cells = [x \in Live' |-> heap'.cells[x]]
    BY <2>3, <2>4, <1>1, <1>2, SameFail
  <2> QED BY <2>3, <2>5, Zenon DEF Keeps
<1>4. CASE ~(i > Count(heap, o))
  BY <1>2, <1>4, ItemPlace, ItemRemoved
<1> QED BY <1>3, <1>4

LEMMA ClearKeeps ==
  ASSUME Ready, NEW o \in Live, Clear(o)
  PROVE  Keeps /\ IsHeap(heap') /\ Exact(heap')
<1> DEFINE m == clear(Begin, o)
           c == heap.cells[o]
           old == Kids(heap, o)
           g == FreeAll(Begin, old)
           d == [c EXCEPT !.names = <<>>, !.vals = <<>>]
           E == Live \ Below(heap, old)
           k == Release(g, Len(c.names))
<1>1. heap' = m /\ call'.ok /\ held' = held /\ refused' = refused
  <2>1. Returns(m, Call("clear", o, <<>>, NULL, TRUE), held) /\ refused' = refused
    BY DEF Clear, Less, Result, Status
  <2> HIDE DEF m
  <2> QED BY <2>1 DEF Returns, Call
<1>2. Begin.cells = heap.cells /\ IsHeap(Begin) BY StartFacts DEF Ready
<1>3. IsHeap(g) /\ g.cells = [x \in E |-> heap.cells[x]] /\ o \in E /\ Exact(g) BY FreedBelow
<1>4. /\ IsHeap(k) /\ k.cells = [x \in E |-> heap.cells[x]]
      /\ k.blocks = g.blocks - Len(c.names) /\ k.lost = g.lost
  BY <1>3, MemoryFacts, MemoryBlocks
<1>5. m = [k EXCEPT !.cells[o] = d]
  <2>1. k.cells[o] = c BY <1>3, <1>4
  <2>2. m = [Release(FreeAll(Begin, Kids(Begin, o)), Len(Begin.cells[o].names)) EXCEPT
               !.cells[o] = [@ EXCEPT !.names = <<>>, !.vals = <<>>]]
    BY DEF clear
  <2>3. Kids(Begin, o) = old /\ Begin.cells[o] = c BY <1>2, SameCells
  <2>4. Release(FreeAll(Begin, Kids(Begin, o)), Len(Begin.cells[o].names)) = k BY <2>3
  <2> HIDE DEF m, k, c, old
  <2> QED BY <2>1, <2>2, <2>4
<1> HIDE DEF m, g, k, E, old
<1>6. /\ IsHeap(m) /\ m.cells = [x \in E |-> IF x = o THEN d ELSE k.cells[x]]
      /\ m.blocks = k.blocks /\ m.lost = k.lost
  <2>1. k.cells = [x \in E |-> k.cells[x]] BY <1>4
  <2> HIDE DEF d
  <2>2. m = [k EXCEPT !.cells = [@ EXCEPT ![o] = d]] BY <1>5
  <2>3. IsHeap(k) /\ o \in E BY <1>3, <1>4
  <2>4. IsHeap(m) /\ m.cells = [x \in E |-> IF x = o THEN d ELSE k.cells[x]]
    BY ONLY <2>1, <2>2, <2>3, CellField
  <2>5. m.blocks = k.blocks /\ m.lost = k.lost
    <3> DEFINE f == [k.cells EXCEPT ![o] = d]
    <3>1. m = [k EXCEPT !.cells = f] BY <2>2
    <3> HIDE DEF f
    <3> QED BY ONLY <2>3, <3>1, CellsBlocks
  <2> QED BY <2>4, <2>5
<1>7. heap'.cells = [x \in E |-> IF x = o THEN d ELSE heap.cells[x]]
  <2>1. \A x \in E : k.cells[x] = heap.cells[x] BY <1>4
  <2> HIDE DEF d
  <2> QED BY <2>1, <1>1, <1>6
<1>8. Emptied(c, d, old) BY DEF Emptied, Kids, old
<1>9. old \in Removed(o) BY DEF Removed, old
<1>10. Exact(heap')
  <2> DEFINE n == -Len(c.names)
  <2>1. Len(d.names) = Len(c.names) + n /\ n \in Int
    <3>1. c \in Cells BY WholeFacts DEF CellOK, Ready, Live
    <3> DEFINE e == <<>>
    <3>2. d = [c EXCEPT !.names = e, !.vals = e] OBVIOUS
    <3>3. Len(c.names) \in Nat BY <3>1, OwnedFacts
    <3>4. Len(e) = 0 OBVIOUS
    <3> HIDE DEF c, d, e
    <3>5. d.names = e BY <3>1, <3>2 DEF Cells
    <3> QED BY <3>3, <3>4, <3>5
  <2>2. heap'.blocks = g.blocks + n /\ heap'.lost = g.lost
    <3>1. g.blocks \in Nat BY <1>3, ExactNat
    <3>2. n \in Int /\ Len(c.names) \in Int BY <2>1
    <3> QED BY <3>1, <3>2, <1>1, <1>4, <1>6
  <2> HIDE DEF n, d
  <2>3. DOMAIN g.cells = E /\ o \in E /\ \A x \in E : g.cells[x] = heap.cells[x] BY <1>3
  <2>4. /\ DOMAIN heap'.cells = E /\ heap'.cells[o] = d
        /\ \A x \in E \ {o} : heap'.cells[x] = heap.cells[x]
    BY <1>3, <1>7
  <2>5. Edited(g, heap', o, d, n) BY <2>1, <2>2, <2>3, <2>4 DEF Edited
  <2> QED BY <2>5, <1>3, <1>8, CutExact
<1> QED BY <1>1, <1>3, <1>6, <1>7, <1>8, <1>9, <1>10, CutKept DEF E

LEMMA FreeKeeps ==
  ASSUME Ready, NEW v \in held, Free(v)
  PROVE  Keeps /\ IsHeap(heap') /\ Exact(heap')
<1> DEFINE m == json_value_free(Begin, v)
<1>1. heap' = m /\ call'.ok /\ held' = held \ {v} /\ refused' = refused \ {v}
  <2>1. Returns(m, Other(TRUE), held \ {v}) /\ refused' = refused \ {v} BY DEF Free
  <2>2. Other(TRUE).ok BY DEF Other, NoCall
  <2> HIDE DEF m
  <2> QED BY <2>1, <2>2 DEF Returns
<1>2. /\ IsHeap(Begin) /\ Exact(Begin) /\ Begin.cells = heap.cells /\ Forest(Begin, held) /\ {v} \subseteq held
      /\ v # NULL /\ Below(Begin, {v}) = Below(heap, {v})
  <2>1. IsHeap(Begin) /\ Begin.cells = heap.cells BY StartFacts DEF Ready
  <2>2. Whole(Begin, held, refused) BY <2>1, SameCells DEF Ready
  <2> QED BY <2>1, <2>2, StartExact, SameCells, WholeFacts
<1>3. m = FreeAll(Begin, {v}) BY <1>2 DEF json_value_free
<1>4. EachOnce(Begin, Below(Begin, {v}), {v}) BY <1>2, FreedOnce
<1>5. /\ IsHeap(m) /\ m.cells = [x \in Live \ Below(heap, {v}) |-> heap.cells[x]]
      /\ Exact(m)
  BY <1>2, <1>3, <1>4, FreeFacts DEF Live
<1> HIDE DEF m
<1>6. /\ Live' = Live \ Below(heap, {v}) /\ Same(Live')
      /\ heap'.cells = [x \in Live' |-> heap'.cells[x]]
  BY <1>1, <1>5 DEF Live, Same
<1>7. Discard(v) BY <1>1, <1>6 DEF Discard
<1> QED BY <1>1, <1>5, <1>6, <1>7, Zenon DEF Keeps

\* Each of the calls, wherever malloc() fails in it.
LEMMA PlainCallKeeps ==
  ASSUME Ready, PlainCall
  PROVE  Keeps /\ IsHeap(heap') /\ Exact(heap')
<1>1. \A str \in Strings \cup {<<BAD>>} : str \in Seq(STRING)
  BY StringsAssumption
<1>2. \A o \in Objects \cup Arrays : o \in Live BY DEF Objects, Arrays
<1>3. "object" \in Types /\ "array" \in Types /\ "string" \in Types BY DEF Types, Containers
<1>4. ASSUME NEW type \in Types, NEW data, data = <<>>, Create(type, data)
      PROVE  Keeps /\ IsHeap(heap') /\ Exact(heap')
  <2>1. data \in Seq(STRING) BY <1>4
  <2> QED BY <1>4, <2>1, CreateKeeps
<1>5. CASE Create("object", <<>>) BY <1>3, <1>4, <1>5, Zenon
<1>6. CASE Create("array", <<>>) BY <1>3, <1>4, <1>6, Zenon
<1>7. CASE \E str \in Strings \cup {<<BAD>>} : Create("string", str)
  BY <1>1, <1>3, <1>7, CreateKeeps, Zenon
<1>8. CASE \E o \in Objects, name \in Names :
             \/ \E v \in held : SetValue(o, name, v)
             \/ \E s \in Strings : SetString(o, name, s)
             \/ RemoveName(o, name)
  BY <1>1, <1>8, SetValueKeeps, SetStringKeeps, RemoveNameKeeps, Zenon
<1>9. CASE \E a \in Arrays :
             \/ \E v \in held : AppendValue(a, v)
             \/ \E s \in Strings : AppendString(a, s)
             \/ \E i \in 1 .. Count(heap, a) + 1 :
                  \/ RemoveItem(a, i)
                  \/ \E v \in held : Replace(a, i, v)
                  \/ \E s \in Strings : ReplaceString(a, i, s)
  BY <1>1, <1>9, AppendValueKeeps, AppendStringKeeps, RemoveItemKeeps, ReplaceKeeps,
     ReplaceStringKeeps, Zenon
<1>10. CASE \E o \in Objects \cup Arrays : Clear(o) BY <1>2, <1>10, ClearKeeps, Zenon
<1>11. CASE \E v \in held : Free(v) BY <1>11, FreeKeeps, Zenon
<1> QED BY <1>5, <1>6, <1>7, <1>8, <1>9, <1>10, <1>11, Zenon DEF PlainCall

\* What is true after every call.
PlainInv == WellFormed /\ ParentsMatch /\ IsHeap(heap) /\ Exact(heap)

LEMMA PlainStart == Init => PlainInv
<1>1. Init => WellFormed /\ ParentsMatch BY InitWhole
<1>2. Init => IsHeap(heap) BY DEF Init, IsHeap
<1>3. ASSUME Init PROVE Exact(heap)
  <2>1. DOMAIN heap.cells = {} /\ heap.blocks = 0 /\ heap.lost = 0 BY <1>3 DEF Init
  <2>2. IsFiniteSet({}) /\ Cardinality({}) = 0 BY FS_EmptySet
  <2>3. Counted(heap, {}) /\ Places(heap, {}) = {} BY DEF Counted, Places
  <2>4. Blocks(heap, {}) = 0 BY <2>2, <2>3, BlocksCounted
  <2> QED BY <2>1, <2>2, <2>4 DEF Exact
<1> QED BY <1>1, <1>2, <1>3 DEF PlainInv

LEMMA PlainStep ==
  ASSUME PlainInv, [PlainCall]_vars
  PROVE  [Keeps]_vars /\ PlainInv'
<1>1. Ready BY WholeIf DEF PlainInv, Ready
<1>2. [Keeps]_vars /\ IsHeap(heap') /\ Exact(heap')
  <2>1. CASE PlainCall BY <1>1, <2>1, PlainCallKeeps
  <2>2. CASE UNCHANGED vars
    <3>1. heap' = heap BY <2>2 DEF vars
    <3> QED BY <2>2, <3>1 DEF PlainInv
  <2> QED BY <2>1, <2>2
<1>3. WellFormed' /\ ParentsMatch' BY <1>2, KeepsWhole DEF PlainInv
<1> QED BY <1>2, <1>3 DEF PlainInv

\* A program that makes, links, removes and frees values keeps to the contract,
\* whichever names, strings and sizes of tables there are and wherever malloc() fails.
THEOREM PlainKeepsContract == PlainSpec => Contract
<1>1. Init => PlainInv BY PlainStart
<1>2. PlainInv /\ [PlainCall]_vars => [Keeps]_vars /\ PlainInv' BY PlainStep
<1> QED BY <1>1, <1>2, PTL DEF PlainSpec, Contract

\* So its values are trees after every call, and nothing is freed that is linked.
THEOREM PlainWellFormed == PlainSpec => []WellFormed
BY PlainKeepsContract, ContractWellFormed, PTL

\* And each knows the object or array that it is in.
THEOREM PlainParentsMatch == PlainSpec => []ParentsMatch
BY PlainKeepsContract, ContractParentsMatch, PTL

\* No call loses a block that it was given, also where malloc() fails halfway.
THEOREM PlainNothingLeaks == PlainSpec => []NothingLeaks
<1>1. Init => PlainInv BY PlainStart
<1>2. PlainInv /\ [PlainCall]_vars => PlainInv' BY PlainStep
<1>3. PlainInv => NothingLeaks
  <2> SUFFICES ASSUME PlainInv PROVE NothingLeaks OBVIOUS
  <2>1. Exact(heap) BY DEF PlainInv
  <2>2. heap.blocks \in Nat /\ heap.lost = 0 /\ heap.blocks = Blocks(heap, Live)
    BY <2>1, ExactNat DEF Exact, Live
  <2> QED BY <2>2 DEF NothingLeaks
<1> QED BY <1>1, <1>2, <1>3, PTL DEF PlainSpec
=============================================================================
