------------------------ MODULE TreeRefinementProofs ------------------------
(***************************************************************************)
(* BundleTree implements PathNamespace: proofs for any clients, rows,      *)
(* slugs, requests and bounds.                                             *)
(***************************************************************************)
EXTENDS BundleTreeProofs, FiniteSetTheorems, WellFoundedInduction

-----------------------------------------------------------------------------
(* Ways down from a root.                                                  *)

\* A way of length n.
WayOf(w, n) == n \in Nat \ {0} /\ w \in [1..n -> LiveBundles] /\ IsWay(w)

\* Its first i bundles, and the way one bundle further.
Upto(w, i) == [j \in 1..i |-> w[j]]
Further(w, n, b) == [j \in 1..(n + 1) |-> IF j = n + 1 THEN b ELSE w[j]]

\* A set of naturals that is not empty has a least element.
LEMMA LeastElement ==
  ASSUME NEW S \in SUBSET Nat, S # {}
  PROVE  \E m \in S : \A n \in S : m <= n
<1>1. PICK m \in S : \A n \in S : <<n, m>> \notin OpToRel(<, Nat)
  BY WFMin, NatLessThanWellFounded, Zenon
<1>2. \A n \in S : ~(n < m)  BY <1>1, Zenon DEF OpToRel
<1>. QED BY <1>2

\* What a way is made of.
LEMMA WayParts ==
  ASSUME TypeOK, NEW w, NEW n, WayOf(w, n)
  PROVE  /\ n \in Nat /\ n >= 1 /\ DOMAIN w = 1..n
         /\ w \in Seq(Bundles) /\ Len(w) = n
         /\ w = [j \in 1..n |-> w[j]]
         /\ \A i \in 1..n : /\ w[i] \in Bundles /\ Live(w[i])
                            /\ bundles[w[i]].slug \in Slugs
         /\ bundles[w[1]].parent = Null
         /\ \A i \in 2..n : bundles[w[i]].parent = w[i - 1] /\ i - 1 \in 1..n /\ w[i - 1] # Null
<1>1. n \in Nat /\ n >= 1 /\ w \in [1..n -> LiveBundles] /\ IsWay(w)  BY DEF WayOf
<1>2. w \in [1..n -> Bundles]  BY <1>1 DEF LiveBundles
<1>3. w \in Seq(Bundles) /\ Len(w) = n /\ DOMAIN w = 1..n /\ w = [j \in 1..n |-> w[j]]
  BY <1>1, <1>2
<1>4. ASSUME NEW i \in 1..n
      PROVE  w[i] \in Bundles /\ Live(w[i]) /\ bundles[w[i]].slug \in Slugs
  <2>1. w[i] \in LiveBundles  BY <1>1
  <2>2. w[i] \in Bundles /\ Live(w[i])  BY <2>1 DEF LiveBundles
  <2>. QED BY <2>2 DEF TypeOK, Live, Bundle
<1>5. bundles[w[1]].parent = Null
  <2>1. 1 \in DOMAIN w  BY <1>1, <1>3
  <2>. QED BY <1>1, <2>1 DEF IsWay
<1>6. ASSUME NEW i \in 2..n
      PROVE  bundles[w[i]].parent = w[i - 1] /\ i - 1 \in 1..n /\ w[i - 1] # Null
  <2>1. i \in DOMAIN w /\ i # 1 /\ i - 1 \in 1..n  BY <1>1, <1>3
  <2>2. bundles[w[i]].parent = w[i - 1]  BY <1>1, <2>1 DEF IsWay
  <2>3. w[i - 1] # Null  BY <1>4, <2>1, ConstantsAssumption
  <2>. QED BY <2>1, <2>2, <2>3
<1>. QED BY <1>1, <1>3, <1>4, <1>5, <1>6

\* The first part of a way is a way.
LEMMA UptoWay ==
  ASSUME TypeOK, NEW w, NEW n, WayOf(w, n), NEW i \in 1..n
  PROVE  WayOf(Upto(w, i), i) /\ \A j \in 1..i : Upto(w, i)[j] = w[j] /\ j \in 1..n
<1>. DEFINE u == Upto(w, i)
<1>1. /\ n \in Nat /\ \A j \in 1..n : w[j] \in Bundles /\ Live(w[j])
      /\ bundles[w[1]].parent = Null
      /\ \A j \in 2..n : bundles[w[j]].parent = w[j - 1]
  BY WayParts
<1>2. i \in Nat \ {0} /\ \A j \in 1..i : j \in 1..n  BY <1>1
<1>3. \A j \in 1..i : u[j] = w[j]  BY DEF Upto
<1>4. u \in [1..i -> LiveBundles]  BY <1>1, <1>2 DEF Upto, LiveBundles
<1>. HIDE DEF u
<1>5. ASSUME NEW j \in 1..i
      PROVE  Live(u[j]) /\ bundles[u[j]].parent = IF j = 1 THEN Null ELSE u[j - 1]
  <2>1. u[j] = w[j] /\ j \in 1..n  BY <1>2, <1>3
  <2>2. CASE j = 1  BY <1>1, <2>1, <2>2
  <2>3. CASE j # 1
    <3>1. j \in 2..n /\ j - 1 \in 1..i  BY <1>1, <1>2, <2>1, <2>3
    <3>. QED BY <1>1, <1>3, <2>1, <2>3, <3>1
  <2>. QED BY <2>2, <2>3
<1>6. DOMAIN u = 1..i  BY <1>4
<1>7. IsWay(u)  BY <1>5, <1>6 DEF IsWay
<1>. QED BY <1>2, <1>3, <1>4, <1>7 DEF WayOf, u

\* A live bundle below the end of a way makes it longer.
LEMMA FurtherWay ==
  ASSUME TypeOK, NEW w, NEW n, WayOf(w, n), NEW b \in Bundles, Live(b),
         bundles[b].parent = w[n]
  PROVE  WayOf(Further(w, n, b), n + 1)
<1>. DEFINE u == Further(w, n, b)
<1>1. /\ n \in Nat /\ n >= 1 /\ \A j \in 1..n : w[j] \in Bundles /\ Live(w[j])
      /\ bundles[w[1]].parent = Null
      /\ \A j \in 2..n : bundles[w[j]].parent = w[j - 1]
  BY WayParts
<1>2. n + 1 \in Nat \ {0} /\ \A j \in 1..(n + 1) : j = n + 1 \/ (j # n + 1 /\ j \in 1..n)
  BY <1>1
<1>3. u[n + 1] = b /\ \A j \in 1..n : u[j] = w[j]  BY <1>1 DEF Further
<1>4. u \in [1..(n + 1) -> LiveBundles]  BY <1>1, <1>2 DEF Further, LiveBundles
<1>. HIDE DEF u
<1>5. ASSUME NEW j \in 1..(n + 1)
      PROVE  Live(u[j]) /\ bundles[u[j]].parent = IF j = 1 THEN Null ELSE u[j - 1]
  <2>1. CASE j = n + 1
    <3>1. j # 1 /\ j - 1 = n /\ n \in 1..n  BY <1>1, <2>1
    <3>. QED BY <1>3, <2>1, <3>1
  <2>2. CASE j = 1 /\ j \in 1..n  BY <1>1, <1>3, <2>2
  <2>3. CASE j # 1 /\ j \in 1..n
    <3>1. j \in 2..n /\ j - 1 \in 1..n  BY <1>1, <2>3
    <3>. QED BY <1>1, <1>3, <2>3, <3>1
  <2>. QED BY <1>2, <2>1, <2>2, <2>3
<1>6. DOMAIN u = 1..(n + 1)  BY <1>4
<1>7. IsWay(u)  BY <1>5, <1>6 DEF IsWay
<1>. QED BY <1>2, <1>4, <1>7 DEF WayOf, u

\* Only one way leads to a bundle.
LEMMA SameEnd ==
  ASSUME TypeOK, NEW w, NEW n, WayOf(w, n), NEW v, NEW m, WayOf(v, m), w[n] = v[m]
  PROVE  n = m /\ w = v
<1>1. /\ n \in Nat /\ n >= 1 /\ w = [j \in 1..n |-> w[j]]
      /\ bundles[w[1]].parent = Null
      /\ \A i \in 2..n : bundles[w[i]].parent = w[i - 1] /\ w[i - 1] # Null
  BY WayParts
<1>2. /\ m \in Nat /\ m >= 1 /\ v = [j \in 1..m |-> v[j]]
      /\ bundles[v[1]].parent = Null
      /\ \A i \in 2..m : bundles[v[i]].parent = v[i - 1] /\ v[i - 1] # Null
  BY WayParts
<1>. DEFINE D == {j \in Nat : j < n /\ j < m /\ w[n - j] # v[m - j]}
<1>3. D = {}
  <2>. SUFFICES ASSUME D # {} PROVE FALSE  OBVIOUS
  <2>1. PICK j \in D : \A i \in D : j <= i  BY LeastElement
  <2>2. j \in Nat /\ j < n /\ j < m /\ w[n - j] # v[m - j]  BY <2>1
  <2>3. j # 0  BY <1>1, <1>2, <2>2
  <2>4. j - 1 \in Nat /\ j - 1 \notin D  BY <2>1, <2>2, <2>3
  <2>5. w[n - (j - 1)] = v[m - (j - 1)]  BY <1>1, <1>2, <2>2, <2>4
  <2>6. /\ n - (j - 1) \in 2..n /\ (n - (j - 1)) - 1 = n - j
        /\ m - (j - 1) \in 2..m /\ (m - (j - 1)) - 1 = m - j
    BY <1>1, <1>2, <2>2, <2>4
  <2>. DEFINE i == n - (j - 1)
              k == m - (j - 1)
  <2>. HIDE DEF i, k
  <2>7. w[n - j] = bundles[w[i]].parent
    <3>1. i \in 2..n /\ i - 1 = n - j  BY <2>6 DEF i
    <3>2. bundles[w[i]].parent = w[i - 1]  BY <1>1, <3>1
    <3>. QED BY <3>1, <3>2, Zenon
  <2>8. v[m - j] = bundles[v[k]].parent
    <3>1. k \in 2..m /\ k - 1 = m - j  BY <2>6 DEF k
    <3>2. bundles[v[k]].parent = v[k - 1]  BY <1>2, <3>1
    <3>. QED BY <3>1, <3>2, Zenon
  <2>. QED BY <2>2, <2>5, <2>7, <2>8 DEF i, k
<1>4. \A j \in Nat : j < n /\ j < m => w[n - j] = v[m - j]  BY <1>3
<1>5. ASSUME n < m PROVE FALSE
  <2>. DEFINE j == n - 1
              k == m - j
              i == n - j
  <2>1. j \in Nat /\ j < n /\ j < m /\ i = 1 /\ k \in 2..m  BY <1>1, <1>2, <1>5
  <2>2. w[i] = v[k]  BY <1>4, <2>1, Zenon
  <2>. HIDE DEF i, k
  <2>. QED BY <1>1, <1>2, <2>1, <2>2
<1>6. ASSUME m < n PROVE FALSE
  <2>. DEFINE j == m - 1
              k == n - j
              i == m - j
  <2>1. j \in Nat /\ j < n /\ j < m /\ i = 1 /\ k \in 2..n  BY <1>1, <1>2, <1>6
  <2>2. w[k] = v[i]  BY <1>4, <2>1, Zenon
  <2>. HIDE DEF i, k
  <2>. QED BY <1>1, <1>2, <2>1, <2>2
<1>7. n = m  BY <1>1, <1>2, <1>5, <1>6
<1>8. ASSUME NEW i \in 1..n PROVE w[i] = v[i]
  <2>1. n - i \in Nat /\ n - i < n /\ n - (n - i) = i  BY <1>1
  <2>. QED BY <1>4, <1>7, <2>1
<1>. QED BY <1>1, <1>2, <1>7, <1>8

\* So a way is not longer than there are live bundles, and Ways holds every way.
LEMMA WaysAre ==
  TypeOK => \A w : w \in Ways <=> \E n : WayOf(w, n)
<1>. SUFFICES ASSUME TypeOK, NEW w PROVE w \in Ways <=> \E n : WayOf(w, n)
  OBVIOUS
<1>1. IsFiniteSet(LiveBundles)
  <2>1. IsFiniteSet(Bundles)  BY ConstantsAssumption
  <2>2. LiveBundles \in SUBSET Bundles  BY DEF LiveBundles
  <2>. QED BY <2>1, <2>2, FS_Subset
<1>2. Cardinality(LiveBundles) \in Nat  BY <1>1, FS_CardinalityType
<1>3. ASSUME NEW n, WayOf(w, n) PROVE n \in 1..Cardinality(LiveBundles)
  <2>1. n \in Nat /\ n >= 1 /\ w \in [1..n -> LiveBundles]  BY <1>3 DEF WayOf
  <2>2. ASSUME NEW i \in 1..n, NEW j \in 1..n, w[i] = w[j] PROVE i = j
    <3>1. WayOf(Upto(w, i), i) /\ WayOf(Upto(w, j), j)  BY <1>3, UptoWay
    <3>2. i \in 1..i /\ j \in 1..j  OBVIOUS
    <3>3. Upto(w, i)[i] = w[i] /\ Upto(w, j)[j] = w[j]  BY <1>3, <3>2, UptoWay
    <3>. QED BY <2>2, <3>1, <3>3, SameEnd
  <2>3. w \in Injection(1..n, LiveBundles)
    BY <2>1, <2>2 DEF Injection, IsInjective
  <2>4. Cardinality(1..n) <= Cardinality(LiveBundles)  BY <1>1, <2>3, FS_Injection
  <2>5. Cardinality(1..n) = IF 1 > n THEN 0 ELSE n - 1 + 1
    <3>1. 1 \in Int /\ n \in Int  BY <2>1
    <3>. QED BY <3>1, FS_Interval
  <2>. QED BY <1>2, <2>1, <2>4, <2>5
<1>4. ASSUME w \in Ways PROVE \E n : WayOf(w, n)
  <2>1. PICK n \in 1..Cardinality(LiveBundles) : w \in [1..n -> LiveBundles]
    BY <1>4 DEF Ways
  <2>2. n \in Nat \ {0} /\ IsWay(w)  BY <1>2, <1>4, <2>1 DEF Ways
  <2>. QED BY <2>1, <2>2 DEF WayOf
<1>5. ASSUME NEW n, WayOf(w, n) PROVE w \in Ways
  <2>1. n \in 1..Cardinality(LiveBundles)  BY <1>3, <1>5
  <2>. QED BY <1>5, <2>1 DEF Ways, WayOf
<1>. QED BY <1>4, <1>5

\* Only one way has a path.
LEMMA SamePath ==
  ASSUME TypeOK, SiblingsUnique, NEW w, NEW n, WayOf(w, n), NEW v, WayOf(v, n),
         \A i \in 1..n : bundles[w[i]].slug = bundles[v[i]].slug
  PROVE  w = v
<1>1. /\ n \in Nat /\ n >= 1 /\ w = [j \in 1..n |-> w[j]]
      /\ \A i \in 1..n : w[i] \in Bundles /\ Live(w[i])
      /\ bundles[w[1]].parent = Null
      /\ \A i \in 2..n : bundles[w[i]].parent = w[i - 1]
  BY WayParts
<1>2. /\ v = [j \in 1..n |-> v[j]]
      /\ \A i \in 1..n : v[i] \in Bundles /\ Live(v[i])
      /\ bundles[v[1]].parent = Null
      /\ \A i \in 2..n : bundles[v[i]].parent = v[i - 1]
  BY WayParts
<1>. DEFINE D == {i \in 1..n : w[i] # v[i]}
<1>3. D = {}
  <2>. SUFFICES ASSUME D # {} PROVE FALSE  OBVIOUS
  <2>0. D \in SUBSET Nat  BY <1>1
  <2>1. PICK i \in D : \A j \in D : i <= j  BY <2>0, LeastElement
  <2>2. i \in 1..n /\ w[i] # v[i]  BY <2>1
  <2>3. bundles[w[i]].parent = bundles[v[i]].parent
    <3>1. CASE i = 1  BY <1>1, <1>2, <3>1
    <3>2. CASE i # 1
      <4>1. i \in 2..n /\ i - 1 \in 1..n /\ ~(i <= i - 1)  BY <1>1, <2>2, <3>2
      <4>2. w[i - 1] = v[i - 1]  BY <2>1, <4>1
      <4>. QED BY <1>1, <1>2, <4>1, <4>2
    <3>. QED BY <3>1, <3>2
  <2>. QED BY <1>1, <1>2, <2>2, <2>3 DEF SiblingsUnique
<1>. QED BY <1>1, <1>2, <1>3

-----------------------------------------------------------------------------
(* Rows refer to rows, and what a delete has marked stays marked.          *)

Used(b) == b \in Bundles /\ bundles[b] # Null
Dead(b) == bundles[b] # Null /\ bundles[b].deleted

ParentsExist == \A b \in Bundles : bundles[b] # Null /\ bundles[b].parent # Null
                                   => Used(bundles[b].parent)
HomesExist == \A k \in Concepts : concepts[k] # Null => Used(concepts[k].home)
WalksExist == \A c \in Clients : at[c] # Null => Used(at[c])
FoundDead == \A c \in Clients : pc[c] = "deleteConcepts" => \A b \in found[c] : Dead(b)

TreeInv == ParentsExist /\ HomesExist /\ WalksExist /\ FoundDead

\* What a step may do to the concepts.
Filed(k, home, name) ==
  /\ concepts[k] = Null /\ Used(home) /\ name \in Names /\ ~ConceptTaken(home, name)
  /\ concepts' = [concepts EXCEPT ![k] = [home |-> home, name |-> name, deleted |-> FALSE]]

Emptied(homes) ==
  /\ \A b \in homes : Dead(b)
  /\ concepts' = [k \in Concepts |->
                    IF k \in ConceptsIn(homes) THEN [concepts[k] EXCEPT !.deleted = TRUE]
                    ELSE concepts[k]]

ConceptStep ==
  \/ UNCHANGED concepts
  \/ /\ UNCHANGED bundles
     /\ \/ \E k \in Concepts : \E home, name : Filed(k, home, name)
        \/ \E homes : Emptied(homes)

\* New rows hang below rows that are there.
NewRowsPlaced ==
  \A b \in Bundles : bundles[b] = Null /\ bundles'[b] # Null
                     => bundles'[b].parent = Null \/ Used(bundles'[b].parent)

\* A walk moves to a row that is there, and only a delete that has marked its rows goes on
\* to their concepts.
WalksMove ==
  \A d \in Clients : at'[d] = at[d] \/ at'[d] = Null
                     \/ (at'[d] \in Bundles /\ bundles'[at'[d]] # Null)
DeletesGoOn ==
  \A d \in Clients : pc'[d] = "deleteConcepts" =>
    \/ pc[d] = "deleteConcepts" /\ found'[d] = found[d]
    \/ \A b \in found'[d] : bundles'[b] # Null /\ bundles'[b].deleted

\* The steps, one lemma for each of these.
LEMMA ConceptSteps ==
  ASSUME IInv, TreeInv, [Next]_vars
  PROVE  ConceptStep
<1>1. ASSUME NEW c \in Clients, ConceptInsert(c) PROVE ConceptStep
  <2>1. CASE UNCHANGED concepts  BY <2>1 DEF ConceptStep
  <2>2. CASE ~(UNCHANGED concepts)
    <3>1. /\ pc[c] = "conceptInsert" /\ UNCHANGED bundles
          /\ ~ConceptTaken(at[c], req[c].name)
          /\ \E k \in Concepts :
               /\ concepts[k] = Null
               /\ concepts' = [concepts EXCEPT ![k] =
                                 [home |-> at[c], name |-> req[c].name, deleted |-> FALSE]]
      BY <1>1, <2>2 DEF ConceptInsert
    <3>2. at[c] \in Bundles /\ req[c] \in Request
      BY <3>1 DEF IInv, ClientOK, Placed
    <3>3. Used(at[c]) /\ req[c].name \in Names
      BY <3>2, ConstantsAssumption DEF TreeInv, WalksExist, Request
    <3>. QED BY <3>1, <3>3 DEF ConceptStep, Filed
  <2>. QED BY <2>1, <2>2
<1>2. ASSUME NEW c \in Clients, DeleteConcepts(c) PROVE ConceptStep
  <2>1. UNCHANGED bundles /\ pc[c] = "deleteConcepts"  BY <1>2 DEF DeleteConcepts
  <2>2. \A b \in found[c] : Dead(b)  BY <2>1 DEF TreeInv, FoundDead
  <2>3. Emptied(found[c])  BY <1>2, <2>2 DEF DeleteConcepts, Emptied
  <2>. QED BY <2>1, <2>3 DEF ConceptStep
<1>3. CASE UNCHANGED vars  BY <1>3 DEF vars, ConceptStep
<1>4. ASSUME NEW c \in Clients, NEW r \in Menu[c], Begin(c, r) PROVE UNCHANGED concepts
  BY <1>4 DEF Begin, tables
<1>5. ASSUME NEW c \in Clients, Abort(c) PROVE UNCHANGED concepts  BY <1>5 DEF Abort, tables
<1>6. ASSUME NEW c \in Clients, Step(c) PROVE ConceptStep
  <2>1. CASE ConceptInsert(c) \/ DeleteConcepts(c)  BY <1>1, <1>2, <2>1
  <2>2. CASE EnsureFind(c) \/ EnsureInsert(c) \/ ListRoots(c) \/ RootFind(c) \/ Walk(c)
             \/ Mkdir(c) \/ SiblingFind(c)
    BY <2>2 DEF EnsureFind, EnsureInsert, ListRoots, RootFind, Walk, Mkdir, SiblingFind, tables,
                ConceptStep
  <2>3. CASE Insert(c) \/ UpdateMetadata(c) \/ DeleteSubtree(c) \/ Look(c) \/ ConceptFind(c)
    BY <2>3 DEF Insert, UpdateMetadata, DeleteSubtree, Look, ConceptFind, tables, ConceptStep
  <2>. QED BY <1>6, <2>1, <2>2, <2>3 DEF Step
<1>. QED BY <1>3, <1>4, <1>5, <1>6 DEF Next, ConceptStep

\* The inserting statements place their row at the end of the walk, or at the root.
LEMMA NewRowsSteps ==
  ASSUME IInv, TreeInv, [Next]_vars
  PROVE  NewRowsPlaced
<1>1. ASSUME NEW c \in Clients, NEW b \in Bundles, NEW parent, NEW slug, NEW title,
             InsertBundle(b, parent, slug, title), parent = Null \/ parent = at[c]
      PROVE  NewRowsPlaced
  <2>. DEFINE row == [parent |-> parent, slug |-> slug, title |-> title, deleted |-> FALSE]
  <2>1. bundles' = [bundles EXCEPT ![b] = row] /\ row.parent = parent
    BY <1>1 DEF InsertBundle
  <2>. HIDE DEF row
  <2>2. /\ bundles \in [Bundles -> Bundle \cup {Null}]
        /\ parent = Null \/ Used(parent)
    BY <1>1 DEF IInv, TypeOK, TreeInv, WalksExist
  <2>3. ASSUME NEW d \in Bundles, bundles[d] = Null, bundles'[d] # Null
        PROVE  d = b
    BY <2>1, <2>2, <2>3
  <2>. QED BY <2>1, <2>2, <2>3 DEF NewRowsPlaced
<1>2. CASE UNCHANGED bundles  BY <1>2 DEF NewRowsPlaced
<1>3. ASSUME NEW c \in Clients, Mkdir(c) \/ Insert(c) \/ EnsureInsert(c) PROVE NewRowsPlaced
  BY <1>1, <1>2, <1>3 DEF Mkdir, Insert, EnsureInsert
<1>4. ASSUME NEW c \in Clients, UpdateMetadata(c) \/ DeleteSubtree(c)
      PROVE  NewRowsPlaced
  <2>1. ASSUME NEW b \in Bundles, bundles[b] = Null, ~(UNCHANGED bundles)
        PROVE  bundles'[b] = bundles[b]
    <3>1. CASE UpdateMetadata(c)
      <4>1. Live(at[c]) /\ bundles' = [bundles EXCEPT ![at[c]].title = req[c].title]
        BY <2>1, <3>1 DEF UpdateMetadata
      <4>2. b # at[c]  BY <2>1, <4>1 DEF Live
      <4>. QED BY <4>1, <4>2 DEF IInv, TypeOK
    <3>2. CASE DeleteSubtree(c)
      <4>1. pc[c] = "deleteSubtree"  BY <3>2 DEF DeleteSubtree
      <4>2. at[c] \in Bundles  BY <4>1 DEF IInv, ClientOK, Placed
      <4>3. b \notin SubtreeOf(at[c])  BY <2>1, <4>2, SubtreeFacts DEF IInv, Live
      <4>. QED BY <3>2, <4>3 DEF DeleteSubtree
    <3>. QED BY <1>4, <3>1, <3>2
  <2>. QED BY <1>2, <2>1 DEF NewRowsPlaced
<1>5. CASE UNCHANGED vars  BY <1>2, <1>5 DEF vars
<1>6. ASSUME NEW c \in Clients, NEW r \in Menu[c], Begin(c, r) PROVE UNCHANGED bundles
  BY <1>6 DEF Begin, tables
<1>7. ASSUME NEW c \in Clients, Abort(c) PROVE UNCHANGED bundles  BY <1>7 DEF Abort, tables
<1>8. ASSUME NEW c \in Clients, Step(c) PROVE NewRowsPlaced
  <2>1. CASE EnsureFind(c) \/ ListRoots(c) \/ RootFind(c) \/ Walk(c) \/ SiblingFind(c)
    BY <1>2, <2>1 DEF EnsureFind, ListRoots, RootFind, Walk, SiblingFind, tables
  <2>2. CASE DeleteConcepts(c) \/ Look(c) \/ ConceptFind(c) \/ ConceptInsert(c)
    BY <1>2, <2>2 DEF DeleteConcepts, Look, ConceptFind, ConceptInsert, tables
  <2>. QED BY <1>3, <1>4, <1>8, <2>1, <2>2 DEF Step
<1>. QED BY <1>2, <1>5, <1>6, <1>7, <1>8 DEF Next


\* The walk moves in these three only.
LEMMA ReachSteps ==
  ASSUME IInv, TreeInv, NEW c \in Clients, NEW b \in Bundles, bundles'[b] # Null,
         pc[c] \in {"rootFind", "walk", "mkdir"}, Reach(c, b, Tail(left[c])), UNCHANGED found
  PROVE  WalksMove /\ DeletesGoOn
<1>1. req[c].kind \in DOMAIN Target  BY DEF IInv, ClientOK
<1>2. Target[req[c].kind] # "deleteConcepts"  BY <1>1 DEF Target
<1>. DEFINE step == IF Tail(left[c]) = <<>> THEN Target[req[c].kind] ELSE "walk"
<1>3. /\ at' = [at EXCEPT ![c] = b]
      /\ pc' = [pc EXCEPT ![c] = step] /\ step # "deleteConcepts"
  BY <1>2 DEF Reach, Goto
<1>. HIDE DEF step
<1>4. WalksMove  BY <1>3 DEF WalksMove, IInv, TypeOK
<1>5. DeletesGoOn  BY <1>3 DEF DeletesGoOn, IInv, TypeOK
<1>. QED BY <1>4, <1>5

LEMMA StillSteps ==
  ASSUME IInv, TreeInv, NEW c \in Clients, NEW step, step # "deleteConcepts",
         pc' = [pc EXCEPT ![c] = step], UNCHANGED <<at, found>>
  PROVE  WalksMove /\ DeletesGoOn
BY DEF WalksMove, DeletesGoOn, IInv, TypeOK

LEMMA WalkSteps ==
  ASSUME IInv, TreeInv, [Next]_vars
  PROVE  WalksMove /\ DeletesGoOn
<1>. USE DEF Goto, Finish
<1>1. CASE UNCHANGED vars  BY <1>1 DEF vars, WalksMove, DeletesGoOn
<1>2. ASSUME NEW c \in Clients, NEW r \in Menu[c], Begin(c, r)
      PROVE  WalksMove /\ DeletesGoOn
  <2>1. FirstStep(r) # "deleteConcepts"  BY DEF FirstStep
  <2>2. /\ at' = [at EXCEPT ![c] = Null] /\ found' = [found EXCEPT ![c] = {}]
        /\ \E step : pc' = [pc EXCEPT ![c] = step] /\ step # "deleteConcepts"
    BY <1>2, <2>1 DEF Begin
  <2>3. WalksMove  BY <2>2 DEF WalksMove, IInv, TypeOK
  <2>4. DeletesGoOn  BY <2>2 DEF DeletesGoOn, IInv, TypeOK
  <2>. QED BY <2>3, <2>4
<1>3. ASSUME NEW c \in Clients, Abort(c) PROVE WalksMove /\ DeletesGoOn
  BY <1>3, StillSteps DEF Abort
<1>4. ASSUME NEW c \in Clients, EnsureFind(c) \/ EnsureInsert(c) \/ ListRoots(c)
                                \/ SiblingFind(c) \/ Insert(c) \/ UpdateMetadata(c)
      PROVE  WalksMove /\ DeletesGoOn
  <2>1. UNCHANGED <<at, found>>
    BY <1>4 DEF EnsureFind, EnsureInsert, ListRoots, SiblingFind, Insert, UpdateMetadata
  <2>2. \E step : pc' = [pc EXCEPT ![c] = step] /\ step # "deleteConcepts"
    BY <1>4 DEF EnsureFind, EnsureInsert, ListRoots, SiblingFind, Insert, UpdateMetadata,
                AfterEnsure
  <2>. QED BY <2>1, <2>2, StillSteps
<1>5. ASSUME NEW c \in Clients, DeleteConcepts(c) \/ Look(c) \/ ConceptFind(c)
                                \/ ConceptInsert(c)
      PROVE  WalksMove /\ DeletesGoOn
  <2>1. UNCHANGED <<at, found>>
    BY <1>5 DEF DeleteConcepts, Look, ConceptFind, ConceptInsert
  <2>2. \E step : pc' = [pc EXCEPT ![c] = step] /\ step # "deleteConcepts"
    BY <1>5 DEF DeleteConcepts, Look, ConceptFind, ConceptInsert
  <2>. QED BY <2>1, <2>2, StillSteps
<1>6. ASSUME NEW c \in Clients, RootFind(c) \/ Walk(c) PROVE WalksMove /\ DeletesGoOn
  <2>1. /\ pc[c] \in {"rootFind", "walk"} /\ UNCHANGED <<bundles, found>>
        /\ \/ /\ UNCHANGED at
              /\ \E step : pc' = [pc EXCEPT ![c] = step] /\ step # "deleteConcepts"
           \/ \E b \in Bundles : Live(b) /\ Reach(c, b, Tail(left[c]))
    BY <1>6 DEF RootFind, Walk, Children, tables
  <2>. QED BY <2>1, StillSteps, ReachSteps DEF Live
<1>7. ASSUME NEW c \in Clients, Mkdir(c) PROVE WalksMove /\ DeletesGoOn
  <2>. DEFINE slug == Canonical[Head(left[c])]
  <2>1. pc[c] = "mkdir" /\ UNCHANGED found  BY <1>7 DEF Mkdir
  <2>2. at[c] \in Bundles /\ slug \in Slugs
    <3>1. at[c] \in Bundles /\ left[c] \in Seq(Spellings) /\ left[c] # <<>>
      BY <2>1 DEF IInv, TypeOK, ClientOK, Placed
    <3>. QED BY <3>1 DEF Slugs
  <2>3. CASE Taken(at[c], slug)
    <3>1. Finish(c, "uniqueViolation") /\ UNCHANGED at  BY <1>7, <2>3 DEF Mkdir
    <3>. QED BY <2>1, <3>1, StillSteps
  <2>4. CASE ~Taken(at[c], slug)
    <3>1. PICK b \in Bundles : /\ InsertBundle(b, at[c], slug, Null)
                               /\ Reach(c, b, Tail(left[c]))
      BY <1>7, <2>4 DEF Mkdir
    <3>. PICK parent : parent = at[c]  OBVIOUS
    <3>. PICK name : name = slug  OBVIOUS
    <3>2. Inserted(b, parent, name, Null)  BY <2>2, <2>4, <3>1 DEF Inserted
    <3>3. bundles'[b] # Null  BY <3>2, InsertedFacts DEF IInv
    <3>. QED BY <2>1, <3>1, <3>3, ReachSteps
  <2>. QED BY <2>3, <2>4
<1>8. ASSUME NEW c \in Clients, DeleteSubtree(c) PROVE WalksMove /\ DeletesGoOn
  <2>1. /\ pc[c] = "deleteSubtree" /\ UNCHANGED at
        /\ found' = [found EXCEPT ![c] = SubtreeOf(at[c])]
        /\ pc' = [pc EXCEPT ![c] = "deleteConcepts"]
    BY <1>8 DEF DeleteSubtree
  <2>2. at[c] \in Bundles  BY <2>1 DEF IInv, ClientOK, Placed
  <2>3. ASSUME NEW b \in SubtreeOf(at[c]) PROVE bundles'[b] # Null /\ bundles'[b].deleted
    <3>1. b \in Bundles /\ Live(b)  BY <2>2, SubtreeFacts DEF IInv
    <3>2. bundles'[b] = [bundles[b] EXCEPT !.deleted = TRUE]  BY <1>8, <3>1 DEF DeleteSubtree
    <3>3. bundles[b] \in Bundle  BY <3>1 DEF IInv, TypeOK, Live
    <3>4. bundles'[b] \in Bundle /\ bundles'[b].deleted  BY <3>2, <3>3 DEF Bundle
    <3>. QED BY <3>4, ConstantsAssumption
  <2>4. WalksMove  BY <2>1 DEF WalksMove
  <2>5. DeletesGoOn  BY <2>1, <2>3 DEF DeletesGoOn, IInv, TypeOK
  <2>. QED BY <2>4, <2>5
<1>. QED BY <1>1, <1>2, <1>3, <1>4, <1>5, <1>6, <1>7, <1>8 DEF Next, Step

\* The invariant.
LEMMA TreeInvInit == Init => TreeInv
BY DEF Init, TreeInv, ParentsExist, HomesExist, WalksExist, FoundDead

LEMMA TreeInvStep ==
  ASSUME IInv, TreeInv, [Next]_vars
  PROVE  TreeInv'
<1>1. RowsStay  BY NextOK, RowsStayStep DEF IInv
<1>2. \A b \in Bundles : (Used(b) => Used(b)') /\ (Dead(b) => Dead(b)')
  BY <1>1 DEF RowsStay, Used, Dead
<1>3. ParentsExist'
  <2>1. ASSUME NEW b \in Bundles, bundles'[b] # Null, bundles'[b].parent # Null
        PROVE  Used(bundles'[b].parent)
    <3>1. CASE bundles[b] = Null  BY <2>1, <3>1, NewRowsSteps DEF NewRowsPlaced
    <3>2. CASE bundles[b] # Null
      BY <1>1, <2>1, <3>2 DEF TreeInv, ParentsExist, RowsStay
    <3>. QED BY <3>1, <3>2
  <2>. QED BY <1>2, <2>1 DEF ParentsExist, Used
<1>4. HomesExist'
  <2>1. ASSUME NEW k \in Concepts, concepts'[k] # Null PROVE Used(concepts'[k].home)
    <3>1. CASE UNCHANGED concepts  BY <2>1, <3>1 DEF TreeInv, HomesExist
    <3>2. ASSUME NEW i \in Concepts, NEW home, NEW name, Filed(i, home, name)
          PROVE  Used(concepts'[k].home)
      <4>1. CASE k = i  BY <3>2, <4>1 DEF Filed, IInv, TypeOK
      <4>2. CASE k # i
        BY <2>1, <3>2, <4>2 DEF Filed, IInv, TypeOK, TreeInv, HomesExist
      <4>. QED BY <4>1, <4>2
    <3>3. ASSUME NEW homes, Emptied(homes) PROVE Used(concepts'[k].home)
      <4>1. concepts[k] # Null  BY <2>1, <3>3 DEF Emptied, ConceptsIn, LiveConcept
      <4>2. concepts[k] \in Concept  BY <4>1 DEF IInv, TypeOK
      <4>3. concepts'[k].home = concepts[k].home  BY <3>3, <4>2 DEF Emptied, Concept
      <4>. QED BY <4>1, <4>3 DEF TreeInv, HomesExist
    <3>. QED BY <3>1, <3>2, <3>3, ConceptSteps DEF ConceptStep
  <2>. QED BY <1>2, <2>1 DEF HomesExist, Used
<1>5. WalksExist'
  BY <1>2, WalkSteps DEF TreeInv, WalksExist, WalksMove, Used
<1>6. FoundDead'
  <2>1. \A c \in Clients : found[c] \subseteq Bundles  BY DEF IInv, TypeOK
  <2>. QED BY <1>2, <2>1, WalkSteps DEF TreeInv, FoundDead, DeletesGoOn, Dead
<1>. QED BY <1>3, <1>4, <1>5, <1>6 DEF TreeInv

-----------------------------------------------------------------------------
(* Ways before and after a step.                                           *)

\* A way whose bundles stay live stays, with its path.
LEMMA WaysStay ==
  ASSUME TypeOK, RowsStay, NEW w, NEW n, WayOf(w, n), \A i \in 1..n : Live(w[i])'
  PROVE  WayOf(w, n)' /\ PathOf(w)' = PathOf(w)
<1>1. /\ n \in Nat \ {0} /\ DOMAIN w = 1..n /\ w = [i \in 1..n |-> w[i]]
      /\ \A i \in 1..n : w[i] \in Bundles /\ bundles[w[i]] # Null
  BY WayParts DEF WayOf, Live
<1>2. \A i \in 1..n : /\ bundles'[w[i]].parent = bundles[w[i]].parent
                      /\ bundles'[w[i]].slug = bundles[w[i]].slug
  BY <1>1 DEF RowsStay
<1>3. w \in [1..n -> LiveBundles']  BY <1>1 DEF LiveBundles
<1>4. IsWay(w)'  BY <1>1, <1>2 DEF WayOf, IsWay
<1>5. PathOf(w)' = PathOf(w)  BY <1>1, <1>2 DEF PathOf
<1>. QED BY <1>1, <1>3, <1>4, <1>5 DEF WayOf

\* The lemmas on ways in a form that also speaks of the next state.
WaysLead ==
  \A w, n : WayOf(w, n) =>
    /\ n \in Nat /\ n >= 1 /\ DOMAIN w = 1..n
    /\ \A i \in 1..n : w[i] \in Bundles /\ Live(w[i])
    /\ bundles[w[1]].parent = Null
    /\ \A i \in 2..n : bundles[w[i]].parent = w[i - 1] /\ i - 1 \in 1..n /\ w[i - 1] # Null
    /\ PathOf(w) = [i \in 1..n |-> bundles[w[i]].slug]
WaysCut ==
  \A w, n : WayOf(w, n) => \A i \in 1..n : WayOf(Upto(w, i), i)
WaysGrow ==
  \A w, n : WayOf(w, n) =>
    \A b \in Bundles : Live(b) /\ bundles[b].parent = w[n] => WayOf(Further(w, n, b), n + 1)

WayFacts == WaysLead /\ WaysCut /\ WaysGrow

LEMMA WaysBehave == TypeOK => WayFacts
<1>1. TypeOK => WaysLead  BY WayParts DEF WaysLead, PathOf
<1>2. TypeOK => WaysCut  BY UptoWay DEF WaysCut
<1>3. TypeOK => WaysGrow  BY FurtherWay DEF WaysGrow
<1>. QED BY <1>1, <1>2, <1>3 DEF WayFacts

\* A way that leads by rows there were was one before.
LEMMA WaysWere ==
  ASSUME TypeOK, TypeOK', RowsStay, NEW w, NEW n, WayOf(w, n)',
         \A i \in 1..n : bundles[w[i]] # Null
  PROVE  WayOf(w, n) /\ \A i \in 1..n : Live(w[i])'
<1>0. WayFacts'  BY WaysBehave, PTL
<1>1. WaysLead'  BY <1>0 DEF WayFacts
<1>2. /\ n \in Nat \ {0} /\ DOMAIN w = 1..n /\ w = [i \in 1..n |-> w[i]]
      /\ \A i \in 1..n : w[i] \in Bundles /\ Live(w[i])'
  BY <1>1 DEF WaysLead, WayOf
<1>3. \A i \in 1..n : /\ Live(w[i])
                      /\ bundles'[w[i]].parent = bundles[w[i]].parent
  BY <1>2 DEF RowsStay, Live
<1>4. w \in [1..n -> LiveBundles]  BY <1>2, <1>3 DEF LiveBundles
<1>5. IsWay(w)  BY <1>2, <1>3 DEF WayOf, IsWay
<1>. QED BY <1>2, <1>4, <1>5 DEF WayOf

-----------------------------------------------------------------------------
(* What paths show of the tree.                                            *)

Dirs == {PathOf(w) : w \in Ways}
Docs == UNION {{<<PathOf(w), concepts[k].name>> : k \in ConceptsIn({w[Len(w)]})} : w \in Ways}

IsDir(p) == \E w, n : WayOf(w, n) /\ p = PathOf(w)
IsDoc(d) == \E w, n : /\ WayOf(w, n)
                      /\ \E k \in ConceptsIn({w[n]}) : d = <<PathOf(w), concepts[k].name>>

Shown == /\ \A p : p \in Dirs <=> IsDir(p)
         /\ \A d : d \in Docs <=> IsDoc(d)

LEMMA WaysShow == TypeOK => Shown
<1>. SUFFICES ASSUME TypeOK PROVE Shown  OBVIOUS
<1>1. \A w : w \in Ways <=> \E n : WayOf(w, n)  BY WaysAre
<1>2. \A w, n : WayOf(w, n) => Len(w) = n  BY WayParts
<1>3. ASSUME NEW p PROVE p \in Dirs <=> IsDir(p)  BY <1>1 DEF Dirs, IsDir
<1>4. ASSUME NEW d PROVE d \in Docs <=> IsDoc(d)
  <2>. DEFINE In(w) == {<<PathOf(w), concepts[k].name>> : k \in ConceptsIn({w[Len(w)]})}
  <2>1. \A w : d \in In(w) <=> \E k \in ConceptsIn({w[Len(w)]}) :
                                 d = <<PathOf(w), concepts[k].name>>
    OBVIOUS
  <2>. HIDE DEF In
  <2>2. d \in UNION {In(w) : w \in Ways} <=> \E w \in Ways : d \in In(w)  BY Zenon
  <2>3. Docs = UNION {In(w) : w \in Ways}  BY Zenon DEF Docs, In
  <2>4. d \in Docs <=> \E w \in Ways : \E k \in ConceptsIn({w[Len(w)]}) :
                         d = <<PathOf(w), concepts[k].name>>
    BY <2>1, <2>2, <2>3, Zenon
  <2>. QED BY <1>1, <1>2, <2>4 DEF IsDoc
<1>. QED BY <1>3, <1>4 DEF Shown

LEMMA PathFacts ==
  ASSUME TypeOK, NEW w, NEW n, WayOf(w, n)
  PROVE  /\ n \in Nat /\ n >= 1 /\ PathOf(w) \in Seq(Slugs) /\ Len(PathOf(w)) = n
         /\ \A i \in 1..n : PathOf(w)[i] = bundles[w[i]].slug
<1>1. n \in Nat /\ n >= 1 /\ DOMAIN w = 1..n /\ \A i \in 1..n : bundles[w[i]].slug \in Slugs
  BY WayParts
<1>2. PathOf(w) = [i \in 1..n |-> bundles[w[i]].slug]  BY <1>1 DEF PathOf
<1>. QED BY <1>1, <1>2

\* A path is that of one way.
LEMMA SameWay ==
  ASSUME TypeOK, SiblingsUnique, NEW w, NEW n, WayOf(w, n), NEW v, NEW m, WayOf(v, m),
         PathOf(w) = PathOf(v)
  PROVE  n = m /\ w = v
<1>1. /\ n = m
      /\ \A i \in 1..n : bundles[w[i]].slug = bundles[v[i]].slug
  BY PathFacts
<1>2. WayOf(v, n)  BY <1>1
<1>. QED BY <1>1, <1>2, SamePath

\* A path is below another when its way passes the end of the other's.
LEMMA PrefixMeansBelow ==
  ASSUME TypeOK, SiblingsUnique, NEW r, NEW m, WayOf(r, m), NEW w, NEW n, WayOf(w, n)
  PROVE  Namespace!IsPrefix(PathOf(r), PathOf(w)) <=> \E j \in 1..n : w[j] = r[m]
<1>. DEFINE p == PathOf(r)
            q == PathOf(w)
<1>1. /\ m \in Nat /\ m >= 1 /\ p \in Seq(Slugs) /\ Len(p) = m
      /\ \A i \in 1..m : p[i] = bundles[r[i]].slug
  BY PathFacts
<1>2. /\ n \in Nat /\ n >= 1 /\ q \in Seq(Slugs) /\ Len(q) = n
      /\ \A i \in 1..n : q[i] = bundles[w[i]].slug
  BY PathFacts
<1>. HIDE DEF p, q
<1>3. Namespace!IsPrefix(p, q) <=> m <= n /\ \A i \in 1..m : p[i] = q[i]
  <2>1. Namespace!IsPrefix(p, q) <=> m <= n /\ SubSeq(p, 1, m) = SubSeq(q, 1, m)
    BY <1>1, <1>2 DEF Namespace!IsPrefix
  <2>2. ASSUME m <= n
        PROVE  SubSeq(p, 1, m) = SubSeq(q, 1, m) <=> \A i \in 1..m : p[i] = q[i]
    <3>1. /\ SubSeq(p, 1, m) \in Seq(Slugs) /\ Len(SubSeq(p, 1, m)) = m
          /\ \A i \in 1..m : SubSeq(p, 1, m)[i] = p[i]
      BY <1>1
    <3>2. /\ SubSeq(q, 1, m) \in Seq(Slugs) /\ Len(SubSeq(q, 1, m)) = m
          /\ \A i \in 1..m : SubSeq(q, 1, m)[i] = q[i]
      BY <1>1, <1>2, <2>2
    <3>. QED BY <3>1, <3>2, SeqEqual
  <2>. QED BY <2>1, <2>2
<1>4. ASSUME m <= n, \A i \in 1..m : p[i] = q[i] PROVE w[m] = r[m] /\ m \in 1..n
  <2>1. m \in 1..n /\ m \in 1..m  BY <1>1, <1>2, <1>4
  <2>2. WayOf(Upto(w, m), m) /\ \A i \in 1..m : Upto(w, m)[i] = w[i] /\ i \in 1..n
    BY <2>1, UptoWay
  <2>3. \A i \in 1..m : bundles[r[i]].slug = bundles[Upto(w, m)[i]].slug
    BY <1>1, <1>2, <1>4, <2>2
  <2>4. r = Upto(w, m)  BY <2>2, <2>3, SamePath
  <2>. QED BY <2>1, <2>2, <2>4
<1>5. ASSUME NEW j \in 1..n, w[j] = r[m] PROVE m <= n /\ \A i \in 1..m : p[i] = q[i]
  <2>1. j \in 1..j /\ j <= n  BY <1>2
  <2>2. WayOf(Upto(w, j), j) /\ \A i \in 1..j : Upto(w, j)[i] = w[i] /\ i \in 1..n
    BY UptoWay
  <2>3. j = m /\ Upto(w, j) = r  BY <1>5, <2>1, <2>2, SameEnd
  <2>. QED BY <1>1, <1>2, <2>1, <2>2, <2>3
<1>. QED BY <1>3, <1>4, <1>5 DEF p, q

\* A way into a subtree passes its root.
LEMMA WayIntoSubtree ==
  ASSUME TypeOK, NEW root \in Bundles, NEW w, NEW n, WayOf(w, n), NEW i \in 1..n,
         w[i] \in SubtreeOf(root)
  PROVE  \E j \in 1..n : w[j] = root
<1>1. /\ n \in Nat /\ bundles[w[1]].parent = Null
      /\ \A j \in 1..n : w[j] \in Bundles
      /\ \A j \in 2..n : bundles[w[j]].parent = w[j - 1] /\ j - 1 \in 1..n
  BY WayParts
<1>. DEFINE D == {j \in 1..n : w[j] \in SubtreeOf(root)}
<1>2. D \in SUBSET Nat /\ D # {}  BY <1>1
<1>3. PICK j \in D : \A l \in D : j <= l  BY <1>2, LeastElement
<1>4. j \in 1..n /\ w[j] \in SubtreeOf(root) /\ w[j] \in Bundles  BY <1>1, <1>3
<1>5. bundles[w[j]].parent \notin SubtreeOf(root)
  <2>1. CASE j = 1
    BY <1>1, <2>1, SubtreeFacts, ConstantsAssumption
  <2>2. CASE j # 1
    <3>1. j \in 2..n /\ ~(j <= j - 1)  BY <1>1, <1>4, <2>2
    <3>2. j - 1 \notin D  BY <1>3, <3>1
    <3>. QED BY <1>1, <3>1, <3>2
  <2>. QED BY <2>1, <2>2
<1>6. ASSUME w[j] # root PROVE FALSE
  <2>. DEFINE S == SubtreeOf(root) \ {w[j]}
  <2>1. S \in SUBSET Bundles  BY SubtreeFacts
  <2>2. Live(root) => root \in S  BY <1>6 DEF SubtreeOf
  <2>3. \A b \in Bundles : Live(b) /\ bundles[b].parent \in S => b \in S
    BY <1>5, SubtreeFacts
  <2>4. w[j] \in S  BY <1>4, <2>1, <2>2, <2>3 DEF SubtreeOf
  <2>. QED BY <2>4
<1>. QED BY <1>4, <1>6

-----------------------------------------------------------------------------
(* A new row.                                                              *)

\* What a step does, seen through paths.
PathStep == Namespace!Next \/ UNCHANGED <<Dirs, Docs>>

\* Sets with the same members.
LEMMA SameMembers ==
  ASSUME NEW S, NEW T, \A x : x \in S <=> x \in T
  PROVE  S = T
OBVIOUS

\* The ways after a row was inserted: the new row is on no way or at its end.
LEMMA InsertedWays ==
  ASSUME IInv, TreeInv, TypeOK', RowsStay, NEW b \in Bundles, NEW parent, NEW slug, NEW title,
         Inserted(b, parent, slug, title), parent = Null \/ Used(parent)
  PROVE  /\ \A w, n : WayOf(w, n) => WayOf(w, n)' /\ PathOf(w)' = PathOf(w)
         /\ \A w, n : WayOf(w, n)' /\ w[n] # b => WayOf(w, n)
         /\ \A w, n : WayOf(w, n)' /\ w[n] = b => 
              \/ n = 1 /\ parent = Null
              \/ /\ n - 1 \in 1..n /\ n - 1 >= 1 /\ parent = w[n - 1] /\ parent # Null
                 /\ WayOf(Upto(w, n - 1), n - 1)
<1>1. /\ TypeOK /\ WayFacts' /\ WayFacts
  BY WaysBehave, PTL DEF IInv
<1>2. /\ bundles[b] = Null /\ bundles'[b] # Null /\ bundles'[b].parent = parent
      /\ \A d \in Bundles \ {b} : bundles'[d] = bundles[d]
  BY <1>1, InsertedFacts
<1>3. \A d \in Bundles : Live(d) => d # b /\ Live(d)'
  BY <1>2 DEF Live
<1>4. ASSUME NEW w, NEW n, WayOf(w, n) PROVE WayOf(w, n)' /\ PathOf(w)' = PathOf(w)
  <2>1. \A i \in 1..n : Live(w[i])'  BY <1>1, <1>3, <1>4 DEF WayFacts, WaysLead
  <2>. QED BY <1>1, <1>4, <2>1, WaysStay
<1>5. ASSUME NEW w, NEW n, WayOf(w, n)', NEW i \in 1..n, w[i] = b PROVE i = n
  <2>. SUFFICES ASSUME i # n PROVE FALSE  OBVIOUS
  <2>. DEFINE j == i + 1
  <2>1. n \in Nat /\ j \in 2..n /\ j \in 1..n /\ j - 1 = i
    BY <1>1, <1>5 DEF WayFacts, WaysLead
  <2>. HIDE DEF j
  <2>2. w[j] \in Bundles /\ Live(w[j])' /\ bundles'[w[j]].parent = b
    <3>1. bundles'[w[j]].parent = w[j - 1]  BY <1>1, <1>5, <2>1 DEF WayFacts, WaysLead
    <3>2. w[j] \in Bundles /\ Live(w[j])'  BY <1>1, <1>5, <2>1 DEF WayFacts, WaysLead
    <3>. QED BY <1>5, <2>1, <3>1, <3>2, Zenon
  <2>3. b # Null /\ ~Used(b)  BY <1>2, ConstantsAssumption DEF Used
  <2>4. CASE w[j] = b  BY <1>2, <2>2, <2>3, <2>4
  <2>5. CASE w[j] # b
    <3>1. bundles[w[j]] # Null /\ bundles[w[j]].parent = b  BY <1>2, <2>2, <2>5 DEF Live
    <3>. QED BY <2>2, <2>3, <3>1 DEF TreeInv, ParentsExist
  <2>. QED BY <2>4, <2>5
<1>6. ASSUME NEW w, NEW n, WayOf(w, n)', \A i \in 1..n : w[i] # b PROVE WayOf(w, n)
  <2>1. \A i \in 1..n : w[i] \in Bundles \ {b} /\ bundles'[w[i]] # Null
    BY <1>1, <1>6 DEF WayFacts, WaysLead, Live
  <2>2. \A i \in 1..n : bundles[w[i]] # Null  BY <1>2, <2>1
  <2>. QED BY <1>1, <1>6, <2>2, WaysWere
<1>7. ASSUME NEW w, NEW n, WayOf(w, n)', w[n] # b PROVE WayOf(w, n)
  BY <1>5, <1>6, <1>7
<1>8. ASSUME NEW w, NEW n, WayOf(w, n)', w[n] = b
      PROVE  \/ n = 1 /\ parent = Null
             \/ /\ n - 1 \in 1..n /\ n - 1 >= 1 /\ parent = w[n - 1] /\ parent # Null
                /\ WayOf(Upto(w, n - 1), n - 1)
  <2>1. n \in Nat /\ n >= 1  BY <1>1, <1>8 DEF WayFacts, WaysLead
  <2>2. CASE n = 1  BY <1>1, <1>2, <1>8, <2>2 DEF WayFacts, WaysLead
  <2>3. CASE n # 1
    <3>. DEFINE m == n - 1
    <3>1. m \in 1..n /\ m >= 1 /\ n \in 2..n /\ m # n  BY <2>1, <2>3
    <3>2. parent = w[m] /\ w[m] # Null  BY <1>1, <1>2, <1>8, <3>1 DEF WayFacts, WaysLead
    <3>. HIDE DEF m
    <3>3. WayOf(Upto(w, m), m)'  BY <1>1, <1>8, <3>1 DEF WayFacts, WaysCut
    <3>4. Upto(w, m)[m] = w[m]  BY <3>1 DEF Upto
    <3>5. w[m] # b  BY <1>5, <1>8, <3>1
    <3>6. WayOf(Upto(w, m), m)  BY <1>7, <3>3, <3>4, <3>5
    <3>. QED BY <3>1, <3>2, <3>6 DEF m
  <2>. QED BY <2>2, <2>3
<1>. QED BY <1>4, <1>7, <1>8


\* No path gains or loses a concept by it.
LEMMA InsertedDocs ==
  ASSUME IInv, TreeInv, TypeOK', RowsStay, NEW b \in Bundles, NEW parent, NEW slug, NEW title,
         Inserted(b, parent, slug, title), parent = Null \/ Used(parent), UNCHANGED concepts
  PROVE  Docs' = Docs
<1>1. TypeOK /\ Shown /\ Shown'  BY WaysShow, PTL DEF IInv
<1>2. /\ \A w, n : WayOf(w, n) => WayOf(w, n)' /\ PathOf(w)' = PathOf(w)
      /\ \A w, n : WayOf(w, n)' /\ w[n] # b => WayOf(w, n)
  BY InsertedWays
<1>3. bundles[b] = Null  BY <1>1, InsertedFacts
<1>4. \A k \in Concepts : LiveConcept(k) => concepts[k].home # b
  BY <1>3 DEF TreeInv, HomesExist, LiveConcept, Used
<1>5. \A homes : ConceptsIn(homes)' = ConceptsIn(homes)  BY DEF ConceptsIn, LiveConcept
<1>6. \A d : IsDoc(d)' <=> IsDoc(d)
  <2>1. ASSUME NEW d, IsDoc(d) PROVE IsDoc(d)'
    <3>1. PICK w, n : /\ WayOf(w, n)
                      /\ \E k \in ConceptsIn({w[n]}) : d = <<PathOf(w), concepts[k].name>>
      BY <2>1 DEF IsDoc
    <3>2. WayOf(w, n)' /\ PathOf(w)' = PathOf(w)  BY <1>2, <3>1
    <3>. QED BY <1>5, <3>1, <3>2 DEF IsDoc
  <2>2. ASSUME NEW d, IsDoc(d)' PROVE IsDoc(d)
    <3>1. PICK w, n : /\ WayOf(w, n)'
                      /\ \E k \in ConceptsIn({w[n]}) : d = <<PathOf(w)', concepts[k].name>>
      BY <1>5, <2>2 DEF IsDoc
    <3>2. w[n] # b  BY <1>4, <3>1 DEF ConceptsIn
    <3>3. WayOf(w, n) /\ PathOf(w)' = PathOf(w)  BY <1>2, <3>1, <3>2
    <3>. QED BY <3>1, <3>3 DEF IsDoc
  <2>. QED BY <2>1, <2>2
<1>. QED BY <1>1, <1>6, SameMembers DEF Shown

\* A new root.
LEMMA InsertedRoot ==
  ASSUME IInv, TreeInv, TypeOK', RowsStay, NEW b \in Bundles, NEW parent, NEW slug, NEW title,
         Inserted(b, parent, slug, title), parent = Null
  PROVE  <<slug>> \notin Dirs /\ Dirs' = Dirs \cup {<<slug>>}
<1>1. /\ TypeOK /\ Shown /\ Shown' /\ WayFacts /\ WayFacts'
  BY WaysShow, WaysBehave, PTL DEF IInv
<1>2. /\ \A w, n : WayOf(w, n) => WayOf(w, n)' /\ PathOf(w)' = PathOf(w)
      /\ \A w, n : WayOf(w, n)' /\ w[n] # b => WayOf(w, n)
      /\ \A w, n : WayOf(w, n)' /\ w[n] = b => n = 1
  BY InsertedWays
<1>3. /\ bundles'[b] # Null /\ bundles'[b].parent = Null /\ bundles'[b].slug = slug
      /\ ~bundles'[b].deleted
  BY <1>1, InsertedFacts
<1>4. <<slug>> \notin Dirs
  <2>1. SUFFICES ASSUME NEW w, NEW n, WayOf(w, n), PathOf(w) = <<slug>> PROVE FALSE
    BY <1>1 DEF Shown, IsDir
  <2>2. /\ n \in Nat /\ n >= 1 /\ w[1] \in Bundles /\ Live(w[1])
        /\ bundles[w[1]].parent = Null
        /\ PathOf(w) = [i \in 1..n |-> bundles[w[i]].slug]
    BY <1>1, <2>1 DEF WayFacts, WaysLead
  <2>3. PathOf(w)[1] = bundles[w[1]].slug  BY <2>2
  <2>4. bundles[w[1]].slug = slug  BY <2>1, <2>3
  <2>. QED BY <2>2, <2>4 DEF Inserted, Taken, Children
<1>5. ASSUME NEW w, WayOf(w, 1)', w[1] = b PROVE PathOf(w)' = <<slug>>
  <2>1. PathOf(w)' = [i \in 1..1 |-> bundles'[w[i]].slug]
    BY <1>1, <1>5 DEF WayFacts, WaysLead
  <2>2. \A i \in 1..1 : bundles'[w[i]].slug = slug  BY <1>3, <1>5
  <2>. QED BY <2>1, <2>2
<1>. DEFINE r == [i \in 1..1 |-> b]
<1>6. WayOf(r, 1)'
  <2>1. Live(b)'  BY <1>3 DEF Live
  <2>2. r \in [1..1 -> LiveBundles']  BY <2>1 DEF LiveBundles
  <2>3. IsWay(r)'  BY <1>3, <2>1 DEF IsWay
  <2>. QED BY <2>2, <2>3 DEF WayOf
<1>7. r[1] = b  OBVIOUS
<1>. HIDE DEF r
<1>8. ASSUME NEW p PROVE IsDir(p)' <=> IsDir(p) \/ p = <<slug>>
  <2>1. ASSUME IsDir(p) PROVE IsDir(p)'  BY <1>2, <2>1 DEF IsDir
  <2>2. ASSUME p = <<slug>> PROVE IsDir(p)'  BY <1>5, <1>6, <1>7, <2>2 DEF IsDir
  <2>3. ASSUME IsDir(p)' PROVE IsDir(p) \/ p = <<slug>>
    <3>1. PICK w, n : WayOf(w, n)' /\ p = PathOf(w)'  BY <2>3 DEF IsDir
    <3>2. CASE w[n] = b  BY <1>2, <1>5, <3>1, <3>2
    <3>3. CASE w[n] # b  BY <1>2, <3>1, <3>3 DEF IsDir
    <3>. QED BY <3>2, <3>3
  <2>. QED BY <2>1, <2>2, <2>3
<1>9. \A p : p \in Dirs' <=> p \in Dirs \cup {<<slug>>}  BY <1>1, <1>8 DEF Shown
<1>. QED BY <1>4, <1>9, SameMembers

\* A new bundle below one that a way leads to.
LEMMA InsertedChild ==
  ASSUME IInv, TreeInv, TypeOK', RowsStay, NEW b \in Bundles, NEW parent, NEW slug, NEW title,
         Inserted(b, parent, slug, title), Used(parent),
         NEW v, NEW m, WayOf(v, m), v[m] = parent
  PROVE  /\ Append(PathOf(v), slug) \notin Dirs
         /\ Dirs' = Dirs \cup {Append(PathOf(v), slug)}
<1>. DEFINE new == Append(PathOf(v), slug)
<1>1. /\ TypeOK /\ SiblingsUnique /\ Shown /\ Shown' /\ WayFacts /\ WayFacts'
  BY WaysShow, WaysBehave, PTL DEF IInv
<1>2. /\ \A w, n : WayOf(w, n) => WayOf(w, n)' /\ PathOf(w)' = PathOf(w)
      /\ \A w, n : WayOf(w, n)' /\ w[n] # b => WayOf(w, n)
      /\ \A w, n : WayOf(w, n)' /\ w[n] = b => 
              \/ n = 1 /\ parent = Null
              \/ /\ n - 1 \in 1..n /\ n - 1 >= 1 /\ parent = w[n - 1] /\ parent # Null
                 /\ WayOf(Upto(w, n - 1), n - 1)
  BY InsertedWays
<1>3. /\ bundles[b] = Null
      /\ bundles'[b] # Null /\ bundles'[b].parent = parent /\ bundles'[b].slug = slug
      /\ ~bundles'[b].deleted
  BY <1>1, InsertedFacts
<1>4. /\ m \in Nat /\ m >= 1 /\ PathOf(v) \in Seq(Slugs) /\ Len(PathOf(v)) = m
      /\ \A i \in 1..m : PathOf(v)[i] = bundles[v[i]].slug /\ v[i] \in Bundles
      /\ slug \in Slugs /\ parent # Null
  BY <1>1, PathFacts, WayParts, ConstantsAssumption DEF Inserted, Used
<1>5. new = [i \in 1..(m + 1) |-> IF i = m + 1 THEN slug ELSE bundles[v[i]].slug]
  <2>. DEFINE p == PathOf(v)
  <2>1. /\ m \in Nat /\ p \in Seq(Slugs) /\ Len(p) = m /\ slug \in Slugs
        /\ \A i \in 1..m : p[i] = bundles[v[i]].slug
    BY <1>4
  <2>. HIDE DEF p
  <2>2. /\ Append(p, slug) = [i \in 1..(m + 1) |-> Append(p, slug)[i]]
        /\ \A i \in 1..(m + 1) : i = m + 1 \/ (i # m + 1 /\ i \in 1..m)
    <3>. DEFINE q == Append(p, slug)
    <3>1. q \in Seq(Slugs) /\ Len(q) = m + 1  BY <2>1
    <3>. HIDE DEF q
    <3>2. q = [i \in 1..(m + 1) |-> q[i]]  BY <2>1, <3>1
    <3>. QED BY <2>1, <3>2 DEF q
  <2>3. \A i \in 1..(m + 1) : Append(p, slug)[i] = IF i = m + 1 THEN slug ELSE p[i]
    BY <2>1
  <2>4. \A i \in 1..(m + 1) : Append(p, slug)[i] = IF i = m + 1 THEN slug
                                                   ELSE bundles[v[i]].slug
    BY <2>1, <2>2, <2>3
  <2>. QED BY <2>2, <2>4 DEF p
<1>. HIDE DEF new
<1>6. ASSUME NEW w, NEW n, WayOf(w, n), PathOf(w) = new PROVE FALSE
  <2>1. /\ n \in Nat /\ n >= 1 /\ Len(PathOf(w)) = n
        /\ \A i \in 1..n : PathOf(w)[i] = bundles[w[i]].slug
        /\ \A i \in 1..n : w[i] \in Bundles /\ Live(w[i])
        /\ \A i \in 2..n : bundles[w[i]].parent = w[i - 1]
    BY <1>1, <1>6, PathFacts, WayParts
  <2>2. n = m + 1  BY <1>4, <1>5, <1>6, <2>1
  <2>3. m \in 1..n /\ m \in 1..m /\ n \in 2..n /\ n - 1 = m /\ n # m  BY <1>4, <2>2
  <2>4. WayOf(Upto(w, m), m) /\ \A i \in 1..m : Upto(w, m)[i] = w[i] /\ i \in 1..n
    BY <1>1, <1>6, <2>3, UptoWay
  <2>5. ASSUME NEW i \in 1..m PROVE bundles[Upto(w, m)[i]].slug = bundles[v[i]].slug
    <3>1. i # m + 1 /\ i \in 1..(m + 1) /\ i \in 1..n  BY <1>4, <2>2
    <3>2. new[i] = bundles[v[i]].slug  BY <1>5, <3>1
    <3>. QED BY <1>6, <2>1, <2>4, <3>1, <3>2
  <2>6. Upto(w, m) = v  BY <1>1, <2>4, <2>5, SamePath
  <2>7. w[m] = parent  BY <2>3, <2>4, <2>6
  <2>8. bundles[w[n]].parent = parent
    <3>1. bundles[w[n]].parent = w[n - 1]  BY <2>1, <2>3
    <3>. QED BY <2>3, <2>7, <3>1, Zenon
  <2>9. bundles[w[n]].slug = slug
    <3>1. new[n] = slug  BY <1>4, <1>5, <2>2
    <3>. QED BY <1>6, <2>1, <2>3, <3>1
  <2>10. w[n] \in Bundles /\ Live(w[n])  BY <2>1
  <2>. QED BY <2>8, <2>9, <2>10 DEF Inserted, Taken, Children
<1>7. new \notin Dirs  BY <1>1, <1>6 DEF Shown, IsDir
<1>8. ASSUME NEW w, NEW n, WayOf(w, n)', w[n] = b PROVE PathOf(w)' = new
  <2>1. /\ n - 1 \in 1..n /\ n - 1 >= 1 /\ parent = w[n - 1]
        /\ WayOf(Upto(w, n - 1), n - 1)
    BY <1>2, <1>4, <1>8
  <2>. DEFINE l == n - 1
  <2>2. n \in Nat /\ n >= 1 /\ l \in 1..l /\ l \in Nat /\ n = l + 1
    BY <1>1, <1>8, <2>1 DEF WayFacts, WaysLead
  <2>3. WayOf(Upto(w, l), l) /\ parent = w[l]  BY <2>1
  <2>. HIDE DEF l
  <2>4. \A i \in 1..l : Upto(w, l)[i] = w[i]  BY DEF Upto
  <2>5. l = m /\ Upto(w, l) = v  BY <1>1, <2>2, <2>3, <2>4, SameEnd
  <2>6. \A i \in 1..m : v[i] = w[i]  BY <2>4, <2>5
  <2>7. \A i \in 1..m : bundles'[v[i]].slug = bundles[v[i]].slug
    <3>1. \A i \in 1..m : v[i] \in Bundles /\ Live(v[i])  BY <1>1 DEF WayFacts, WaysLead
    <3>. QED BY <3>1 DEF RowsStay, Live
  <2>8. PathOf(w)' = [i \in 1..n |-> bundles'[w[i]].slug]
    BY <1>1, <1>8 DEF WayFacts, WaysLead
  <2>9. \A i \in 1..(m + 1) : i = m + 1 \/ (i # m + 1 /\ i \in 1..m)  BY <1>4
  <2>10. \A i \in 1..(m + 1) : bundles'[w[i]].slug = IF i = m + 1 THEN slug
                                                      ELSE bundles[v[i]].slug
    BY <1>3, <1>8, <2>2, <2>5, <2>6, <2>7, <2>9
  <2>. QED BY <1>5, <2>2, <2>5, <2>8, <2>10
<1>9. WayOf(Further(v, m, b), m + 1)' /\ Further(v, m, b)[m + 1] = b
  <2>1. WayOf(v, m)'  BY <1>2
  <2>2. Live(b)' /\ bundles'[b].parent = v[m]  BY <1>3 DEF Live
  <2>3. WayOf(Further(v, m, b), m + 1)'  BY <1>1, <2>1, <2>2 DEF WayFacts, WaysGrow
  <2>. QED BY <1>4, <2>3 DEF Further
<1>10. ASSUME NEW p PROVE IsDir(p)' <=> IsDir(p) \/ p = new
  <2>1. ASSUME IsDir(p) PROVE IsDir(p)'  BY <1>2, <2>1 DEF IsDir
  <2>2. ASSUME p = new PROVE IsDir(p)'  BY <1>8, <1>9, <2>2 DEF IsDir
  <2>3. ASSUME IsDir(p)' PROVE IsDir(p) \/ p = new
    <3>1. PICK w, n : WayOf(w, n)' /\ p = PathOf(w)'  BY <2>3 DEF IsDir
    <3>2. CASE w[n] = b  BY <1>8, <3>1, <3>2
    <3>3. CASE w[n] # b  BY <1>2, <3>1, <3>3 DEF IsDir
    <3>. QED BY <3>2, <3>3
  <2>. QED BY <2>1, <2>2, <2>3
<1>11. \A p : p \in Dirs' <=> p \in Dirs \cup {new}  BY <1>1, <1>10 DEF Shown
<1>. QED BY <1>7, <1>11, SameMembers DEF new


\* One below a bundle no path leads to, which a delete has got at in the meantime.
LEMMA InsertedNowhere ==
  ASSUME IInv, TreeInv, TypeOK', RowsStay, NEW b \in Bundles, NEW parent, NEW slug, NEW title,
         Inserted(b, parent, slug, title), Used(parent), \A w, n : WayOf(w, n) => w[n] # parent
  PROVE  Dirs' = Dirs
<1>1. TypeOK /\ Shown /\ Shown'  BY WaysShow, PTL DEF IInv
<1>2. /\ \A w, n : WayOf(w, n) => WayOf(w, n)' /\ PathOf(w)' = PathOf(w)
      /\ \A w, n : WayOf(w, n)' /\ w[n] # b => WayOf(w, n)
      /\ \A w, n : WayOf(w, n)' /\ w[n] = b => 
              \/ n = 1 /\ parent = Null
              \/ /\ n - 1 \in 1..n /\ n - 1 >= 1 /\ parent = w[n - 1] /\ parent # Null
                 /\ WayOf(Upto(w, n - 1), n - 1)
  BY InsertedWays
<1>3. ASSUME NEW w, NEW n, WayOf(w, n)', w[n] = b PROVE FALSE
  <2>1. parent # Null  BY ConstantsAssumption DEF Used
  <2>. DEFINE m == n - 1
  <2>2. m >= 1 /\ m \in 1..n /\ parent = w[m] /\ WayOf(Upto(w, m), m)  BY <1>2, <1>3, <2>1
  <2>. HIDE DEF m
  <2>3. m \in 1..m  BY <2>2 DEF WayOf
  <2>4. Upto(w, m)[m] = parent  BY <2>2, <2>3 DEF Upto
  <2>. QED BY <2>2, <2>4
<1>4. \A p : IsDir(p)' <=> IsDir(p)  BY <1>2, <1>3 DEF IsDir
<1>. QED BY <1>1, <1>4, SameMembers DEF Shown

LEMMA InsertedStep ==
  ASSUME IInv, TreeInv, TypeOK', RowsStay, NEW b \in Bundles, NEW parent, NEW slug, NEW title,
         Inserted(b, parent, slug, title), parent = Null \/ Used(parent), UNCHANGED concepts
  PROVE  PathStep
<1>1. Docs' = Docs /\ slug \in Slugs  BY InsertedDocs DEF Inserted
<1>2. CASE parent = Null
  <2>1. <<slug>> \notin Dirs /\ Dirs' = Dirs \cup {<<slug>>}  BY <1>2, InsertedRoot
  <2>2. Namespace!AddRoot(slug)  BY <1>1, <2>1 DEF Namespace!AddRoot, Dirs, Docs
  <2>. QED BY <1>1, <2>2 DEF PathStep, Namespace!Next
<1>3. ASSUME Used(parent), NEW v, NEW m, WayOf(v, m), v[m] = parent PROVE PathStep
  <2>1. /\ Append(PathOf(v), slug) \notin Dirs
        /\ Dirs' = Dirs \cup {Append(PathOf(v), slug)}
    BY <1>3, InsertedChild
  <2>2. PathOf(v) \in Dirs
    <3>1. Shown  BY WaysShow DEF IInv
    <3>. QED BY <1>3, <3>1 DEF Shown, IsDir
  <2>3. Namespace!AddChild(PathOf(v), slug)
    BY <1>1, <2>1, <2>2 DEF Namespace!AddChild, Dirs, Docs
  <2>. QED BY <1>1, <2>2, <2>3 DEF PathStep, Namespace!Next, Dirs
<1>4. CASE Used(parent) /\ \A w, n : WayOf(w, n) => w[n] # parent
  BY <1>1, <1>4, InsertedNowhere DEF PathStep
<1>. QED BY <1>2, <1>3, <1>4

-----------------------------------------------------------------------------
(* The other steps.                                                        *)

\* Steps no path shows.
SameWays ==
  \A w, n : /\ WayOf(w, n)' <=> WayOf(w, n)
            /\ WayOf(w, n) => PathOf(w)' = PathOf(w)
SameContents ==
  \A w, n : WayOf(w, n) =>
    \A k : /\ k \in ConceptsIn({w[n]})' <=> k \in ConceptsIn({w[n]})
           /\ k \in ConceptsIn({w[n]}) => concepts'[k].name = concepts[k].name

LEMMA NothingShows ==
  ASSUME TypeOK, TypeOK', SameWays, SameContents
  PROVE  Dirs' = Dirs /\ Docs' = Docs
<1>1. Shown /\ Shown'  BY WaysShow, PTL
<1>2. \A p : IsDir(p)' <=> IsDir(p)  BY DEF SameWays, IsDir
<1>3. \A d : IsDoc(d)' <=> IsDoc(d)
  <2>1. ASSUME NEW d, IsDoc(d) PROVE IsDoc(d)'
    <3>1. PICK w, n : /\ WayOf(w, n)
                      /\ \E k \in ConceptsIn({w[n]}) : d = <<PathOf(w), concepts[k].name>>
      BY <2>1 DEF IsDoc
    <3>2. WayOf(w, n)' /\ PathOf(w)' = PathOf(w)  BY <3>1 DEF SameWays
    <3>3. \E k \in ConceptsIn({w[n]})' : d = <<PathOf(w)', concepts'[k].name>>
      BY <3>1, <3>2 DEF SameContents
    <3>. QED BY <3>2, <3>3 DEF IsDoc
  <2>2. ASSUME NEW d, IsDoc(d)' PROVE IsDoc(d)
    <3>1. PICK w, n :
            /\ WayOf(w, n)'
            /\ \E k \in ConceptsIn({w[n]})' : d = <<PathOf(w)', concepts'[k].name>>
      BY <2>2 DEF IsDoc
    <3>2. WayOf(w, n) /\ PathOf(w)' = PathOf(w)  BY <3>1 DEF SameWays
    <3>3. \E k \in ConceptsIn({w[n]}) : d = <<PathOf(w), concepts[k].name>>
      BY <3>1, <3>2 DEF SameContents
    <3>. QED BY <3>2, <3>3 DEF IsDoc
  <2>. QED BY <2>1, <2>2
<1>. QED BY <1>1, <1>2, <1>3, SameMembers DEF Shown

\* The same rows make the same ways.
LEMMA SameRows ==
  ASSUME TypeOK, TypeOK', RowsStay, \A b \in Bundles : Live(b)' <=> Live(b)
  PROVE  SameWays
<1>1. WaysLead /\ WaysLead'  BY WaysBehave, PTL DEF WayFacts
<1>2. ASSUME NEW w, NEW n, WayOf(w, n) PROVE WayOf(w, n)' /\ PathOf(w)' = PathOf(w)
  BY <1>1, <1>2, WaysStay DEF WaysLead
<1>3. ASSUME NEW w, NEW n, WayOf(w, n)' PROVE WayOf(w, n)
  <2>1. \A i \in 1..n : bundles[w[i]] # Null  BY <1>1, <1>3 DEF WaysLead, Live
  <2>. QED BY <1>3, <2>1, WaysWere
<1>. QED BY <1>2, <1>3 DEF SameWays

LEMMA RetitledStep ==
  ASSUME IInv, TypeOK', RowsStay, NEW b \in Bundles, NEW title \in Titles, Retitled(b, title),
         UNCHANGED concepts
  PROVE  PathStep
<1>1. \A d \in Bundles : Live(d)' <=> Live(d)
  BY RetitledFacts DEF IInv, Live
<1>2. SameWays  BY <1>1, SameRows DEF IInv
<1>3. SameContents  BY DEF SameContents, ConceptsIn, LiveConcept
<1>. QED BY <1>2, <1>3, NothingShows DEF IInv, PathStep

\* The concepts of deleted bundles are on no path already.
LEMMA EmptiedStep ==
  ASSUME IInv, TypeOK', RowsStay, UNCHANGED bundles, NEW homes, Emptied(homes)
  PROVE  PathStep
<1>1. SameWays  BY SameRows DEF IInv, Live
<1>2. WaysLead  BY WaysBehave DEF IInv, WayFacts
<1>3. ASSUME NEW w, NEW n, WayOf(w, n), NEW k
      PROVE  /\ k \in ConceptsIn({w[n]})' <=> k \in ConceptsIn({w[n]})
             /\ k \in ConceptsIn({w[n]}) => concepts'[k].name = concepts[k].name
  <2>1. n \in 1..n /\ Live(w[n])  BY <1>2, <1>3 DEF WaysLead
  <2>2. w[n] \notin homes  BY <2>1 DEF Emptied, Dead, Live
  <2>3. ASSUME k \in ConceptsIn({w[n]}) PROVE concepts'[k] = concepts[k]
    BY <2>2, <2>3 DEF ConceptsIn, Emptied
  <2>4. ASSUME k \in ConceptsIn({w[n]})' PROVE concepts'[k] = concepts[k]
    <3>1. k \in Concepts /\ ~concepts'[k].deleted  BY <2>4 DEF ConceptsIn, LiveConcept
    <3>2. ASSUME k \in ConceptsIn(homes) PROVE FALSE
      <4>1. concepts[k] \in Concept  BY <3>2 DEF ConceptsIn, LiveConcept, IInv, TypeOK
      <4>2. concepts'[k] = [concepts[k] EXCEPT !.deleted = TRUE]
        BY <3>1, <3>2 DEF Emptied
      <4>. QED BY <3>1, <4>1, <4>2 DEF Concept
    <3>. QED BY <3>1, <3>2 DEF Emptied
  <2>. QED BY <2>3, <2>4 DEF ConceptsIn, LiveConcept
<1>4. SameContents  BY <1>3 DEF SameContents
<1>. QED BY <1>1, <1>4, NothingShows DEF IInv, PathStep


\* A new concept.
LEMMA FiledStep ==
  ASSUME IInv, TypeOK', RowsStay, UNCHANGED bundles,
         NEW k \in Concepts, NEW home, NEW name, Filed(k, home, name)
  PROVE  PathStep
<1>. DEFINE row == [home |-> home, name |-> name, deleted |-> FALSE]
<1>0. row # Null /\ row.home = home /\ row.name = name /\ ~row.deleted
  <2>1. row \in Concept  BY DEF Filed, Used, Concept
  <2>. QED BY <2>1, ConstantsAssumption
<1>1. concepts[k] = Null /\ concepts' = [concepts EXCEPT ![k] = row]  BY DEF Filed
<1>. HIDE DEF row
<1>2. /\ concepts'[k] # Null /\ concepts'[k].home = home /\ concepts'[k].name = name
      /\ ~concepts'[k].deleted
      /\ \A i \in Concepts \ {k} : concepts'[i] = concepts[i]
  BY <1>0, <1>1 DEF IInv, TypeOK
<1>3. \A b, i : i \in ConceptsIn({b})' <=> i \in ConceptsIn({b}) \/ (i = k /\ b = home)
  BY <1>1, <1>2 DEF ConceptsIn, LiveConcept
<1>4. \A b : \A i \in ConceptsIn({b}) : concepts'[i].name = concepts[i].name
  BY <1>1, <1>2 DEF ConceptsIn, LiveConcept
<1>5. SameWays  BY SameRows DEF IInv, Live
<1>6. TypeOK /\ SiblingsUnique /\ Shown /\ Shown'  BY WaysShow, PTL DEF IInv
<1>7. CASE \A w, n : WayOf(w, n) => w[n] # home
  <2>1. SameContents  BY <1>3, <1>4, <1>7 DEF SameContents
  <2>. QED BY <1>5, <1>6, <2>1, NothingShows DEF PathStep
<1>8. ASSUME NEW w, NEW n, WayOf(w, n), w[n] = home PROVE PathStep
  <2>. DEFINE new == <<PathOf(w), name>>
  <2>1. PathOf(w) \in Dirs  BY <1>6, <1>8 DEF Shown, IsDir
  <2>2. new \notin Docs
    <3>1. SUFFICES ASSUME NEW v, NEW m, WayOf(v, m), NEW i \in ConceptsIn({v[m]}),
                          new = <<PathOf(v), concepts[i].name>>
                   PROVE  FALSE
      BY <1>6 DEF Shown, IsDoc
    <3>2. PathOf(v) = PathOf(w) /\ concepts[i].name = name  BY <3>1
    <3>3. m = n /\ v = w  BY <1>6, <1>8, <3>1, <3>2, SameWay
    <3>. QED BY <1>8, <3>1, <3>2, <3>3 DEF Filed, ConceptTaken
  <2>3. ASSUME NEW d PROVE IsDoc(d)' <=> IsDoc(d) \/ d = new
    <3>1. ASSUME IsDoc(d) PROVE IsDoc(d)'
      <4>1. PICK v, m : /\ WayOf(v, m)
                        /\ \E i \in ConceptsIn({v[m]}) : d = <<PathOf(v), concepts[i].name>>
        BY <3>1 DEF IsDoc
      <4>2. WayOf(v, m)' /\ PathOf(v)' = PathOf(v)  BY <1>5, <4>1 DEF SameWays
      <4>3. \E i \in ConceptsIn({v[m]})' : d = <<PathOf(v)', concepts'[i].name>>
        BY <1>3, <1>4, <4>1, <4>2
      <4>. QED BY <4>2, <4>3 DEF IsDoc
    <3>2. ASSUME d = new PROVE IsDoc(d)'
      <4>1. WayOf(w, n)' /\ PathOf(w)' = PathOf(w)  BY <1>5, <1>8 DEF SameWays
      <4>2. k \in ConceptsIn({w[n]})' /\ d = <<PathOf(w)', concepts'[k].name>>
        BY <1>2, <1>3, <1>8, <3>2, <4>1
      <4>. QED BY <4>1, <4>2 DEF IsDoc
    <3>3. ASSUME IsDoc(d)' PROVE IsDoc(d) \/ d = new
      <4>1. PICK v, m :
              /\ WayOf(v, m)'
              /\ \E i \in ConceptsIn({v[m]})' : d = <<PathOf(v)', concepts'[i].name>>
        BY <3>3 DEF IsDoc
      <4>2. PICK i \in ConceptsIn({v[m]})' : d = <<PathOf(v)', concepts'[i].name>>
        BY <4>1
      <4>3. WayOf(v, m) /\ PathOf(v)' = PathOf(v)  BY <1>5, <4>1 DEF SameWays
      <4>4. CASE i \in ConceptsIn({v[m]})  BY <1>4, <4>2, <4>3, <4>4 DEF IsDoc
      <4>5. CASE i = k /\ v[m] = home
        <5>1. v = w  BY <1>6, <1>8, <4>3, <4>5, SameEnd
        <5>. QED BY <1>2, <4>2, <4>3, <4>5, <5>1
      <4>. QED BY <1>3, <4>2, <4>4, <4>5
    <3>. QED BY <3>1, <3>2, <3>3
  <2>4. Docs' = Docs \cup {new}
    <3>1. \A d : d \in Docs' <=> d \in Docs \cup {new}  BY <1>6, <2>3 DEF Shown
    <3>. QED BY <3>1, SameMembers
  <2>5. Dirs' = Dirs
    <3>1. \A p : IsDir(p)' <=> IsDir(p)  BY <1>5 DEF SameWays, IsDir
    <3>. QED BY <1>6, <3>1, SameMembers DEF Shown
  <2>6. Namespace!AddDoc(PathOf(w), name)
    BY <2>1, <2>2, <2>4, <2>5 DEF Namespace!AddDoc, Dirs, Docs
  <2>7. name \in Names  BY DEF Filed
  <2>. QED BY <2>1, <2>6, <2>7 DEF PathStep, Namespace!Next, Dirs
<1>. QED BY <1>7, <1>8

\* The ways a delete leaves are those that do not pass its root.
LEMMA FelledWays ==
  ASSUME IInv, TypeOK', RowsStay, NEW root \in Bundles, Felled(root)
  PROVE  \A w, n : /\ WayOf(w, n)' <=> WayOf(w, n) /\ \A j \in 1..n : w[j] # root
                   /\ WayOf(w, n)' => PathOf(w)' = PathOf(w)
<1>1. TypeOK /\ WaysLead /\ WaysLead'  BY WaysBehave, PTL DEF IInv, WayFacts
<1>2. ASSUME NEW w, NEW n, WayOf(w, n), \A j \in 1..n : w[j] # root
      PROVE  WayOf(w, n)' /\ PathOf(w)' = PathOf(w)
  <2>1. \A i \in 1..n : w[i] \notin SubtreeOf(root)  BY <1>1, <1>2, WayIntoSubtree
  <2>2. \A i \in 1..n : Live(w[i])'
    BY <1>1, <1>2, <2>1, FelledFacts DEF WaysLead, Live
  <2>. QED BY <1>1, <1>2, <2>2, WaysStay
<1>3. ASSUME NEW w, NEW n, WayOf(w, n)'
      PROVE  WayOf(w, n) /\ \A j \in 1..n : w[j] # root
  <2>1. \A i \in 1..n : w[i] \in Bundles /\ Live(w[i])'  BY <1>1, <1>3 DEF WaysLead
  <2>2. \A i \in 1..n : w[i] \notin SubtreeOf(root)
    BY <1>1, <2>1, FelledFacts DEF Live
  <2>3. \A i \in 1..n : Live(w[i])  BY <1>1, <2>1, <2>2, FelledFacts DEF Live
  <2>4. WayOf(w, n)
    <3>1. \A i \in 1..n : bundles[w[i]] # Null  BY <2>3 DEF Live
    <3>. QED BY <1>1, <1>3, <3>1, WaysWere
  <2>5. Live(root) => root \in SubtreeOf(root)  BY DEF SubtreeOf
  <2>. QED BY <2>2, <2>3, <2>4, <2>5
<1>. QED BY <1>2, <1>3

\* A delete.
LEMMA FelledStep ==
  ASSUME IInv, TypeOK', RowsStay, NEW root \in Bundles, Felled(root), UNCHANGED concepts
  PROVE  PathStep
<1>1. TypeOK /\ SiblingsUnique /\ Shown /\ Shown'  BY WaysShow, PTL DEF IInv
<1>2. \A w, n : /\ WayOf(w, n)' <=> WayOf(w, n) /\ \A j \in 1..n : w[j] # root
                /\ WayOf(w, n)' => PathOf(w)' = PathOf(w)
  BY FelledWays
<1>3. \A homes : ConceptsIn(homes)' = ConceptsIn(homes)  BY DEF ConceptsIn, LiveConcept
<1>4. CASE \A w, n : WayOf(w, n) => w[n] # root
  <2>1. ASSUME NEW w, NEW n, WayOf(w, n), NEW j \in 1..n PROVE w[j] # root
    <3>1. WayOf(Upto(w, j), j) /\ \A i \in 1..j : Upto(w, j)[i] = w[i]
      BY <1>1, <2>1, UptoWay
    <3>2. j \in 1..j  BY <3>1 DEF WayOf
    <3>. QED BY <1>4, <3>1, <3>2
  <2>2. SameWays  BY <1>2, <2>1 DEF SameWays
  <2>3. SameContents  BY <1>3 DEF SameContents
  <2>. QED BY <1>1, <2>2, <2>3, NothingShows DEF PathStep
<1>5. ASSUME NEW r, NEW m, WayOf(r, m), r[m] = root PROVE PathStep
  <2>. PICK p : p = PathOf(r)  OBVIOUS
  <2>1. \A w, n : WayOf(w, n) =>
          (Namespace!IsPrefix(p, PathOf(w)) <=> \E j \in 1..n : w[j] = root)
    BY <1>1, <1>5, PrefixMeansBelow
  <2>2. p \in Dirs  BY <1>1, <1>5 DEF Shown, IsDir
  <2>3. ASSUME p = <<Global>> PROVE FALSE
    <3>1. m \in Nat /\ m >= 1 /\ Len(p) = m /\ \A i \in 1..m : p[i] = bundles[r[i]].slug
      BY <1>1, <1>5, PathFacts
    <3>2. m = 1 /\ p[1] = Global  BY <2>3, <3>1
    <3>3. bundles[r[1]].parent = Null  BY <1>1, <1>5, WayParts
    <3>4. bundles[root].slug = Global /\ bundles[root].parent = Null
      BY <1>5, <3>1, <3>2, <3>3
    <3>. QED BY <3>4 DEF Felled
  <2>4. \A q : IsDir(q)' <=> IsDir(q) /\ ~Namespace!IsPrefix(p, q)
    <3>1. ASSUME NEW q, IsDir(q)' PROVE IsDir(q) /\ ~Namespace!IsPrefix(p, q)
      <4>1. PICK w, n : WayOf(w, n)' /\ q = PathOf(w)'  BY <3>1 DEF IsDir
      <4>2. WayOf(w, n) /\ q = PathOf(w) /\ ~(\E j \in 1..n : w[j] = root)
        BY <1>2, <4>1
      <4>. QED BY <2>1, <4>2 DEF IsDir
    <3>2. ASSUME NEW q, IsDir(q), ~Namespace!IsPrefix(p, q) PROVE IsDir(q)'
      <4>1. PICK w, n : WayOf(w, n) /\ q = PathOf(w)  BY <3>2 DEF IsDir
      <4>2. \A j \in 1..n : w[j] # root  BY <2>1, <3>2, <4>1
      <4>3. WayOf(w, n)' /\ q = PathOf(w)'  BY <1>2, <4>1, <4>2
      <4>. QED BY <4>3 DEF IsDir
    <3>. QED BY <3>1, <3>2
  <2>5. \A d : IsDoc(d)' <=> IsDoc(d) /\ ~Namespace!IsPrefix(p, d[1])
    <3>1. ASSUME NEW d, IsDoc(d)' PROVE IsDoc(d) /\ ~Namespace!IsPrefix(p, d[1])
      <4>1. PICK w, n :
              /\ WayOf(w, n)'
              /\ \E k \in ConceptsIn({w[n]}) : d = <<PathOf(w)', concepts[k].name>>
        BY <1>3, <3>1 DEF IsDoc
      <4>2. WayOf(w, n) /\ PathOf(w)' = PathOf(w) /\ ~(\E j \in 1..n : w[j] = root)
        BY <1>2, <4>1
      <4>3. IsDoc(d)  BY <4>1, <4>2 DEF IsDoc
      <4>4. d[1] = PathOf(w)  BY <4>1, <4>2
      <4>. QED BY <2>1, <4>2, <4>3, <4>4
    <3>2. ASSUME NEW d, IsDoc(d), ~Namespace!IsPrefix(p, d[1]) PROVE IsDoc(d)'
      <4>1. PICK w, n : /\ WayOf(w, n)
                        /\ \E k \in ConceptsIn({w[n]}) : d = <<PathOf(w), concepts[k].name>>
        BY <3>2 DEF IsDoc
      <4>2. d[1] = PathOf(w)  BY <4>1
      <4>3. \A j \in 1..n : w[j] # root  BY <2>1, <3>2, <4>1, <4>2
      <4>4. WayOf(w, n)' /\ PathOf(w)' = PathOf(w)  BY <1>2, <4>1, <4>3
      <4>. QED BY <1>3, <4>1, <4>4 DEF IsDoc
    <3>. QED BY <3>1, <3>2
  <2>6. Dirs' = {q \in Dirs : ~Namespace!IsPrefix(p, q)}
    <3>1. \A q : q \in Dirs' <=> q \in {x \in Dirs : ~Namespace!IsPrefix(p, x)}
      BY <1>1, <2>4 DEF Shown
    <3>. QED BY <3>1, SameMembers
  <2>7. Docs' = {d \in Docs : ~Namespace!IsPrefix(p, d[1])}
    <3>1. \A d : d \in Docs' <=> d \in {x \in Docs : ~Namespace!IsPrefix(p, x[1])}
      BY <1>1, <2>5 DEF Shown
    <3>. QED BY <3>1, SameMembers
  <2>8. Namespace!RemoveTree(p)
    BY <2>2, <2>3, <2>6, <2>7 DEF Namespace!RemoveTree, Dirs, Docs
  <2>9. \E q \in Dirs : Namespace!RemoveTree(q)  BY <2>2, <2>8
  <2>10. Namespace!Next  BY <2>9, Zenon DEF Namespace!Next, Dirs
  <2>. QED BY <2>10 DEF PathStep
<1>. QED BY <1>4, <1>5

-----------------------------------------------------------------------------
(* Theorem.                                                                *)

LEMMA PathSteps ==
  ASSUME IInv, TreeInv, [Next]_vars
  PROVE  PathStep
<1>1. IInv' /\ BundleStep  BY NextOK
<1>2. TypeOK' /\ RowsStay  BY <1>1, RowsStayStep DEF IInv
<1>3. ConceptStep  BY ConceptSteps
<1>4. CASE UNCHANGED bundles /\ ~(UNCHANGED concepts)
  BY <1>2, <1>3, <1>4, FiledStep, EmptiedStep DEF ConceptStep
<1>5. CASE UNCHANGED bundles /\ UNCHANGED concepts
  <2>1. SameWays  BY <1>2, <1>5, SameRows DEF IInv, Live
  <2>2. SameContents  BY <1>5 DEF SameContents, ConceptsIn, LiveConcept
  <2>. QED BY <1>2, <2>1, <2>2, NothingShows DEF IInv, PathStep
<1>6. CASE UNCHANGED concepts /\ ~(UNCHANGED bundles)
  <2>1. ASSUME NEW b \in Bundles, NEW parent, NEW slug, NEW title,
               Inserted(b, parent, slug, title)
        PROVE  PathStep
    <3>1. bundles[b] = Null /\ bundles'[b] # Null /\ bundles'[b].parent = parent
      BY <2>1, InsertedFacts DEF IInv
    <3>2. parent = Null \/ Used(parent)  BY <3>1, NewRowsSteps DEF NewRowsPlaced
    <3>. QED BY <1>2, <1>6, <2>1, <3>2, InsertedStep
  <2>2. ASSUME NEW b \in Bundles, NEW title \in Titles, Retitled(b, title) PROVE PathStep
    BY <1>2, <1>6, <2>2, RetitledStep
  <2>3. ASSUME NEW root \in Bundles, Felled(root) PROVE PathStep
    BY <1>2, <1>6, <2>3, FelledStep
  <2>. QED BY <1>1, <1>6, <2>1, <2>2, <2>3 DEF BundleStep
<1>. QED BY <1>3, <1>4, <1>5, <1>6 DEF ConceptStep

LEMMA PathInit ==
  ASSUME Init
  PROVE  Namespace!Init
<1>1. TypeOK /\ Shown  BY InitOK, WaysShow DEF IInv
<1>2. \A b \in Bundles : ~Live(b)  BY DEF Init, Live
<1>3. \A w, n : ~WayOf(w, n)  BY <1>1, <1>2, WaysBehave DEF WayFacts, WaysLead
<1>4. Dirs = {} /\ Docs = {}  BY <1>1, <1>3 DEF Shown, IsDir, IsDoc
<1>. QED BY <1>4 DEF Namespace!Init, Dirs, Docs

\* Seen through paths every create, directory insertion, concept and delete is one step,
\* and what is half deleted or inserted too late is seen by nobody.
THEOREM TreeImplementsNamespace == Spec => ImplementsNamespace
<1>1. IInv /\ TreeInv /\ [Next]_vars => TreeInv'  BY TreeInvStep
<1>2. Init => TreeInv  BY TreeInvInit
<1>3. Init => Namespace!Init  BY PathInit
<1>4. IInv /\ TreeInv /\ [Next]_vars => PathStep  BY PathSteps
<1>5. PathStep => [Namespace!Next]_(Namespace!vars)  BY DEF PathStep, Dirs, Docs, Namespace!vars
<1>. QED BY Invariant, <1>1, <1>2, <1>3, <1>4, <1>5, PTL
     DEF Spec, ImplementsNamespace, Namespace!Spec

=============================================================================
