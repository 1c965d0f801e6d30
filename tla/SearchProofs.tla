---------------------------- MODULE SearchProofs ----------------------------
(***************************************************************************)
(* What a caller who pages through a search is given, for every vault,     *)
(* every query and every limit: each page is the page of its offset, the   *)
(* pages follow each other without a gap or a repeat, and what they show   *)
(* is relevant and can be opened.                                          *)
(***************************************************************************)
EXTENDS Search, FiniteSetTheorems, SequenceTheorems, TLAPS

\* A function on 1..n is a sequence of length n.
LEMMA ListFacts ==
  ASSUME NEW S, NEW n \in Nat, NEW f \in [1..n -> S]
  PROVE  f \in Seq(S) /\ Len(f) = n
<1>1. f \in Seq(S)
  BY SeqDef
<1>2. DOMAIN f = 1..Len(f) /\ Len(f) \in Nat
  BY <1>1, LenProperties
<1>3. 1..Len(f) = 1..n
  BY <1>2
<1>4. \A a, b \in Nat : 1..a = 1..b => a = b
  BY SMT
<1> QED BY <1>1, <1>2, <1>3, <1>4

-----------------------------------------------------------------------------
(* The order of the rows.                                                  *)

\* A set put in order is a sequence of its members, each once, by increasing rank.
LEMMA InOrderFacts ==
  ASSUME NEW S, IsFiniteSet(S), NEW rank,
         \A x \in S : rank[x] \in Nat,
         \A x, y \in S : rank[x] = rank[y] => x = y
  PROVE  /\ InOrder(S, rank) \in Seq(S)
         /\ Len(InOrder(S, rank)) = Cardinality(S)
         /\ \A x \in S : \E n \in 1..Cardinality(S) : InOrder(S, rank)[n] = x
         /\ \A m, n \in 1..Cardinality(S) :
              m < n => rank[InOrder(S, rank)[m]] < rank[InOrder(S, rank)[n]]
<1> DEFINE Below(x) == {y \in S : rank[y] < rank[x]}
           N == Cardinality(S)
           place == [x \in S |-> Cardinality(Below(x))]
<1>1. N \in Nat
  BY FS_CardinalityType
<1>2. \A x \in S : IsFiniteSet(Below(x)) /\ Cardinality(Below(x)) \in 0..N-1
  <2> SUFFICES ASSUME NEW x \in S
               PROVE  IsFiniteSet(Below(x)) /\ Cardinality(Below(x)) \in 0..N-1
    OBVIOUS
  <2>1. IsFiniteSet(S \ {x}) /\ Cardinality(S \ {x}) = N - 1
    BY FS_RemoveElement
  <2>2. Below(x) \in SUBSET (S \ {x})
    OBVIOUS
  <2>3. IsFiniteSet(Below(x)) /\ Cardinality(Below(x)) <= N - 1
    <3> HIDE DEF Below
    <3> QED BY <2>1, <2>2, FS_Subset
  <2>4. Cardinality(Below(x)) \in Nat
    BY <2>3, FS_CardinalityType
  <2> HIDE DEF N, Below
  <2> QED BY <2>3, <2>4, <1>1
<1>3. \A x, y \in S : rank[x] < rank[y] => Cardinality(Below(x)) < Cardinality(Below(y))
  <2> SUFFICES ASSUME NEW x \in S, NEW y \in S, rank[x] < rank[y]
               PROVE  Cardinality(Below(x)) < Cardinality(Below(y))
    OBVIOUS
  <2>1. Below(x) \cup {x} \in SUBSET Below(y)
    OBVIOUS
  <2>2. x \notin Below(x)
    OBVIOUS
  <2>3. Cardinality(Below(x) \cup {x}) = Cardinality(Below(x)) + 1
    <3> HIDE DEF Below
    <3> QED BY <1>2, <2>2, FS_AddElement
  <2>4. Cardinality(Below(x) \cup {x}) <= Cardinality(Below(y))
    <3> HIDE DEF Below
    <3> QED BY <1>2, <2>1, FS_Subset
  <2> HIDE DEF Below, N
  <2> QED BY <1>2, <1>1, <2>3, <2>4
<1>4. \A k \in 0..N-1 : \E x \in S : Cardinality(Below(x)) = k
  <2> HIDE DEF Below
  <2>1. place \in Injection(S, 0..N-1)
    <3>1. place \in [S -> 0..N-1]
      <4> HIDE DEF N
      <4> QED BY <1>2
    <3>2. \A x, y \in S : place[x] = place[y] => x = y
      <4> HIDE DEF N
      <4> QED BY <1>1, <1>2, <1>3
    <3> HIDE DEF place, N
    <3> QED BY <3>1, <3>2 DEF Injection, IsInjective
  <2>2. IsFiniteSet(0..N-1) /\ Cardinality(0..N-1) = N
    <3> HIDE DEF N
    <3>1. IsFiniteSet(0..N-1) /\ Cardinality(0..N-1) = IF 0 > N - 1 THEN 0 ELSE N - 1 - 0 + 1
      BY <1>1, FS_Interval
    <3> QED BY <3>1, <1>1
  <2>3. place \in Surjection(S, 0..N-1)
    <3> HIDE DEF place
    <3> QED BY <2>1, <2>2, FS_Injection
  <2>4. \A k \in 0..N-1 : \E x \in S : place[x] = k
    <3> HIDE DEF place, N
    <3> QED BY <2>3 DEF Surjection
  <2> HIDE DEF N
  <2> QED BY <2>4
<1>5. \A n \in 1..N : /\ InOrder(S, rank)[n] \in S
                      /\ Cardinality(Below(InOrder(S, rank)[n])) = n - 1
  <2> SUFFICES ASSUME NEW n \in 1..N
               PROVE  /\ InOrder(S, rank)[n] \in S
                      /\ Cardinality(Below(InOrder(S, rank)[n])) = n - 1
    OBVIOUS
  <2>1. InOrder(S, rank)[n] = CHOOSE x \in S : Cardinality(Below(x)) = n - 1
    BY DEF InOrder
  <2>2. \E x \in S : Cardinality(Below(x)) = n - 1
    <3> HIDE DEF Below, N
    <3> QED BY <1>1, <1>4
  <2> HIDE DEF Below, N
  <2> QED BY <2>1, <2>2
<1>6. InOrder(S, rank) \in [1..N -> S]
  <2> DEFINE pick(n) == CHOOSE x \in S : Cardinality(Below(x)) = n - 1
  <2>1. InOrder(S, rank) = [n \in 1..N |-> pick(n)]
    BY DEF InOrder
  <2> HIDE DEF pick, N
  <2> QED BY <2>1, <1>5
<1>7. InOrder(S, rank) \in Seq(S) /\ Len(InOrder(S, rank)) = N
  <2> HIDE DEF N, Below
  <2> QED BY <1>1, <1>6, ListFacts
<1>8. \A x \in S : \E n \in 1..N : InOrder(S, rank)[n] = x
  <2> SUFFICES ASSUME NEW x \in S PROVE \E n \in 1..N : InOrder(S, rank)[n] = x
    OBVIOUS
  <2> DEFINE k == Cardinality(Below(x)) + 1
             y == InOrder(S, rank)[k]
  <2>1. k \in 1..N
    <3> HIDE DEF Below, N
    <3> QED BY <1>1, <1>2
  <2>2. y \in S /\ Cardinality(Below(y)) = Cardinality(Below(x))
    <3>1. y \in S /\ Cardinality(Below(y)) = k - 1
      <4> HIDE DEF k
      <4> QED BY <1>5, <2>1
    <3> HIDE DEF y, Below, N
    <3> QED BY <3>1, <1>1, <1>2
  <2>3. y = x
    <3> HIDE DEF y, Below, N
    <3> QED BY <2>2, <1>1, <1>2, <1>3
  <2> HIDE DEF k
  <2> QED BY <2>1, <2>3
<1>9. \A m, n \in 1..N : m < n => rank[InOrder(S, rank)[m]] < rank[InOrder(S, rank)[n]]
  <2> SUFFICES ASSUME NEW m \in 1..N, NEW n \in 1..N, m < n
               PROVE  rank[InOrder(S, rank)[m]] < rank[InOrder(S, rank)[n]]
    OBVIOUS
  <2> DEFINE x == InOrder(S, rank)[m]
             y == InOrder(S, rank)[n]
  <2>1. x \in S /\ y \in S /\ Cardinality(Below(x)) = m - 1 /\ Cardinality(Below(y)) = n - 1
    BY <1>5
  <2> HIDE DEF x, y, Below, N
  <2>2. ~(rank[y] < rank[x]) /\ rank[x] # rank[y]
    BY <2>1, <1>1, <1>2, <1>3
  <2>3. rank[x] < rank[y]
    BY <2>1, <2>2
  <2> QED BY <2>3 DEF x, y
<1> QED BY <1>7, <1>8, <1>9

\* The rows of a query: matches, by increasing rank.
LEMMA MatchingFacts ==
  ASSUME corpus \subseteq Concepts, NEW q, NEW homes
  PROVE  /\ Matching(q, homes) \in Seq(Matches(q, homes))
         /\ Matching(q, homes) \in Seq(Concepts)
         /\ Len(Matching(q, homes)) \in Nat
         /\ \A n \in 1..Len(Matching(q, homes)) : Matching(q, homes)[n] \in Matches(q, homes)
         /\ \A m, n \in 1..Len(Matching(q, homes)) :
              m < n => Rank[Matching(q, homes)[m]] < Rank[Matching(q, homes)[n]]
<1> DEFINE S == Matches(q, homes)
<1>1. S \in SUBSET Concepts
  BY DEF Matches
<1> HIDE DEF S
<1>2. IsFiniteSet(S)
  BY <1>1, FS_Subset, PoolAssumption
<1>3. /\ \A x \in S : Rank[x] \in Nat
      /\ \A x, y \in S : Rank[x] = Rank[y] => x = y
  BY <1>1, PoolAssumption DEF IsInjective
<1>4. Matching(q, homes) = InOrder(S, Rank)
  BY DEF Matching, S
<1>5. /\ InOrder(S, Rank) \in Seq(S)
      /\ Len(InOrder(S, Rank)) = Cardinality(S)
      /\ \A m, n \in 1..Cardinality(S) :
           m < n => Rank[InOrder(S, Rank)[m]] < Rank[InOrder(S, Rank)[n]]
  BY <1>2, <1>3, InOrderFacts
<1> DEFINE r == Matching(q, homes)
<1>6. r \in Seq(S) /\ \A m, n \in 1..Len(r) : m < n => Rank[r[m]] < Rank[r[n]]
  BY <1>4, <1>5
<1> HIDE DEF r
<1>7. Len(r) \in Nat /\ \A n \in 1..Len(r) : r[n] \in S
  BY <1>6, LenProperties, ElementOfSeq
<1>8. r \in Seq(Concepts)
  BY <1>1, <1>6, SeqMonotonic
<1> QED BY <1>6, <1>7, <1>8 DEF r, S

\* How many of the rows a page that starts at from shows.
Count(rows, from, limit) ==
  IF from >= Len(rows) THEN 0
  ELSE IF from + limit < Len(rows) THEN limit ELSE Len(rows) - from

\* A slice is that many rows, from the one after from.
LEMMA SliceFacts ==
  ASSUME NEW T, NEW rows \in Seq(T), NEW from \in Nat, NEW limit \in Nat
  PROVE  /\ Slice(rows, from, limit) \in Seq(T)
         /\ Count(rows, from, limit) \in 0..limit
         /\ Len(Slice(rows, from, limit)) = Count(rows, from, limit)
         /\ DOMAIN Slice(rows, from, limit) = 1..Count(rows, from, limit)
         /\ \A i \in 1..Count(rows, from, limit) :
              /\ from + i \in 1..Len(rows)
              /\ Slice(rows, from, limit)[i] = rows[from + i]
<1> DEFINE n == IF from + limit < Len(rows) THEN from + limit ELSE Len(rows)
           s == SubSeq(rows, from + 1, n)
           c == Count(rows, from, limit)
<1>1. Slice(rows, from, limit) = s
  BY DEF Slice
<1>2. Len(rows) \in Nat /\ \A i \in 1..Len(rows) : rows[i] \in T
  BY LenProperties, ElementOfSeq
<1>3. /\ n \in Int /\ n <= Len(rows)
      /\ c = IF from + 1 <= n THEN n - (from + 1) + 1 ELSE 0
      /\ c \in 0..limit
      /\ \A i \in 1..c : i \in 1..(n - (from + 1) + 1) /\ from + i \in 1..Len(rows)
  BY <1>2 DEF Count
<1>4. \A i \in (from + 1)..n : rows[i] \in T
  BY <1>2, <1>3
<1> HIDE DEF n
<1>5. /\ s \in Seq(T)
      /\ Len(s) = IF from + 1 <= n THEN n - (from + 1) + 1 ELSE 0
      /\ \A i \in 1..(n - (from + 1) + 1) : s[i] = rows[from + 1 + i - 1]
  BY <1>3, <1>4, SubSeqProperties
<1> HIDE DEF s, c
<1>6. Len(s) = c /\ DOMAIN s = 1..c
  BY <1>3, <1>5, LenProperties
<1>7. \A i \in 1..c : s[i] = rows[from + i]
  <2> SUFFICES ASSUME NEW i \in 1..c PROVE s[i] = rows[from + i]
    OBVIOUS
  <2>1. i \in 1..(n - (from + 1) + 1) /\ from + 1 + i - 1 = from + i
    BY <1>3
  <2>2. s[i] = rows[from + 1 + i - 1]
    BY <1>5, <2>1
  <2> QED BY <2>1, <2>2
<1> QED BY <1>1, <1>3, <1>5, <1>6, <1>7 DEF c


-----------------------------------------------------------------------------
(* Paths of bundles.                                                       *)

\* Every bundle has a path of its own, and the parent's path is the bundle's without its
\* last slug.
LEMMA PathFacts ==
  /\ \A b \in Bundles : Path[b] \in Seq(Slugs) /\ Path[b] # <<>> /\ Len(Path[b]) \in Nat \ {0}
  /\ \A a, b \in Bundles : Path[a] = Path[b] => a = b
  /\ \A b \in Bundles : Len(Path[b]) > 1 => \E p \in Bundles : Path[p] = Front(Path[b])
<1>1. \A b \in Bundles : Path[b] \in Seq(Slugs) /\ Path[b] # <<>>
  BY TreeAssumption
<1>2. \A b \in Bundles : Len(Path[b]) \in Nat \ {0}
  BY <1>1, EmptySeq
<1>3. \A a, b \in Bundles : Path[a] = Path[b] => a = b
  BY TreeAssumption DEF IsInjective
<1> QED BY <1>1, <1>2, <1>3, TreeAssumption

\* A prefix agrees with the sequence as far as it goes.
LEMMA PrefixFacts ==
  ASSUME NEW T, NEW s \in Seq(T), NEW t \in Seq(T)
  PROVE  /\ IsPrefix(s, t) <=> Len(s) <= Len(t) /\ \A i \in 1..Len(s) : s[i] = t[i]
         /\ IsPrefix(s, t) => t = s \o SubSeq(t, Len(s) + 1, Len(t))
<1>1. /\ Len(s) \in Nat /\ Len(t) \in Nat
      /\ \A i \in 1..Len(s) : s[i] \in T
      /\ \A i \in 1..Len(t) : t[i] \in T
  BY LenProperties, ElementOfSeq
<1>2. SubSeq(s, 1, Len(s)) = s
  BY SubSeqFull
<1>3. ASSUME Len(s) <= Len(t)
      PROVE  (\A i \in 1..Len(s) : s[i] = t[i]) <=> SubSeq(t, 1, Len(s)) = s
  <2>1. /\ SubSeq(t, 1, Len(s)) \in Seq(T)
        /\ Len(SubSeq(t, 1, Len(s))) = IF 1 <= Len(s) THEN Len(s) - 1 + 1 ELSE 0
        /\ \A i \in 1..(Len(s) - 1 + 1) : SubSeq(t, 1, Len(s))[i] = t[1 + i - 1]
    <3>1. \A i \in 1..Len(s) : t[i] \in T
      BY <1>1, <1>3
    <3> QED BY <1>1, <3>1, SubSeqProperties
  <2> DEFINE u == SubSeq(t, 1, Len(s))
  <2>2. u \in Seq(T) /\ Len(u) = Len(s) /\ \A i \in 1..Len(s) : u[i] = t[i]
    BY <1>1, <2>1
  <2> HIDE DEF u
  <2>3. (\A i \in 1..Len(s) : s[i] = t[i]) => u = s
    BY <2>2, SeqEqual
  <2>4. u = s => \A i \in 1..Len(s) : s[i] = t[i]
    BY <2>2
  <2> QED BY <2>3, <2>4 DEF u
<1>4. ASSUME IsPrefix(s, t)
      PROVE  t = s \o SubSeq(t, Len(s) + 1, Len(t))
  <2>1. Len(s) <= Len(t) /\ SubSeq(t, 1, Len(s)) = s
    BY <1>2, <1>4 DEF IsPrefix
  <2>2. SubSeq(t, 1, Len(s)) \o SubSeq(t, Len(s) + 1, Len(t)) = SubSeq(t, 1, Len(t))
    <3>1. 1 \in 1..Len(t)+1 /\ Len(s) \in 1-1..Len(t) /\ Len(t) \in Len(s)..Len(t)
      BY <1>1, <2>1
    <3> QED BY <3>1, ConcatAdjacentSubSeq
  <2>3. SubSeq(t, 1, Len(t)) = t
    BY SubSeqFull
  <2> QED BY <2>1, <2>2, <2>3
<1>5. IsPrefix(s, t) <=> Len(s) <= Len(t) /\ SubSeq(t, 1, Len(s)) = s
  BY <1>2 DEF IsPrefix
<1> QED BY <1>3, <1>4, <1>5

\* The head of a path is the head of what it is a prefix of.
LEMMA PrefixHead ==
  ASSUME NEW path \in Seq(Slugs), path # <<>>, NEW t \in Seq(Slugs), IsPrefix(path, t)
  PROVE  Head(t) = Head(path)
<1>1. Len(path) \in Nat \ {0}
  BY EmptySeq
<1>2. path[1] = t[1]
  BY <1>1, PrefixFacts
<1> QED BY <1>2

\* A path that is found is that of one bundle, the root of the subtree searched.
LEMMA RootFacts ==
  ASSUME NEW path \in Seq(Slugs), path # Null, Resolve(path) # {}
  PROVE  \E root \in Bundles : Path[root] = path
                               /\ Homes(path) = {b \in Bundles : IsPrefix(path, Path[b])}
<1> DEFINE root == CHOOSE b \in Resolve(path) : TRUE
<1>1. root \in Bundles /\ Path[root] = path
  BY DEF Resolve
<1>2. Homes(path) = Subtree(root)
  BY DEF Homes
<1> HIDE DEF root
<1>3. Subtree(root) = {b \in Bundles : IsPrefix(path, Path[b])}
  BY <1>1 DEF Subtree
<1> QED BY <1>1, <1>2, <1>3

\* The global bundle is there.
LEMMA GlobalFacts ==
  <<Global>> \in Seq(Slugs) /\ <<Global>> # Null /\ Resolve(<<Global>>) # {}
<1>1. PICK b \in Bundles : Path[b] = <<Global>>
  BY TreeAssumption
<1> QED BY <1>1, PathFacts, QueryAssumption DEF Resolve

\* In a subtree every bundle but its root has its parent in the subtree.
LEMMA ParentInSubtree ==
  ASSUME NEW root \in Bundles, NEW b \in Bundles, IsPrefix(Path[root], Path[b]), b # root
  PROVE  \E p \in Bundles : Path[p] = Front(Path[b]) /\ IsPrefix(Path[root], Path[p])
<1> DEFINE s == Path[root]
           t == Path[b]
<1>1. s \in Seq(Slugs) /\ t \in Seq(Slugs) /\ Len(s) \in Nat \ {0} /\ Len(t) \in Nat \ {0} /\ s # t
  BY PathFacts
<1>2. Len(s) <= Len(t) /\ \A i \in 1..Len(s) : s[i] = t[i]
  BY <1>1, PrefixFacts
<1>3. Len(s) < Len(t)
  <2>1. Len(s) = Len(t) => s = t
    <3> HIDE DEF s, t
    <3> QED BY <1>1, <1>2, SeqEqual
  <2> HIDE DEF s, t
  <2> QED BY <1>1, <1>2, <2>1
<1>4. PICK p \in Bundles : Path[p] = Front(t)
  <2>1. Len(t) > 1
    <3> HIDE DEF s, t
    <3> QED BY <1>1, <1>3
  <2> QED BY <2>1, PathFacts
<1> DEFINE u == Path[p]
<1>5. u \in Seq(Slugs) /\ Len(u) = Len(t) - 1 /\ \A i \in 1..Len(u) : u[i] = t[i]
  <2>1. \A i \in 1..(Len(t) - 1) : t[i] \in Slugs
    <3>1. \A i \in 1..Len(t) : t[i] \in Slugs
      BY <1>1, ElementOfSeq
    <3> HIDE DEF s, t
    <3> QED BY <1>1, <3>1
  <2>2. u = SubSeq(t, 1, Len(t) - 1) /\ u \in Seq(Slugs)
    BY <1>4, PathFacts DEF Front
  <2>3. Len(u) = Len(t) - 1
    <3>1. Len(SubSeq(t, 1, Len(t) - 1)) = IF 1 <= Len(t) - 1 THEN Len(t) - 1 - 1 + 1 ELSE 0
      <4> HIDE DEF s, t
      <4> QED BY <1>1, <2>1, SubSeqProperties
    <3> DEFINE n == Len(t)
    <3>2. n \in Nat \ {0} /\ Len(u) = IF 1 <= n - 1 THEN n - 1 - 1 + 1 ELSE 0
      BY <1>1, <2>2, <3>1
    <3> HIDE DEF n, t, u
    <3>3. Len(u) = n - 1
      BY <3>2
    <3> QED BY <3>3 DEF n
  <2>4. \A i \in 1..(Len(t) - 1) : u[i] = t[i]
    <3>1. \A i \in 1..(Len(t) - 1 - 1 + 1) : SubSeq(t, 1, Len(t) - 1)[i] = t[1 + i - 1]
      <4> HIDE DEF s, t
      <4> QED BY <1>1, <2>1, SubSeqProperties
    <3> SUFFICES ASSUME NEW i \in 1..(Len(t) - 1) PROVE u[i] = t[i]
      OBVIOUS
    <3>2. i \in 1..(Len(t) - 1 - 1 + 1) /\ 1 + i - 1 = i
      <4> HIDE DEF t
      <4> QED BY <1>1
    <3> QED BY <2>2, <3>1, <3>2
  <2> HIDE DEF s, t, u
  <2> QED BY <2>2, <2>3, <2>4
<1>6. Len(s) <= Len(u) /\ \A i \in 1..Len(s) : s[i] = u[i]
  <2> HIDE DEF s, t, u
  <2> QED BY <1>1, <1>2, <1>3, <1>5
<1>7. IsPrefix(s, u)
  <2> HIDE DEF s, t, u
  <2> QED BY <1>1, <1>5, <1>6, PrefixFacts
<1> QED BY <1>4, <1>7

\* The map of a subtree's paths is right where it is defined, and defined for a whole root.
LEMMA KnownFacts ==
  ASSUME NEW path \in Seq(Slugs), path # Null, Resolve(path) # {}, NEW b \in Homes(path)
  PROVE  /\ b \in Bundles /\ IsPrefix(path, Path[b])
         /\ b \in DOMAIN Known(path) => Known(path)[b] = Path[b]
         /\ Len(path) = 1 => b \in DOMAIN Known(path)
<1>1. PICK root \in Bundles : /\ Path[root] = path
                              /\ Homes(path) = {d \in Bundles : IsPrefix(path, Path[d])}
  BY RootFacts
<1>2. b \in Bundles /\ IsPrefix(path, Path[b])
  BY <1>1
<1> DEFINE sub == Homes(path)
           tops == {d \in sub : /\ Last(Path[d]) = Head(path)
                                /\ \A p \in sub : Path[p] # Front(Path[d])}
           map == [d \in {a \in sub : IsPrefix(path, Path[a])} |->
                     path \o SubSeq(Path[d], Len(path) + 1, Len(Path[d]))]
<1>3. tops \subseteq {root}
  <2> SUFFICES ASSUME NEW d \in sub, d # root, \A p \in sub : Path[p] # Front(Path[d])
               PROVE  FALSE
    OBVIOUS
  <2>1. d \in Bundles /\ IsPrefix(Path[root], Path[d])
    BY <1>1
  <2>2. PICK p \in Bundles : Path[p] = Front(Path[d]) /\ IsPrefix(Path[root], Path[p])
    BY <2>1, ParentInSubtree
  <2>3. p \in sub
    BY <1>1, <2>2
  <2> QED BY <2>2, <2>3
<1>4. Known(path) = PathMap(sub, path)
  BY DEF Known
<1>5. tops = {} => PathMap(sub, path) = <<>>
  BY DEF PathMap
<1>6. tops # {} => PathMap(sub, path) = map
  <2> SUFFICES ASSUME tops # {} PROVE PathMap(sub, path) = map
    OBVIOUS
  <2> DEFINE top == CHOOSE d \in tops : TRUE
  <2>1. top = root
    BY <1>3
  <2>2. PathMap(sub, path) =
          [d \in {a \in sub : IsPrefix(Path[top], Path[a])} |->
             path \o SubSeq(Path[d], Len(Path[top]) + 1, Len(Path[d]))]
    BY DEF PathMap
  <2> HIDE DEF top, tops
  <2> QED BY <1>1, <2>1, <2>2
<1>7. b \in DOMAIN Known(path) => Known(path)[b] = Path[b]
  <2> SUFFICES ASSUME b \in DOMAIN Known(path) PROVE Known(path)[b] = Path[b]
    OBVIOUS
  <2>1. Known(path) = map
    BY <1>4, <1>5, <1>6
  <2>2. map[b] = path \o SubSeq(Path[b], Len(path) + 1, Len(Path[b]))
    BY <1>2
  <2>3. Path[b] = path \o SubSeq(Path[b], Len(path) + 1, Len(Path[b]))
    BY <1>2, PathFacts, PrefixFacts
  <2> QED BY <2>1, <2>2, <2>3
<1>8. Len(path) = 1 => b \in DOMAIN Known(path)
  <2> SUFFICES ASSUME Len(path) = 1 PROVE b \in DOMAIN Known(path)
    OBVIOUS
  <2>1. Last(Path[root]) = Head(path)
    BY <1>1 DEF Last
  <2>2. IsPrefix(path, Path[root]) /\ root \in sub
    <3>1. IsPrefix(path, Path[root])
      BY <1>1, LenProperties DEF IsPrefix
    <3> QED BY <1>1, <3>1
  <2>3. \A p \in sub : Path[p] # Front(Path[root])
    <3> SUFFICES ASSUME NEW p \in sub, Path[p] = Front(Path[root]) PROVE FALSE
      OBVIOUS
    <3>1. p \in Bundles
      BY <1>1
    <3>2. Front(Path[root]) = <<>>
      BY <1>1, SubSeqEmpty DEF Front
    <3> QED BY <3>1, <3>2, PathFacts
  <2>4. Known(path) = map
    <3>1. tops # {}
      BY <2>1, <2>2, <2>3
    <3> QED BY <1>4, <1>6, <3>1
  <2>5. b \in {a \in sub : IsPrefix(path, Path[a])}
    BY <1>2
  <2> HIDE DEF sub, tops
  <2> QED BY <2>4, <2>5
<1> QED BY <1>2, <1>7, <1>8


\* A path that a search runs under: none at all, or that of a bundle.
Searchable(path) == path = Null \/ (path \in Seq(Slugs) /\ Resolve(path) # {})

\* A concept found under a path is shown under the path or under its own bundle, and under
\* its own when the path is a whole root bundle or none.
LEMMA ChainFacts ==
  ASSUME NEW path, Searchable(path), NEW c \in Concepts, Pool[c].home \in Homes(path)
  PROVE  /\ Pool[c].home \in Bundles
         /\ ChainOf(c, path) \in Seq(Slugs) /\ ChainOf(c, path) # <<>>
         /\ path = Null \/ Len(path) = 1 => ChainOf(c, path) = Path[Pool[c].home]
         /\ path # Null => /\ IsPrefix(path, Path[Pool[c].home])
                           /\ Head(Path[Pool[c].home]) = Head(path)
                           /\ IsPrefix(path, ChainOf(c, path))
                           /\ Head(ChainOf(c, path)) = Head(path)
<1> DEFINE b == Pool[c].home
           t == Path[b]
<1>1. CASE path = Null
  <2>1. b \in Bundles
    BY PoolAssumption
  <2>2. DOMAIN Path = Bundles
    BY TreeAssumption
  <2>3. ChainOf(c, path) = t
    BY <1>1, <2>1, <2>2 DEF ChainOf, Known
  <2> QED BY <1>1, <2>1, <2>3, PathFacts
<1>2. CASE path # Null
  <2>1. path \in Seq(Slugs) /\ Resolve(path) # {}
    BY <1>2 DEF Searchable
  <2>2. path # <<>> /\ Len(path) \in Nat \ {0}
    <3>1. PICK root \in Bundles : Path[root] = path
      BY <2>1 DEF Resolve
    <3> QED BY <3>1, PathFacts
  <2>3. /\ b \in Bundles /\ IsPrefix(path, t)
        /\ b \in DOMAIN Known(path) => Known(path)[b] = t
        /\ Len(path) = 1 => b \in DOMAIN Known(path)
    BY <1>2, <2>1, KnownFacts
  <2>4. /\ b \in DOMAIN Known(path) => ChainOf(c, path) = t
        /\ b \notin DOMAIN Known(path) => ChainOf(c, path) = path
    BY <2>3 DEF ChainOf
  <2>5. t \in Seq(Slugs) /\ t # <<>>
    BY <2>3, PathFacts
  <2>6. IsPrefix(path, path)
    BY <2>2 DEF IsPrefix
  <2>7. \A u \in Seq(Slugs) : IsPrefix(path, u) => Head(u) = Head(path)
    BY <2>1, <2>2, PrefixHead
  <2> HIDE DEF b, t
  <2>8. CASE b \in DOMAIN Known(path)
    BY <1>2, <2>3, <2>4, <2>5, <2>7, <2>8 DEF b, t
  <2>9. CASE b \notin DOMAIN Known(path)
    BY <1>2, <2>1, <2>2, <2>3, <2>4, <2>5, <2>6, <2>7, <2>9 DEF b, t
  <2> QED BY <2>8, <2>9
<1> QED BY <1>1, <1>2

-----------------------------------------------------------------------------
(* The results of one page.                                                *)

\* A limit is positive and an offset is not negative, whatever was asked for.
LEMMA LimitFacts ==
  ASSUME NEW q \in Queries
  PROVE  Limit(q) \in Nat \ {0} /\ FirstOffset(q) \in Nat
<1>1. q.limit \in Int \cup {Null} /\ q.offset \in Int \cup {Null}
  BY QueryAssumption
<1>2. FirstOffset(q) \in Nat
  BY <1>1 DEF FirstOffset
<1>3. CASE q.limit = Null
  BY <1>2, <1>3, QueryAssumption DEF Limit
<1>4. CASE q.limit # Null
  <2> DEFINE n == q.limit
  <2>1. n \in Int
    BY <1>1, <1>4
  <2>2. /\ n < 1 => Limit(q) = 1
        /\ ~(n < 1) /\ n > MaxLimit => Limit(q) = MaxLimit
        /\ ~(n < 1) /\ ~(n > MaxLimit) => Limit(q) = n
    <3>1. n < 1 => Limit(q) = 1
      BY <1>4, <2>1, QueryAssumption DEF Limit
    <3>2. ~(n < 1) /\ n > MaxLimit => Limit(q) = MaxLimit
      BY <1>4 DEF Limit
    <3>3. ~(n < 1) /\ ~(n > MaxLimit) => Limit(q) = n
      BY <1>4 DEF Limit
    <3> QED BY <3>1, <3>2, <3>3
  <2> HIDE DEF n
  <2>3. Limit(q) \in Nat \ {0}
    BY <2>1, <2>2, QueryAssumption
  <2> QED BY <1>2, <2>3
<1> QED BY <1>3, <1>4

\* What a search under a path finds, how much of it a page shows that starts at from, and
\* the k-th row as it is shown.
Rows(q, path) == Matching(q, Homes(path))
Size(q, path, from) == Count(Rows(q, path), from, Limit(q))
Shown(q, path, k) == Result(Rows(q, path)[k], ChainOf(Rows(q, path)[k], path))

\* A search under one path shows a slice of its rows.
LEMMA SearchScopeFacts ==
  ASSUME corpus \subseteq Concepts, NEW q \in Queries, NEW path, NEW from \in Nat
  PROVE  /\ Size(q, path, from) \in 0..Limit(q)
         /\ Size(q, path, from) = Count(Rows(q, path), from, Limit(q))
         /\ DOMAIN SearchScope(q, path, from) = 1..Size(q, path, from)
         /\ SearchScope(q, path, from) =
              [i \in 1..Size(q, path, from) |-> Shown(q, path, from + i)]
         /\ \A i \in 1..Size(q, path, from) :
              /\ from + i \in 1..Len(Rows(q, path))
              /\ SearchScope(q, path, from)[i] = Shown(q, path, from + i)
<1> DEFINE rows == Rows(q, path)
           limit == Limit(q)
           cut == Slice(rows, from, limit)
           n == Size(q, path, from)
<1>1. rows \in Seq(Concepts)
  BY MatchingFacts DEF Rows
<1>2. limit \in Nat
  BY LimitFacts
<1>3. n = Count(rows, from, limit)
  BY DEF Size
<1>4. SearchScope(q, path, from) = [i \in DOMAIN cut |-> Result(cut[i], ChainOf(cut[i], path))]
  BY DEF SearchScope, Rows
<1> HIDE DEF limit, rows, n
<1>5. Count(rows, from, limit) \in 0..limit
  BY <1>1, <1>2, SliceFacts
<1>6. DOMAIN cut = 1..Count(rows, from, limit)
  BY <1>1, <1>2, SliceFacts
<1>7. \A i \in 1..Count(rows, from, limit) : from + i \in 1..Len(rows) /\ cut[i] = rows[from + i]
  BY <1>1, <1>2, SliceFacts
<1> HIDE DEF cut
<1>8. SearchScope(q, path, from) = [i \in 1..n |-> Shown(q, path, from + i)]
  BY <1>3, <1>4, <1>6, <1>7 DEF Shown, rows
<1> QED BY <1>3, <1>5, <1>7, <1>8 DEF rows, limit, n

\* The positions of a sequence are in order already.
LEMMA PositionsInOrder ==
  ASSUME NEW n \in Nat
  PROVE  /\ Cardinality(1..n) = n
         /\ \A k \in 1..n : InOrder(1..n, [i \in 1..n |-> i])[k] = k
<1>1. Cardinality(1..n) = n
  <2>1. Cardinality(1..n) = IF 1 > n THEN 0 ELSE n - 1 + 1
    BY FS_Interval
  <2> QED BY <2>1
<1>2. \A x \in 1..n : Cardinality({y \in 1..n : y < x}) = x - 1
  <2> SUFFICES ASSUME NEW x \in 1..n PROVE Cardinality({y \in 1..n : y < x}) = x - 1
    OBVIOUS
  <2>1. {y \in 1..n : y < x} = 1..(x - 1)
    OBVIOUS
  <2>2. Cardinality(1..(x - 1)) = IF 1 > x - 1 THEN 0 ELSE x - 1 - 1 + 1
    BY FS_Interval
  <2>3. (IF 1 > x - 1 THEN 0 ELSE x - 1 - 1 + 1) = x - 1
    OBVIOUS
  <2> QED BY <2>1, <2>2, <2>3
<1> DEFINE rank == [i \in 1..n |-> i]
           Before(x) == Cardinality({y \in 1..n : rank[y] < rank[x]})
<1>3. \A x \in 1..n : Before(x) = x - 1
  <2> SUFFICES ASSUME NEW x \in 1..n PROVE Before(x) = x - 1
    OBVIOUS
  <2>1. {y \in 1..n : rank[y] < rank[x]} = {y \in 1..n : y < x}
    OBVIOUS
  <2> QED BY <1>2, <2>1
<1>4. ASSUME NEW k \in 1..n PROVE InOrder(1..n, rank)[k] = k
  <2>1. InOrder(1..n, rank)[k] = CHOOSE x \in 1..n : Before(x) = k - 1
    BY <1>1 DEF InOrder
  <2> HIDE DEF Before, rank
  <2>2. \A x \in 1..n : Before(x) = k - 1 <=> x = k
    BY <1>3
  <2> QED BY <2>1, <2>2
<1> QED BY <1>1, <1>4


\* What is shown of a row: a live match; its link leads there when a whole root bundle or
\* everything was searched, and lies below the path searched in every case.
LEMMA ShownFacts ==
  ASSUME corpus \subseteq Concepts, NEW q \in Queries, NEW path, Searchable(path),
         NEW k \in 1..Len(Rows(q, path)), NEW c, c = Rows(q, path)[k],
         NEW r, r = Shown(q, path, k)
  PROVE  /\ c \in Matches(q, Homes(path)) /\ c \in corpus /\ r.concept = c
         /\ Pool[c].home \in Bundles
         /\ path = Null \/ Len(path) = 1 => r.id = Address(c) /\ r.scope = StoredScope(c)
         /\ path # Null => /\ IsPrefix(path, Path[Pool[c].home])
                           /\ Head(Path[Pool[c].home]) = Head(path)
                           /\ IsPrefix(path, r.id)
                           /\ Head(r.id) = Head(path)
<1> DEFINE chain == ChainOf(c, path)
           slug == Pool[c].slug
           home == Pool[c].home
<1>1. c \in Matches(q, Homes(path))
  BY MatchingFacts DEF Rows
<1>2. c \in corpus /\ c \in Concepts /\ home \in Homes(path) /\ slug \in Slugs
  BY <1>1, PoolAssumption DEF Matches
<1>3. /\ home \in Bundles /\ chain \in Seq(Slugs) /\ chain # <<>>
      /\ path = Null \/ Len(path) = 1 => chain = Path[home]
      /\ path # Null => /\ IsPrefix(path, Path[home])
                        /\ Head(Path[home]) = Head(path)
                        /\ IsPrefix(path, chain)
                        /\ Head(chain) = Head(path)
  BY <1>2, ChainFacts
<1>4. /\ r.concept = c
      /\ r.id = Append(chain, slug)
      /\ r.scope = ScopeOf(Append(Tail(chain), slug))
  BY DEF Shown, Result
<1>5. Address(c) = Append(Path[home], slug) /\ StoredScope(c) = ScopeOf(Tail(Address(c)))
  BY DEF Address, StoredScope
<1> HIDE DEF chain, slug, home
<1>6. /\ Head(Append(chain, slug)) = Head(chain)
      /\ Tail(Append(chain, slug)) = Append(Tail(chain), slug)
  BY <1>3, HeadTailAppend
<1>7. path = Null \/ Len(path) = 1 => r.id = Address(c) /\ r.scope = StoredScope(c)
  BY <1>3, <1>4, <1>5, <1>6
<1>8. path # Null => IsPrefix(path, Append(chain, slug))
  <2> SUFFICES ASSUME path # Null PROVE IsPrefix(path, Append(chain, slug))
    OBVIOUS
  <2> DEFINE id == Append(chain, slug)
  <2>1. path \in Seq(Slugs)
    BY DEF Searchable
  <2>2. id \in Seq(Slugs) /\ Len(id) = Len(chain) + 1 /\ \A i \in 1..Len(chain) : id[i] = chain[i]
    BY <1>2, <1>3, AppendProperties
  <2> HIDE DEF id
  <2>3. Len(path) <= Len(chain) /\ \A i \in 1..Len(path) : path[i] = chain[i]
    BY <1>3, <2>1, PrefixFacts
  <2>4. Len(path) \in Nat /\ Len(chain) \in Nat
    BY <1>3, <2>1, LenProperties
  <2>5. Len(path) <= Len(id) /\ \A i \in 1..Len(path) : path[i] = id[i]
    BY <2>2, <2>3, <2>4
  <2>6. IsPrefix(path, id)
    BY <2>1, <2>2, <2>5, PrefixFacts
  <2> QED BY <2>6 DEF id
<1> QED BY <1>1, <1>2, <1>3, <1>4, <1>6, <1>7, <1>8 DEF home

\* No global result repeats one of another root: all of the slice is folded in.
LEMMA FoldedFacts ==
  ASSUME corpus \subseteq Concepts, NEW q \in Queries, Searchable(q.path), WithGlobal(q),
         NEW from \in Nat
  PROVE  Folded(q, SearchScope(q, q.path, from), from) =
           [i \in 1..Size(q, <<Global>>, from) |-> Shown(q, <<Global>>, from + i)]
<1> DEFINE globals == SearchScope(q, <<Global>>, from)
           primary == SearchScope(q, q.path, from)
           n == Size(q, <<Global>>, from)
           m == Size(q, q.path, from)
<1>1. q.path # Null /\ Head(q.path) # Global
  BY DEF WithGlobal
<1>2. <<Global>> # Null /\ Searchable(<<Global>>)
  BY GlobalFacts DEF Searchable
<1>3. /\ n \in 0..Limit(q)
      /\ DOMAIN globals = 1..n
      /\ globals = [i \in 1..n |-> Shown(q, <<Global>>, from + i)]
      /\ \A i \in 1..n : /\ from + i \in 1..Len(Rows(q, <<Global>>))
                         /\ globals[i] = Shown(q, <<Global>>, from + i)
  BY SearchScopeFacts
<1>4. /\ DOMAIN primary = 1..m
      /\ \A i \in 1..m : /\ from + i \in 1..Len(Rows(q, q.path))
                         /\ primary[i] = Shown(q, q.path, from + i)
  BY SearchScopeFacts
<1>5. \A i \in 1..n : Head(globals[i].id) = Global
  <2> SUFFICES ASSUME NEW i \in 1..n PROVE Head(globals[i].id) = Global
    OBVIOUS
  <2>1. Head(Shown(q, <<Global>>, from + i).id) = Head(<<Global>>)
    BY <1>2, <1>3, ShownFacts
  <2> HIDE DEF globals, n
  <2> QED BY <1>3, <2>1
<1>6. \A j \in 1..m : Head(primary[j].id) = Head(q.path)
  <2> SUFFICES ASSUME NEW j \in 1..m PROVE Head(primary[j].id) = Head(q.path)
    OBVIOUS
  <2>1. Head(Shown(q, q.path, from + j).id) = Head(q.path)
    BY <1>1, <1>4, ShownFacts
  <2> HIDE DEF primary, m, n
  <2> QED BY <1>4, <2>1
<1>7. Unseen(globals, primary) = 1..n
  <2> HIDE DEF globals, primary, m, n
  <2>1. \A i \in 1..n : \A j \in 1..m : primary[j].id # globals[i].id
    <3> SUFFICES ASSUME NEW i \in 1..n, NEW j \in 1..m, primary[j].id = globals[i].id
                 PROVE  FALSE
      OBVIOUS
    <3>1. Head(globals[i].id) = Global
      BY <1>5
    <3>2. Head(primary[j].id) = Head(q.path)
      BY <1>6
    <3> QED BY <1>1, <3>1, <3>2
  <2> QED BY <1>3, <1>4, <2>1 DEF Unseen
<1>8. Limit(q) \in Nat /\ n \in Nat
  BY <1>3, LimitFacts
<1> DEFINE places == InOrder(1..n, [i \in 1..n |-> i])
<1>9. /\ Cardinality(1..n) = n
      /\ \A k \in 1..n : places[k] = k
  BY <1>8, PositionsInOrder
<1>10. Folded(q, primary, from) = [k \in 1..n |-> globals[places[k]]]
  <2> DEFINE new == Unseen(globals, primary)
  <2>1. Folded(q, primary, from) =
          [k \in 1..Cardinality(new) |-> globals[InOrder(new, [i \in new |-> i])[k]]]
    BY DEF Folded
  <2>2. new = 1..n
    BY <1>7
  <2> HIDE DEF new, globals, primary, n
  <2> QED BY <1>9, <2>1, <2>2
<1>11. [k \in 1..n |-> globals[places[k]]] = [k \in 1..n |-> Shown(q, <<Global>>, from + k)]
  <2> HIDE DEF globals, places, n
  <2> QED BY <1>3, <1>9
<1> QED BY <1>10, <1>11


\* How many global results there are to fold into a page.
Others(q, from) == IF WithGlobal(q) THEN Size(q, <<Global>>, from) ELSE 0

\* A page shows the rows of the target from its offset on, and then, as far as the limit
\* allows, global rows from the same offset on.
PageHolds(page, q, from) ==
  LET m == Size(q, q.path, from)
      o == Others(q, from)
  IN /\ m \in 0..Limit(q) /\ o \in 0..Limit(q)
     /\ page # <<>> => Len(page) # 0
     /\ DOMAIN page = 1..Len(page)
     /\ Len(page) = IF m + o < Limit(q) THEN m + o ELSE Limit(q)
     /\ \A i \in 1..Len(page) :
          /\ i <= m => /\ from + i \in 1..Len(Rows(q, q.path))
                       /\ page[i] = Shown(q, q.path, from + i)
          /\ i > m => /\ WithGlobal(q)
                      /\ from + (i - m) \in 1..Len(Rows(q, <<Global>>))
                      /\ page[i] = Shown(q, <<Global>>, from + (i - m))

LEMMA PageFacts ==
  ASSUME corpus \subseteq Concepts, NEW q \in Queries, Searchable(q.path), NEW from \in Nat
  PROVE  PageHolds(Page(q, from), q, from)
<1> DEFINE limit == Limit(q)
           primary == SearchScope(q, q.path, from)
           folded == Folded(q, primary, from)
           page == Page(q, from)
           m == Size(q, q.path, from)
           o == Others(q, from)
<1>1. limit \in Nat \ {0}
  BY LimitFacts
<1>2. /\ m \in 0..limit
      /\ DOMAIN primary = 1..m
      /\ primary = [i \in 1..m |-> Shown(q, q.path, from + i)]
      /\ \A i \in 1..m : from + i \in 1..Len(Rows(q, q.path))
  BY SearchScopeFacts
<1>3. /\ o \in 0..limit
      /\ folded = [i \in 1..o |-> Shown(q, <<Global>>, from + i)]
      /\ \A i \in 1..o : WithGlobal(q) /\ from + i \in 1..Len(Rows(q, <<Global>>))
  <2>1. CASE WithGlobal(q)
    <3>1. o = Size(q, <<Global>>, from)
      BY <2>1 DEF Others
    <3>2. folded = [i \in 1..o |-> Shown(q, <<Global>>, from + i)]
      BY <2>1, <3>1, FoldedFacts
    <3>3. o \in 0..limit /\ \A i \in 1..o : from + i \in 1..Len(Rows(q, <<Global>>))
      BY <3>1, SearchScopeFacts
    <3> QED BY <2>1, <3>2, <3>3
  <2>2. CASE ~WithGlobal(q)
    <3>1. o = 0 /\ folded = <<>>
      BY <2>2 DEF Others, Folded
    <3> QED BY <1>1, <3>1
  <2> QED BY <2>1, <2>2
<1> DEFINE T == {primary[i] : i \in 1..m} \cup {folded[i] : i \in 1..o}
<1> HIDE DEF limit, folded, primary, m, o
<1>4. /\ primary \in Seq(T) /\ Len(primary) = m
      /\ folded \in Seq(T) /\ Len(folded) = o
  <2>1. primary \in [1..m -> T] /\ folded \in [1..o -> T]
    BY <1>2, <1>3
  <2>2. m \in Nat /\ o \in Nat
    BY <1>1, <1>2, <1>3
  <2> HIDE DEF T
  <2> QED BY <2>1, <2>2, ListFacts
<1> HIDE DEF T
<1> DEFINE both == primary \o folded
<1>5. /\ both \in Seq(T) /\ Len(both) = m + o
      /\ \A i \in 1..(m + o) : both[i] = IF i <= m THEN primary[i] ELSE folded[i - m]
  BY <1>4, ConcatProperties
<1>6. page = Slice(both, 0, limit)
  BY DEF primary, folded, limit, Page
<1> HIDE DEF both, page
<1>7. Len(page) = Count(both, 0, limit) /\ DOMAIN page = 1..Count(both, 0, limit)
  BY <1>1, <1>5, <1>6, SliceFacts
<1>8. \A i \in 1..Count(both, 0, limit) : page[i] = both[0 + i]
  <2> DEFINE none == 0
  <2>1. none \in Nat /\ limit \in Nat /\ both \in Seq(T)
    BY <1>1, <1>5
  <2> HIDE DEF none
  <2>2. \A i \in 1..Count(both, none, limit) :
          /\ none + i \in 1..Len(both)
          /\ Slice(both, none, limit)[i] = both[none + i]
    BY <2>1, SliceFacts
  <2> QED BY <1>6, <2>2 DEF none
<1>9. Count(both, 0, limit) = IF m + o < limit THEN m + o ELSE limit
  BY <1>1, <1>2, <1>3, <1>5 DEF Count
<1>10. ASSUME NEW i \in 1..Len(page)
       PROVE  /\ i <= m => /\ from + i \in 1..Len(Rows(q, q.path))
                           /\ page[i] = Shown(q, q.path, from + i)
              /\ i > m => /\ WithGlobal(q)
                          /\ from + (i - m) \in 1..Len(Rows(q, <<Global>>))
                          /\ page[i] = Shown(q, <<Global>>, from + (i - m))
  <2>1. m \in Nat /\ o \in Nat
    BY <1>1, <1>2, <1>3
  <2>2. i \in 1..(m + o) /\ page[i] = both[i]
    <3>1. i \in 1..Count(both, 0, limit)
      BY <1>7
    <3>2. page[i] = both[0 + i]
      BY <1>8, <3>1
    <3>3. i \in 1..(m + o)
      BY <1>1, <1>9, <2>1, <3>1
    <3>4. 0 + i = i
      BY <3>3, <2>1
    <3> QED BY <3>2, <3>3, <3>4
  <2>3. both[i] = IF i <= m THEN primary[i] ELSE folded[i - m]
    BY <1>5, <2>2
  <2>4. CASE i <= m
    <3>1. i \in 1..m /\ page[i] = primary[i] /\ ~(i > m)
      BY <2>2, <2>3, <2>1, <2>4
    <3> QED BY <1>2, <2>4, <3>1
  <2>5. CASE ~(i <= m)
    <3> DEFINE j == i - m
    <3>1. j \in 1..o
      BY <2>2, <2>1, <2>5
    <3>2. page[i] = folded[j]
      BY <2>2, <2>3, <2>5
    <3> HIDE DEF j
    <3>3. folded[j] = Shown(q, <<Global>>, from + j)
      BY <1>3, <3>1
    <3>4. WithGlobal(q) /\ from + j \in 1..Len(Rows(q, <<Global>>))
      BY <1>3, <3>1
    <3> QED BY <2>5, <3>2, <3>3, <3>4 DEF j
  <2> QED BY <2>4, <2>5
<1>11. page # <<>> => Len(page) # 0
  <2>1. page \in Seq(T)
    BY <1>1, <1>5, <1>6, SliceFacts
  <2> QED BY <2>1, EmptySeq
<1> QED BY <1>2, <1>3, <1>7, <1>9, <1>10, <1>11 DEF PageHolds, limit, page, m, o

\* A page does not change while the vault does not.
LEMMA PageStable ==
  ASSUME UNCHANGED <<corpus, fuzzy>>
  PROVE  \A q, from : Page(q, from)' = Page(q, from)
<1>1. \A q, homes : Matches(q, homes)' = Matches(q, homes)
  BY DEF Matches
<1>2. \A q, homes : Matching(q, homes)' = Matching(q, homes)
  BY <1>1 DEF Matching
<1>3. \A q, path, from : SearchScope(q, path, from)' = SearchScope(q, path, from)
  BY <1>2 DEF SearchScope
<1>4. \A q, primary, from : Folded(q, primary, from)' = Folded(q, primary, from)
  BY <1>3 DEF Folded
<1> QED BY <1>3, <1>4 DEF Page


-----------------------------------------------------------------------------
(* The pages of a caller follow each other.                                *)

\* Where the k-th page starts.
Start(q, k) == FirstOffset(q) + (k - 1) * Limit(q)

\* The pages so far are those of the offsets a limit apart, from the first offset on, none
\* of them is empty, and the caller stopped at one that is.
Paged ==
  /\ query \in Queries /\ Searchable(query.path)
  /\ Len(pages) \in Nat
  /\ \A k \in 1..Len(pages) :
       pages[k] = Page(query, Start(query, k)) /\ pages[k] # <<>>
  /\ status = "page" => Len(pages) >= 1 /\ offset = Start(query, Len(pages))
  /\ status = "end" => Page(query, Start(query, Len(pages) + 1)) = <<>>

SearchInv ==
  /\ corpus \subseteq Concepts /\ fuzzy \subseteq corpus
  /\ query \in Queries \cup {Null}
  /\ offset \in Nat
  /\ status \in {"idle", "page", "end", "notFound", "syntaxError"}
  /\ pages \in Seq({Page(query, n) : n \in Nat})
  /\ status \in {"idle", "notFound", "syntaxError"} => pages = <<>>
  /\ status \in {"page", "end"} => Paged

\* The next page starts a limit further, and pages do not overlap.
LEMMA StartFacts ==
  ASSUME NEW q \in Queries
  PROVE  /\ \A k \in Nat : Start(q, k + 1) = Start(q, k) + Limit(q)
         /\ \A k \in Nat \ {0} : Start(q, k) \in Nat
         /\ Start(q, 1) = FirstOffset(q)
         /\ \A j, k \in Nat \ {0} : j < k => Start(q, j) + Limit(q) <= Start(q, k)
         /\ \A n \in Nat : n > FirstOffset(q) =>
              \E k \in Nat \ {0} : Start(q, k) < n /\ n <= Start(q, k) + Limit(q)
<1> DEFINE F == FirstOffset(q)
           L == Limit(q)
<1>1. F \in Nat /\ L \in Nat \ {0}
  BY LimitFacts
<1>2. \A k : Start(q, k) = F + (k - 1) * L
  BY DEF Start
<1> HIDE DEF F, L
<1>3. \A k \in Nat : Start(q, k + 1) = Start(q, k) + L
  BY <1>1, <1>2
<1>4. \A a, b \in Nat : a * b \in Nat
  OBVIOUS
<1>5. \A k \in Nat \ {0} : Start(q, k) \in Nat
  <2> SUFFICES ASSUME NEW k \in Nat \ {0} PROVE Start(q, k) \in Nat
    OBVIOUS
  <2>1. (k - 1) * L \in Nat
    BY <1>1, <1>4
  <2> QED BY <1>1, <1>2, <2>1
<1>6. Start(q, 1) = F
  BY <1>1, <1>2
<1>7. \A j, k \in Nat \ {0} : j < k => Start(q, j) + L <= Start(q, k)
  <2> SUFFICES ASSUME NEW j \in Nat \ {0}, NEW k \in Nat \ {0}, j < k
               PROVE  Start(q, j) + L <= Start(q, k)
    OBVIOUS
  <2>1. (k - j - 1) * L \in Nat
    <3>1. k - j - 1 \in Nat
      OBVIOUS
    <3> QED BY <1>1, <1>4, <3>1
  <2>2. (k - 1) * L = (j - 1) * L + L + (k - j - 1) * L
    BY <1>1
  <2>3. (j - 1) * L \in Nat
    <3>1. j - 1 \in Nat
      OBVIOUS
    <3> QED BY <1>1, <1>4, <3>1
  <2> QED BY <1>1, <1>2, <2>1, <2>2, <2>3
<1>8. \A n \in Nat : n > F => \E k \in Nat \ {0} : Start(q, k) < n /\ n <= Start(q, k) + L
  <2> SUFFICES ASSUME NEW n \in Nat, n > F
               PROVE  \E k \in Nat \ {0} : Start(q, k) < n /\ n <= Start(q, k) + L
    OBVIOUS
  <2> DEFINE a == n - F - 1
             d == a \div L
  <2>1. a \in Nat
    BY <1>1
  <2>2. d \in Nat /\ d * L <= a /\ a < d * L + L
    <3> HIDE DEF a
    <3> QED BY <1>1, <2>1
  <2>3. d + 1 \in Nat \ {0} /\ Start(q, d + 1) = F + d * L
    <3>1. d + 1 - 1 = d
      <4> HIDE DEF d
      <4> QED BY <2>2
    <3> HIDE DEF d
    <3> QED BY <1>2, <2>2, <3>1
  <2>4. d * L \in Nat
    <3> HIDE DEF d
    <3> QED BY <1>1, <1>4, <2>2
  <2> HIDE DEF d
  <2>5. Start(q, d + 1) < n /\ n <= Start(q, d + 1) + L
    BY <1>1, <2>2, <2>3, <2>4
  <2> QED BY <2>3, <2>5
<1> QED BY <1>1, <1>3, <1>5, <1>6, <1>7, <1>8 DEF F, L


\* The caller starts with no pages.
LEMMA SearchInit == Init => SearchInv
<1> SUFFICES ASSUME Init PROVE SearchInv
  OBVIOUS
<1>1. pages \in Seq({Page(query, n) : n \in Nat})
  BY EmptySeq DEF Init
<1> QED BY <1>1 DEF Init, SearchInv

\* The first request: no page, or the one at the first offset.
LEMMA AskKeeps ==
  ASSUME SearchInv, NEW q \in Queries, Ask(q)
  PROVE  SearchInv'
<1> DEFINE first == FirstOffset(q)
<1>1. /\ status = "idle" /\ pages = <<>> /\ query' = q
      /\ UNCHANGED <<corpus, fuzzy>>
      /\ corpus \subseteq Concepts /\ fuzzy \subseteq corpus /\ offset \in Nat
  BY DEF Ask, SearchInv
<1>2. \A n : Page(q, n)' = Page(q, n)
  BY <1>1, PageStable
<1>3. first \in Nat /\ Start(q, 1) = first
  BY LimitFacts, StartFacts
<1> DEFINE S == {Page(q, n) : n \in Nat}
<1>4. {Page(query, n) : n \in Nat}' = S
  BY <1>1, <1>2
<1>5. Page(q, first) \in S
  BY <1>3
<1>6. CASE status' \in {"notFound", "syntaxError"} /\ UNCHANGED <<offset, pages>>
  <2>1. pages' \in Seq(S)
    BY <1>1, <1>6, EmptySeq
  <2> HIDE DEF S
  <2> QED BY <1>1, <1>4, <1>6, <2>1 DEF SearchInv
<1>7. CASE (q.path = Null \/ Resolve(q.path) # {}) /\ Answer(q, first)
  <2>1. Searchable(q.path)
    BY <1>7, QueryAssumption DEF Searchable
  <2> HIDE DEF S, first
  <2>2. CASE Page(q, first) = <<>>
    <3>1. status' = "end" /\ offset' = first /\ pages' = <<>>
      BY <1>1, <1>7, <2>2 DEF Answer
    <3>2. pages' \in Seq(S) /\ Len(pages') = 0
      BY <3>1, EmptySeq
    <3>3. Page(query, Start(query, Len(pages) + 1))' = <<>>
      <4>1. Page(q, Start(q, Len(pages) + 1))' = <<>>
        BY <1>2, <1>3, <2>2, <3>2 DEF Start
      <4> QED BY <1>1, <4>1
    <3>4. Paged'
      BY <1>1, <2>1, <3>1, <3>2, <3>3 DEF Paged
    <3> QED BY <1>1, <1>3, <1>4, <3>1, <3>2, <3>4 DEF SearchInv
  <2>3. CASE Page(q, first) # <<>>
    <3>1. status' = "page" /\ offset' = first /\ pages' = Append(<<>>, Page(q, first))
      BY <1>1, <1>7, <2>3 DEF Answer
    <3>2. pages' \in Seq(S) /\ Len(pages') = 1 /\ pages'[1] = Page(q, first)
      <4>1. <<>> \in Seq(S) /\ Len(<<>>) = 0
        BY EmptySeq
      <4> QED BY <1>5, <3>1, <4>1, AppendProperties
    <3>3. \A k \in 1..Len(pages') : pages'[k] = Page(query, Start(query, k))' /\ pages'[k] # <<>>
      <4>1. Page(q, Start(q, 1))' = Page(q, first)
        BY <1>2, <1>3 DEF Start
      <4>2. Page(query, Start(query, 1))' = Page(q, first)
        BY <1>1, <4>1
      <4>3. \A k \in 1..1 : k = 1
        OBVIOUS
      <4> QED BY <2>3, <3>2, <4>2, <4>3
    <3>4. Paged'
      BY <1>1, <1>3, <2>1, <3>1, <3>2, <3>3 DEF Paged
    <3> QED BY <1>1, <1>3, <1>4, <3>1, <3>2, <3>4 DEF SearchInv
  <2> QED BY <2>2, <2>3
<1> QED BY <1>1, <1>6, <1>7 DEF Ask

\* The next request: the page a limit further on, or the end.
LEMMA MoreKeeps ==
  ASSUME SearchInv, More
  PROVE  SearchInv'
<1> DEFINE N == Len(pages)
           next == Start(query, N + 1)
           S == {Page(query, n) : n \in Nat}
<1>1. /\ status = "page" /\ query' = query /\ UNCHANGED <<corpus, fuzzy>> /\ Paged
      /\ corpus \subseteq Concepts /\ fuzzy \subseteq corpus
      /\ Answer(query, offset + Limit(query)) /\ pages \in Seq(S)
  BY DEF More, SearchInv
<1>2. /\ query \in Queries /\ Searchable(query.path) /\ N \in Nat /\ N >= 1
      /\ offset = Start(query, N)
      /\ \A k \in 1..N : pages[k] = Page(query, Start(query, k)) /\ pages[k] # <<>>
  BY <1>1 DEF Paged
<1>3. offset + Limit(query) = next /\ next \in Nat
  BY <1>2, StartFacts
<1>4. \A n : Page(query, n)' = Page(query, n)
  <2>1. \A q, n : Page(q, n)' = Page(q, n)
    BY <1>1, PageStable
  <2> QED BY <1>1, <2>1
<1>5. S' = S
  BY <1>4
<1>6. \A k : Start(query, k)' = Start(query, k)
  BY <1>1 DEF Start
<1>7. Page(query, next) \in S
  BY <1>3
<1> HIDE DEF next, S
<1>8. CASE Page(query, next) = <<>>
  <2>1. status' = "end" /\ offset' = next /\ pages' = pages
    BY <1>1, <1>3, <1>8 DEF Answer
  <2>2. Page(query, Start(query, Len(pages) + 1))' = <<>>
    <3>1. Start(query, Len(pages) + 1)' = next
      BY <1>6, <2>1 DEF next
    <3> QED BY <1>4, <1>8, <3>1
  <2>3. \A k \in 1..Len(pages') : pages'[k] = Page(query, Start(query, k))' /\ pages'[k] # <<>>
    BY <1>2, <1>4, <1>6, <2>1
  <2>4. Paged'
    BY <1>1, <1>2, <2>1, <2>2, <2>3 DEF Paged
  <2> QED BY <1>1, <1>2, <1>3, <1>5, <2>1, <2>4 DEF SearchInv, S
<1>9. CASE Page(query, next) # <<>>
  <2>1. status' = "page" /\ offset' = next /\ pages' = Append(pages, Page(query, next))
    BY <1>1, <1>3, <1>9 DEF Answer
  <2>2. /\ pages' \in Seq(S) /\ Len(pages') = N + 1
        /\ \A k \in 1..N : pages'[k] = pages[k]
        /\ pages'[N + 1] = Page(query, next)
    BY <1>1, <1>7, <2>1, AppendProperties
  <2>3. \A k \in 1..Len(pages') : pages'[k] = Page(query, Start(query, k))' /\ pages'[k] # <<>>
    <3> SUFFICES ASSUME NEW k \in 1..(N + 1)
                 PROVE  pages'[k] = Page(query, Start(query, k))' /\ pages'[k] # <<>>
      BY <2>2
    <3>1. Page(query, Start(query, k))' = Page(query, Start(query, k))
      BY <1>4, <1>6
    <3>2. CASE k = N + 1
      BY <1>9, <2>2, <3>1, <3>2 DEF next
    <3>3. CASE k \in 1..N
      BY <1>2, <2>2, <3>1, <3>3
    <3> HIDE DEF N
    <3> QED BY <1>2, <3>2, <3>3
  <2>4. offset' = Start(query, Len(pages))' /\ Len(pages') \in Nat /\ Len(pages') >= 1
    <3>1. Start(query, Len(pages))' = next
      BY <1>6, <2>2 DEF next
    <3> QED BY <1>2, <2>1, <2>2, <3>1
  <2>5. Paged'
    BY <1>1, <1>2, <2>1, <2>3, <2>4 DEF Paged
  <2> QED BY <1>1, <1>2, <1>3, <1>5, <2>1, <2>2, <2>5 DEF SearchInv, S
<1> QED BY <1>8, <1>9

\* The pages a caller has got are the pages of their offsets, in every state.
THEOREM PagesFollow == Spec => []SearchInv
<1>1. Init => SearchInv
  BY SearchInit
<1>2. SearchInv /\ [Next]_vars => SearchInv'
  <2> SUFFICES ASSUME SearchInv, [Next]_vars PROVE SearchInv'
    OBVIOUS
  <2>1. ASSUME NEW q \in Queries, Ask(q) PROVE SearchInv'
    BY <2>1, AskKeeps
  <2>2. CASE More
    BY <2>2, MoreKeeps
  <2>3. CASE UNCHANGED vars
    <3>1. \A q, n : Page(q, n)' = Page(q, n)
      BY <2>3, PageStable DEF vars
    <3>2. {Page(query, n) : n \in Nat}' = {Page(query, n) : n \in Nat}
      BY <2>3, <3>1 DEF vars
    <3>3. Paged <=> Paged'
      BY <2>3, <3>1 DEF vars, Paged
    <3> QED BY <2>3, <3>2, <3>3 DEF vars, SearchInv
  <2> QED BY <2>1, <2>2, <2>3 DEF Next
<1> QED BY <1>1, <1>2, PTL DEF Spec


-----------------------------------------------------------------------------
(* What is on the pages.                                                   *)

\* A page of the caller is not empty, holds what a page of its offset holds, and is cut at
\* the limit.
LEMMA PageOf ==
  ASSUME SearchInv, NEW k \in DOMAIN pages
  PROVE  /\ status \in {"page", "end"} /\ Paged /\ query \in Queries /\ Searchable(query.path)
         /\ corpus \subseteq Concepts /\ k \in 1..Len(pages) /\ k \in Nat \ {0}
         /\ Start(query, k) \in Nat
         /\ pages[k] = Page(query, Start(query, k))
         /\ Len(pages[k]) \in 1..Limit(query) /\ DOMAIN pages[k] = 1..Len(pages[k])
         /\ PageHolds(pages[k], query, Start(query, k))
<1> DEFINE from == Start(query, k)
<1>1. pages \in Seq({Page(query, n) : n \in Nat}) /\ corpus \subseteq Concepts
  BY DEF SearchInv
<1>2. DOMAIN pages = 1..Len(pages) /\ Len(pages) \in Nat
  BY <1>1, LenProperties
<1>3. k \in 1..Len(pages) /\ k \in Nat \ {0} /\ pages # <<>>
  <2>1. pages # <<>>
    OBVIOUS
  <2> QED BY <1>2, <2>1
<1>4. status \in {"page", "end"} /\ Paged
  BY <1>3 DEF SearchInv
<1>5. /\ query \in Queries /\ Searchable(query.path)
      /\ pages[k] = Page(query, from) /\ pages[k] # <<>>
  BY <1>3, <1>4 DEF Paged
<1>6. from \in Nat
  BY <1>3, <1>5, StartFacts
<1>7. PageHolds(Page(query, from), query, from)
  <2> HIDE DEF from
  <2> QED BY <1>1, <1>5, <1>6, PageFacts
<1>8. PageHolds(pages[k], query, from)
  BY <1>5, <1>7
<1>9. Limit(query) \in Nat \ {0}
  BY <1>5, LimitFacts
<1> DEFINE page == pages[k]
           m == Size(query, query.path, from)
           o == Others(query, from)
<1>10. /\ m \in 0..Limit(query) /\ o \in 0..Limit(query) /\ Len(page) # 0
       /\ DOMAIN page = 1..Len(page)
       /\ Len(page) = IF m + o < Limit(query) THEN m + o ELSE Limit(query)
  BY <1>5, <1>8 DEF PageHolds
<1>11. Len(page) \in 1..Limit(query)
  <2> HIDE DEF page, m, o
  <2> QED BY <1>9, <1>10
<1> QED BY <1>1, <1>3, <1>4, <1>5, <1>6, <1>8, <1>10, <1>11

\* A spot is a place on a page, and shows a row of the target or a global one.
LEMMA SpotFacts ==
  ASSUME SearchInv, NEW x \in Spots
  PROVE  \E k \in DOMAIN pages : \E i \in 1..Len(pages[k]) :
           x = <<k, i>> /\ x[1] = k /\ x[2] = i /\ At(x) = pages[k][i]
<1>1. PICK k \in DOMAIN pages : x \in {k} \X (DOMAIN pages[k])
  BY DEF Spots
<1>2. PICK i \in DOMAIN pages[k] : x = <<k, i>>
  BY <1>1
<1>3. i \in 1..Len(pages[k])
  BY PageOf
<1>4. At(x) = pages[k][i] /\ x[1] = k /\ x[2] = i
  BY <1>2 DEF At
<1> QED BY <1>2, <1>3, <1>4

\* The row that a spot shows, and the path it was found under.
LEMMA SpotRow ==
  ASSUME SearchInv, NEW x \in Spots
  PROVE  /\ query \in Queries /\ Searchable(query.path) /\ corpus \subseteq Concepts
         /\ \E path \in {query.path} \cup (IF WithGlobal(query) THEN {<<Global>>} ELSE {}) :
              \E n \in 1..Len(Rows(query, path)) : At(x) = Shown(query, path, n)
<1>1. PICK k \in DOMAIN pages : \E i \in 1..Len(pages[k]) : At(x) = pages[k][i]
  BY SpotFacts
<1>2. PICK i \in 1..Len(pages[k]) : At(x) = pages[k][i]
  BY <1>1
<1> DEFINE from == Start(query, k)
           m == Size(query, query.path, from)
           o == Others(query, from)
<1>3. /\ query \in Queries /\ Searchable(query.path) /\ corpus \subseteq Concepts
      /\ m \in 0..Limit(query)
      /\ i <= m => /\ from + i \in 1..Len(Rows(query, query.path))
                   /\ pages[k][i] = Shown(query, query.path, from + i)
      /\ i > m => /\ WithGlobal(query)
                  /\ from + (i - m) \in 1..Len(Rows(query, <<Global>>))
                  /\ pages[k][i] = Shown(query, <<Global>>, from + (i - m))
      /\ Len(pages[k]) \in 1..Limit(query)
  <2>1. PageHolds(pages[k], query, from)
    BY PageOf
  <2> QED BY <2>1, PageOf DEF PageHolds
<1>4. i <= m \/ i > m
  <2>1. m \in Nat /\ i \in Nat
    BY <1>3, LimitFacts
  <2> HIDE DEF m
  <2> QED BY <2>1
<1> HIDE DEF m, from
<1>5. CASE i <= m
  BY <1>2, <1>3, <1>5
<1>6. CASE i > m
  BY <1>2, <1>3, <1>6
<1> QED BY <1>3, <1>4, <1>5, <1>6

\* TypeOK: no page is empty or longer than the limit, and what is shown is live.
THEOREM SearchTypes == Spec => []TypeOK
<1>1. SearchInv => TypeOK
  <2> SUFFICES ASSUME SearchInv PROVE TypeOK
    OBVIOUS
  <2>1. ASSUME NEW k \in DOMAIN pages
        PROVE  /\ Len(pages[k]) \in 1..Limit(query)
               /\ \A r \in Range(pages[k]) : r.concept \in corpus
    <3>1. Len(pages[k]) \in 1..Limit(query)
      BY PageOf
    <3>2. ASSUME NEW r \in Range(pages[k]) PROVE r.concept \in corpus
      <4>1. PICK i \in DOMAIN pages[k] : r = pages[k][i]
        BY DEF Range
      <4>2. <<k, i>> \in Spots /\ At(<<k, i>>) = r
        BY <4>1 DEF Spots, At
      <4>3. PICK path \in {query.path} \cup (IF WithGlobal(query) THEN {<<Global>>} ELSE {}) :
              \E n \in 1..Len(Rows(query, path)) : r = Shown(query, path, n)
        BY <4>2, SpotRow
      <4>4. query \in Queries /\ Searchable(path) /\ corpus \subseteq Concepts
        BY <4>2, SpotRow, GlobalFacts DEF Searchable
      <4> QED BY <4>3, <4>4, ShownFacts
    <3> QED BY <3>1, <3>2
  <2>2. \A p \in Range(pages) : \E k \in DOMAIN pages : p = pages[k]
    BY DEF Range
  <2> QED BY <2>1, <2>2 DEF SearchInv, TypeOK
<1> QED BY <1>1, PagesFollow, PTL


\* A count below the limit is of the last rows, and nothing is left for the next page.
LEMMA CountFacts ==
  ASSUME NEW rows, Len(rows) \in Nat, NEW from \in Nat, NEW limit \in Nat \ {0}
  PROVE  /\ Count(rows, from, limit) < limit => Count(rows, from + limit, limit) = 0
         /\ Count(rows, from, limit) = 0 => Len(rows) <= from
         /\ \A j \in Nat : from < j /\ j <= from + limit /\ j <= Len(rows)
                             => j - from \in 1..Count(rows, from, limit)
BY DEF Count

\* ShortPageIsLast: rows that were left for a page have filled the one before it.
THEOREM ShortMeansLast == Spec => []ShortPageIsLast
<1>1. SearchInv => ShortPageIsLast
  <2> SUFFICES ASSUME SearchInv, NEW i \in DOMAIN pages, i < Len(pages),
                      Len(pages[i]) # Limit(query)
               PROVE  FALSE
    BY DEF ShortPageIsLast
  <2> DEFINE limit == Limit(query)
             from == Start(query, i)
             m == Size(query, query.path, from)
             o == Others(query, from)
             next == Start(query, i + 1)
  <2>1. /\ query \in Queries /\ corpus \subseteq Concepts /\ i \in Nat \ {0} /\ from \in Nat
        /\ Paged /\ PageHolds(pages[i], query, from)
    BY PageOf
  <2>2. limit \in Nat \ {0}
    BY <2>1, LimitFacts
  <2>3. m \in 0..limit /\ o \in 0..limit /\ m < limit /\ o < limit
    <3>1. /\ m \in 0..limit /\ o \in 0..limit
          /\ Len(pages[i]) = IF m + o < limit THEN m + o ELSE limit
      BY <2>1 DEF PageHolds
    <3>2. Len(pages[i]) # limit
      OBVIOUS
    <3> HIDE DEF m, o, limit
    <3> QED BY <2>2, <3>1, <3>2
  <2>4. next = from + limit
    BY <2>1, StartFacts
  <2>5. \A path : Len(Rows(query, path)) \in Nat
    BY <2>1, MatchingFacts DEF Rows
  <2>6. \A path : Size(query, path, from) < limit => Size(query, path, next) = 0
    <3> SUFFICES ASSUME NEW path, Size(query, path, from) < limit
                 PROVE  Size(query, path, next) = 0
      OBVIOUS
    <3>1. Count(Rows(query, path), from, limit) < limit
      BY DEF Size
    <3> HIDE DEF from, limit
    <3>2. Count(Rows(query, path), from + limit, limit) = 0
      BY <2>1, <2>2, <2>5, <3>1, CountFacts
    <3> QED BY <2>4, <3>2 DEF Size, limit
  <2>7. Size(query, query.path, next) = 0 /\ Others(query, next) = 0
    <3>1. Size(query, query.path, next) = 0
      BY <2>3, <2>6
    <3>2. WithGlobal(query) => Size(query, <<Global>>, next) = 0
      BY <2>3, <2>6 DEF Others
    <3> QED BY <3>1, <3>2 DEF Others
  <2>8. i + 1 \in DOMAIN pages
    <3>1. DOMAIN pages = 1..Len(pages) /\ Len(pages) \in Nat
      BY LenProperties DEF SearchInv
    <3> HIDE DEF from, limit, next, m, o
    <3> QED BY <2>1, <3>1
  <2>9. /\ Len(pages[i + 1]) \in 1..limit
        /\ PageHolds(pages[i + 1], query, next)
    BY <2>8, PageOf
  <2>10. Len(pages[i + 1]) = 0
    <3>1. Len(pages[i + 1]) = IF 0 + 0 < limit THEN 0 + 0 ELSE limit
      BY <2>7, <2>9 DEF PageHolds
    <3> HIDE DEF limit
    <3> QED BY <2>2, <3>1
  <2> HIDE DEF limit
  <2> QED BY <2>2, <2>9, <2>10
<1> QED BY <1>1, PagesFollow, PTL

\* No two concepts have the same address.
LEMMA AddressFacts ==
  ASSUME NEW c \in Concepts, NEW d \in Concepts, Address(c) = Address(d)
  PROVE  c = d
<1>1. /\ Pool[c].home \in Bundles /\ Pool[c].slug \in Slugs
      /\ Pool[d].home \in Bundles /\ Pool[d].slug \in Slugs
  BY PoolAssumption
<1>2. Path[Pool[c].home] \in Seq(Slugs) /\ Path[Pool[d].home] \in Seq(Slugs)
  BY <1>1, PathFacts
<1>3. Path[Pool[c].home] = Path[Pool[d].home] /\ Pool[c].slug = Pool[d].slug
  <2> DEFINE s == Path[Pool[c].home]
             t == Path[Pool[d].home]
             e == Pool[c].slug
             f == Pool[d].slug
  <2>1. s \in Seq(Slugs) /\ t \in Seq(Slugs) /\ e \in Slugs /\ f \in Slugs
    BY <1>1, <1>2
  <2>2. Append(s, e) = Append(t, f)
    BY DEF Address
  <2> HIDE DEF s, t, e, f
  <2>3. s = t /\ e = f
    BY <2>1, <2>2, AppendInjective
  <2> QED BY <2>3 DEF s, t, e, f
<1>4. Pool[c].home = Pool[d].home
  BY <1>1, <1>3, PathFacts
<1> QED BY <1>3, <1>4, PoolAssumption

\* RootLinksResolve: under a whole root, or none, every chain is the bundle's own path.
THEOREM RootLinks == Spec => []RootLinksResolve
<1>1. SearchInv => RootLinksResolve
  <2> SUFFICES ASSUME SearchInv, query.path = Null \/ Len(query.path) = 1, NEW x \in Spots
               PROVE  /\ Hydrate(At(x).id) = {At(x).concept}
                      /\ At(x).scope = StoredScope(At(x).concept)
    BY DEF RootLinksResolve
  <2>1. query \in Queries /\ Searchable(query.path) /\ corpus \subseteq Concepts
    BY SpotRow
  <2>2. PICK path \in {query.path} \cup (IF WithGlobal(query) THEN {<<Global>>} ELSE {}) :
          \E n \in 1..Len(Rows(query, path)) : At(x) = Shown(query, path, n)
    BY SpotRow
  <2>3. PICK n \in 1..Len(Rows(query, path)) : At(x) = Shown(query, path, n)
    BY <2>2
  <2>4. Searchable(path) /\ (path = Null \/ Len(path) = 1)
    <3>1. Len(<<Global>>) = 1
      OBVIOUS
    <3> QED BY <2>1, <2>2, <3>1, GlobalFacts DEF Searchable
  <2> DEFINE c == Rows(query, path)[n]
  <2>5. /\ c \in corpus /\ At(x).concept = c
        /\ At(x).id = Address(c) /\ At(x).scope = StoredScope(c)
    BY <2>1, <2>3, <2>4, ShownFacts
  <2> HIDE DEF c
  <2>6. Hydrate(Address(c)) = {c}
    BY <2>1, <2>5, AddressFacts DEF Hydrate
  <2> QED BY <2>5, <2>6
<1> QED BY <1>1, PagesFollow, PTL

\* ResultsRelevant: each row matched the caller's context, and was found below the path
\* asked for or in the global bundle.
THEOREM OnlyRelevant == Spec => []ResultsRelevant
<1>1. SearchInv => ResultsRelevant
  <2> SUFFICES ASSUME SearchInv, NEW x \in Spots
               PROVE  /\ query.scopes # {} \/ query.project # Null
                           => MatchesContext(StoredScope(At(x).concept), query)
                      /\ \/ query.path = Null
                         \/ IsPrefix(query.path, At(x).id)
                         \/ query.includeGlobal /\ Head(At(x).id) = Global
    BY DEF ResultsRelevant
  <2>1. query \in Queries /\ Searchable(query.path) /\ corpus \subseteq Concepts
    BY SpotRow
  <2>2. PICK path \in {query.path} \cup (IF WithGlobal(query) THEN {<<Global>>} ELSE {}) :
          \E n \in 1..Len(Rows(query, path)) : At(x) = Shown(query, path, n)
    BY SpotRow
  <2>3. PICK n \in 1..Len(Rows(query, path)) : At(x) = Shown(query, path, n)
    BY <2>2
  <2>4. Searchable(path) /\ (path # query.path => WithGlobal(query) /\ path = <<Global>>)
    BY <2>1, <2>2, GlobalFacts DEF Searchable
  <2> DEFINE c == Rows(query, path)[n]
             scope == StoredScope(c)
  <2>5. /\ c \in Matches(query, Homes(path)) /\ At(x).concept = c
        /\ path # Null => IsPrefix(path, At(x).id) /\ Head(At(x).id) = Head(path)
    BY <2>1, <2>3, <2>4, ShownFacts
  <2> HIDE DEF c
  <2>6. ScopeMatch(query, scope)
    BY <2>5 DEF Matches
  <2>7. ASSUME query.scopes # {} \/ query.project # Null
        PROVE  MatchesContext(scope, query)
    <3> HIDE DEF scope
    <3>1. \/ scope.kind = "global"
          \/ scope.kind = "named" /\ scope.key \in query.scopes
          \/ scope.kind = "project" /\ scope.key = query.project
      BY <2>6, <2>7 DEF ScopeMatch
    <3>2. CASE scope.kind = "global"
      BY <3>2 DEF MatchesContext
    <3>3. CASE scope.kind = "named" /\ scope.key \in query.scopes
      BY <3>3 DEF MatchesContext
    <3>4. CASE scope.kind = "project" /\ scope.key = query.project
      BY <3>4 DEF MatchesContext
    <3> QED BY <3>1, <3>2, <3>3, <3>4
  <2>8. \/ query.path = Null
        \/ IsPrefix(query.path, At(x).id)
        \/ query.includeGlobal /\ Head(At(x).id) = Global
    <3>1. CASE path = query.path
      BY <2>5, <3>1
    <3>2. CASE path # query.path
      <4>1. WithGlobal(query) /\ path = <<Global>> /\ path # Null
        BY <2>4, <3>2, GlobalFacts
      <4>2. Head(path) = Global
        BY <4>1
      <4> QED BY <2>5, <4>1, <4>2 DEF WithGlobal
    <3> QED BY <3>1, <3>2
  <2> QED BY <2>5, <2>7, <2>8
<1> QED BY <1>1, PagesFollow, PTL


\* Spots that show what a search under one path finds, a page after the other until there
\* is nothing left, deliver it: all of it from the first offset on, once and in order.
LEMMA RunDelivers ==
  ASSUME SearchInv, query \in Queries, NEW path, NEW X,
         \A x \in X : \E k \in DOMAIN pages : \E i \in 1..Size(query, path, Start(query, k)) :
           x = <<k, i>>,
         \A k \in DOMAIN pages : \A i \in 1..Size(query, path, Start(query, k)) :
           <<k, i>> \in X /\ pages[k][i] = Shown(query, path, Start(query, k) + i),
         Size(query, path, Start(query, Len(pages) + 1)) = 0
  PROVE  Delivered(X, SubSeq(Rows(query, path), FirstOffset(query) + 1, Len(Rows(query, path))))
<1> DEFINE rows == Rows(query, path)
           N == Len(rows)
           F == FirstOffset(query)
           limit == Limit(query)
           S(k) == Start(query, k)
           C(k) == Size(query, path, S(k))
           rest == SubSeq(rows, F + 1, N)
<1>1. /\ corpus \subseteq Concepts
      /\ DOMAIN pages = 1..Len(pages) /\ Len(pages) \in Nat
  BY LenProperties DEF SearchInv
<1>2. /\ rows \in Seq(Concepts) /\ N \in Nat
      /\ \A m, n \in 1..N : m < n => Rank[rows[m]] < Rank[rows[n]]
  BY <1>1, MatchingFacts DEF Rows
<1>3. F \in Nat /\ limit \in Nat \ {0}
  BY LimitFacts
<1>4. /\ \A k \in Nat \ {0} : S(k) \in Nat
      /\ S(1) = F
      /\ \A j, k \in Nat \ {0} : j < k => S(j) + limit <= S(k)
      /\ \A n \in Nat : n > F => \E k \in Nat \ {0} : S(k) < n /\ n <= S(k) + limit
  BY StartFacts
<1>5. \A k \in Nat \ {0} : S(k) >= F
  <2> SUFFICES ASSUME NEW k \in Nat \ {0} PROVE S(k) >= F
    OBVIOUS
  <2>1. S(k) \in Nat /\ S(1) = F /\ (1 < k => S(1) + limit <= S(k))
    BY <1>4
  <2>2. k = 1 => S(k) = F
    BY <1>4
  <2> DEFINE here == S(k)
  <2>3. here \in Nat /\ (1 < k => F + limit <= here) /\ (k = 1 => here = F)
    BY <2>1, <2>2
  <2> HIDE DEF here, F, limit
  <2>4. here >= F
    BY <1>3, <2>3
  <2> QED BY <2>4 DEF here
<1>6. ASSUME NEW k \in Nat \ {0}
      PROVE  /\ C(k) \in 0..limit
             /\ \A i \in 1..C(k) : S(k) + i \in 1..N
             /\ C(k) = Count(rows, S(k), limit)
  <2>1. S(k) \in Nat
    BY <1>4
  <2> QED BY <1>1, <2>1, SearchScopeFacts
<1>7. \A k, i : pages[k][i] = Shown(query, path, S(k) + i) =>
        At(<<k, i>>).concept = rows[S(k) + i]
  BY DEF At, Shown, Result
<1>8. \A k \in DOMAIN pages : \A i \in 1..C(k) :
        <<k, i>> \in X /\ At(<<k, i>>).concept = rows[S(k) + i]
  BY <1>7
<1>9. \A x \in X : \E k \in DOMAIN pages : \E i \in 1..C(k) : x = <<k, i>>
  OBVIOUS
<1>10. Count(rows, S(Len(pages) + 1), limit) = 0
  <2>1. C(Len(pages) + 1) = 0
    OBVIOUS
  <2>2. Len(pages) + 1 \in Nat \ {0}
    BY <1>1
  <2> HIDE DEF C, S, rows, limit
  <2> QED BY <1>6, <2>1, <2>2
<1>11. Range(rest) = {rows[j] : j \in (F + 1)..N}
  <2>1. \A j \in (F + 1)..N : rows[j] \in Concepts
    <3>1. \A j \in 1..N : rows[j] \in Concepts
      BY <1>2, ElementOfSeq
    <3> HIDE DEF rows, F, N
    <3> QED BY <1>3, <3>1
  <2> HIDE DEF rows, F, N
  <2>2. /\ rest \in Seq(Concepts)
        /\ Len(rest) = IF F + 1 <= N THEN N - (F + 1) + 1 ELSE 0
        /\ \A i \in 1..(N - (F + 1) + 1) : rest[i] = rows[F + 1 + i - 1]
    BY <1>2, <1>3, <2>1, SubSeqProperties
  <2> HIDE DEF rest
  <2>3. DOMAIN rest = 1..Len(rest)
    BY <2>2, LenProperties
  <2>4. ASSUME NEW v \in Range(rest) PROVE \E j \in (F + 1)..N : v = rows[j]
    <3>1. PICK i \in 1..Len(rest) : v = rest[i]
      BY <2>3 DEF Range
    <3>2. i \in 1..(N - (F + 1) + 1) /\ F + 1 + i - 1 \in (F + 1)..N
      BY <1>2, <1>3, <2>2, <3>1
    <3> QED BY <2>2, <3>1, <3>2
  <2>5. ASSUME NEW j \in (F + 1)..N PROVE rows[j] \in Range(rest)
    <3> DEFINE i == j - F
    <3>1. i \in 1..Len(rest) /\ i \in 1..(N - (F + 1) + 1) /\ F + 1 + i - 1 = j
      BY <1>2, <1>3, <2>2
    <3> HIDE DEF i
    <3>2. rest[i] = rows[j]
      BY <2>2, <3>1
    <3> QED BY <2>3, <3>1, <3>2 DEF Range
  <2> QED BY <2>4, <2>5
<1> HIDE DEF S, C, F, N, limit, rows, rest
<1>12. \A x \in X : At(x).concept \in Range(rest)
  <2> SUFFICES ASSUME NEW k \in DOMAIN pages, NEW i \in 1..C(k)
               PROVE  At(<<k, i>>).concept \in Range(rest)
    BY <1>9
  <2>1. k \in Nat \ {0}
    BY <1>1
  <2>2. S(k) + i \in 1..N /\ S(k) \in Nat /\ S(k) >= F /\ C(k) \in 0..limit
    BY <1>4, <1>5, <1>6, <2>1
  <2>3. S(k) + i \in (F + 1)..N
    BY <1>2, <1>3, <2>2
  <2> QED BY <1>8, <1>11, <2>3
<1>13. \A v \in Range(rest) : \E x \in X : At(x).concept = v
  <2> SUFFICES ASSUME NEW j \in (F + 1)..N PROVE \E x \in X : At(x).concept = rows[j]
    BY <1>11
  <2>1. PICK k \in Nat \ {0} : S(k) < j /\ j <= S(k) + limit
    <3>1. j \in Nat /\ j > F
      BY <1>2, <1>3
    <3> QED BY <1>4, <3>1
  <2>2. S(k) \in Nat /\ j - S(k) \in 1..C(k)
    <3>1. S(k) \in Nat /\ C(k) = Count(rows, S(k), limit) /\ j \in Nat /\ j <= N
      BY <1>2, <1>3, <1>4, <1>6
    <3>2. j - S(k) \in 1..Count(rows, S(k), limit)
      BY <1>2, <1>3, <2>1, <3>1, CountFacts DEF N
    <3> QED BY <3>1, <3>2
  <2>3. k \in DOMAIN pages
    <3>1. Len(pages) + 1 \in Nat \ {0} /\ S(Len(pages) + 1) \in Nat
      BY <1>1, <1>4
    <3>2. N <= S(Len(pages) + 1)
      BY <1>2, <1>3, <1>10, <3>1, CountFacts DEF N
    <3>3. ~(Len(pages) + 1 <= k)
      <4>1. Len(pages) + 1 < k => S(Len(pages) + 1) + limit <= S(k)
        BY <1>4, <3>1
      <4>2. Len(pages) + 1 = k => S(Len(pages) + 1) = S(k)
        OBVIOUS
      <4> DEFINE n == Len(pages) + 1
      <4> HIDE DEF n
      <4>3. ~(n <= k)
        BY <1>2, <1>3, <2>1, <2>2, <3>1, <3>2, <4>1, <4>2 DEF n
      <4> QED BY <4>3 DEF n
    <3> QED BY <1>1, <3>3
  <2> DEFINE i == j - S(k)
  <2>4. S(k) + i = j
    BY <1>2, <1>3, <2>2
  <2> HIDE DEF i
  <2>5. <<k, i>> \in X /\ At(<<k, i>>).concept = rows[j]
    BY <1>8, <2>2, <2>3, <2>4 DEF i
  <2> QED BY <2>5
<1>14. \A x, y \in X : Earlier(x, y) => Rank[At(x).concept] < Rank[At(y).concept]
  <2> SUFFICES ASSUME NEW k \in DOMAIN pages, NEW i \in 1..C(k),
                      NEW l \in DOMAIN pages, NEW j \in 1..C(l),
                      Earlier(<<k, i>>, <<l, j>>)
               PROVE  Rank[At(<<k, i>>).concept] < Rank[At(<<l, j>>).concept]
    BY <1>9
  <2>1. k \in Nat \ {0} /\ l \in Nat \ {0}
    BY <1>1
  <2>2. /\ S(k) \in Nat /\ S(l) \in Nat /\ C(k) \in 0..limit /\ C(l) \in 0..limit
        /\ S(k) + i \in 1..N /\ S(l) + j \in 1..N
    BY <1>4, <1>6, <2>1
  <2>3. k < l \/ (k = l /\ i < j)
    BY DEF Earlier
  <2>4. S(k) + i < S(l) + j
    <3>1. CASE k < l
      <4>1. S(k) + limit <= S(l)
        BY <1>4, <2>1, <3>1
      <4> QED BY <1>3, <2>2, <4>1
    <3>2. CASE k = l /\ i < j
      BY <1>3, <2>2, <3>2
    <3> QED BY <2>3, <3>1, <3>2
  <2> QED BY <1>2, <1>8, <2>2, <2>4
<1>15. {At(x).concept : x \in X} = Range(rest)
  BY <1>12, <1>13
<1>16. Delivered(X, rest)
  BY <1>14, <1>15 DEF Delivered
<1> QED BY <1>16 DEF rest, rows, F, N


\* The local spots are those that show rows of the target, and no others.
LEMMA LocalFacts ==
  ASSUME SearchInv, NEW k \in DOMAIN pages, NEW i \in 1..Len(pages[k])
  PROVE  Local(At(<<k, i>>)) <=> i <= Size(query, query.path, Start(query, k))
<1> DEFINE from == Start(query, k)
           m == Size(query, query.path, from)
           r == pages[k][i]
<1>1. /\ query \in Queries /\ Searchable(query.path) /\ corpus \subseteq Concepts
      /\ PageHolds(pages[k], query, from)
  BY PageOf
<1>2. /\ m \in 0..Limit(query)
      /\ i <= m => from + i \in 1..Len(Rows(query, query.path))
                   /\ r = Shown(query, query.path, from + i)
      /\ i > m => /\ WithGlobal(query)
                  /\ from + (i - m) \in 1..Len(Rows(query, <<Global>>))
                  /\ r = Shown(query, <<Global>>, from + (i - m))
  BY <1>1 DEF PageHolds
<1>3. At(<<k, i>>) = r
  BY DEF At
<1>4. i <= m => Local(r)
  <2> SUFFICES ASSUME i <= m PROVE Local(r)
    OBVIOUS
  <2> HIDE DEF m, from
  <2>1. Rows(query, query.path)[from + i] = r.concept
    BY <1>2 DEF Shown, Result
  <2>2. query.path # Null => IsPrefix(query.path, Path[Pool[r.concept].home])
    BY <1>1, <1>2, <2>1, ShownFacts
  <2> QED BY <2>2 DEF Local
<1>5. i > m => ~Local(r)
  <2> SUFFICES ASSUME i > m, Local(r) PROVE FALSE
    OBVIOUS
  <2> DEFINE n == from + (i - m)
             home == Pool[r.concept].home
  <2>1. /\ WithGlobal(query) /\ n \in 1..Len(Rows(query, <<Global>>))
        /\ r = Shown(query, <<Global>>, n)
    BY <1>2
  <2>2. Rows(query, <<Global>>)[n] = r.concept
    BY <2>1 DEF Shown, Result
  <2>3. query.path # Null /\ Head(query.path) # Global
    BY <2>1 DEF WithGlobal
  <2> HIDE DEF n
  <2>4. home \in Bundles /\ Head(Path[home]) = Head(<<Global>>)
    <3>1. <<Global>> # Null /\ Searchable(<<Global>>)
      BY GlobalFacts DEF Searchable
    <3> QED BY <1>1, <2>1, <2>2, <3>1, ShownFacts
  <2>5. IsPrefix(query.path, Path[home])
    BY <2>3 DEF Local
  <2>6. query.path \in Seq(Slugs) /\ query.path # <<>>
    <3>1. query.path \in Seq(Slugs) /\ Resolve(query.path) # {}
      BY <1>1, <2>3 DEF Searchable
    <3>2. PICK b \in Bundles : Path[b] = query.path
      BY <3>1 DEF Resolve
    <3> QED BY <3>1, <3>2, PathFacts
  <2>7. Path[home] \in Seq(Slugs)
    BY <2>4, PathFacts
  <2> HIDE DEF home
  <2>8. Head(Path[home]) = Head(query.path)
    BY <2>5, <2>6, <2>7, PrefixHead
  <2>9. Head(<<Global>>) = Global
    OBVIOUS
  <2> QED BY <2>3, <2>4, <2>8, <2>9
<1>6. i <= m \/ i > m
  <2>1. m \in Nat /\ i \in Nat
    BY <1>1, <1>2, LimitFacts
  <2> HIDE DEF m
  <2> QED BY <2>1
<1>7. ~(i <= m /\ i > m)
  <2>1. m \in Nat /\ i \in Nat
    BY <1>1, <1>2, LimitFacts
  <2> HIDE DEF m
  <2> QED BY <2>1
<1> HIDE DEF r
<1> QED BY <1>3, <1>4, <1>5, <1>6

\* PagingComplete: the local spots deliver the target's rows; when it has none, all spots
\* deliver the global ones.
THEOREM PagesComplete == Spec => []PagingComplete
<1> DEFINE From(rows) == SubSeq(rows, FirstOffset(query) + 1, Len(rows))
           mine == {x \in Spots : Local(At(x))}
           last == Start(query, Len(pages) + 1)
           Offs(k) == Start(query, k)
<1>1. ASSUME SearchInv, status = "end"
      PROVE  /\ Delivered(mine, From(Rows(query, query.path)))
             /\ WithGlobal(query) /\ mine = {} => Delivered(Spots, From(Rows(query, <<Global>>)))
  <2>1. /\ query \in Queries /\ Searchable(query.path) /\ corpus \subseteq Concepts
        /\ Len(pages) \in Nat /\ Page(query, last) = <<>>
    BY <1>1 DEF SearchInv, Paged
  <2>2. Limit(query) \in Nat \ {0} /\ last \in Nat
    <3>1. Len(pages) + 1 \in Nat \ {0}
      BY <2>1
    <3> QED BY <2>1, <3>1, LimitFacts, StartFacts
  <2>3. Size(query, query.path, last) = 0 /\ Others(query, last) = 0
    <3> DEFINE m == Size(query, query.path, last)
               o == Others(query, last)
    <3>1. PageHolds(<<>>, query, last)
      BY <2>1, <2>2, PageFacts
    <3>2. /\ m \in 0..Limit(query) /\ o \in 0..Limit(query)
          /\ 0 = IF m + o < Limit(query) THEN m + o ELSE Limit(query)
      BY <3>1 DEF PageHolds
    <3> HIDE DEF m, o
    <3>3. m = 0 /\ o = 0
      BY <2>2, <3>2
    <3> QED BY <3>3 DEF m, o
  <2>4. ASSUME NEW k \in DOMAIN pages
        PROVE  LET m == Size(query, query.path, Offs(k))
                   o == Others(query, Offs(k))
               IN /\ m \in 0..Limit(query) /\ o \in 0..Limit(query)
                  /\ DOMAIN pages[k] = 1..Len(pages[k])
                  /\ Len(pages[k]) = IF m + o < Limit(query) THEN m + o ELSE Limit(query)
                  /\ Len(pages[k]) \in Nat
                  /\ \A i \in 1..Len(pages[k]) :
                       /\ i <= m => pages[k][i] = Shown(query, query.path, Offs(k) + i)
                       /\ i > m => /\ WithGlobal(query)
                                   /\ pages[k][i] = Shown(query, <<Global>>, Offs(k) + (i - m))
    <3>1. PageHolds(pages[k], query, Offs(k)) /\ Len(pages[k]) \in 1..Limit(query)
      BY <1>1, PageOf
    <3>2. Len(pages[k]) \in Nat
      <4> DEFINE limit == Limit(query)
      <4> HIDE DEF limit
      <4> QED BY <2>2, <3>1 DEF limit
    <3> QED BY <3>1, <3>2 DEF PageHolds
  <2>5. \A k \in DOMAIN pages : \A i \in 1..Size(query, query.path, Offs(k)) :
          <<k, i>> \in mine /\ pages[k][i] = Shown(query, query.path, Offs(k) + i)
    <3> SUFFICES ASSUME NEW k \in DOMAIN pages,
                        NEW i \in 1..Size(query, query.path, Offs(k))
                 PROVE  <<k, i>> \in mine /\ pages[k][i] = Shown(query, query.path, Offs(k) + i)
      OBVIOUS
    <3> DEFINE m == Size(query, query.path, Offs(k))
               o == Others(query, Offs(k))
               n == Len(pages[k])
    <3>1. /\ m \in 0..Limit(query) /\ o \in 0..Limit(query)
          /\ n = IF m + o < Limit(query) THEN m + o ELSE Limit(query)
      BY <2>4
    <3>2. i \in 1..m
      OBVIOUS
    <3>3. i \in 1..n /\ i <= m
      <4> DEFINE limit == Limit(query)
      <4>1. limit \in Nat /\ m \in 0..limit /\ o \in 0..limit
            /\ n = IF m + o < limit THEN m + o ELSE limit
        BY <2>2, <3>1
      <4> HIDE DEF m, o, n, limit
      <4> QED BY <3>2, <4>1
    <3>4. pages[k][i] = Shown(query, query.path, Offs(k) + i)
      BY <2>4, <3>3
    <3>5. <<k, i>> \in Spots
      BY <2>4, <3>3 DEF Spots
    <3>6. Local(At(<<k, i>>))
      BY <1>1, <3>3, LocalFacts
    <3> QED BY <3>4, <3>5, <3>6
  <2>6. \A x \in mine : \E k \in DOMAIN pages : \E i \in 1..Size(query, query.path, Offs(k)) :
          x = <<k, i>>
    <3> SUFFICES ASSUME NEW x \in mine
                 PROVE  \E k \in DOMAIN pages :
                          \E i \in 1..Size(query, query.path, Offs(k)) : x = <<k, i>>
      OBVIOUS
    <3>1. PICK k \in DOMAIN pages : \E i \in 1..Len(pages[k]) : x = <<k, i>>
      BY <1>1, SpotFacts
    <3>2. PICK i \in 1..Len(pages[k]) : x = <<k, i>>
      BY <3>1
    <3>3. i <= Size(query, query.path, Offs(k))
      BY <1>1, <3>2, LocalFacts
    <3> DEFINE m == Size(query, query.path, Offs(k))
    <3>4. i \in 1..m
      <4>1. m \in Nat
        <5>1. m \in 0..Limit(query)
          BY <2>4
        <5> HIDE DEF m
        <5> QED BY <2>2, <5>1
      <4>2. i \in Nat /\ 1 <= i /\ i <= m
        <5> DEFINE n == Len(pages[k])
        <5>1. n \in Nat
          BY <2>4
        <5> HIDE DEF n
        <5> QED BY <3>3, <5>1 DEF n
      <4> HIDE DEF m
      <4> QED BY <4>1, <4>2
    <3> QED BY <3>2, <3>4
  <2>7. Delivered(mine, From(Rows(query, query.path)))
    <3> HIDE DEF mine
    <3> QED BY <1>1, <2>1, <2>3, <2>5, <2>6, RunDelivers
  <2>8. ASSUME WithGlobal(query), mine = {}
        PROVE  Delivered(Spots, From(Rows(query, <<Global>>)))
    <3>1. ASSUME NEW k \in DOMAIN pages
          PROVE  /\ Size(query, query.path, Offs(k)) = 0
                 /\ Size(query, <<Global>>, Offs(k)) = Len(pages[k])
      <4> DEFINE m == Size(query, query.path, Offs(k))
                 o == Size(query, <<Global>>, Offs(k))
                 n == Len(pages[k])
                 limit == Limit(query)
      <4>1. limit \in Nat /\ m \in 0..limit /\ o \in 0..limit
            /\ n = IF m + o < limit THEN m + o ELSE limit
        BY <2>2, <2>4, <2>8 DEF Others
      <4>2. 1 \notin 1..m
        BY <2>5, <2>8
      <4> HIDE DEF m, o, n, limit
      <4>3. m = 0 /\ o = n
        BY <4>1, <4>2
      <4> QED BY <4>3 DEF m, o, n
    <3>2. \A k \in DOMAIN pages : \A i \in 1..Size(query, <<Global>>, Offs(k)) :
            <<k, i>> \in Spots /\ pages[k][i] = Shown(query, <<Global>>, Offs(k) + i)
      <4> SUFFICES ASSUME NEW k \in DOMAIN pages, NEW i \in 1..Len(pages[k])
                   PROVE  /\ <<k, i>> \in Spots
                          /\ pages[k][i] = Shown(query, <<Global>>, Offs(k) + i)
        BY <3>1
      <4>1. <<k, i>> \in Spots
        BY <2>4 DEF Spots
      <4>2. i > 0 /\ i - 0 = i
        <5> DEFINE n == Len(pages[k])
        <5>1. n \in Nat
          BY <2>4
        <5> HIDE DEF n
        <5> QED BY <5>1 DEF n
      <4>3. pages[k][i] = Shown(query, <<Global>>, Offs(k) + (i - 0))
        BY <2>4, <3>1, <4>2
      <4> QED BY <4>1, <4>2, <4>3
    <3>3. \A x \in Spots : \E k \in DOMAIN pages :
            \E i \in 1..Size(query, <<Global>>, Offs(k)) : x = <<k, i>>
      <4> SUFFICES ASSUME NEW x \in Spots
                   PROVE  \E k \in DOMAIN pages :
                            \E i \in 1..Size(query, <<Global>>, Offs(k)) : x = <<k, i>>
        OBVIOUS
      <4>1. PICK k \in DOMAIN pages : \E i \in 1..Len(pages[k]) : x = <<k, i>>
        BY <1>1, SpotFacts
      <4> QED BY <3>1, <4>1
    <3>4. Size(query, <<Global>>, last) = 0
      BY <2>3, <2>8 DEF Others
    <3> QED BY <1>1, <2>1, <3>2, <3>3, <3>4, RunDelivers
  <2> QED BY <2>7, <2>8
<1>2. SearchInv => PagingComplete
  <2> SUFFICES ASSUME SearchInv, status = "end"
               PROVE  /\ Delivered(mine, From(Matching(query, Homes(query.path))))
                      /\ WithGlobal(query) /\ mine = {}
                           => Delivered(Spots, From(Matching(query, Homes(<<Global>>))))
    BY DEF PagingComplete
  <2>1. \A path : Rows(query, path) = Matching(query, Homes(path))
    BY DEF Rows
  <2> HIDE DEF mine, From
  <2> QED BY <1>1, <2>1
<1> QED BY <1>2, PagesFollow, PTL

=============================================================================
