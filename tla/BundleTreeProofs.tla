-------------------------- MODULE BundleTreeProofs --------------------------
(***************************************************************************)
(* Proofs about BundleTree, for any clients, rows, slugs, requests and     *)
(* bounds.                                                                 *)
(***************************************************************************)
EXTENDS BundleTree, SequenceTheorems, TLAPS

\* Statements that work at the bundle the walk has reached.
Placed == {"walk", "mkdir", "updateMetadata", "deleteSubtree", "look", "conceptFind",
           "conceptInsert"}

\* The walk of a delete stands on a row; on a root only after the path's first segment.
Rooted(c) ==
  /\ req[c].path # <<>>
  /\ bundles[at[c]] # Null
  /\ bundles[at[c]].parent = Null => /\ bundles[at[c]].slug = Canonical[Head(req[c].path)]
                                     /\ left[c] = Tail(req[c].path)

\* The step a request is at fits the request.
ClientOK(c) ==
  /\ pc[c] # "idle" => req[c] \in Request /\ answer[c] = "none" /\ ~Refused(req[c])
  /\ pc[c] \in {"ensureFind", "ensureInsert"} => OnlyEnsures(req[c]) \/ left[c] # <<>>
  /\ pc[c] \in {"ensureFind", "ensureInsert", "rootFind"} => left[c] = req[c].path
  /\ pc[c] \in {"rootFind", "walk", "mkdir"} =>
       left[c] # <<>> /\ req[c].kind \in DOMAIN Target
  /\ pc[c] \in Placed => at[c] \in Bundles
  /\ pc[c] = "deleteSubtree" => req[c].kind = "delete" /\ left[c] = <<>>
  /\ pc[c] \in {"walk", "mkdir", "deleteSubtree"} /\ req[c].kind = "delete" => Rooted(c)

\* Requests that have to make sure the reserved bundle exists.
NeedsGlobal(r) == OnlyEnsures(r) \/ (r.path # <<>> /\ IsGlobal(Head(r.path)))

Ensured(c) ==
  /\ req[c] # Null /\ NeedsGlobal(req[c])
  /\ \/ pc[c] \notin {"idle", "ensureFind", "ensureInsert"}
     \/ answer[c] \notin {"none", "invalid", "aborted"}
  => Taken(Null, Global)

IInv == /\ TypeOK /\ SiblingsUnique
        /\ \A c \in Clients : ClientOK(c) /\ Ensured(c)

-----------------------------------------------------------------------------
(* The subtree query.                                                      *)

\* A path whose rest is empty is its own first name.
LEMMA OneName ==
  ASSUME NEW S, NEW s \in Seq(S), s # <<>>, NEW t, t = Tail(s), t = <<>>
  PROVE  Len(s) = 1 /\ Head(s) = s[1]
<1>1. PICK n \in Nat : n = Len(s)  OBVIOUS
<1>2. Len(t) = n - 1  BY <1>1
<1>3. Len(t) = 0  BY EmptySeq
<1>4. n = 1  BY <1>1, <1>2, <1>3
<1>5. Head(s) = s[1]  OBVIOUS
<1>. QED BY <1>1, <1>4, <1>5

\* It returns live bundles, with every live bundle below one it returns, and no root but
\* the one it starts from.
LEMMA SubtreeFacts ==
  ASSUME TypeOK, NEW root \in Bundles
  PROVE  /\ SubtreeOf(root) \subseteq Bundles
         /\ \A b \in SubtreeOf(root) : Live(b)
         /\ \A b \in Bundles : Live(b) /\ bundles[b].parent \in SubtreeOf(root)
                               => b \in SubtreeOf(root)
         /\ \A b \in SubtreeOf(root) : bundles[b].parent = Null => b = root
<1>. DEFINE Closed(S) == /\ Live(root) => root \in S
                         /\ \A b \in Bundles : Live(b) /\ bundles[b].parent \in S => b \in S
<1>0. \A b : b \in SubtreeOf(root) <=>
               b \in Bundles /\ \A S \in SUBSET Bundles : Closed(S) => b \in S
  BY DEF SubtreeOf
<1>1. ASSUME NEW b \in SubtreeOf(root) PROVE Live(b)
  <2>. DEFINE S == {d \in Bundles : Live(d)}
  <2>1. S \in SUBSET Bundles /\ Closed(S)  BY <1>1
  <2>. QED BY <1>0, <1>1, <2>1
<1>2. ASSUME NEW b \in Bundles, Live(b), bundles[b].parent \in SubtreeOf(root)
      PROVE  b \in SubtreeOf(root)
  BY <1>0, <1>2
<1>3. ASSUME NEW b \in SubtreeOf(root), bundles[b].parent = Null, b # root
      PROVE  FALSE
  <2>. DEFINE S == Bundles \ {b}
  <2>1. Null \notin Bundles  BY ConstantsAssumption
  <2>2. S \in SUBSET Bundles /\ Closed(S)  BY <1>3, <2>1
  <2>. QED BY <1>0, <1>3, <2>2
<1>. QED BY <1>0, <1>1, <1>2, <1>3
-----------------------------------------------------------------------------
(* What a step may do to the bundles.                                      *)

Inserted(b, parent, slug, title) ==
  /\ InsertBundle(b, parent, slug, title)
  /\ parent \in Bundles \cup {Null} /\ slug \in Slugs /\ title \in Titles \cup {Null}
  /\ ~Taken(parent, slug)

Retitled(b, title) == Live(b) /\ bundles' = [bundles EXCEPT ![b].title = title]

Felled(root) ==
  /\ bundles[root].parent = Null => bundles[root].slug # Global
  /\ bundles' = [b \in Bundles |->
                   IF b \in SubtreeOf(root) THEN [bundles[b] EXCEPT !.deleted = TRUE]
                   ELSE bundles[b]]

BundleStep ==
  \/ UNCHANGED bundles
  \/ \E b \in Bundles : \E parent, slug, title : Inserted(b, parent, slug, title)
  \/ \E b \in Bundles, title \in Titles : Retitled(b, title)
  \/ \E root \in Bundles : Felled(root)

\* Rows are never removed, moved or renamed, and never brought back.
RowsStay ==
  \A b \in Bundles : bundles[b] # Null =>
    /\ bundles'[b] # Null
    /\ bundles'[b].parent = bundles[b].parent /\ bundles'[b].slug = bundles[b].slug
    /\ bundles[b].deleted => bundles'[b] = bundles[b]

\* A new row, and what becomes of the others.
LEMMA InsertedFacts ==
  ASSUME TypeOK, NEW b \in Bundles, NEW parent, NEW slug, NEW title,
         Inserted(b, parent, slug, title)
  PROVE  /\ bundles[b] = Null
         /\ bundles'[b] \in Bundle /\ bundles'[b] # Null
         /\ bundles'[b].parent = parent /\ bundles'[b].slug = slug /\ ~bundles'[b].deleted
         /\ \A d \in Bundles \ {b} : bundles'[d] = bundles[d]
         /\ bundles' \in [Bundles -> Bundle \cup {Null}]
<1>. DEFINE row == [parent |-> parent, slug |-> slug, title |-> title, deleted |-> FALSE]
<1>1. row \in Bundle /\ row # Null
  <2>1. row \in Bundle  BY DEF Inserted, Bundle
  <2>. QED BY <2>1, ConstantsAssumption
<1>2. bundles[b] = Null /\ bundles' = [bundles EXCEPT ![b] = row]
  BY DEF Inserted, InsertBundle
<1>3. bundles \in [Bundles -> Bundle \cup {Null}]  BY DEF TypeOK
<1>4. row.parent = parent /\ row.slug = slug /\ ~row.deleted  OBVIOUS
<1>. HIDE DEF row
<1>5. bundles'[b] = row /\ \A d \in Bundles \ {b} : bundles'[d] = bundles[d]
  BY <1>2, <1>3
<1>6. bundles' \in [Bundles -> Bundle \cup {Null}]  BY <1>1, <1>2, <1>3
<1>. QED BY <1>1, <1>2, <1>4, <1>5, <1>6

\* A row with another title.
LEMMA RetitledFacts ==
  ASSUME TypeOK, NEW b \in Bundles, NEW title \in Titles, Retitled(b, title)
  PROVE  /\ Live(b)
         /\ bundles'[b] \in Bundle /\ bundles'[b] # Null
         /\ bundles'[b].parent = bundles[b].parent /\ bundles'[b].slug = bundles[b].slug
         /\ ~bundles'[b].deleted
         /\ \A d \in Bundles \ {b} : bundles'[d] = bundles[d]
         /\ bundles' \in [Bundles -> Bundle \cup {Null}]
<1>. DEFINE row == [bundles[b] EXCEPT !.title = title]
<1>1. bundles[b] \in Bundle /\ ~bundles[b].deleted /\ Live(b)
  BY DEF Retitled, Live, TypeOK
<1>2. row \in Bundle /\ row # Null  BY <1>1, ConstantsAssumption DEF Bundle
<1>3. row.parent = bundles[b].parent /\ row.slug = bundles[b].slug /\ ~row.deleted
  BY <1>1 DEF Bundle
<1>4. bundles' = [bundles EXCEPT ![b] = row]  BY DEF Retitled
<1>5. bundles \in [Bundles -> Bundle \cup {Null}]  BY DEF TypeOK
<1>. HIDE DEF row
<1>6. bundles'[b] = row /\ \A d \in Bundles \ {b} : bundles'[d] = bundles[d]
  BY <1>4, <1>5
<1>7. bundles' \in [Bundles -> Bundle \cup {Null}]  BY <1>2, <1>4, <1>5
<1>. QED BY <1>1, <1>2, <1>3, <1>6, <1>7

\* Rows marked as deleted.
LEMMA FelledFacts ==
  ASSUME TypeOK, NEW root \in Bundles, Felled(root)
  PROVE  /\ \A b \in SubtreeOf(root) :
              /\ Live(b) /\ bundles'[b] # Null /\ bundles'[b].deleted
              /\ bundles'[b].parent = bundles[b].parent /\ bundles'[b].slug = bundles[b].slug
         /\ \A b \in Bundles \ SubtreeOf(root) : bundles'[b] = bundles[b]
         /\ bundles' \in [Bundles -> Bundle \cup {Null}]
<1>1. ASSUME NEW b \in SubtreeOf(root), NEW row, row = [bundles[b] EXCEPT !.deleted = TRUE]
      PROVE  /\ Live(b) /\ row \in Bundle /\ row # Null /\ row.deleted
             /\ row.parent = bundles[b].parent /\ row.slug = bundles[b].slug
  <2>1. Live(b) /\ b \in Bundles  BY SubtreeFacts
  <2>2. bundles[b] \in Bundle  BY <2>1 DEF Live, TypeOK
  <2>. QED BY <1>1, <2>1, <2>2, ConstantsAssumption DEF Bundle
<1>2. \A b \in Bundles : bundles'[b] = IF b \in SubtreeOf(root)
                                       THEN [bundles[b] EXCEPT !.deleted = TRUE]
                                       ELSE bundles[b]
  BY DEF Felled
<1>3. ASSUME NEW b \in SubtreeOf(root)
      PROVE  /\ Live(b) /\ bundles'[b] \in Bundle /\ bundles'[b] # Null /\ bundles'[b].deleted
             /\ bundles'[b].parent = bundles[b].parent /\ bundles'[b].slug = bundles[b].slug
  <2>1. b \in Bundles  BY SubtreeFacts
  <2>. QED BY <1>1, <1>2, <2>1
<1>4. \A b \in Bundles \ SubtreeOf(root) : bundles'[b] = bundles[b]  BY <1>2
<1>5. \A b \in Bundles : bundles'[b] \in Bundle \cup {Null}
  BY <1>3, <1>4 DEF TypeOK
<1>6. bundles' = [b \in Bundles |-> bundles'[b]]  BY DEF Felled
<1>7. bundles' \in [Bundles -> Bundle \cup {Null}]  BY <1>5, <1>6
<1>. QED BY <1>3, <1>4, <1>7

\* The table keeps its type.
LEMMA BundlesType ==
  ASSUME TypeOK, BundleStep
  PROVE  bundles' \in [Bundles -> Bundle \cup {Null}]
<1>1. CASE UNCHANGED bundles  BY <1>1 DEF TypeOK
<1>. QED BY <1>1, InsertedFacts, RetitledFacts, FelledFacts DEF BundleStep

LEMMA RowsStayStep ==
  ASSUME TypeOK, BundleStep
  PROVE  RowsStay
<1>1. CASE UNCHANGED bundles  BY <1>1 DEF RowsStay
<1>2. ASSUME NEW b \in Bundles, NEW parent, NEW slug, NEW title,
             Inserted(b, parent, slug, title)
      PROVE  RowsStay
  BY <1>2, InsertedFacts DEF RowsStay
<1>3. ASSUME NEW b \in Bundles, NEW title \in Titles, Retitled(b, title) PROVE RowsStay
  <2>1. ~bundles[b].deleted  BY <1>3 DEF Retitled, Live
  <2>. QED BY <1>3, <2>1, RetitledFacts DEF RowsStay
<1>4. ASSUME NEW root \in Bundles, Felled(root) PROVE RowsStay
  <2>1. \A b \in SubtreeOf(root) : ~bundles[b].deleted  BY SubtreeFacts DEF Live
  <2>. QED BY <1>4, <2>1, FelledFacts DEF RowsStay
<1>. QED BY <1>1, <1>2, <1>3, <1>4 DEF BundleStep

\* The unique indexes hold.
LEMMA SiblingsStep ==
  ASSUME TypeOK, SiblingsUnique, BundleStep
  PROVE  SiblingsUnique'
<1>1. CASE UNCHANGED bundles  BY <1>1 DEF SiblingsUnique, Live
<1>2. ASSUME NEW b \in Bundles, NEW parent, NEW slug, NEW title,
             Inserted(b, parent, slug, title)
      PROVE  SiblingsUnique'
  <2>1. \A d \in Bundles : Live(d) => ~(bundles[d].parent = parent /\ bundles[d].slug = slug)
    BY <1>2 DEF Inserted, Taken, Children
  <2>2. \A d \in Bundles \ {b} : bundles'[d] = bundles[d] /\ (Live(d)' <=> Live(d))
    BY <1>2, InsertedFacts DEF Live
  <2>. QED BY <1>2, <2>1, <2>2, InsertedFacts DEF SiblingsUnique
<1>3. ASSUME NEW b \in Bundles, NEW title \in Titles, Retitled(b, title)
      PROVE  SiblingsUnique'
  <2>1. \A d \in Bundles : /\ Live(d)' <=> Live(d)
                           /\ Live(d) => /\ bundles'[d].parent = bundles[d].parent
                                         /\ bundles'[d].slug = bundles[d].slug
    BY <1>3, RetitledFacts DEF Live
  <2>. QED BY <2>1 DEF SiblingsUnique
<1>4. ASSUME NEW root \in Bundles, Felled(root) PROVE SiblingsUnique'
  <2>1. \A d \in Bundles : Live(d)' => Live(d) /\ bundles'[d] = bundles[d]
    BY <1>4, FelledFacts DEF Live
  <2>. QED BY <2>1 DEF SiblingsUnique
<1>. QED BY <1>1, <1>2, <1>3, <1>4 DEF BundleStep

\* The reserved root stays.
LEMMA GlobalStep ==
  ASSUME TypeOK, SiblingsUnique, BundleStep, Children(Null, Global) # {}
  PROVE  Children(Null, Global)' = Children(Null, Global)
<1>1. SUFFICES ASSUME NEW b \in Bundles
               PROVE  b \in Children(Null, Global)' <=> b \in Children(Null, Global)
  BY DEF Children
<1>2. CASE UNCHANGED bundles  BY <1>2 DEF Children, Live
<1>3. ASSUME NEW d \in Bundles, NEW parent, NEW slug, NEW title,
             Inserted(d, parent, slug, title)
      PROVE  b \in Children(Null, Global)' <=> b \in Children(Null, Global)
  <2>1. ~(parent = Null /\ slug = Global)  BY <1>3 DEF Inserted, Taken
  <2>2. CASE b = d
    BY <1>3, <2>1, <2>2, InsertedFacts DEF Children, Live
  <2>3. CASE b # d
    BY <1>3, <2>3, InsertedFacts DEF Children, Live
  <2>. QED BY <2>2, <2>3
<1>4. ASSUME NEW d \in Bundles, NEW title \in Titles, Retitled(d, title)
      PROVE  b \in Children(Null, Global)' <=> b \in Children(Null, Global)
  BY <1>4, RetitledFacts DEF Children, Live
<1>5. ASSUME NEW root \in Bundles, Felled(root)
      PROVE  b \in Children(Null, Global)' <=> b \in Children(Null, Global)
  <2>1. CASE b \notin SubtreeOf(root)
    BY <1>5, <2>1, FelledFacts DEF Children, Live
  <2>2. CASE b \in SubtreeOf(root)
    <3>1. ~Live(b)'  BY <1>5, <2>2, FelledFacts DEF Live
    <3>2. ASSUME bundles[b].parent = Null, bundles[b].slug = Global PROVE FALSE
      BY <1>5, <2>2, <3>2, SubtreeFacts DEF Felled
    <3>. QED BY <3>1, <3>2 DEF Children
  <2>. QED BY <2>1, <2>2
<1>. QED BY <1>2, <1>3, <1>4, <1>5 DEF BundleStep

\* A live bundle goes with the live bundle above it.
LEMMA TakesSubtreeStep ==
  ASSUME TypeOK, BundleStep,
         NEW b \in Bundles, Live(b), bundles[b].parent # Null,
         Live(bundles[b].parent), ~Live(bundles[b].parent)'
  PROVE  ~Live(b)'
<1>. DEFINE parent == bundles[b].parent
<1>1. parent \in Bundles  BY DEF TypeOK, Live, Bundle
<1>2. PICK root \in Bundles : Felled(root)
  <2>1. CASE UNCHANGED bundles  BY <2>1 DEF Live
  <2>. QED BY <1>1, <2>1, InsertedFacts, RetitledFacts DEF BundleStep, Live
<1>3. parent \in SubtreeOf(root)  BY <1>1, <1>2, FelledFacts DEF Live
<1>4. b \in SubtreeOf(root)  BY <1>3, SubtreeFacts
<1>. QED BY <1>2, <1>4, FelledFacts DEF Live

-----------------------------------------------------------------------------
(* What a step does for the client that takes it.                          *)

\* A step of c leaves the other clients alone.
Frame(c) ==
  \A d \in Clients \ {c} : /\ pc'[d] = pc[d] /\ req'[d] = req[d] /\ at'[d] = at[d]
                           /\ left'[d] = left[d] /\ answer'[d] = answer[d]

LocalTypes ==
  /\ concepts \in [Concepts -> Concept \cup {Null}]
  /\ pc \in [Clients -> Steps]
  /\ req \in [Clients -> Request \cup {Null}]
  /\ at \in [Clients -> Bundles \cup {Null}]
  /\ left \in [Clients -> Seq(Spellings)]
  /\ found \in [Clients -> SUBSET Bundles]
  /\ answer \in [Clients -> Statuses]
  /\ issued \in Nat

\* What has to be shown of a step of c.
StepOK(c) == BundleStep /\ LocalTypes' /\ Frame(c) /\ ClientOK(c)' /\ Ensured(c)'

\* A client that does nothing stays as it should be.
LEMMA OthersOK ==
  ASSUME IInv, BundleStep, NEW c \in Clients,
         pc'[c] = pc[c], req'[c] = req[c], at'[c] = at[c], left'[c] = left[c],
         answer'[c] = answer[c]
  PROVE  ClientOK(c)' /\ Ensured(c)'
<1>1. RowsStay  BY RowsStayStep DEF IInv
<1>2. Taken(Null, Global) => Taken(Null, Global)'
  BY GlobalStep DEF IInv, Taken
<1>3. Rooted(c) /\ at[c] \in Bundles => Rooted(c)'
  BY <1>1 DEF Rooted, RowsStay
<1>4. ClientOK(c)'
  BY <1>3 DEF IInv, ClientOK, Placed
<1>5. Ensured(c)'
  BY <1>2 DEF IInv, Ensured
<1>. QED BY <1>4, <1>5

\* A request that starts.
LEMMA BeginOK ==
  ASSUME IInv, NEW c \in Clients, NEW r \in Menu[c], Begin(c, r)
  PROVE  StepOK(c)
<1>. DEFINE invalid == \/ Refused(r)
                       \/ r.kind = "create" /\ ~OnlyEnsures(r) /\ Canonical[r.slug] \notin Valid
            nowhere == r.path = <<>> /\ r.kind \notin {"list", "create"}
<1>1. r \in Request  BY ConstantsAssumption
<1>2. /\ pc[c] = "idle" /\ issued' = issued + 1
      /\ req' = [req EXCEPT ![c] = r] /\ at' = [at EXCEPT ![c] = Null]
      /\ left' = [left EXCEPT ![c] = r.path] /\ found' = [found EXCEPT ![c] = {}]
      /\ pc' = [pc EXCEPT ![c] = IF invalid \/ nowhere THEN "idle" ELSE FirstStep(r)]
      /\ answer' = [answer EXCEPT ![c] = IF invalid THEN "invalid"
                                         ELSE IF nowhere THEN "notFound" ELSE "none"]
      /\ bundles' = bundles /\ concepts' = concepts
  BY DEF Begin, tables
<1>3. r.path \in Seq(Spellings) /\ r.kind \in Kinds  BY <1>1 DEF Request
<1>4. FirstStep(r) \in {"ensureFind", "siblingFind", "rootFind"}  BY DEF FirstStep
<1>5. LocalTypes'
  BY <1>1, <1>2, <1>3, <1>4 DEF IInv, TypeOK, LocalTypes, Steps, Statuses
<1>6. BundleStep /\ Frame(c)
  BY <1>2 DEF BundleStep, Frame, IInv, TypeOK
<1>7. /\ req'[c] = r /\ left'[c] = r.path
      /\ pc'[c] = IF invalid \/ nowhere THEN "idle" ELSE FirstStep(r)
      /\ answer'[c] = IF invalid THEN "invalid" ELSE IF nowhere THEN "notFound" ELSE "none"
  BY <1>2 DEF IInv, TypeOK
<1>8. ~nowhere /\ FirstStep(r) # "siblingFind" => OnlyEnsures(r) \/ r.path # <<>>
  BY <1>3 DEF FirstStep, OnlyEnsures, Kinds
<1>9. ~nowhere /\ FirstStep(r) = "rootFind" =>
        r.path # <<>> /\ r.kind \in DOMAIN Target /\ ~OnlyEnsures(r) /\ ~IsGlobal(Head(r.path))
  BY <1>3 DEF FirstStep, OnlyEnsures, Kinds, Target, IsGlobal
<1>10. FirstStep(r) = "siblingFind" => r.path = <<>> /\ ~OnlyEnsures(r)
  BY DEF FirstStep
<1>11. ClientOK(c)'
  BY <1>1, <1>4, <1>7, <1>8, <1>9 DEF ClientOK, Placed
<1>12. ASSUME nowhere PROVE ~NeedsGlobal(r)
  BY <1>12 DEF NeedsGlobal, OnlyEnsures
<1>13. ASSUME pc'[c] \notin {"idle", "ensureFind"} PROVE ~NeedsGlobal(r)
  BY <1>4, <1>7, <1>9, <1>10, <1>13 DEF NeedsGlobal
<1>14. Ensured(c)'
  BY <1>4, <1>7, <1>12, <1>13 DEF Ensured
<1>. QED BY <1>5, <1>6, <1>11, <1>14 DEF StepOK

\* A step that only moves to a statement or answers.
LEMMA MovesOK ==
  ASSUME IInv, NEW c \in Clients, pc[c] # "idle",
         NEW step \in Steps, NEW status \in Statuses,
         pc' = [pc EXCEPT ![c] = step], answer' = [answer EXCEPT ![c] = status],
         UNCHANGED <<req, at, left, issued>>,
         BundleStep,
         concepts' \in [Concepts -> Concept \cup {Null}],
         found' \in [Clients -> SUBSET Bundles],
         step \in {"idle", "ensureInsert", "listRoots", "rootFind", "mkdir", "insert",
                   "deleteConcepts", "conceptInsert"},
         step # "idle" => status = "none",
         step = "ensureInsert" => pc[c] = "ensureFind",
         step = "rootFind" => pc[c] \in {"ensureFind", "ensureInsert"} /\ ~OnlyEnsures(req[c]),
         step = "mkdir" => pc[c] = "walk",
         step = "conceptInsert" => pc[c] = "conceptFind",
         \/ step = "ensureInsert"
         \/ status \in {"invalid", "aborted"}
         \/ pc[c] \notin {"ensureFind", "ensureInsert"}
         \/ Taken(Null, Global)'
  PROVE  StepOK(c)
<1>1. LocalTypes'  BY DEF IInv, TypeOK, LocalTypes
<1>2. Frame(c)  BY DEF Frame, IInv, TypeOK
<1>3. pc'[c] = step /\ answer'[c] = status  BY DEF IInv, TypeOK
<1>4. ClientOK(c)  BY DEF IInv
<1>5. (left[c] # <<>> /\ req[c].kind \in DOMAIN Target) \/ step # "rootFind"
  <2>1. ASSUME step = "rootFind" PROVE req[c].kind \in Kinds \ {"list"} /\ left[c] # <<>>
    BY <1>4, <2>1 DEF ClientOK, OnlyEnsures, Request
  <2>. QED BY <2>1 DEF Kinds, Target
<1>6. ClientOK(c)'
  <2>1. RowsStay  BY RowsStayStep DEF IInv
  <2>2. Rooted(c) /\ at[c] \in Bundles => Rooted(c)'
    BY <2>1 DEF Rooted, RowsStay
  <2>3. /\ pc'[c] # "idle" => req'[c] \in Request /\ answer'[c] = "none" /\ ~Refused(req'[c])
        /\ pc'[c] \in {"ensureFind", "ensureInsert"} => OnlyEnsures(req'[c]) \/ left'[c] # <<>>
        /\ pc'[c] \in {"ensureFind", "ensureInsert", "rootFind"} => left'[c] = req'[c].path
    BY <1>3, <1>4 DEF ClientOK
  <2>4. /\ pc'[c] \in {"rootFind", "walk", "mkdir"} =>
             left'[c] # <<>> /\ req'[c].kind \in DOMAIN Target
        /\ pc'[c] \in Placed => at'[c] \in Bundles
        /\ pc'[c] # "deleteSubtree"
    BY <1>3, <1>4, <1>5 DEF ClientOK, Placed
  <2>5. pc'[c] \in {"walk", "mkdir", "deleteSubtree"} /\ req'[c].kind = "delete" => Rooted(c)'
    BY <1>3, <1>4, <2>2 DEF ClientOK, Placed
  <2>. QED BY <2>3, <2>4, <2>5 DEF ClientOK
<1>7. Taken(Null, Global) => Taken(Null, Global)'
  BY GlobalStep DEF IInv, Taken
<1>8. Ensured(c)'
  BY <1>3, <1>7 DEF IInv, Ensured
<1>. QED BY <1>1, <1>2, <1>6, <1>8 DEF StepOK

\* A step that reaches a bundle: a root from the path's first segment, or another one.
LEMMA ReachOK ==
  ASSUME IInv, NEW c \in Clients, pc[c] \in {"rootFind", "walk", "mkdir"},
         NEW b \in Bundles, Reach(c, b, Tail(left[c])),
         UNCHANGED <<req, found, issued, concepts>>,
         BundleStep, bundles'[b] # Null,
         pc[c] = "rootFind" => bundles'[b].slug = Canonical[Head(left[c])],
         pc[c] # "rootFind" => bundles'[b].parent # Null
  PROVE  StepOK(c)
<1>. DEFINE rest == Tail(left[c])
            step == IF rest = <<>> THEN Target[req[c].kind] ELSE "walk"
<1>1. ClientOK(c) /\ pc[c] # "idle"  BY DEF IInv
<1>2. left[c] \in Seq(Spellings) /\ left[c] # <<>>  BY <1>1 DEF ClientOK, IInv, TypeOK
<1>3. rest \in Seq(Spellings)  BY <1>2
<1>4. req[c].kind \in DOMAIN Target  BY <1>1 DEF ClientOK
<1>5. /\ Target[req[c].kind] \in {"siblingFind", "updateMetadata", "deleteSubtree", "look",
                                  "conceptFind"}
      /\ Target[req[c].kind] = "deleteSubtree" => req[c].kind = "delete"
  BY <1>4 DEF Target
<1>. HIDE DEF rest
<1>6. /\ at' = [at EXCEPT ![c] = b] /\ left' = [left EXCEPT ![c] = rest]
      /\ pc' = [pc EXCEPT ![c] = step] /\ answer' = answer
  BY DEF Reach, Goto, rest
<1>7. step \in Steps \ {"idle", "mkdir", "rootFind", "ensureFind", "ensureInsert"}
  BY <1>5 DEF Steps
<1>8. LocalTypes'
  BY <1>3, <1>6, <1>7 DEF IInv, TypeOK, LocalTypes
<1>9. Frame(c)  BY <1>6 DEF Frame, IInv, TypeOK
<1>10. at'[c] = b /\ left'[c] = rest /\ pc'[c] = step /\ answer'[c] = answer[c]
       /\ req'[c] = req[c]
  BY <1>6 DEF IInv, TypeOK
<1>11. ASSUME req[c].kind = "delete" PROVE Rooted(c)'
  <2>1. CASE pc[c] = "rootFind"
    <3>1. left[c] = req[c].path  BY <1>1, <2>1 DEF ClientOK
    <3>. QED BY <1>2, <1>10, <2>1, <3>1 DEF Rooted, rest
  <2>2. CASE pc[c] = "walk"
    <3>1. req[c].path # <<>>  BY <1>1, <1>11, <2>2 DEF ClientOK, Rooted
    <3>. QED BY <1>10, <2>2, <3>1 DEF Rooted
  <2>3. CASE pc[c] = "mkdir"
    <3>. QED PROOF BY <1>10, <1>11, <2>3, <1>1 DEF Rooted, ClientOK
  <2>. QED BY <2>1, <2>2, <2>3
<1>12. ClientOK(c)'
  BY <1>1, <1>4, <1>5, <1>7, <1>10, <1>11 DEF ClientOK, Placed
<1>13. Taken(Null, Global) => Taken(Null, Global)'
  BY GlobalStep DEF IInv, Taken
<1>14. Ensured(c)'
  BY <1>1, <1>7, <1>10, <1>13 DEF IInv, Ensured, ClientOK
<1>. QED BY <1>8, <1>9, <1>12, <1>14 DEF StepOK

-----------------------------------------------------------------------------
(* The statements.                                                         *)

\* Going on, or finishing, in the form MovesOK asks for.
LEMMA GotoFinish ==
  ASSUME IInv, NEW c \in Clients, pc[c] # "idle", NEW step, NEW status
  PROVE  /\ Goto(c, step) => /\ pc' = [pc EXCEPT ![c] = step]
                             /\ answer' = [answer EXCEPT ![c] = "none"]
         /\ Finish(c, status) => /\ pc' = [pc EXCEPT ![c] = "idle"]
                                 /\ answer' = [answer EXCEPT ![c] = status]
BY DEF Goto, Finish, IInv, ClientOK, TypeOK

\* ensureGlobal, in list, in a create of the reserved bundle and before a walk.
LEMMA EnsureOK ==
  ASSUME IInv, NEW c \in Clients, EnsureFind(c) \/ EnsureInsert(c)
  PROVE  StepOK(c)
<1>. USE DEF Steps, Statuses
<1>1. pc[c] \in {"ensureFind", "ensureInsert"} /\ pc[c] # "idle"
      /\ UNCHANGED <<req, at, left, found, issued, concepts>>
  BY DEF EnsureFind, EnsureInsert, tables
<1>2. /\ concepts' \in [Concepts -> Concept \cup {Null}]
      /\ found' \in [Clients -> SUBSET Bundles]
  BY <1>1 DEF IInv, TypeOK
<1>3. ASSUME AfterEnsure(c), BundleStep, Taken(Null, Global)' PROVE StepOK(c)
  <2>1. CASE req[c].kind = "list"
    <3>1. Goto(c, "listRoots")  BY <1>3, <2>1 DEF AfterEnsure
    <3>. QED BY <1>1, <1>2, <1>3, <3>1, GotoFinish, MovesOK
  <2>2. CASE req[c].kind # "list" /\ OnlyEnsures(req[c])
    <3>1. Finish(c, "ok")  BY <1>3, <2>2 DEF AfterEnsure
    <3>. QED BY <1>1, <1>2, <1>3, <3>1, GotoFinish, MovesOK
  <2>3. CASE ~OnlyEnsures(req[c])
    <3>1. Goto(c, "rootFind")  BY <1>3, <2>3 DEF AfterEnsure, OnlyEnsures
    <3>. QED BY <1>1, <1>2, <1>3, <2>3, <3>1, GotoFinish, MovesOK
  <2>. QED BY <2>1, <2>2, <2>3
<1>4. CASE EnsureFind(c)
  <2>1. bundles' = bundles /\ BundleStep  BY <1>4 DEF EnsureFind, tables, BundleStep
  <2>2. CASE Taken(Null, Global)
    <3>1. Taken(Null, Global)'  BY <2>1, <2>2 DEF Taken, Children, Live
    <3>2. AfterEnsure(c)  BY <1>4, <2>2 DEF EnsureFind
    <3>. QED BY <1>3, <2>1, <3>1, <3>2
  <2>3. CASE ~Taken(Null, Global)
    <3>1. Goto(c, "ensureInsert") /\ pc[c] = "ensureFind"  BY <1>4, <2>3 DEF EnsureFind
    <3>. QED BY <1>1, <1>2, <2>1, <3>1, GotoFinish, MovesOK
  <2>. QED BY <2>2, <2>3
<1>5. CASE EnsureInsert(c) /\ Taken(Null, Global)
  <2>1. Finish(c, "uniqueViolation") /\ bundles' = bundles  BY <1>5 DEF EnsureInsert
  <2>2. Taken(Null, Global)'  BY <1>5, <2>1 DEF Taken, Children, Live
  <2>3. BundleStep  BY <2>1 DEF BundleStep
  <2>. QED BY <1>1, <1>2, <2>1, <2>2, <2>3, GotoFinish, MovesOK
<1>6. CASE EnsureInsert(c) /\ ~Taken(Null, Global)
  <2>1. PICK b \in Bundles : InsertBundle(b, Null, Global, Null)  BY <1>6 DEF EnsureInsert
  <2>2. Global \in Slugs  BY ConstantsAssumption DEF Slugs
  <2>3. Inserted(b, Null, Global, Null)  BY <1>6, <2>1, <2>2 DEF Inserted
  <2>4. Taken(Null, Global)'
    BY <2>3, InsertedFacts DEF IInv, Taken, Children, Live
  <2>5. BundleStep  BY <2>3 DEF BundleStep
  <2>6. AfterEnsure(c)  BY <1>6 DEF EnsureInsert
  <2>. QED BY <1>3, <2>4, <2>5, <2>6
<1>. QED BY <1>4, <1>5, <1>6

\* Steps that change no bundle and do not move the walk.
Standing(c) ==
  \/ ListRoots(c) \/ SiblingFind(c) \/ DeleteConcepts(c) \/ Look(c) \/ ConceptFind(c)
  \/ ConceptInsert(c) \/ Abort(c)

LEMMA StandingOK ==
  ASSUME IInv, NEW c \in Clients, Standing(c)
  PROVE  StepOK(c)
<1>. USE DEF Steps, Statuses
<1>1. pc[c] # "idle" /\ UNCHANGED <<req, at, left, found, issued, bundles>>
  BY DEF Standing, ListRoots, SiblingFind, DeleteConcepts, Look, ConceptFind, ConceptInsert,
         Abort, tables
<1>2. BundleStep  BY <1>1 DEF BundleStep
<1>3. found' \in [Clients -> SUBSET Bundles]  BY <1>1 DEF IInv, TypeOK
<1>4. concepts' \in [Concepts -> Concept \cup {Null}]
  <2>1. CASE UNCHANGED concepts  BY <2>1 DEF IInv, TypeOK
  <2>2. CASE DeleteConcepts(c)
    <3>1. concepts' = [k \in Concepts |->
                         IF k \in ConceptsIn(found[c]) THEN [concepts[k] EXCEPT !.deleted = TRUE]
                         ELSE concepts[k]]
      BY <2>2 DEF DeleteConcepts
    <3>2. ASSUME NEW k \in Concepts, k \in ConceptsIn(found[c]),
                 NEW row, row = [concepts[k] EXCEPT !.deleted = TRUE]
          PROVE  row \in Concept
      <4>1. concepts[k] \in Concept  BY <3>2 DEF ConceptsIn, LiveConcept, IInv, TypeOK
      <4>. QED BY <3>2, <4>1 DEF Concept
    <3>3. \A k \in Concepts : concepts[k] \in Concept \cup {Null}  BY DEF IInv, TypeOK
    <3>. QED BY <3>1, <3>2, <3>3
  <2>3. CASE ConceptInsert(c)
    <3>1. CASE UNCHANGED concepts  BY <2>1, <3>1
    <3>2. CASE ~(UNCHANGED concepts)
      <4>1. PICK k \in Concepts :
               concepts' = [concepts EXCEPT ![k] =
                              [home |-> at[c], name |-> req[c].name, deleted |-> FALSE]]
        BY <2>3, <3>2 DEF ConceptInsert
      <4>2. at[c] \in Bundles /\ req[c] \in Request
        BY <2>3 DEF ConceptInsert, IInv, ClientOK, Placed
      <4>3. [home |-> at[c], name |-> req[c].name, deleted |-> FALSE] \in Concept
        BY <4>2 DEF Concept, Request
      <4>. QED BY <4>1, <4>3 DEF IInv, TypeOK
    <3>. QED BY <3>1, <3>2
  <2>. QED BY <2>1, <2>2, <2>3 DEF Standing, ListRoots, SiblingFind, Look, ConceptFind, Abort,
              tables
<1>5. CASE ListRoots(c) \/ Look(c)
  <2>1. Finish(c, "ok") /\ pc[c] \in {"listRoots", "look"}  BY <1>5 DEF ListRoots, Look
  <2>. QED BY <1>1, <1>2, <1>3, <1>4, <2>1, GotoFinish, MovesOK
<1>6. CASE SiblingFind(c)
  <2>1. Finish(c, "conflict") \/ Goto(c, "insert")  BY <1>6 DEF SiblingFind
  <2>2. pc[c] = "siblingFind"  BY <1>6 DEF SiblingFind
  <2>3. CASE Finish(c, "conflict")
    BY <1>1, <1>2, <1>3, <1>4, <2>2, <2>3, GotoFinish, MovesOK
  <2>4. CASE Goto(c, "insert")
    BY <1>1, <1>2, <1>3, <1>4, <2>2, <2>4, GotoFinish, MovesOK
  <2>. QED BY <2>1, <2>3, <2>4
<1>7. CASE DeleteConcepts(c)
  <2>1. Finish(c, "ok") /\ pc[c] = "deleteConcepts"  BY <1>7 DEF DeleteConcepts
  <2>. QED BY <1>1, <1>2, <1>3, <1>4, <2>1, GotoFinish, MovesOK
<1>8. CASE ConceptFind(c)
  <2>1. Finish(c, "conflict") \/ Goto(c, "conceptInsert")  BY <1>8 DEF ConceptFind
  <2>2. pc[c] = "conceptFind"  BY <1>8 DEF ConceptFind
  <2>3. CASE Finish(c, "conflict")
    BY <1>1, <1>2, <1>3, <1>4, <2>2, <2>3, GotoFinish, MovesOK
  <2>4. CASE Goto(c, "conceptInsert")
    BY <1>1, <1>2, <1>3, <1>4, <2>2, <2>4, GotoFinish, MovesOK
  <2>. QED BY <2>1, <2>3, <2>4
<1>9. CASE ConceptInsert(c)
  <2>1. Finish(c, "uniqueViolation") \/ Finish(c, "ok")  BY <1>9 DEF ConceptInsert
  <2>2. pc[c] = "conceptInsert"  BY <1>9 DEF ConceptInsert
  <2>3. CASE Finish(c, "uniqueViolation")
    BY <1>1, <1>2, <1>3, <1>4, <2>2, <2>3, GotoFinish, MovesOK
  <2>4. CASE Finish(c, "ok")
    BY <1>1, <1>2, <1>3, <1>4, <2>2, <2>4, GotoFinish, MovesOK
  <2>. QED BY <2>1, <2>3, <2>4
<1>10. CASE Abort(c)
  <2>1. Finish(c, "aborted")  BY <1>10 DEF Abort
  <2>. QED BY <1>1, <1>2, <1>3, <1>4, <2>1, GotoFinish, MovesOK
<1>. QED BY <1>5, <1>6, <1>7, <1>8, <1>9, <1>10 DEF Standing

\* The walk along a path, inserting directories for a new concept.
LEMMA WalkOK ==
  ASSUME IInv, NEW c \in Clients, RootFind(c) \/ Walk(c) \/ Mkdir(c)
  PROVE  StepOK(c)
<1>. USE DEF Steps, Statuses
<1>1. pc[c] \in {"rootFind", "walk", "mkdir"} /\ pc[c] # "idle"
      /\ UNCHANGED <<req, found, issued, concepts>>
  BY DEF RootFind, Walk, Mkdir, tables
<1>2. /\ concepts' \in [Concepts -> Concept \cup {Null}]
      /\ found' \in [Clients -> SUBSET Bundles]
  BY <1>1 DEF IInv, TypeOK
<1>. DEFINE slug == Canonical[Head(left[c])]
<1>3. slug \in Slugs /\ left[c] # <<>> /\ Tail(left[c]) \in Seq(Spellings)
  <2>1. left[c] \in Seq(Spellings) /\ left[c] # <<>>  BY <1>1 DEF IInv, TypeOK, ClientOK
  <2>. QED BY <2>1 DEF Slugs
<1>4. CASE RootFind(c)
  <2>1. pc[c] = "rootFind" /\ bundles' = bundles /\ BundleStep
    BY <1>4 DEF RootFind, tables, BundleStep
  <2>2. CASE Finish(c, "notFound") /\ UNCHANGED <<at, left>>
    BY <1>1, <1>2, <2>1, <2>2, GotoFinish, MovesOK
  <2>3. ASSUME NEW b \in Children(Null, slug), Reach(c, b, Tail(left[c]))
        PROVE  StepOK(c)
    <3>1. b \in Bundles /\ bundles'[b] # Null /\ bundles'[b].slug = slug
      BY <2>1 DEF Children, Live
    <3>. QED BY <1>1, <2>1, <2>3, <3>1, ReachOK
  <2>. QED BY <1>4, <2>2, <2>3 DEF RootFind
<1>5. CASE Walk(c)
  <2>1. pc[c] = "walk" /\ bundles' = bundles /\ BundleStep
    BY <1>5 DEF Walk, tables, BundleStep
  <2>2. CASE Finish(c, "invalid") /\ UNCHANGED <<at, left>>
    BY <1>1, <1>2, <2>1, <2>2, GotoFinish, MovesOK
  <2>3. CASE Finish(c, "notFound") /\ UNCHANGED <<at, left>>
    BY <1>1, <1>2, <2>1, <2>3, GotoFinish, MovesOK
  <2>4. CASE Goto(c, "mkdir") /\ UNCHANGED <<at, left>>
    BY <1>1, <1>2, <2>1, <2>4, GotoFinish, MovesOK
  <2>5. ASSUME NEW b \in Children(at[c], slug), Reach(c, b, Tail(left[c]))
        PROVE  StepOK(c)
    <3>1. at[c] \in Bundles /\ Null \notin Bundles
      BY <2>1, ConstantsAssumption DEF IInv, ClientOK, Placed
    <3>2. b \in Bundles /\ bundles'[b] # Null /\ bundles'[b].parent # Null
      BY <2>1, <3>1 DEF Children, Live
    <3>. QED BY <1>1, <2>1, <2>5, <3>2, ReachOK
  <2>. QED BY <1>5, <2>2, <2>3, <2>4, <2>5 DEF Walk
<1>6. CASE Mkdir(c)
  <2>1. pc[c] = "mkdir"  BY <1>6 DEF Mkdir
  <2>2. CASE Finish(c, "uniqueViolation") /\ UNCHANGED <<at, left, bundles>>
    <3>1. BundleStep  BY <2>2 DEF BundleStep
    <3>. QED BY <1>1, <1>2, <2>1, <2>2, <3>1, GotoFinish, MovesOK
  <2>3. ASSUME ~Taken(at[c], slug), NEW b \in Bundles, InsertBundle(b, at[c], slug, Null),
               Reach(c, b, Tail(left[c]))
        PROVE  StepOK(c)
    <3>1. at[c] \in Bundles /\ Null \notin Bundles
      BY <2>1, ConstantsAssumption DEF IInv, ClientOK, Placed
    <3>. PICK parent : parent = at[c]  OBVIOUS
    <3>. PICK name : name = slug  OBVIOUS
    <3>2. Inserted(b, parent, name, Null)  BY <1>3, <2>3, <3>1 DEF Inserted
    <3>3. BundleStep  BY <3>2 DEF BundleStep
    <3>4. bundles'[b] # Null /\ bundles'[b].parent # Null
      BY <3>1, <3>2, InsertedFacts DEF IInv
    <3>. QED BY <1>1, <2>1, <2>3, <3>3, <3>4, ReachOK
  <2>. QED BY <1>6, <2>2, <2>3 DEF Mkdir
<1>. QED BY <1>4, <1>5, <1>6

\* Creating, retitling and deleting the bundle a path leads to.
LEMMA WriteOK ==
  ASSUME IInv, NEW c \in Clients, Insert(c) \/ UpdateMetadata(c) \/ DeleteSubtree(c)
  PROVE  StepOK(c)
<1>. USE DEF Steps, Statuses
<1>1. pc[c] \in {"insert", "updateMetadata", "deleteSubtree"} /\ pc[c] # "idle"
      /\ UNCHANGED <<req, at, left, issued, concepts>>
  BY DEF Insert, UpdateMetadata, DeleteSubtree
<1>2. concepts' \in [Concepts -> Concept \cup {Null}]  BY <1>1 DEF IInv, TypeOK
<1>3. req[c] \in Request /\ at[c] \in Bundles \cup {Null}
  BY <1>1 DEF IInv, ClientOK, TypeOK
<1>4. CASE Insert(c)
  <2>. DEFINE slug == Canonical[req[c].slug]
  <2>1. slug \in Slugs /\ req[c].title \in Titles  BY <1>3 DEF Slugs, Request
  <2>2. pc[c] = "insert" /\ found' \in [Clients -> SUBSET Bundles]
    BY <1>4 DEF Insert, IInv, TypeOK
  <2>3. CASE Finish(c, "uniqueViolation") /\ UNCHANGED bundles
    <3>1. BundleStep  BY <2>3 DEF BundleStep
    <3>. QED BY <1>1, <1>2, <2>2, <2>3, <3>1, GotoFinish, MovesOK
  <2>4. ASSUME ~Taken(at[c], slug), NEW b \in Bundles,
               InsertBundle(b, at[c], slug, req[c].title), Finish(c, "ok")
        PROVE  StepOK(c)
    <3>1. Inserted(b, at[c], slug, req[c].title)  BY <1>3, <2>1, <2>4 DEF Inserted
    <3>2. BundleStep  BY <3>1 DEF BundleStep
    <3>. QED BY <1>1, <1>2, <2>2, <2>4, <3>2, GotoFinish, MovesOK
  <2>. QED BY <1>4, <2>3, <2>4 DEF Insert
<1>5. CASE UpdateMetadata(c)
  <2>1. pc[c] = "updateMetadata" /\ found' \in [Clients -> SUBSET Bundles]
    BY <1>5 DEF UpdateMetadata, IInv, TypeOK
  <2>2. at[c] \in Bundles  BY <2>1 DEF IInv, ClientOK, Placed
  <2>3. BundleStep
    <3>1. CASE Live(at[c])
      <4>1. Retitled(at[c], req[c].title)  BY <1>5, <3>1 DEF UpdateMetadata, Retitled
      <4>. QED BY <1>3, <2>2, <4>1 DEF BundleStep, Request
    <3>2. CASE ~Live(at[c])  BY <1>5, <3>2 DEF UpdateMetadata, BundleStep
    <3>. QED BY <3>1, <3>2
  <2>4. CASE Finish(c, "ok")
    BY <1>1, <1>2, <2>1, <2>3, <2>4, GotoFinish, MovesOK
  <2>5. CASE Finish(c, "notFound")
    BY <1>1, <1>2, <2>1, <2>3, <2>5, GotoFinish, MovesOK
  <2>. QED BY <1>5, <2>4, <2>5 DEF UpdateMetadata
<1>6. CASE DeleteSubtree(c)
  <2>1. pc[c] = "deleteSubtree" /\ Goto(c, "deleteConcepts")
        /\ found' = [found EXCEPT ![c] = SubtreeOf(at[c])]
    BY <1>6 DEF DeleteSubtree
  <2>2. at[c] \in Bundles /\ req[c].kind = "delete" /\ left[c] = <<>> /\ Rooted(c)
        /\ ~Refused(req[c])
    BY <2>1 DEF IInv, ClientOK, Placed
  <2>3. SubtreeOf(at[c]) \subseteq Bundles  BY <2>2, SubtreeFacts DEF IInv
  <2>4. found' \in [Clients -> SUBSET Bundles]  BY <2>1, <2>3 DEF IInv, TypeOK
  <2>5. ASSUME bundles[at[c]].parent = Null, bundles[at[c]].slug = Global PROVE FALSE
    <3>1. Canonical[Head(req[c].path)] = Global /\ Tail(req[c].path) = <<>>
          /\ req[c].path # <<>>
      BY <2>2, <2>5 DEF Rooted
    <3>2. req[c].path \in Seq(Spellings)  BY <1>3 DEF Request
    <3>3. Len(req[c].path) = 1 /\ Head(req[c].path) = req[c].path[1]  BY <3>1, <3>2, OneName
    <3>. QED BY <2>2, <3>1, <3>3 DEF Refused, IsGlobal
  <2>6. Felled(at[c])  BY <1>6, <2>5 DEF DeleteSubtree, Felled
  <2>7. BundleStep  BY <2>2, <2>6 DEF BundleStep
  <2>. QED BY <1>1, <1>2, <2>1, <2>4, <2>7, GotoFinish, MovesOK
<1>. QED BY <1>4, <1>5, <1>6

-----------------------------------------------------------------------------
(* Theorems.                                                               *)

LEMMA InitOK ==
  Init => IInv
BY ConstantsAssumption
   DEF Init, IInv, TypeOK, SiblingsUnique, Live, ClientOK, Ensured, Placed, Steps, Statuses

\* Every step is one the lemmas above speak of.
LEMMA NextOK ==
  ASSUME IInv, [Next]_vars
  PROVE  IInv' /\ BundleStep
<1>1. ASSUME NEW c \in Clients, StepOK(c) PROVE IInv' /\ BundleStep
  <2>1. TypeOK'  BY <1>1, BundlesType DEF StepOK, LocalTypes, TypeOK, IInv
  <2>2. SiblingsUnique'  BY <1>1, SiblingsStep DEF StepOK, IInv
  <2>3. ASSUME NEW d \in Clients PROVE ClientOK(d)' /\ Ensured(d)'
    <3>1. CASE d = c  BY <1>1, <3>1 DEF StepOK
    <3>2. CASE d # c  BY <1>1, <3>2, OthersOK DEF StepOK, Frame
    <3>. QED BY <3>1, <3>2
  <2>. QED BY <1>1, <2>1, <2>2, <2>3 DEF IInv, StepOK
<1>2. CASE UNCHANGED vars
  <2>1. BundleStep  BY <1>2 DEF vars, BundleStep
  <2>2. TypeOK' /\ SiblingsUnique'
    BY <1>2 DEF vars, IInv, TypeOK, SiblingsUnique, Live
  <2>3. \A c \in Clients : ClientOK(c)' /\ Ensured(c)'
    BY <1>2, <2>1, OthersOK DEF vars
  <2>. QED BY <2>1, <2>2, <2>3 DEF IInv
<1>3. ASSUME NEW c \in Clients, NEW r \in Menu[c], Begin(c, r) PROVE IInv' /\ BundleStep
  BY <1>1, <1>3, BeginOK
<1>4. ASSUME NEW c \in Clients, Step(c) \/ Abort(c) PROVE IInv' /\ BundleStep
  <2>1. CASE Standing(c)  BY <1>1, <2>1, StandingOK
  <2>2. CASE EnsureFind(c) \/ EnsureInsert(c)  BY <1>1, <2>2, EnsureOK
  <2>3. CASE RootFind(c) \/ Walk(c) \/ Mkdir(c)  BY <1>1, <2>3, WalkOK
  <2>4. CASE Insert(c) \/ UpdateMetadata(c) \/ DeleteSubtree(c)  BY <1>1, <2>4, WriteOK
  <2>. QED BY <1>4, <2>1, <2>2, <2>3, <2>4 DEF Step, Standing
<1>. QED BY <1>2, <1>3, <1>4 DEF Next

LEMMA Invariant == Spec => []IInv
<1>1. IInv /\ [Next]_vars => IInv'  BY NextOK
<1>. QED BY InitOK, <1>1, PTL DEF Spec

\* Tables and local variables keep their types.
THEOREM TreeTypeCorrect == Spec => []TypeOK
<1>1. IInv => TypeOK  BY DEF IInv
<1>. QED BY Invariant, <1>1, PTL

\* No race of creates, directory insertions and ensureGlobal gives two live siblings one
\* slug.
THEOREM SlugsUniqueAmongSiblings == Spec => []SiblingsUnique
<1>1. IInv => SiblingsUnique  BY DEF IInv
<1>. QED BY Invariant, <1>1, PTL

\* A request that touches the reserved bundle finds it in place when it is answered.
THEOREM GlobalThere == Spec => []GlobalEnsured
<1>1. IInv => GlobalEnsured
  BY DEF IInv, GlobalEnsured, Ensured, NeedsGlobal
<1>. QED BY Invariant, <1>1, PTL

\* Nothing replaces, renames or deletes the reserved root bundle.
THEOREM GlobalKept == Spec => GlobalStays
<1>1. IInv /\ [Next]_vars =>
        [Children(Null, Global) # {} => Children(Null, Global)' = Children(Null, Global)]_vars
  BY NextOK, GlobalStep DEF IInv
<1>. QED BY Invariant, <1>1, PTL DEF Spec, GlobalStays

\* A deleted bundle is never written again.
THEOREM DeletedForGood == Spec => DeletedBundleFrozen
<1>1. IInv /\ [Next]_vars =>
        [\A b \in Bundles : bundles[b] # Null /\ bundles[b].deleted
                            => bundles'[b] = bundles[b]]_vars
  BY NextOK, RowsStayStep DEF IInv, RowsStay
<1>. QED BY Invariant, <1>1, PTL DEF Spec, DeletedBundleFrozen

\* A delete takes every live bundle below the ones it deletes.
THEOREM SubtreeTaken == Spec => DeleteTakesSubtree
<1>1. IInv /\ [Next]_vars =>
        [\A b \in Bundles : Live(b) /\ bundles[b].parent # Null
                            /\ Live(bundles[b].parent) /\ ~Live(bundles[b].parent)'
                            => ~Live(b)']_vars
  BY NextOK, TakesSubtreeStep DEF IInv
<1>. QED BY Invariant, <1>1, PTL DEF Spec, DeleteTakesSubtree

=============================================================================
