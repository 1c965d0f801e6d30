---------------------------- MODULE BundleTree ----------------------------
(***************************************************************************)
(* The tree of bundles and the concepts in it, as BundleService drives it  *)
(* through BundleRepository and ConceptRepository.                         *)
(*                                                                         *)
(* A path is resolved by one query per segment, each looking only at the   *)
(* children of the bundle the one before it returned; a missing segment is *)
(* inserted on the way when a concept is created.  A delete soft-deletes   *)
(* the subtree in one statement and its concepts in another.  Nothing is   *)
(* locked in between and any number of clients run at once, so one action  *)
(* below is one statement with the code up to the next await.              *)
(***************************************************************************)
EXTENDS Naturals, Sequences, FiniteSets

CONSTANTS
  Clients,     \* concurrent requests' issuers
  Bundles,     \* uuids of bundle rows
  Concepts,    \* uuids of concept rows
  Spellings,   \* slugs as callers write them
  Canonical,   \* canonicalRoot: trim and lowercase a spelling
  Valid,       \* the canonical slugs SLUG_RE accepts
  Global,      \* the reserved slug "global"
  Names,       \* concept slugs
  Titles,      \* bundle titles
  Null,
  Menu,        \* the requests each client may issue
  MaxRequests  \* bound: requests issued in one behaviour

Slugs == {Canonical[s] : s \in Spellings}

Kinds == {"list", "create", "update", "delete", "look", "addConcept"}
Request == [kind : Kinds, path : Seq(Spellings), slug : Spellings, name : Names,
            title : Titles]
Bundle == [parent : Bundles \cup {Null}, slug : Slugs, title : Titles \cup {Null},
           deleted : BOOLEAN]
Concept == [home : Bundles, name : Names, deleted : BOOLEAN]

ASSUME ConstantsAssumption ==
  /\ IsFiniteSet(Bundles)
  /\ Global \in Spellings /\ Canonical[Global] = Global
  /\ DOMAIN Canonical = Spellings
  /\ Valid \subseteq Slugs /\ Global \in Valid
  /\ Null \notin Bundles \cup Concepts \cup Titles \cup Bundle \cup Concept
  /\ Menu \in [Clients -> SUBSET Request]
  /\ MaxRequests \in Nat

VARIABLES
  bundles,    \* table bundles: id -> row, Null while the id is unused
  concepts,   \* table concepts: id -> row, Null while the id is unused
  pc,         \* client -> the statement it executes next
  req,        \* client -> the request it is serving or served last
  at,         \* client -> the bundle its walk has reached
  left,       \* client -> the segments it has still to resolve
  found,      \* client -> the bundle ids its last subtree statement returned
  answer,     \* client -> the outcome of its last request
  issued      \* number of requests issued so far

tables == <<bundles, concepts>>
vars == <<bundles, concepts, pc, req, at, left, found, answer, issued>>

Statuses == {"none", "ok", "notFound", "conflict", "invalid", "uniqueViolation", "aborted"}
Steps == {"idle", "ensureFind", "ensureInsert", "listRoots", "rootFind", "walk", "mkdir",
          "siblingFind", "insert", "updateMetadata", "deleteSubtree", "deleteConcepts",
          "look", "conceptFind", "conceptInsert"}

-----------------------------------------------------------------------------
(* The tables.                                                             *)

\* The WHERE clause deleted_at IS NULL.
LiveAnyway(b) == bundles[b] # Null  \* mutant: the clause is left out
Live(b) == bundles[b] # Null /\ ~bundles[b].deleted

LiveConcept(k) == concepts[k] # Null /\ ~concepts[k].deleted

Children(parent, slug) ==
  {b \in Bundles : Live(b) /\ bundles[b].parent = parent /\ bundles[b].slug = slug}

SubtreeShallow(root) ==  \* mutant: the recursive part of the query goes one level deep
  {b \in Bundles : Live(b) /\ (b = root \/ bundles[b].parent = root)}
SubtreeNamesakes(root) ==  \* mutant: the query starts from a slug, not from an id
  {b \in Bundles : Live(b) /\ bundles[b].slug = bundles[root].slug}
SubtreeSlugs(root) ==  \* mutant: the query returns another column
  {bundles[b].slug : b \in {root}}
\* The subtree query: a live bundle, its live children, their live children, ...; the
\* recursive query returns the least set closed under that.
SubtreeOf(root) ==
  LET closed == {S \in SUBSET Bundles :
                   /\ Live(root) => root \in S
                   /\ \A b \in Bundles : Live(b) /\ bundles[b].parent \in S => b \in S}
  IN {b \in Bundles : \A S \in closed : b \in S}

ConceptsIn(homes) == {k \in Concepts : LiveConcept(k) /\ concepts[k].home \in homes}

\* The unique indexes on live rows: bundles_{root,child}_slug_active_uq and
\* concepts_bundle_slug_active_uq.
TakenNever(parent, slug) == FALSE  \* mutant: there is no such index
Taken(parent, slug) == Children(parent, slug) # {}
ConceptTaken(home, name) == \E k \in ConceptsIn({home}) : concepts[k].name = name

InsertBundle(b, parent, slug, title) ==
  /\ bundles[b] = Null
  /\ bundles' = [bundles EXCEPT ![b] =
                   [parent |-> parent, slug |-> slug, title |-> title, deleted |-> FALSE]]

-----------------------------------------------------------------------------
(* Moving through a request.                                               *)

IsGlobalUncased(s) == s = Global  \* mutant: the spelling is not canonicalised
IsGlobal(s) == Canonical[s] = Global

\* The one delete that is refused.
Refused(r) == r.kind = "delete" /\ Len(r.path) = 1 /\ IsGlobal(r.path[1])

\* Creating the reserved bundle only makes sure it is there.
OnlyEnsures(r) == r.kind = "list" \/ (r.kind = "create" /\ r.path = <<>> /\ IsGlobal(r.slug))

FirstStep(r) ==
  IF OnlyEnsures(r) THEN "ensureFind"
  ELSE IF r.path = <<>> THEN "siblingFind"
  ELSE IF Canonical[Head(r.path)] = Global THEN "ensureFind"
  ELSE "rootFind"

\* The statement that follows a resolved path.
Target == [create |-> "siblingFind", update |-> "updateMetadata", delete |-> "deleteSubtree",
           look |-> "look", addConcept |-> "conceptFind"]

Goto(c, step) == pc' = [pc EXCEPT ![c] = step] /\ UNCHANGED answer

Finish(c, status) == /\ pc' = [pc EXCEPT ![c] = "idle"]
                     /\ answer' = [answer EXCEPT ![c] = status]

\* The walk of c has reached b and has the segments `rest` to go.
Reach(c, b, rest) ==
  /\ at' = [at EXCEPT ![c] = b]
  /\ left' = [left EXCEPT ![c] = rest]
  /\ Goto(c, IF rest = <<>> THEN Target[req[c].kind] ELSE "walk")

-----------------------------------------------------------------------------
Init ==
  /\ bundles = [b \in Bundles |-> Null]
  /\ concepts = [k \in Concepts |-> Null]
  /\ pc = [c \in Clients |-> "idle"]
  /\ req = [c \in Clients |-> Null]
  /\ at = [c \in Clients |-> Null]
  /\ left = [c \in Clients |-> <<>>]
  /\ found = [c \in Clients |-> {}]
  /\ answer = [c \in Clients |-> "none"]
  /\ issued = 0

\* A create checks its slug, and a delete its path, before the first statement; an
\* empty path resolves to nothing.
Begin(c, r) ==
  /\ pc[c] = "idle"
  /\ issued < MaxRequests
  /\ issued' = issued + 1
  /\ req' = [req EXCEPT ![c] = r]
  /\ at' = [at EXCEPT ![c] = Null]
  /\ left' = [left EXCEPT ![c] = r.path]
  /\ found' = [found EXCEPT ![c] = {}]
  /\ LET invalid == \/ Refused(r)
                    \/ r.kind = "create" /\ ~OnlyEnsures(r) /\ Canonical[r.slug] \notin Valid
         nowhere == r.path = <<>> /\ r.kind \notin {"list", "create"} IN
       /\ pc' = [pc EXCEPT ![c] = IF invalid \/ nowhere THEN "idle" ELSE FirstStep(r)]
       /\ answer' = [answer EXCEPT ![c] = IF invalid THEN "invalid"
                                          ELSE IF nowhere THEN "notFound" ELSE "none"]
  /\ UNCHANGED tables

(* ensureGlobal: look the reserved bundle up, insert it when it is missing. *)

AfterEnsure(c) == IF req[c].kind = "list" THEN Goto(c, "listRoots")
                  ELSE IF OnlyEnsures(req[c]) THEN Finish(c, "ok")
                  ELSE Goto(c, "rootFind")

EnsureFindOnly(c) ==  \* mutant: the missing bundle is not inserted
  /\ pc[c] = "ensureFind"
  /\ AfterEnsure(c)
  /\ UNCHANGED <<req, at, left, found, issued, tables>>
EnsureFind(c) ==
  /\ pc[c] = "ensureFind"
  /\ IF Taken(Null, Global) THEN AfterEnsure(c) ELSE Goto(c, "ensureInsert")
  /\ UNCHANGED <<req, at, left, found, issued, tables>>

EnsureInsert(c) ==
  /\ pc[c] = "ensureInsert"
  /\ \/ /\ Taken(Null, Global)
        /\ Finish(c, "uniqueViolation")
        /\ UNCHANGED bundles
     \/ /\ ~Taken(Null, Global)
        /\ \E b \in Bundles : InsertBundle(b, Null, Global, Null)
        /\ AfterEnsure(c)
  /\ UNCHANGED <<req, at, left, found, issued, concepts>>

ListRoots(c) ==
  /\ pc[c] = "listRoots"
  /\ Finish(c, "ok")
  /\ UNCHANGED <<req, at, left, found, issued, tables>>

(* resolve and resolveOrCreateChild: one query per segment.                *)

RootFind(c) ==
  /\ pc[c] = "rootFind"
  /\ LET roots == Children(Null, Canonical[Head(left[c])]) IN
       \/ /\ roots = {}
          /\ Finish(c, "notFound")
          /\ UNCHANGED <<at, left>>
       \/ \E b \in roots : Reach(c, b, Tail(left[c]))
  /\ UNCHANGED <<req, found, issued, tables>>

Walk(c) ==
  /\ pc[c] = "walk"
  /\ LET slug == Canonical[Head(left[c])]
         next == Children(at[c], slug)
         creating == req[c].kind = "addConcept" IN
       \/ /\ creating /\ slug \notin Valid
          /\ Finish(c, "invalid")
          /\ UNCHANGED <<at, left>>
       \/ /\ creating => slug \in Valid
          /\ next = {}
          /\ IF creating THEN Goto(c, "mkdir") ELSE Finish(c, "notFound")
          /\ UNCHANGED <<at, left>>
       \/ /\ creating => slug \in Valid
          /\ \E b \in next : Reach(c, b, Tail(left[c]))
  /\ UNCHANGED <<req, found, issued, tables>>

Mkdir(c) ==
  /\ pc[c] = "mkdir"
  /\ LET slug == Canonical[Head(left[c])] IN
       \/ /\ Taken(at[c], slug)
          /\ Finish(c, "uniqueViolation")
          /\ UNCHANGED <<at, left, bundles>>
       \/ /\ ~Taken(at[c], slug)
          /\ \E b \in Bundles : /\ InsertBundle(b, at[c], slug, Null)
                                /\ Reach(c, b, Tail(left[c]))
  /\ UNCHANGED <<req, found, issued, concepts>>

(* create, update and delete of a bundle, once its path is resolved.       *)

SiblingFind(c) ==
  /\ pc[c] = "siblingFind"
  /\ IF Taken(at[c], Canonical[req[c].slug]) THEN Finish(c, "conflict") ELSE Goto(c, "insert")
  /\ UNCHANGED <<req, at, left, found, issued, tables>>

Insert(c) ==
  /\ pc[c] = "insert"
  /\ LET slug == Canonical[req[c].slug] IN
       \/ /\ Taken(at[c], slug)
          /\ Finish(c, "uniqueViolation")
          /\ UNCHANGED bundles
       \/ /\ ~Taken(at[c], slug)
          /\ \E b \in Bundles : InsertBundle(b, at[c], slug, req[c].title)
          /\ Finish(c, "ok")
  /\ UNCHANGED <<req, at, left, found, issued, concepts>>

UpdateMetadata(c) ==
  /\ pc[c] = "updateMetadata"
  /\ IF Live(at[c])
     THEN /\ bundles' = [bundles EXCEPT ![at[c]].title = req[c].title]
          /\ Finish(c, "ok")
     ELSE /\ Finish(c, "notFound")
          /\ UNCHANGED bundles
  /\ UNCHANGED <<req, at, left, found, issued, concepts>>

\* softDeleteSubtree returns the ids it has deleted, none when the bundle is gone.
DeleteSubtree(c) ==
  LET gone == SubtreeOf(at[c]) IN
  /\ pc[c] = "deleteSubtree"
  /\ found' = [found EXCEPT ![c] = gone]
  /\ bundles' = [b \in Bundles |->
                   IF b \in gone THEN [bundles[b] EXCEPT !.deleted = TRUE] ELSE bundles[b]]
  /\ Goto(c, "deleteConcepts")
  /\ UNCHANGED <<req, at, left, issued, concepts>>

\* softDeleteByBundles of those ids.
DeleteConcepts(c) ==
  /\ pc[c] = "deleteConcepts"
  /\ concepts' = [k \in Concepts |->
                    IF k \in ConceptsIn(found[c]) THEN [concepts[k] EXCEPT !.deleted = TRUE]
                    ELSE concepts[k]]
  /\ Finish(c, "ok")
  /\ UNCHANGED <<req, at, left, found, issued, bundles>>

\* The read-only statements of index, log and concept reads.
Look(c) ==
  /\ pc[c] = "look"
  /\ Finish(c, "ok")
  /\ UNCHANGED <<req, at, left, found, issued, tables>>

(* create of a concept, once its directory is there.                       *)

ConceptFind(c) ==
  /\ pc[c] = "conceptFind"
  /\ IF ConceptTaken(at[c], req[c].name) THEN Finish(c, "conflict") ELSE Goto(c, "conceptInsert")
  /\ UNCHANGED <<req, at, left, found, issued, tables>>

ConceptInsert(c) ==
  /\ pc[c] = "conceptInsert"
  /\ \/ /\ ConceptTaken(at[c], req[c].name)
        /\ Finish(c, "uniqueViolation")
        /\ UNCHANGED concepts
     \/ /\ ~ConceptTaken(at[c], req[c].name)
        /\ \E k \in Concepts :
             /\ concepts[k] = Null
             /\ concepts' = [concepts EXCEPT ![k] =
                               [home |-> at[c], name |-> req[c].name, deleted |-> FALSE]]
        /\ Finish(c, "ok")
  /\ UNCHANGED <<req, at, left, found, issued, bundles>>

\* The process dies, or its connection is lost, between two statements.
Abort(c) ==
  /\ pc[c] # "idle"
  /\ Finish(c, "aborted")
  /\ UNCHANGED <<req, at, left, found, issued, tables>>

Step(c) ==
  \/ EnsureFind(c)   \/ EnsureInsert(c)  \/ ListRoots(c)      \/ RootFind(c)
  \/ Walk(c)         \/ Mkdir(c)         \/ SiblingFind(c)    \/ Insert(c)
  \/ UpdateMetadata(c) \/ DeleteSubtree(c) \/ DeleteConcepts(c) \/ Look(c)
  \/ ConceptFind(c) \/ ConceptInsert(c)

Next == \E c \in Clients : \/ \E r \in Menu[c] : Begin(c, r)
                           \/ Step(c)
                           \/ Abort(c)

Spec == Init /\ [][Next]_vars

-----------------------------------------------------------------------------
(* Properties.                                                             *)

TypeOK ==
  /\ bundles \in [Bundles -> Bundle \cup {Null}]
  /\ concepts \in [Concepts -> Concept \cup {Null}]
  /\ pc \in [Clients -> Steps]
  /\ req \in [Clients -> Request \cup {Null}]
  /\ at \in [Clients -> Bundles \cup {Null}]
  /\ left \in [Clients -> Seq(Spellings)]
  /\ found \in [Clients -> SUBSET Bundles]
  /\ answer \in [Clients -> Statuses]
  /\ issued \in Nat

\* Two live bundles with one parent, or two live roots, never share a slug, whatever
\* creates, directory insertions and ensureGlobal calls race each other.
SiblingsUnique ==
  \A a, b \in Bundles : Live(a) /\ Live(b) /\ bundles[a].parent = bundles[b].parent
                        /\ bundles[a].slug = bundles[b].slug => a = b

\* Once it exists, the reserved root bundle stays, under any spelling of its slug.
GlobalStays ==
  [][Children(Null, Global) # {} => Children(Null, Global)' = Children(Null, Global)]_vars

\* A deleted bundle is never changed or brought back, by an update that resolved it
\* before the deletion included.
DeletedBundleFrozen ==
  [][\A b \in Bundles : bundles[b] # Null /\ bundles[b].deleted
                        => bundles'[b] = bundles[b]]_vars

\* The directories above a live bundle are live or were deleted while it was being
\* inserted: no delete leaves a live bundle below the ones it deletes.
DeleteTakesSubtree ==
  [][\A b \in Bundles : Live(b) /\ bundles[b].parent # Null
                        /\ Live(bundles[b].parent) /\ ~Live(bundles[b].parent)'
                        => ~Live(b)']_vars

\* A request that has to make sure the reserved bundle exists finds it in place when
\* it is answered, also when it lost the race to insert it ("Idempotent and safe to
\* call on any code path that may touch global").
GlobalEnsured ==
  \A c \in Clients :
    /\ req[c] # Null /\ answer[c] \notin {"none", "invalid", "aborted"}
    /\ OnlyEnsures(req[c]) \/ (req[c].path # <<>> /\ IsGlobal(Head(req[c].path)))
    => Taken(Null, Global)

\* "Soft-deletes a bundle subtree (by path) and all concepts within it": when nobody
\* is at work, every live concept is in a live bundle.
NoOrphans ==
  (\A c \in Clients : pc[c] = "idle") =>
    \A k \in Concepts : LiveConcept(k) => Live(concepts[k].home)

-----------------------------------------------------------------------------
(* What the tree promises to callers that address it by path.              *)

\* The ways down from a root, by live bundles only.
IsWay(w) == \A i \in DOMAIN w : /\ Live(w[i])
                                /\ bundles[w[i]].parent = IF i = 1 THEN Null ELSE w[i - 1]
LiveBundles == {b \in Bundles : Live(b)}
Ways == {w \in UNION {[1..n -> LiveBundles] : n \in 1..Cardinality(LiveBundles)} : IsWay(w)}
PathOf(w) == [i \in DOMAIN w |-> bundles[w[i]].slug]

Namespace ==
  INSTANCE PathNamespace WITH
    dirs <- {PathOf(w) : w \in Ways},
    docs <- UNION {{<<PathOf(w), concepts[k].name>> : k \in ConceptsIn({w[Len(w)]})} : w \in Ways}

\* Seen through paths every operation is atomic, under any interleaving and with
\* requests aborted anywhere: in particular a directory disappears with everything
\* in it, and nothing half-deleted or inserted too late can be reached again.
ImplementsNamespace == Namespace!Spec
=============================================================================
