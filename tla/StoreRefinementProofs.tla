----------------------- MODULE StoreRefinementProofs -----------------------
(***************************************************************************)
(* Further proofs about ConceptStore, from the invariant IInv: what a      *)
(* tracked read answers, what a store whose updates do not overlap keeps,  *)
(* and that the store implements VersionedMap.                             *)
(***************************************************************************)
EXTENDS ConceptStoreProofs

-----------------------------------------------------------------------------
(* What a step of one client does to the others and to the rows.           *)

\* A step of c changes nothing that belongs to another client.
LEMMA Frame ==
  ASSUME TypeOK, NEW c \in Clients, (\E r \in Menu[c] : Begin(c, r)) \/ Step(c) \/ Abort(c)
  PROVE  Others(c) /\ \A d \in Clients \ {c} : answer'[d] = answer[d]
<1> DEFINE Framed == Others(c) /\ \A d \in Clients \ {c} : answer'[d] = answer[d]
<1>1. ASSUME NEW r \in Menu[c], Begin(c, r)
      PROVE  Framed
  BY <1>1 DEF TypeOK, Begin, Others
<1>2. CASE Abort(c)
  BY <1>2 DEF TypeOK, Abort, Finish, Others
<1>3. CASE CreateLookup(c) \/ Insert(c) \/ ImportLookup(c) \/ Save(c) \/ SoftDelete(c)
  BY <1>3 DEF TypeOK, CreateLookup, Insert, ImportLookup, Save, SoftDelete, Goto, Finish,
              Others, tables
<1>4. CASE UpsertLookup(c) \/ MergeLookup(c) \/ Parse(c)
  BY <1>4 DEF TypeOK, UpsertLookup, MergeLookup, Parse, MergeInto, Goto, Finish, Others
<1>5. CASE UpdateLookup(c) \/ DeleteLookup(c) \/ ReadLookup(c) \/ HistoryLookup(c)
             \/ VersionLookup(c)
  BY <1>5 DEF TypeOK, UpdateLookup, DeleteLookup, ReadLookup, HistoryLookup, VersionLookup,
              Find, Remember, Goto, Finish, Others
<1>6. CASE Increment(c) \/ ListVersions(c) \/ FindVersion(c)
  BY <1>6 DEF TypeOK, Increment, ListVersions, FindVersion, Finish, Others
<1> QED
  BY <1>1, <1>2, <1>3, <1>4, <1>5, <1>6 DEF Step

\* A row stays where it is, its read count never falls, and it is not undeleted.
LEMMA RowForward ==
  ASSUME IInv, IInv', [Next]_vars, NEW id \in Ids, rows[id] # Null
  PROVE  /\ rows'[id] # Null /\ rows'[id] \in Row /\ rows[id] \in Row
         /\ rows'[id].path = rows[id].path
         /\ rows[id].reads <= rows'[id].reads
         /\ rows[id].deleted => rows'[id].deleted
<1> DEFINE Forward == /\ rows'[id] \in Row
                      /\ rows'[id].path = rows[id].path
                      /\ rows[id].reads <= rows'[id].reads
                      /\ rows[id].deleted => rows'[id].deleted
<1>1. rows[id] \in Row /\ rows[id].reads \in Nat
  BY DEF IInv, TypeOK, Row
<1>2. CASE rows'[id] = rows[id]
  BY <1>1, <1>2
<1>3. ASSUME NEW old \in Row, NEW content \in Content,
             rows'[id] = Overwrite(rows[id], old, content)
      PROVE  Forward
  <2>1. rows'[id] \in Row
    BY <1>1, <1>3, OverwriteType
  <2> QED
    BY <1>1, <1>3, <2>1 DEF Overwrite, Row
<1>4. ASSUME rows'[id] = [rows[id] EXCEPT !.deleted = TRUE]
      PROVE  Forward
  <2>1. [rows[id] EXCEPT !.deleted = TRUE] \in Row
    BY <1>1 DEF Row
  <2> QED
    BY <1>1, <1>4, <2>1 DEF Row
<1>5. ASSUME rows'[id] = Counted(rows[id])
      PROVE  Forward
  <2>1. Counted(rows[id]) \in Row
    BY <1>1, CountedType
  <2> QED
    BY <1>1, <1>5, <2>1 DEF Counted, Row
<1>6. Forward
  BY <1>2, <1>3, <1>4, <1>5, RowEffect
<1> QED
  BY <1>1, <1>6, ConstantsAssumption

-----------------------------------------------------------------------------
(* What a tracked read answers.                                            *)

\* A tracked read holds a count that its row has reached since; once it is answered,
\* the count is above the one held unless the row is deleted.
ReadOK(c) ==
  req[c] # Null /\ req[c].kind = "get" =>
    /\ pc[c] \in {"idle", "readLookup", "increment"}
    /\ pc[c] # "idle" => answer[c].status # "ok"
    /\ pc[c] = "increment" => seen[c].reads <= rows[seenId[c]].reads
    /\ answer[c].status = "ok" =>
         /\ seenId[c] \in Ids /\ rows[seenId[c]] # Null
         /\ answer[c].reads > seen[c].reads \/ rows[seenId[c]].deleted

ReadsOK == \A c \in Clients : ReadOK(c)

\* The other clients' steps keep it: rows only move forward.
LEMMA ReadKept ==
  ASSUME IInv, IInv', [Next]_vars, NEW d \in Clients, ReadOK(d),
         pc'[d] = pc[d], req'[d] = req[d], seenId'[d] = seenId[d], seen'[d] = seen[d],
         answer'[d] = answer[d]
  PROVE  ReadOK(d)'
<1> SUFFICES ASSUME req[d] # Null, req[d].kind = "get"
             PROVE  /\ pc[d] = "increment" => seen[d].reads <= rows'[seenId[d]].reads
                    /\ answer[d].status = "ok" =>
                         /\ seenId[d] \in Ids /\ rows'[seenId[d]] # Null
                         /\ answer[d].reads > seen[d].reads \/ rows'[seenId[d]].deleted
  BY DEF ReadOK
<1>1. ASSUME pc[d] = "increment"
      PROVE  seen[d].reads <= rows'[seenId[d]].reads
  <2>1. /\ seenId[d] \in Ids /\ rows[seenId[d]] # Null
        /\ seen[d].reads \in Nat
    BY <1>1, HeldRow DEF HoldsRow, Row
  <2>2. seen[d].reads <= rows[seenId[d]].reads
    BY <1>1 DEF ReadOK
  <2>3. /\ rows[seenId[d]].reads <= rows'[seenId[d]].reads
        /\ rows[seenId[d]].reads \in Nat /\ rows'[seenId[d]].reads \in Nat
    BY <2>1, RowForward DEF Row
  <2> QED
    BY <2>1, <2>2, <2>3
<1>2. ASSUME answer[d].status = "ok"
      PROVE  /\ seenId[d] \in Ids /\ rows'[seenId[d]] # Null
             /\ answer[d].reads > seen[d].reads \/ rows'[seenId[d]].deleted
  BY <1>2, RowForward DEF ReadOK
<1> QED
  BY <1>1, <1>2

\* Its own increment answers with a count one above the row's.
LEMMA ReadAnswered ==
  ASSUME IInv, IInv', NEW c \in Clients, ReadOK(c), Increment(c)
  PROVE  ReadOK(c)'
<1> DEFINE id == seenId[c]
<1> SUFFICES ASSUME req[c] # Null, req[c].kind = "get"
             PROVE  ReadOK(c)'
  BY DEF Increment, ReadOK
<1>1. /\ id \in Ids /\ seen[c] \in Row /\ rows[id] \in Row /\ rows[id] # Null
      /\ seen[c].reads \in Nat /\ rows[id].reads \in Nat
  BY HeldRow DEF Increment, HoldsRow, Row
<1>2. /\ pc'[c] = "idle" /\ req'[c] = req[c] /\ seenId'[c] = id /\ seen'[c] = seen[c]
  BY DEF Increment, Finish, IInv, TypeOK
<1>3. seen[c].reads <= rows[id].reads
  BY DEF ReadOK, Increment
<1>4. CASE Live(id)
  <2>1. /\ rows'[id] = Counted(rows[id])
        /\ answer'[c] = Reply(c, Counted(rows[id]).content, Counted(rows[id]).reads)
    BY <1>1, <1>4 DEF Increment, Finish, IInv, TypeOK
  <2>2. Counted(rows[id]).reads = rows[id].reads + 1 /\ Counted(rows[id]) # Null
    BY <1>1, CountedType, ConstantsAssumption DEF Counted, Row
  <2>3. answer'[c].status = "ok" => answer'[c].reads = rows[id].reads + 1
    BY <2>1, <2>2 DEF Reply, Failed
  <2> QED
    BY <1>1, <1>2, <1>3, <2>1, <2>2, <2>3 DEF ReadOK
<1>5. CASE ~Live(id)
  <2>1. rows'[id] = rows[id] /\ rows[id].deleted
    BY <1>1, <1>5 DEF Increment, Live
  <2> QED
    BY <1>1, <1>2, <2>1 DEF ReadOK
<1> QED
  BY <1>4, <1>5

\* A client's own steps keep it.
LEMMA OwnRead ==
  ASSUME IInv, IInv', NEW c \in Clients, ReadOK(c),
         (\E r \in Menu[c] : Begin(c, r)) \/ Step(c) \/ Abort(c)
  PROVE  ReadOK(c)'
<1>1. ASSUME NEW r \in Menu[c], Begin(c, r)
      PROVE  ReadOK(c)'
  <2>1. /\ pc'[c] = FirstStep[r.kind] /\ req'[c] = r
        /\ answer'[c] = Failed("none")
    BY <1>1 DEF Begin, IInv, TypeOK
  <2>2. r.kind = "get" => FirstStep[r.kind] = "readLookup"
    BY MenuType DEF FirstStep, Kinds
  <2> QED
    BY <2>1, <2>2 DEF ReadOK, Failed
<1>2. CASE Abort(c)
  <2>1. pc'[c] = "idle" /\ req'[c] = req[c] /\ answer'[c] = Failed("aborted")
    BY <1>2 DEF Abort, Finish, IInv, TypeOK
  <2> QED
    BY <2>1 DEF ReadOK, Failed
<1>3. ASSUME ReadLookup(c), req[c].kind # "get"
      PROVE  ReadOK(c)'
  BY <1>3 DEF ReadLookup, ReadOK
<1>4. ASSUME ReadLookup(c), req[c].kind = "get"
      PROVE  ReadOK(c)'
  <2>1. req[c] # Null /\ Find(c, "increment") /\ pc[c] = "readLookup"
    BY <1>4 DEF ReadLookup, IInv, ClientsOK, RequestOK
  <2>2. CASE LiveAt(req[c].path) = {} /\ Finish(c, Failed("notFound"))
    <3>1. pc'[c] = "idle" /\ answer'[c] = Failed("notFound")
      BY <2>2 DEF Finish, IInv, TypeOK
    <3> QED
      BY <3>1 DEF ReadOK, Failed
  <2>3. ASSUME NEW id \in LiveAt(req[c].path), Remember(c, id), Goto(c, "increment"),
               UNCHANGED tables
        PROVE  ReadOK(c)'
    <3>1. id \in Ids /\ rows[id] \in Row /\ rows[id] # Null /\ rows[id].reads \in Nat
      BY <2>3, LiveAtType DEF IInv, Row
    <3>2. /\ pc'[c] = "increment" /\ seenId'[c] = id /\ seen'[c] = rows[id]
          /\ rows' = rows /\ answer' = answer
      BY <2>3 DEF Remember, Goto, IInv, TypeOK, tables
    <3>3. answer[c].status # "ok"
      BY <1>4, <2>1 DEF ReadOK
    <3> QED
      BY <3>1, <3>2, <3>3 DEF ReadOK
  <2> QED
    BY <2>1, <2>2, <2>3 DEF Find
<1>5. CASE Increment(c)
  BY <1>5, ReadAnswered
<1>6. CASE Step(c) /\ pc[c] \notin {"readLookup", "increment"}
  <2>1. pc[c] # "idle" /\ req'[c] = req[c]
    BY <1>6 DEF Step, CreateLookup, Insert, UpsertLookup, MergeLookup, MergeInto,
           ImportLookup, Parse, UpdateLookup, Save, DeleteLookup, SoftDelete, Find,
           HistoryLookup, ListVersions, VersionLookup, FindVersion, ReadLookup, Increment
  <2> QED
    BY <1>6, <2>1 DEF ReadOK
<1>7. Step(c) /\ pc[c] \in {"readLookup", "increment"} => ReadLookup(c) \/ Increment(c)
  BY DEF Step, CreateLookup, Insert, UpsertLookup, MergeLookup, ImportLookup, Parse,
         UpdateLookup, Save, DeleteLookup, SoftDelete, HistoryLookup, ListVersions,
         VersionLookup, FindVersion
<1> QED
  BY <1>1, <1>2, <1>3, <1>4, <1>5, <1>6, <1>7

LEMMA ReadsStep ==
  ASSUME IInv, IInv', [Next]_vars, ReadsOK
  PROVE  ReadsOK'
<1>1. CASE UNCHANGED vars
  BY <1>1 DEF vars, ReadsOK, ReadOK
<1>2. ASSUME NEW c \in Clients, (\E r \in Menu[c] : Begin(c, r)) \/ Step(c) \/ Abort(c)
      PROVE  ReadsOK'
  <2>1. ASSUME NEW d \in Clients \ {c}
        PROVE  ReadOK(d)'
    BY <1>2, <2>1, Frame, ReadKept DEF ReadsOK, IInv, Others
  <2>2. ReadOK(c)'
    BY <1>2, OwnRead DEF ReadsOK
  <2> QED
    BY <2>1, <2>2 DEF ReadsOK
<1> QED
  BY <1>1, <1>2 DEF Next

\* A tracked read's answer counts itself, unless its concept was deleted under it.
THEOREM ReadsCountThemselves == Spec => []TrackedReadCounted
<1>1. Init => ReadsOK
  BY DEF Init, ReadsOK, ReadOK
<1>2. ReadsOK => TrackedReadCounted
  BY DEF ReadsOK, ReadOK, TrackedReadCounted
<1>3. IInv /\ IInv' /\ ReadsOK /\ [Next]_vars => ReadsOK'
  BY ReadsStep
<1> QED
  BY <1>1, <1>2, <1>3, Invariance, PTL DEF Spec

-----------------------------------------------------------------------------
(* The refinement: the rows that are live, as a map from paths.            *)

Versioned == [content : Content, version : Nat, reads : Nat, archive : Seq(Snapshot),
              past : SUBSET Snapshot]

\* No document is Null.
LEMMA DocumentNotNull ==
  ASSUME NEW d \in Versioned
  PROVE  d # Null
BY DocumentAssumption DEF Versioned

\* Documents are equal when their fields are.
LEMMA SameDocument ==
  ASSUME NEW d \in Versioned, NEW e \in Versioned, d.content = e.content,
         d.version = e.version, d.reads = e.reads, d.archive = e.archive, d.past = e.past
  PROVE  d = e
BY DEF Versioned

\* The fields of a document after it is overwritten.
LEMMA OverwrittenFields ==
  ASSUME NEW d \in Versioned, NEW content \in Content, NEW s \in Snapshot,
         s.version + 1 \in Nat, [version |-> s.version + 1, content |-> content] \in Snapshot
  PROVE  /\ Map!Overwritten(d, content, s) \in Versioned
         /\ Map!Overwritten(d, content, s).content = content
         /\ Map!Overwritten(d, content, s).version = s.version + 1
         /\ Map!Overwritten(d, content, s).reads = d.reads
         /\ Map!Overwritten(d, content, s).archive = Append(d.archive, s)
         /\ Map!Overwritten(d, content, s).past =
              d.past \cup {[version |-> s.version + 1, content |-> content]}
<1> DEFINE log == Append(d.archive, s)
           past == d.past \cup {[version |-> s.version + 1, content |-> content]}
           number == s.version + 1
<1>1. log \in Seq(Snapshot) /\ past \in SUBSET Snapshot /\ number \in Nat
  BY DEF Versioned
<1>2. Map!Overwritten(d, content, s) =
        [d EXCEPT !.content = content, !.version = number, !.archive = log, !.past = past]
  BY Zenon DEF Map!Overwritten
<1> HIDE DEF log, past, number
<1>3. ASSUME NEW e, e = [d EXCEPT !.content = content, !.version = number, !.archive = log,
                                 !.past = past]
      PROVE  /\ e \in Versioned /\ e.content = content /\ e.version = number
             /\ e.reads = d.reads /\ e.archive = log /\ e.past = past
  BY <1>1, <1>3 DEF Versioned
<1> QED
  BY <1>2, <1>3, Zenon DEF log, past, number

\* A path without a live row has no document; a live row is its path's document.
MapOK ==
  /\ \A p \in Paths : LiveAt(p) = {} => Documents[p] = Null
  /\ \A id \in Ids : Live(id) => /\ rows[id].path \in Paths
                                 /\ Documents[rows[id].path] = Document(id)
                                 /\ Document(id) \in Versioned

\* Slugs are unique among live rows, so the choice a document is defined by is none.
LEMMA MapSound == IInv => MapOK
<1> SUFFICES ASSUME IInv PROVE MapOK
  OBVIOUS
<1>1. \A p \in Paths : LiveAt(p) = {} => Documents[p] = Null
  BY DEF Documents
<1>2. ASSUME NEW id \in Ids, Live(id)
      PROVE  /\ rows[id].path \in Paths
             /\ Documents[rows[id].path] = Document(id)
             /\ Document(id) \in Versioned
  <2>1. PICK p \in Paths : p = rows[id].path
    BY <1>2 DEF IInv, TypeOK, Live, Row
  <2>2. id \in LiveAt(p) /\ \A j \in LiveAt(p) : j = id
    BY <1>2, <2>1 DEF LiveAt, Live, IInv, TablesOK, ActiveSlugUnique
  <2>3. (CHOOSE j \in LiveAt(p) : TRUE) = id
    BY <2>2
  <2>4. /\ rows[id].content \in Content /\ rows[id].version \in Nat
        /\ rows[id].reads \in Nat /\ snapshots[id] \in Seq(Snapshot)
        /\ held[id] \in SUBSET Snapshot
    BY <1>2 DEF IInv, TypeOK, Live, Row
  <2> QED
    BY <2>1, <2>2, <2>3, <2>4 DEF Documents, Document, Versioned
<1> QED
  BY <1>1, <1>2 DEF MapOK

\* The step leaves the rows other than id and their history alone.
OnlyRow(id) == \A j \in Ids \ {id} :
  rows'[j] = rows[j] /\ snapshots'[j] = snapshots[j] /\ held'[j] = held[j]

\* Where id is live neither before nor after, the document is what it was.
LEMMA PathKept ==
  ASSUME MapOK, MapOK', NEW id \in Ids, OnlyRow(id), NEW p \in Paths,
         id \notin LiveAt(p), id \notin LiveAt(p)'
  PROVE  Documents'[p] = Documents[p]
<1>1. CASE LiveAt(p) = {}
  <2>1. LiveAt(p)' = {}
    BY <1>1 DEF LiveAt, OnlyRow
  <2> QED
    BY <1>1, <2>1 DEF MapOK
<1>2. ASSUME NEW j \in LiveAt(p)
      PROVE  Documents'[p] = Documents[p]
  <2>1. /\ j \in Ids \ {id} /\ Live(j) /\ rows[j].path = p
        /\ rows'[j] = rows[j] /\ snapshots'[j] = snapshots[j] /\ held'[j] = held[j]
    BY DEF LiveAt, Live, OnlyRow
  <2>2. Live(j)' /\ rows'[j].path = p
    BY <2>1 DEF Live
  <2>3. Documents[p] = Document(j) /\ Documents'[p] = Document(j)'
    BY <2>1, <2>2 DEF MapOK
  <2> QED
    BY <2>1, <2>3 DEF Document
<1> QED
  BY <1>1, <1>2

\* Documents are told apart path by path.
LEMMA MapKept ==
  ASSUME \A p \in Paths : Documents'[p] = Documents[p]
  PROVE  UNCHANGED Documents
<1>1. Documents = [p \in Paths |-> Documents[p]] /\ Documents' = [p \in Paths |-> Documents'[p]]
  BY DEF Documents
<1>2. [p \in Paths |-> Documents'[p]] = [p \in Paths |-> Documents[p]]
  OBVIOUS
<1> QED
  BY <1>1, <1>2

LEMMA MapChanged ==
  ASSUME NEW p \in Paths, \A q \in Paths \ {p} : Documents'[q] = Documents[q]
  PROVE  Documents' = [Documents EXCEPT ![p] = Documents'[p]]
<1>1. Documents = [q \in Paths |-> Documents[q]] /\ Documents' = [q \in Paths |-> Documents'[q]]
  BY DEF Documents
<1> DEFINE new == Documents'
           old == Documents
<1>2. new = [q \in Paths |-> new[q]] /\ old = [q \in Paths |-> old[q]]
      /\ \A q \in Paths \ {p} : new[q] = old[q]
  BY <1>1
<1> HIDE DEF new, old
<1>3. new = [old EXCEPT ![p] = new[p]]
  BY <1>2
<1> QED
  BY <1>3 DEF new, old

\* A step that writes no row that is live, before or after, is no step of the map.
LEMMA HiddenStep ==
  ASSUME MapOK, MapOK', NEW id \in Ids, OnlyRow(id), ~Live(id), ~Live(id)'
  PROVE  UNCHANGED Documents
<1>1. \A p \in Paths : id \notin LiveAt(p) /\ id \notin LiveAt(p)'
  BY DEF LiveAt, Live
<1> QED
  BY <1>1, PathKept, MapKept

\* A step that writes one row replaces at most the document at its path.
LEMMA RowStepMap ==
  ASSUME MapOK, MapOK', NEW id \in Ids, OnlyRow(id), NEW p \in Paths,
         Live(id) => rows[id].path = p, Live(id)' => rows'[id].path = p
  PROVE  Documents' = [Documents EXCEPT ![p] = Documents'[p]]
<1>1. ASSUME NEW q \in Paths \ {p}
      PROVE  id \notin LiveAt(q) /\ id \notin LiveAt(q)'
  BY DEF LiveAt, Live
<1>2. ASSUME NEW q \in Paths \ {p}
      PROVE  Documents'[q] = Documents[q]
  BY <1>1, PathKept
<1> QED
  BY <1>2, MapChanged

\* The row an insert adds.
LEMMA InsertedRow ==
  ASSUME IInv, NEW c \in Clients, pc[c] = "insert"
  PROVE  /\ req[c].path \in Paths
         /\ Normalised(Fresh(req[c].patch)) \in Content
         /\ [path |-> req[c].path, content |-> Normalised(Fresh(req[c].patch)),
             version |-> 1, reads |-> 0, deleted |-> FALSE] \in Row \ {Null}
<1>1. req[c].path \in Paths /\ req[c].patch \in Patch /\ req[c].patch.type # Absent
  BY ServingType DEF IInv, ClientsOK, RequestOK, Request
<1>2. Normalised(Fresh(req[c].patch)) \in Content
  BY <1>1, FreshType, NormalisedType
<1>3. \A p \in Paths, x \in Content :
        [path |-> p, content |-> x, version |-> 1, reads |-> 0, deleted |-> FALSE] \in Row
  BY DEF Row
<1> QED
  BY <1>1, <1>2, <1>3, ConstantsAssumption

\* An insert creates the document at its path.
LEMMA InsertCreates ==
  ASSUME IInv, MapOK, MapOK', NEW c \in Clients, Insert(c)
  PROVE  [Map!RacyNext]_Documents /\ [Map!Next]_Documents
<1> DEFINE content == Normalised(Fresh(req[c].patch))
           p == req[c].path
           new == [path |-> p, content |-> content, version |-> 1,
                   reads |-> 0, deleted |-> FALSE]
<1>1. CASE Taken(p)
  <2>1. rows' = rows /\ snapshots' = snapshots /\ held' = held
    BY <1>1 DEF Insert, tables
  <2>2. UNCHANGED Documents
    BY <2>1 DEF Documents, Document, LiveAt
  <2> QED
    BY <2>2
<1>2. CASE ~Taken(p)
  <2>1. p \in Paths /\ content \in Content
    BY InsertedRow DEF Insert
  <2>2. new # Null
    BY InsertedRow DEF Insert
  <2>3. PICK id \in Ids : /\ rows[id] = Null
                          /\ rows' = [rows EXCEPT ![id] = new]
                          /\ held' = [held EXCEPT ![id] = {[version |-> 1, content |-> content]}]
                          /\ UNCHANGED snapshots
    BY <1>2 DEF Insert
  <2>4. new.path = p /\ new.content = content /\ new.version = 1 /\ new.reads = 0 /\ ~new.deleted
    OBVIOUS
  <2> HIDE DEF new, content, p
  <2>5. /\ rows'[id] = new /\ held'[id] = {[version |-> 1, content |-> content]}
        /\ snapshots'[id] = <<>> /\ OnlyRow(id)
    BY <2>3 DEF IInv, TypeOK, TablesOK, RowOK, OnlyRow
  <2>6. Live(id)' /\ ~Live(id) /\ rows'[id].path = p
    BY <2>2, <2>3, <2>4, <2>5 DEF Live
  <2>7. Documents[p] = Null
    BY <1>2, <2>1 DEF MapOK, Taken, p
  <2>8. Documents'[p] = Map!New(content)
    BY <2>4, <2>5, <2>6 DEF MapOK, Document, Map!New
  <2>9. Map!Create(p, content)
    BY <2>1, <2>5, <2>6, <2>7, <2>8, RowStepMap DEF Map!Create
  <2> QED
    BY <2>1, <2>9 DEF Map!RacyNext, Map!Next, Map!Common
<1> QED
  BY <1>1, <1>2


\* What saving a version over a live row makes of its document.
LEMMA SaveOverwrites ==
  ASSUME IInv, IInv', MapOK, MapOK', NEW c \in Clients, Save(c), Live(seenId[c])
  PROVE  \E p \in Paths, content \in Content :
           /\ Documents[p] = Document(seenId[c]) /\ Documents[p] # Null
           /\ Documents' = [Documents EXCEPT ![p] =
                              Map!Overwritten(Documents[p], content, SnapshotOf(seen[c]))]
<1>1. PICK id \in Ids, old \in Row : /\ id = seenId[c] /\ old = seen[c]
                                    /\ rows[id] \in Row /\ rows[id] # Null
  BY HeldRow DEF Save, HoldsRow
<1>2. PICK content \in Content : content = Normalised(draft[c])
  BY NormalisedType DEF Save, IInv, TypeOK, ClientsOK, RequestOK
<1>3. /\ snapshots' = [snapshots EXCEPT ![id] = Append(@, SnapshotOf(old))]
      /\ rows' = [rows EXCEPT ![id] = Overwrite(@, old, content)]
      /\ held' = [held EXCEPT ![id] =
                    @ \cup {[version |-> old.version + 1, content |-> content]}]
  BY <1>1, <1>2 DEF Save
<1>4. /\ rows'[id] = Overwrite(rows[id], old, content)
      /\ snapshots'[id] = Append(snapshots[id], SnapshotOf(old))
      /\ held'[id] = held[id] \cup {[version |-> old.version + 1, content |-> content]}
      /\ OnlyRow(id)
  BY <1>3 DEF IInv, TypeOK, OnlyRow
<1>5. /\ rows'[id].path = rows[id].path /\ rows'[id].deleted = rows[id].deleted
      /\ rows'[id].version = old.version + 1 /\ rows'[id].content = content
      /\ rows'[id].reads = rows[id].reads
  BY <1>1, <1>4 DEF Overwrite, Row
<1>6. Live(id)'
  <2>1. rows'[id] \in Row
    BY <1>1, <1>2, <1>4, OverwriteType
  <2> QED
    BY <1>1, <1>5, <2>1, ConstantsAssumption DEF Live
<1>7. PICK p \in Paths : p = rows[id].path
  BY <1>1 DEF Row
<1>8. /\ Documents[p] = Document(id) /\ Documents[p] # Null
      /\ Documents'[p] = Document(id)'
  <2>1. Live(id) /\ rows'[id].path = p
    BY <1>1, <1>5, <1>7
  <2>2. Documents[p] = Document(id) /\ Documents[p] # Null
    BY <1>7, <2>1, DocumentNotNull DEF MapOK
  <2>3. Documents'[p] = Document(id)'
    BY <1>6, <2>1 DEF MapOK
  <2> QED
    BY <2>2, <2>3
<1>9. Document(id)' = Map!Overwritten(Document(id), content, SnapshotOf(old))
  <2> DEFINE s == SnapshotOf(old)
  <2>1. s \in Snapshot /\ s.version = old.version /\ s.version + 1 \in Nat \ {0}
    BY <1>1, SnapshotType DEF SnapshotOf, Row
  <2>2. Document(id) \in Versioned /\ Document(id)' \in Versioned
    BY <1>1, <1>6 DEF MapOK
  <2>3. [version |-> s.version + 1, content |-> content] \in Snapshot
    BY <2>1 DEF Snapshot
  <2> HIDE DEF s
  <2>4. /\ Map!Overwritten(Document(id), content, s) \in Versioned
        /\ Map!Overwritten(Document(id), content, s).content = content
        /\ Map!Overwritten(Document(id), content, s).version = s.version + 1
        /\ Map!Overwritten(Document(id), content, s).reads = Document(id).reads
        /\ Map!Overwritten(Document(id), content, s).archive = Append(Document(id).archive, s)
        /\ Map!Overwritten(Document(id), content, s).past =
             Document(id).past \cup {[version |-> s.version + 1, content |-> content]}
    BY <2>1, <2>2, <2>3, OverwrittenFields
  <2>5. /\ Document(id)'.content = content
        /\ Document(id)'.version = s.version + 1
        /\ Document(id)'.reads = Document(id).reads
        /\ Document(id)'.archive = Append(Document(id).archive, s)
        /\ Document(id)'.past =
             Document(id).past \cup {[version |-> s.version + 1, content |-> content]}
    BY <1>4, <1>5, <2>1 DEF Document, s
  <2> QED
    BY <2>2, <2>4, <2>5, SameDocument DEF s
<1>10. Documents' = [Documents EXCEPT ![p] = Documents'[p]]
  BY <1>4, <1>5, <1>7, RowStepMap
<1> QED
  BY <1>1, <1>8, <1>9, <1>10

\* A version saved over a row that was deleted meanwhile is no step of the map.
LEMMA SaveHidden ==
  ASSUME IInv, MapOK, MapOK', NEW c \in Clients, Save(c), ~Live(seenId[c])
  PROVE  UNCHANGED Documents
<1>1. seenId[c] \in Ids
  BY HeldRow DEF Save, HoldsRow
<1>2. OnlyRow(seenId[c]) /\ rows' = rows
  BY <1>1 DEF Save, OnlyRow, IInv, TypeOK
<1> QED
  BY <1>1, <1>2, HiddenStep DEF Live

\* A deletion removes the document, or finds the row deleted already.
LEMMA DeleteRemoves ==
  ASSUME IInv, MapOK, MapOK', NEW c \in Clients, SoftDelete(c)
  PROVE  [Map!RacyNext]_Documents /\ [Map!Next]_Documents
<1>1. PICK id \in Ids : id = seenId[c] /\ rows[id] \in Row /\ rows[id] # Null
  BY HeldRow DEF SoftDelete, HoldsRow
<1>2. rows'[id] = [rows[id] EXCEPT !.deleted = TRUE] /\ OnlyRow(id)
  BY <1>1 DEF SoftDelete, OnlyRow, IInv, TypeOK
<1>3. ~Live(id)'
  BY <1>1, <1>2 DEF Live, Row
<1>4. CASE ~Live(id)
  BY <1>2, <1>3, <1>4, HiddenStep
<1>5. CASE Live(id)
  <2>1. PICK p \in Paths : p = rows[id].path
    BY <1>1 DEF Row
  <2>2. Documents[p] # Null
    BY <1>5, <2>1, DocumentNotNull DEF MapOK
  <2>3. LiveAt(p)' = {}
    <3> SUFFICES ASSUME NEW j \in Ids, Live(j)', rows'[j].path = p
                 PROVE  FALSE
      BY DEF LiveAt, Live
    <3>1. j # id /\ rows'[j] = rows[j]
      BY <1>2, <1>3 DEF OnlyRow
    <3> QED
      BY <1>5, <2>1, <3>1 DEF IInv, TablesOK, ActiveSlugUnique, Live
  <2>4. Documents'[p] = Null
    BY <2>3 DEF MapOK
  <2>5. Map!Remove(p)
    BY <1>2, <1>3, <2>1, <2>2, <2>4, RowStepMap DEF Map!Remove
  <2> QED
    BY <2>1, <2>5 DEF Map!RacyNext, Map!Next, Map!Common
<1> QED
  BY <1>4, <1>5

\* A counted read touches the document, or finds the row deleted.
LEMMA IncrementTouches ==
  ASSUME IInv, MapOK, MapOK', NEW c \in Clients, Increment(c)
  PROVE  [Map!RacyNext]_Documents /\ [Map!Next]_Documents
<1>1. PICK id \in Ids : id = seenId[c] /\ rows[id] \in Row /\ rows[id] # Null
  BY HeldRow DEF Increment, HoldsRow
<1>2. OnlyRow(id) /\ snapshots' = snapshots /\ held' = held
  BY <1>1 DEF Increment, OnlyRow, IInv, TypeOK
<1>3. CASE ~Live(id)
  <2>1. rows' = rows
    BY <1>1, <1>3 DEF Increment
  <2> QED
    BY <1>2, <1>3, <2>1, HiddenStep DEF Live
<1>4. CASE Live(id)
  <2>1. rows'[id] = Counted(rows[id])
    BY <1>1, <1>4 DEF Increment, IInv, TypeOK
  <2>2. /\ rows'[id].path = rows[id].path /\ rows'[id].deleted = rows[id].deleted
        /\ rows'[id].version = rows[id].version /\ rows'[id].content = rows[id].content
        /\ rows'[id].reads = rows[id].reads + 1
    BY <1>1, <2>1 DEF Counted, Row
  <2>3. Live(id)'
    <3>1. rows'[id] \in Row
      BY <1>1, <2>1, CountedType
    <3> QED
      BY <1>4, <2>2, <3>1, ConstantsAssumption DEF Live
  <2>4. PICK p \in Paths : p = rows[id].path
    BY <1>1 DEF Row
  <2>5. /\ Documents[p] = Document(id) /\ Documents[p] # Null
        /\ Documents'[p] = Document(id)'
    BY <1>4, <2>2, <2>3, <2>4, DocumentNotNull DEF MapOK
  <2>6. Document(id)' = [Document(id) EXCEPT !.reads = @ + 1]
    BY <1>2, <2>2 DEF Document
  <2>7. Documents' = [Documents EXCEPT ![p] = Documents'[p]]
    BY <1>2, <2>2, <2>4, RowStepMap
  <2>8. Map!Touch(p)
    BY <2>5, <2>6, <2>7 DEF Map!Touch, Documents
  <2> QED
    BY <2>4, <2>8 DEF Map!RacyNext, Map!Next, Map!Common
<1> QED
  BY <1>3, <1>4

\* The other steps leave the tables alone, and so the map.
LEMMA QuietMap ==
  ASSUME UNCHANGED tables
  PROVE  UNCHANGED Documents
BY DEF tables, Documents, Document, LiveAt

\* Which steps write a table.
LEMMA Writers ==
  ASSUME [Next]_vars
  PROVE  \/ UNCHANGED tables
         \/ \E c \in Clients : Insert(c) \/ Save(c) \/ SoftDelete(c) \/ Increment(c)
BY DEF Next, Step, vars, tables, Begin, Abort, CreateLookup, UpsertLookup, MergeLookup,
       MergeInto, ImportLookup, Parse, UpdateLookup, DeleteLookup, Find, ReadLookup,
       HistoryLookup, ListVersions, VersionLookup, FindVersion

LEMMA RacyStep ==
  ASSUME IInv, IInv', MapOK, MapOK', [Next]_vars
  PROVE  [Map!RacyNext]_Documents
<1>1. ASSUME NEW c \in Clients, Save(c), Live(seenId[c])
      PROVE  [Map!RacyNext]_Documents
  <2>1. PICK p \in Paths, content \in Content :
           /\ Documents[p] = Document(seenId[c]) /\ Documents[p] # Null
           /\ Documents' = [Documents EXCEPT ![p] =
                              Map!Overwritten(Documents[p], content, SnapshotOf(seen[c]))]
    BY <1>1, SaveOverwrites
  <2>2. SnapshotOf(seen[c]) \in Documents[p].past
    BY <1>1, <2>1 DEF Document, Save, IInv, ClientsOK, LocalOK, HoldsRow
  <2>3. Map!RacyWrite(p, content)
    BY <2>1, <2>2 DEF Map!RacyWrite
  <2> QED
    BY <2>3 DEF Map!RacyNext
<1>2. ASSUME NEW c \in Clients, Save(c), ~Live(seenId[c])
      PROVE  [Map!RacyNext]_Documents
  BY <1>2, SaveHidden
<1> QED
  BY <1>1, <1>2, Writers, QuietMap, InsertCreates, DeleteRemoves, IncrementTouches

\* At first no path has a document.
LEMMA MapInit == Init => Map!Init
<1> SUFFICES ASSUME Init PROVE Documents = [p \in Paths |-> Null]
  BY DEF Map!Init
<1>1. \A p \in Paths : LiveAt(p) = {}
  BY DEF Init, LiveAt
<1> QED
  BY <1>1 DEF Documents

\* Under any interleaving the store is a map whose writes archive a state the document
\* has had and number the new one after it.
THEOREM StoreImplementsRacyMap == Spec => ImplementsRacyMap
<1>1. IInv /\ IInv' /\ MapOK /\ MapOK' /\ [Next]_vars => [Map!RacyNext]_Documents
  BY RacyStep
<1> QED
  BY <1>1, MapInit, MapSound, Invariance, PTL DEF Spec, ImplementsRacyMap, Map!RacySpec


-----------------------------------------------------------------------------
(* A store whose updates do not overlap.  Several clients may issue every  *)
(* other request at the same time, updates come from one of them.          *)

Updates == {"upsert", "put", "batchPut", "replace", "import"}
Merges == {"upsert", "put", "batchPut"}
Creates == {"create", "batchCreate", "createMarkdown"}

\* Only w updates concepts; the others may create, delete and read them.
SoleUpdater(w) == \A c \in Clients \ {w} : \A r \in Menu[c] : r.kind \notin Updates

\* Only w creates or updates concepts; the others may delete and read them.
SoleWriter(w) == \A c \in Clients \ {w} : \A r \in Menu[c] : r.kind \notin Updates \cup Creates

\* The steps that belong to updates, and those that may.
UpdateSteps == {"upsertLookup", "mergeLookup", "importLookup", "parse", "updateLookup", "save"}
CreateSteps == {"createLookup", "insert"}

\* A client is at a step of the kind of request it serves.
StageOK(c) ==
  /\ pc[c] \in UpdateSteps => req[c].kind \in Updates
  /\ pc[c] \in CreateSteps => req[c].kind \in Updates \cup Creates
  /\ pc[c] = "parse" => req[c].kind \notin Merges

StagesOK == \A c \in Clients : StageOK(c)

\* How each step moves on.
LEMMA Moves ==
  ASSUME TypeOK, NEW c \in Clients, Step(c)
  PROVE  /\ req'[c] = req[c]
         /\ pc'[c] \in UpdateSteps => pc[c] \in UpdateSteps
         /\ pc'[c] \in CreateSteps => pc[c] \in CreateSteps \cup UpdateSteps
         /\ pc'[c] = "parse" => pc[c] = "importLookup"
<1> DEFINE Moved == /\ req'[c] = req[c]
                    /\ pc'[c] \in UpdateSteps => pc[c] \in UpdateSteps
                    /\ pc'[c] \in CreateSteps => pc[c] \in CreateSteps \cup UpdateSteps
                    /\ pc'[c] = "parse" => pc[c] = "importLookup"
<1> USE DEF UpdateSteps, CreateSteps
<1>1. ASSUME UNCHANGED req, pc' = [pc EXCEPT ![c] = "idle"]
      PROVE  Moved
  BY <1>1 DEF TypeOK
<1>2. ASSUME UNCHANGED req, pc' = [pc EXCEPT ![c] = "updateLookup"], pc[c] \in UpdateSteps
      PROVE  Moved
  BY <1>2 DEF TypeOK
<1>3. CASE CreateLookup(c)
  BY <1>3 DEF TypeOK, CreateLookup, Goto, Finish
<1>4. CASE Insert(c) \/ Save(c) \/ SoftDelete(c) \/ Increment(c) \/ ListVersions(c)
             \/ FindVersion(c)
  BY <1>1, <1>4 DEF Insert, Save, SoftDelete, Increment, ListVersions, FindVersion, Finish
<1>5. CASE UpsertLookup(c) \/ MergeLookup(c) \/ Parse(c)
  BY <1>5 DEF TypeOK, UpsertLookup, MergeLookup, Parse, MergeInto, Goto, Finish
<1>6. CASE ImportLookup(c)
  BY <1>6 DEF TypeOK, ImportLookup, Goto
<1>7. CASE UpdateLookup(c)
  BY <1>7 DEF TypeOK, UpdateLookup, Remember, Goto, Finish
<1>8. CASE DeleteLookup(c) \/ ReadLookup(c) \/ HistoryLookup(c) \/ VersionLookup(c)
  BY <1>8 DEF TypeOK, DeleteLookup, ReadLookup, HistoryLookup, VersionLookup, Find,
              Remember, Goto, Finish
<1> QED
  BY <1>3, <1>4, <1>5, <1>6, <1>7, <1>8 DEF Step

LEMMA StagesStep ==
  ASSUME IInv, [Next]_vars, StagesOK
  PROVE  StagesOK'
<1>1. CASE UNCHANGED vars
  BY <1>1 DEF vars, StagesOK, StageOK
<1>2. ASSUME NEW c \in Clients, (\E r \in Menu[c] : Begin(c, r)) \/ Step(c) \/ Abort(c)
      PROVE  StagesOK'
  <2>1. ASSUME NEW d \in Clients \ {c}
        PROVE  StageOK(d)'
    BY <1>2, Frame DEF StagesOK, StageOK, IInv, Others
  <2>2. ASSUME NEW r \in Menu[c], Begin(c, r)
        PROVE  StageOK(c)'
    <3>1. pc'[c] = FirstStep[r.kind] /\ req'[c] = r
      BY <2>2 DEF Begin, IInv, TypeOK
    <3>2. /\ FirstStep[r.kind] \in UpdateSteps => r.kind \in Updates
          /\ FirstStep[r.kind] \in CreateSteps => r.kind \in Creates
          /\ FirstStep[r.kind] = "parse" => r.kind \notin Merges
      BY MenuType DEF FirstStep, Kinds, UpdateSteps, CreateSteps, Updates, Creates, Merges
    <3> QED
      BY <3>1, <3>2 DEF StageOK
  <2>3. ASSUME Abort(c)
        PROVE  StageOK(c)'
    <3>1. pc'[c] = "idle"
      BY <2>3 DEF Abort, Finish, IInv, TypeOK
    <3> QED
      BY <3>1 DEF StageOK, UpdateSteps, CreateSteps
  <2>4. ASSUME Step(c)
        PROVE  StageOK(c)'
    <3>1. pc[c] = "importLookup" => req[c].kind = "import"
      BY DEF IInv, ClientsOK, RequestOK
    <3> QED
      BY <2>4, <3>1, Moves DEF StagesOK, StageOK, IInv, Merges
  <2>5. StageOK(c)'
    BY <1>2, <2>2, <2>3, <2>4
  <2> QED
    BY <2>1, <2>5 DEF StagesOK
<1> QED
  BY <1>1, <1>2 DEF Next

\* The client that is about to save is the sole updater.
LEMMA SaverIs ==
  ASSUME IInv, StagesOK, NEW w \in Clients, SoleUpdater(w), NEW c \in Clients,
         pc[c] \in {"updateLookup", "save"}
  PROVE  c = w
BY DEF IInv, ClientsOK, RequestOK, StagesOK, StageOK, UpdateSteps, SoleUpdater

\* A step other than Save leaves the history, and the content and version of what is
\* there; only Insert makes a row live.
LEMMA NoSave ==
  ASSUME IInv, [Next]_vars, \A c \in Clients : ~Save(c)
  PROVE  /\ snapshots' = snapshots
         /\ \A id \in Ids :
              rows[id] # Null => /\ SnapshotOf(rows'[id]) = SnapshotOf(rows[id])
                                 /\ rows'[id].path = rows[id].path
                                 /\ held'[id] = held[id]
                                 /\ Live(id)' => Live(id)
<1> DEFINE Still(id) == /\ SnapshotOf(rows'[id]) = SnapshotOf(rows[id])
                        /\ rows'[id].path = rows[id].path
                        /\ held'[id] = held[id]
                        /\ Live(id)' => Live(id)
<1>1. CASE UNCHANGED tables
  BY <1>1 DEF tables, Live
<1>2. ASSUME NEW c \in Clients, Insert(c)
      PROVE  /\ snapshots' = snapshots
             /\ \A id \in Ids : rows[id] # Null => Still(id)
  BY <1>2 DEF Insert, tables, Live, IInv, TypeOK
<1>3. ASSUME NEW c \in Clients, SoftDelete(c)
      PROVE  /\ snapshots' = snapshots
             /\ \A id \in Ids : rows[id] # Null => Still(id)
  <2>1. PICK id \in Ids : id = seenId[c] /\ rows[id] \in Row /\ rows[id] # Null
    BY <1>3, HeldRow DEF SoftDelete, HoldsRow
  <2>2. /\ rows'[id] = [rows[id] EXCEPT !.deleted = TRUE] /\ held' = held
        /\ snapshots' = snapshots /\ \A j \in Ids \ {id} : rows'[j] = rows[j]
    BY <1>3, <2>1 DEF SoftDelete, IInv, TypeOK
  <2>3. Still(id)
    BY <2>1, <2>2 DEF SnapshotOf, Row, Live
  <2> QED
    BY <2>2, <2>3 DEF Live
<1>4. ASSUME NEW c \in Clients, Increment(c)
      PROVE  /\ snapshots' = snapshots
             /\ \A id \in Ids : rows[id] # Null => Still(id)
  <2>1. PICK id \in Ids : id = seenId[c] /\ rows[id] \in Row /\ rows[id] # Null
    BY <1>4, HeldRow DEF Increment, HoldsRow
  <2>2. /\ rows'[id] \in {rows[id], Counted(rows[id])} /\ held' = held
        /\ snapshots' = snapshots /\ \A j \in Ids \ {id} : rows'[j] = rows[j]
    BY <1>4, <2>1 DEF Increment, IInv, TypeOK
  <2>3. Still(id)
    BY <2>1, <2>2 DEF SnapshotOf, Row, Live, Counted
  <2> QED
    BY <2>2, <2>3 DEF Live
<1> QED
  BY <1>1, <1>2, <1>3, <1>4, Writers


\* Only UpdateLookup leads to Save.
LEMMA OnlyLookupSaves ==
  ASSUME TypeOK, NEW c \in Clients, (\E r \in Menu[c] : Begin(c, r)) \/ Step(c) \/ Abort(c),
         pc'[c] = "save"
  PROVE  UpdateLookup(c)
<1>1. ASSUME NEW r \in Menu[c], Begin(c, r)
      PROVE  FALSE
  BY <1>1, MenuType DEF TypeOK, Begin, FirstStep, Kinds
<1>2. ASSUME pc' = [pc EXCEPT ![c] = "idle"]
      PROVE  FALSE
  BY <1>2 DEF TypeOK
<1>3. CASE Insert(c) \/ Save(c) \/ SoftDelete(c) \/ Increment(c) \/ ListVersions(c)
             \/ FindVersion(c) \/ Abort(c)
  BY <1>2, <1>3 DEF Insert, Save, SoftDelete, Increment, ListVersions, FindVersion, Finish, Abort
<1>4. CASE CreateLookup(c) \/ UpsertLookup(c) \/ MergeLookup(c) \/ Parse(c) \/ ImportLookup(c)
  BY <1>4 DEF TypeOK, CreateLookup, UpsertLookup, MergeLookup, Parse, MergeInto, ImportLookup,
              Goto, Finish
<1>5. CASE DeleteLookup(c) \/ ReadLookup(c) \/ HistoryLookup(c) \/ VersionLookup(c)
  BY <1>5 DEF TypeOK, DeleteLookup, ReadLookup, HistoryLookup, VersionLookup, Find,
              Remember, Goto, Finish
<1> QED
  BY <1>1, <1>3, <1>4, <1>5 DEF Step

\* A row that exists goes on existing.
LEMMA RowExists ==
  ASSUME IInv, [Next]_vars, NEW id \in Ids, rows[id] # Null
  PROVE  rows'[id] # Null
<1>1. rows[id] \in Row
  BY DEF IInv, TypeOK
<1>2. [rows[id] EXCEPT !.deleted = TRUE] \in Row
  BY <1>1 DEF Row
<1>3. rows'[id] \in Row
  BY <1>1, <1>2, RowEffect, OverwriteType, CountedType
<1> QED
  BY <1>3, ConstantsAssumption


\* What a client is about to save over is what it looked up.
CurrentOK(c) ==
  pc[c] = "save" /\ Live(seenId[c]) => SnapshotOf(seen[c]) = SnapshotOf(rows[seenId[c]])

\* A state the row has had is its current one or in the history.
CompleteOK(id) ==
  /\ rows[id] = Null => held[id] = {}
  /\ rows[id] # Null =>
       \A h \in held[id] : \/ h = SnapshotOf(rows[id])
                           \/ \E i \in 1..Len(snapshots[id]) : snapshots[id][i] = h

CurrentsOK == \A c \in Clients : CurrentOK(c)
CompletesOK == \A id \in Ids : CompleteOK(id)

\* What one client looked up is current as long as no other client saves.
LEMMA CurrentStep ==
  ASSUME IInv, [Next]_vars, NEW w \in Clients, SoleUpdater(w), StagesOK, CurrentsOK
  PROVE  CurrentsOK'
<1>1. CASE UNCHANGED vars
  BY <1>1 DEF vars, CurrentsOK, CurrentOK, Live
<1>2. ASSUME NEW c \in Clients, (\E r \in Menu[c] : Begin(c, r)) \/ Step(c) \/ Abort(c)
      PROVE  CurrentsOK'
  <2>1. ASSUME NEW d \in Clients \ {c}
        PROVE  CurrentOK(d)'
    <3> SUFFICES ASSUME pc'[d] = "save", Live(seenId[d])'
                 PROVE  (SnapshotOf(seen[d]) = SnapshotOf(rows[seenId[d]]))'
      BY DEF CurrentOK
    <3>1. pc[d] = "save" /\ seenId'[d] = seenId[d] /\ seen'[d] = seen[d]
      BY <1>2, <2>1, Frame DEF IInv, Others
    <3>2. d = w
      BY <3>1, SaverIs
    <3>3. \A e \in Clients : ~Save(e)
      <4> SUFFICES ASSUME NEW e \in Clients, Save(e) PROVE FALSE
        OBVIOUS
      <4>1. e = w
        BY SaverIs DEF Save
      <4>2. pc'[e] = "idle"
        BY DEF Save, Finish, IInv, TypeOK
      <4> QED
        BY <3>2, <4>1, <4>2
    <3>4. seenId[d] \in Ids /\ rows[seenId[d]] # Null
      BY <3>1, HeldRow DEF HoldsRow
    <3>5. /\ SnapshotOf(rows'[seenId[d]]) = SnapshotOf(rows[seenId[d]])
          /\ Live(seenId[d])
      BY <3>1, <3>3, <3>4, NoSave DEF Live
    <3>6. SnapshotOf(seen[d]) = SnapshotOf(rows[seenId[d]])
      BY <3>1, <3>5 DEF CurrentsOK, CurrentOK
    <3> QED
      BY <3>1, <3>5, <3>6
  <2>2. CurrentOK(c)'
    <3> SUFFICES ASSUME pc'[c] = "save"
                 PROVE  (SnapshotOf(seen[c]) = SnapshotOf(rows[seenId[c]]))'
      BY DEF CurrentOK
    <3>1. UpdateLookup(c)
      BY <1>2, OnlyLookupSaves DEF IInv
    <3>2. PICK id \in LiveAt(req[c].path) : Remember(c, id) /\ UNCHANGED tables
      BY <3>1 DEF UpdateLookup, Finish, IInv, TypeOK
    <3>3. seen'[c] = rows[id] /\ seenId'[c] = id /\ rows' = rows
      BY <3>2 DEF Remember, IInv, TypeOK, tables
    <3> QED
      BY <3>3
  <2> QED
    BY <2>1, <2>2 DEF CurrentsOK
<1> QED
  BY <1>1, <1>2 DEF Next

\* A save puts what it replaces into the history; no other step replaces anything.
LEMMA CompleteStep ==
  ASSUME IInv, [Next]_vars, CurrentsOK, CompletesOK
  PROVE  CompletesOK'
<1>1. ASSUME NEW c \in Clients, Save(c)
      PROVE  CompletesOK'
  <2>1. PICK id \in Ids, old \in Row : /\ id = seenId[c] /\ old = seen[c]
                                      /\ rows[id] \in Row /\ rows[id] # Null
    BY <1>1, HeldRow DEF Save, HoldsRow
  <2>2. snapshots[id] \in Seq(Snapshot) /\ SnapshotOf(old) \in Snapshot
    BY <2>1, SnapshotType DEF IInv, TypeOK
  <2>3. /\ snapshots'[id] = Append(snapshots[id], SnapshotOf(old))
        /\ OnlyRow(id)
    BY <1>1, <2>1 DEF Save, OnlyRow, IInv, TypeOK
  <2>4. \A h : (\/ \E i \in 1..Len(snapshots[id]) : snapshots[id][i] = h
                \/ h = SnapshotOf(old))
                 => \E i \in 1..Len(snapshots'[id]) : snapshots'[id][i] = h
    <3>1. /\ Len(snapshots'[id]) = Len(snapshots[id]) + 1 /\ Len(snapshots[id]) \in Nat
          /\ \A i \in 1..Len(snapshots[id]) : snapshots'[id][i] = snapshots[id][i]
          /\ snapshots'[id][Len(snapshots[id]) + 1] = SnapshotOf(old)
      BY <2>2, <2>3, Appended
    <3>2. \A i \in 1..Len(snapshots[id]) : i \in 1..Len(snapshots'[id])
      BY <3>1
    <3>3. Len(snapshots[id]) + 1 \in 1..Len(snapshots'[id])
      BY <3>1
    <3> QED
      BY <3>1, <3>2, <3>3, Zenon
  <2>5. CompleteOK(id)'
    <3>1. CASE ~Live(id)
      <4>1. rows' = rows /\ held' = held
        BY <1>1, <2>1, <3>1 DEF Save
      <4> QED
        BY <2>1, <2>4, <4>1 DEF CompletesOK, CompleteOK, SnapshotOf
    <3>2. CASE Live(id)
      <4>1. PICK content \in Content : content = Normalised(draft[c])
        BY <1>1, NormalisedType DEF Save, IInv, TypeOK, ClientsOK, RequestOK
      <4>2. /\ rows'[id] = Overwrite(rows[id], old, content)
            /\ held'[id] = held[id] \cup {[version |-> old.version + 1, content |-> content]}
        BY <1>1, <2>1, <3>2, <4>1 DEF Save, IInv, TypeOK
      <4>3. SnapshotOf(rows'[id]) = [version |-> old.version + 1, content |-> content]
        <5>1. rows'[id].version = old.version + 1 /\ rows'[id].content = content
          BY <2>1, <4>2 DEF Overwrite, Row
        <5> QED
          BY <5>1 DEF SnapshotOf
      <4>4. SnapshotOf(old) = SnapshotOf(rows[id])
        BY <1>1, <2>1, <3>2 DEF CurrentsOK, CurrentOK, Save
      <4>5. rows'[id] # Null
        BY <2>1, <4>1, <4>2, OverwriteType, ConstantsAssumption
      <4>6. \A h \in held[id] : \E i \in 1..Len(snapshots'[id]) : snapshots'[id][i] = h
        <5>1. CompleteOK(id)
          BY DEF CompletesOK
        <5> QED
          BY <2>1, <2>4, <4>4, <5>1, Zenon DEF CompleteOK
      <4> QED
        BY <4>2, <4>3, <4>5, <4>6 DEF CompleteOK, SnapshotOf
    <3> QED
      BY <3>1, <3>2
  <2>6. ASSUME NEW j \in Ids \ {id}
        PROVE  CompleteOK(j)'
    BY <2>3 DEF OnlyRow, CompletesOK, CompleteOK, SnapshotOf
  <2> QED
    BY <2>5, <2>6 DEF CompletesOK
<1>2. ASSUME \A c \in Clients : ~Save(c), NEW id \in Ids
      PROVE  CompleteOK(id)'
  <2>1. CASE rows[id] # Null
    <3>1. /\ SnapshotOf(rows'[id]) = SnapshotOf(rows[id]) /\ held'[id] = held[id]
          /\ snapshots'[id] = snapshots[id] /\ rows'[id] # Null
      BY <1>2, <2>1, NoSave, RowExists
    <3>2. CompleteOK(id)
      BY DEF CompletesOK
    <3> QED
      BY <2>1, <3>1, <3>2 DEF CompleteOK
  <2>2. CASE rows[id] = Null /\ rows'[id] = rows[id] /\ held'[id] = held[id]
    BY <2>2 DEF CompletesOK, CompleteOK
  <2>3. ASSUME NEW c \in Clients, Insert(c), rows[id] = Null
        PROVE  CompleteOK(id)' \/ (rows'[id] = rows[id] /\ held'[id] = held[id])
    <3> DEFINE new == [path |-> req[c].path, content |-> Normalised(Fresh(req[c].patch)),
                       version |-> 1, reads |-> 0, deleted |-> FALSE]
    <3>1. SnapshotOf(new) = [version |-> 1, content |-> Normalised(Fresh(req[c].patch))]
      BY DEF SnapshotOf
    <3>2. CASE rows' = rows /\ held' = held
      BY <3>2
    <3>3. ASSUME NEW j \in Ids, rows' = [rows EXCEPT ![j] = new],
                 held' = [held EXCEPT ![j] = {SnapshotOf(new)}]
          PROVE  CompleteOK(id)' \/ (rows'[id] = rows[id] /\ held'[id] = held[id])
      <4>1. new # Null
        BY <2>3, InsertedRow DEF Insert
      <4> HIDE DEF new
      <4>2. \/ rows'[id] = rows[id] /\ held'[id] = held[id]
            \/ rows'[id] = new /\ held'[id] = {SnapshotOf(new)}
        BY <3>3 DEF IInv, TypeOK
      <4> QED
        BY <4>1, <4>2 DEF CompleteOK
    <3> HIDE DEF new
    <3> QED
      BY <2>3, <3>1, <3>2, <3>3 DEF Insert, tables, new
  <2>4. CASE rows[id] = Null /\ \A c \in Clients : ~Insert(c)
    <3>1. rows'[id] = rows[id] /\ held'[id] = held[id]
      BY <1>2, <2>4, Writers, HeldRow
      DEF tables, SoftDelete, Increment, HoldsRow, IInv, TypeOK
    <3> QED
      BY <2>2, <2>4, <3>1
  <2> QED
    BY <2>1, <2>2, <2>3, <2>4
<1> QED
  BY <1>1, <1>2 DEF CompletesOK


SoleInv == StagesOK /\ CurrentsOK /\ CompletesOK

LEMMA SoleInit == Init => SoleInv
<1> SUFFICES ASSUME Init PROVE SoleInv
  OBVIOUS
<1>1. StagesOK /\ CurrentsOK
  BY DEF Init, StagesOK, StageOK, CurrentsOK, CurrentOK, UpdateSteps, CreateSteps
<1>2. CompletesOK
  BY DEF Init, CompletesOK, CompleteOK
<1> QED
  BY <1>1, <1>2 DEF SoleInv

LEMMA SoleInvariance ==
  ASSUME NEW w \in Clients, SoleUpdater(w)
  PROVE  Spec => []SoleInv
<1>1. IInv /\ SoleInv /\ [Next]_vars => SoleInv'
  BY StagesStep, CurrentStep, CompleteStep DEF SoleInv
<1> QED
  BY <1>1, SoleInit, Invariance, PTL DEF Spec

\* While only one client updates, no content a concept has had is ever lost, whatever
\* the others create, delete and read meanwhile.
THEOREM SoleUpdaterLosesNothing ==
  ASSUME NEW w \in Clients, SoleUpdater(w)
  PROVE  Spec => []HistoryComplete
<1>1. SoleInv => HistoryComplete
  BY DEF SoleInv, CompletesOK, CompleteOK, HistoryComplete
<1> QED
  BY <1>1, SoleInvariance, PTL

\* While only one client updates, the store is a map whose writes archive the very state
\* they overwrite, in one step.
THEOREM SoleUpdaterImplementsMap ==
  ASSUME NEW w \in Clients, SoleUpdater(w)
  PROVE  Spec => ImplementsMap
<1>1. ASSUME IInv, IInv', MapOK, MapOK', SoleInv, [Next]_vars
      PROVE  [Map!Next]_Documents
  <2>1. ASSUME NEW c \in Clients, Save(c), Live(seenId[c])
        PROVE  [Map!Next]_Documents
    <3>1. PICK p \in Paths, content \in Content :
             /\ Documents[p] = Document(seenId[c]) /\ Documents[p] # Null
             /\ Documents' = [Documents EXCEPT ![p] =
                                Map!Overwritten(Documents[p], content, SnapshotOf(seen[c]))]
      BY <1>1, <2>1, SaveOverwrites
    <3>2. SnapshotOf(seen[c]) = SnapshotOf(rows[seenId[c]])
      BY <1>1, <2>1 DEF SoleInv, CurrentsOK, CurrentOK, Save
    <3>3. Map!State(Documents[p]) = SnapshotOf(rows[seenId[c]])
      BY <3>1 DEF Map!State, Document, SnapshotOf
    <3>4. Map!Write(p, content)
      BY <3>1, <3>2, <3>3 DEF Map!Write
    <3> QED
      BY <3>4 DEF Map!Next
  <2>2. ASSUME NEW c \in Clients, Save(c), ~Live(seenId[c])
        PROVE  [Map!Next]_Documents
    BY <1>1, <2>2, SaveHidden
  <2> QED
    BY <1>1, <2>1, <2>2, Writers, QuietMap, InsertCreates, DeleteRemoves, IncrementTouches
<1> QED
  BY <1>1, MapInit, MapSound, Invariance, SoleInvariance, PTL
  DEF Spec, ImplementsMap, Map!Spec

-----------------------------------------------------------------------------
(* What a merge writes.                                                    *)

\* A draft merged from the live row at the path is still merged from it.
MergeOK(c) ==
  req[c] # Null /\ req[c].kind \in Merges =>
    /\ pc[c] = "updateLookup" =>
         \A id \in LiveAt(req[c].path) : draft[c] = Merge(rows[id].content, req[c].patch)
    /\ pc[c] = "save" /\ Live(seenId[c]) =>
         draft[c] = Merge(rows[seenId[c]].content, req[c].patch)

MergesOK == \A c \in Clients : MergeOK(c)

\* Steps that write no content and make no row live keep the merges of the others.
LEMMA MergeKept ==
  ASSUME IInv, [Next]_vars, \A e \in Clients : ~Save(e) /\ ~Insert(e),
         NEW d \in Clients, MergeOK(d), pc'[d] = pc[d], req'[d] = req[d],
         draft'[d] = draft[d], seenId'[d] = seenId[d]
  PROVE  MergeOK(d)'
<1>1. \A id \in Ids : rows[id] = Null => rows'[id] = Null
  BY Writers, HeldRow DEF tables, SoftDelete, Increment, HoldsRow, IInv, TypeOK
<1>2. \A id \in Ids : rows[id] # Null => /\ rows'[id].content = rows[id].content
                                         /\ rows'[id].path = rows[id].path
                                         /\ Live(id)' => Live(id)
  BY NoSave DEF SnapshotOf
<1> SUFFICES ASSUME req[d] # Null, req[d].kind \in Merges
             PROVE  /\ pc[d] = "updateLookup" =>
                         \A id \in LiveAt(req[d].path)' :
                           draft[d] = Merge(rows'[id].content, req[d].patch)
                    /\ pc[d] = "save" /\ Live(seenId[d])' =>
                         draft[d] = Merge(rows'[seenId[d]].content, req[d].patch)
  BY DEF MergeOK, LiveAt, Live
<1>3. ASSUME pc[d] = "updateLookup", NEW id \in LiveAt(req[d].path)'
      PROVE  draft[d] = Merge(rows'[id].content, req[d].patch)
  <2>1. id \in Ids /\ rows[id] # Null /\ Live(id)' /\ rows'[id].path = req[d].path
    BY <1>1, <1>3 DEF LiveAt, Live
  <2>2. id \in LiveAt(req[d].path) /\ rows'[id].content = rows[id].content
    BY <1>2, <2>1 DEF LiveAt, Live
  <2> QED
    BY <1>3, <2>2 DEF MergeOK
<1>4. ASSUME pc[d] = "save", Live(seenId[d])'
      PROVE  draft[d] = Merge(rows'[seenId[d]].content, req[d].patch)
  <2>1. seenId[d] \in Ids /\ rows[seenId[d]] # Null
    BY <1>4, HeldRow DEF HoldsRow
  <2> QED
    BY <1>2, <1>4, <2>1 DEF MergeOK
<1> QED
  BY <1>3, <1>4

\* The only client that could write a content or make a row live is the sole writer.
LEMMA WriterIs ==
  ASSUME IInv, StagesOK, NEW w \in Clients, SoleWriter(w), NEW c \in Clients,
         pc[c] \in {"updateLookup", "save", "insert"}
  PROVE  c = w
BY DEF IInv, ClientsOK, RequestOK, StagesOK, StageOK, UpdateSteps, CreateSteps, SoleWriter

\* Only the two merging lookups and Parse lead to UpdateLookup.
LEMMA OnlyMergesDraft ==
  ASSUME TypeOK, NEW c \in Clients, Step(c), pc'[c] = "updateLookup"
  PROVE  UpsertLookup(c) \/ MergeLookup(c) \/ pc[c] = "parse"
<1>1. ASSUME pc' = [pc EXCEPT ![c] = "idle"]
      PROVE  FALSE
  BY <1>1 DEF TypeOK
<1>2. CASE Insert(c) \/ Save(c) \/ SoftDelete(c) \/ Increment(c) \/ ListVersions(c)
             \/ FindVersion(c)
  BY <1>1, <1>2 DEF Insert, Save, SoftDelete, Increment, ListVersions, FindVersion, Finish
<1>3. CASE CreateLookup(c) \/ ImportLookup(c) \/ UpdateLookup(c)
  BY <1>3 DEF TypeOK, CreateLookup, ImportLookup, UpdateLookup, Remember, Goto, Finish
<1>4. CASE DeleteLookup(c) \/ ReadLookup(c) \/ HistoryLookup(c) \/ VersionLookup(c)
  BY <1>4 DEF TypeOK, DeleteLookup, ReadLookup, HistoryLookup, VersionLookup, Find,
              Remember, Goto, Finish
<1> QED
  BY <1>2, <1>3, <1>4 DEF Step, Parse

\* Its own lookups find one live row at most, the one merged into.
LEMMA OwnMerge ==
  ASSUME IInv, StagesOK, NEW c \in Clients, MergeOK(c), Step(c)
  PROVE  MergeOK(c)'
<1> SUFFICES ASSUME req[c] # Null, req[c].kind \in Merges, pc'[c] \in {"updateLookup", "save"}
             PROVE  MergeOK(c)'
  BY Moves DEF MergeOK, IInv
<1>1. pc[c] # "parse"
  BY DEF StagesOK, StageOK
<1>2. ASSUME pc'[c] = "save"
      PROVE  MergeOK(c)'
  <2>1. UpdateLookup(c)
    BY <1>2, OnlyLookupSaves DEF IInv
  <2>2. PICK id \in LiveAt(req[c].path) : Remember(c, id)
    BY <1>2, <2>1 DEF UpdateLookup, Finish, IInv, TypeOK
  <2>3. /\ rows' = rows /\ draft' = draft /\ req' = req /\ seenId'[c] = id
        /\ pc[c] = "updateLookup"
    BY <2>1, <2>2 DEF UpdateLookup, Remember, IInv, TypeOK, tables
  <2>4. draft[c] = Merge(rows[id].content, req[c].patch)
    BY <2>3 DEF MergeOK
  <2> QED
    BY <1>2, <2>3, <2>4 DEF MergeOK
<1>3. ASSUME pc'[c] = "updateLookup"
      PROVE  MergeOK(c)'
  <2>1. UpsertLookup(c) \/ MergeLookup(c)
    BY <1>1, <1>3, OnlyMergesDraft DEF IInv
  <2>2. PICK id \in LiveAt(req[c].path) :
          draft' = [draft EXCEPT ![c] = Drafted(rows[id], req[c].patch)]
    BY <1>3, <2>1 DEF UpsertLookup, MergeLookup, MergeInto, Goto, Finish, IInv, TypeOK
  <2>3. /\ rows' = rows /\ req' = req
        /\ draft'[c] = Merge(rows[id].content, req[c].patch)
    BY <2>1, <2>2 DEF UpsertLookup, MergeLookup, MergeInto, tables, IInv, TypeOK, Drafted
  <2>4. \A j \in LiveAt(req[c].path) : j = id
    BY DEF LiveAt, Live, IInv, TablesOK, ActiveSlugUnique
  <2>5. LiveAt(req[c].path)' = LiveAt(req[c].path)
    BY <2>3 DEF LiveAt
  <2> QED
    BY <1>3, <2>3, <2>4, <2>5 DEF MergeOK
<1> QED
  BY <1>2, <1>3

LEMMA MergesStep ==
  ASSUME IInv, [Next]_vars, NEW w \in Clients, SoleWriter(w), StagesOK, MergesOK
  PROVE  MergesOK'
<1>1. CASE UNCHANGED vars
  BY <1>1 DEF vars, MergesOK, MergeOK, LiveAt, Live
<1>2. ASSUME NEW c \in Clients, (\E r \in Menu[c] : Begin(c, r)) \/ Step(c) \/ Abort(c)
      PROVE  MergesOK'
  <2>1. ASSUME NEW d \in Clients \ {c}
        PROVE  MergeOK(d)'
    <3>1. /\ pc'[d] = pc[d] /\ req'[d] = req[d] /\ draft'[d] = draft[d]
          /\ seenId'[d] = seenId[d] /\ seen'[d] = seen[d]
      BY <1>2, Frame DEF IInv, Others
    <3> SUFFICES ASSUME pc[d] \in {"updateLookup", "save"}
                 PROVE  MergeOK(d)'
      BY <3>1 DEF MergeOK
    <3>2. \A e \in Clients : ~Save(e) /\ ~Insert(e)
      <4> SUFFICES ASSUME NEW e \in Clients, Save(e) \/ Insert(e) PROVE FALSE
        OBVIOUS
      <4>1. e = d
        BY WriterIs DEF Save, Insert
      <4>2. pc'[e] = "idle"
        BY DEF Save, Insert, Finish, IInv, TypeOK
      <4> QED
        BY <3>1, <4>1, <4>2
    <3> QED
      BY <3>1, <3>2, MergeKept DEF MergesOK
  <2>2. ASSUME NEW r \in Menu[c], Begin(c, r)
        PROVE  MergeOK(c)'
    <3>1. pc'[c] \notin {"updateLookup", "save"}
      BY <2>2, MenuType DEF Begin, FirstStep, Kinds, IInv, TypeOK
    <3> QED
      BY <3>1 DEF MergeOK
  <2>3. ASSUME Abort(c)
        PROVE  MergeOK(c)'
    <3>1. pc'[c] = "idle"
      BY <2>3 DEF Abort, Finish, IInv, TypeOK
    <3> QED
      BY <3>1 DEF MergeOK
  <2>4. MergeOK(c)'
    BY <1>2, <2>2, <2>3, OwnMerge DEF MergesOK
  <2> QED
    BY <2>1, <2>4 DEF MergesOK
<1> QED
  BY <1>1, <1>2 DEF Next

\* While only one client creates and updates, what an upsert or PUT writes is merged into
\* the concept as it is when the write happens, however it is deleted and read meanwhile.
THEOREM SoleWriterMergesFresh ==
  ASSUME NEW w \in Clients, SoleWriter(w)
  PROVE  Spec => []MergeIsFresh
<1>1. Init => MergesOK
  BY DEF Init, MergesOK, MergeOK
<1>2. IInv /\ StagesOK /\ MergesOK /\ [Next]_vars => MergesOK'
  BY MergesStep
<1>3. SoleUpdater(w)
  BY DEF SoleWriter, SoleUpdater
<1>4. Spec => []SoleInv
  BY <1>3, SoleInvariance
<1>5. IInv /\ MergesOK => MergeIsFresh
  BY DEF IInv, ClientsOK, RequestOK, MergesOK, MergeOK, MergeIsFresh, Merges
<1>6. SoleInv => StagesOK
  BY DEF SoleInv
<1> QED
  BY <1>1, <1>2, <1>4, <1>5, <1>6, Invariance, PTL DEF Spec

=============================================================================
