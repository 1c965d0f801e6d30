------------------------- MODULE ConceptStoreProofs -------------------------
(***************************************************************************)
(* Proofs about ConceptStore, for any clients, paths, menus and bounds.    *)
(***************************************************************************)
EXTENDS ConceptStore, TLAPS

\* The versions below v can all be read back from the history of id.
Reaches(id, v) ==
  \A w \in 1..(v - 1) : \E i \in 1..Len(snapshots[id]) : snapshots[id][i].version = w

\* The request of c is one c may issue, and the step it is at fits its kind.
RequestOK(c) ==
  /\ req[c] # Null => req[c] \in Menu[c]
  /\ pc[c] # "idle" => req[c] # Null
  /\ pc[c] = "createLookup" => \/ req[c].kind \in MustNameType
                               \/ req[c].kind \in {"createMarkdown", "import"}
  /\ pc[c] = "upsertLookup" => req[c].kind = "upsert"
  /\ pc[c] = "importLookup" => req[c].kind = "import"
  /\ pc[c] = "insert" => req[c].patch.type # Absent
  /\ pc[c] \in {"updateLookup", "save"} => draft[c] # Null

HoldsRow == {"save", "softDelete", "increment", "listVersions", "findVersion"}

\* A row held across an await is one the concept has had, deleted since or not.
LocalOK(c) ==
  pc[c] \in HoldsRow =>
    /\ seenId[c] # Null
    /\ seen[c] # Null
    /\ rows[seenId[c]] # Null
    /\ SnapshotOf(seen[c]) \in held[seenId[c]]
    /\ Reaches(seenId[c], seen[c].version)

\* The history variable and the history cover the row.
RowOK(id) ==
  /\ rows[id] # Null => /\ SnapshotOf(rows[id]) \in held[id]
                        /\ Reaches(id, rows[id].version)
  /\ rows[id] = Null => snapshots[id] = <<>>

TablesOK == /\ \A id \in Ids : RowOK(id)
            /\ SnapshotsAuthentic
            /\ ActiveSlugUnique

ClientsOK == \A c \in Clients : RequestOK(c) /\ LocalOK(c)

IInv == TypeOK /\ ClientsOK /\ TablesOK

-----------------------------------------------------------------------------
(* Facts about the pure functions.                                         *)

\* Normalising a content gives a content.
LEMMA NormalisedType ==
  ASSUME NEW content \in Content
  PROVE  Normalised(content) \in Content
BY ConstantsAssumption DEF Normalised, Content

\* A draft merged from a row and a request's fields is a content.
LEMMA DraftedType ==
  ASSUME NEW row \in Row, NEW patch \in Patch
  PROVE  Drafted(row, patch) \in Content
BY ConstantsAssumption DEF Drafted, Merge, Content, Patch, Row

\* A request that names a type gives a whole content.
LEMMA FreshType ==
  ASSUME NEW patch \in Patch, patch.type # Absent
  PROVE  Fresh(patch) \in Content
BY ConstantsAssumption DEF Fresh, Content, Patch

\* So does a document that names one.
LEMMA ParsedType ==
  ASSUME NEW patch \in Patch, patch.type # Absent
  PROVE  Parsed(patch) \in Content
BY FreshType, ConstantsAssumption DEF Parsed, Content, Patch

\* The snapshot of a row is a snapshot.
LEMMA SnapshotType ==
  ASSUME NEW row \in Row
  PROVE  SnapshotOf(row) \in Snapshot
BY DEF SnapshotOf, Snapshot, Row

\* Overwriting a row with a content gives a row.
LEMMA OverwriteType ==
  ASSUME NEW row \in Row, NEW old \in Row, NEW content \in Content
  PROVE  Overwrite(row, old, content) \in Row
<1>1. old.version + 1 \in Nat \ {0}
  BY DEF Row
<1>2. ASSUME NEW v \in Nat \ {0}
      PROVE  [row EXCEPT !.content = content, !.version = v] \in Row
  BY DEF Row
<1> QED
  BY <1>1, <1>2 DEF Overwrite

\* Counting a read gives a row.
LEMMA CountedType ==
  ASSUME NEW row \in Row
  PROVE  Counted(row) \in Row
BY DEF Counted, Row

\* An answer with a status only.
LEMMA FailedType ==
  ASSUME NEW status \in Statuses
  PROVE  Failed(status) \in Answer
BY DEF Failed, Answer

\* The answer that shows a content.
LEMMA ReplyType ==
  ASSUME NEW c, NEW content \in Content, NEW reads \in Nat
  PROVE  Reply(c, content, reads) \in Answer
BY FailedType DEF Reply, Answer, Statuses

\* A listing of a log is a sequence of its snapshots.
LEMMA ListingType ==
  ASSUME NEW log \in Seq(Snapshot), NEW l \in Listings(log)
  PROVE  l \in Seq(Snapshot)
<1> DEFINE n == Len(log)
<1>1. n \in Nat /\ \A i \in 1..n : log[i] \in Snapshot
  OBVIOUS
<1>2. PICK p \in [1..n -> 1..n] : l = [i \in 1..n |-> log[p[i]]]
  BY DEF Listings
<1>3. l \in [1..n -> Snapshot]
  BY <1>1, <1>2
<1> QED
  BY <1>1, <1>3

-----------------------------------------------------------------------------
(* What a step of one client leaves to the others.                         *)

\* The step changes nothing of the other clients.
Others(c) == \A d \in Clients \ {c} :
  /\ pc'[d] = pc[d]
  /\ req'[d] = req[d]
  /\ draft'[d] = draft[d]
  /\ seenId'[d] = seenId[d]
  /\ seen'[d] = seen[d]

\* The step takes nothing from the tables that a client may be relying on.
Grown == \A id \in Ids : rows[id] # Null =>
  /\ rows'[id] # Null
  /\ held[id] \subseteq held'[id]
  /\ \A v \in Nat : Reaches(id, v) => Reaches(id, v)'

\* What holds of the other clients still holds of them.
LEMMA OthersKept ==
  ASSUME TypeOK, ClientsOK, NEW c \in Clients, Others(c), Grown,
         RequestOK(c)', LocalOK(c)'
  PROVE  ClientsOK'
<1> SUFFICES ASSUME NEW d \in Clients \ {c}
             PROVE  RequestOK(d)' /\ LocalOK(d)'
  BY DEF ClientsOK
<1>1. RequestOK(d) /\ LocalOK(d)
  BY DEF ClientsOK
<1>2. RequestOK(d)'
  BY <1>1 DEF RequestOK, Others
<1>3. ASSUME pc[d] \in HoldsRow
      PROVE  LocalOK(d)'
  <2>1. seenId[d] \in Ids /\ seen[d] \in Row
    BY <1>1, <1>3 DEF LocalOK, TypeOK
  <2>2. seen[d].version \in Nat
    BY <2>1 DEF Row
  <2>3. Reaches(seenId[d], seen[d].version)'
    BY <1>1, <1>3, <2>1, <2>2 DEF LocalOK, Grown, Others
  <2> QED
    BY <1>1, <1>3, <2>1, <2>3 DEF LocalOK, Grown, Others, SnapshotOf
<1> QED
  BY <1>2, <1>3 DEF LocalOK, Others

\* A step that leaves the tables alone keeps all that is said of them.
LEMMA QuietStep ==
  ASSUME IInv, NEW c \in Clients, UNCHANGED tables, Others(c),
         TypeOK', RequestOK(c)', LocalOK(c)'
  PROVE  IInv'
<1>1. Grown
  BY DEF Grown, tables, Reaches
<1>2. TablesOK'
  BY DEF IInv, TablesOK, RowOK, Reaches, SnapshotsAuthentic, ActiveSlugUnique, Live, tables
<1> QED
  BY <1>1, <1>2, OthersKept DEF IInv

-----------------------------------------------------------------------------
(* Steps that leave the tables alone.                                      *)

\* A request of a menu is a request.
LEMMA MenuType ==
  ASSUME NEW c \in Clients, NEW r \in Menu[c]
  PROVE  r \in Request /\ r # Null /\ r.patch \in Patch /\ r.kind \in Kinds
BY ConstantsAssumption DEF Request

LEMMA BeginStep ==
  ASSUME IInv, NEW c \in Clients, NEW r \in Menu[c], Begin(c, r)
  PROVE  IInv'
<1>1. r \in Request /\ r # Null /\ r.kind \in Kinds
  BY MenuType
<1>2. FirstStep[r.kind] \in Steps
  BY <1>1 DEF FirstStep, Steps, Kinds
<1>3. Failed("none") \in Answer
  BY FailedType DEF Statuses
<1>4. TypeOK'
  BY <1>1, <1>2, <1>3 DEF IInv, TypeOK, Begin, tables
<1>5. Others(c)
  BY DEF IInv, TypeOK, Begin, Others
<1>6. pc'[c] = FirstStep[r.kind] /\ req'[c] = r
  BY DEF IInv, TypeOK, Begin
<1>7. /\ FirstStep[r.kind] \notin HoldsRow \cup {"insert", "updateLookup", "idle"}
      /\ FirstStep[r.kind] = "createLookup" =>
           r.kind \in {"create", "batchCreate", "createMarkdown"}
      /\ FirstStep[r.kind] = "upsertLookup" => r.kind = "upsert"
      /\ FirstStep[r.kind] = "importLookup" => r.kind = "import"
  BY <1>1 DEF FirstStep, Kinds, HoldsRow
<1>8. RequestOK(c)' /\ LocalOK(c)'
  BY <1>1, <1>6, <1>7 DEF RequestOK, LocalOK, MustNameType, HoldsRow
<1> QED
  BY <1>4, <1>5, <1>8, QuietStep DEF Begin

\* A step that only ends the request of c.
LEMMA FinishStep ==
  ASSUME IInv, NEW c \in Clients, NEW a \in Answer, Finish(c, a),
         UNCHANGED <<req, draft, seenId, seen, issued, tables>>
  PROVE  IInv'
<1>1. TypeOK'
  BY DEF IInv, TypeOK, Finish, Steps, tables
<1>2. Others(c)
  BY DEF IInv, TypeOK, Finish, Others
<1>3. pc'[c] = "idle"
  BY DEF IInv, TypeOK, Finish
<1>4. RequestOK(c)' /\ LocalOK(c)'
  BY <1>3 DEF IInv, ClientsOK, RequestOK, LocalOK, HoldsRow
<1> QED
  BY <1>1, <1>2, <1>4, QuietStep

\* A step that only moves c on.
LEMMA GotoStep ==
  ASSUME IInv, NEW c \in Clients, NEW step \in Steps \ HoldsRow, Goto(c, step),
         UNCHANGED <<req, draft, seenId, seen, issued, tables>>, RequestOK(c)'
  PROVE  IInv'
<1>1. TypeOK'
  BY DEF IInv, TypeOK, Goto, Steps, tables
<1>2. Others(c)
  BY DEF IInv, TypeOK, Goto, Others
<1>3. LocalOK(c)'
  BY DEF IInv, TypeOK, Goto, LocalOK
<1> QED
  BY <1>1, <1>2, <1>3, QuietStep

LEMMA AbortStep ==
  ASSUME IInv, NEW c \in Clients, Abort(c)
  PROVE  IInv'
BY FailedType, FinishStep DEF Abort, Statuses

LEMMA CreateLookupStep ==
  ASSUME IInv, NEW c \in Clients, CreateLookup(c)
  PROVE  IInv'
<1>1. ASSUME NEW status \in Statuses, Finish(c, Failed(status))
      PROVE  IInv'
  BY <1>1, FailedType, FinishStep DEF CreateLookup
<1>2. ASSUME Goto(c, "insert"),
             ~(req[c].kind \in {"createMarkdown", "import"} /\ ~WellFormed(req[c].patch))
      PROVE  IInv'
  <2>1. req[c] # Null /\ req[c] \in Menu[c]
    BY DEF CreateLookup, IInv, ClientsOK, RequestOK
  <2>2. req[c].patch.type # Absent
    BY <1>2, <2>1, ConstantsAssumption
    DEF CreateLookup, IInv, ClientsOK, RequestOK, WellFormed
  <2>3. RequestOK(c)'
    BY <1>2, <2>1, <2>2 DEF CreateLookup, IInv, TypeOK, ClientsOK, RequestOK, Goto
  <2> QED
    BY <1>2, <2>3, GotoStep DEF CreateLookup, Steps, HoldsRow
<1> QED
  BY <1>1, <1>2 DEF CreateLookup, Statuses

LEMMA ImportLookupStep ==
  ASSUME IInv, NEW c \in Clients, ImportLookup(c)
  PROVE  IInv'
<1>1. PICK step \in {"createLookup", "parse"} : Goto(c, step)
  BY DEF ImportLookup
<1>2. req'[c] = req[c] /\ req[c] # Null /\ req[c].kind = "import"
  BY DEF ImportLookup, IInv, ClientsOK, RequestOK
<1>3. RequestOK(c)'
  BY <1>1, <1>2 DEF ImportLookup, IInv, TypeOK, ClientsOK, RequestOK, Goto
<1> QED
  BY <1>1, <1>3, GotoStep DEF ImportLookup, Steps, HoldsRow

\* A step that writes the draft of c and goes on to update.
LEMMA DraftStep ==
  ASSUME IInv, NEW c \in Clients, NEW content \in Content, pc[c] # "idle",
         draft' = [draft EXCEPT ![c] = content], Goto(c, "updateLookup"),
         UNCHANGED <<req, seenId, seen, issued, tables>>
  PROVE  IInv'
<1>1. TypeOK'
  BY DEF IInv, TypeOK, Goto, Steps, tables
<1>2. Others(c)
  BY DEF IInv, TypeOK, Goto, Others
<1>3. draft'[c] # Null
  BY ConstantsAssumption DEF IInv, TypeOK
<1>4. pc'[c] = "updateLookup"
  BY DEF IInv, TypeOK, Goto
<1>5. RequestOK(c)' /\ LocalOK(c)'
  BY <1>3, <1>4 DEF IInv, ClientsOK, RequestOK, LocalOK, HoldsRow
<1> QED
  BY <1>1, <1>2, <1>5, QuietStep

\* A live row is a row.
LEMMA LiveAtType ==
  ASSUME TypeOK, NEW path, NEW id \in LiveAt(path)
  PROVE  id \in Ids /\ rows[id] \in Row /\ rows[id] # Null
BY DEF TypeOK, LiveAt

\* A client that is serving a request has one, with the fields of a request.
LEMMA ServingType ==
  ASSUME IInv, NEW c \in Clients, pc[c] # "idle"
  PROVE  req[c] \in Menu[c] /\ req[c] \in Request /\ req[c].patch \in Patch
BY MenuType DEF IInv, ClientsOK, RequestOK

LEMMA MergeFound ==
  ASSUME IInv, NEW c \in Clients, pc[c] # "idle", NEW missing, MergeInto(c, missing)
  PROVE  \/ IInv'
         \/ missing /\ UNCHANGED <<req, draft, seenId, seen, issued, tables>>
<1>1. ASSUME NEW id \in LiveAt(req[c].path),
             draft' = [draft EXCEPT ![c] = Drafted(rows[id], req[c].patch)],
             Goto(c, "updateLookup")
      PROVE  IInv'
  <2>1. Drafted(rows[id], req[c].patch) \in Content
    BY LiveAtType, ServingType, DraftedType DEF IInv
  <2> QED
    BY <1>1, <2>1, DraftStep DEF MergeInto
<1> QED
  BY <1>1 DEF MergeInto

LEMMA UpsertLookupStep ==
  ASSUME IInv, NEW c \in Clients, UpsertLookup(c)
  PROVE  IInv'
<1>1. ASSUME Goto(c, "createLookup"),
             UNCHANGED <<req, draft, seenId, seen, issued, tables>>
      PROVE  IInv'
  <2>1. req[c] # Null /\ req[c].kind \in MustNameType
    BY DEF UpsertLookup, IInv, ClientsOK, RequestOK, MustNameType
  <2>2. RequestOK(c)'
    BY <1>1, <2>1 DEF IInv, TypeOK, ClientsOK, RequestOK, Goto
  <2> QED
    BY <1>1, <2>2, GotoStep DEF Steps, HoldsRow
<1> QED
  BY <1>1, MergeFound DEF UpsertLookup

LEMMA MergeLookupStep ==
  ASSUME IInv, NEW c \in Clients, MergeLookup(c)
  PROVE  IInv'
<1>1. Failed("notFound") \in Answer
  BY FailedType DEF Statuses
<1> QED
  BY <1>1, MergeFound, FinishStep DEF MergeLookup

LEMMA ParseStep ==
  ASSUME IInv, NEW c \in Clients, Parse(c)
  PROVE  IInv'
<1>1. CASE ~WellFormed(req[c].patch)
  BY <1>1, FailedType, FinishStep DEF Parse, Statuses
<1>2. CASE WellFormed(req[c].patch)
  <2>1. Parsed(req[c].patch) \in Content
    BY <1>2, ServingType, ParsedType DEF Parse, WellFormed
  <2> QED
    BY <1>2, <2>1, DraftStep DEF Parse
<1> QED
  BY <1>1, <1>2

\* A step that keeps the row it looked up and goes on to use it.
LEMMA RememberStep ==
  ASSUME IInv, NEW c \in Clients, NEW path, NEW id \in LiveAt(path),
         NEW next \in HoldsRow, Remember(c, id), Goto(c, next), pc[c] # "idle",
         next = "save" => draft[c] # Null,
         UNCHANGED <<req, draft, issued, tables>>
  PROVE  IInv'
<1>1. id \in Ids /\ rows[id] \in Row /\ rows[id] # Null
  BY LiveAtType DEF IInv
<1>2. id # Null
  BY <1>1, ConstantsAssumption
<1>3. TypeOK'
  BY <1>1 DEF IInv, TypeOK, Goto, Remember, HoldsRow, Steps, tables
<1>4. Others(c)
  BY DEF IInv, TypeOK, Goto, Remember, Others
<1>5. pc'[c] = next /\ seenId'[c] = id /\ seen'[c] = rows[id]
  BY DEF IInv, TypeOK, Goto, Remember
<1>6. RequestOK(c)'
  BY <1>5 DEF IInv, ClientsOK, RequestOK, HoldsRow
<1>7. RowOK(id)
  BY <1>1 DEF IInv, TablesOK
<1>8. LocalOK(c)'
  BY <1>1, <1>2, <1>5, <1>7 DEF LocalOK, RowOK, Reaches, SnapshotOf, tables
<1> QED
  BY <1>3, <1>4, <1>6, <1>8, QuietStep

LEMMA FindStep ==
  ASSUME IInv, NEW c \in Clients, pc[c] # "idle", NEW next \in HoldsRow \ {"save"},
         Find(c, next)
  PROVE  IInv'
<1>1. Failed("notFound") \in Answer
  BY FailedType DEF Statuses
<1> QED
  BY <1>1, FinishStep, RememberStep DEF Find

LEMMA UpdateLookupStep ==
  ASSUME IInv, NEW c \in Clients, UpdateLookup(c)
  PROVE  IInv'
<1>1. Failed("notFound") \in Answer /\ Failed("invalid") \in Answer
  BY FailedType DEF Statuses
<1>2. draft[c] # Null
  BY DEF UpdateLookup, IInv, ClientsOK, RequestOK
<1> QED
  BY <1>1, <1>2, FinishStep, RememberStep DEF UpdateLookup, HoldsRow

LEMMA ReadLookupStep ==
  ASSUME IInv, NEW c \in Clients, ReadLookup(c)
  PROVE  IInv'
<1>1. CASE Find(c, "increment")
  BY <1>1, FindStep DEF ReadLookup, HoldsRow
<1>2. CASE ~Find(c, "increment")
  <2>1. ASSUME LiveAt(req[c].path) = {}
        PROVE  IInv'
    BY <1>2, <2>1, FailedType, FinishStep DEF ReadLookup, Statuses
  <2>2. ASSUME LiveAt(req[c].path) # {}
        PROVE  IInv'
    <3>1. PICK row \in Row : row = rows[CHOOSE id \in LiveAt(req[c].path) : TRUE]
      BY <2>2, LiveAtType DEF IInv
    <3>2. Reply(c, row.content, row.reads) \in Answer
      BY ReplyType DEF Row
    <3> QED
      BY <1>2, <2>2, <3>1, <3>2, FinishStep DEF ReadLookup
  <2> QED
    BY <2>1, <2>2
<1> QED
  BY <1>1, <1>2

LEMMA ListVersionsStep ==
  ASSUME IInv, NEW c \in Clients, ListVersions(c)
  PROVE  IInv'
<1>1. seenId[c] \in Ids
  BY DEF ListVersions, IInv, TypeOK, ClientsOK, LocalOK, HoldsRow
<1>2. snapshots[seenId[c]] \in Seq(Snapshot)
  BY <1>1 DEF IInv, TypeOK
<1>3. ASSUME NEW l \in Listings(snapshots[seenId[c]])
      PROVE  [Failed("none") EXCEPT !.status = "ok", !.listing = l] \in Answer
  BY <1>2, ListingType, FailedType DEF Answer, Statuses
<1> QED
  BY <1>3, FinishStep DEF ListVersions

LEMMA FindVersionStep ==
  ASSUME IInv, NEW c \in Clients, FindVersion(c)
  PROVE  IInv'
<1>1. seenId[c] \in Ids /\ seen[c] \in Row
  BY DEF FindVersion, IInv, TypeOK, ClientsOK, LocalOK, HoldsRow
<1>2. snapshots[seenId[c]] \in Seq(Snapshot)
  BY <1>1 DEF IInv, TypeOK
<1>3. ASSUME NEW i \in 1..Len(snapshots[seenId[c]])
      PROVE  Reply(c, Restored(snapshots[seenId[c]][i], seen[c]), seen[c].reads) \in Answer
  <2>1. snapshots[seenId[c]][i] \in Snapshot
    BY <1>2
  <2>2. Restored(snapshots[seenId[c]][i], seen[c]) \in Content
    BY <1>1, <2>1 DEF Restored, Snapshot, Row, Content
  <2> QED
    BY <1>1, <2>2, ReplyType DEF Row
<1>4. Failed("notFound") \in Answer
  BY FailedType DEF Statuses
<1> QED
  BY <1>3, <1>4, FinishStep DEF FindVersion

-----------------------------------------------------------------------------
(* Steps that write the tables.                                            *)

\* What is left to show of a step that ends a request and writes the tables.
LEMMA WriteStep ==
  ASSUME IInv, NEW c \in Clients, NEW a \in Answer, Finish(c, a),
         UNCHANGED <<req, draft, seenId, seen, issued>>, Grown, TablesOK',
         rows' \in [Ids -> Row \cup {Null}], snapshots' \in [Ids -> Seq(Snapshot)],
         held' \in [Ids -> SUBSET Snapshot]
  PROVE  IInv'
<1>1. TypeOK'
  BY DEF IInv, TypeOK, Finish, Steps
<1>2. Others(c)
  BY DEF IInv, TypeOK, Finish, Others
<1>3. pc'[c] = "idle"
  BY DEF IInv, TypeOK, Finish
<1>4. RequestOK(c)' /\ LocalOK(c)'
  BY <1>3 DEF IInv, ClientsOK, RequestOK, LocalOK, HoldsRow
<1> QED
  BY <1>1, <1>2, <1>4, OthersKept DEF IInv

\* An insert keeps slugs unique because the index refuses a second live row.
LEMMA InsertStep ==
  ASSUME IInv, NEW c \in Clients, Insert(c)
  PROVE  IInv'
<1> DEFINE content == Normalised(Fresh(req[c].patch))
           new == [path |-> req[c].path, content |-> content, version |-> 1,
                   reads |-> 0, deleted |-> FALSE]
<1>1. CASE Taken(req[c].path)
  BY <1>1, FailedType, FinishStep DEF Insert, Statuses
<1>2. CASE ~Taken(req[c].path)
  <2>1. /\ req[c].path \in Paths /\ req[c].patch \in Patch
        /\ req[c].patch.type # Absent
    BY ServingType DEF Insert, IInv, ClientsOK, RequestOK, Request
  <2>2. content \in Content
    BY <2>1, FreshType, NormalisedType
  <2>3. new \in Row
    BY <2>1, <2>2 DEF Row
  <2>4. new # Null
    BY <2>3, ConstantsAssumption
  <2>5. Reply(c, content, 0) \in Answer
    BY <2>2, ReplyType
  <2>6. PICK id \in Ids : /\ rows[id] = Null
                          /\ rows' = [rows EXCEPT ![id] = new]
                          /\ held' = [held EXCEPT ![id] = {[version |-> 1, content |-> content]}]
                          /\ Finish(c, Reply(c, content, 0))
                          /\ UNCHANGED snapshots
    BY <1>2 DEF Insert
  <2> HIDE DEF new, content
  <2>7. [version |-> 1, content |-> content] \in Snapshot
    BY <2>2 DEF Snapshot
  <2>8. /\ rows' \in [Ids -> Row \cup {Null}] /\ held' \in [Ids -> SUBSET Snapshot]
        /\ rows'[id] = new /\ held'[id] = {[version |-> 1, content |-> content]}
        /\ \A j \in Ids \ {id} : rows'[j] = rows[j] /\ held'[j] = held[j]
    BY <2>3, <2>6, <2>7 DEF IInv, TypeOK
  <2>9. Grown
    BY <2>6, <2>8 DEF Grown, Reaches
  <2>10. \A j \in Ids : RowOK(j)'
    <3>1. SnapshotOf(new) = [version |-> 1, content |-> content] /\ new.version = 1
      BY DEF SnapshotOf, new
    <3>2. RowOK(id)'
      BY <2>4, <2>8, <3>1 DEF RowOK, Reaches
    <3>3. ASSUME NEW j \in Ids \ {id}
          PROVE  RowOK(j)'
      BY <2>6, <2>8 DEF IInv, TablesOK, RowOK, Reaches
    <3> QED
      BY <3>2, <3>3
  <2>11. SnapshotsAuthentic'
    <3>1. snapshots[id] = <<>>
      BY <2>6 DEF IInv, TablesOK, RowOK
    <3> QED
      BY <2>6, <2>8, <3>1 DEF IInv, TablesOK, SnapshotsAuthentic
  <2>12. ActiveSlugUnique'
    <3>1. new.path = req[c].path
      BY DEF new
    <3>2. \A j \in Ids : Live(j) => rows[j].path # req[c].path
      BY <1>2 DEF Taken, LiveAt, Live
    <3> QED
      BY <2>6, <2>8, <3>1, <3>2 DEF IInv, TablesOK, ActiveSlugUnique, Live
  <2> QED
    BY <2>5, <2>6, <2>8, <2>9, <2>10, <2>11, <2>12, WriteStep DEF Insert, TablesOK, IInv, TypeOK
<1> QED
  BY <1>1, <1>2

\* A step that writes one row in place, without touching its content, version and
\* path or bringing it back to life.
LEMMA RowStep ==
  ASSUME IInv, NEW c \in Clients, NEW a \in Answer, Finish(c, a), NEW id \in Ids,
         rows[id] # Null, NEW new \in Row, rows' = [rows EXCEPT ![id] = new],
         SnapshotOf(new) = SnapshotOf(rows[id]), new.path = rows[id].path,
         ~new.deleted => ~rows[id].deleted,
         UNCHANGED <<req, draft, seenId, seen, issued, snapshots, held>>
  PROVE  IInv'
<1>1. new # Null
  BY ConstantsAssumption
<1>2. /\ rows' \in [Ids -> Row \cup {Null}] /\ rows'[id] = new
      /\ \A j \in Ids \ {id} : rows'[j] = rows[j]
  BY DEF IInv, TypeOK
<1>3. new.version = rows[id].version
  BY DEF SnapshotOf
<1>4. Grown
  BY <1>1, <1>2 DEF Grown, Reaches
<1>5. ASSUME NEW j \in Ids
      PROVE  RowOK(j)'
  <2>1. CASE j = id
    BY <1>1, <1>2, <1>3, <2>1 DEF IInv, TablesOK, RowOK, Reaches
  <2>2. CASE j # id
    BY <1>2, <2>2 DEF IInv, TablesOK, RowOK, Reaches, SnapshotOf
  <2> QED
    BY <2>1, <2>2
<1>6. SnapshotsAuthentic'
  BY DEF IInv, TablesOK, SnapshotsAuthentic
<1>7. ActiveSlugUnique'
  BY <1>2 DEF IInv, TablesOK, ActiveSlugUnique, Live
<1> QED
  BY <1>2, <1>4, <1>5, <1>6, <1>7, WriteStep DEF TablesOK, IInv, TypeOK

\* The row a client holds is a row still, whatever became of it.
LEMMA HeldRow ==
  ASSUME IInv, NEW c \in Clients, pc[c] \in HoldsRow
  PROVE  /\ seenId[c] \in Ids /\ seen[c] \in Row
         /\ rows[seenId[c]] \in Row /\ rows[seenId[c]] # Null
BY DEF IInv, TypeOK, ClientsOK, LocalOK

LEMMA SoftDeleteStep ==
  ASSUME IInv, NEW c \in Clients, SoftDelete(c)
  PROVE  IInv'
<1> DEFINE id == seenId[c]
           new == [rows[id] EXCEPT !.deleted = TRUE]
<1>1. id \in Ids /\ rows[id] \in Row /\ rows[id] # Null
  BY HeldRow DEF SoftDelete, HoldsRow
<1>2. /\ new \in Row /\ new.path = rows[id].path /\ new.deleted
      /\ SnapshotOf(new) = SnapshotOf(rows[id])
  BY <1>1 DEF Row, SnapshotOf
<1>3. rows' = [rows EXCEPT ![id] = new]
  BY DEF SoftDelete
<1>4. [Failed("none") EXCEPT !.status = "ok"] \in Answer
  BY FailedType DEF Answer, Statuses
<1> QED
  BY <1>1, <1>2, <1>3, <1>4, RowStep DEF SoftDelete

LEMMA IncrementStep ==
  ASSUME IInv, NEW c \in Clients, Increment(c)
  PROVE  IInv'
<1> DEFINE id == seenId[c]
<1>1. id \in Ids /\ seen[c] \in Row /\ rows[id] \in Row /\ rows[id] # Null
  BY HeldRow DEF Increment, HoldsRow
<1>2. CASE Live(id)
  <2>1. /\ Counted(rows[id]) \in Row /\ Counted(rows[id]).path = rows[id].path
        /\ Counted(rows[id]).deleted = rows[id].deleted
        /\ SnapshotOf(Counted(rows[id])) = SnapshotOf(rows[id])
    BY <1>1, CountedType DEF Counted, Row, SnapshotOf
  <2>2. Reply(c, Counted(rows[id]).content, Counted(rows[id]).reads) \in Answer
    BY <2>1, ReplyType DEF Row
  <2>3. rows' = [rows EXCEPT ![id] = Counted(rows[id])]
    BY <1>2 DEF Increment
  <2> QED
    BY <1>1, <1>2, <2>1, <2>2, <2>3, RowStep DEF Increment
<1>3. CASE ~Live(id)
  <2>1. Reply(c, seen[c].content, seen[c].reads) \in Answer
    BY <1>1, ReplyType DEF Row
  <2> QED
    BY <1>3, <2>1, FinishStep DEF Increment, tables
<1> QED
  BY <1>2, <1>3

\* What Append keeps of a log and adds to it.
LEMMA Appended ==
  ASSUME NEW log \in Seq(Snapshot), NEW s \in Snapshot
  PROVE  /\ Append(log, s) \in Seq(Snapshot)
         /\ Len(Append(log, s)) = Len(log) + 1
         /\ \A i \in 1..Len(log) : Append(log, s)[i] = log[i]
         /\ Append(log, s)[Len(log) + 1] = s
OBVIOUS

\* Saving a version of the row looked up continues the history: the number of the
\* new content is one above a number that was reachable when the row was looked up.
LEMMA SaveStep ==
  ASSUME IInv, NEW c \in Clients, Save(c)
  PROVE  IInv'
<1>1. PICK id \in Ids, old \in Row : /\ id = seenId[c] /\ old = seen[c]
                                    /\ rows[id] \in Row /\ rows[id] # Null
  BY HeldRow DEF Save, HoldsRow
<1>2. SnapshotOf(old) \in held[id] /\ Reaches(id, old.version)
  BY <1>1 DEF Save, IInv, ClientsOK, LocalOK, HoldsRow
<1>3. PICK content \in Content : content = Normalised(draft[c])
  BY NormalisedType DEF Save, IInv, TypeOK, ClientsOK, RequestOK
<1>4. PICK new \in Snapshot : new = [version |-> old.version + 1, content |-> content]
  <2>1. old.version + 1 \in Nat \ {0}
    BY DEF Row
  <2> QED
    BY <2>1 DEF Snapshot
<1>5. PICK row \in Row :
        /\ row = Overwrite(rows[id], old, content)
        /\ SnapshotOf(row) = new /\ row.path = rows[id].path
        /\ row.deleted = rows[id].deleted /\ row.version = old.version + 1
  <2> DEFINE over == Overwrite(rows[id], old, content)
  <2>1. over \in Row
    BY <1>1, <1>3, OverwriteType
  <2>2. /\ over.path = rows[id].path /\ over.deleted = rows[id].deleted
        /\ over.version = old.version + 1 /\ over.content = content
    BY <1>1 DEF Overwrite, Row
  <2> HIDE DEF over
  <2>3. SnapshotOf(over) = new
    BY <1>4, <2>2 DEF SnapshotOf
  <2> QED
    BY <2>1, <2>2, <2>3 DEF over
<1>6. SnapshotOf(old) \in Snapshot /\ SnapshotOf(old).version = old.version
  BY <1>1, SnapshotType DEF SnapshotOf
<1>7. old.version \in Nat \ {0}
  BY <1>1 DEF Row
<1>8. snapshots' = [snapshots EXCEPT ![id] = Append(@, SnapshotOf(old))]
  BY <1>1 DEF Save
<1>9. snapshots[id] \in Seq(Snapshot)
  BY <1>1 DEF IInv, TypeOK
<1>10. /\ snapshots' \in [Ids -> Seq(Snapshot)]
       /\ snapshots'[id] = Append(snapshots[id], SnapshotOf(old))
       /\ \A j \in Ids \ {id} : snapshots'[j] = snapshots[j]
  BY <1>1, <1>6, <1>8, <1>9, Appended DEF IInv, TypeOK
<1>11. /\ Len(snapshots'[id]) = Len(snapshots[id]) + 1
       /\ \A i \in 1..Len(snapshots[id]) : snapshots'[id][i] = snapshots[id][i]
       /\ snapshots'[id][Len(snapshots[id]) + 1] = SnapshotOf(old)
       /\ Len(snapshots[id]) \in Nat
  BY <1>6, <1>9, <1>10, Appended
<1>12. \A j \in Ids : \A v \in Nat : Reaches(j, v) => Reaches(j, v)'
  <2> SUFFICES ASSUME NEW j \in Ids, NEW v \in Nat, Reaches(j, v), NEW w \in 1..(v - 1)
               PROVE  \E i \in 1..Len(snapshots'[j]) : snapshots'[j][i].version = w
    BY DEF Reaches
  <2>1. PICK i \in 1..Len(snapshots[j]) : snapshots[j][i].version = w
    BY DEF Reaches
  <2>2. CASE j = id
    <3>1. i \in 1..Len(snapshots'[id]) /\ snapshots'[id][i] = snapshots[id][i]
      BY <1>11, <2>2
    <3> QED
      BY <2>1, <2>2, <3>1
  <2>3. CASE j # id
    BY <1>10, <2>1, <2>3
  <2> QED
    BY <2>2, <2>3
<1>13. Reaches(id, old.version + 1)'
  <2>1. snapshots'[id][Len(snapshots[id]) + 1].version = old.version
    BY <1>6, <1>11
  <2>2. Reaches(id, old.version)'
    BY <1>2, <1>7, <1>12
  <2> SUFFICES ASSUME NEW w \in 1..old.version
               PROVE  \E i \in 1..Len(snapshots'[id]) : snapshots'[id][i].version = w
    BY <1>7 DEF Reaches
  <2>3. CASE w = old.version
    BY <1>11, <2>1, <2>3
  <2>4. CASE w # old.version
    BY <1>7, <2>2, <2>4 DEF Reaches
  <2> QED
    BY <2>3, <2>4
<1>14. CASE Live(id)
  <2>1. /\ rows' = [rows EXCEPT ![id] = row]
        /\ held' = [held EXCEPT ![id] = @ \cup {new}]
    BY <1>1, <1>3, <1>4, <1>5, <1>14 DEF Save
  <2>2. PICK a \in Answer : Finish(c, a)
    <3>1. Reply(c, content, rows[id].reads) \in Answer
      BY <1>1, <1>3, ReplyType DEF Row
    <3> QED
      BY <1>1, <1>3, <1>14, <3>1 DEF Save
  <2>3. row # Null
    BY <1>5, ConstantsAssumption
  <2>4. /\ rows' \in [Ids -> Row \cup {Null}] /\ held' \in [Ids -> SUBSET Snapshot]
        /\ rows'[id] = row /\ held'[id] = held[id] \cup {new}
        /\ \A j \in Ids \ {id} : rows'[j] = rows[j] /\ held'[j] = held[j]
    BY <1>1, <1>4, <1>5, <2>1 DEF IInv, TypeOK
  <2>5. Grown
    BY <1>12, <2>3, <2>4 DEF Grown
  <2>6. \A j \in Ids : RowOK(j)'
    <3>1. RowOK(id)'
      BY <1>1, <1>5, <1>13, <2>3, <2>4 DEF RowOK, SnapshotOf, Reaches
    <3>2. ASSUME NEW j \in Ids \ {id}
          PROVE  RowOK(j)'
      <4>1. RowOK(j)
        BY DEF IInv, TablesOK
      <4>2. rows'[j] = rows[j] /\ held'[j] = held[j] /\ snapshots'[j] = snapshots[j]
        BY <1>10, <2>4
      <4> QED
        BY <4>1, <4>2 DEF RowOK, Reaches, SnapshotOf
    <3> QED
      BY <3>1, <3>2
  <2>7. SnapshotsAuthentic'
    <3>1. ASSUME NEW i \in 1..Len(snapshots'[id])
          PROVE  snapshots'[id][i] \in held'[id]
      BY <1>1, <1>2, <1>11, <2>4 DEF IInv, TablesOK, SnapshotsAuthentic
    <3> QED
      BY <1>10, <2>4, <3>1 DEF IInv, TablesOK, SnapshotsAuthentic
  <2>8. ActiveSlugUnique'
    BY <1>5, <1>14, <2>4 DEF IInv, TablesOK, ActiveSlugUnique, Live
  <2> QED
    BY <1>10, <2>2, <2>4, <2>5, <2>6, <2>7, <2>8, WriteStep DEF Save, TablesOK
<1>15. CASE ~Live(id)
  <2>1. UNCHANGED <<rows, held>> /\ Finish(c, Failed("internalError"))
    BY <1>1, <1>15 DEF Save
  <2>2. Failed("internalError") \in Answer
    BY FailedType DEF Statuses
  <2>3. Grown
    BY <1>12, <2>1 DEF Grown
  <2>4. \A j \in Ids : RowOK(j)'
    <3>1. ASSUME NEW j \in Ids, rows[j] # Null
          PROVE  RowOK(j)'
      <4>1. PICK v \in Nat : v = rows[j].version
        BY <3>1 DEF IInv, TypeOK, Row
      <4>2. Reaches(j, v)'
        BY <1>12, <3>1, <4>1 DEF IInv, TablesOK, RowOK
      <4> QED
        BY <2>1, <3>1, <4>1, <4>2 DEF IInv, TablesOK, RowOK, SnapshotOf, Reaches
    <3>2. ASSUME NEW j \in Ids, rows[j] = Null
          PROVE  RowOK(j)'
      BY <1>1, <1>10, <2>1, <3>2 DEF IInv, TablesOK, RowOK
    <3> QED
      BY <3>1, <3>2
  <2>5. SnapshotsAuthentic'
    <3>1. ASSUME NEW i \in 1..Len(snapshots'[id])
          PROVE  snapshots'[id][i] \in held'[id]
      BY <1>1, <1>2, <1>11, <2>1 DEF IInv, TablesOK, SnapshotsAuthentic
    <3> QED
      BY <1>10, <2>1, <3>1 DEF IInv, TablesOK, SnapshotsAuthentic
  <2>6. ActiveSlugUnique'
    BY <2>1 DEF IInv, TablesOK, ActiveSlugUnique, Live
  <2> QED
    BY <1>10, <2>1, <2>2, <2>3, <2>4, <2>5, <2>6, WriteStep DEF Save, TablesOK, IInv, TypeOK
<1> QED
  BY <1>14, <1>15

-----------------------------------------------------------------------------
(* The inductive invariant and what follows from it.                       *)

LEMMA InitInv == Init => IInv
<1> SUFFICES ASSUME Init PROVE IInv
  OBVIOUS
<1>1. Failed("none") \in Answer
  BY FailedType DEF Statuses
<1>2. TypeOK
  BY <1>1 DEF Init, TypeOK, Steps
<1>3. ClientsOK
  BY DEF Init, ClientsOK, RequestOK, LocalOK, HoldsRow
<1>4. TablesOK
  BY DEF Init, TablesOK, RowOK, SnapshotsAuthentic, ActiveSlugUnique, Live
<1> QED
  BY <1>2, <1>3, <1>4 DEF IInv

LEMMA NextInv == IInv /\ [Next]_vars => IInv'
<1> SUFFICES ASSUME IInv, [Next]_vars PROVE IInv'
  OBVIOUS
<1>1. ASSUME NEW c \in Clients, NEW r \in Menu[c], Begin(c, r)
      PROVE  IInv'
  BY <1>1, BeginStep
<1>2. ASSUME NEW c \in Clients, Step(c)
      PROVE  IInv'
  <2>1. CASE CreateLookup(c)
    BY <2>1, CreateLookupStep
  <2>2. CASE Insert(c)
    BY <2>2, InsertStep
  <2>3. CASE UpsertLookup(c)
    BY <2>3, UpsertLookupStep
  <2>4. CASE MergeLookup(c)
    BY <2>4, MergeLookupStep
  <2>5. CASE ImportLookup(c)
    BY <2>5, ImportLookupStep
  <2>6. CASE Parse(c)
    BY <2>6, ParseStep
  <2>7. CASE UpdateLookup(c)
    BY <2>7, UpdateLookupStep
  <2>8. CASE Save(c)
    BY <2>8, SaveStep
  <2>9. CASE DeleteLookup(c)
    BY <2>9, FindStep DEF DeleteLookup, HoldsRow
  <2>10. CASE SoftDelete(c)
    BY <2>10, SoftDeleteStep
  <2>11. CASE ReadLookup(c)
    BY <2>11, ReadLookupStep
  <2>12. CASE Increment(c)
    BY <2>12, IncrementStep
  <2>13. CASE HistoryLookup(c)
    BY <2>13, FindStep DEF HistoryLookup, HoldsRow
  <2>14. CASE ListVersions(c)
    BY <2>14, ListVersionsStep
  <2>15. CASE VersionLookup(c)
    BY <2>15, FindStep DEF VersionLookup, HoldsRow
  <2>16. CASE FindVersion(c)
    BY <2>16, FindVersionStep
  <2> QED
    BY <1>2, <2>1, <2>2, <2>3, <2>4, <2>5, <2>6, <2>7, <2>8, <2>9, <2>10, <2>11, <2>12,
       <2>13, <2>14, <2>15, <2>16 DEF Step
<1>3. ASSUME NEW c \in Clients, Abort(c)
      PROVE  IInv'
  BY <1>3, AbortStep
<1>4. CASE UNCHANGED vars
  BY <1>4 DEF IInv, TypeOK, ClientsOK, RequestOK, LocalOK, TablesOK, RowOK, Reaches,
              SnapshotsAuthentic, ActiveSlugUnique, Live, vars
<1> QED
  BY <1>1, <1>2, <1>3, <1>4 DEF Next

\* IInv holds in every reachable state.
THEOREM Invariance == Spec => []IInv
BY InitInv, NextInv, PTL DEF Spec

\* Every variable keeps to its set of values, for any clients, menus and bounds.
THEOREM TypeCorrect == Spec => []TypeOK
<1>1. IInv => TypeOK
  BY DEF IInv
<1> QED
  BY <1>1, Invariance, PTL

\* The partial unique index keeps live slugs unique under any interleaving.
THEOREM SlugsUnique == Spec => []ActiveSlugUnique
<1>1. IInv => ActiveSlugUnique
  BY DEF IInv, TablesOK
<1> QED
  BY <1>1, Invariance, PTL

\* No interleaving puts into a concept's history a state the concept never had.
THEOREM HistoryAuthentic == Spec => []SnapshotsAuthentic
<1>1. IInv => SnapshotsAuthentic
  BY DEF IInv, TablesOK
<1> QED
  BY <1>1, Invariance, PTL

\* No interleaving leaves a gap below a concept's current version number.
THEOREM HistoryHasNoGap == Spec => []HistoryContiguous
<1>1. IInv => HistoryContiguous
  BY DEF IInv, TablesOK, RowOK, Reaches, HistoryContiguous
<1> QED
  BY <1>1, Invariance, PTL

\* What one step can do to a row that exists.
LEMMA RowEffect ==
  ASSUME IInv, [Next]_vars, NEW id \in Ids, rows[id] # Null
  PROVE  \/ rows'[id] = rows[id]
         \/ Live(id) /\ \E old \in Row, content \in Content :
                           rows'[id] = Overwrite(rows[id], old, content)
         \/ rows'[id] = [rows[id] EXCEPT !.deleted = TRUE]
         \/ Live(id) /\ rows'[id] = Counted(rows[id])
<1> DEFINE Goal == \/ rows'[id] = rows[id]
                   \/ Live(id) /\ \E old \in Row, content \in Content :
                                     rows'[id] = Overwrite(rows[id], old, content)
                   \/ rows'[id] = [rows[id] EXCEPT !.deleted = TRUE]
                   \/ Live(id) /\ rows'[id] = Counted(rows[id])
<1>1. CASE rows' = rows
  BY <1>1
<1>2. ASSUME NEW c \in Clients, Insert(c)
      PROVE  Goal
  BY <1>2 DEF Insert, IInv, TypeOK, tables
<1>3. ASSUME NEW c \in Clients, Save(c)
      PROVE  Goal
  <2>1. PICK old \in Row, content \in Content : old = seen[c] /\ content = Normalised(draft[c])
    BY <1>3, HeldRow, NormalisedType
    DEF Save, HoldsRow, IInv, TypeOK, ClientsOK, RequestOK
  <2>2. CASE id = seenId[c] /\ Live(id)
    <3>1. rows'[id] = Overwrite(rows[id], old, content)
      BY <1>3, <2>1, <2>2 DEF Save, IInv, TypeOK
    <3> QED
      BY <2>2, <3>1
  <2>3. CASE ~(id = seenId[c] /\ Live(id))
    BY <1>3, <2>3 DEF Save, IInv, TypeOK
  <2> QED
    BY <2>2, <2>3
<1>4. ASSUME NEW c \in Clients, SoftDelete(c)
      PROVE  Goal
  BY <1>4 DEF SoftDelete, IInv, TypeOK
<1>5. ASSUME NEW c \in Clients, Increment(c)
      PROVE  Goal
  BY <1>5 DEF Increment, IInv, TypeOK
<1>6. \/ rows' = rows
      \/ \E c \in Clients : Insert(c) \/ Save(c) \/ SoftDelete(c) \/ Increment(c)
  BY DEF Next, Step, vars, tables, Begin, Abort, CreateLookup, UpsertLookup, MergeLookup,
         MergeInto, ImportLookup, Parse, UpdateLookup, DeleteLookup, Find, ReadLookup,
         HistoryLookup, ListVersions, VersionLookup, FindVersion
<1> QED
  BY <1>1, <1>2, <1>3, <1>4, <1>5, <1>6

\* A soft-deleted row is never written again, whatever looked it up before.
THEOREM DeletedStaysDeleted == Spec => DeletedRowFrozen
<1>1. ASSUME IInv, [Next]_vars, NEW id \in Ids, rows[id] # Null, rows[id].deleted
      PROVE  rows'[id] = rows[id]
  <2>1. rows[id] \in Row /\ ~Live(id)
    BY <1>1 DEF IInv, TypeOK, Live
  <2>2. [rows[id] EXCEPT !.deleted = TRUE] = rows[id]
    BY <1>1, <2>1 DEF Row
  <2> QED
    BY <1>1, <2>1, <2>2, RowEffect
<1> DEFINE Frozen == \A id \in Ids : rows[id] # Null /\ rows[id].deleted => rows'[id] = rows[id]
<1>2. IInv /\ [Next]_vars => [Frozen]_vars
  BY <1>1
<1> QED
  BY <1>2, Invariance, PTL DEF Spec, DeletedRowFrozen

\* No writer takes a counted read away, and counting a read changes nothing else.
THEOREM ReadsKept == Spec => ReadsNeverLost
<1> DEFINE Kept(id) == /\ rows'[id].path = rows[id].path
                       /\ \/ rows'[id].reads = rows[id].reads
                          \/ rows'[id] = [rows[id] EXCEPT !.reads = @ + 1]
<1>1. ASSUME IInv, [Next]_vars, NEW id \in Ids, rows[id] # Null
      PROVE  Kept(id)
  <2>1. rows[id] \in Row
    BY <1>1 DEF IInv, TypeOK
  <2>2. ASSUME NEW old \in Row, NEW content \in Content,
               rows'[id] = Overwrite(rows[id], old, content)
        PROVE  Kept(id)
    BY <2>1, <2>2 DEF Overwrite, Row
  <2>3. CASE rows'[id] = [rows[id] EXCEPT !.deleted = TRUE]
    BY <2>1, <2>3 DEF Row
  <2>4. CASE rows'[id] = Counted(rows[id])
    BY <2>1, <2>4 DEF Counted, Row
  <2> QED
    BY <1>1, <2>2, <2>3, <2>4, RowEffect
<1>2. IInv /\ [Next]_vars => [\A id \in Ids : rows[id] # Null => Kept(id)]_vars
  BY <1>1
<1> QED
  BY <1>2, Invariance, PTL DEF Spec, ReadsNeverLost
=============================================================================
