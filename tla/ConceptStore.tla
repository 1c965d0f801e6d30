---------------------------- MODULE ConceptStore ----------------------------
(***************************************************************************)
(* Concept rows and their version history, as ConceptService drives them   *)
(* through ConceptRepository.                                              *)
(*                                                                         *)
(* Every request (REST handler, MCP tool, CLI command) runs a service      *)
(* method that awaits one SQL statement after another; PostgreSQL executes *)
(* each statement atomically (READ COMMITTED) and nothing is locked        *)
(* between two of them.  One action below is one statement together with   *)
(* the code that runs from its result to the next await.  Clients share    *)
(* nothing but the tables: they may be requests of one process or of many. *)
(*                                                                         *)
(* Directory bundles are taken to be live, and filesystem mirroring to be  *)
(* off (its default): a path stands for a (bundle, slug) pair.             *)
(***************************************************************************)
EXTENDS Naturals, Sequences, FiniteSets

CONSTANTS
  Clients,     \* concurrent requests' issuers
  Ids,         \* uuids of concept rows
  Paths,       \* (bundle, slug) pairs
  Types,       \* spellings of a concept type, blank ones included
  Empty,       \* the empty string, as a type
  Canonical,   \* normalizeConceptType: spelling -> stored spelling
  Bodies,      \* markdown bodies a caller may send
  Blank,       \* the body of a markdown document that ends with its frontmatter
  Heading,     \* the generated body `# <title>` of a concept created without one
  Resources,   \* resource URIs
  Null,        \* SQL NULL, and "nothing" in a client's local variables
  Absent,      \* a field the caller leaves out
  Menu,        \* the requests each client may issue
  MaxRequests  \* bound: requests issued in one behaviour

Content == [type : Types, body : Bodies \cup {Heading}, resource : Resources \cup {Null}]
Patch == [type : Types \cup {Absent}, body : Bodies \cup {Absent},
          resource : Resources \cup {Absent}]
Row == [path : Paths, content : Content, version : Nat \ {0}, reads : Nat, deleted : BOOLEAN]
Snapshot == [version : Nat \ {0}, content : Content]

Kinds == {"create", "batchCreate", "createMarkdown", "upsert", "put", "batchPut", "replace",
          "import", "delete", "get", "peek", "history", "version"}
Request == [kind : Kinds, path : Paths, patch : Patch, version : Nat]

\* CreateConceptBodySchema and the MCP tool schema make `type` mandatory; so does
\* the batch handler, by defaulting it.
MustNameType == {"create", "batchCreate", "upsert", "put"}

\* These requests carry a markdown document; one without a body leaves it out.
Markdown == {"createMarkdown", "replace", "import"}

ASSUME ConstantsAssumption ==
  /\ Empty \in Types
  /\ Blank \in Bodies
  /\ Canonical \in [Types -> Types]
  /\ Canonical[Empty] = Empty
  /\ Null \notin Content \cup Ids \cup Row \cup Request \cup Resources
  /\ Absent \notin Types \cup Bodies \cup Resources
  /\ Menu \in [Clients -> SUBSET Request]
  /\ \A c \in Clients : \A r \in Menu[c] : r.kind \in MustNameType => r.patch.type # Absent
  /\ \A c \in Clients : \A r \in Menu[c] : r.kind \in Markdown => r.patch.body # Blank
  /\ MaxRequests \in Nat

VARIABLES
  rows,       \* table concepts: id -> row, Null while the id is unused
  snapshots,  \* table concept_versions: id -> its snapshots in insertion order
  pc,         \* client -> the statement it executes next
  req,        \* client -> the request it is serving or served last
  draft,      \* client -> the frontmatter and body it is about to write
  seenId,     \* client -> id of the row its last lookup returned
  seen,       \* client -> that row, as it was then
  answer,     \* client -> the outcome of its last request
  issued,     \* number of requests issued so far
  held        \* history variable: id -> every (version, content) the row has held

tables == <<rows, snapshots, held>>
locals == <<pc, req, draft, seenId, seen, answer>>
vars == <<rows, snapshots, pc, req, draft, seenId, seen, answer, issued, held>>

Statuses == {"none", "ok", "notFound", "conflict", "invalid", "uniqueViolation",
             "internalError", "aborted"}
Answer == [status : Statuses, content : Content \cup {Null}, reads : Nat,
           listing : Seq(Snapshot)]

Steps == {"idle", "createLookup", "insert", "upsertLookup", "mergeLookup", "importLookup",
          "parse", "updateLookup", "save", "deleteLookup", "softDelete", "readLookup",
          "increment", "historyLookup", "listVersions", "versionLookup", "findVersion"}

FirstStep ==
  [k \in Kinds |->
     CASE k \in {"create", "batchCreate", "createMarkdown"} -> "createLookup"
       [] k = "upsert"              -> "upsertLookup"
       [] k \in {"put", "batchPut"} -> "mergeLookup"
       [] k = "replace"             -> "parse"
       [] k = "import"              -> "importLookup"
       [] k = "delete"              -> "deleteLookup"
       [] k \in {"get", "peek"}     -> "readLookup"
       [] k = "history"             -> "historyLookup"
       [] k = "version"             -> "versionLookup"]

-----------------------------------------------------------------------------
(* The pure functions on content.                                          *)

\* { ...current.frontmatter, ...fields given }, input.body ?? current.body
Merge(content, patch) ==
  [type     |-> IF patch.type = Absent THEN content.type ELSE patch.type,
   body     |-> IF patch.body = Absent THEN content.body ELSE patch.body,
   resource |-> IF patch.resource = Absent THEN content.resource ELSE patch.resource]

\* What upsert and PUT write over the row they found.
DraftedWhole(row, patch) ==  \* mutant: the fields left out are dropped
  [type |-> patch.type, body |-> patch.body, resource |-> patch.resource]
Drafted(row, patch) == Merge(row.content, patch)

\* The columns of a concept written whole: absent fields get their default.
FreshUndefined(patch) ==  \* mutant: an absent resource is not turned into NULL
  [type     |-> patch.type,
   body     |-> IF patch.body = Absent THEN Heading ELSE patch.body,
   resource |-> patch.resource]
Fresh(patch) ==
  [type     |-> patch.type,
   body     |-> IF patch.body = Absent THEN Heading ELSE patch.body,
   resource |-> IF patch.resource = Absent THEN Null ELSE patch.resource]

\* The same from a document that replaces a concept: no heading is generated.
Parsed(patch) ==
  [Fresh(patch) EXCEPT !.body = IF patch.body = Absent THEN Blank ELSE patch.body]

Normalised(content) == [content EXCEPT !.type = Canonical[@]]

\* FrontmatterSchema on a parsed markdown document.
WellFormed(patch) == patch.type \notin {Absent, Empty}

\* These handlers render the concept with serializeConcept, which validates.
Rendered == {"create", "createMarkdown", "put", "replace", "get", "version"}

\* The concept_versions row saved before a concept is overwritten.
SnapshotNextVersion(row) ==  \* mutant: numbered like the state that replaces it
  [version |-> row.version + 1, content |-> row.content]
SnapshotNoResource(row) ==  \* mutant: a column is left out
  [version |-> row.version, content |-> [row.content EXCEPT !.resource = Null]]
SnapshotOf(row) == [version |-> row.version, content |-> row.content]

\* The UPDATE of a row last looked up as `old`.
OverwriteReads(row, old, content) ==  \* mutant: every column of `old` is written back
  [old EXCEPT !.content = content, !.version = old.version + 1]
OverwriteVersion(row, old, content) ==  \* mutant: the version is not advanced
  [row EXCEPT !.content = content]
OverwriteSkip(row, old, content) ==  \* mutant: advanced twice
  [row EXCEPT !.content = content, !.version = old.version + 2]
Overwrite(row, old, content) ==
  [row EXCEPT !.content = content, !.version = old.version + 1]

-----------------------------------------------------------------------------
(* Reading the tables, and leaving a request.                              *)

LiveAt(path) == {id \in Ids : /\ rows[id] # Null
                              /\ rows[id].path = path
                              /\ ~rows[id].deleted}

\* The concepts_bundle_slug_active_uq index refuses a second live row.
TakenNever(path) == FALSE  \* mutant: there is no such index
Taken(path) == LiveAt(path) # {}

\* The WHERE clause of every UPDATE.
LiveAnyway(id) == rows[id] # Null  \* mutant: deleted_at IS NULL is left out
Live(id) == rows[id] # Null /\ ~rows[id].deleted

Failed(status) == [status |-> status, content |-> Null, reads |-> 0, listing |-> <<>>]

Reply(c, content, reads) ==
  IF req[c].kind \in Rendered /\ content.type = Empty
  THEN Failed("internalError")
  ELSE [status |-> "ok", content |-> content, reads |-> reads, listing |-> <<>>]

Goto(c, step) == pc' = [pc EXCEPT ![c] = step] /\ UNCHANGED answer

Finish(c, a) == /\ pc' = [pc EXCEPT ![c] = "idle"]
                /\ answer' = [answer EXCEPT ![c] = a]

\* The row a lookup returned is kept in a local variable across the next await.
Remember(c, id) == /\ seenId' = [seenId EXCEPT ![c] = id]
                   /\ seen' = [seen EXCEPT ![c] = rows[id]]

-----------------------------------------------------------------------------
Init ==
  /\ rows = [id \in Ids |-> Null]
  /\ snapshots = [id \in Ids |-> <<>>]
  /\ pc = [c \in Clients |-> "idle"]
  /\ req = [c \in Clients |-> Null]
  /\ draft = [c \in Clients |-> Null]
  /\ seenId = [c \in Clients |-> Null]
  /\ seen = [c \in Clients |-> Null]
  /\ answer = [c \in Clients |-> Failed("none")]
  /\ issued = 0
  /\ held = [id \in Ids |-> {}]

Begin(c, r) ==
  /\ pc[c] = "idle"
  /\ issued < MaxRequests
  /\ issued' = issued + 1
  /\ pc' = [pc EXCEPT ![c] = FirstStep[r.kind]]
  /\ req' = [req EXCEPT ![c] = r]
  /\ draft' = [draft EXCEPT ![c] = Null]
  /\ seenId' = [seenId EXCEPT ![c] = Null]
  /\ seen' = [seen EXCEPT ![c] = Null]
  /\ answer' = [answer EXCEPT ![c] = Failed("none")]
  /\ UNCHANGED tables

(* create and createFromMarkdown: look the slug up, then insert.           *)

CreateLookup(c) ==
  /\ pc[c] = "createLookup"
  /\ IF LiveAt(req[c].path) # {} THEN Finish(c, Failed("conflict"))
     ELSE IF req[c].kind \in {"createMarkdown", "import"} /\ ~WellFormed(req[c].patch)
     THEN Finish(c, Failed("invalid"))
     ELSE Goto(c, "insert")
  /\ UNCHANGED <<req, draft, seenId, seen, issued, tables>>

Insert(c) ==
  /\ pc[c] = "insert"
  /\ LET content == Normalised(Fresh(req[c].patch)) IN
       IF Taken(req[c].path)
       THEN Finish(c, Failed("uniqueViolation")) /\ UNCHANGED tables
       ELSE \E id \in Ids :
              /\ rows[id] = Null
              /\ rows' = [rows EXCEPT ![id] =
                            [path |-> req[c].path, content |-> content, version |-> 1,
                             reads |-> 0, deleted |-> FALSE]]
              /\ held' = [held EXCEPT ![id] = {[version |-> 1, content |-> content]}]
              /\ Finish(c, Reply(c, content, 0))
              /\ UNCHANGED snapshots
  /\ UNCHANGED <<req, draft, seenId, seen, issued>>

(* upsert, PUT and import: the read that decides what to do next.          *)

\* Merge the given fields into the row found; `missing` happens when there is none.
MergeInto(c, missing) ==
  /\ \/ LiveAt(req[c].path) = {} /\ missing /\ UNCHANGED draft
     \/ \E id \in LiveAt(req[c].path) :
          /\ draft' = [draft EXCEPT ![c] = Drafted(rows[id], req[c].patch)]
          /\ Goto(c, "updateLookup")
  /\ UNCHANGED <<req, seenId, seen, issued, tables>>

UpsertLookup(c) == pc[c] = "upsertLookup" /\ MergeInto(c, Goto(c, "createLookup"))

MergeLookup(c) == pc[c] = "mergeLookup" /\ MergeInto(c, Finish(c, Failed("notFound")))

ImportLookup(c) ==
  /\ pc[c] = "importLookup"
  /\ Goto(c, IF LiveAt(req[c].path) = {} THEN "createLookup" ELSE "parse")
  /\ UNCHANGED <<req, draft, seenId, seen, issued, tables>>

Parse(c) ==
  /\ pc[c] = "parse"
  /\ \/ /\ ~WellFormed(req[c].patch)
        /\ Finish(c, Failed("invalid"))
        /\ UNCHANGED draft
     \/ /\ WellFormed(req[c].patch)
        /\ draft' = [draft EXCEPT ![c] = Parsed(req[c].patch)]
        /\ Goto(c, "updateLookup")
  /\ UNCHANGED <<req, seenId, seen, issued, tables>>

(* update: look the row up again, validate, then save and overwrite.       *)

UpdateLookup(c) ==
  /\ pc[c] = "updateLookup"
  /\ \/ /\ LiveAt(req[c].path) = {}
        /\ Finish(c, Failed("notFound"))
        /\ UNCHANGED <<seenId, seen>>
     \/ /\ LiveAt(req[c].path) # {}
        /\ draft[c].type = Empty
        /\ Finish(c, Failed("invalid"))
        /\ UNCHANGED <<seenId, seen>>
     \/ \E id \in LiveAt(req[c].path) :
          /\ draft[c].type # Empty
          /\ Remember(c, id)
          /\ Goto(c, "save")
  /\ UNCHANGED <<req, draft, issued, tables>>

\* saveVersionAndUpdate, one transaction.  The snapshot is of the row as it was
\* looked up; the UPDATE matches nothing when the row has been deleted since, and
\* then reading the first returned row fails after the snapshot is committed.
Save(c) ==
  /\ pc[c] = "save"
  /\ LET id == seenId[c]
         old == seen[c]
         new == [version |-> old.version + 1, content |-> Normalised(draft[c])] IN
       /\ snapshots' = [snapshots EXCEPT ![id] = Append(@, SnapshotOf(old))]
       /\ IF Live(id)
          THEN /\ rows' = [rows EXCEPT ![id] = Overwrite(@, old, new.content)]
               /\ held' = [held EXCEPT ![id] = @ \cup {new}]
               /\ Finish(c, Reply(c, new.content, rows[id].reads))
          ELSE /\ Finish(c, Failed("internalError"))
               /\ UNCHANGED <<rows, held>>
  /\ UNCHANGED <<req, draft, seenId, seen, issued>>

(* delete: look the row up, then set deleted_at.                           *)

\* Look the row up and go on to `next` with it.
Find(c, next) ==
  /\ \/ /\ LiveAt(req[c].path) = {}
        /\ Finish(c, Failed("notFound"))
        /\ UNCHANGED <<seenId, seen>>
     \/ \E id \in LiveAt(req[c].path) : Remember(c, id) /\ Goto(c, next)
  /\ UNCHANGED <<req, draft, issued, tables>>

DeleteLookup(c) == pc[c] = "deleteLookup" /\ Find(c, "softDelete")

SoftDelete(c) ==
  /\ pc[c] = "softDelete"
  /\ rows' = [rows EXCEPT ![seenId[c]].deleted = TRUE]
  /\ Finish(c, [Failed("none") EXCEPT !.status = "ok"])
  /\ UNCHANGED <<req, draft, seenId, seen, issued, snapshots, held>>

(* read: look the row up, then count the read when it is tracked.          *)

ReadLookup(c) ==
  /\ pc[c] = "readLookup"
  /\ \/ req[c].kind = "get" /\ Find(c, "increment")
     \/ /\ req[c].kind = "peek"
        /\ Finish(c, IF LiveAt(req[c].path) = {} THEN Failed("notFound")
                     ELSE LET row == rows[CHOOSE id \in LiveAt(req[c].path) : TRUE]
                          IN Reply(c, row.content, row.reads))
        /\ UNCHANGED <<req, draft, seenId, seen, issued, tables>>

\* UPDATE ... SET read_count = read_count + 1 ... RETURNING *
CountedBefore(row) == row  \* mutant: the read is not counted
Counted(row) == [row EXCEPT !.reads = @ + 1]

Increment(c) ==
  /\ pc[c] = "increment"
  /\ LET id == seenId[c] IN
       IF Live(id)
       THEN /\ rows' = [rows EXCEPT ![id] = Counted(@)]
            /\ Finish(c, Reply(c, Counted(rows[id]).content, Counted(rows[id]).reads))
       ELSE /\ Finish(c, Reply(c, seen[c].content, seen[c].reads))
            /\ UNCHANGED rows
  /\ UNCHANGED <<req, draft, seenId, seen, issued, snapshots, held>>

(* listVersions and readVersion.                                           *)

HistoryLookup(c) == pc[c] = "historyLookup" /\ Find(c, "listVersions")

\* ORDER BY version DESC leaves the order of equal versions open.
Listings(log) ==
  LET n == Len(log)
      orders == {p \in [1..n -> 1..n] :
                   /\ \A i, j \in 1..n : i # j => p[i] # p[j]
                   /\ \A i, j \in 1..n : i < j => log[p[i]].version >= log[p[j]].version}
  IN {[i \in 1..n |-> log[p[i]]] : p \in orders}

ListVersions(c) ==
  /\ pc[c] = "listVersions"
  /\ \E l \in Listings(snapshots[seenId[c]]) :
       Finish(c, [Failed("none") EXCEPT !.status = "ok", !.listing = l])
  /\ UNCHANGED <<req, draft, seenId, seen, issued, tables>>

VersionLookup(c) == pc[c] = "versionLookup" /\ Find(c, "findVersion")

\* v.resource ?? existing.resource: a null column falls back to the row's.
Restored(snapshot, row) ==
  [snapshot.content EXCEPT !.resource = IF @ = Null THEN row.content.resource ELSE @]

FindVersion(c) ==
  /\ pc[c] = "findVersion"
  /\ LET log == snapshots[seenId[c]]
         hits == {i \in 1..Len(log) : log[i].version = req[c].version} IN
       \/ /\ hits = {}
          /\ Finish(c, Failed("notFound"))
       \/ \E i \in hits : Finish(c, Reply(c, Restored(log[i], seen[c]), seen[c].reads))
  /\ UNCHANGED <<req, draft, seenId, seen, issued, tables>>

\* The process dies, or its connection is lost, between two statements.
Abort(c) ==
  /\ pc[c] # "idle"
  /\ Finish(c, Failed("aborted"))
  /\ UNCHANGED <<req, draft, seenId, seen, issued, tables>>

Step(c) ==
  \/ CreateLookup(c)  \/ Insert(c)        \/ UpsertLookup(c) \/ MergeLookup(c)
  \/ ImportLookup(c)  \/ Parse(c)         \/ UpdateLookup(c) \/ Save(c)
  \/ DeleteLookup(c)  \/ SoftDelete(c)    \/ ReadLookup(c)   \/ Increment(c)
  \/ HistoryLookup(c) \/ ListVersions(c)  \/ VersionLookup(c) \/ FindVersion(c)

Next == \E c \in Clients : \/ \E r \in Menu[c] : Begin(c, r)
                           \/ Step(c)
                           \/ Abort(c)

Spec == Init /\ [][Next]_vars

-----------------------------------------------------------------------------
(* Properties.                                                             *)

TypeOK ==
  /\ rows \in [Ids -> Row \cup {Null}]
  /\ snapshots \in [Ids -> Seq(Snapshot)]
  /\ pc \in [Clients -> Steps]
  /\ req \in [Clients -> Request \cup {Null}]
  /\ draft \in [Clients -> Content \cup {Null}]
  /\ seenId \in [Clients -> Ids \cup {Null}]
  /\ seen \in [Clients -> Row \cup {Null}]
  /\ answer \in [Clients -> Answer]
  /\ issued \in Nat
  /\ held \in [Ids -> SUBSET Snapshot]

\* At most one live concept per slug of a bundle, whatever creates race each
\* other: the partial unique index is what the lookup-then-insert of create relies on.
ActiveSlugUnique ==
  \A i, j \in Ids : Live(i) /\ Live(j) /\ rows[i].path = rows[j].path => i = j

\* Every snapshot in a concept's history is a state that very concept has had:
\* no write of another concept at the same path, and no half-merged state, ever
\* enters the history (saveVersionAndUpdate works on the id that update looked up).
SnapshotsAuthentic ==
  \A id \in Ids : \A i \in 1..Len(snapshots[id]) : snapshots[id][i] \in held[id]

\* Whatever writers race, each version number below a concept's current one can be
\* read back: numbers may repeat or fall back, but they never skip one.
HistoryContiguous ==
  \A id \in Ids : rows[id] # Null =>
    \A v \in 1..(rows[id].version - 1) :
      \E i \in 1..Len(snapshots[id]) : snapshots[id][i].version = v

\* A soft-deleted concept row is never written again, by requests that looked it
\* up before the deletion included (every UPDATE repeats deleted_at IS NULL).
DeletedRowFrozen ==
  [][\A id \in Ids : rows[id] # Null /\ rows[id].deleted => rows'[id] = rows[id]]_vars

\* Reads counted by concurrent readers are not lost to a writer that looked the
\* row up before them: a step keeps a row's path and its count, or adds one to the
\* count and changes nothing else.
ReadsNeverLost ==
  [][\A id \in Ids : rows[id] # Null =>
       /\ rows'[id].path = rows[id].path
       /\ \/ rows'[id].reads = rows[id].reads
          \/ rows'[id] = [rows[id] EXCEPT !.reads = @ + 1]]_vars

\* No content a concept has had is lost: it is the current one or in the history
\* ("a version snapshot is saved before writing").
HistoryComplete ==
  \A id \in Ids : \A h \in held[id] :
    \/ h = SnapshotOf(rows[id])
    \/ \E i \in 1..Len(snapshots[id]) : snapshots[id][i] = h

\* What upsert and PUT are about to write is the provided fields merged into the
\* concept as it is when the write happens ("the existing frontmatter/body are
\* merged with the provided fields").
MergeIsFresh ==
  \A c \in Clients :
    pc[c] = "save" /\ req[c].kind \in {"upsert", "put", "batchPut"} /\ Live(seenId[c])
      => draft[c] = Merge(rows[seenId[c]].content, req[c].patch)

\* "Create-or-update a concept in a single call": an upsert creates or updates.
UpsertCreatesOrUpdates ==
  \A c \in Clients : req[c] # Null /\ req[c].kind = "upsert" =>
    answer[c].status \notin {"conflict", "uniqueViolation", "notFound"}

\* A tracked read returns a count that includes its own increment ("The response
\* includes the count after increment"), except when the concept was deleted between
\* its lookup and its increment: then it returns what it looked up.
TrackedReadCounted ==
  \A c \in Clients : req[c] # Null /\ req[c].kind = "get" /\ answer[c].status = "ok" =>
    answer[c].reads > seen[c].reads \/ rows[seenId[c]].deleted

\* "Read a specific historical version": what is returned is a state the concept had
\* under that number.
VersionReadFaithful ==
  \A c \in Clients : req[c] # Null /\ req[c].kind = "version" /\ answer[c].status = "ok" =>
    [version |-> req[c].version, content |-> answer[c].content] \in held[seenId[c]]

-----------------------------------------------------------------------------
(* What the store promises as a map from paths to versioned documents.     *)

Document(id) ==
  [content |-> rows[id].content, version |-> rows[id].version, reads |-> rows[id].reads,
   archive |-> snapshots[id], past |-> held[id]]

ASSUME DocumentAssumption ==
  Null \notin [content : Content, version : Nat, reads : Nat, archive : Seq(Snapshot),
               past : SUBSET Snapshot]

Documents ==
  [p \in Paths |-> IF LiveAt(p) = {} THEN Null ELSE Document(CHOOSE id \in LiveAt(p) : TRUE)]

Map == INSTANCE VersionedMap WITH doc <- Documents, Contents <- Content, None <- Null

\* Under any interleaving the store is a map whose writes archive some state the
\* overwritten document has had and continue its numbering.
ImplementsRacyMap == Map!RacySpec

\* A store whose writers do not overlap is a map whose writes archive exactly the
\* state they overwrite, atomically.
ImplementsMap == Map!Spec
=============================================================================
