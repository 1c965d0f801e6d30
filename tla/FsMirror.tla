------------------------------ MODULE FsMirror ------------------------------
(***************************************************************************)
(* The mirror of one root bundle on disk, as FsSyncService keeps it.       *)
(*                                                                         *)
(* A request changes the database and then runs syncBundle before it       *)
(* answers; the process runs syncAll once when it starts, without waiting  *)
(* for it.  A sync lists the database, writes the generated index.md and   *)
(* log.md of every directory, writes every concept, and removes the .md    *)
(* files it has not written.  Nothing keeps syncs apart, so they interleave*)
(* with each other and with requests at every await.                       *)
(*                                                                         *)
(* The database appears as BundleTree's namespace does: a change is one    *)
(* step.  The queries of one listing are one step too.                     *)
(***************************************************************************)
EXTENDS Naturals, FiniteSets

CONSTANTS
  Clients,       \* concurrent requests' issuers
  Startup,       \* the process's own initial sync
  Root,          \* the root bundle's directory
  Children,      \* its subdirectories
  Names,         \* concept file names
  Derived,       \* generated file names: index.md and log.md
  Contents,      \* what a concept says
  Unrenderable,  \* a concept serializeConcept rejects (its type is blank)
  Torn,          \* what a crash leaves of a file that is being written
  Null,
  Vaults,        \* databases that mirroring may be switched on for
  MaxRequests,   \* bound: changes of the database in one behaviour
  MaxCrashes     \* bound: crashes in one behaviour

Dirs == {Root} \cup Children
Procs == Clients \cup {Startup}
Files == Names \cup Derived
Stored == Contents \cup {Unrenderable}

ASSUME ConstantsAssumption ==
  /\ Startup \notin Clients /\ Root \notin Children
  /\ Names \cap Derived = {}
  /\ Unrenderable \notin Contents /\ Torn \notin Stored
  /\ Null \notin Stored \cup {Torn} \cup Procs
  /\ \A v \in Vaults : /\ v.live \subseteq Dirs
                       /\ v.live # {} => Root \in v.live
                       /\ v.docs \in [Dirs -> [Names -> Stored \cup {Null}]]
  /\ MaxRequests \in Nat /\ MaxCrashes \in Nat

VARIABLES
  live,     \* directories with a live bundle row
  docs,     \* directory -> name -> the live concept there, or Null
  mirroring, \* a storage path is configured
  disk,     \* directory -> file name -> what the file says, or Null
  pc,       \* process -> where it is in its sync
  listing,  \* process -> the directories and concepts its sync has listed
  todo,     \* process -> files it has still to write
  buffer,   \* process -> the generated file it is writing and its text
  written,  \* process -> files it has written: expectedFiles
  unswept,  \* process -> directories it has still to clean up
  stale,    \* process -> files it has found stale and has still to unlink
  changes, crashes,
  quiet,    \* history: syncs that have overlapped no change and no other sync
  settled   \* history: the quiet sync that has ended last, Null after a change

database == <<live, docs>>
sync == <<listing, todo, buffer, written, unswept, stale>>
vars == <<database, mirroring, disk, pc, sync, changes, crashes, quiet, settled>>

Everything(c) == [n \in Names |-> c]
Blank == [d \in Dirs |-> Everything(Null)]
NoListing == [dirs |-> {}, docs |-> Blank]
NoBuffer == [file |-> Null, text |-> Null]

-----------------------------------------------------------------------------
(* Syncing.                                                                *)

\* Directories reachable from a live root.
Tree == IF Root \in live THEN live ELSE {}

\* IndexService has no BundleService in the services that requests use: the sync
\* object handed to them was built before it existed.
HasBundles(p) == p = Startup

\* What index.md and log.md of d are made from: everything in and below d.
Below(d) == IF d = Root THEN Tree ELSE {d}
Text(d) == [b \in Below(d) |-> docs[b]]

\* The sync that p starts overlaps every other sync that is under way.
Syncing == {p \in Procs : pc[p] # "idle"}
Begins(p) == quiet' = IF Syncing = {} THEN {p} ELSE {}

\* p has gone through its sync.
Ends(p) == /\ pc' = [pc EXCEPT ![p] = "idle"]
           /\ settled' = IF p \in quiet THEN p ELSE Null
           /\ quiet' = quiet \ {p}

\* The loops go through their items in the order of the queries; any one order will do.
First(items) == CHOOSE t \in items : TRUE

\* List the subtree and the concepts in it; without a root there is nothing to sync.
List(p) ==
  /\ pc[p] = "list"
  /\ IF Tree = {}
     THEN /\ Ends(p)
          /\ UNCHANGED sync
     ELSE /\ pc' = [pc EXCEPT ![p] = "sync"]
          /\ listing' = [listing EXCEPT ![p] = [dirs |-> Tree, docs |-> docs]]
          /\ todo' = [todo EXCEPT ![p] =
                        {<<d, f>> : d \in Tree, f \in Derived} \cup
                        {t \in Tree \X Names : docs[t[1]][t[2]] # Null}]
          /\ written' = [written EXCEPT ![p] = {}]
          /\ unswept' = [unswept EXCEPT ![p] = Tree]
          /\ UNCHANGED <<buffer, stale, quiet, settled>>
  /\ UNCHANGED <<database, mirroring, disk, changes, crashes>>

\* Generate the text of index.md or log.md.  An error is swallowed: the file is not
\* written, so it is not expected either.
Generate(p) ==
  /\ pc[p] = "sync"
  /\ \E t \in todo[p] : t[2] \in Derived
  /\ LET t == First({i \in todo[p] : i[2] \in Derived}) IN
       IF HasBundles(p) /\ t[1] \in Tree
       THEN /\ buffer' = [buffer EXCEPT ![p] = [file |-> t, text |-> Text(t[1])]]
            /\ pc' = [pc EXCEPT ![p] = "write"]
            /\ UNCHANGED todo
       ELSE /\ todo' = [todo EXCEPT ![p] = @ \ {t}]
            /\ UNCHANGED <<buffer, pc>>
  /\ UNCHANGED <<database, mirroring, disk, listing, written, unswept, stale, changes, crashes, quiet,
                 settled>>

\* p has written `text` to the file t.
Wrote(p, t, text) ==
  /\ disk' = [disk EXCEPT ![t[1]][t[2]] = text]
  /\ written' = [written EXCEPT ![p] = @ \cup {t}]
  /\ todo' = [todo EXCEPT ![p] = @ \ {t}]

WriteGenerated(p) ==
  /\ pc[p] = "write"
  /\ Wrote(p, buffer[p].file, buffer[p].text)
  /\ buffer' = [buffer EXCEPT ![p] = NoBuffer]
  /\ pc' = [pc EXCEPT ![p] = "sync"]
  /\ UNCHANGED <<database, mirroring, listing, unswept, stale, changes, crashes, quiet, settled>>

\* Write the concepts as they were listed; one that cannot be rendered is skipped.
WriteConceptUnchecked(p) ==  \* mutant: what cannot be rendered is written anyway
  /\ pc[p] = "sync"
  /\ todo[p] # {} /\ \A t \in todo[p] : t[2] \in Names
  /\ LET t == First(todo[p]) IN Wrote(p, t, listing[p].docs[t[1]][t[2]])
  /\ UNCHANGED <<database, mirroring, pc, listing, buffer, unswept, stale, changes, crashes, quiet, settled>>
WriteConceptStuck(p) ==  \* mutant: a concept that cannot be rendered is tried again
  /\ pc[p] = "sync"
  /\ todo[p] # {} /\ \A t \in todo[p] : t[2] \in Names
  /\ LET t == First(todo[p]) IN /\ listing[p].docs[t[1]][t[2]] # Unrenderable
                                /\ Wrote(p, t, listing[p].docs[t[1]][t[2]])
  /\ UNCHANGED <<database, mirroring, pc, listing, buffer, unswept, stale, changes, crashes, quiet, settled>>
WriteConcept(p) ==
  /\ pc[p] = "sync"
  /\ todo[p] # {} /\ \A t \in todo[p] : t[2] \in Names
  /\ LET t == First(todo[p]) IN
       IF listing[p].docs[t[1]][t[2]] = Unrenderable
       THEN /\ todo' = [todo EXCEPT ![p] = @ \ {t}]
            /\ UNCHANGED <<disk, written>>
       ELSE Wrote(p, t, listing[p].docs[t[1]][t[2]])
  /\ UNCHANGED <<database, mirroring, pc, listing, buffer, unswept, stale, changes, crashes, quiet, settled>>

\* removeStaleFiles of one directory: read it, then unlink one file after the other.
StaleAll(p, d) ==  \* mutant: the files just written are not spared
  {f \in Files : disk[d][f] # Null}
StaleDerived(p, d) ==  \* mutant: only generated files are cleaned up
  {f \in Derived : disk[d][f] # Null /\ <<d, f>> \notin written[p]}
Stale(p, d) == {f \in Files : disk[d][f] # Null /\ <<d, f>> \notin written[p]}

ReadDir(p) ==
  /\ pc[p] = "sync" /\ todo[p] = {} /\ stale[p] = {} /\ unswept[p] # {}
  /\ LET d == First(unswept[p]) IN
       /\ unswept' = [unswept EXCEPT ![p] = @ \ {d}]
       /\ stale' = [stale EXCEPT ![p] = {<<d, f>> : f \in Stale(p, d)}]
  /\ UNCHANGED <<database, mirroring, disk, pc, listing, todo, buffer, written, changes, crashes, quiet,
                 settled>>

\* A file that is gone already ends the clean-up of its directory.
Unlink(p) ==
  /\ stale[p] # {}
  /\ LET t == First(stale[p]) IN
       \/ /\ disk[t[1]][t[2]] = Null
          /\ stale' = [stale EXCEPT ![p] = {}]
          /\ UNCHANGED disk
       \/ /\ disk[t[1]][t[2]] # Null
          /\ disk' = [disk EXCEPT ![t[1]][t[2]] = Null]
          /\ stale' = [stale EXCEPT ![p] = @ \ {t}]
  /\ UNCHANGED <<database, mirroring, pc, listing, todo, buffer, written, unswept, changes, crashes, quiet,
                 settled>>

End(p) ==
  /\ pc[p] = "sync" /\ todo[p] = {} /\ stale[p] = {} /\ unswept[p] = {}
  /\ Ends(p)
  /\ UNCHANGED <<database, mirroring, disk, sync, changes, crashes>>

-----------------------------------------------------------------------------
(* Requests.                                                               *)

\* c has changed the database and has a sync to run before it goes on, unless there is no
\* mirror or the handler does not sync: syncBundle finds nothing under a root slug in
\* another case.
Follow(c, syncs) ==
  /\ syncs => mirroring
  /\ settled' = Null
  /\ IF syncs THEN Begins(c) ELSE quiet' = {}
  /\ pc' = [pc EXCEPT ![c] = IF syncs THEN "list" ELSE "idle"]
  /\ UNCHANGED <<mirroring, disk, sync, crashes>>

Changed(c, syncs) ==
  /\ pc[c] = "idle"
  /\ changes < MaxRequests
  /\ changes' = changes + 1
  /\ Follow(c, syncs)

\* BundleService.create.
MakeDir(c, d) ==
  /\ d \notin live /\ (d # Root => Root \in live)
  /\ live' = live \cup {d}
  /\ docs' = [docs EXCEPT ![d] = Everything(Null)]
  /\ \E exact \in BOOLEAN : Changed(c, exact)

\* BundleService.delete; the directories below go with it, their files stay.
RemoveDir(c, d) ==
  /\ d \in Tree
  /\ live' = live \ Below(d)
  /\ docs' = [b \in Dirs |-> IF b \in Below(d) THEN Everything(Null) ELSE docs[b]]
  /\ \E exact \in BOOLEAN : Changed(c, exact)

\* ConceptService.create, and createFromMarkdown, which does not sync.  A directory
\* that is missing is created on the way.
Create(c, d, n, content) ==
  /\ Root \in live /\ docs[d][n] = Null
  /\ live' = live \cup {d}
  /\ docs' = [docs EXCEPT ![d][n] = content]
  /\ \E exact \in BOOLEAN : Changed(c, exact)

Update(c, d, n, content) ==
  /\ d \in Tree /\ docs[d][n] \notin {Null, content}
  /\ docs' = [docs EXCEPT ![d][n] = content]
  /\ \E exact \in BOOLEAN : Changed(c, exact)
  /\ UNCHANGED live

Delete(c, d, n) ==
  /\ d \in Tree /\ docs[d][n] # Null
  /\ docs' = [docs EXCEPT ![d][n] = Null]
  /\ \E exact \in BOOLEAN : Changed(c, exact)
  /\ UNCHANGED live

-----------------------------------------------------------------------------
\* Nothing is being synced but, where files are mirrored, what the start-up sync finds.
Starting(on) == [p \in Procs |-> IF on /\ p = Startup THEN "list" ELSE "idle"]

\* Mirroring may be switched on for a database that is not empty.  Behaviours with any
\* number of changes and crashes up to the bounds.
Init ==
  /\ \E v \in Vaults : live = v.live /\ docs = v.docs
  /\ mirroring \in BOOLEAN
  /\ disk = [d \in Dirs |-> [f \in Files |-> Null]]
  /\ pc = Starting(mirroring)
  /\ listing = [p \in Procs |-> NoListing]
  /\ todo = [p \in Procs |-> {}]
  /\ buffer = [p \in Procs |-> NoBuffer]
  /\ written = [p \in Procs |-> {}]
  /\ unswept = [p \in Procs |-> {}]
  /\ stale = [p \in Procs |-> {}]
  /\ changes \in 0..MaxRequests /\ crashes \in 0..MaxCrashes
  /\ quiet = {p \in Procs : pc[p] = "list"} /\ settled = Null

\* The process dies, perhaps in the middle of writing one file, and starts again.
Die ==
  /\ \/ UNCHANGED disk
     \/ \E p \in Procs : \E t \in todo[p] :
          /\ pc[p] = IF t[2] \in Derived THEN "write" ELSE "sync"
          /\ disk' = [disk EXCEPT ![t[1]][t[2]] = Torn]
  /\ pc' = Starting(mirroring)
  /\ listing' = [p \in Procs |-> NoListing]
  /\ todo' = [p \in Procs |-> {}]
  /\ buffer' = [p \in Procs |-> NoBuffer]
  /\ written' = [p \in Procs |-> {}]
  /\ unswept' = [p \in Procs |-> {}]
  /\ stale' = [p \in Procs |-> {}]
  /\ quiet' = {p \in Procs : pc'[p] = "list"} /\ settled' = Null
  /\ UNCHANGED <<database, mirroring, changes>>

Crash ==
  /\ crashes < MaxCrashes
  /\ crashes' = crashes + 1
  /\ Die

SyncStep(p) == \/ List(p)         \/ Generate(p) \/ WriteGenerated(p)
               \/ WriteConcept(p) \/ ReadDir(p)  \/ Unlink(p) \/ End(p)

RequestOn(c, names) ==
  \E d \in Dirs :
    \/ MakeDir(c, d) \/ RemoveDir(c, d)
    \/ \E n \in names : \/ Delete(c, d, n)
                        \/ \E x \in Stored : Create(c, d, n, x) \/ Update(c, d, n, x)

Request(c) == RequestOn(c, Names)

Next == Crash \/ (\E p \in Procs : SyncStep(p)) \/ (\E c \in Clients : Request(c))

\* The event loop runs every promise that can go on, and file operations return.
Spec == Init /\ [][Next]_vars /\ \A p \in Procs : WF_vars(SyncStep(p))

-----------------------------------------------------------------------------
(* Properties.                                                             *)

Texts == UNION {[ds -> [Names -> Stored \cup {Null}]] : ds \in SUBSET Dirs}

TypeOK ==
  /\ mirroring \in BOOLEAN
  /\ live \subseteq Dirs
  /\ docs \in [Dirs -> [Names -> Stored \cup {Null}]]
  /\ \A d \in Dirs : /\ DOMAIN disk[d] = Files
                     /\ \A n \in Names : disk[d][n] \in Contents \cup {Torn, Null}
                     /\ \A f \in Derived : disk[d][f] \in Texts \cup {Torn, Null}
  /\ pc \in [Procs -> {"idle", "list", "sync", "write"}]
  /\ \A p \in Procs : /\ listing[p].dirs \subseteq Dirs
                      /\ todo[p] \subseteq Dirs \X Files
                      /\ written[p] \subseteq Dirs \X Files
                      /\ unswept[p] \subseteq Dirs
                      /\ stale[p] \subseteq Dirs \X Files
  /\ quiet \subseteq Procs
  /\ settled \in Procs \cup {Null}

\* What the disk should say of a concept: nothing of one that cannot be rendered.
Mirrored(d, n) == disk[d][n] = IF docs[d][n] = Unrenderable THEN Null ELSE docs[d][n]

\* After a sync that overlapped neither a change nor another sync, the directories of
\* the tree hold exactly its concepts, whatever stale, missing or torn files earlier
\* overlapping or interrupted syncs had left there.
QuietSyncMirrorsConcepts ==
  settled # Null => \A d \in Tree : \A n \in Names : Mirrored(d, n)

\* "Synthesizes index.md and log.md": after such a sync at start-up every directory
\* also has its generated files, and they agree with the concepts next to them.
StartupMirrorsAll ==
  settled = Startup => \A d \in Tree : \A f \in Derived : disk[d][f] = Text(d)

\* "every mutation triggers a sync so the filesystem tree is always an up-to-date
\* representation of the database contents": the same after any such sync.
GeneratedFilesMirrored ==
  settled # Null => \A d \in Tree : \A f \in Derived : disk[d][f] = Text(d)

\* No listing order, missing file or unrenderable concept keeps a sync, and with it the
\* request that waits for it, from ending.
SyncsEnd == \A p \in Procs : pc[p] # "idle" ~> pc[p] = "idle"

=============================================================================
