------------------------------ MODULE Archive -------------------------------
(***************************************************************************)
(* The export of a root bundle as a tar archive and the import of one,     *)
(* beside the requests and syncs of FsMirror: BundleExportService and      *)
(* BundleImportService.                                                    *)
(*                                                                         *)
(* An export finds the root, lists its tree and then lists and writes one  *)
(* directory after the other while requests go on changing them.  An       *)
(* import takes the files of an archive one by one: it looks whether there *)
(* is a concept of that name and then updates or creates it, waiting for   *)
(* the sync that the update starts.                                        *)
(*                                                                         *)
(* A concept's path changes on its way: safeName replaces characters, the  *)
(* tar header has room for 100 bytes, import strips .md and                *)
(* normalizeConceptPath strips it once more.                               *)
(***************************************************************************)
EXTENDS FsMirror, Sequences

CONSTANTS
  Importer,   \* the client who imports
  BySlug,     \* the names in the order of the query
  Safe,       \* a concept's directory and name -> those safeName makes of them
  Bare,       \* a file's directory and name -> those it is imported under
  Long,       \* the concepts with a path over 100 bytes
  Lost,       \* a file that import skips
  Malformed,  \* what parseConcept rejects
  Uploads,    \* archives that come from elsewhere
  Workloads   \* bounds: a database, whether it is mirrored, the names that other requests
              \* use, how many changes, crashes, exports and imports there may be

Concepts == Dirs \X Names
Entry == [file : Concepts \cup {Lost}, text : Stored \cup {Malformed}]

ASSUME ArchiveAssumption ==
  /\ Importer \in Clients
  /\ BySlug \in Seq(Names) /\ \A n \in Names : \E i \in DOMAIN BySlug : BySlug[i] = n
  /\ Lost \notin Concepts /\ Malformed \notin Stored \cup {Null, Torn}
  /\ Safe \in [Concepts -> Concepts] /\ Bare \in [Concepts -> Concepts] /\ Long \subseteq Concepts
  /\ Uploads \subseteq Seq(Entry)
  /\ \A w \in Workloads : /\ w.vault \in Vaults /\ w.mirroring \in BOOLEAN
                          /\ w.names \subseteq Names
                          /\ w.changes \in 0..MaxRequests /\ w.crashes \in 0..MaxCrashes
                          /\ w.exports \in Nat /\ w.imports \in Nat

VARIABLES
  workload, \* the bounds of this behaviour
  export,   \* the export under way: where it is, directories to list, entries written
  archive,  \* what the last export has delivered, Null if that is no archive
  import,   \* the import under way: where it is, files left, whether the concept was found,
            \* how many files have failed, and whether its spelling of the root is exact
  exports, imports,  \* how many may still be started
  kept,     \* history: concepts that have been as they are since the export started
  ever,     \* history: the states concepts have had since then
  before,   \* history: the concepts when the import started
  given,    \* history: the files it has been given
  alone     \* history: nobody has changed a concept since then

exporting == <<export, archive, exports, kept, ever>>
importing == <<workload, imports, before, given, alone>>

NoExport == [at |-> "idle", dirs |-> {}, entries |-> <<>>]
NoImport == [at |-> "idle", files |-> <<>>, found |-> FALSE, failed |-> 0, exact |-> FALSE]

\* The concepts there are, with what they say.
Now == {<<d, n, docs[d][n]>> : d \in Tree, n \in Names} \ {<<d, n, Null>> : d \in Dirs, n \in Names}

-----------------------------------------------------------------------------
(* Export.                                                                 *)

\* Find the root by the spelling of the request.  Without one the response is empty,
\* which is no archive.
FindRoot ==
  /\ export.at = "idle" /\ exports > 0
  /\ exports' = exports - 1
  /\ \/ /\ Root \in live
        /\ export' = [NoExport EXCEPT !.at = "tree", !.dirs = {Root}]
        /\ kept' = Now /\ ever' = Now
        /\ UNCHANGED archive
     \/ /\ archive' = Null
        /\ UNCHANGED <<export, kept, ever>>
  /\ UNCHANGED <<vars, import, importing>>

\* List the subtree below the row that was found, which may be gone.
ListTree ==
  /\ export.at = "tree"
  /\ export' = [export EXCEPT !.at = "dirs", !.dirs = IF @ = {} THEN {} ELSE Tree]
  /\ UNCHANGED <<vars, archive, exports, kept, ever, import, importing>>

\* Under a name that is too long the header says ././@LongLink, which ends in no .md.
EntryName(d, n) == IF <<d, n>> \in Long THEN Lost ELSE Safe[<<d, n>>]

\* The names of the concepts in a directory, in the order of slugs.
Rows(d) == {n \in Names : docs[d][n] # Null}
Sorted(names) ==
  \A i, j \in DOMAIN names : i < j =>
    \E a, b \in DOMAIN BySlug : a < b /\ BySlug[a] = names[i] /\ BySlug[b] = names[j]
Listings(d) ==
  {names \in [1..Cardinality(Rows(d)) -> Rows(d)] :
     Sorted(names) /\ \A n \in Rows(d) : \E i \in DOMAIN names : names[i] = n}

\* The entries made of them.
EntriesAtRoot(d, names) ==  \* mutant: the directory's path is not found in the path map
  [i \in DOMAIN names |-> [file |-> EntryName(Root, names[i]), text |-> docs[d][names[i]]]]
Entries(d, names) ==
  [i \in DOMAIN names |-> [file |-> EntryName(d, names[i]), text |-> docs[d][names[i]]]]

\* List the concepts of a directory and write them.
ListDir(d) ==
  /\ export.at = "dirs" /\ d \in export.dirs
  /\ \A n \in Names : docs[d][n] # Unrenderable
  /\ \E names \in Listings(d) :
       export' = [export EXCEPT !.dirs = @ \ {d}, !.entries = @ \o Entries(d, names)]
  /\ UNCHANGED <<vars, archive, exports, kept, ever, import, importing>>

\* With the process end the transfers under way.
Cut == /\ export' = NoExport /\ import' = NoImport
       /\ kept' = {} /\ ever' = {} /\ before' = Blank /\ given' = <<>> /\ alone' = FALSE
       /\ UNCHANGED <<workload, archive, exports, imports>>

\* A concept that cannot be rendered makes the source of the pipe fail; nobody listens for
\* its error, and the process dies of it.
ExportFails(d) ==
  /\ export.at = "dirs" /\ d \in export.dirs
  /\ \E n \in Names : docs[d][n] = Unrenderable
  /\ Die
  /\ Cut
  /\ UNCHANGED crashes

EndExport ==
  /\ export.at = "dirs" /\ export.dirs = {}
  /\ archive' = export.entries
  /\ export' = NoExport
  /\ kept' = {} /\ ever' = {}
  /\ UNCHANGED <<vars, exports, import, importing>>

\* What a change of the database means to an export: a listed directory that is deleted has
\* no concepts, and one that takes its place later is another row.
SeenByExport ==
  /\ export' = [export EXCEPT !.dirs = @ \cap live']
  /\ kept' = IF export.at # "idle" THEN kept \cap Now' ELSE kept
  /\ ever' = IF export.at # "idle" THEN ever \cup Now' ELSE ever
  /\ UNCHANGED <<archive, exports>>

-----------------------------------------------------------------------------
(* Import.                                                                 *)

\* The path to import a file under.
ImportPath(e) == Bare[e.file]

\* Unpack the archive.
Unpack ==
  /\ import.at = "idle" /\ pc[Importer] = "idle" /\ imports > 0
  /\ imports' = imports - 1
  /\ \E files \in Uploads \cup ({archive} \ {Null}) : \E exact \in BOOLEAN :
       /\ import' = [NoImport EXCEPT !.at = "look", !.files = files, !.exact = exact]
       /\ given' = files
  /\ before' = docs /\ alone' = TRUE
  /\ UNCHANGED <<vars, exporting, workload>>

\* A file that is no .md file is passed over.
Skip ==
  /\ import.at = "look" /\ import.files # <<>> /\ pc[Importer] = "idle"
  /\ Head(import.files).file = Lost
  /\ import' = [import EXCEPT !.files = Tail(@)]
  /\ UNCHANGED <<vars, exporting, workload, imports, before, given, alone>>

There(f) == f[1] \in Tree /\ docs[f[1]][f[2]] # Null

\* Read the concept the next file names, once the sync of the last update has ended.
LookUpNothing ==  \* mutant: the result of the look-up is not used
  /\ import.at = "look" /\ import.files # <<>> /\ pc[Importer] = "idle"
  /\ Head(import.files).file # Lost
  /\ import' = [import EXCEPT !.at = "put", !.found = FALSE]
  /\ UNCHANGED <<vars, exporting, workload, imports, before, given, alone>>
LookUp ==
  /\ import.at = "look" /\ import.files # <<>> /\ pc[Importer] = "idle"
  /\ Head(import.files).file # Lost
  /\ import' = [import EXCEPT !.at = "put", !.found = There(ImportPath(Head(import.files)))]
  /\ UNCHANGED <<vars, exporting, workload, imports, before, given, alone>>

\* On to the next file.
DoneOver(ok) ==  \* mutant: what has failed is neither reported nor left behind
  import' = [import EXCEPT !.at = "look", !.files = IF ok THEN Tail(@) ELSE @]
DoneRetrying(ok) ==  \* mutant: a file that has failed is tried again
  import' = [import EXCEPT !.at = "look", !.files = IF ok THEN Tail(@) ELSE @,
                           !.failed = IF ok THEN @ ELSE @ + 1]
Done(ok) == import' = [import EXCEPT !.at = "look", !.files = Tail(@),
                                     !.failed = IF ok THEN @ ELSE @ + 1]

\* updateFromMarkdown: parse, find the concept again, write it and sync.
PutUpdate ==
  LET file == ImportPath(Head(import.files))
      text == Head(import.files).text
  IN  /\ import.at = "put" /\ import.found
      /\ \/ /\ text # Malformed /\ There(file)
            /\ docs' = [docs EXCEPT ![file[1]][file[2]] = text]
            /\ Follow(Importer, mirroring /\ import.exact)
            /\ Done(TRUE)
            /\ UNCHANGED <<live, changes>>
         \/ /\ text = Malformed \/ ~There(file)
            /\ Done(FALSE)
            /\ UNCHANGED vars
      /\ SeenByExport
      /\ UNCHANGED <<workload, imports, before, given, alone>>

\* createFromMarkdown: find or create the directory, then the conflict, then parse; the
\* directory stays when that fails.  No sync.
PutCreate ==
  LET file == ImportPath(Head(import.files))
      text == Head(import.files).text
      fits == ~There(file) /\ text # Malformed
  IN  /\ import.at = "put" /\ ~import.found
      /\ \/ /\ Root \in live
            /\ live' = live \cup {file[1]}
            /\ docs' = IF fits THEN [docs EXCEPT ![file[1]][file[2]] = text] ELSE docs
            /\ IF database' = database THEN UNCHANGED vars
               ELSE Follow(Importer, FALSE) /\ UNCHANGED changes
            /\ Done(fits)
         \/ /\ Root \notin live
            /\ Done(FALSE)
            /\ UNCHANGED vars
      /\ SeenByExport
      /\ UNCHANGED <<workload, imports, before, given, alone>>

EndImport ==
  /\ import.at = "look" /\ import.files = <<>> /\ pc[Importer] = "idle"
  /\ import' = NoImport
  /\ before' = Blank /\ given' = <<>> /\ alone' = FALSE
  /\ UNCHANGED <<vars, exporting, workload, imports>>

-----------------------------------------------------------------------------
ArchiveInit ==
  /\ Init
  /\ workload \in Workloads
  /\ live = workload.vault.live /\ docs = workload.vault.docs
  /\ mirroring = workload.mirroring
  /\ changes = MaxRequests - workload.changes /\ crashes = MaxCrashes - workload.crashes
  /\ exports = workload.exports /\ imports = workload.imports
  /\ export = NoExport /\ import = NoImport /\ archive = Null
  /\ kept = {} /\ ever = {} /\ before = Blank /\ given = <<>> /\ alone = FALSE

\* Somebody else's request.
Other ==
  /\ \E c \in Clients \ {Importer} : RequestOn(c, workload.names)
  /\ SeenByExport
  /\ alone' = FALSE
  /\ UNCHANGED <<import, workload, imports, before, given>>

ExportStep == FindRoot \/ ListTree \/ (\E d \in Dirs : ListDir(d) \/ ExportFails(d)) \/ EndExport

ImportStep == Skip \/ LookUp \/ PutUpdate \/ PutCreate \/ EndImport

\* A sync goes on.
SyncOn(p) == SyncStep(p) /\ UNCHANGED <<exporting, import, importing>>

ArchiveNext ==
  \/ Crash /\ Cut
  \/ \E p \in Procs : SyncOn(p)
  \/ Other
  \/ ExportStep
  \/ Unpack \/ ImportStep

archiveVars == <<vars, exporting, import, importing>>

ArchiveSpec ==
  /\ ArchiveInit /\ [][ArchiveNext]_archiveVars
  /\ \A p \in Procs : WF_archiveVars(SyncOn(p))
  /\ WF_archiveVars(ImportStep)

-----------------------------------------------------------------------------
(* Properties.                                                             *)

ArchiveTypeOK ==
  /\ export.at \in {"idle", "tree", "dirs"} /\ export.dirs \subseteq Dirs
  /\ \A i \in DOMAIN export.entries : export.entries[i] \in Entry
  /\ archive # Null => \A i \in DOMAIN archive : archive[i] \in Entry
  /\ import.at \in {"idle", "look", "put"}
  /\ import.failed + Len(import.files) <= Len(given)
  /\ kept \subseteq ever /\ ever \subseteq Dirs \X Names \X Stored

\* An archive is no snapshot, but what it holds is true: a concept that nobody changed from
\* the start to the end of the export is in it with its content, and every
\* entry is what some concept of that place said in the meantime.
ExportFaithful ==
  export.at = "dirs" /\ export.dirs = {} =>
    LET delivered == {export.entries[i] : i \in DOMAIN export.entries}
        entry(k) == [file |-> EntryName(k[1], k[2]), text |-> k[3]]
    IN  {entry(k) : k \in kept} \subseteq delivered /\ delivered \subseteq {entry(k) : k \in ever}

\* What an import should make of what was there: the last file of a name wins, one that
\* cannot be parsed changes nothing, and no other concept is touched.
IsFile(i) == given[i].file # Lost
Says(d, n, i) == IsFile(i) /\ ImportPath(given[i]) = <<d, n>> /\ given[i].text # Malformed
Restored(d, n) ==
  IF \E i \in DOMAIN given : Says(d, n, i)
  THEN docs[d][n] = given[CHOOSE i \in DOMAIN given :
                            /\ Says(d, n, i)
                            /\ \A j \in DOMAIN given : Says(d, n, j) => j <= i].text
  ELSE docs[d][n] = before[d][n]

\* An import that nobody disturbs does exactly that, and reports as failed exactly the files
\* that cannot be parsed, whatever an interrupted import, an incomplete archive or names
\* that collide have left before.
ImportRestores ==
  import.at = "look" /\ import.files = <<>> /\ alone /\ Root \in live =>
    /\ \A d \in Dirs : \A n \in Names : Restored(d, n)
    /\ import.failed = Cardinality({i \in DOMAIN given : IsFile(i) /\ given[i].text = Malformed})

\* No failing file and no sync in between keeps an import from ending.
ImportsEnd == import.at # "idle" ~> import.at = "idle"

=============================================================================
