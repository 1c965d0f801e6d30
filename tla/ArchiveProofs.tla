--------------------------- MODULE ArchiveProofs ----------------------------
(***************************************************************************)
(* Proofs about Archive, for any directories, names, contents, databases,  *)
(* archives and workloads, and any way names change in an archive.         *)
(***************************************************************************)
EXTENDS Archive, FsMirrorProofs, SequenceTheorems, FiniteSetTheorems, TLAPS

\* The database: the directories below a root go with it.
DatabaseOK ==
  /\ live \subseteq Dirs
  /\ live # {} => Root \in live
  /\ docs \in [Dirs -> [Names -> Stored \cup {Null}]]

\* The entry made of a concept.
EntryOf(k) == [file |-> EntryName(k[1], k[2]), text |-> k[3]]
Delivered == {export.entries[i] : i \in DOMAIN export.entries}

\* A concept that stays as it is waits in a directory still to be listed until it is in the
\* archive, and what is in the archive comes from a concept.
KeptWaits == \A k \in kept : k[1] \in export.dirs \/ EntryOf(k) \in Delivered
NothingElse == \A e \in Delivered : \E k \in ever : e = EntryOf(k)

\* That needs the directories still to be listed to be live.
ExportOK ==
  /\ export \in [at : {"idle", "tree", "dirs"}, dirs : SUBSET Dirs, entries : Seq(Entry)]
  /\ kept \subseteq ever /\ ever \subseteq Dirs \X Names \X Stored
  /\ export.at # "idle" => kept \subseteq Now /\ Now \subseteq ever
  /\ export.at = "tree" => /\ export.entries = <<>>
                           /\ kept # {} => Root \in export.dirs
  /\ export.at = "dirs" => export.dirs \subseteq live /\ KeptWaits /\ NothingElse

ImportOK ==
  /\ workload \in Workloads
  /\ archive \in Seq(Entry) \cup {Null}
  /\ import \in [at : {"idle", "look", "put"}, files : Seq(Entry), found : BOOLEAN,
                 failed : Nat, exact : BOOLEAN]
  /\ given \in Seq(Entry)
  /\ import.failed + Len(import.files) <= Len(given)
  /\ import.at = "put" => import.files # <<>> /\ Head(import.files).file # Lost

IInv == DatabaseOK /\ ExportOK /\ ImportOK

-----------------------------------------------------------------------------
(* The database.                                                           *)

LEMMA NowType ==
  ASSUME DatabaseOK
  PROVE  /\ Now \subseteq Dirs \X Names \X Stored
         /\ \A d \in Tree, n \in Names : docs[d][n] # Null => <<d, n, docs[d][n]>> \in Now
         /\ \A k \in Now : k[1] \in Tree /\ k[2] \in Names /\ k[3] = docs[k[1]][k[2]] /\ k[3] # Null
         /\ Tree = live
<1>1. Tree = live  BY DEF DatabaseOK, Tree
<1>2. \A d \in Tree, n \in Names : d \in Dirs /\ docs[d][n] \in Stored \cup {Null}
  BY <1>1 DEF DatabaseOK
<1>3. \A k \in Now : \E d \in Tree, n \in Names : k = <<d, n, docs[d][n]>> /\ docs[d][n] # Null
  BY <1>2 DEF Now
<1>4. Now \subseteq Dirs \X Names \X Stored  BY <1>2, <1>3
<1>5. \A d \in Tree, n \in Names : docs[d][n] # Null => <<d, n, docs[d][n]>> \in Now
  BY <1>2 DEF Now
<1>. QED BY <1>1, <1>3, <1>4, <1>5

\* A request leaves the database in order.
LEMMA RequestKeeps ==
  ASSUME DatabaseOK, NEW c \in Clients, NEW names \in SUBSET Names, RequestOn(c, names)
  PROVE  DatabaseOK'
<1>1. PICK d \in Dirs :
        \/ MakeDir(c, d) \/ RemoveDir(c, d)
        \/ \E n \in names : \/ Delete(c, d, n)
                            \/ \E x \in Stored : Create(c, d, n, x) \/ Update(c, d, n, x)
  BY DEF RequestOn
<1>2. Everything(Null) \in [Names -> Stored \cup {Null}]  BY DEF Everything
<1>3. CASE MakeDir(c, d)
  BY <1>2, <1>3 DEF MakeDir, DatabaseOK, Dirs
<1>4. CASE RemoveDir(c, d)
  <2>1. live' = live \ Below(d) /\ d \in Tree  BY <1>4 DEF RemoveDir
  <2>2. docs' \in [Dirs -> [Names -> Stored \cup {Null}]]
    BY <1>2, <1>4 DEF RemoveDir, DatabaseOK
  <2>3. CASE d = Root
    <3>1. Below(d) = live  BY <2>3, <2>1 DEF Below, Tree
    <3>. QED BY <2>1, <2>2, <3>1 DEF DatabaseOK
  <2>4. CASE d # Root  BY <2>1, <2>2, <2>4 DEF Below, DatabaseOK
  <2>. QED BY <2>3, <2>4
<1>5. ASSUME NEW n \in names, Delete(c, d, n) PROVE DatabaseOK'
  <2>1. docs' = [docs EXCEPT ![d][n] = Null] /\ UNCHANGED live  BY <1>5 DEF Delete
  <2>. QED BY <2>1 DEF DatabaseOK
<1>6. ASSUME NEW n \in names, NEW x \in Stored, Create(c, d, n, x) PROVE DatabaseOK'
  <2>1. docs' = [docs EXCEPT ![d][n] = x] /\ live' = live \cup {d} /\ Root \in live
    BY <1>6 DEF Create
  <2>. QED BY <2>1 DEF DatabaseOK
<1>7. ASSUME NEW n \in names, NEW x \in Stored, Update(c, d, n, x) PROVE DatabaseOK'
  <2>1. docs' = [docs EXCEPT ![d][n] = x] /\ UNCHANGED live  BY <1>7 DEF Update
  <2>. QED BY <2>1 DEF DatabaseOK
<1>. QED BY <1>1, <1>3, <1>4, <1>5, <1>6, <1>7

\* So does the import of a file.
LEMMA PutKeeps ==
  ASSUME DatabaseOK, ImportOK, PutUpdate \/ PutCreate
  PROVE  DatabaseOK'
<1>. DEFINE file == ImportPath(Head(import.files))
            text == Head(import.files).text
<1>1. import.at = "put"  BY DEF PutUpdate, PutCreate
<1>2. Head(import.files) \in Entry  BY <1>1 DEF ImportOK
<1>3. text \in Stored \cup {Malformed} /\ Head(import.files).file \in Concepts
  BY <1>1, <1>2 DEF ImportOK, Entry
<1>4. file \in Dirs \X Names
  BY <1>3, ArchiveAssumption DEF ImportPath, Concepts
<1>5. ASSUME text \in Stored, docs' = [docs EXCEPT ![file[1]][file[2]] = text]
      PROVE  docs' \in [Dirs -> [Names -> Stored \cup {Null}]]
  <2>. HIDE DEF file, text
  <2>. QED BY <1>4, <1>5 DEF DatabaseOK
<1>6. CASE UNCHANGED vars
  BY <1>6 DEF vars, database, DatabaseOK
<1>7. CASE /\ text \in Stored /\ docs' = [docs EXCEPT ![file[1]][file[2]] = text]
           /\ UNCHANGED live
  BY <1>5, <1>7 DEF DatabaseOK
<1>8. CASE /\ Root \in live /\ live' = live \cup {file[1]}
           /\ \/ text \in Stored /\ docs' = [docs EXCEPT ![file[1]][file[2]] = text]
              \/ UNCHANGED docs
  BY <1>4, <1>5, <1>8 DEF DatabaseOK
<1>9. CASE PutUpdate  BY <1>3, <1>6, <1>7, <1>9 DEF PutUpdate
<1>10. CASE PutCreate  BY <1>3, <1>6, <1>8, <1>10 DEF PutCreate
<1>. QED BY <1>9, <1>10

-----------------------------------------------------------------------------
(* The export.                                                             *)

\* Steps that touch neither the database nor the export.
LEMMA ExportUntouched ==
  ASSUME ExportOK, UNCHANGED <<database, exporting>>
  PROVE  ExportOK'
<1>1. Now' = Now  BY DEF database, Now, Tree
<1>2. KeptWaits' = KeptWaits /\ NothingElse' = NothingElse
  BY DEF exporting, Delivered, KeptWaits, NothingElse, EntryOf, EntryName
<1>. QED BY <1>1, <1>2 DEF ExportOK, exporting, database

\* A change of the database, as the export sees it.
LEMMA ExportSees ==
  ASSUME ExportOK, DatabaseOK, DatabaseOK', SeenByExport
  PROVE  ExportOK'
<1>1. /\ Now' \subseteq Dirs \X Names \X Stored
      /\ \A k \in Now' : k[1] \in live'
  <2>1. \A d, n, x : <<d, n, x>>[1] = d  OBVIOUS
  <2>2. Tree' = live'  BY DEF DatabaseOK, Tree
  <2>3. \A d \in Tree', n \in Names : d \in Dirs /\ docs'[d][n] \in Stored \cup {Null}
    BY <2>2 DEF DatabaseOK
  <2>4. \A k \in Now' : \E d \in Tree', n \in Names :
          k = <<d, n, docs'[d][n]>> /\ docs'[d][n] # Null
    BY <2>3 DEF Now
  <2>. QED BY <2>2, <2>3, <2>4
<1>2. /\ export' = [export EXCEPT !.dirs = @ \cap live']
      /\ export'.at = export.at /\ export'.entries = export.entries
      /\ export'.dirs = export.dirs \cap live'
      /\ Delivered' = Delivered
  BY DEF SeenByExport, ExportOK, Delivered
<1>3. export' \in [at : {"idle", "tree", "dirs"}, dirs : SUBSET Dirs, entries : Seq(Entry)]
  BY <1>2 DEF ExportOK
<1>4. CASE export.at = "idle"
  <2>1. kept' = kept /\ ever' = ever  BY <1>4 DEF SeenByExport
  <2>. QED BY <1>2, <1>3, <1>4, <2>1 DEF ExportOK
<1>5. CASE export.at # "idle"
  <2>1. kept' = kept \cap Now' /\ ever' = ever \cup Now'  BY <1>5 DEF SeenByExport
  <2>2. /\ kept' \subseteq ever' /\ ever' \subseteq Dirs \X Names \X Stored
        /\ kept' \subseteq Now' /\ Now' \subseteq ever'
    BY <1>1, <2>1 DEF ExportOK
  <2>3. \A k \in kept' : k \in kept /\ k[1] \in live'  BY <1>1, <2>1
  <2>4. CASE export.at = "tree"
    <3>1. ASSUME kept' # {} PROVE Root \in export'.dirs
      <4>1. Root \in live'  BY <3>1, <2>3 DEF DatabaseOK
      <4>. QED BY <1>2, <2>3, <2>4, <3>1, <4>1 DEF ExportOK
    <3>. QED BY <1>2, <1>3, <2>2, <2>4, <3>1 DEF ExportOK
  <2>5. CASE export.at = "dirs"
    <3>1. \A k \in kept' : k[1] \in export'.dirs \/ EntryOf(k) \in Delivered
      BY <1>2, <2>3, <2>5 DEF ExportOK, KeptWaits
    <3>2. \A e \in Delivered : \E k \in ever' : e = EntryOf(k)
      BY <2>1, <2>5 DEF ExportOK, NothingElse
    <3>3. KeptWaits' /\ NothingElse'
      BY <1>2, <3>1, <3>2 DEF KeptWaits, NothingElse, EntryOf, EntryName
    <3>4. export'.dirs \subseteq live'  BY <1>2
    <3>. QED BY <1>2, <1>3, <2>2, <2>5, <3>3, <3>4 DEF ExportOK
  <2>. QED BY <1>5, <2>4, <2>5 DEF ExportOK
<1>. QED BY <1>4, <1>5

\* What one directory adds to the archive: an entry of each of its concepts.
LEMMA EntriesOf ==
  ASSUME DatabaseOK, NEW d \in live, \A n \in Names : docs[d][n] # Unrenderable,
         NEW names \in Listings(d)
  PROVE  /\ Entries(d, names) \in Seq(Entry)
         /\ \A k \in Now : k[1] = d =>
              \E i \in 1..Len(Entries(d, names)) : Entries(d, names)[i] = EntryOf(k)
         /\ \A i \in 1..Len(Entries(d, names)) :
              \E k \in Now : Entries(d, names)[i] = EntryOf(k)
<1>. DEFINE size == Cardinality(Rows(d))
            es == Entries(d, names)
<1>1. names \in [1..size -> Rows(d)] /\ \A n \in Rows(d) : \E i \in DOMAIN names : names[i] = n
  BY DEF Listings
<1>2. d \in Tree /\ d \in Dirs  BY NowType DEF DatabaseOK
<1>3. \A i \in 1..size : /\ names[i] \in Names /\ docs[d][names[i]] \in Stored
                         /\ <<d, names[i], docs[d][names[i]]>> \in Now
  <2>1. \A i \in 1..size : names[i] \in Names /\ docs[d][names[i]] # Null
    BY <1>1 DEF Rows
  <2>. QED BY <1>2, <2>1, NowType DEF DatabaseOK
<1>4. size \in Nat
  <2>1. BySlug \in Surjection(1..Len(BySlug), Names)
    BY ArchiveAssumption DEF Surjection
  <2>2. Len(BySlug) \in Nat  BY ArchiveAssumption
  <2>3. IsFiniteSet(1..Len(BySlug))  BY <2>2, FS_Interval
  <2>4. IsFiniteSet(Names)  BY <2>1, <2>3, FS_Surjection
  <2>5. Rows(d) \in SUBSET Names  BY DEF Rows
  <2>. QED BY <2>4, <2>5, FS_Subset, FS_CardinalityType
<1>5. DOMAIN names = 1..size  BY <1>1
<1>6. \A i \in 1..size : es[i] = [file |-> EntryName(d, names[i]), text |-> docs[d][names[i]]]
  BY <1>5 DEF Entries
<1>7. \A n \in Names : EntryName(d, n) \in Concepts \cup {Lost}
  <2>1. \A n \in Names : <<d, n>> \in Concepts  BY <1>2 DEF Concepts
  <2>. QED BY <2>1, ArchiveAssumption DEF EntryName
<1>8. ASSUME NEW i \in 1..size PROVE es[i] \in Entry
  <2>1. EntryName(d, names[i]) \in Concepts \cup {Lost}  BY <1>3, <1>7
  <2>2. docs[d][names[i]] \in Stored \cup {Malformed}  BY <1>3
  <2>3. es[i] = [file |-> EntryName(d, names[i]), text |-> docs[d][names[i]]]  BY <1>6
  <2>. HIDE DEF es
  <2>. QED BY <2>1, <2>2, <2>3 DEF Entry
<1>9. es = [i \in 1..size |-> es[i]]  BY <1>5 DEF Entries
<1>10. es \in Seq(Entry) /\ Len(es) = size
  <2>. DEFINE f == es
  <2>1. f \in [1..size -> Entry]  BY <1>8, <1>9
  <2>. HIDE DEF f
  <2>2. f \in Seq(Entry) /\ Len(f) = size  BY <1>4, <2>1
  <2>. QED BY <2>2 DEF f
<1>11. ASSUME NEW k \in Now, k[1] = d PROVE \E i \in 1..size : es[i] = EntryOf(k)
  <2>1. k[2] \in Rows(d) /\ k[3] = docs[d][k[2]]  BY <1>11, NowType DEF Rows
  <2>2. PICK i \in 1..size : names[i] = k[2]  BY <1>1, <1>5, <2>1
  <2>. QED BY <1>6, <1>11, <2>1, <2>2 DEF EntryOf
<1>12. ASSUME NEW i \in 1..size PROVE \E k \in Now : es[i] = EntryOf(k)
  <2>. DEFINE k == <<d, names[i], docs[d][names[i]]>>
  <2>1. k \in Now  BY <1>3
  <2>2. EntryOf(k) = [file |-> EntryName(d, names[i]), text |-> docs[d][names[i]]]
    BY DEF EntryOf
  <2>. QED BY <1>6, <2>1, <2>2
<1>. QED BY <1>10, <1>11, <1>12

\* Each step of an export.
LEMMA ExportSteps ==
  ASSUME IInv, FindRoot \/ ListTree \/ (\E d \in Dirs : ListDir(d)) \/ EndExport
  PROVE  ExportOK' /\ UNCHANGED <<vars, import, importing>>
<1>1. UNCHANGED <<vars, import, importing>>
  BY DEF FindRoot, ListTree, ListDir, EndExport
<1>2. Now' = Now /\ live' = live  BY <1>1 DEF vars, database, Now, Tree
<1>3. CASE FindRoot
  <2>1. CASE export' = [NoExport EXCEPT !.at = "tree", !.dirs = {Root}]
             /\ kept' = Now /\ ever' = Now
    <3>1. export' = [at |-> "tree", dirs |-> {Root}, entries |-> <<>>]
      BY <2>1 DEF NoExport
    <3>2. Now \subseteq Dirs \X Names \X Stored  BY NowType DEF IInv
    <3>3. export' \in [at : {"idle", "tree", "dirs"}, dirs : SUBSET Dirs, entries : Seq(Entry)]
      BY <3>1 DEF Dirs
    <3>4. export'.at = "tree" /\ export'.entries = <<>> /\ Root \in export'.dirs  BY <3>1
    <3>5. kept' = Now' /\ ever' = Now' /\ Now' \subseteq Dirs \X Names \X Stored
      BY <1>2, <2>1, <3>2
    <3>. QED BY <1>1, <3>3, <3>4, <3>5 DEF ExportOK
  <2>2. CASE UNCHANGED <<export, kept, ever>>
    <3>1. export.at = "idle"  BY <1>3 DEF FindRoot
    <3>. QED BY <1>1, <2>2, <3>1 DEF ExportOK, IInv
  <2>. QED BY <1>3, <2>1, <2>2 DEF FindRoot
<1>4. CASE ListTree
  <2>1. /\ export.at = "tree" /\ kept' = kept /\ ever' = ever
        /\ export' = [export EXCEPT !.at = "dirs", !.dirs = IF @ = {} THEN {} ELSE Tree]
    BY <1>4 DEF ListTree
  <2>2. /\ export'.at = "dirs" /\ export'.entries = export.entries
        /\ export'.dirs = IF export.dirs = {} THEN {} ELSE Tree
        /\ export.entries = <<>>
    BY <2>1 DEF IInv, ExportOK
  <2>3. Tree = live /\ live \subseteq Dirs  BY NowType DEF IInv, DatabaseOK
  <2>4. export' \in [at : {"idle", "tree", "dirs"}, dirs : SUBSET Dirs, entries : Seq(Entry)]
    BY <2>1, <2>3 DEF IInv, ExportOK
  <2>5. NothingElse'
    <3>1. Delivered' = {}  BY <2>2 DEF Delivered
    <3>. QED BY <3>1 DEF NothingElse
  <2>6. KeptWaits'
    <3>1. ASSUME NEW k \in kept PROVE k[1] \in export'.dirs
      <4>1. k \in Now /\ export.dirs # {}  BY <2>1, <3>1 DEF IInv, ExportOK
      <4>2. k[1] \in Tree  BY <4>1, NowType DEF IInv
      <4>. QED BY <2>2, <4>1, <4>2
    <3>. QED BY <2>1, <3>1 DEF KeptWaits
  <2>7. export'.dirs \subseteq live'  BY <1>2, <2>2, <2>3
  <2>8. kept \subseteq Now /\ Now \subseteq ever /\ kept \subseteq ever
        /\ ever \subseteq Dirs \X Names \X Stored
    BY <2>1 DEF IInv, ExportOK
  <2>. QED BY <1>1, <1>2, <2>1, <2>2, <2>4, <2>5, <2>6, <2>7, <2>8 DEF ExportOK
<1>5. ASSUME NEW d \in Dirs, ListDir(d) PROVE ExportOK'
  <2>1. PICK names \in Listings(d) :
          export' = [export EXCEPT !.dirs = @ \ {d}, !.entries = @ \o Entries(d, names)]
    BY <1>5 DEF ListDir
  <2>. DEFINE es == Entries(d, names)
              old == export.entries
  <2>2. export.at = "dirs" /\ d \in export.dirs /\ kept' = kept /\ ever' = ever
        /\ \A n \in Names : docs[d][n] # Unrenderable
    BY <1>5 DEF ListDir
  <2>3. d \in live /\ old \in Seq(Entry)  BY <2>2 DEF IInv, ExportOK
  <2>4. /\ es \in Seq(Entry)
        /\ \A k \in Now : k[1] = d => \E i \in 1..Len(es) : es[i] = EntryOf(k)
        /\ \A i \in 1..Len(es) : \E k \in Now : es[i] = EntryOf(k)
    BY <2>2, <2>3, EntriesOf DEF IInv
  <2>. HIDE DEF es
  <2>5. /\ export'.at = "dirs" /\ export'.dirs = export.dirs \ {d}
        /\ export'.entries = old \o es
        /\ export' \in [at : {"idle", "tree", "dirs"}, dirs : SUBSET Dirs, entries : Seq(Entry)]
    <3>1. old \o es \in Seq(Entry)  BY <2>3, <2>4
    <3>2. export' = [export EXCEPT !.dirs = export.dirs \ {d}, !.entries = old \o es]
      BY <2>1 DEF es
    <3>. QED BY <2>2, <3>1, <3>2 DEF IInv, ExportOK
  <2>6. Delivered' = Delivered \cup {es[i] : i \in 1..Len(es)}
    <3>1. DOMAIN old = 1..Len(old) /\ DOMAIN (old \o es) = 1..(Len(old) + Len(es))
          /\ Len(old) \in Nat /\ Len(es) \in Nat
      BY <2>3, <2>4
    <3>2. \A i \in 1..Len(old) : (old \o es)[i] = old[i]  BY <2>3, <2>4
    <3>3. \A i \in 1..Len(es) : (old \o es)[Len(old) + i] = es[i]  BY <2>3, <2>4
    <3>4. \A i \in 1..(Len(old) + Len(es)) :
            i \in 1..Len(old) \/ \E j \in 1..Len(es) : i = Len(old) + j
      <4>1. ASSUME NEW i \in 1..(Len(old) + Len(es)), i \notin 1..Len(old)
            PROVE i - Len(old) \in 1..Len(es) /\ i = Len(old) + (i - Len(old))
        BY <3>1, <4>1
      <4>. QED BY <4>1
    <3>5. \A i \in 1..Len(old) : i \in 1..(Len(old) + Len(es))  BY <3>1
    <3>6. \A i \in 1..Len(es) : Len(old) + i \in 1..(Len(old) + Len(es))  BY <3>1
    <3>7. Delivered' = {(old \o es)[i] : i \in 1..(Len(old) + Len(es))}
      BY <2>5, <3>1 DEF Delivered
    <3>8. Delivered = {old[i] : i \in 1..Len(old)}  BY <3>1 DEF Delivered
    <3>9. ASSUME NEW e \in Delivered' PROVE e \in Delivered \cup {es[i] : i \in 1..Len(es)}
      <4>1. PICK i \in 1..(Len(old) + Len(es)) : e = (old \o es)[i]  BY <3>7, <3>9
      <4>. QED BY <3>2, <3>3, <3>4, <3>8, <4>1
    <3>10. Delivered \subseteq Delivered'
      <4>1. ASSUME NEW i \in 1..Len(old) PROVE old[i] \in Delivered'
        <5>1. old[i] = (old \o es)[i]  BY <3>2
        <5>. QED BY <3>5, <3>7, <5>1
      <4>. QED BY <3>8, <4>1
    <3>11. \A i \in 1..Len(es) : es[i] \in Delivered'
      <4>1. ASSUME NEW i \in 1..Len(es) PROVE es[i] \in Delivered'
        <5>1. es[i] = (old \o es)[Len(old) + i]  BY <3>3
        <5>. QED BY <3>6, <3>7, <5>1
      <4>. QED BY <4>1
    <3>. QED BY <3>9, <3>10, <3>11
  <2>7. KeptWaits'
    <3>1. ASSUME NEW k \in kept PROVE k[1] \in export'.dirs \/ EntryOf(k) \in Delivered'
      <4>1. k \in Now /\ (k[1] \in export.dirs \/ EntryOf(k) \in Delivered)
        BY <2>2, <3>1 DEF IInv, ExportOK, KeptWaits
      <4>. QED BY <2>4, <2>5, <2>6, <4>1
    <3>. QED BY <2>2, <3>1 DEF KeptWaits, EntryOf, EntryName
  <2>8. NothingElse'
    <3>1. \A e \in Delivered : \E k \in ever : e = EntryOf(k)
      BY <2>2 DEF IInv, ExportOK, NothingElse
    <3>2. Now \subseteq ever  BY <2>2 DEF IInv, ExportOK
    <3>3. \A e \in Delivered' : \E k \in ever : e = EntryOf(k)
      BY <2>4, <2>6, <3>1, <3>2
    <3>. QED BY <2>2, <3>3 DEF NothingElse, EntryOf, EntryName
  <2>9. export'.dirs \subseteq live'  BY <1>2, <2>2, <2>5 DEF IInv, ExportOK
  <2>10. kept \subseteq Now /\ Now \subseteq ever /\ kept \subseteq ever
         /\ ever \subseteq Dirs \X Names \X Stored
    BY <2>2 DEF IInv, ExportOK
  <2>. QED BY <1>2, <2>2, <2>5, <2>7, <2>8, <2>9, <2>10 DEF ExportOK
<1>6. CASE EndExport
  <2>1. export' = [at |-> "idle", dirs |-> {}, entries |-> <<>>] /\ kept' = {} /\ ever' = {}
    BY <1>6 DEF EndExport, NoExport
  <2>2. export' \in [at : {"idle", "tree", "dirs"}, dirs : SUBSET Dirs, entries : Seq(Entry)]
    BY <2>1
  <2>. QED BY <1>1, <2>1, <2>2 DEF ExportOK
<1>. QED BY <1>1, <1>3, <1>4, <1>5, <1>6

-----------------------------------------------------------------------------
(* The import.                                                             *)

ImportType == [at : {"idle", "look", "put"}, files : Seq(Entry), found : BOOLEAN,
               failed : Nat, exact : BOOLEAN]

\* One file less to import.
LEMMA FileDone ==
  ASSUME import \in ImportType, given \in Seq(Entry), import.files # <<>>,
         import.failed + Len(import.files) <= Len(given),
         NEW failed \in {import.failed, import.failed + 1},
         import' = [import EXCEPT !.at = "look", !.files = Tail(@), !.failed = failed]
  PROVE  /\ import' \in ImportType /\ import'.at = "look"
         /\ import'.files = Tail(import.files) /\ import'.failed = failed
         /\ import'.exact = import.exact
         /\ import'.failed + Len(import'.files) <= Len(given)
<1>. DEFINE files == import.files
<1>1. files \in Seq(Entry) /\ import.failed \in Nat /\ failed \in Nat  BY DEF ImportType
<1>2. Tail(files) \in Seq(Entry) /\ Len(Tail(files)) = Len(files) - 1  BY <1>1
<1>3. Len(files) \in Nat /\ Len(given) \in Nat  BY <1>1
<1>4. failed + Len(Tail(files)) <= Len(given)  BY <1>1, <1>2, <1>3
<1>5. import' \in ImportType  BY <1>1, <1>2 DEF ImportType
<1>6. /\ import'.at = "look" /\ import'.files = Tail(files) /\ import'.failed = failed
      /\ import'.exact = import.exact
  BY DEF ImportType
<1>. QED BY <1>4, <1>5, <1>6

LEMMA DoneOK ==
  ASSUME ImportOK, NEW ok \in BOOLEAN, Done(ok), import.at = "put",
         UNCHANGED <<workload, archive, given>>
  PROVE  ImportOK'
<1>1. import \in ImportType /\ given \in Seq(Entry) /\ import.files # <<>>
      /\ import.failed + Len(import.files) <= Len(given) /\ import.failed \in Nat
  BY DEF ImportOK, ImportType
<1>. DEFINE failed == IF ok THEN import.failed ELSE import.failed + 1
<1>2. import' = [import EXCEPT !.at = "look", !.files = Tail(@), !.failed = failed]
  BY DEF Done
<1>3. failed \in {import.failed, import.failed + 1}  OBVIOUS
<1>. HIDE DEF failed
<1>4. /\ import' \in ImportType /\ import'.at = "look"
      /\ import'.failed + Len(import'.files) <= Len(given)
  BY <1>1, <1>2, <1>3, FileDone
<1>. QED BY <1>1, <1>4 DEF ImportOK, ImportType

LEMMA ImportSteps ==
  ASSUME ImportOK, Unpack \/ ImportStep
  PROVE  ImportOK'
<1>. USE DEF ImportOK
<1>1. CASE Unpack
  <2>1. PICK files \in Uploads \cup ({archive} \ {Null}), exact \in BOOLEAN :
          /\ import' = [NoImport EXCEPT !.at = "look", !.files = files, !.exact = exact]
          /\ given' = files
    BY <1>1 DEF Unpack
  <2>2. files \in Seq(Entry) /\ Len(files) \in Nat
    <3>1. files \in Uploads \/ files \in Seq(Entry)  BY DEF ImportOK
    <3>2. files \in Seq(Entry)  BY <3>1, ArchiveAssumption
    <3>. QED BY <3>2
  <2>3. import' = [at |-> "look", files |-> files, found |-> FALSE, failed |-> 0, exact |-> exact]
    BY <2>1 DEF NoImport
  <2>4. UNCHANGED <<workload, archive>>  BY <1>1 DEF Unpack, exporting
  <2>5. /\ import'.at = "look" /\ import'.files = files /\ import'.failed = 0
    BY <2>3
  <2>6. import' \in ImportType  BY <2>2, <2>3 DEF ImportType
  <2>7. 0 + Len(files) <= Len(files)  BY <2>2
  <2>. QED BY <2>1, <2>2, <2>4, <2>5, <2>6, <2>7 DEF ImportType
<1>2. CASE Skip
  <2>1. /\ import.at = "look" /\ import.files # <<>>
        /\ import' = [import EXCEPT !.files = Tail(@)]
        /\ UNCHANGED <<workload, archive, given>>
    BY <1>2 DEF Skip, exporting
  <2>2. import' = [import EXCEPT !.at = "look", !.files = Tail(@), !.failed = import.failed]
    BY <2>1
  <2>3. /\ import' \in ImportType /\ import'.at = "look"
        /\ import'.failed + Len(import'.files) <= Len(given)
    BY <2>1, <2>2, FileDone DEF ImportType
  <2>. QED BY <2>1, <2>3 DEF ImportType
<1>3. CASE LookUp
  <2>1. PICK found \in BOOLEAN : import' = [import EXCEPT !.at = "put", !.found = found]
    BY <1>3 DEF LookUp, There
  <2>2. UNCHANGED <<workload, archive, given>> /\ import.files # <<>>
        /\ Head(import.files).file # Lost
    BY <1>3 DEF LookUp, exporting
  <2>. QED BY <2>1, <2>2
<1>4. CASE PutUpdate \/ PutCreate
  <2>1. import.at = "put" /\ UNCHANGED <<workload, archive, given>>
    BY <1>4 DEF PutUpdate, PutCreate, SeenByExport
  <2>2. \E ok \in BOOLEAN : Done(ok)
    BY <1>4 DEF PutUpdate, PutCreate
  <2>. QED BY <2>1, <2>2, DoneOK
<1>5. CASE EndImport
  <2>1. /\ import' = [at |-> "idle", files |-> <<>>, found |-> FALSE, failed |-> 0, exact |-> FALSE]
        /\ given' = <<>> /\ UNCHANGED <<workload, archive>>
    BY <1>5 DEF EndImport, NoImport, exporting
  <2>. QED BY <2>1
<1>. QED BY <1>1, <1>2, <1>3, <1>4, <1>5 DEF ImportStep

-----------------------------------------------------------------------------
(* The invariant.                                                          *)

LEMMA InitOK == ArchiveInit => IInv
<1>. SUFFICES ASSUME ArchiveInit PROVE IInv  OBVIOUS
<1>1. DatabaseOK
  <2>1. PICK v \in Vaults : live = v.live /\ docs = v.docs  BY DEF ArchiveInit, Init
  <2>. QED BY <2>1, ConstantsAssumption DEF DatabaseOK
<1>2. /\ export = [at |-> "idle", dirs |-> {}, entries |-> <<>>] /\ kept = {} /\ ever = {}
      /\ import = [at |-> "idle", files |-> <<>>, found |-> FALSE, failed |-> 0, exact |-> FALSE]
      /\ workload \in Workloads /\ archive = Null /\ given = <<>>
  BY DEF ArchiveInit, NoExport, NoImport
<1>3. ExportOK  BY <1>2 DEF ExportOK
<1>4. ImportOK  BY <1>2 DEF ImportOK
<1>. QED BY <1>1, <1>3, <1>4 DEF IInv

\* The end of the process ends both transfers.
LEMMA CutOK ==
  ASSUME IInv, Cut, UNCHANGED database
  PROVE  IInv'
<1>1. DatabaseOK'  BY DEF IInv, DatabaseOK, database
<1>2. /\ export' = [at |-> "idle", dirs |-> {}, entries |-> <<>>] /\ kept' = {} /\ ever' = {}
      /\ import' = [at |-> "idle", files |-> <<>>, found |-> FALSE, failed |-> 0, exact |-> FALSE]
      /\ given' = <<>> /\ UNCHANGED <<workload, archive>>
  BY DEF Cut, NoExport, NoImport
<1>3. export' \in [at : {"idle", "tree", "dirs"}, dirs : SUBSET Dirs, entries : Seq(Entry)]
      /\ export'.at = "idle"
  BY <1>2
<1>4. ExportOK'  BY <1>2, <1>3 DEF ExportOK
<1>5. ImportOK'  BY <1>2 DEF ImportOK, IInv
<1>. QED BY <1>1, <1>4, <1>5 DEF IInv

LEMMA NextOK == IInv /\ [ArchiveNext]_archiveVars => IInv'
<1>. SUFFICES ASSUME IInv, [ArchiveNext]_archiveVars PROVE IInv'  OBVIOUS
<1>1. CASE Crash /\ Cut
  BY <1>1, CutOK DEF Crash, Die
<1>2. ASSUME NEW p \in Procs, SyncOn(p) PROVE IInv'
  <2>1. UNCHANGED <<database, exporting, import, importing>>
    BY <1>2 DEF SyncOn, SyncStep, List, Generate, WriteGenerated, WriteConcept, ReadDir,
                Unlink, End
  <2>2. ExportOK'  BY <2>1, ExportUntouched DEF IInv
  <2>3. DatabaseOK'  BY <2>1 DEF IInv, DatabaseOK, database
  <2>4. ImportOK'  BY <2>1 DEF IInv, ImportOK, exporting, importing
  <2>. QED BY <2>2, <2>3, <2>4 DEF IInv
<1>3. CASE Other
  <2>1. PICK c \in Clients : RequestOn(c, workload.names)  BY <1>3 DEF Other
  <2>2. workload.names \subseteq Names  BY ArchiveAssumption DEF IInv, ImportOK
  <2>3. DatabaseOK'  BY <2>1, <2>2, RequestKeeps DEF IInv
  <2>4. ExportOK'  BY <1>3, <2>3, ExportSees DEF IInv, Other
  <2>5. ImportOK'  BY <1>3 DEF IInv, ImportOK, Other, SeenByExport
  <2>. QED BY <2>3, <2>4, <2>5 DEF IInv
<1>4. CASE FindRoot \/ ListTree \/ (\E d \in Dirs : ListDir(d)) \/ EndExport
  <2>1. ExportOK' /\ UNCHANGED <<vars, import, importing>>  BY <1>4, ExportSteps
  <2>2. DatabaseOK'  BY <2>1 DEF IInv, DatabaseOK, vars, database
  <2>3. archive' \in {archive, Null, export.entries}
    BY <1>4 DEF FindRoot, ListTree, ListDir, EndExport
  <2>4. archive' \in Seq(Entry) \cup {Null}  BY <2>3 DEF IInv, ExportOK, ImportOK
  <2>5. ImportOK'  BY <2>1, <2>4 DEF IInv, ImportOK, importing
  <2>. QED BY <2>1, <2>2, <2>5 DEF IInv
<1>5. ASSUME NEW d \in Dirs, ExportFails(d) PROVE IInv'
  BY <1>5, CutOK DEF ExportFails, Die
<1>6. CASE Unpack \/ Skip \/ LookUp \/ EndImport
  <2>1. UNCHANGED <<vars, exporting>>  BY <1>6 DEF Unpack, Skip, LookUp, EndImport
  <2>2. UNCHANGED database  BY <2>1 DEF vars
  <2>3. ExportOK'  BY <2>1, <2>2, ExportUntouched DEF IInv
  <2>4. DatabaseOK'  BY <2>2 DEF IInv, DatabaseOK, database
  <2>5. ImportOK'  BY <1>6, ImportSteps DEF IInv, ImportStep
  <2>. QED BY <2>3, <2>4, <2>5 DEF IInv
<1>7. CASE PutUpdate \/ PutCreate
  <2>1. DatabaseOK'  BY <1>7, PutKeeps DEF IInv
  <2>2. ExportOK'  BY <1>7, <2>1, ExportSees DEF IInv, PutUpdate, PutCreate
  <2>3. ImportOK'  BY <1>7, ImportSteps DEF IInv, ImportStep
  <2>. QED BY <2>1, <2>2, <2>3 DEF IInv
<1>8. CASE UNCHANGED archiveVars
  <2>1. UNCHANGED <<vars, exporting, import, importing>>  BY <1>8 DEF archiveVars
  <2>2. UNCHANGED database  BY <2>1 DEF vars
  <2>3. ExportOK'  BY <2>1, <2>2, ExportUntouched DEF IInv
  <2>4. DatabaseOK'  BY <2>2 DEF IInv, DatabaseOK, database
  <2>5. ImportOK'  BY <2>1 DEF IInv, ImportOK, exporting, importing
  <2>. QED BY <2>3, <2>4, <2>5 DEF IInv
<1>. QED BY <1>1, <1>2, <1>3, <1>4, <1>5, <1>6, <1>7, <1>8
         DEF ArchiveNext, ExportStep, ImportStep

THEOREM ArchiveInvariant == ArchiveSpec => []IInv
BY InitOK, NextOK, PTL DEF ArchiveSpec

\* What an export and an import keep has its type; no file is imported that was not given.
THEOREM ArchiveTypes == ArchiveSpec => []ArchiveTypeOK
<1>1. IInv => ArchiveTypeOK
  <2>. SUFFICES ASSUME IInv PROVE ArchiveTypeOK  OBVIOUS
  <2>1. export \in [at : {"idle", "tree", "dirs"}, dirs : SUBSET Dirs, entries : Seq(Entry)]
        /\ archive \in Seq(Entry) \cup {Null} /\ import \in ImportType
        /\ kept \subseteq ever /\ ever \subseteq Dirs \X Names \X Stored
        /\ import.failed + Len(import.files) <= Len(given)
    BY DEF IInv, ExportOK, ImportOK, ImportType
  <2>2. \A s \in Seq(Entry) : \A i \in DOMAIN s : s[i] \in Entry  OBVIOUS
  <2>. QED BY <2>1, <2>2 DEF ArchiveTypeOK, ImportType
<1>. QED BY <1>1, ArchiveInvariant, PTL

\* Whatever requests, imports, syncs and crashes an export is interleaved with, and whatever
\* the names in the archive are: a concept that nobody has changed in the meantime is in the
\* archive, and everything in it is what some concept has said in the meantime.
THEOREM ExportsFaithful == ArchiveSpec => []ExportFaithful
<1>1. IInv => ExportFaithful
  <2>. SUFFICES ASSUME IInv, export.at = "dirs", export.dirs = {}
                PROVE  /\ {EntryOf(k) : k \in kept} \subseteq Delivered
                       /\ Delivered \subseteq {EntryOf(k) : k \in ever}
    BY DEF ExportFaithful, EntryOf, Delivered
  <2>1. KeptWaits /\ NothingElse  BY DEF IInv, ExportOK
  <2>. QED BY <2>1 DEF KeptWaits, NothingElse
<1>. QED BY <1>1, ArchiveInvariant, PTL

-----------------------------------------------------------------------------
(* What an import makes of the database.                                   *)

\* How many files have been imported, and what they say of a concept.
Passed == Len(given) - Len(import.files)
LastSays(d, n, m, i) == Says(d, n, i) /\ \A j \in 1..m : Says(d, n, j) => j <= i
RestoredBy(m, d, n) ==
  \/ \E i \in 1..m : LastSays(d, n, m, i) /\ docs[d][n] = given[i].text
  \/ (\A i \in 1..m : ~Says(d, n, i)) /\ docs[d][n] = before[d][n]
Broken(m) == {i \in 1..m : IsFile(i) /\ given[i].text = Malformed}

\* The files left are the last ones given, what has been found is still there, and the
\* files before have been restored.
Suffix == /\ Len(import.files) <= Len(given)
          /\ \A i \in 1..Len(import.files) : import.files[i] = given[Passed + i]
Asked == import.at = "put" => import.found = There(ImportPath(Head(import.files)))
Sound == /\ \A d \in Dirs, n \in Names : RestoredBy(Passed, d, n)
         /\ import.failed = Cardinality(Broken(Passed))
Restoring == alone /\ import.at # "idle" => Suffix /\ Asked /\ (Root \in live => Sound)

RInv == IInv /\ Restoring

LEMMA BrokenSize ==
  ASSUME NEW m \in Nat
  PROVE  /\ IsFiniteSet(Broken(m)) /\ m + 1 \notin Broken(m)
         /\ Broken(m + 1) = Broken(m) \cup {i \in {m + 1} : IsFile(i) /\ given[i].text = Malformed}
<1>1. IsFiniteSet(1..m)  BY FS_Interval
<1>2. Broken(m) \subseteq 1..m /\ m + 1 \notin 1..m  BY DEF Broken
<1>3. IsFiniteSet(Broken(m))  BY <1>1, <1>2, FS_Subset
<1>4. 1..(m + 1) = (1..m) \cup {m + 1}  OBVIOUS
<1>5. Broken(m + 1) = Broken(m) \cup {i \in {m + 1} : IsFile(i) /\ given[i].text = Malformed}
  BY <1>4 DEF Broken
<1>. QED BY <1>2, <1>3, <1>5

\* The next file, and what is left after it.
LEMMA NextFile ==
  ASSUME ImportOK, Suffix, import.files # <<>>
  PROVE  /\ Passed \in Nat /\ Passed + 1 \in 1..Len(given)
         /\ Head(import.files) = given[Passed + 1] /\ Head(import.files) \in Entry
         /\ import'.files = Tail(import.files) /\ given' = given
            => Passed' = Passed + 1 /\ Suffix'
<1>. DEFINE files == import.files
<1>1. files \in Seq(Entry) /\ given \in Seq(Entry) /\ files # <<>>  BY DEF ImportOK
<1>2. /\ Len(files) \in Nat /\ Len(files) > 0 /\ Len(given) \in Nat
      /\ Head(files) = files[1] /\ Head(files) \in Entry
      /\ Tail(files) \in Seq(Entry) /\ Len(Tail(files)) = Len(files) - 1
      /\ \A i \in 1..Len(Tail(files)) : Tail(files)[i] = files[i + 1]
  BY <1>1
<1>3. /\ Len(files) <= Len(given) /\ Passed = Len(given) - Len(files)
      /\ \A i \in 1..Len(files) : files[i] = given[Passed + i]
  BY DEF Suffix, Passed
<1>. HIDE DEF files
<1>4. Passed \in Nat /\ Passed + 1 \in 1..Len(given)  BY <1>2, <1>3
<1>5. Head(files) = given[Passed + 1]  BY <1>2, <1>3
<1>6. ASSUME import'.files = Tail(files), given' = given PROVE Passed' = Passed + 1 /\ Suffix'
  <2>1. Passed' = Passed + 1  BY <1>2, <1>3, <1>6 DEF Passed
  <2>2. Len(Tail(files)) <= Len(given)  BY <1>2, <1>3
  <2>3. ASSUME NEW i \in 1..Len(Tail(files)) PROVE Tail(files)[i] = given[Passed + 1 + i]
    <3>1. i + 1 \in 1..Len(files) /\ Passed + (i + 1) = Passed + 1 + i  BY <1>2, <1>4
    <3>. QED BY <1>2, <1>3, <3>1
  <2>. QED BY <1>6, <2>1, <2>2, <2>3 DEF Suffix
<1>. QED BY <1>2, <1>4, <1>5, <1>6 DEF files

\* One more file restores what it says and leaves the rest as it is.
LEMMA RestoreStep ==
  ASSUME NEW m \in Nat, NEW d, NEW n, RestoredBy(m, d, n), UNCHANGED <<given, before>>,
         \/ Says(d, n, m + 1) /\ docs'[d][n] = given[m + 1].text
         \/ ~Says(d, n, m + 1) /\ docs'[d][n] = docs[d][n]
  PROVE  \/ \E i \in 1..(m + 1) : LastSays(d, n, m + 1, i) /\ docs'[d][n] = given[i].text
         \/ (\A i \in 1..(m + 1) : ~Says(d, n, i)) /\ docs'[d][n] = before[d][n]
<1>1. 1..(m + 1) = (1..m) \cup {m + 1} /\ \A j \in 1..(m + 1) : j <= m + 1  OBVIOUS
<1>2. CASE Says(d, n, m + 1) /\ docs'[d][n] = given[m + 1].text
  BY <1>1, <1>2 DEF LastSays
<1>3. CASE ~Says(d, n, m + 1) /\ docs'[d][n] = docs[d][n]
  BY <1>1, <1>3 DEF LastSays, RestoredBy
<1>. QED BY <1>2, <1>3

LEMMA SoundStep ==
  ASSUME ImportOK, DatabaseOK, Suffix, Sound, import.files # <<>>, UNCHANGED <<given, before>>,
         import'.files = Tail(import.files),
         NEW f, f = Head(import.files),
         \/ f.file = Lost /\ UNCHANGED docs /\ import'.failed = import.failed
         \/ f.file # Lost /\ f.text = Malformed /\ UNCHANGED docs
            /\ import'.failed = import.failed + 1
         \/ f.file # Lost /\ f.text # Malformed /\ import'.failed = import.failed
            /\ docs' = [docs EXCEPT ![ImportPath(f)[1]][ImportPath(f)[2]] = f.text]
  PROVE  Sound'
<1>. DEFINE m == Passed
<1>1. m \in Nat /\ m + 1 \in 1..Len(given) /\ f = given[m + 1] /\ f \in Entry /\ Passed' = m + 1
  BY NextFile
<1>. HIDE DEF m
<1>2. IsFile(m + 1) <=> f.file # Lost  BY <1>1 DEF IsFile
<1>3. \A d, n : Says(d, n, m + 1) <=>
        f.file # Lost /\ f.text # Malformed /\ ImportPath(f) = <<d, n>>
  BY <1>1, <1>2 DEF Says
<1>4. f.file # Lost => ImportPath(f) \in Dirs \X Names
  <2>1. f.file # Lost => f.file \in Concepts  BY <1>1 DEF Entry
  <2>. QED BY <2>1, ArchiveAssumption DEF ImportPath, Concepts
<1>5. ASSUME NEW d \in Dirs, NEW n \in Names
      PROVE  \/ Says(d, n, m + 1) /\ docs'[d][n] = given[m + 1].text
             \/ ~Says(d, n, m + 1) /\ docs'[d][n] = docs[d][n]
  <2>1. CASE f.file = Lost \/ f.text = Malformed  BY <1>3, <2>1
  <2>2. CASE f.file # Lost /\ f.text # Malformed
    <3>. DEFINE p == ImportPath(f)
    <3>1. p \in Dirs \X Names /\ docs' = [docs EXCEPT ![p[1]][p[2]] = f.text]
      BY <1>4, <2>2
    <3>2. Says(d, n, m + 1) <=> p = <<d, n>>  BY <1>3, <2>2
    <3>. HIDE DEF p
    <3>3. CASE p = <<d, n>>
      <4>1. docs'[d][n] = f.text  BY <3>1, <3>3 DEF DatabaseOK
      <4>. QED BY <1>1, <3>2, <3>3, <4>1
    <3>4. CASE p # <<d, n>>
      <4>1. p[1] # d \/ p[2] # n  BY <3>1, <3>4
      <4>2. docs'[d][n] = docs[d][n]  BY <3>1, <4>1 DEF DatabaseOK
      <4>. QED BY <3>2, <3>4, <4>2
    <3>. QED BY <3>3, <3>4
  <2>. QED BY <2>1, <2>2
<1>6. ASSUME NEW d \in Dirs, NEW n \in Names PROVE RestoredBy(Passed, d, n)'
  <2>1. RestoredBy(m, d, n)  BY DEF Sound, m
  <2>2. \/ \E i \in 1..(m + 1) : LastSays(d, n, m + 1, i) /\ docs'[d][n] = given[i].text
        \/ (\A i \in 1..(m + 1) : ~Says(d, n, i)) /\ docs'[d][n] = before[d][n]
    BY <1>1, <1>5, <2>1, RestoreStep
  <2>. QED BY <1>1, <2>2 DEF RestoredBy, LastSays, Says, IsFile
<1>7. import'.failed = Cardinality(Broken(m + 1))
  <2>1. import.failed = Cardinality(Broken(m))  BY DEF Sound, m
  <2>2. /\ IsFiniteSet(Broken(m)) /\ m + 1 \notin Broken(m)
        /\ Broken(m + 1) = Broken(m) \cup {i \in {m + 1} : IsFile(i) /\ given[i].text = Malformed}
    BY <1>1, BrokenSize
  <2>3. CASE f.file # Lost /\ f.text = Malformed
    <3>1. Broken(m + 1) = Broken(m) \cup {m + 1}  BY <1>1, <1>2, <2>2, <2>3
    <3>2. Cardinality(Broken(m) \cup {m + 1}) = Cardinality(Broken(m)) + 1
      BY <2>2, FS_AddElement
    <3>. QED BY <2>1, <2>3, <3>1, <3>2
  <2>4. CASE f.file = Lost \/ f.text # Malformed
    <3>1. Broken(m + 1) = Broken(m)  BY <1>1, <1>2, <2>2, <2>4
    <3>. QED BY <2>1, <2>4, <3>1
  <2>. QED BY <2>3, <2>4
<1>8. Broken(Passed)' = Broken(m + 1)  BY <1>1 DEF Broken, IsFile
<1>. QED BY <1>6, <1>7, <1>8 DEF Sound

\* Steps that change no concept and import nothing.
LEMMA RestoringUntouched ==
  ASSUME Restoring, UNCHANGED <<database, import, given, before, alone>>
  PROVE  Restoring'
<1>1. Passed' = Passed  BY DEF Passed
<1>2. Suffix' = Suffix  BY <1>1 DEF Suffix
<1>3. Asked' = Asked  BY DEF Asked, There, Tree, ImportPath, database
<1>4. Sound' = Sound
  BY <1>1 DEF Sound, RestoredBy, LastSays, Says, IsFile, Broken, database
<1>. QED BY <1>2, <1>3, <1>4 DEF Restoring, database

\* A file is done with: it was no .md file, or has been put or not.
LEMMA FileRestored ==
  ASSUME RInv, alone, import.at # "idle", import.files # <<>>, UNCHANGED <<given, before>>,
         import'.files = Tail(import.files), import'.at = "look",
         Root \in live' => Root \in live,
         NEW f, f = Head(import.files),
         Root \in live =>
           \/ f.file = Lost /\ UNCHANGED docs /\ import'.failed = import.failed
           \/ f.file # Lost /\ f.text = Malformed /\ UNCHANGED docs
              /\ import'.failed = import.failed + 1
           \/ f.file # Lost /\ f.text # Malformed /\ import'.failed = import.failed
              /\ docs' = [docs EXCEPT ![ImportPath(f)[1]][ImportPath(f)[2]] = f.text]
  PROVE  Restoring'
<1>1. Suffix /\ (Root \in live => Sound) /\ ImportOK /\ DatabaseOK
  BY DEF RInv, Restoring, IInv
<1>2. Suffix'  BY <1>1, NextFile
<1>3. Asked'  BY DEF Asked
<1>4. Root \in live => Sound'  BY <1>1, SoundStep
<1>. QED BY <1>2, <1>3, <1>4 DEF Restoring

LEMMA UnpackRestoring ==
  ASSUME IInv, Unpack
  PROVE  Restoring'
<1>1. PICK files \in Uploads \cup ({archive} \ {Null}), exact \in BOOLEAN :
        /\ import' = [NoImport EXCEPT !.at = "look", !.files = files, !.exact = exact]
        /\ given' = files
  BY DEF Unpack
<1>2. /\ before' = docs /\ UNCHANGED docs
      /\ import'.at = "look" /\ import'.files = given' /\ import'.failed = 0
  BY <1>1 DEF Unpack, NoImport, vars, database
<1>3. Len(given') \in Nat
  <2>1. given' \in Seq(Entry)  BY ImportSteps DEF IInv, ImportOK
  <2>. QED BY <2>1
<1>4. Passed' = 0  BY <1>2, <1>3 DEF Passed
<1>5. Suffix'
  <2>1. \A i \in 1..Len(given') : 0 + i = i  BY <1>3
  <2>2. Len(given') <= Len(given')  BY <1>3
  <2>. QED BY <1>2, <1>4, <2>1, <2>2 DEF Suffix
<1>6. Asked'  BY <1>2 DEF Asked
<1>7. Sound'
  <2>1. 1..0 = {}  OBVIOUS
  <2>2. \A d \in Dirs, n \in Names : RestoredBy(Passed, d, n)'
    BY <1>2, <1>4, <2>1 DEF RestoredBy
  <2>3. Broken(Passed)' = {}  BY <1>4, <2>1 DEF Broken
  <2>4. Cardinality({}) = 0  BY FS_EmptySet
  <2>. QED BY <1>2, <2>2, <2>3, <2>4 DEF Sound
<1>. QED BY <1>5, <1>6, <1>7 DEF Restoring

LEMMA LookUpRestoring ==
  ASSUME RInv, LookUp
  PROVE  Restoring'
<1>1. /\ UNCHANGED <<database, given, before, alone>> /\ import.at = "look"
      /\ import' = [import EXCEPT !.at = "put", !.found = There(ImportPath(Head(import.files)))]
  BY DEF LookUp, vars
<1>2. /\ import'.files = import.files /\ import'.failed = import.failed
      /\ import'.found = There(ImportPath(Head(import.files)))
  BY <1>1 DEF RInv, IInv, ImportOK
<1>3. Passed' = Passed  BY <1>1, <1>2 DEF Passed
<1>4. Suffix' = Suffix  BY <1>1, <1>2, <1>3 DEF Suffix
<1>5. Asked'  BY <1>1, <1>2 DEF Asked, There, Tree, ImportPath, database
<1>6. Sound' = Sound
  BY <1>1, <1>2, <1>3 DEF Sound, RestoredBy, LastSays, Says, IsFile, Broken, database
<1>. QED BY <1>1, <1>4, <1>5, <1>6 DEF Restoring, RInv, database

LEMMA PutRestoring ==
  ASSUME RInv, PutUpdate \/ PutCreate
  PROVE  Restoring'
<1>. DEFINE f == Head(import.files)
            file == ImportPath(f)
<1>1. import.at = "put" /\ UNCHANGED <<given, before, alone>>
  BY DEF PutUpdate, PutCreate
<1>2. import.files # <<>> /\ f.file # Lost /\ import \in ImportType /\ import.failed \in Nat
  BY <1>1 DEF RInv, IInv, ImportOK, ImportType
<1>3. SUFFICES ASSUME alone PROVE Restoring'  BY <1>1 DEF Restoring
<1>4. import.found = There(file)  BY <1>1, <1>3 DEF RInv, Restoring, Asked
<1>. HIDE DEF f, file
<1>5. ASSUME NEW ok \in BOOLEAN, Done(ok)
      PROVE  /\ import'.at = "look" /\ import'.files = Tail(import.files)
             /\ import'.failed = IF ok THEN import.failed ELSE import.failed + 1
  BY <1>2, <1>5 DEF Done, ImportType
<1>6. CASE PutUpdate
  <2>1. CASE /\ f.text # Malformed
             /\ docs' = [docs EXCEPT ![file[1]][file[2]] = f.text]
             /\ Done(TRUE) /\ UNCHANGED live
    <3>1. /\ import'.at = "look" /\ import'.files = Tail(import.files)
          /\ import'.failed = import.failed
      BY <1>5, <2>1
    <3>. QED BY <1>1, <1>2, <1>3, <2>1, <3>1, FileRestored DEF f, file
  <2>2. CASE (f.text = Malformed \/ ~There(file)) /\ Done(FALSE) /\ UNCHANGED vars
    <3>1. f.text = Malformed  BY <1>4, <1>6, <2>2 DEF PutUpdate
    <3>2. /\ import'.at = "look" /\ import'.files = Tail(import.files)
          /\ import'.failed = import.failed + 1
      BY <1>5, <2>2
    <3>3. UNCHANGED <<live, docs>>  BY <2>2 DEF vars, database
    <3>. QED BY <1>1, <1>2, <1>3, <3>1, <3>2, <3>3, FileRestored DEF f
  <2>. QED BY <1>6, <2>1, <2>2 DEF PutUpdate, f, file
<1>7. CASE PutCreate
  <2>. DEFINE fits == ~There(file) /\ f.text # Malformed
  <2>1. CASE /\ Root \in live /\ Done(fits)
             /\ docs' = IF fits THEN [docs EXCEPT ![file[1]][file[2]] = f.text] ELSE docs
    <3>1. ~There(file)  BY <1>4, <1>7 DEF PutCreate
    <3>2. fits \in BOOLEAN /\ (fits <=> f.text # Malformed)  BY <3>1
    <3>. HIDE DEF fits
    <3>3. /\ import'.at = "look" /\ import'.files = Tail(import.files)
          /\ import'.failed = IF fits THEN import.failed ELSE import.failed + 1
      BY <1>5, <2>1, <3>2
    <3>4. CASE fits
      BY <1>1, <1>2, <1>3, <2>1, <3>2, <3>3, <3>4, FileRestored DEF f, file
    <3>5. CASE ~fits
      BY <1>1, <1>2, <1>3, <2>1, <3>2, <3>3, <3>5, FileRestored DEF f
    <3>. QED BY <3>4, <3>5
  <2>2. CASE Root \notin live /\ Done(FALSE) /\ UNCHANGED vars
    <3>1. /\ import'.at = "look" /\ import'.files = Tail(import.files)
      BY <1>5, <2>2
    <3>2. UNCHANGED live  BY <2>2 DEF vars, database
    <3>. QED BY <1>1, <1>2, <1>3, <2>2, <3>1, <3>2, FileRestored DEF f
  <2>. QED BY <1>7, <2>1, <2>2 DEF PutCreate, f, file
<1>. QED BY <1>6, <1>7

LEMMA RestoringNext == RInv /\ [ArchiveNext]_archiveVars => Restoring'
<1>. SUFFICES ASSUME RInv, [ArchiveNext]_archiveVars PROVE Restoring'  OBVIOUS
<1>. USE DEF RInv
<1>1. CASE Cut \/ Other  BY <1>1 DEF Cut, Other, Restoring
<1>2. ASSUME NEW p \in Procs, SyncOn(p) PROVE Restoring'
  <2>1. UNCHANGED <<database, import, importing>>
    BY <1>2 DEF SyncOn, SyncStep, List, Generate, WriteGenerated, WriteConcept, ReadDir,
                Unlink, End
  <2>. QED BY <2>1, RestoringUntouched DEF importing
<1>3. CASE FindRoot \/ ListTree \/ (\E d \in Dirs : ListDir(d)) \/ EndExport
  <2>1. UNCHANGED <<vars, import, importing>>  BY <1>3, ExportSteps
  <2>. QED BY <2>1, RestoringUntouched DEF vars, importing
<1>4. CASE Unpack  BY <1>4, UnpackRestoring
<1>5. CASE Skip
  <2>1. /\ import.at = "look" /\ import.files # <<>> /\ Head(import.files).file = Lost
        /\ import' = [import EXCEPT !.files = Tail(@)]
        /\ UNCHANGED <<vars, given, before, alone>>
    BY <1>5 DEF Skip
  <2>2. /\ import'.at = "look" /\ import'.files = Tail(import.files)
        /\ import'.failed = import.failed
    BY <2>1 DEF IInv, ImportOK
  <2>3. UNCHANGED <<live, docs>>  BY <2>1 DEF vars, database
  <2>4. CASE alone
    <3>. DEFINE f == Head(import.files)
    <3>1. f.file = Lost /\ f = Head(import.files)  BY <2>1
    <3>. HIDE DEF f
    <3>. QED BY <2>1, <2>2, <2>3, <2>4, <3>1, FileRestored
  <2>5. CASE ~alone  BY <2>1, <2>5 DEF Restoring
  <2>. QED BY <2>4, <2>5
<1>6. CASE LookUp  BY <1>6, LookUpRestoring
<1>7. CASE PutUpdate \/ PutCreate  BY <1>7, PutRestoring
<1>8. CASE EndImport  BY <1>8 DEF EndImport, Restoring
<1>9. CASE UNCHANGED archiveVars
  BY <1>9, RestoringUntouched DEF archiveVars, vars, importing
<1>. QED BY <1>1, <1>2, <1>3, <1>4, <1>5, <1>6, <1>7, <1>8, <1>9
         DEF ArchiveNext, ExportStep, ImportStep, ExportFails

\* An import that no other writer disturbs restores what the archive says and touches nothing
\* else, and reports the files it could not parse and no other: for any archive, whatever
\* database, exports, syncs and crashes it meets, and however names collide.
THEOREM ImportsRestore == ArchiveSpec => []ImportRestores
<1>1. ArchiveInit => RInv
  BY InitOK DEF RInv, Restoring, ArchiveInit
<1>2. RInv /\ [ArchiveNext]_archiveVars => RInv'
  BY NextOK, RestoringNext DEF RInv
<1>3. RInv => ImportRestores
  <2>. SUFFICES ASSUME RInv, import.at = "look", import.files = <<>>, alone, Root \in live
                PROVE  /\ \A d \in Dirs : \A n \in Names : Restored(d, n)
                       /\ import.failed =
                            Cardinality({i \in DOMAIN given : IsFile(i) /\ given[i].text = Malformed})
    BY DEF ImportRestores
  <2>1. Sound  BY DEF RInv, Restoring
  <2>2. given \in Seq(Entry) /\ Len(given) \in Nat /\ DOMAIN given = 1..Len(given)
    <3>1. given \in Seq(Entry)  BY DEF RInv, IInv, ImportOK
    <3>. QED BY <3>1
  <2>3. Passed = Len(given)  BY <2>2 DEF Passed
  <2>4. ASSUME NEW d \in Dirs, NEW n \in Names PROVE Restored(d, n)
    <3>1. RestoredBy(Len(given), d, n)  BY <2>1, <2>3 DEF Sound
    <3>2. CASE \E i \in DOMAIN given : Says(d, n, i)
      <4>. DEFINE IsLast(i) == Says(d, n, i) /\ \A j \in DOMAIN given : Says(d, n, j) => j <= i
                  last == CHOOSE i \in DOMAIN given : IsLast(i)
      <4>1. PICK i \in 1..Len(given) : LastSays(d, n, Len(given), i) /\ docs[d][n] = given[i].text
        BY <2>2, <3>1, <3>2 DEF RestoredBy
      <4>2. i \in DOMAIN given /\ IsLast(i)  BY <2>2, <4>1 DEF LastSays
      <4>3. last \in DOMAIN given /\ IsLast(last)  BY <4>2
      <4>4. last <= i /\ i <= last  BY <4>2, <4>3
      <4>5. last = i
        <5>1. last \in Nat /\ i \in Nat  BY <2>2, <4>2, <4>3
        <5>. HIDE DEF last
        <5>. QED BY <4>4, <5>1
      <4>. QED BY <3>2, <4>1, <4>5 DEF Restored
    <3>3. CASE ~\E i \in DOMAIN given : Says(d, n, i)
      BY <2>2, <3>1, <3>3 DEF RestoredBy, Restored, LastSays
    <3>. QED BY <3>2, <3>3
  <2>5. Broken(Passed) = {i \in DOMAIN given : IsFile(i) /\ given[i].text = Malformed}
    BY <2>2, <2>3 DEF Broken
  <2>. QED BY <2>1, <2>4, <2>5 DEF Sound
<1>. QED BY <1>1, <1>2, <1>3, PTL DEF ArchiveSpec

-----------------------------------------------------------------------------
(* The mirror beside exports and imports.                                  *)

\* An import waits for the sync of its last update before it puts the next file.
Waits == import.at = "put" => pc[Importer] = "idle"
MInv == MirrorType /\ QuietInv /\ Waits

\* The sync of another process, or of the importer itself, leaves an import that is about
\* to put a file alone.
LEMMA SyncWaits ==
  ASSUME MInv, NEW p \in Procs, SyncOn(p)
  PROVE  MInv'
<1>1. SyncStep(p) /\ UNCHANGED import  BY DEF SyncOn
<1>2. MirrorType' /\ QuietInv' /\ p \in Syncing
  BY <1>1, TypeSyncStep, QuietSyncStep, ActiveStep DEF MInv
<1>3. \A q \in Procs \ {p} : pc'[q] = pc[q]
  BY <1>1 DEF SyncStep, List, Generate, WriteGenerated, WriteConcept, ReadDir, Unlink, End,
              Ends, MInv, MirrorType, LocalsOK
<1>4. Importer \in Procs  BY ArchiveAssumption DEF Procs
<1>. QED BY <1>1, <1>2, <1>3, <1>4 DEF MInv, Waits, Syncing

\* A file that is put changes the database and starts a sync, or none, or changes nothing.
LEMMA PutMirror ==
  ASSUME IInv, MInv, PutUpdate \/ PutCreate
  PROVE  MInv'
<1>1. DatabaseOK'  BY PutKeeps DEF IInv
<1>2. import.at = "put" /\ pc[Importer] = "idle" /\ Importer \in Clients
  BY ArchiveAssumption DEF PutUpdate, PutCreate, MInv, Waits
<1>3. (\E syncs \in BOOLEAN : Follow(Importer, syncs)) \/ UNCHANGED vars
  <2>1. CASE PutUpdate
    <3>1. import.exact \in BOOLEAN /\ mirroring \in BOOLEAN
      BY DEF IInv, ImportOK, MInv, MirrorType, TablesOK
    <3>. QED BY <2>1, <3>1 DEF PutUpdate
  <2>2. CASE PutCreate  BY <2>2 DEF PutCreate
  <2>. QED BY <2>1, <2>2
<1>4. MirrorType' /\ QuietInv'
  <2>1. CASE UNCHANGED vars  BY <2>1, TypeUntouched, QuietUntouched DEF MInv
  <2>2. ASSUME NEW syncs \in BOOLEAN, Follow(Importer, syncs) PROVE MirrorType' /\ QuietInv'
    <3>1. mirroring' = mirroring /\ mirroring \in BOOLEAN
      BY <2>2 DEF Follow, MInv, MirrorType, TablesOK
    <3>2. TablesOK'  BY <1>1, <3>1 DEF DatabaseOK, TablesOK, Tables
    <3>. QED BY <1>2, <2>2, <3>2, FollowOK, FollowQuiet DEF MInv
  <2>. QED BY <1>3, <2>1, <2>2
<1>5. import'.at # "put"
  <2>1. PICK ok \in BOOLEAN : Done(ok)  BY DEF PutUpdate, PutCreate
  <2>. QED BY <2>1 DEF Done, IInv, ImportOK
<1>. QED BY <1>4, <1>5 DEF MInv, Waits

LEMMA MirrorStep == IInv /\ MInv /\ [ArchiveNext]_archiveVars => MInv'
<1>. SUFFICES ASSUME IInv, MInv, [ArchiveNext]_archiveVars PROVE MInv'  OBVIOUS
<1>1. CASE Die /\ Cut
  <2>1. MirrorType' /\ QuietInv'  BY <1>1, TypeDie, QuietDie DEF MInv
  <2>2. Waits'  BY <1>1 DEF Cut, NoImport, Waits
  <2>. QED BY <2>1, <2>2 DEF MInv
<1>2. ASSUME NEW p \in Procs, SyncOn(p) PROVE MInv'  BY <1>2, SyncWaits
<1>3. CASE Other
  <2>1. PICK c \in Clients \ {Importer} : RequestOn(c, workload.names)  BY <1>3 DEF Other
  <2>2. workload.names \in SUBSET Names  BY ArchiveAssumption DEF IInv, ImportOK
  <2>3. TablesOK' /\ pc[c] = "idle" /\ \E syncs \in BOOLEAN : Follow(c, syncs)
    BY <2>1, <2>2, RequestOK DEF MInv
  <2>4. MirrorType' /\ QuietInv'  BY <2>3, FollowOK, FollowQuiet DEF MInv
  <2>5. pc'[Importer] = pc[Importer]
    <3>1. Importer \in Procs /\ Importer # c  BY ArchiveAssumption DEF Procs
    <3>. QED BY <2>3, <3>1 DEF Follow, MInv, MirrorType, LocalsOK
  <2>6. import' = import  BY <1>3 DEF Other
  <2>. QED BY <2>4, <2>5, <2>6 DEF MInv, Waits
<1>4. CASE PutUpdate \/ PutCreate  BY <1>4, PutMirror
<1>5. ASSUME UNCHANGED vars, import'.at = "put" => import.at = "put" \/ pc[Importer] = "idle"
      PROVE  MInv'
  <2>1. MirrorType' /\ QuietInv'  BY <1>5, TypeUntouched, QuietUntouched DEF MInv
  <2>2. pc' = pc  BY <1>5 DEF vars
  <2>. QED BY <1>5, <2>1, <2>2 DEF MInv, Waits
<1>6. CASE FindRoot \/ ListTree \/ (\E d \in Dirs : ListDir(d)) \/ EndExport
  BY <1>5, <1>6, ExportSteps
<1>7. CASE Unpack \/ Skip \/ LookUp \/ EndImport
  BY <1>5, <1>7 DEF Unpack, Skip, LookUp, EndImport
<1>8. CASE UNCHANGED archiveVars  BY <1>5, <1>8 DEF archiveVars
<1>. QED BY <1>1, <1>2, <1>3, <1>4, <1>6, <1>7, <1>8
         DEF ArchiveNext, ExportStep, ImportStep, ExportFails, Crash

LEMMA ArchiveMirror == ArchiveSpec => [](MirrorType /\ QuietInv)
<1>1. ArchiveInit => MInv
  <2>1. ArchiveInit => Init /\ import.at # "put"  BY DEF ArchiveInit, NoImport
  <2>. QED BY <2>1, TypeInit, QuietInit DEF MInv, Waits
<1>2. MInv => MirrorType /\ QuietInv  BY DEF MInv
<1>. QED BY <1>1, <1>2, InitOK, NextOK, MirrorStep, PTL DEF ArchiveSpec

\* Exports that end the process and imports whose updates sync leave the mirror's types as
\* they are.
THEOREM ArchiveMirrorTypes == ArchiveSpec => []TypeOK
BY ArchiveMirror, TypeMeans, PTL

\* Beside exports and imports, too, a sync that overlaps no change and no other sync leaves
\* in every directory of the tree its concepts and no others.
THEOREM ArchiveQuietSyncs == ArchiveSpec => []QuietSyncMirrorsConcepts
BY ArchiveMirror, QuietMeans, PTL

\* And at start-up, also after an export has ended the process, the generated files as well.
THEOREM ArchiveStartups == ArchiveSpec => []StartupMirrorsAll
BY ArchiveMirror, QuietMeans, PTL

=============================================================================
