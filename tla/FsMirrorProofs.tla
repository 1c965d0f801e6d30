--------------------------- MODULE FsMirrorProofs ---------------------------
(***************************************************************************)
(* Proofs about FsMirror, for any processes, directories, names, contents, *)
(* databases, and numbers of changes and crashes.                          *)
(***************************************************************************)
EXTENDS FsMirror, TLAPS

Tables == [Dirs -> [Names -> Stored \cup {Null}]]

TablesOK == mirroring \in BOOLEAN /\ live \subseteq Dirs /\ docs \in Tables

\* What a file may say.
Said(f) == IF f \in Names THEN Contents \cup {Torn, Null} ELSE Texts \cup {Torn, Null}
DiskOK == /\ DOMAIN disk = Dirs
          /\ \A d \in Dirs : /\ disk[d] = [f \in Files |-> disk[d][f]]
                             /\ \A f \in Files : disk[d][f] \in Said(f)

\* Every process's variables.
LocalsOK ==
  /\ pc \in [Procs -> {"idle", "list", "sync", "write"}]
  /\ listing \in [Procs -> [dirs : SUBSET Dirs, docs : Tables]]
  /\ todo \in [Procs -> SUBSET (Dirs \X Files)]
  /\ buffer \in [Procs -> [file : (Dirs \X Derived) \cup {Null}, text : Texts \cup {Null}]]
  /\ written \in [Procs -> SUBSET (Dirs \X Files)]
  /\ unswept \in [Procs -> SUBSET Dirs]
  /\ stale \in [Procs -> SUBSET (Dirs \X Files)]

\* A process at rest has nothing left to do; files are removed when all have been written;
\* the file being written is one of those to do; there was a concept wherever there is one
\* to write.
ProcOK(p) ==
  /\ pc[p] \in {"idle", "list"} => todo[p] = {} /\ stale[p] = {}
  /\ stale[p] # {} => todo[p] = {} /\ pc[p] = "sync"
  /\ pc[p] = "write" => /\ buffer[p].file \in todo[p] \cap (Dirs \X Derived)
                        /\ buffer[p].text \in Texts
  /\ \A t \in todo[p] : t[2] \in Names => listing[p].docs[t[1]][t[2]] # Null

MirrorType == /\ TablesOK /\ DiskOK /\ LocalsOK /\ \A p \in Procs : ProcOK(p)
              /\ quiet \subseteq Procs /\ settled \in Procs \cup {Null}

-----------------------------------------------------------------------------
(* Types.                                                                  *)

\* One file changes.
LEMMA DiskPut ==
  ASSUME DiskOK, NEW t \in Dirs \X Files, NEW x \in Said(t[2]),
         disk' = [disk EXCEPT ![t[1]][t[2]] = x]
  PROVE  /\ DiskOK'
         /\ \A d \in Dirs, f \in Files : disk'[d][f] = IF t = <<d, f>> THEN x ELSE disk[d][f]
<1>1. DOMAIN disk = Dirs /\ t[1] \in Dirs /\ t[2] \in Files /\ t = <<t[1], t[2]>>
  BY DEF DiskOK
<1>2. \A d \in Dirs : DOMAIN disk[d] = Files /\ \A f \in Files : disk[d][f] \in Said(f)
  BY DEF DiskOK
<1>3. /\ DOMAIN disk' = Dirs
      /\ \A d \in Dirs : d # t[1] => disk'[d] = disk[d]
      /\ disk'[t[1]] = [disk[t[1]] EXCEPT ![t[2]] = x]
  BY <1>1
<1>4. /\ disk'[t[1]] = [f \in Files |-> IF f = t[2] THEN x ELSE disk[t[1]][f]]
  BY <1>1, <1>2, <1>3
<1>5. ASSUME NEW d \in Dirs
      PROVE  /\ disk'[d] = [f \in Files |-> disk'[d][f]]
             /\ \A f \in Files : /\ disk'[d][f] \in Said(f)
                                 /\ disk'[d][f] = IF t = <<d, f>> THEN x ELSE disk[d][f]
  <2>1. CASE d = t[1]  BY <1>1, <1>2, <1>4, <2>1
  <2>2. CASE d # t[1]  BY <1>1, <1>2, <1>3, <2>2 DEF DiskOK
  <2>. QED BY <2>1, <2>2
<1>. QED BY <1>3, <1>5 DEF DiskOK, Said

LEMMA TextType ==
  ASSUME TablesOK, NEW d \in Dirs
  PROVE  Text(d) \in Texts
<1>1. Below(d) \in SUBSET Dirs  BY DEF Below, Tree, TablesOK
<1>2. Text(d) \in [Below(d) -> [Names -> Stored \cup {Null}]]
  BY <1>1 DEF Text, TablesOK, Tables
<1>. QED BY <1>1, <1>2 DEF Texts

\* One of the items there are is the first.
LEMMA FirstOf == ASSUME NEW items, items # {} PROVE First(items) \in items
BY DEF First

LEMMA TypeInit == Init => MirrorType
<1>. SUFFICES ASSUME Init PROVE MirrorType  OBVIOUS
<1>1. TablesOK
  <2>1. PICK v \in Vaults : live = v.live /\ docs = v.docs  BY DEF Init
  <2>2. v.live \subseteq Dirs /\ v.docs \in Tables  BY ConstantsAssumption DEF Tables
  <2>. QED BY <2>1, <2>2 DEF TablesOK, Init
<1>2. DiskOK  BY DEF Init, DiskOK, Said
<1>3. NoListing \in [dirs : SUBSET Dirs, docs : Tables]
      /\ NoBuffer \in [file : (Dirs \X Derived) \cup {Null}, text : Texts \cup {Null}]
  BY DEF NoListing, NoBuffer, Blank, Everything, Tables
<1>4. pc \in [Procs -> {"idle", "list", "sync", "write"}]
      /\ \A p \in Procs : pc[p] \in {"idle", "list"}
  BY DEF Init, Starting
<1>5. LocalsOK  BY <1>3, <1>4 DEF Init, LocalsOK
<1>6. ASSUME NEW p \in Procs PROVE ProcOK(p)
  <2>1. todo[p] = {} /\ stale[p] = {} /\ pc[p] \in {"idle", "list"}  BY <1>4 DEF Init
  <2>. QED BY <2>1 DEF ProcOK
<1>. QED BY <1>1, <1>2, <1>5, <1>6 DEF MirrorType, Init


\* What a step leaves alone of a process keeps the process in order.
LEMMA ProcKeeps ==
  ASSUME NEW q \in Procs, ProcOK(q), pc'[q] = pc[q], listing'[q] = listing[q],
         todo'[q] = todo[q], buffer'[q] = buffer[q], stale'[q] = stale[q]
  PROVE  ProcOK(q)'
BY DEF ProcOK

LEMMA TypeList ==
  ASSUME MirrorType, NEW p \in Procs, List(p)
  PROVE  MirrorType'
<1>. USE DEF MirrorType
<1>1. TablesOK' /\ DiskOK'
  BY DEF List, database, TablesOK, DiskOK
<1>2. CASE Tree = {}
  <2>1. Ends(p) /\ UNCHANGED sync /\ pc[p] = "list"  BY <1>2 DEF List
  <2>2. pc' = [pc EXCEPT ![p] = "idle"] /\ pc' \in [Procs -> {"idle", "list", "sync", "write"}]
    BY <2>1 DEF Ends, LocalsOK
  <2>3. LocalsOK'  BY <2>1, <2>2 DEF LocalsOK, sync
  <2>4. ASSUME NEW q \in Procs PROVE ProcOK(q)'
    <3>1. CASE q = p
      <4>1. pc'[p] = "idle" /\ todo'[p] = {} /\ stale'[p] = {}
        BY <2>1, <2>2 DEF LocalsOK, ProcOK, sync
      <4>. QED BY <3>1, <4>1 DEF ProcOK
    <3>2. CASE q # p  BY <2>1, <2>2, <3>2, ProcKeeps DEF sync, LocalsOK
    <3>. QED BY <3>1, <3>2
  <2>5. quiet' \subseteq Procs /\ settled' \in Procs \cup {Null}  BY <2>1 DEF Ends
  <2>. QED BY <1>1, <2>3, <2>4, <2>5
<1>3. CASE Tree # {}
  <2>. DEFINE items == {<<d, f>> : d \in Tree, f \in Derived} \cup
                       {t \in Tree \X Names : docs[t[1]][t[2]] # Null}
              listed == [dirs |-> Tree, docs |-> docs]
  <2>1. /\ pc' = [pc EXCEPT ![p] = "sync"] /\ pc[p] = "list"
        /\ listing' = [listing EXCEPT ![p] = listed]
        /\ todo' = [todo EXCEPT ![p] = items]
        /\ written' = [written EXCEPT ![p] = {}]
        /\ unswept' = [unswept EXCEPT ![p] = Tree]
        /\ UNCHANGED <<buffer, stale, quiet, settled>>
    BY <1>3 DEF List
  <2>2. Tree \subseteq Dirs /\ listed \in [dirs : SUBSET Dirs, docs : Tables]
    BY DEF Tree, TablesOK
  <2>3. items \in SUBSET (Dirs \X Files)  BY <2>2 DEF Files
  <2>4. \A t \in items : t[2] \in Names => listed.docs[t[1]][t[2]] # Null
    BY ConstantsAssumption
  <2>. HIDE DEF items, listed
  <2>5. LocalsOK'  BY <2>1, <2>2, <2>3 DEF LocalsOK
  <2>6. ASSUME NEW q \in Procs PROVE ProcOK(q)'
    <3>1. CASE q = p
      <4>1. /\ pc'[p] = "sync" /\ stale'[p] = {} /\ todo'[p] = items /\ listing'[p] = listed
        BY <2>1 DEF LocalsOK, ProcOK
      <4>. QED BY <2>4, <3>1, <4>1 DEF ProcOK
    <3>2. CASE q # p  BY <2>1, <3>2, ProcKeeps DEF LocalsOK
    <3>. QED BY <3>1, <3>2
  <2>. QED BY <1>1, <2>1, <2>5, <2>6
<1>. QED BY <1>2, <1>3

LEMMA TypeGenerate ==
  ASSUME MirrorType, NEW p \in Procs, Generate(p)
  PROVE  MirrorType'
<1>. USE DEF MirrorType
<1>. DEFINE derived == {i \in todo[p] : i[2] \in Derived}
            t == First(derived)
<1>1. t \in derived  BY FirstOf DEF Generate
<1>. HIDE DEF t
<1>2. /\ pc[p] = "sync"
      /\ UNCHANGED <<database, mirroring, disk, listing, written, unswept, stale, quiet, settled>>
      /\ \/ /\ t[1] \in Tree
            /\ buffer' = [buffer EXCEPT ![p] = [file |-> t, text |-> Text(t[1])]]
            /\ pc' = [pc EXCEPT ![p] = "write"]
            /\ UNCHANGED todo
         \/ /\ todo' = [todo EXCEPT ![p] = @ \ {t}]
            /\ UNCHANGED <<buffer, pc>>
  BY DEF Generate, t
<1>3. TablesOK' /\ DiskOK'  BY <1>2 DEF database, TablesOK, DiskOK
<1>4. t \in todo[p] /\ t \in Dirs \X Derived /\ stale[p] = {}
  <2>1. t \in Dirs \X Files /\ t[2] \in Derived /\ t \in todo[p]  BY <1>1 DEF LocalsOK
  <2>2. t \in Dirs \X Derived  BY <2>1
  <2>. QED BY <1>2, <2>1, <2>2 DEF ProcOK
<1>5. CASE /\ t[1] \in Tree
           /\ buffer' = [buffer EXCEPT ![p] = [file |-> t, text |-> Text(t[1])]]
           /\ pc' = [pc EXCEPT ![p] = "write"]
           /\ UNCHANGED todo
  <2>1. Text(t[1]) \in Texts  BY <1>4, TextType
  <2>2. LocalsOK'  BY <1>2, <1>4, <1>5, <2>1 DEF LocalsOK
  <2>3. ASSUME NEW q \in Procs PROVE ProcOK(q)'
    <3>1. CASE q = p
      <4>1. /\ pc'[p] = "write" /\ stale'[p] = {} /\ todo'[p] = todo[p] /\ listing'[p] = listing[p]
            /\ buffer'[p].file = t /\ buffer'[p].text = Text(t[1])
        BY <1>2, <1>4, <1>5 DEF LocalsOK
      <4>. QED BY <1>4, <2>1, <3>1, <4>1 DEF ProcOK
    <3>2. CASE q # p  BY <1>2, <1>5, <3>2, ProcKeeps DEF LocalsOK
    <3>. QED BY <3>1, <3>2
  <2>. QED BY <1>2, <1>3, <2>2, <2>3
<1>6. CASE todo' = [todo EXCEPT ![p] = @ \ {t}] /\ UNCHANGED <<buffer, pc>>
  <2>1. LocalsOK'  BY <1>2, <1>6 DEF LocalsOK
  <2>2. ASSUME NEW q \in Procs PROVE ProcOK(q)'
    <3>1. CASE q = p
      <4>1. /\ pc'[p] = "sync" /\ stale'[p] = {} /\ todo'[p] = todo[p] \ {t}
            /\ listing'[p] = listing[p]
        BY <1>2, <1>4, <1>6 DEF LocalsOK
      <4>. QED BY <3>1, <4>1 DEF ProcOK
    <3>2. CASE q # p  BY <1>2, <1>6, <3>2, ProcKeeps DEF LocalsOK
    <3>. QED BY <3>1, <3>2
  <2>. QED BY <1>2, <1>3, <2>1, <2>2
<1>. QED BY <1>2, <1>5, <1>6


\* A file is written by the process that has it to do.
LEMMA WroteOK ==
  ASSUME MirrorType, NEW p \in Procs, NEW t \in todo[p], NEW x \in Said(t[2]), Wrote(p, t, x)
  PROVE  /\ DiskOK'
         /\ \A d \in Dirs, f \in Files : disk'[d][f] = IF t = <<d, f>> THEN x ELSE disk[d][f]
         /\ todo' \in [Procs -> SUBSET (Dirs \X Files)]
         /\ written' \in [Procs -> SUBSET (Dirs \X Files)]
         /\ todo'[p] = todo[p] \ {t} /\ written'[p] = written[p] \cup {t}
         /\ \A q \in Procs \ {p} : todo'[q] = todo[q] /\ written'[q] = written[q]
<1>1. t \in Dirs \X Files  BY DEF MirrorType, LocalsOK
<1>2. disk' = [disk EXCEPT ![t[1]][t[2]] = x]  BY DEF Wrote
<1>3. DiskOK  BY DEF MirrorType
<1>4. /\ DiskOK'
      /\ \A d \in Dirs, f \in Files : disk'[d][f] = IF t = <<d, f>> THEN x ELSE disk[d][f]
  BY <1>1, <1>2, <1>3, DiskPut
<1>5. /\ todo' = [todo EXCEPT ![p] = @ \ {t}]
      /\ written' = [written EXCEPT ![p] = @ \cup {t}]
  BY DEF Wrote
<1>. QED BY <1>1, <1>4, <1>5 DEF MirrorType, LocalsOK

LEMMA TypeWriteGenerated ==
  ASSUME MirrorType, NEW p \in Procs, WriteGenerated(p)
  PROVE  MirrorType'
<1>. USE DEF MirrorType
<1>. DEFINE t == buffer[p].file
            x == buffer[p].text
<1>1. /\ pc[p] = "write" /\ Wrote(p, t, x)
      /\ buffer' = [buffer EXCEPT ![p] = NoBuffer] /\ pc' = [pc EXCEPT ![p] = "sync"]
      /\ UNCHANGED <<database, mirroring, listing, unswept, stale, quiet, settled>>
  BY DEF WriteGenerated
<1>2. t \in todo[p] /\ t[2] \in Derived /\ x \in Texts /\ stale[p] = {}
  BY <1>1 DEF ProcOK
<1>3. x \in Said(t[2])  BY <1>2, ConstantsAssumption DEF Said
<1>. HIDE DEF t, x
<1>4. /\ DiskOK'
      /\ todo' \in [Procs -> SUBSET (Dirs \X Files)]
      /\ written' \in [Procs -> SUBSET (Dirs \X Files)]
      /\ todo'[p] = todo[p] \ {t}
      /\ \A q \in Procs \ {p} : todo'[q] = todo[q]
  BY <1>1, <1>2, <1>3, WroteOK
<1>5. TablesOK'  BY <1>1 DEF database, TablesOK
<1>6. NoBuffer \in [file : (Dirs \X Derived) \cup {Null}, text : Texts \cup {Null}]
  BY DEF NoBuffer
<1>7. LocalsOK'  BY <1>1, <1>4, <1>6 DEF LocalsOK
<1>8. ASSUME NEW q \in Procs PROVE ProcOK(q)'
  <2>1. CASE q = p
    <3>1. /\ pc'[p] = "sync" /\ stale'[p] = {} /\ todo'[p] \subseteq todo[p]
          /\ listing'[p] = listing[p]
      BY <1>1, <1>2, <1>4 DEF LocalsOK
    <3>. QED BY <2>1, <3>1 DEF ProcOK
  <2>2. CASE q # p  BY <1>1, <1>4, <2>2, ProcKeeps DEF LocalsOK
  <2>. QED BY <2>1, <2>2
<1>. QED BY <1>1, <1>4, <1>5, <1>7, <1>8

LEMMA TypeWriteConcept ==
  ASSUME MirrorType, NEW p \in Procs, WriteConcept(p)
  PROVE  MirrorType'
<1>. USE DEF MirrorType
<1>. DEFINE t == First(todo[p])
            x == listing[p].docs[t[1]][t[2]]
<1>1. t \in todo[p] /\ t[2] \in Names  BY FirstOf DEF WriteConcept
<1>2. /\ pc[p] = "sync"
      /\ UNCHANGED <<database, mirroring, pc, listing, buffer, unswept, stale, quiet, settled>>
      /\ \/ x = Unrenderable /\ todo' = [todo EXCEPT ![p] = @ \ {t}] /\ UNCHANGED <<disk, written>>
         \/ x # Unrenderable /\ Wrote(p, t, x)
  BY DEF WriteConcept
<1>3. x \in Stored /\ stale[p] = {}
  <2>1. t[1] \in Dirs /\ listing[p].docs \in Tables  BY <1>1 DEF LocalsOK
  <2>2. x # Null  BY <1>1 DEF ProcOK
  <2>3. x \in Stored  BY <1>1, <2>1, <2>2 DEF Tables
  <2>4. stale[p] = {}  BY <1>1 DEF ProcOK
  <2>. QED BY <2>3, <2>4
<1>. HIDE DEF t, x
<1>4. /\ DiskOK'
      /\ todo' \in [Procs -> SUBSET (Dirs \X Files)]
      /\ written' \in [Procs -> SUBSET (Dirs \X Files)]
      /\ todo'[p] = todo[p] \ {t}
      /\ \A q \in Procs \ {p} : todo'[q] = todo[q]
  <2>1. CASE x = Unrenderable  BY <1>2, <2>1 DEF LocalsOK, DiskOK
  <2>2. CASE x # Unrenderable
    <3>1. x \in Said(t[2])  BY <1>1, <1>3, <2>2 DEF Said, Stored
    <3>. QED BY <1>1, <1>2, <2>2, <3>1, WroteOK
  <2>. QED BY <2>1, <2>2
<1>5. TablesOK'  BY <1>2 DEF database, TablesOK
<1>6. LocalsOK'  BY <1>2, <1>4 DEF LocalsOK
<1>7. ASSUME NEW q \in Procs PROVE ProcOK(q)'
  <2>1. CASE q = p
    <3>1. /\ pc'[p] = "sync" /\ stale'[p] = {} /\ todo'[p] \subseteq todo[p]
          /\ listing'[p] = listing[p]
      BY <1>2, <1>3, <1>4
    <3>. QED BY <2>1, <3>1 DEF ProcOK
  <2>2. CASE q # p  BY <1>2, <1>4, <2>2, ProcKeeps
  <2>. QED BY <2>1, <2>2
<1>. QED BY <1>2, <1>4, <1>5, <1>6, <1>7

LEMMA TypeReadDir ==
  ASSUME MirrorType, NEW p \in Procs, ReadDir(p)
  PROVE  MirrorType'
<1>. USE DEF MirrorType
<1>. DEFINE d == First(unswept[p])
            found == {<<d, f>> : f \in Stale(p, d)}
<1>1. d \in unswept[p]  BY FirstOf DEF ReadDir
<1>2. /\ pc[p] = "sync" /\ todo[p] = {}
      /\ unswept' = [unswept EXCEPT ![p] = @ \ {d}]
      /\ stale' = [stale EXCEPT ![p] = found]
      /\ UNCHANGED <<database, mirroring, disk, pc, listing, todo, buffer, written, quiet, settled>>
  BY DEF ReadDir
<1>3. found \in SUBSET (Dirs \X Files)
  <2>1. d \in Dirs  BY <1>1 DEF LocalsOK
  <2>2. \A f \in Stale(p, d) : f \in Files  BY DEF Stale
  <2>. HIDE DEF d
  <2>. QED BY <2>1, <2>2
<1>. HIDE DEF d, found
<1>4. TablesOK' /\ DiskOK'  BY <1>2 DEF database, TablesOK, DiskOK
<1>5. LocalsOK'  BY <1>2, <1>3 DEF LocalsOK
<1>6. ASSUME NEW q \in Procs PROVE ProcOK(q)'
  <2>1. CASE q = p  BY <1>2, <2>1 DEF ProcOK
  <2>2. CASE q # p  BY <1>2, <2>2, ProcKeeps DEF LocalsOK
  <2>. QED BY <2>1, <2>2
<1>. QED BY <1>2, <1>4, <1>5, <1>6

LEMMA TypeUnlink ==
  ASSUME MirrorType, NEW p \in Procs, Unlink(p)
  PROVE  MirrorType'
<1>. USE DEF MirrorType
<1>. DEFINE t == First(stale[p])
<1>1. t \in stale[p]  BY FirstOf DEF Unlink
<1>2. /\ UNCHANGED <<database, mirroring, pc, listing, todo, buffer, written, unswept, quiet, settled>>
      /\ \/ stale' = [stale EXCEPT ![p] = {}] /\ UNCHANGED disk
         \/ stale' = [stale EXCEPT ![p] = @ \ {t}] /\ disk' = [disk EXCEPT ![t[1]][t[2]] = Null]
  BY DEF Unlink
<1>3. t \in Dirs \X Files /\ Null \in Said(t[2])  BY <1>1 DEF LocalsOK, Said
<1>. HIDE DEF t
<1>4. TablesOK'  BY <1>2 DEF database, TablesOK
<1>5. DiskOK'
  <2>1. CASE UNCHANGED disk  BY <2>1 DEF DiskOK
  <2>2. CASE disk' = [disk EXCEPT ![t[1]][t[2]] = Null]  BY <1>3, <2>2, DiskPut
  <2>. QED BY <1>2, <2>1, <2>2
<1>6. LocalsOK' /\ stale'[p] \subseteq stale[p] /\ \A q \in Procs \ {p} : stale'[q] = stale[q]
  <2>1. CASE stale' = [stale EXCEPT ![p] = {}]  BY <1>2, <2>1 DEF LocalsOK
  <2>2. CASE stale' = [stale EXCEPT ![p] = @ \ {t}]  BY <1>2, <2>2 DEF LocalsOK
  <2>. QED BY <1>2, <2>1, <2>2
<1>7. ASSUME NEW q \in Procs PROVE ProcOK(q)'
  <2>1. CASE q = p
    <3>1. stale[p] # {} /\ ProcOK(p)  BY <1>1
    <3>. QED BY <1>2, <1>6, <2>1, <3>1 DEF ProcOK
  <2>2. CASE q # p  BY <1>2, <1>6, <2>2, ProcKeeps
  <2>. QED BY <2>1, <2>2
<1>. QED BY <1>2, <1>4, <1>5, <1>6, <1>7

LEMMA TypeEnd ==
  ASSUME MirrorType, NEW p \in Procs, End(p)
  PROVE  MirrorType'
<1>. USE DEF MirrorType
<1>1. /\ todo[p] = {} /\ stale[p] = {} /\ Ends(p)
      /\ UNCHANGED <<database, mirroring, disk, sync>>
  BY DEF End
<1>2. pc' = [pc EXCEPT ![p] = "idle"] /\ quiet' \subseteq Procs /\ settled' \in Procs \cup {Null}
  BY <1>1 DEF Ends
<1>3. TablesOK' /\ DiskOK'  BY <1>1 DEF database, TablesOK, DiskOK
<1>4. LocalsOK'  BY <1>1, <1>2 DEF LocalsOK, sync
<1>5. ASSUME NEW q \in Procs PROVE ProcOK(q)'
  <2>1. CASE q = p
    <3>1. pc'[p] = "idle" /\ todo'[p] = {} /\ stale'[p] = {}
      BY <1>1, <1>2 DEF LocalsOK, sync
    <3>. QED BY <2>1, <3>1 DEF ProcOK
  <2>2. CASE q # p  BY <1>1, <1>2, <2>2, ProcKeeps DEF LocalsOK, sync
  <2>. QED BY <2>1, <2>2
<1>. QED BY <1>2, <1>3, <1>4, <1>5


\* A request starts a sync of its client or none.
LEMMA FollowOK ==
  ASSUME MirrorType, NEW c \in Clients, NEW syncs \in BOOLEAN, pc[c] = "idle",
         Follow(c, syncs), TablesOK'
  PROVE  MirrorType'
<1>. USE DEF MirrorType
<1>1. /\ settled' = Null /\ UNCHANGED <<disk, sync, mirroring>>
      /\ pc' = [pc EXCEPT ![c] = IF syncs THEN "list" ELSE "idle"]
      /\ IF syncs THEN Begins(c) ELSE quiet' = {}
  BY DEF Follow
<1>2. c \in Procs  BY DEF Procs
<1>3. DiskOK' /\ LocalsOK' /\ quiet' \subseteq Procs
  BY <1>1, <1>2 DEF DiskOK, LocalsOK, sync, Begins
<1>4. ASSUME NEW q \in Procs PROVE ProcOK(q)'
  <2>1. CASE q = c
    <3>1. pc'[c] \in {"idle", "list"} /\ todo'[c] = {} /\ stale'[c] = {}
      BY <1>1, <1>2 DEF LocalsOK, ProcOK, sync
    <3>. QED BY <2>1, <3>1 DEF ProcOK
  <2>2. CASE q # c  BY <1>1, <2>2, ProcKeeps DEF LocalsOK, sync
  <2>. QED BY <2>1, <2>2
<1>. QED BY <1>1, <1>3, <1>4

\* What a request does: the database stays in order, and one sync starts or none.
LEMMA RequestOK ==
  ASSUME MirrorType, NEW c \in Clients, NEW names \in SUBSET Names, RequestOn(c, names)
  PROVE  /\ TablesOK' /\ pc[c] = "idle"
         /\ \E syncs \in BOOLEAN : Follow(c, syncs)
<1>1. PICK d \in Dirs :
        \/ MakeDir(c, d) \/ RemoveDir(c, d)
        \/ \E n \in names : \/ Delete(c, d, n)
                            \/ \E x \in Stored : Create(c, d, n, x) \/ Update(c, d, n, x)
  BY DEF RequestOn
<1>2. Everything(Null) \in [Names -> Stored \cup {Null}]  BY DEF Everything
<1>3. pc[c] = "idle" /\ \E syncs \in BOOLEAN : Follow(c, syncs)
  BY <1>1 DEF MakeDir, RemoveDir, Delete, Create, Update, Changed
<1>4. mirroring' = mirroring  BY <1>3 DEF Follow
<1>5. live \subseteq Dirs /\ docs \in Tables /\ mirroring \in BOOLEAN
  BY DEF MirrorType, TablesOK
<1>6. live' \subseteq Dirs /\ docs' \in Tables
  <2>1. CASE MakeDir(c, d)  BY <1>2, <1>5, <2>1 DEF MakeDir, Tables
  <2>2. CASE RemoveDir(c, d)  BY <1>2, <1>5, <2>2 DEF RemoveDir, Tables
  <2>3. ASSUME NEW n \in names, Delete(c, d, n) PROVE live' \subseteq Dirs /\ docs' \in Tables
    BY <1>5, <2>3 DEF Delete, Tables
  <2>4. ASSUME NEW n \in names, NEW x \in Stored, Create(c, d, n, x) \/ Update(c, d, n, x)
        PROVE  live' \subseteq Dirs /\ docs' \in Tables
    <3>1. docs' = [docs EXCEPT ![d][n] = x] /\ (live' = live \cup {d} \/ live' = live)
      BY <2>4 DEF Create, Update
    <3>. QED BY <1>5, <3>1 DEF Tables
  <2>. QED BY <1>1, <2>1, <2>2, <2>3, <2>4
<1>. QED BY <1>3, <1>4, <1>5, <1>6 DEF TablesOK

LEMMA TypeDie ==
  ASSUME MirrorType, Die
  PROVE  MirrorType'
<1>. USE DEF MirrorType
<1>1. TablesOK'  BY DEF Die, database, TablesOK
<1>2. DiskOK'
  <2>1. CASE UNCHANGED disk  BY <2>1 DEF DiskOK
  <2>2. CASE \E p \in Procs : \E t \in todo[p] : disk' = [disk EXCEPT ![t[1]][t[2]] = Torn]
    <3>1. PICK p \in Procs : \E t \in todo[p] : disk' = [disk EXCEPT ![t[1]][t[2]] = Torn]
      BY <2>2
    <3>. PICK t \in todo[p] : disk' = [disk EXCEPT ![t[1]][t[2]] = Torn]  BY <3>1
    <3>2. t \in Dirs \X Files /\ Torn \in Said(t[2])  BY DEF LocalsOK, Said
    <3>. QED BY <3>1, <3>2, DiskPut
  <2>. QED BY <2>1, <2>2 DEF Die
<1>3. NoListing \in [dirs : SUBSET Dirs, docs : Tables]
      /\ NoBuffer \in [file : (Dirs \X Derived) \cup {Null}, text : Texts \cup {Null}]
  BY DEF NoListing, NoBuffer, Blank, Everything, Tables
<1>4. pc' \in [Procs -> {"idle", "list", "sync", "write"}]
      /\ \A p \in Procs : pc'[p] \in {"idle", "list"}
  BY DEF Die, Starting
<1>5. LocalsOK'  BY <1>3, <1>4 DEF Die, LocalsOK
<1>6. ASSUME NEW p \in Procs PROVE ProcOK(p)'
  <2>1. todo'[p] = {} /\ stale'[p] = {} /\ pc'[p] \in {"idle", "list"}  BY <1>4 DEF Die
  <2>. QED BY <2>1 DEF ProcOK
<1>7. quiet' \subseteq Procs /\ settled' \in Procs \cup {Null}  BY DEF Die
<1>. QED BY <1>1, <1>2, <1>5, <1>6, <1>7

\* Steps that are none of the mirror's.
LEMMA TypeUntouched ==
  ASSUME MirrorType, UNCHANGED vars
  PROVE  MirrorType'
<1>1. UNCHANGED <<live, docs, mirroring, disk, pc, listing, todo, buffer, written, unswept,
                  stale, quiet, settled>>
  BY DEF vars, database, sync
<1>2. \A p \in Procs : ProcOK(p)'  BY <1>1, ProcKeeps DEF MirrorType
<1>. QED BY <1>1, <1>2 DEF MirrorType, TablesOK, DiskOK, LocalsOK

LEMMA TypeSyncStep ==
  ASSUME MirrorType, NEW p \in Procs, SyncStep(p)
  PROVE  MirrorType'
BY TypeList, TypeGenerate, TypeWriteGenerated, TypeWriteConcept, TypeReadDir, TypeUnlink,
   TypeEnd DEF SyncStep

LEMMA TypeNext == MirrorType /\ [Next]_vars => MirrorType'
<1>. SUFFICES ASSUME MirrorType, [Next]_vars PROVE MirrorType'  OBVIOUS
<1>1. CASE Crash  BY <1>1, TypeDie DEF Crash
<1>2. ASSUME NEW p \in Procs, SyncStep(p) PROVE MirrorType'
  BY <1>2, TypeSyncStep
<1>3. ASSUME NEW c \in Clients, Request(c) PROVE MirrorType'
  <2>1. RequestOn(c, Names)  BY <1>3 DEF Request
  <2>2. TablesOK' /\ pc[c] = "idle" /\ \E syncs \in BOOLEAN : Follow(c, syncs)
    BY <2>1, RequestOK
  <2>. QED BY <2>2, FollowOK
<1>4. CASE UNCHANGED vars  BY <1>4, TypeUntouched
<1>. QED BY <1>1, <1>2, <1>3, <1>4 DEF Next

LEMMA TypeMeans == MirrorType => TypeOK
<1>. SUFFICES ASSUME MirrorType PROVE TypeOK  OBVIOUS
<1>1. \A d \in Dirs : /\ DOMAIN disk[d] = Files
                      /\ \A n \in Names : disk[d][n] \in Contents \cup {Torn, Null}
                      /\ \A f \in Derived : disk[d][f] \in Texts \cup {Torn, Null}
  <2>1. \A f \in Derived : f \notin Names  BY ConstantsAssumption
  <2>. QED BY <2>1 DEF MirrorType, DiskOK, Said, Files
<1>2. \A p \in Procs : /\ listing[p].dirs \subseteq Dirs
                       /\ todo[p] \subseteq Dirs \X Files
                       /\ written[p] \subseteq Dirs \X Files
                       /\ unswept[p] \subseteq Dirs
                       /\ stale[p] \subseteq Dirs \X Files
  BY DEF MirrorType, LocalsOK
<1>. QED BY <1>1, <1>2 DEF TypeOK, MirrorType, TablesOK, LocalsOK, Tables

\* The mirror's variables keep their types: a concept's file never says anything but what a
\* concept may say, or is torn.
THEOREM MirrorTypeCorrect == Spec => []TypeOK
BY TypeMeans, TypeInit, TypeNext, PTL DEF Spec

-----------------------------------------------------------------------------
(* What a sync leaves that nothing overlaps.                               *)

\* A concept has still to be written; or it has been; or it is none that can be, and its
\* file is gone, or its directory or the file itself has still to be cleaned up.
Renderable(d, n) == docs[d][n] \notin {Null, Unrenderable}
Pending(p, d, n) == <<d, n>> \in todo[p] /\ <<d, n>> \notin written[p] /\ d \in unswept[p]
InPlace(p, d, n) == /\ <<d, n>> \in written[p] /\ Renderable(d, n)
                    /\ disk[d][n] = docs[d][n]
Cleaned(p, d, n) ==
  /\ <<d, n>> \notin todo[p] /\ <<d, n>> \notin written[p] /\ ~Renderable(d, n)
  /\ disk[d][n] = Null \/ d \in unswept[p] \/ <<d, n>> \in stale[p]
ConceptsHeld(p) ==
  \A d \in Tree, n \in Names : Pending(p, d, n) \/ InPlace(p, d, n) \/ Cleaned(p, d, n)

\* A generated file of the start-up sync has still to be written or has been.
GeneratedHeld ==
  \A d \in Tree, f \in Derived :
    \/ <<d, f>> \in todo[Startup]
    \/ <<d, f>> \in written[Startup] /\ disk[d][f] = Text(d)

QuietOK(p) ==
  pc[p] \in {"sync", "write"} =>
    /\ listing[p].docs = docs
    /\ todo[p] \subseteq Tree \X Files
    /\ ConceptsHeld(p)
    /\ p = Startup => GeneratedHeld
    /\ pc[p] = "write" => buffer[p].text = Text(buffer[p].file[1])
    /\ \A t \in stale[p] : t \notin written[p] /\ disk[t[1]][t[2]] # Null

\* A quiet sync is the only one.  Nothing happens after it until the next change.
QuietInv ==
  /\ \A p \in quiet : Syncing = {p} /\ QuietOK(p)
  /\ settled # Null => Syncing = {} /\ QuietSyncMirrorsConcepts /\ StartupMirrorsAll

LEMMA QuietList ==
  ASSUME MirrorType, NEW p \in Procs, List(p), Tree # {}
  PROVE  QuietOK(p)'
<1>. DEFINE items == {<<d, f>> : d \in Tree, f \in Derived} \cup
                     {t \in Tree \X Names : docs[t[1]][t[2]] # Null}
<1>1. /\ todo'[p] = items /\ written'[p] = {} /\ unswept'[p] = Tree /\ listing'[p].docs = docs
      /\ pc'[p] = "sync" /\ stale'[p] = {} /\ UNCHANGED <<live, docs>>
  BY DEF List, MirrorType, LocalsOK, ProcOK, database
<1>2. \A d \in Tree, n \in Names : <<d, n>> \in items <=> docs[d][n] # Null
  <2>1. \A d \in Tree, n \in Names : <<d, n>> \notin {<<b, f>> : b \in Tree, f \in Derived}
    BY ConstantsAssumption
  <2>. QED BY <2>1
<1>3. \A d \in Tree, f \in Derived : <<d, f>> \in items  OBVIOUS
<1>4. items \subseteq Tree \X Files  BY DEF Files
<1>. HIDE DEF items
<1>5. Tree' = Tree  BY <1>1 DEF Tree
<1>6. ConceptsHeld(p)'
  <2>1. ASSUME NEW d \in Tree, NEW n \in Names PROVE Pending(p, d, n)' \/ Cleaned(p, d, n)'
    BY <1>1, <1>2, <2>1 DEF Pending, Cleaned, Renderable
  <2>. QED BY <1>5, <2>1 DEF ConceptsHeld
<1>7. p = Startup => GeneratedHeld'  BY <1>1, <1>3, <1>5 DEF GeneratedHeld
<1>. QED BY <1>1, <1>4, <1>5, <1>6, <1>7 DEF QuietOK

LEMMA QuietGenerate ==
  ASSUME MirrorType, NEW p \in Procs, QuietOK(p), Generate(p)
  PROVE  QuietOK(p)'
<1>. DEFINE derived == {i \in todo[p] : i[2] \in Derived}
            t == First(derived)
<1>1. t \in derived  BY FirstOf DEF Generate
<1>2. t \in todo[p] /\ t[2] \in Derived /\ t[2] \notin Names  BY <1>1, ConstantsAssumption
<1>. HIDE DEF t
<1>3. /\ pc[p] = "sync"
      /\ UNCHANGED <<database, disk, listing, written, unswept, stale>>
      /\ \/ /\ buffer' = [buffer EXCEPT ![p] = [file |-> t, text |-> Text(t[1])]]
            /\ pc' = [pc EXCEPT ![p] = "write"]
            /\ UNCHANGED todo
         \/ /\ ~(HasBundles(p) /\ t[1] \in Tree)
            /\ todo' = [todo EXCEPT ![p] = @ \ {t}]
            /\ UNCHANGED <<buffer, pc>>
  BY DEF Generate, t
<1>4. /\ docs' = docs /\ Tree' = Tree /\ (\A d : Text(d)' = Text(d))
  BY <1>3 DEF database, Tree, Text, Below
<1>5. /\ listing[p].docs = docs /\ todo[p] \subseteq Tree \X Files /\ ConceptsHeld(p)
      /\ p = Startup => GeneratedHeld
      /\ \A s \in stale[p] : s \notin written[p] /\ disk[s[1]][s[2]] # Null
  BY <1>3 DEF QuietOK
<1>6. todo'[p] \subseteq todo[p] /\ (\A i \in todo[p] : i[2] \in Names => i \in todo'[p])
      /\ (p = Startup => todo'[p] = todo[p])
      /\ (pc'[p] = "write" => buffer'[p].file = t /\ buffer'[p].text = Text(t[1]))
      /\ pc'[p] \in {"sync", "write"}
  <2>1. CASE /\ buffer' = [buffer EXCEPT ![p] = [file |-> t, text |-> Text(t[1])]]
             /\ pc' = [pc EXCEPT ![p] = "write"]
             /\ UNCHANGED todo
    BY <2>1 DEF MirrorType, LocalsOK
  <2>2. CASE /\ ~(HasBundles(p) /\ t[1] \in Tree)
             /\ todo' = [todo EXCEPT ![p] = @ \ {t}] /\ UNCHANGED <<buffer, pc>>
    <3>1. t[1] \in Tree  BY <1>2, <1>5
    <3>2. p # Startup  BY <2>2, <3>1 DEF HasBundles
    <3>. QED BY <1>2, <1>3, <2>2, <3>2 DEF MirrorType, LocalsOK
  <2>. QED BY <1>3, <2>1, <2>2
<1>7. ConceptsHeld(p)'
  <2>1. ASSUME NEW d \in Tree, NEW n \in Names
        PROVE  (Pending(p, d, n) \/ InPlace(p, d, n) \/ Cleaned(p, d, n))'
    <3>1. <<d, n>> \in todo'[p] <=> <<d, n>> \in todo[p]  BY <1>6
    <3>. QED BY <1>3, <1>4, <1>5, <3>1 DEF ConceptsHeld, Pending, InPlace, Cleaned, Renderable
  <2>. QED BY <1>4, <2>1 DEF ConceptsHeld
<1>8. p = Startup => GeneratedHeld'
  BY <1>3, <1>4, <1>5, <1>6 DEF GeneratedHeld
<1>9. (pc[p] = "write" => buffer[p].text = Text(buffer[p].file[1]))'
  BY <1>3, <1>4, <1>6 DEF Text, Below
<1>. QED BY <1>3, <1>4, <1>5, <1>6, <1>7, <1>8, <1>9 DEF QuietOK


\* A file is written that had to be: it says what it should, or is no longer to be written.
LEMMA QuietWrote ==
  ASSUME MirrorType, NEW p \in Procs, QuietOK(p), pc[p] \in {"sync", "write"},
         NEW t \in todo[p], NEW x \in Said(t[2]), Wrote(p, t, x),
         t[2] \in Names => docs[t[1]][t[2]] = x /\ Renderable(t[1], t[2]),
         t[2] \in Derived => x = Text(t[1]),
         UNCHANGED <<database, listing, unswept, stale>>, stale[p] = {}, pc'[p] = "sync"
  PROVE  QuietOK(p)'
<1>1. /\ \A d \in Dirs, f \in Files : disk'[d][f] = IF t = <<d, f>> THEN x ELSE disk[d][f]
      /\ todo'[p] = todo[p] \ {t} /\ written'[p] = written[p] \cup {t}
  BY WroteOK
<1>2. /\ listing[p].docs = docs /\ todo[p] \subseteq Tree \X Files /\ ConceptsHeld(p)
      /\ p = Startup => GeneratedHeld
  BY DEF QuietOK
<1>3. docs' = docs /\ Tree' = Tree /\ Tree \subseteq Dirs
  BY DEF database, Tree, MirrorType, TablesOK
<1>4. t \in Tree \X Files  BY <1>2
<1>5. ConceptsHeld(p)'
  <2>1. ASSUME NEW d \in Tree, NEW n \in Names
        PROVE  (Pending(p, d, n) \/ InPlace(p, d, n) \/ Cleaned(p, d, n))'
    <3>1. d \in Dirs /\ n \in Files  BY <1>3 DEF Files
    <3>2. CASE t = <<d, n>>
      <4>1. InPlace(p, d, n)'  BY <1>1, <1>3, <3>1, <3>2 DEF InPlace, Renderable
      <4>. QED BY <4>1
    <3>3. CASE t # <<d, n>>
      <4>1. /\ disk'[d][n] = disk[d][n]
            /\ <<d, n>> \in todo'[p] <=> <<d, n>> \in todo[p]
            /\ <<d, n>> \in written'[p] <=> <<d, n>> \in written[p]
        BY <1>1, <3>1, <3>3
      <4>. QED BY <1>2, <1>3, <4>1 DEF ConceptsHeld, Pending, InPlace, Cleaned, Renderable
    <3>. QED BY <3>2, <3>3
  <2>. QED BY <1>3, <2>1 DEF ConceptsHeld
<1>6. ASSUME p = Startup PROVE GeneratedHeld'
  <2>1. ASSUME NEW d \in Tree, NEW f \in Derived
        PROVE  (\/ <<d, f>> \in todo[Startup]
                \/ <<d, f>> \in written[Startup] /\ disk[d][f] = Text(d))'
    <3>1. d \in Dirs /\ f \in Files  BY <1>3 DEF Files
    <3>2. Text(d)' = Text(d)  BY <1>3 DEF Text, Below
    <3>3. CASE t = <<d, f>>  BY <1>1, <1>6, <3>1, <3>2, <3>3
    <3>4. CASE t # <<d, f>>
      <4>1. /\ disk'[d][f] = disk[d][f]
            /\ <<d, f>> \in todo'[p] <=> <<d, f>> \in todo[p]
            /\ <<d, f>> \in written'[p] <=> <<d, f>> \in written[p]
        BY <1>1, <3>1, <3>4
      <4>. QED BY <1>2, <1>6, <3>2, <4>1 DEF GeneratedHeld
    <3>. QED BY <3>3, <3>4
  <2>. QED BY <1>3, <2>1 DEF GeneratedHeld
<1>. QED BY <1>1, <1>2, <1>3, <1>5, <1>6 DEF QuietOK

LEMMA QuietWriteGenerated ==
  ASSUME MirrorType, NEW p \in Procs, QuietOK(p), WriteGenerated(p)
  PROVE  QuietOK(p)'
<1>. DEFINE t == buffer[p].file
            x == buffer[p].text
<1>1. /\ pc[p] = "write" /\ Wrote(p, t, x) /\ pc' = [pc EXCEPT ![p] = "sync"]
      /\ UNCHANGED <<database, listing, unswept, stale>>
  BY DEF WriteGenerated
<1>2. t \in todo[p] /\ t[2] \in Derived /\ x \in Texts /\ stale[p] = {}
  BY <1>1 DEF MirrorType, ProcOK
<1>3. x = Text(t[1])  BY <1>1 DEF QuietOK
<1>. HIDE DEF t, x
<1>4. t[2] \notin Names /\ x \in Said(t[2])  BY <1>2, ConstantsAssumption DEF Said
<1>5. pc'[p] = "sync"  BY <1>1 DEF MirrorType, LocalsOK
<1>. QED BY <1>1, <1>2, <1>3, <1>4, <1>5, QuietWrote

LEMMA QuietWriteConcept ==
  ASSUME MirrorType, NEW p \in Procs, QuietOK(p), WriteConcept(p)
  PROVE  QuietOK(p)'
<1>. DEFINE t == First(todo[p])
            x == listing[p].docs[t[1]][t[2]]
<1>1. t \in todo[p] /\ t[2] \in Names  BY FirstOf DEF WriteConcept
<1>2. /\ pc[p] = "sync"
      /\ UNCHANGED <<database, pc, listing, buffer, unswept, stale>>
      /\ \/ x = Unrenderable /\ todo' = [todo EXCEPT ![p] = @ \ {t}] /\ UNCHANGED <<disk, written>>
         \/ x # Unrenderable /\ Wrote(p, t, x)
  BY DEF WriteConcept
<1>3. x # Null /\ stale[p] = {}  BY <1>1 DEF MirrorType, ProcOK
<1>4. x = docs[t[1]][t[2]]  BY <1>2 DEF QuietOK
<1>. HIDE DEF t, x
<1>5. /\ listing[p].docs = docs /\ todo[p] \subseteq Tree \X Files /\ ConceptsHeld(p)
      /\ p = Startup => GeneratedHeld
  BY <1>2 DEF QuietOK
<1>6. t \in Tree \X Names /\ Tree \subseteq Dirs /\ docs \in Tables
  BY <1>1, <1>5 DEF Tree, MirrorType, TablesOK
<1>7. CASE x # Unrenderable
  <2>1. Renderable(t[1], t[2]) /\ x \in Said(t[2])
    BY <1>1, <1>3, <1>4, <1>6, <1>7 DEF Renderable, Said, Tables, Stored
  <2>2. t[2] \notin Derived  BY <1>1, ConstantsAssumption
  <2>. QED BY <1>1, <1>2, <1>3, <1>4, <1>7, <2>1, <2>2, QuietWrote
<1>8. CASE x = Unrenderable
  <2>1. /\ todo'[p] = todo[p] \ {t} /\ pc'[p] = "sync" /\ stale'[p] = {}
        /\ UNCHANGED <<disk, written, unswept, docs>> /\ Tree' = Tree
    <3>1. todo' = [todo EXCEPT ![p] = @ \ {t}] /\ UNCHANGED <<disk, written>>
      <4>1. ~(x # Unrenderable)  BY <1>8
      <4>. QED BY <1>2, <4>1
    <3>. QED BY <1>2, <1>3, <3>1 DEF MirrorType, LocalsOK, database, Tree
  <2>2. ConceptsHeld(p)'
    <3>1. ASSUME NEW d \in Tree, NEW n \in Names
          PROVE  (Pending(p, d, n) \/ InPlace(p, d, n) \/ Cleaned(p, d, n))'
      <4>1. Pending(p, d, n) \/ InPlace(p, d, n) \/ Cleaned(p, d, n)  BY <1>5 DEF ConceptsHeld
      <4>2. CASE t = <<d, n>>
        <5>1. ~Renderable(d, n)  BY <1>4, <1>8, <4>2 DEF Renderable
        <5>2. Pending(p, d, n)  BY <1>1, <4>1, <4>2, <5>1 DEF InPlace, Cleaned
        <5>3. Cleaned(p, d, n)'
          BY <2>1, <4>2, <5>1, <5>2 DEF Pending, Cleaned, Renderable
        <5>. QED BY <5>3
      <4>3. CASE t # <<d, n>>
        <5>1. <<d, n>> \in todo'[p] <=> <<d, n>> \in todo[p]  BY <2>1, <4>3
        <5>. QED BY <1>2, <2>1, <4>1, <5>1 DEF Pending, InPlace, Cleaned, Renderable
      <4>. QED BY <4>2, <4>3
    <3>. QED BY <2>1, <3>1 DEF ConceptsHeld
  <2>3. ASSUME p = Startup PROVE GeneratedHeld'
    <3>1. \A d, f : f \in Derived => t # <<d, f>>  BY <1>1, ConstantsAssumption
    <3>2. \A d \in Tree, f \in Derived :
            \/ <<d, f>> \in todo'[Startup]
            \/ <<d, f>> \in written[Startup] /\ disk[d][f] = Text(d)
      BY <1>5, <2>1, <2>3, <3>1 DEF GeneratedHeld
    <3>. QED BY <2>1, <3>2 DEF GeneratedHeld, Text, Below
  <2>. QED BY <1>2, <1>5, <2>1, <2>2, <2>3 DEF QuietOK
<1>. QED BY <1>7, <1>8


LEMMA QuietReadDir ==
  ASSUME MirrorType, NEW p \in Procs, QuietOK(p), ReadDir(p)
  PROVE  QuietOK(p)'
<1>. DEFINE b == First(unswept[p])
            found == {<<b, f>> : f \in Stale(p, b)}
<1>1. /\ pc'[p] = "sync" /\ todo'[p] = {} /\ todo[p] = {} /\ stale[p] = {} /\ pc[p] = "sync"
      /\ unswept'[p] = unswept[p] \ {b} /\ stale'[p] = found
      /\ UNCHANGED <<docs, live, disk, listing, written>>
  BY DEF ReadDir, MirrorType, LocalsOK, database
<1>2. /\ \A s \in found : s \notin written[p] /\ disk[s[1]][s[2]] # Null
      /\ \A n \in Names : disk[b][n] # Null /\ <<b, n>> \notin written[p] => <<b, n>> \in found
  <2>. HIDE DEF b
  <2>1. \A f \in Stale(p, b) : disk[b][f] # Null /\ <<b, f>> \notin written[p]  BY DEF Stale
  <2>2. \A n \in Names : disk[b][n] # Null /\ <<b, n>> \notin written[p] => n \in Stale(p, b)
    BY DEF Stale, Files
  <2>. QED BY <2>1, <2>2
<1>. HIDE DEF b, found
<1>3. listing[p].docs = docs /\ ConceptsHeld(p) /\ (p = Startup => GeneratedHeld)
  BY <1>1 DEF QuietOK
<1>4. Tree' = Tree  BY <1>1 DEF Tree
<1>5. ConceptsHeld(p)'
  <2>1. ASSUME NEW d \in Tree, NEW n \in Names PROVE (InPlace(p, d, n) \/ Cleaned(p, d, n))'
    <3>1. InPlace(p, d, n) \/ Cleaned(p, d, n)  BY <1>1, <1>3 DEF ConceptsHeld, Pending
    <3>2. CASE InPlace(p, d, n)  BY <1>1, <3>2 DEF InPlace, Renderable
    <3>3. CASE Cleaned(p, d, n)
      <4>1. /\ <<d, n>> \notin written[p] /\ ~Renderable(d, n)
            /\ disk[d][n] = Null \/ d \in unswept[p]
        BY <1>1, <3>3 DEF Cleaned
      <4>2. disk[d][n] = Null \/ d \in unswept'[p] \/ <<d, n>> \in stale'[p]
        BY <1>1, <1>2, <4>1
      <4>. QED BY <1>1, <4>1, <4>2 DEF Cleaned, Renderable
    <3>. QED BY <3>1, <3>2, <3>3
  <2>. QED BY <1>4, <2>1 DEF ConceptsHeld
<1>6. ASSUME p = Startup PROVE GeneratedHeld'
  <2>1. \A d \in Tree, f \in Derived : <<d, f>> \in written[Startup] /\ disk[d][f] = Text(d)
    BY <1>1, <1>3, <1>6 DEF GeneratedHeld
  <2>. QED BY <1>1, <1>4, <2>1 DEF GeneratedHeld, Text, Below
<1>. QED BY <1>1, <1>2, <1>3, <1>5, <1>6 DEF QuietOK

LEMMA QuietUnlink ==
  ASSUME MirrorType, NEW p \in Procs, QuietOK(p), Unlink(p)
  PROVE  QuietOK(p)'
<1>. DEFINE t == First(stale[p])
<1>1. t \in stale[p]  BY FirstOf DEF Unlink
<1>2. todo[p] = {} /\ pc[p] = "sync"  BY <1>1 DEF MirrorType, ProcOK
<1>3. /\ listing[p].docs = docs /\ ConceptsHeld(p) /\ (p = Startup => GeneratedHeld)
      /\ \A s \in stale[p] : s \notin written[p] /\ disk[s[1]][s[2]] # Null
  BY <1>2 DEF QuietOK
<1>4. /\ stale' = [stale EXCEPT ![p] = @ \ {t}] /\ disk' = [disk EXCEPT ![t[1]][t[2]] = Null]
      /\ UNCHANGED <<docs, live, pc, listing, todo, written, unswept>>
  BY <1>1, <1>3 DEF Unlink, database
<1>. HIDE DEF t
<1>5. t \in Dirs \X Files /\ stale[p] \subseteq Dirs \X Files  BY <1>1 DEF MirrorType, LocalsOK
<1>6. \A d \in Dirs, f \in Files : disk'[d][f] = IF t = <<d, f>> THEN Null ELSE disk[d][f]
  <2>1. Null \in Said(t[2])  BY DEF Said
  <2>. QED BY <1>4, <1>5, <2>1, DiskPut DEF MirrorType
<1>7. stale'[p] = stale[p] \ {t}  BY <1>4 DEF MirrorType, LocalsOK
<1>8. Tree' = Tree /\ Tree \subseteq Dirs  BY <1>4 DEF Tree, MirrorType, TablesOK
<1>9. ConceptsHeld(p)'
  <2>1. ASSUME NEW d \in Tree, NEW n \in Names PROVE (InPlace(p, d, n) \/ Cleaned(p, d, n))'
    <3>1. InPlace(p, d, n) \/ Cleaned(p, d, n)  BY <1>2, <1>3 DEF ConceptsHeld, Pending
    <3>2. disk'[d][n] = IF t = <<d, n>> THEN Null ELSE disk[d][n]  BY <1>6, <1>8 DEF Files
    <3>3. CASE InPlace(p, d, n)
      <4>1. t # <<d, n>>  BY <1>1, <1>3, <3>3 DEF InPlace
      <4>. QED BY <1>4, <3>2, <3>3, <4>1 DEF InPlace, Renderable
    <3>4. CASE Cleaned(p, d, n)  BY <1>4, <1>7, <3>2, <3>4 DEF Cleaned, Renderable
    <3>. QED BY <3>1, <3>3, <3>4
  <2>. QED BY <1>8, <2>1 DEF ConceptsHeld
<1>10. ASSUME p = Startup PROVE GeneratedHeld'
  <2>1. ASSUME NEW d \in Tree, NEW f \in Derived
        PROVE  <<d, f>> \in written[Startup] /\ disk'[d][f] = Text(d)
    <3>1. <<d, f>> \in written[p] /\ disk[d][f] = Text(d)
      BY <1>2, <1>3, <1>10 DEF GeneratedHeld
    <3>2. t # <<d, f>>  BY <1>1, <1>3, <3>1
    <3>3. disk'[d][f] = disk[d][f]  BY <1>6, <1>8, <3>2 DEF Files
    <3>. QED BY <1>10, <3>1, <3>3
  <2>. QED BY <1>4, <1>8, <2>1 DEF GeneratedHeld, Text, Below
<1>11. \A s \in stale'[p] : s \notin written[p] /\ disk'[s[1]][s[2]] # Null
  <2>1. ASSUME NEW s \in stale'[p] PROVE s \notin written[p] /\ disk'[s[1]][s[2]] # Null
    <3>1. s \in stale[p] /\ s # t /\ s \in Dirs \X Files  BY <1>5, <1>7
    <3>2. s = <<s[1], s[2]>> /\ s[1] \in Dirs /\ s[2] \in Files  BY <3>1
    <3>3. disk'[s[1]][s[2]] = disk[s[1]][s[2]]  BY <1>6, <3>1, <3>2
    <3>. QED BY <1>3, <3>1, <3>3
  <2>. QED BY <2>1
<1>. QED BY <1>2, <1>3, <1>4, <1>9, <1>10, <1>11 DEF QuietOK

\* At its end everything is in place.
LEMMA QuietEnd ==
  ASSUME MirrorType, NEW p \in Procs, QuietOK(p), End(p), Syncing = {p}
  PROVE  /\ Syncing' = {} /\ (\A d \in Tree, n \in Names : Mirrored(d, n))'
         /\ (p = Startup => \A d \in Tree : \A f \in Derived : disk[d][f] = Text(d))'
<1>1. /\ pc[p] = "sync" /\ todo[p] = {} /\ stale[p] = {} /\ unswept[p] = {}
      /\ pc' = [pc EXCEPT ![p] = "idle"] /\ UNCHANGED <<docs, live, disk>>
  BY DEF End, Ends, database
<1>2. ConceptsHeld(p) /\ (p = Startup => GeneratedHeld)  BY <1>1 DEF QuietOK
<1>3. Tree' = Tree  BY <1>1 DEF Tree
<1>4. Syncing' = {}  BY <1>1 DEF Syncing, MirrorType, LocalsOK
<1>5. ASSUME NEW d \in Tree, NEW n \in Names PROVE Mirrored(d, n)
  <2>1. InPlace(p, d, n) \/ Cleaned(p, d, n)  BY <1>1, <1>2 DEF ConceptsHeld, Pending
  <2>. QED BY <1>1, <2>1 DEF InPlace, Cleaned, Renderable, Mirrored
<1>6. ASSUME p = Startup, NEW d \in Tree, NEW f \in Derived PROVE disk[d][f] = Text(d)
  BY <1>1, <1>2, <1>6 DEF GeneratedHeld
<1>7. (\A d \in Tree, n \in Names : Mirrored(d, n))'  BY <1>1, <1>3, <1>5 DEF Mirrored
<1>8. (p = Startup => \A d \in Tree : \A f \in Derived : disk[d][f] = Text(d))'
  BY <1>1, <1>3, <1>6 DEF Text, Below
<1>. QED BY <1>4, <1>7, <1>8


\* Only a sync under way goes on.
LEMMA ActiveStep ==
  ASSUME MirrorType, NEW p \in Procs, SyncStep(p)
  PROVE  p \in Syncing
<1>1. ProcOK(p)  BY DEF MirrorType
<1>2. pc[p] # "idle"
  BY <1>1 DEF SyncStep, List, Generate, WriteGenerated, WriteConcept, ReadDir, Unlink, End, ProcOK
<1>. QED BY <1>2 DEF Syncing

\* A step of a sync ends it or leaves the histories alone.
LEMMA EndOrOn ==
  ASSUME NEW p \in Procs, SyncStep(p)
  PROVE  \/ Ends(p) /\ (End(p) \/ (List(p) /\ Tree = {}))
         \/ UNCHANGED <<quiet, settled>>
<1>1. CASE List(p)  BY <1>1 DEF List
<1>2. CASE End(p)  BY <1>2 DEF End
<1>3. CASE Generate(p) \/ WriteGenerated(p) \/ WriteConcept(p) \/ ReadDir(p) \/ Unlink(p)
  BY <1>3 DEF Generate, WriteGenerated, WriteConcept, ReadDir, Unlink
<1>. QED BY <1>1, <1>2, <1>3 DEF SyncStep

LEMMA QuietSyncStep ==
  ASSUME MirrorType, QuietInv, NEW p \in Procs, SyncStep(p)
  PROVE  QuietInv'
<1>1. p \in Syncing  BY ActiveStep
<1>2. settled = Null  BY <1>1 DEF QuietInv
<1>3. UNCHANGED <<live, docs>>
  BY DEF SyncStep, List, Generate, WriteGenerated, WriteConcept, ReadDir, Unlink, End, database
<1>4. CASE p \notin quiet
  <2>1. quiet = {}
    <3>1. ASSUME NEW q \in quiet PROVE FALSE
      <4>1. Syncing = {q}  BY DEF QuietInv
      <4>. QED BY <1>1, <1>4, <4>1
    <3>. QED BY <3>1
  <2>2. quiet' = {} /\ settled' = Null  BY <1>2, <1>4, <2>1, EndOrOn DEF Ends
  <2>. QED BY <2>2 DEF QuietInv
<1>5. CASE p \in quiet
  <2>1. Syncing = {p} /\ QuietOK(p)  BY <1>5 DEF QuietInv
  <2>2. quiet = {p}
    <3>1. ASSUME NEW q \in quiet PROVE q = p
      <4>1. Syncing = {q}  BY DEF QuietInv
      <4>. QED BY <2>1, <4>1
    <3>. QED BY <1>5, <3>1
  <2>3. CASE End(p)
    <3>1. quiet' = {} /\ settled' = p  BY <1>5, <2>2, <2>3 DEF End, Ends
    <3>2. /\ Syncing' = {} /\ (\A d \in Tree, n \in Names : Mirrored(d, n))'
          /\ (p = Startup => \A d \in Tree : \A f \in Derived : disk[d][f] = Text(d))'
      BY <2>1, <2>3, QuietEnd
    <3>3. QuietSyncMirrorsConcepts' /\ StartupMirrorsAll'
      BY <3>1, <3>2 DEF QuietSyncMirrorsConcepts, StartupMirrorsAll
    <3>. QED BY <3>1, <3>2, <3>3 DEF QuietInv
  <2>4. CASE List(p) /\ Tree = {}
    <3>1. quiet' = {} /\ pc' = [pc EXCEPT ![p] = "idle"]  BY <2>2, <2>4 DEF List, Ends
    <3>2. Syncing' = {}  BY <2>1, <3>1 DEF Syncing, MirrorType, LocalsOK
    <3>3. Tree' = {}  BY <1>3, <2>4 DEF Tree
    <3>4. QuietSyncMirrorsConcepts' /\ StartupMirrorsAll'
      BY <3>3 DEF QuietSyncMirrorsConcepts, StartupMirrorsAll
    <3>. QED BY <3>1, <3>2, <3>4 DEF QuietInv
  <2>5. CASE ~End(p) /\ ~(List(p) /\ Tree = {})
    <3>1. quiet' = {p} /\ settled' = Null  BY <1>2, <2>2, <2>5, EndOrOn
    <3>2. QuietOK(p)'
      BY <2>1, <2>5, QuietList, QuietGenerate, QuietWriteGenerated, QuietWriteConcept,
         QuietReadDir, QuietUnlink DEF SyncStep
    <3>3. pc'[p] # "idle" /\ \A q \in Procs \ {p} : pc'[q] = pc[q]
      BY <1>1, <2>5
      DEF SyncStep, List, Generate, WriteGenerated, WriteConcept, ReadDir, Unlink, MirrorType,
          LocalsOK, Syncing
    <3>4. Syncing' = {p}  BY <2>1, <3>3 DEF Syncing
    <3>. QED BY <3>1, <3>2, <3>4 DEF QuietInv
  <2>. QED BY <2>3, <2>4, <2>5
<1>. QED BY <1>4, <1>5

\* Where only the start-up sync has something to do, it is quiet.
LEMMA QuietStart ==
  ASSUME NEW on \in BOOLEAN, pc' = Starting(on), quiet' = {p \in Procs : pc'[p] = "list"},
         settled' = Null
  PROVE  QuietInv'
<1>1. \A p \in Procs : pc'[p] = IF on /\ p = Startup THEN "list" ELSE "idle"  BY DEF Starting
<1>2. Syncing' = {p \in Procs : pc'[p] = "list"}  BY <1>1 DEF Syncing
<1>3. ASSUME NEW p \in quiet' PROVE Syncing' = {p} /\ QuietOK(p)'
  <2>1. p \in Procs /\ pc'[p] = "list" /\ on /\ p = Startup  BY <1>1, <1>3
  <2>2. Syncing' = {p}  BY <1>1, <1>2, <2>1
  <2>. QED BY <2>1, <2>2 DEF QuietOK
<1>. QED BY <1>3 DEF QuietInv

LEMMA QuietDie ==
  ASSUME MirrorType, Die
  PROVE  QuietInv'
BY QuietStart DEF Die, MirrorType, TablesOK

\* A sync that starts is quiet if it is the only one.
LEMMA FollowQuiet ==
  ASSUME MirrorType, NEW c \in Clients, NEW syncs \in BOOLEAN, pc[c] = "idle",
         Follow(c, syncs)
  PROVE  QuietInv'
<1>1. /\ settled' = Null /\ c \in Procs
      /\ pc' = [pc EXCEPT ![c] = IF syncs THEN "list" ELSE "idle"]
      /\ IF syncs THEN Begins(c) ELSE quiet' = {}
  BY DEF Follow, Procs
<1>2. CASE quiet' = {}  BY <1>1, <1>2 DEF QuietInv
<1>3. CASE quiet' # {}
  <2>1. syncs /\ Syncing = {} /\ quiet' = {c}  BY <1>1, <1>3 DEF Begins
  <2>2. pc'[c] = "list" /\ \A q \in Procs \ {c} : pc'[q] = "idle"
    BY <1>1, <2>1 DEF Syncing, MirrorType, LocalsOK
  <2>3. Syncing' = {c}  BY <1>1, <2>2 DEF Syncing
  <2>4. QuietOK(c)'  BY <2>2 DEF QuietOK
  <2>. QED BY <1>1, <2>1, <2>3, <2>4 DEF QuietInv
<1>. QED BY <1>2, <1>3

LEMMA QuietUntouched ==
  ASSUME QuietInv, UNCHANGED vars
  PROVE  QuietInv'
<1>1. UNCHANGED <<live, docs, mirroring, disk, pc, listing, todo, buffer, written, unswept,
                  stale, quiet, settled>>
  BY DEF vars, database, sync
<1>2. Tree' = Tree /\ Syncing' = Syncing  BY <1>1 DEF Tree, Syncing
<1>3. \A p \in quiet : QuietOK(p)' = QuietOK(p)
  BY <1>1, <1>2 DEF QuietOK, ConceptsHeld, Pending, InPlace, Cleaned, Renderable,
                    GeneratedHeld, Text, Below
<1>4. QuietSyncMirrorsConcepts' = QuietSyncMirrorsConcepts
  BY <1>1, <1>2 DEF QuietSyncMirrorsConcepts, Mirrored
<1>5. StartupMirrorsAll' = StartupMirrorsAll
  BY <1>1, <1>2 DEF StartupMirrorsAll, Text, Below
<1>. QED BY <1>1, <1>2, <1>3, <1>4, <1>5 DEF QuietInv

LEMMA QuietNext == MirrorType /\ QuietInv /\ [Next]_vars => QuietInv'
<1>. SUFFICES ASSUME MirrorType, QuietInv, [Next]_vars PROVE QuietInv'  OBVIOUS
<1>1. CASE Crash  BY <1>1, QuietDie DEF Crash
<1>2. ASSUME NEW p \in Procs, SyncStep(p) PROVE QuietInv'  BY <1>2, QuietSyncStep
<1>3. ASSUME NEW c \in Clients, Request(c) PROVE QuietInv'
  <2>1. RequestOn(c, Names)  BY <1>3 DEF Request
  <2>2. pc[c] = "idle" /\ \E syncs \in BOOLEAN : Follow(c, syncs)  BY <2>1, RequestOK
  <2>. QED BY <2>2, FollowQuiet
<1>4. CASE UNCHANGED vars  BY <1>4, QuietUntouched
<1>. QED BY <1>1, <1>2, <1>3, <1>4 DEF Next

LEMMA QuietInit == Init => QuietInv
<1>. SUFFICES ASSUME Init PROVE QuietInv  OBVIOUS
<1>1. /\ pc = Starting(mirroring) /\ mirroring \in BOOLEAN
      /\ quiet = {p \in Procs : pc[p] = "list"} /\ settled = Null
  BY DEF Init
<1>2. \A p \in Procs : pc[p] = IF mirroring /\ p = Startup THEN "list" ELSE "idle"
  BY <1>1 DEF Starting
<1>3. ASSUME NEW p \in quiet PROVE Syncing = {p} /\ QuietOK(p)
  <2>1. p \in Procs /\ pc[p] = "list" /\ p = Startup  BY <1>1, <1>2, <1>3
  <2>2. Syncing = {p}  BY <1>2, <2>1 DEF Syncing
  <2>. QED BY <2>1, <2>2 DEF QuietOK
<1>. QED BY <1>1, <1>3 DEF QuietInv

LEMMA QuietMeans == QuietInv => QuietSyncMirrorsConcepts /\ StartupMirrorsAll
BY ConstantsAssumption
   DEF QuietInv, QuietSyncMirrorsConcepts, StartupMirrorsAll, Procs

LEMMA MirrorInvariant == Spec => [](MirrorType /\ QuietInv)
<1>1. Init => MirrorType /\ QuietInv  BY TypeInit, QuietInit
<1>2. MirrorType /\ QuietInv /\ [Next]_vars => (MirrorType /\ QuietInv)'
  BY TypeNext, QuietNext
<1>. QED BY <1>1, <1>2, PTL DEF Spec

\* Whatever overlapping, interrupted and torn syncs have left on disk: after a sync that
\* overlaps no change and no other sync, every directory of the tree holds its concepts and
\* no others.
THEOREM QuietSyncsMirror == Spec => []QuietSyncMirrorsConcepts
BY QuietMeans, MirrorInvariant, PTL

\* After such a sync at start-up every directory also has the generated files of what is in
\* and below it.
THEOREM StartupsMirror == Spec => []StartupMirrorsAll
BY QuietMeans, MirrorInvariant, PTL

=============================================================================
