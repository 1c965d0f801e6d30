--------------------------- MODULE MCConceptStore ---------------------------
(* Small instances of ConceptStore.                                        *)
EXTENDS ConceptStore, TLC

CONSTANTS c1, c2, i1, i2, path, text, other, blank, uri

MCTypes == {"Note", "note", "", " "}
MCCanonical == [t \in MCTypes |-> CASE t = "note" -> "Note" [] t = " " -> "" [] OTHER -> t]

Ask(kind, type, body, resource, version) ==
  [kind |-> kind, path |-> path, version |-> version,
   patch |-> [type |-> type, body |-> body, resource |-> resource]]

Plain(kind) == Ask(kind, Absent, Absent, Absent, 0)
Readers == {Plain("get"), Plain("peek"), Plain("history"), Ask("version", Absent, Absent, Absent, 1)}
Deleter == {Plain("delete")}
Creator == {Ask("create", "note", Absent, uri, 0)}
Writers == {Ask("upsert", "Note", text, Absent, 0), Ask("put", "note", Absent, uri, 0),
            Ask("replace", "Note", other, Absent, 0)}

\* Every kind of request from every client.
AllKinds == Readers \cup Deleter \cup Creator \cup Writers \cup
            {Ask("batchCreate", "", text, Absent, 0), Ask("createMarkdown", "", text, Absent, 0),
             Ask("createMarkdown", " ", text, Absent, 0), Ask("batchPut", Absent, other, Absent, 0),
             Ask("import", "Note", Absent, uri, 0), Ask("import", Absent, text, uri, 0)}
AnyoneDoesAnything == [c \in Clients |-> AllKinds]

\* One client creates and updates; the others delete and read around it.
OneWriter ==
  [c \in Clients |->
     IF c = c1 THEN Creator \cup Writers \cup
                    {Ask("batchPut", Absent, other, Absent, 0),
                     Ask("import", "Note", Absent, uri, 0)}
     ELSE Deleter \cup {Plain("get"), Plain("history")}]

TwoWriters == [c \in Clients |-> Creator \cup Writers \cup {Plain("history")}]
Upserters == [c \in Clients |-> {Ask("upsert", "Note", text, Absent, 0)}]
OneEditor == [c \in Clients |-> Writers \cup Creator \cup Readers]
RowIds == Permutations(Ids)
Interchangeable == Permutations(Ids) \cup Permutations(Clients)
=============================================================================
