---------------------------- MODULE VersionedMap ----------------------------
(***************************************************************************)
(* What a caller of the concept store relies on: a map from paths to       *)
(* documents, each with a version number, a read count and an archive of   *)
(* the states it has had.  Every operation is one atomic step.             *)
(***************************************************************************)
EXTENDS Naturals, Sequences

CONSTANTS Paths, Contents, None
VARIABLE doc     \* path -> the document there, None when there is none

State(d) == [version |-> d.version, content |-> d.content]

New(content) ==
  [content |-> content, version |-> 1, reads |-> 0, archive |-> <<>>,
   past |-> {[version |-> 1, content |-> content]}]

\* The document after `content` replaces it and the state s is archived.
Overwritten(d, content, s) ==
  [d EXCEPT !.content = content, !.version = s.version + 1,
            !.archive = Append(@, s),
            !.past = @ \cup {[version |-> s.version + 1, content |-> content]}]

Init == doc = [p \in Paths |-> None]

Create(p, content) == /\ doc[p] = None
                      /\ doc' = [doc EXCEPT ![p] = New(content)]

\* The state archived is the one that is overwritten.
Write(p, content) == /\ doc[p] # None
                     /\ doc' = [doc EXCEPT ![p] = Overwritten(@, content, State(@))]

\* The state archived is any the document has had.
RacyWrite(p, content) ==
  /\ doc[p] # None
  /\ \E s \in doc[p].past : doc' = [doc EXCEPT ![p] = Overwritten(@, content, s)]

Touch(p) == /\ doc[p] # None
            /\ doc' = [doc EXCEPT ![p].reads = @ + 1]

Remove(p) == /\ doc[p] # None
             /\ doc' = [doc EXCEPT ![p] = None]

Common(p) == \/ \E content \in Contents : Create(p, content)
             \/ Touch(p)
             \/ Remove(p)

Next == \E p \in Paths : Common(p) \/ \E content \in Contents : Write(p, content)
RacyNext == \E p \in Paths : Common(p) \/ \E content \in Contents : RacyWrite(p, content)

Spec == Init /\ [][Next]_doc
RacySpec == Init /\ [][RacyNext]_doc
=============================================================================
