--------------------------- MODULE PathNamespace ---------------------------
(***************************************************************************)
(* What a caller can see of the bundle tree through paths: which paths     *)
(* resolve to a bundle, and which of them hold a concept of which name.    *)
(* A path is a non-empty sequence of slugs.  Every operation is one step;  *)
(* removing a directory removes everything below it in that one step.      *)
(***************************************************************************)
EXTENDS Sequences, SequencesExt

CONSTANTS Slugs, Names, Global
VARIABLES dirs, docs
vars == <<dirs, docs>>

Init == dirs = {} /\ docs = {}

AddRoot(s) == /\ <<s>> \notin dirs
              /\ dirs' = dirs \cup {<<s>>}
              /\ UNCHANGED docs

AddChild(p, s) == /\ p \in dirs
                  /\ Append(p, s) \notin dirs
                  /\ dirs' = dirs \cup {Append(p, s)}
                  /\ UNCHANGED docs

AddDoc(p, n) == /\ p \in dirs
                /\ <<p, n>> \notin docs
                /\ docs' = docs \cup {<<p, n>>}
                /\ UNCHANGED dirs

\* The reserved bundle itself is never removed; its children may be.
RemoveTree(p) == /\ p \in dirs \ {<<Global>>}
                 /\ dirs' = {q \in dirs : ~IsPrefix(p, q)}
                 /\ docs' = {d \in docs : ~IsPrefix(p, d[1])}

Next == \/ \E s \in Slugs : AddRoot(s)
        \/ \E p \in dirs : \/ \E s \in Slugs : AddChild(p, s)
                           \/ \E n \in Names : AddDoc(p, n)
                           \/ RemoveTree(p)

Spec == Init /\ [][Next]_vars
=============================================================================
