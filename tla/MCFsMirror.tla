----------------------------- MODULE MCFsMirror -----------------------------
(* Small instances of FsMirror.                                            *)
EXTENDS FsMirror, TLC

\* Nothing yet, or a root and one subdirectory with every concept in them.
MCVaults == {[live |-> {}, docs |-> Blank],
             [live |-> Dirs, docs |-> [d \in Dirs |-> Everything(CHOOSE x \in Contents : TRUE)]]}

=============================================================================
