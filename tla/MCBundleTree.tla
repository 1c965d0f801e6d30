---------------------------- MODULE MCBundleTree ----------------------------
(* Small instances of BundleTree.                                          *)
EXTENDS BundleTree, TLC

MCSpellings == {"global", "Global", "a", "b", "b_"}
MCCanonical == [s \in MCSpellings |-> IF s = "Global" THEN "global" ELSE s]

Ask(kind, path, slug) == [kind |-> kind, path |-> path, slug |-> slug, name |-> "n",
                           title |-> IF kind = "update" THEN "new" ELSE "t"]

\* Anybody does everything, up to three levels deep; some requests are refused.
Everything ==
  [c \in Clients |->
    {Ask("create", <<>>, "a"), Ask("create", <<"a">>, "b"), Ask("create", <<>>, "Global"),
     Ask("create", <<>>, "b_"), Ask("list", <<>>, "a"), Ask("look", <<"a">>, "a"),
     Ask("update", <<"a">>, "a"), Ask("update", <<>>, "a"),
     Ask("delete", <<"a">>, "a"), Ask("delete", <<"Global">>, "a"),
     Ask("delete", <<"Global", "b">>, "a"), Ask("addConcept", <<"a", "b_">>, "a"),
     Ask("addConcept", <<"a", "b", "b">>, "a"), Ask("addConcept", <<"Global", "b">>, "a")}]

Filing == [c \in Clients |-> {Ask("create", <<>>, "a"), Ask("addConcept", <<"a">>, "a"),
                              Ask("delete", <<"a">>, "a")}]

RowIds == Permutations(Bundles) \cup Permutations(Concepts)
Interchangeable == RowIds \cup Permutations(Clients)
=============================================================================
