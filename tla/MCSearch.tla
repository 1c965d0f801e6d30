------------------------------ MODULE MCSearch ------------------------------
(***************************************************************************)
(* A small vault and the searches of it: a bundle with a plain concept, a  *)
(* project two directories deep, a named scope, and the global bundle.     *)
(***************************************************************************)
EXTENDS Search

MCPath ==
  "g" :> <<"global">> @@ "t" :> <<"team">> @@ "tp" :> <<"team", "projects">> @@
  "tpw" :> <<"team", "projects", "web">> @@ "ts" :> <<"team", "scopes">> @@
  "tsn" :> <<"team", "scopes", "net">>
MCBundles == DOMAIN MCPath

MCConcept(home, slug, words, type, tags) ==
  [home |-> home, slug |-> slug, words |-> words, type |-> type, tags |-> tags]
MCPool ==
  "readme" :> MCConcept("t", "readme", {"a"}, "note", {}) @@
  "plan" :> MCConcept("tp", "plan", {"b"}, "note", {"hot"}) @@
  "webplan" :> MCConcept("tpw", "plan", {"a", "b"}, "task", {"hot"}) @@
  "dns" :> MCConcept("tsn", "dns", {"a"}, "task", {}) @@
  "style" :> MCConcept("g", "style", {"a"}, "note", {"hot"}) @@
  "rules" :> MCConcept("g", "rules", {"b"}, "note", {})
MCConcepts == DOMAIN MCPool
MCRank ==
  "style" :> 1 @@ "webplan" :> 2 @@ "readme" :> 3 @@ "rules" :> 4 @@ "plan" :> 5 @@ "dns" :> 6
MCSlugs == {"global", "team", "projects", "web", "scopes", "net", "nobody"}
           \cup {MCPool[c].slug : c \in MCConcepts}

\* A query for everything, and the ways in which queries differ from it.
MCAll(path, limit) ==
  [path |-> path, must |-> {}, should |-> {}, text |-> {}, type |-> Null, tags |-> {},
   scopes |-> {}, project |-> Null, limit |-> limit, offset |-> Null, includeGlobal |-> TRUE]
MCPlain == {MCAll(path, limit) : path \in {Null, <<"team">>, <<"global">>}, limit \in {Null, 0, 9}}
MCWorded == {[MCAll(path, 2) EXCEPT !.must = must, !.should = should] :
  path \in {Null, <<"team">>}, must \in {{}, {"a", "b"}, {Junk}}, should \in {{}, {"b", Junk}}}
MCScoped == {[MCAll(<<"team">>, 1) EXCEPT !.scopes = scopes, !.project = project] :
  scopes \in {{}, {<<"net">>}, {<<"scopes">>}}, project \in {Null, <<"web">>}}
MCOdd ==
  {[MCAll(<<"team">>, 2) EXCEPT !.offset = 1], [MCAll(<<"team">>, 1) EXCEPT !.offset = -1],
   [MCAll(<<"team">>, 2) EXCEPT !.includeGlobal = FALSE], [MCAll(Null, 2) EXCEPT !.text = {"a"}],
   [MCAll(<<"team">>, 1) EXCEPT !.type = "note"], [MCAll(Null, 1) EXCEPT !.tags = {"hot"}],
   MCAll(<<>>, 1), MCAll(<<"nobody">>, 1), MCAll(<<"team", "nobody">>, 1)}
MCNested == {MCAll(path, 2) : path \in {<<"team", "projects">>, <<"team", "projects", "web">>}}

MCQueries == MCPlain \cup MCWorded \cup MCScoped \cup MCOdd \cup MCNested
=============================================================================
