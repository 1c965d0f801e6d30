------------------------------- MODULE Search -------------------------------
(***************************************************************************)
(* Search, as SearchService computes it from the repository's ranked rows, *)
(* and a caller that asks for one page after the other.                    *)
(*                                                                         *)
(* The vault does not change while the caller pages.  PostgreSQL's part is *)
(* external: which rows match a query string, and the order it returns     *)
(* them in, which is taken to be the same for every page.  Slugs are       *)
(* canonical (trimmed, lower case) already; a quoted phrase is one term.   *)
(***************************************************************************)
EXTENDS Integers, Sequences, FiniteSets, SequencesExt

CONSTANTS
  Bundles,    \* the live bundles
  Slugs,
  Path,       \* bundle -> the slugs from its root down to it
  Concepts,
  Pool,       \* concept -> its bundle, slug, words, type and tags
  Rank,       \* concept -> its place in the order PostgreSQL ranks them in
  Global, ScopesDir, ProjectsDir,  \* the slugs "global", "scopes" and "projects"
  Junk,       \* a search term of which sanitizeTerm leaves nothing
  DefaultLimit, MaxLimit,  \* DEFAULT_LIMIT and MAX_LIMIT
  Null,
  Queries     \* the queries a caller may ask

\* What the unique indexes and the parent column make of the live bundles and concepts.
ASSUME TreeAssumption ==
  /\ Path \in [Bundles -> Seq(Slugs) \ {<<>>}] /\ IsInjective(Path)
  /\ \A b \in Bundles : Len(Path[b]) > 1 => \E p \in Bundles : Path[p] = Front(Path[b])
  /\ \E b \in Bundles : Path[b] = <<Global>>
ASSUME PoolAssumption ==
  /\ IsFiniteSet(Concepts)
  /\ \A c \in Concepts : Pool[c].home \in Bundles /\ Pool[c].slug \in Slugs
  /\ \A c, d \in Concepts : Pool[c].home = Pool[d].home /\ Pool[c].slug = Pool[d].slug => c = d
  /\ Rank \in [Concepts -> Nat] /\ IsInjective(Rank)
ASSUME QueryAssumption ==
  /\ DefaultLimit \in Nat \ {0} /\ MaxLimit \in Nat \ {0} /\ <<Global>> # Null
  /\ \A q \in Queries : /\ q.path \in Seq(Slugs) \cup {Null}
                        /\ q.limit \in Int \cup {Null} /\ q.offset \in Int \cup {Null}

VARIABLES
  corpus,  \* the live concepts
  query,   \* what the caller asks, Null before it has asked
  fuzzy,   \* the concepts that PostgreSQL's trigram similarity adds to the matches of the
           \* query string the caller is going to ask: any set
  offset,  \* where the next page starts
  pages,   \* the pages so far
  status   \* how the last one was answered: "page", "end" (an empty page), "notFound",
           \* "syntaxError"; "idle" before any question

vars == <<corpus, query, fuzzy, offset, pages, status>>

-----------------------------------------------------------------------------
(* Paths and scopes.                                                       *)

\* BundleService.resolve: the bundles a path of slugs leads to, one or none.
Resolve(path) == {b \in Bundles : Path[b] = path}

Subtree(root) == {b \in Bundles : IsPrefix(Path[root], Path[b])}

\* scopeFromId of a path below a root bundle; the last segment is the concept's slug.
ScopeOf(path) ==
  IF Len(path) >= 3 /\ path[1] = ScopesDir
  THEN [kind |-> "named", key |-> SubSeq(path, 2, Len(path) - 1)]
  ELSE IF Len(path) >= 2 /\ path[1] = ProjectsDir
  THEN [kind |-> "project", key |-> <<path[2]>>]
  ELSE [kind |-> "global", key |-> <<>>]

\* The path of a concept, and the scope columns it is stored with.
Address(c) == Append(Path[Pool[c].home], Pool[c].slug)
StoredScope(c) == ScopeOf(Tail(Address(c)))

\* The paths of the bundles of a subtree, as far as they can be told.  The root is looked
\* for among the bundles whose parent is outside the subtree, by the first slug of the
\* path: when the path has several slugs it is not found, and the map is empty.
PathMapNone(subtree, rootPath) == <<>>
PathMap(subtree, rootPath) ==
  LET tops == {b \in subtree : /\ Last(Path[b]) = Head(rootPath)
                               /\ \A p \in subtree : Path[p] # Front(Path[b])}
      Below(b, root) == SubSeq(Path[b], Len(Path[root]) + 1, Len(Path[b]))
  IN IF tops = {} THEN <<>>
     ELSE LET root == CHOOSE b \in tops : TRUE IN
          [b \in {d \in subtree : IsPrefix(Path[root], Path[d])} |->
             rootPath \o Below(b, root)]

-----------------------------------------------------------------------------
(* Which concepts a query matches.                                         *)

\* buildTsQuery.  The required terms are one alternative and every optional term is
\* another; free text counts only when there are no terms.
Usable(terms) == terms \ {Junk}
Structured(q) == q.must \cup q.should # {}
Unusable(q) == Structured(q) /\ Usable(q.must \cup q.should) = {}
HasText(q) == Structured(q) \/ q.text # {}
TsMatch(q, words) ==
  IF Structured(q)
  THEN \/ Usable(q.must) # {} /\ Usable(q.must) \subseteq words
       \/ Usable(q.should) \cap words # {}
  ELSE q.text \subseteq words

\* scopeCondition; keys are compared whole.
ScopeMatchAnyKey(q, scope) ==
  \/ q.scopes = {} /\ q.project = Null
  \/ scope.kind = "global"
  \/ scope.kind = "named" /\ q.scopes # {}
  \/ scope.kind = "project" /\ scope.key = q.project
ScopeMatch(q, scope) ==
  \/ q.scopes = {} /\ q.project = Null
  \/ scope.kind = "global"
  \/ scope.kind = "named" /\ scope.key \in q.scopes
  \/ scope.kind = "project" /\ scope.key = q.project

\* The members of a finite set by increasing rank.
InOrder(S, rank) ==
  [n \in 1..Cardinality(S) |->
     CHOOSE x \in S : Cardinality({y \in S : rank[y] < rank[x]}) = n - 1]

\* The rows ConceptRepository.search would return without LIMIT and OFFSET, in its order.
Matches(q, homes) ==
  {c \in corpus : /\ Pool[c].home \in homes
                  /\ q.type \in {Null, Pool[c].type}
                  /\ q.tags \subseteq Pool[c].tags
                  /\ ScopeMatch(q, StoredScope(c))
                  /\ HasText(q) => TsMatch(q, Pool[c].words) \/ c \in fuzzy}
Matching(q, homes) == InOrder(Matches(q, homes), Rank)

Slice(rows, from, limit) ==
  SubSeq(rows, from + 1, IF from + limit < Len(rows) THEN from + limit ELSE Len(rows))

-----------------------------------------------------------------------------
(* One page.                                                               *)

Limit(q) == CASE q.limit = Null -> DefaultLimit
              [] q.limit # Null /\ q.limit < 1 -> 1
              [] q.limit # Null /\ q.limit > MaxLimit -> MaxLimit
              [] OTHER -> q.limit
FirstOffset(q) == IF q.offset = Null \/ q.offset < 0 THEN 0 ELSE q.offset

\* A result: its address (which is also its link), the scope shown, and the concept it
\* was made of, which the caller does not see.
Result(c, chain) ==
  [id |-> Append(chain, Pool[c].slug), concept |-> c,
   scope |-> ScopeOf(Append(Tail(chain), Pool[c].slug))]

\* searchScope.  A concept whose bundle is not in the map gets the path of the root.
Homes(path) == IF path = Null THEN Bundles ELSE Subtree(CHOOSE b \in Resolve(path) : TRUE)
Known(path) == IF path = Null THEN Path ELSE PathMap(Homes(path), path)
ChainOf(c, path) ==
  IF Pool[c].home \in DOMAIN Known(path) THEN Known(path)[Pool[c].home] ELSE path
SearchScope(q, path, from) ==
  LET rows == Slice(Matching(q, Homes(path)), from, Limit(q))
  IN [i \in DOMAIN rows |-> Result(rows[i], ChainOf(rows[i], path))]

WithGlobal(q) == q.path # Null /\ q.includeGlobal /\ Head(q.path) # Global

\* The rows of the global bundle that follow those of the target, without repeats.
Unseen(results, seen) ==
  {i \in DOMAIN results : \A j \in DOMAIN seen : seen[j].id # results[i].id}
Folded(q, primary, from) ==
  LET globals == SearchScope(q, <<Global>>, from)
      new == Unseen(globals, primary)
  IN IF WithGlobal(q) THEN [n \in 1..Cardinality(new) |-> globals[InOrder(new, [i \in new |-> i])[n]]]
     ELSE <<>>

PageUncut(q, from) ==
  LET primary == SearchScope(q, q.path, from) IN primary \o Folded(q, primary, from)
PageGlobalFirst(q, from) ==
  LET primary == SearchScope(q, q.path, from) IN
  Slice(Folded(q, primary, from) \o primary, 0, Limit(q))
PageGlobalsAfter(q, from) ==
  LET primary == SearchScope(q, q.path, from) IN
  IF primary # <<>> THEN primary ELSE Folded(q, primary, 0)
Page(q, from) ==
  LET primary == SearchScope(q, q.path, from) IN
  Slice(primary \o Folded(q, primary, from), 0, Limit(q))

-----------------------------------------------------------------------------
Init ==
  /\ corpus \in SUBSET Concepts
  /\ query = Null
  /\ fuzzy \in SUBSET corpus
  /\ offset = 0
  /\ pages = <<>>
  /\ status = "idle"

\* Turns to the page that starts at from.
Answer(q, from) ==
  /\ offset' = from
  /\ IF Page(q, from) = <<>>
     THEN status' = "end" /\ UNCHANGED pages
     ELSE status' = "page" /\ pages' = Append(pages, Page(q, from))

\* The first request of a caller.
Ask(q) ==
  /\ status = "idle"
  /\ query' = q
  /\ \/ /\ q.path # Null /\ Resolve(q.path) = {}
        /\ status' = "notFound"
        /\ UNCHANGED <<offset, pages>>
     \/ /\ q.path = Null \/ Resolve(q.path) # {}
        /\ Unusable(q)
        /\ status' = "syntaxError"
        /\ UNCHANGED <<offset, pages>>
     \/ /\ q.path = Null \/ Resolve(q.path) # {}
        /\ ~Unusable(q)
        /\ Answer(q, FirstOffset(q))
  /\ UNCHANGED <<corpus, fuzzy>>

\* The same request for the next page, until a page is empty.
More ==
  /\ status = "page"
  /\ Answer(query, offset + Limit(query))
  /\ UNCHANGED <<corpus, query, fuzzy>>

Next == (\E q \in Queries : Ask(q)) \/ More

Spec == Init /\ [][Next]_vars

-----------------------------------------------------------------------------
(* Properties.                                                             *)

\* The places on the pages so far, and what is shown there.
Spots == UNION {{n} \X (DOMAIN pages[n]) : n \in DOMAIN pages}
At(x) == pages[x[1]][x[2]]
Earlier(x, y) == x[1] < y[1] \/ (x[1] = y[1] /\ x[2] < y[2])
Local(r) == query.path = Null \/ IsPrefix(query.path, Path[Pool[r.concept].home])

\* No page is longer than the limit asked for, or empty, and what is shown is live.
TypeOK ==
  /\ corpus \subseteq Concepts
  /\ fuzzy \subseteq corpus
  /\ query \in Queries \cup {Null}
  /\ offset \in Nat
  /\ status \in {"idle", "page", "end", "notFound", "syntaxError"}
  /\ \A p \in Range(pages) : /\ Len(p) \in 1..Limit(query)
                             /\ \A r \in Range(p) : r.concept \in corpus

\* A caller who pages to the end gets every match in the bundle asked for from its first
\* offset on, once, in rank order, although global results are folded into the pages; and
\* every global match when the bundle has none (otherwise globals may be skipped).
Delivered(spots, rows) ==
  /\ {At(x).concept : x \in spots} = Range(rows)
  /\ \A x, y \in spots : Earlier(x, y) => Rank[At(x).concept] < Rank[At(y).concept]
PagingComplete ==
  LET From(rows) == SubSeq(rows, FirstOffset(query) + 1, Len(rows))
      mine == {x \in Spots : Local(At(x))}
  IN status = "end" =>
       /\ Delivered(mine, From(Matching(query, Homes(query.path))))
       /\ WithGlobal(query) /\ mine = {}
            => Delivered(Spots, From(Matching(query, Homes(<<Global>>))))

\* A page shorter than the limit is the last one: a caller may stop there.
ShortPageIsLast ==
  \A i \in DOMAIN pages : i < Len(pages) => Len(pages[i]) = Limit(query)

\* A search of a whole bundle or of everything shows links that okf_concept_get resolves to
\* the very concept, and the scope the concept is stored with.
Hydrate(id) == {c \in corpus : Address(c) = id}
RootLinksResolve ==
  pages # <<>> /\ (query.path = Null \/ Len(query.path) = 1) =>
    \A x \in Spots : Hydrate(At(x).id) = {At(x).concept} /\ At(x).scope = StoredScope(At(x).concept)

\* The same of every search; fails for a bundle path of two slugs, whose deeper
\* directories are shown under the path itself.
LinksResolve == \A x \in Spots : Hydrate(At(x).id) = {At(x).concept}

\* matchesContext, the rule the scope columns are filtered by, in the code's other place.
MatchesContext(scope, q) ==
  CASE scope.kind = "global" -> TRUE
    [] scope.kind = "named" -> scope.key \in q.scopes
    [] scope.kind = "project" -> scope.key = q.project

\* Nothing is shown that the caller's context excludes, as the scope shown tells it, or
\* from outside the bundle asked for, unless it is global and was not declined.
ResultsRelevant ==
  \A x \in Spots :
    /\ (query.scopes # {} \/ query.project # Null)
         => MatchesContext(StoredScope(At(x).concept), query)
    /\ \/ query.path = Null
       \/ IsPrefix(query.path, At(x).id)
       \/ query.includeGlobal /\ Head(At(x).id) = Global
=============================================================================
