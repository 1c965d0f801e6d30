----------------------------- MODULE MCArchive ------------------------------
(* Small instances of Archive.                                             *)
EXTENDS Archive, TLC

CONSTANTS sub, n, m, x, y

\* m becomes n on its way into an archive from the root and out of one anywhere, and is
\* lost from the subdirectory.
MCBySlug == <<n, m>>
MCSafe == [c \in Concepts |-> IF c[1] = Root THEN <<Root, n>> ELSE c]
MCBare == [c \in Concepts |-> <<c[1], n>>]
MCLong == {<<sub, m>>}

\* An archive from elsewhere, with a file that is no concept.
MCUploads == {<<[file |-> <<sub, n>>, text |-> x], [file |-> <<sub, m>>, text |-> Malformed],
                [file |-> <<Root, n>>, text |-> y]>>}

\* Nothing yet, or a root and one subdirectory with every concept of some names in them.
Full(names) == [live |-> Dirs,
                docs |-> [b \in Dirs |-> [i \in Names |-> IF i \in names THEN x ELSE Null]]]
Empty == [live |-> {}, docs |-> Blank]
MCVaults == {Empty, Full({n}), Full(Names)}

Work(vault, mirrored, names, numbers) ==
  [vault |-> vault, mirroring |-> mirrored, names |-> names, changes |-> numbers[1],
   crashes |-> numbers[2], exports |-> numbers[3], imports |-> numbers[4]]

\* Syncs; an import between syncs; an export and an import between changes; two imports, of
\* which a crash cuts off the first.
MCWorkloads == {Work(Empty,       TRUE,  {n},   <<2, 1, 0, 0>>),
                Work(Full({n}),   TRUE,  {n},   <<2, 1, 0, 0>>),
                Work(Empty,       TRUE,  {n},   <<1, 0, 0, 1>>),
                Work(Full({n}),   TRUE,  {n},   <<0, 1, 0, 1>>),
                Work(Full(Names), FALSE, Names, <<2, 0, 1, 0>>),
                Work(Full(Names), FALSE, {m},   <<1, 0, 1, 1>>),
                Work(Full(Names), FALSE, {},    <<0, 1, 1, 2>>),
                Work(Empty,       FALSE, {},    <<1, 1, 1, 1>>)}

=============================================================================
