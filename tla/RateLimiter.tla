---------------------------- MODULE RateLimiter ----------------------------
(***************************************************************************)
(* The REST API's rate limiter.  The code keeps, per client address, the   *)
(* wall-clock times of admitted requests and compares them with `now - W`  *)
(* and `now - 2W`; here each entry is its age instead, and the clock       *)
(* ticks by making every entry older.  No comparison tells ages above 2W   *)
(* apart, so they are all Old.                                             *)
(***************************************************************************)
EXTENDS Naturals, Sequences, FiniteSets

CONSTANTS Keys,    \* client addresses
          Max,     \* RATE_LIMIT_RPS
          Window   \* windowMs, in ticks

ASSUME ConstantsAssumption == Max \in Nat \ {0} /\ Window \in Nat \ {0}

VARIABLES hits,     \* the Map: address -> ages of its entries, oldest first
          verdict,  \* address -> what became of its last request
          active    \* addresses whose requests reach the server

vars == <<hits, verdict, active>>

Old == 2 * Window + 1

Init == /\ hits = <<>>
        /\ verdict = [k \in Keys |-> "none"]
        /\ active \in SUBSET Keys

\* Shift entries off the front while they are older than `limit`.
TrimInclusive(entries, limit) ==  \* mutant: the boundary is one tick off
  LET older == {i \in DOMAIN entries : \A j \in 1..i : entries[j] >= limit}
  IN SubSeq(entries, Cardinality(older) + 1, Len(entries))
Trim(entries, limit) ==
  LET older == {i \in DOMAIN entries : \A j \in 1..i : entries[j] > limit}
  IN SubSeq(entries, Cardinality(older) + 1, Len(entries))

Entries(k) == IF k \in DOMAIN hits THEN hits[k] ELSE <<>>

Put(k, entries) == hits' = [j \in DOMAIN hits \cup {k} |-> IF j = k THEN entries ELSE hits[j]]

\* check(key), from one request; it runs without an await.
CheckOneMore(k) ==  \* mutant: the limit is compared the wrong way
  LET recent == Trim(Entries(k), Window) IN
  /\ k \in active
  /\ Put(k, IF Len(recent) > Max THEN recent ELSE Append(recent, 0))
  /\ verdict' = [verdict EXCEPT ![k] = IF Len(recent) > Max THEN "rejected" ELSE "admitted"]
  /\ UNCHANGED active
CheckCountsRejected(k) ==  \* mutant: a rejected request is counted too
  LET recent == Trim(Entries(k), Window) IN
  /\ k \in active
  /\ Put(k, IF Len(recent) > Max THEN recent ELSE Append(recent, 0))
  /\ verdict' = [verdict EXCEPT ![k] = IF Len(recent) >= Max THEN "rejected" ELSE "admitted"]
  /\ UNCHANGED active
Check(k) ==
  LET recent == Trim(Entries(k), Window) IN
  /\ k \in active
  /\ IF Len(recent) >= Max
     THEN /\ Put(k, recent)
          /\ verdict' = [verdict EXCEPT ![k] = "rejected"]
     ELSE /\ Put(k, Append(recent, 0))
          /\ verdict' = [verdict EXCEPT ![k] = "admitted"]
  /\ UNCHANGED active

\* The interval timer's sweep forgets addresses without recent entries.
SweepKeepsKeys ==  \* mutant: empty lists stay in the map
  /\ hits' = [k \in DOMAIN hits |-> Trim(hits[k], 2 * Window)]
  /\ UNCHANGED <<verdict, active>>
Sweep ==
  LET swept == [k \in DOMAIN hits |-> Trim(hits[k], 2 * Window)] IN
  /\ hits' = [k \in {j \in DOMAIN hits : swept[j] # <<>>} |-> swept[k]]
  /\ UNCHANGED <<verdict, active>>

\* The clock.
Tick ==
  /\ hits' = [k \in DOMAIN hits |->
                [i \in DOMAIN hits[k] |-> IF hits[k][i] = Old THEN Old ELSE hits[k][i] + 1]]
  /\ UNCHANGED <<verdict, active>>

\* The client at an address stops sending.
Leave(k) ==
  /\ k \in active
  /\ active' = active \ {k}
  /\ UNCHANGED <<hits, verdict>>

Next == Tick \/ Sweep \/ \E k \in Keys : Check(k) \/ Leave(k)

\* Time passes, the interval timer goes off again and again, and an active client
\* keeps sending (that it is rejected is no reason to stop).
Spec == /\ Init /\ [][Next]_vars
        /\ WF_vars(Tick) /\ WF_vars(Sweep)
        /\ \A k \in Keys : WF_vars(Check(k))

-----------------------------------------------------------------------------
\* The list kept for an address never outgrows the limit, however many requests the
\* address sends and however rarely the sweep runs.
TypeOK ==
  /\ DOMAIN hits \subseteq Keys
  /\ \A k \in DOMAIN hits : hits[k] \in Seq(0..Old) /\ Len(hits[k]) <= Max
  /\ verdict \in [Keys -> {"none", "admitted", "rejected"}]
  /\ active \subseteq Keys

\* The entries within the window, which are the last ones: what DecidesLikeIdeal of
\* HttpServer compares with a limiter that forgets nothing.
InWindow(entries) ==
  LET outside == CHOOSE n \in 0..Len(entries) :
                   \A i \in DOMAIN entries : i > n <=> entries[i] <= Window
  IN SubSeq(entries, outside + 1, Len(entries))
Recent(k) == InWindow(Entries(k))

\* A client that keeps sending is admitted again and again: its own rejected requests
\* do not use up the window.
NeverStarved == \A k \in Keys : []<>(k \notin active \/ verdict[k] = "admitted")

\* The map does not keep an entry for every address ever seen: a client that stops
\* sending is forgotten.
Forgotten == \A k \in Keys : k \notin active ~> k \notin DOMAIN hits
=============================================================================
