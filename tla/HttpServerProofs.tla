-------------------------- MODULE HttpServerProofs --------------------------
(***************************************************************************)
(* Proofs about HttpServer and the RateLimiter it uses, for any addresses, *)
(* limits, connections, session ids and workloads.                         *)
(***************************************************************************)
EXTENDS HttpServer, SequenceTheorems, FiniteSetTheorems, WellFoundedInduction, TLAPS

\* A body is read for somebody; who still waits during a drain does so on a connection
\* that was in use when the signal came; a process that has ended hears no signal.
Draining ==
  /\ \A r \in Calls : mcp[r].at = "reading" => mcp[r].client
  /\ phase = "draining" => \A r \in Calls : mcp[r].client => r \in kept
  /\ phase = "exited" => heard = {}

IInv == ServerTypeOK /\ SessionsReachable /\ Draining /\ DrainedBeforeClosing

-----------------------------------------------------------------------------
(* The limiter's lists.                                                    *)

\* Entries of an address: ages, at most Max of them.
Ages(s) == s \in Seq(0..Old) /\ Len(s) <= Max

\* What a sequence over a set holds.
LEMMA ElementOf ==
  ASSUME NEW S, NEW s \in Seq(S), NEW i \in 1..Len(s)
  PROVE  s[i] \in S
OBVIOUS

\* Trimming gives a list of ages that is no longer than the one it is given.
LEMMA TrimType ==
  ASSUME NEW s \in Seq(0..Old), NEW limit \in Nat
  PROVE  /\ Trim(s, limit) \in Seq(0..Old)
         /\ Len(Trim(s, limit)) <= Len(s)
<1>. DEFINE older == {i \in DOMAIN s : \A j \in 1..i : s[j] > limit}
            n == Cardinality(older)
<1>1. DOMAIN s = 1..Len(s) /\ Len(s) \in Nat  OBVIOUS
<1>2. IsFiniteSet(1..Len(s)) /\ Cardinality(1..Len(s)) = Len(s)
  <2>1. Len(s) \in Int /\ 1 \in Int  BY <1>1
  <2>2. Cardinality(1..Len(s)) = IF 1 > Len(s) THEN 0 ELSE Len(s) - 1 + 1
    BY <2>1, FS_Interval
  <2>3. IsFiniteSet(1..Len(s))  BY <2>1, FS_Interval
  <2>. QED BY <1>1, <2>2, <2>3
<1>3. older \subseteq 1..Len(s)  BY <1>1
<1>4. n \in Nat /\ n <= Len(s)
  <2>. HIDE DEF older
  <2>1. older \in SUBSET (1..Len(s))  BY <1>3
  <2>2. IsFiniteSet(older) /\ Cardinality(older) <= Cardinality(1..Len(s))
    BY <1>2, <2>1, FS_Subset
  <2>3. Cardinality(older) \in Nat  BY <2>2, FS_CardinalityType
  <2>. QED BY <1>2, <2>2, <2>3
<1>5. Trim(s, limit) = SubSeq(s, n + 1, Len(s))  BY DEF Trim
<1>. HIDE DEF n, older
<1>6. ASSUME NEW i \in (n + 1)..Len(s) PROVE s[i] \in 0..Old
  <2>1. i \in 1..Len(s)  BY <1>1, <1>4
  <2>. QED BY <2>1, ElementOf
<1>7. /\ SubSeq(s, n + 1, Len(s)) \in Seq(0..Old)
      /\ Len(SubSeq(s, n + 1, Len(s))) = IF n + 1 <= Len(s) THEN Len(s) - (n + 1) + 1 ELSE 0
  BY <1>1, <1>4, <1>6, SubSeqProperties
<1>. QED BY <1>1, <1>4, <1>5, <1>7

\* Check keeps the limiter's types.
LEMMA CheckType ==
  ASSUME TypeOK, NEW k \in Keys, Check(k)
  PROVE  TypeOK'
<1>. USE ConstantsAssumption
<1>. DEFINE recent == Trim(Entries(k), Window)
            put == IF Len(recent) >= Max THEN recent ELSE Append(recent, 0)
<1>1. Window \in Nat /\ Max \in Nat /\ Max >= 1 /\ Old \in Nat  BY DEF Old
<1>2. Ages(Entries(k))
  <2>1. CASE k \in DOMAIN hits  BY <2>1 DEF TypeOK, Ages, Entries
  <2>2. CASE k \notin DOMAIN hits  BY <1>1, <2>2 DEF Ages, Entries
  <2>. QED BY <2>1, <2>2
<1>3. recent \in Seq(0..Old) /\ Len(recent) <= Len(Entries(k))
  BY <1>1, <1>2, TrimType DEF Ages
<1>4. Len(recent) \in Nat /\ Len(recent) <= Max
  BY <1>1, <1>2, <1>3 DEF Ages
<1>. HIDE DEF recent
<1>5. Ages(put)
  <2>1. CASE Len(recent) >= Max  BY <1>3, <1>4, <2>1 DEF Ages
  <2>2. CASE ~(Len(recent) >= Max)
    <3>1. 0 \in 0..Old  BY <1>1
    <3>2. Append(recent, 0) \in Seq(0..Old) /\ Len(Append(recent, 0)) = Len(recent) + 1
      BY <1>3, <3>1
    <3>. QED BY <1>1, <1>4, <2>2, <3>2 DEF Ages
  <2>. QED BY <2>1, <2>2
<1>6. Put(k, put)  BY DEF Check, recent
<1>. HIDE DEF put
<1>7. /\ DOMAIN hits' = DOMAIN hits \cup {k}
      /\ \A j \in DOMAIN hits' : hits'[j] = IF j = k THEN put ELSE hits[j]
  BY <1>6 DEF Put
<1>8. /\ DOMAIN hits' \subseteq Keys
      /\ \A j \in DOMAIN hits' : hits'[j] \in Seq(0..Old) /\ Len(hits'[j]) <= Max
  BY <1>5, <1>7 DEF TypeOK, Ages
<1>9. verdict' \in [Keys -> {"none", "admitted", "rejected"}] /\ active' \subseteq Keys
  BY DEF Check, TypeOK
<1>. QED BY <1>8, <1>9 DEF TypeOK

\* So does the sweep.
LEMMA SweepType ==
  ASSUME TypeOK, Sweep
  PROVE  TypeOK'
<1>. USE ConstantsAssumption
<1>1. 2 * Window \in Nat /\ Max \in Nat  OBVIOUS
<1>. DEFINE swept == [k \in DOMAIN hits |-> Trim(hits[k], 2 * Window)]
<1>2. ASSUME NEW k \in DOMAIN hits
      PROVE  swept[k] \in Seq(0..Old) /\ Len(swept[k]) <= Max
  <2>1. hits[k] \in Seq(0..Old) /\ Len(hits[k]) <= Max  BY DEF TypeOK
  <2>2. /\ Trim(hits[k], 2 * Window) \in Seq(0..Old)
        /\ Len(Trim(hits[k], 2 * Window)) <= Len(hits[k])
    BY <1>1, <2>1, TrimType
  <2>3. Len(hits[k]) \in Nat /\ Len(Trim(hits[k], 2 * Window)) \in Nat  BY <2>1, <2>2
  <2>. QED BY <1>1, <2>1, <2>2, <2>3
<1>3. hits' = [k \in {j \in DOMAIN hits : swept[j] # <<>>} |-> swept[k]]  BY DEF Sweep
<1>. HIDE DEF swept
<1>4. DOMAIN hits' \subseteq DOMAIN hits /\ \A k \in DOMAIN hits' : hits'[k] = swept[k]
  BY <1>3
<1>. QED BY <1>2, <1>4 DEF TypeOK, Sweep

\* And the clock.
LEMMA TickType ==
  ASSUME TypeOK, Tick
  PROVE  TypeOK'
<1>. USE ConstantsAssumption
<1>1. Old \in Nat  BY DEF Old
<1>2. DOMAIN hits' = DOMAIN hits  BY DEF Tick
<1>3. ASSUME NEW k \in DOMAIN hits
      PROVE  hits'[k] \in Seq(0..Old) /\ Len(hits'[k]) <= Max
  <2>. DEFINE n == Len(hits[k])
              older == [i \in 1..n |-> IF hits[k][i] = Old THEN Old ELSE hits[k][i] + 1]
  <2>1. hits[k] \in Seq(0..Old) /\ n <= Max /\ n \in Nat  BY DEF TypeOK
  <2>2. DOMAIN hits[k] = 1..n  BY <2>1
  <2>3. hits'[k] = older  BY <2>2 DEF Tick
  <2>4. \A i \in 1..n : older[i] \in 0..Old
    <3>1. ASSUME NEW i \in 1..n, NEW v, v = hits[k][i]
          PROVE  (IF v = Old THEN Old ELSE v + 1) \in 0..Old
      <4>1. hits[k][i] \in 0..Old  BY <2>1, <3>1, ElementOf
      <4>2. v \in 0..Old  BY <3>1, <4>1
      <4>. QED BY <1>1, <4>2
    <3>. HIDE DEF n
    <3>. QED BY <3>1
  <2>. HIDE DEF n
  <2>5. older \in [1..n -> 0..Old]  BY <2>4
  <2>6. older \in Seq(0..Old) /\ Len(older) = n  BY <2>1, <2>5
  <2>. QED BY <2>1, <2>3, <2>6
<1>. QED BY <1>2, <1>3 DEF TypeOK, Tick

\* And the end of the process.
LEMMA ExitedType ==
  ASSUME TypeOK, Exited
  PROVE  TypeOK'
<1>1. hits' = <<>> /\ DOMAIN <<>> = {}  BY DEF Exited
<1>. QED BY <1>1 DEF TypeOK, Exited

\* The limiter's type invariant, kept by every step of the server.
LEMMA LimiterStep ==
  ASSUME TypeOK, ServerTypeOK, [ServerNext]_allVars
  PROVE  TypeOK'
<1>1. ASSUME UNCHANGED vars PROVE TypeOK'
  BY <1>1 DEF TypeOK, vars
<1>2. CASE UNCHANGED allVars  BY <1>1, <1>2 DEF allVars
<1>3. CASE ClockTick  BY <1>3, TickType DEF ClockTick
<1>4. CASE SweepTimer  BY <1>4, SweepType DEF SweepTimer
<1>5. ASSUME NEW k \in Keys, ClientLeaves(k) \/ Rest(k) \/ RestAnswer(k) \/ RestHangUp(k)
      PROVE  TypeOK'
  <2>1. CASE ClientLeaves(k)  BY <2>1 DEF ClientLeaves, Leave, TypeOK
  <2>2. CASE Rest(k)  BY <2>2, CheckType DEF Rest
  <2>3. CASE RestAnswer(k) \/ RestHangUp(k)  BY <1>1, <2>3 DEF RestAnswer, RestHangUp
  <2>. QED BY <1>5, <2>1, <2>2, <2>3
<1>6. ASSUME NEW r \in Calls, McpStep(r) PROVE TypeOK'
  <2>1. UNCHANGED vars
    BY <1>6 DEF McpStep, Post, Stream, End, Read, Initialize, Handle, Refuse, Answer,
                HangUp, Disconnect
  <2>. QED BY <1>1, <2>1
<1>7. ASSUME NEW g \in Signals, Signal(g) \/ SignalAgain(g) \/ Kill(g) PROVE TypeOK'
  <2>1. CASE Signal(g)
    <3>1. hits' = hits /\ verdict' = verdict /\ active' = {}  BY <2>1 DEF Signal, Shutdown
    <3>. QED BY <3>1 DEF TypeOK
  <2>2. CASE SignalAgain(g)  BY <1>1, <2>2 DEF SignalAgain
  <2>3. CASE Kill(g)  BY <2>3, ExitedType DEF Kill
  <2>. QED BY <1>7, <2>1, <2>2, <2>3
<1>8. CASE ServerClosed  BY <1>1, <1>8 DEF ServerClosed
<1>9. CASE Exit  BY <1>9, ExitedType DEF Exit
<1>10. CASE Start
  <2>1. hits' = hits /\ verdict' = verdict /\ active' \subseteq Keys
    BY <1>10 DEF Start, ServerTypeOK
  <2>. QED BY <2>1 DEF TypeOK
<1>. QED BY <1>2, <1>3, <1>4, <1>5, <1>6, <1>7, <1>8, <1>9, <1>10 DEF ServerNext

-----------------------------------------------------------------------------
(* The server.                                                             *)

\* The server starts in a state of the invariant.
LEMMA InitOK ==
  ServerInit => TypeOK /\ IInv
<1>. SUFFICES ASSUME ServerInit PROVE TypeOK /\ IInv  OBVIOUS
<1>. USE DEF ServerInit
<1>1. TypeOK
  <2>1. hits = <<>> /\ DOMAIN <<>> = {}  BY DEF Init
  <2>. QED BY <2>1 DEF Init, TypeOK
<1>2. ServerTypeOK
  <2>1. mcp \in [Calls -> Request]  BY DEF Idle, Request
  <2>2. budget \in [keys : SUBSET Keys, calls : Nat, signals : Nat]
    BY WorkloadsAssumption
  <2>. QED BY <2>1, <2>2 DEF ServerTypeOK, Phases
<1>3. SessionsReachable /\ Draining /\ DrainedBeforeClosing
  BY DEF SessionsReachable, Draining, DrainedBeforeClosing, Idle
<1>. QED BY <1>1, <1>2, <1>3 DEF IInv

\* Sending a request takes one from the workload.
LEMMA SendType ==
  ASSUME ServerTypeOK, NEW r \in Calls, Send(r)
  PROVE  budget' \in [keys : SUBSET Keys, calls : Nat, signals : Nat]
BY DEF Send, ServerTypeOK

\* So does a signal.
LEMMA HeardType ==
  ASSUME ServerTypeOK, NEW g \in Signals, Heard(g)
  PROVE  /\ budget' \in [keys : SUBSET Keys, calls : Nat, signals : Nat]
         /\ heard' \subseteq Signals
BY DEF Heard, ServerTypeOK

\* A step after which nobody waits who did not, and no other body is being read.
OnlyEnds == \A r \in Calls : /\ mcp'[r].client => mcp[r].client
                             /\ mcp'[r].at = "reading" => mcp'[r] = mcp[r]

\* Closing transports keeps the types and lets no response wait in a closed session.
LEMMA CloseOK ==
  ASSUME NEW closed, IInv, Close(closed)
  PROVE  /\ mcp' \in [Calls -> Request]
         /\ open' = open \ closed /\ sessions' = sessions \ closed
         /\ SessionsReachable'
         /\ OnlyEnds
<1>. USE DEF IInv
<1>1. open' = open \ closed /\ sessions' = sessions \ closed  BY DEF Close
<1>2. ASSUME NEW r \in Calls
      PROVE  /\ mcp'[r] \in Request
             /\ mcp'[r].client => mcp[r].client
             /\ mcp'[r].at = "reading" => mcp'[r] = mcp[r]
             /\ mcp'[r].client /\ mcp'[r].at \in {"calling", "streaming"}
                => mcp'[r].sess \in open \ closed
  <2>1. mcp[r] \in Request  BY DEF ServerTypeOK
  <2>2. mcp[r].client /\ mcp[r].at \in {"calling", "streaming"} => mcp[r].sess \in open
    BY DEF SessionsReachable
  <2>3. CASE mcp[r].sess \notin closed
    BY <2>1, <2>2, <2>3 DEF Close
  <2>4. CASE mcp[r].sess \in closed /\ mcp[r].at = "streaming"
    <3>1. mcp'[r] = Idle  BY <2>4 DEF Close
    <3>. QED BY <3>1 DEF Idle, Request
  <2>5. CASE mcp[r].sess \in closed /\ mcp[r].at = "calling"
    <3>1. mcp'[r] = [mcp[r] EXCEPT !.client = FALSE]  BY <2>5 DEF Close
    <3>2. mcp'[r].at = "calling" /\ ~mcp'[r].client  BY <2>1, <2>5, <3>1 DEF Request
    <3>. QED BY <2>1, <3>1, <3>2 DEF Request
  <2>6. CASE mcp[r].sess \in closed /\ mcp[r].at \notin {"streaming", "calling"}
    <3>1. mcp'[r] = mcp[r]  BY <2>6 DEF Close
    <3>. QED BY <2>1, <2>2, <2>6, <3>1
  <2>. QED BY <2>3, <2>4, <2>5, <2>6
<1>3. mcp' \in [Calls -> Request]
  <2>1. mcp' = [r \in Calls |-> mcp'[r]]  BY DEF Close
  <2>. QED BY <1>2, <2>1
<1>4. SessionsReachable'
  BY <1>1, <1>2 DEF SessionsReachable, IInv
<1>5. OnlyEnds  BY <1>2 DEF OnlyEnds
<1>. QED BY <1>1, <1>3, <1>4, <1>5

\* One request moves on: what keeps the parts of the invariant that speak of requests.
LEMMA BecomesOK ==
  ASSUME IInv, NEW r \in Calls, NEW request \in Request, Becomes(r, request),
         UNCHANGED <<phase, heard, rest>>,
         open' = sessions', open \subseteq open',
         request.at = "reading" => request.client,
         request.client /\ request.at \in {"calling", "streaming"} => request.sess \in open',
         request.client => phase # "closing",
         request.client /\ phase = "draining" => r \in kept,
         kept' = kept \/ (~request.client /\ kept' = kept \ {r})
  PROVE  /\ mcp' \in [Calls -> Request]
         /\ SessionsReachable' /\ Draining' /\ DrainedBeforeClosing'
<1>1. mcp \in [Calls -> Request]  BY DEF IInv, ServerTypeOK
<1>2. mcp'[r] = request /\ \A q \in Calls \ {r} : mcp'[q] = mcp[q]
  BY <1>1 DEF Becomes
<1>3. mcp' \in [Calls -> Request]  BY <1>1 DEF Becomes
<1>4. SessionsReachable'
  BY <1>2 DEF IInv, SessionsReachable
<1>5. Draining'
  BY <1>2 DEF IInv, Draining
<1>6. DrainedBeforeClosing'
  BY <1>2 DEF IInv, DrainedBeforeClosing
<1>. QED BY <1>3, <1>4, <1>5, <1>6

\* A request to /mcp is sent while the server answers.
LEMMA SendPhase ==
  ASSUME NEW r \in Calls, Send(r)
  PROVE  phase # "closing" /\ (phase = "draining" => r \in kept)
BY DEF Send

\* A request that is being read is read for somebody, while the server answers.
LEMMA ReadingPhase ==
  ASSUME IInv, NEW r \in Calls, mcp[r].at = "reading"
  PROVE  phase # "closing" /\ (phase = "draining" => r \in kept)
BY DEF IInv, Draining, DrainedBeforeClosing

\* Requests to /mcp keep the invariant.
LEMMA McpOK ==
  ASSUME IInv, NEW r \in Calls, McpStep(r)
  PROVE  IInv'
<1>. USE DEF IInv
<1>1. ASSUME NEW s \in issued \cup {Null}, Post(r, s) PROVE IInv'
  <2>. DEFINE sess == IF s \in sessions THEN s ELSE Null
  <2>1. sess \in Sessions \cup {Null}  BY DEF ServerTypeOK
  <2>2. Busy("reading", sess) \in Request /\ Busy("reading", sess).at = "reading"
        /\ Busy("reading", sess).client
    BY <2>1 DEF Busy, Request
  <2>3. Becomes(r, Busy("reading", sess)) /\ Send(r)
        /\ UNCHANGED <<phase, heard, rest, sessions, open, issued, late, kept>>
    BY <1>1 DEF Post
  <2>. HIDE DEF sess
  <2>4. open' = sessions'  BY <2>3 DEF SessionsReachable
  <2>5. mcp' \in [Calls -> Request] /\ SessionsReachable' /\ Draining' /\ DrainedBeforeClosing'
    BY <2>2, <2>3, <2>4, SendPhase, BecomesOK
  <2>. QED BY <2>3, <2>5, SendType DEF ServerTypeOK
<1>2. ASSUME NEW s \in issued, Stream(r, s) PROVE IInv'
  <2>1. Busy("streaming", s) \in Request /\ Busy("streaming", s).at = "streaming"
        /\ Busy("streaming", s).client /\ Busy("streaming", s).sess = s
    BY DEF Busy, Request, ServerTypeOK
  <2>2. Becomes(r, Busy("streaming", s)) /\ Send(r) /\ s \in sessions
        /\ UNCHANGED <<phase, heard, rest, sessions, open, issued, late, kept>>
    BY <1>2 DEF Stream
  <2>3. open' = sessions' /\ s \in open'  BY <2>2 DEF SessionsReachable
  <2>4. mcp' \in [Calls -> Request] /\ SessionsReachable' /\ Draining' /\ DrainedBeforeClosing'
    BY <2>1, <2>2, <2>3, SendPhase, BecomesOK
  <2>. QED BY <2>2, <2>4, SendType DEF ServerTypeOK
<1>3. ASSUME NEW s \in issued, End(r, s) PROVE IInv'
  <2>2. Close({s}) /\ Send(r) /\ UNCHANGED <<phase, heard, rest, issued, late, kept>>
    BY <1>3 DEF End
  <2>3. /\ mcp' \in [Calls -> Request]
        /\ open' = open \ {s} /\ sessions' = sessions \ {s}
        /\ SessionsReachable'
        /\ OnlyEnds
    <3>. HIDE DEF IInv
    <3>. QED BY <2>2, CloseOK
  <2>4. Draining'  BY <2>2, <2>3 DEF Draining, OnlyEnds
  <2>5. DrainedBeforeClosing'  BY <2>2, <2>3 DEF DrainedBeforeClosing, OnlyEnds
  <2>6. ServerTypeOK'  BY <2>2, <2>3, SendType DEF ServerTypeOK
  <2>. QED BY <2>3, <2>4, <2>5, <2>6
<1>4. CASE Initialize(r)
  <2>1. mcp[r].at = "reading" /\ issued # Sessions  BY <1>4 DEF Initialize
  <2>2. FreshId \in Sessions  BY <2>1 DEF FreshId, ServerTypeOK
  <2>3. /\ issued' = issued \cup {FreshId}
        /\ sessions' = sessions \cup {FreshId}
        /\ open' = open \cup {FreshId}
        /\ late' \subseteq late \cup {FreshId}
        /\ Becomes(r, Busy("calling", FreshId))
        /\ UNCHANGED <<phase, heard, rest, kept, budget>>
    BY <1>4 DEF Initialize
  <2>4. Busy("calling", FreshId) \in Request /\ Busy("calling", FreshId).at = "calling"
        /\ Busy("calling", FreshId).client /\ Busy("calling", FreshId).sess = FreshId
    BY <2>2 DEF Busy, Request
  <2>5. open' = sessions' /\ open \subseteq open' /\ FreshId \in open'
    BY <2>3 DEF SessionsReachable
  <2>6. mcp' \in [Calls -> Request] /\ SessionsReachable' /\ Draining' /\ DrainedBeforeClosing'
    BY <2>1, <2>3, <2>4, <2>5, ReadingPhase, BecomesOK
  <2>7. /\ sessions' \subseteq issued' /\ open' \subseteq issued' /\ late' \subseteq issued'
        /\ issued' \subseteq Sessions
    BY <2>2, <2>3 DEF ServerTypeOK
  <2>8. /\ phase' \in Phases /\ heard' \subseteq Signals /\ kept' \subseteq Calls
        /\ rest' \in [Keys -> {"idle", "handled", "abandoned"}]
        /\ budget' \in [keys : SUBSET Keys, calls : Nat, signals : Nat]
    BY <2>3 DEF ServerTypeOK
  <2>. QED BY <2>6, <2>7, <2>8 DEF ServerTypeOK
<1>5. CASE Handle(r)
  <2>. DEFINE request == Busy(IF mcp[r].sess \in open THEN "calling" ELSE "lost", mcp[r].sess)
  <2>1. mcp[r].at = "reading" /\ mcp[r] \in Request  BY <1>5 DEF Handle, ServerTypeOK
  <2>2. /\ request \in Request /\ request.at # "reading" /\ request.client
        /\ request.at \in {"calling", "streaming"} => request.sess \in open
    BY <2>1 DEF Busy, Request
  <2>3. Becomes(r, request)
        /\ UNCHANGED <<phase, heard, rest, sessions, open, issued, late, kept, budget>>
    BY <1>5 DEF Handle
  <2>. HIDE DEF request
  <2>4. open' = sessions'  BY <2>3 DEF SessionsReachable
  <2>5. mcp' \in [Calls -> Request] /\ SessionsReachable' /\ Draining' /\ DrainedBeforeClosing'
    BY <2>1, <2>2, <2>3, <2>4, ReadingPhase, BecomesOK
  <2>. QED BY <2>3, <2>5 DEF ServerTypeOK
<1>6. CASE Refuse(r) \/ Answer(r)
  <2>1. Idle \in Request /\ Idle.at = "idle" /\ ~Idle.client  BY DEF Idle, Request
  <2>2. Becomes(r, Idle)
        /\ UNCHANGED <<phase, heard, rest, sessions, open, issued, late, kept, budget>>
    BY <1>6 DEF Refuse, Answer
  <2>3. open' = sessions'  BY <2>2 DEF SessionsReachable
  <2>4. mcp' \in [Calls -> Request] /\ SessionsReachable' /\ Draining' /\ DrainedBeforeClosing'
    BY <2>1, <2>2, <2>3, BecomesOK
  <2>. QED BY <2>2, <2>4 DEF ServerTypeOK
<1>7. CASE HangUp(r)
  <2>. DEFINE request == IF mcp[r].at = "calling" THEN [mcp[r] EXCEPT !.client = FALSE] ELSE Idle
  <2>1. mcp[r] \in Request  BY DEF ServerTypeOK
  <2>2. request \in Request /\ request.at # "reading" /\ ~request.client
    BY <2>1 DEF Idle, Request
  <2>3. Becomes(r, request) /\ kept' = kept \ {r}
        /\ UNCHANGED <<phase, heard, rest, sessions, open, issued, late, budget>>
    BY <1>7 DEF HangUp
  <2>. HIDE DEF request
  <2>4. open' = sessions'  BY <2>3 DEF SessionsReachable
  <2>5. mcp' \in [Calls -> Request] /\ SessionsReachable' /\ Draining' /\ DrainedBeforeClosing'
    BY <2>2, <2>3, <2>4, BecomesOK
  <2>. QED BY <2>3, <2>5 DEF ServerTypeOK
<1>8. CASE Disconnect(r)
  BY <1>8 DEF Disconnect, ServerTypeOK, SessionsReachable, Draining, DrainedBeforeClosing, vars
<1>. QED BY <1>1, <1>2, <1>3, <1>4, <1>5, <1>6, <1>7, <1>8 DEF McpStep, Read

\* REST requests keep the invariant.
LEMMA RestOK ==
  ASSUME IInv, NEW k \in Keys, Rest(k) \/ RestAnswer(k) \/ RestHangUp(k)
  PROVE  IInv'
<1>. USE DEF IInv
<1>1. UNCHANGED <<phase, heard, mcp, sessions, open, issued, late, kept, budget>>
  BY DEF Rest, RestAnswer, RestHangUp
<1>2. rest' \in [Keys -> {"idle", "handled", "abandoned"}]
  BY DEF Rest, RestAnswer, RestHangUp, ServerTypeOK
<1>3. ASSUME NEW j \in Keys, phase = "closing" PROVE rest'[j] # "handled"
  <2>1. rest[j] # "handled" /\ rest[k] # "handled"  BY <1>3 DEF DrainedBeforeClosing
  <2>2. RestAnswer(k)  BY <1>3, <2>1 DEF Rest, RestHangUp
  <2>. QED BY <2>1, <2>2 DEF RestAnswer, ServerTypeOK
<1>4. ServerTypeOK'  BY <1>1, <1>2 DEF ServerTypeOK
<1>5. SessionsReachable' /\ Draining'  BY <1>1 DEF SessionsReachable, Draining
<1>6. DrainedBeforeClosing'  BY <1>1, <1>3 DEF DrainedBeforeClosing
<1>. QED BY <1>4, <1>5, <1>6

\* So do signals and the rest of the shutdown.
LEMMA ShutdownOK ==
  ASSUME IInv,
         \/ \E g \in Signals : Signal(g) \/ SignalAgain(g) \/ Kill(g)
         \/ ServerClosed \/ Exit \/ Start
  PROVE  IInv'
<1>. USE DEF IInv
<1>1. ASSUME NEW g \in Signals, Signal(g) PROVE IInv'
  <2>1. /\ Heard(g) /\ phase' = "draining" /\ kept' = {r \in Calls : mcp[r].client}
        /\ Close(sessions) /\ UNCHANGED <<rest, issued, late>>
    BY <1>1 DEF Signal, Shutdown
  <2>. PICK closed : closed = sessions  OBVIOUS
  <2>2. Close(closed)  BY <2>1
  <2>3. /\ mcp' \in [Calls -> Request]
        /\ open' = open \ closed /\ sessions' = sessions \ closed
        /\ SessionsReachable'
        /\ OnlyEnds
    <3>. HIDE DEF IInv
    <3>. QED BY <2>2, CloseOK
  <2>4. ServerTypeOK'  BY <2>1, <2>3, HeardType DEF ServerTypeOK, Phases
  <2>5. Draining'  BY <2>1, <2>3 DEF Draining, OnlyEnds
  <2>6. DrainedBeforeClosing'  BY <2>1 DEF DrainedBeforeClosing
  <2>. QED BY <2>3, <2>4, <2>5, <2>6
<1>2. ASSUME NEW g \in Signals, SignalAgain(g) PROVE IInv'
  <2>1. Heard(g) /\ phase # "exited"
        /\ UNCHANGED <<phase, rest, mcp, sessions, open, issued, late, kept>>
    BY <1>2 DEF SignalAgain
  <2>2. ServerTypeOK'  BY <2>1, HeardType DEF ServerTypeOK
  <2>3. SessionsReachable' /\ Draining' /\ DrainedBeforeClosing'
    BY <2>1 DEF SessionsReachable, Draining, DrainedBeforeClosing
  <2>. QED BY <2>2, <2>3
<1>3. CASE ServerClosed
  <2>1. /\ phase = "draining" /\ kept = {} /\ \A k \in Keys : rest[k] # "handled"
        /\ phase' = "closing"
        /\ UNCHANGED <<heard, rest, mcp, sessions, open, issued, late, kept, budget>>
    BY <1>3 DEF ServerClosed
  <2>2. ServerTypeOK' /\ SessionsReachable'
    BY <2>1 DEF ServerTypeOK, SessionsReachable, Phases
  <2>3. Draining' /\ DrainedBeforeClosing'
    BY <2>1 DEF Draining, DrainedBeforeClosing
  <2>. QED BY <2>2, <2>3
<1>4. ASSUME Exited, budget' \in [keys : SUBSET Keys, calls : Nat, signals : Nat]
      PROVE  IInv'
  <2>1. \A r \in Calls : mcp'[r] = Idle /\ mcp'[r].at = "idle" /\ ~mcp'[r].client
    BY <1>4 DEF Exited, Idle
  <2>2. mcp' \in [Calls -> Request]  BY <1>4 DEF Exited, Idle, Request
  <2>3. ServerTypeOK'
    BY <1>4, <2>2 DEF Exited, ServerTypeOK, Phases
  <2>4. SessionsReachable' /\ Draining' /\ DrainedBeforeClosing'
    BY <1>4, <2>1 DEF Exited, SessionsReachable, Draining, DrainedBeforeClosing
  <2>. QED BY <2>3, <2>4
<1>5. CASE Exit  BY <1>4, <1>5 DEF Exit, ServerTypeOK
<1>6. ASSUME NEW g \in Signals, Kill(g) PROVE IInv'
  <2>1. budget' \in [keys : SUBSET Keys, calls : Nat, signals : Nat]
    BY <1>6 DEF Kill, ServerTypeOK
  <2>. QED BY <1>4, <1>6, <2>1 DEF Kill
<1>7. CASE Start
  <2>1. /\ phase' = "serving"
        /\ UNCHANGED <<heard, rest, mcp, sessions, open, issued, late, kept, budget>>
    BY <1>7 DEF Start
  <2>2. ServerTypeOK' /\ SessionsReachable'
    BY <2>1 DEF ServerTypeOK, SessionsReachable, Phases
  <2>3. Draining' /\ DrainedBeforeClosing'
    BY <2>1 DEF Draining, DrainedBeforeClosing
  <2>. QED BY <2>2, <2>3
<1>. QED BY <1>1, <1>2, <1>3, <1>5, <1>6, <1>7

\* Every step of the server keeps the invariant.
LEMMA ServerStep ==
  ASSUME IInv, [ServerNext]_allVars
  PROVE  IInv'
<1>1. ASSUME UNCHANGED serverVars PROVE IInv'
  BY <1>1 DEF serverVars, IInv, ServerTypeOK, SessionsReachable, Draining, DrainedBeforeClosing
<1>2. CASE UNCHANGED allVars  BY <1>1, <1>2 DEF allVars
<1>3. CASE ClockTick \/ SweepTimer \/ \E k \in Keys : ClientLeaves(k)
  BY <1>1, <1>3 DEF ClockTick, SweepTimer, ClientLeaves, Running
<1>. QED BY <1>2, <1>3, RestOK, McpOK, ShutdownOK DEF ServerNext

-----------------------------------------------------------------------------
(* Theorems.                                                               *)

\* The invariant and the limiter's types hold in every state.
LEMMA Invariant == ServerSpec => [](TypeOK /\ IInv)
<1>1. TypeOK /\ IInv /\ [ServerNext]_allVars => (TypeOK /\ IInv)'
  BY LimiterStep, ServerStep DEF IInv
<1>. QED BY InitOK, <1>1, PTL DEF ServerSpec

\* The limiter's map: keys are addresses, and a list never outgrows the limit.
THEOREM ListsBounded == ServerSpec => []TypeOK
BY Invariant, PTL

\* The variables of the server keep their types, and a session in the table is one whose id
\* was given to an agent.
THEOREM ServerTypeCorrect == ServerSpec => []ServerTypeOK
<1>1. IInv => ServerTypeOK  BY DEF IInv
<1>. QED BY Invariant, <1>1, PTL

\* However requests, DELETEs and the shutdown interleave, the table holds the open
\* sessions and nothing else, and no response is left open in a closed one.
THEOREM TableExact == ServerSpec => []SessionsReachable
<1>1. IInv => SessionsReachable  BY DEF IInv
<1>. QED BY Invariant, <1>1, PTL

\* Nobody waits for a response when the database pool is closed.
THEOREM Drained == ServerSpec => []DrainedBeforeClosing
<1>1. IInv => DrainedBeforeClosing  BY DEF IInv
<1>. QED BY Invariant, <1>1, PTL

\* One response is cut off at most with its own session, as long as the server runs.
LEMMA CutStep ==
  ASSUME IInv, [ServerNext]_allVars
  PROVE  \/ CutOff = {} \/ phase' # phase
         \/ \E r \in Calls : HangUp(r)
         \/ \E s \in Sessions : open' = open \ {s} /\ \A r \in CutOff : mcp[r].sess = s
<1>. DEFINE Goal == \/ CutOff = {} \/ phase' # phase
                    \/ \E r \in Calls : HangUp(r)
                    \/ \E s \in Sessions : open' = open \ {s} /\ \A r \in CutOff : mcp[r].sess = s
<1>0. mcp \in [Calls -> Request]  BY DEF IInv, ServerTypeOK
<1>1. ASSUME UNCHANGED mcp PROVE CutOff = {}  BY <1>1 DEF CutOff
<1>2. CASE UNCHANGED allVars  BY <1>1, <1>2 DEF allVars, serverVars
<1>3. CASE ClockTick \/ SweepTimer \/ \E k \in Keys : ClientLeaves(k)
  BY <1>1, <1>3 DEF ClockTick, SweepTimer, ClientLeaves, Running, serverVars
<1>4. ASSUME NEW k \in Keys, Rest(k) \/ RestAnswer(k) \/ RestHangUp(k) PROVE Goal
  BY <1>1, <1>4 DEF Rest, RestAnswer, RestHangUp
<1>5. ASSUME NEW r \in Calls, NEW request, Becomes(r, request),
             request.client \/ (mcp[r].at # "streaming" /\ request.at # "calling")
      PROVE  CutOff = {}
  <2>1. mcp'[r] = request /\ \A q \in Calls \ {r} : mcp'[q] = mcp[q]
    BY <1>0, <1>5 DEF Becomes
  <2>. QED BY <1>5, <2>1 DEF CutOff
<1>6. ASSUME NEW r \in Calls, McpStep(r) PROVE Goal
  <2>1. ASSUME NEW s \in issued \cup {Null}, Post(r, s) PROVE Goal
    BY <1>5, <2>1 DEF Post, Busy
  <2>2. ASSUME NEW s \in issued, Stream(r, s) PROVE Goal
    BY <1>5, <2>2 DEF Stream, Busy
  <2>3. ASSUME NEW s \in issued, End(r, s) PROVE Goal
    <3>1. s \in Sessions  BY DEF IInv, ServerTypeOK
    <3>2. Close({s})  BY <2>3 DEF End
    <3>3. open' = open \ {s}  BY <3>2 DEF Close
    <3>4. ASSUME NEW q \in Calls, mcp[q].sess # s PROVE mcp'[q] = mcp[q]
      BY <3>2, <3>4 DEF Close
    <3>. QED BY <3>1, <3>3, <3>4 DEF CutOff
  <2>4. CASE Initialize(r)  BY <1>5, <2>4 DEF Initialize, Busy
  <2>5. CASE Handle(r)  BY <1>5, <2>5 DEF Handle, Busy
  <2>6. CASE Refuse(r)  BY <1>5, <2>6 DEF Refuse, Idle
  <2>7. CASE Answer(r)  BY <1>5, <2>7 DEF Answer, Idle
  <2>8. CASE HangUp(r)  BY <2>8
  <2>9. CASE Disconnect(r)  BY <1>1, <2>9 DEF Disconnect
  <2>. QED BY <1>6, <2>1, <2>2, <2>3, <2>4, <2>5, <2>6, <2>7, <2>8, <2>9 DEF McpStep, Read
<1>7. ASSUME NEW g \in Signals, Signal(g) \/ SignalAgain(g) \/ Kill(g) PROVE Goal
  <2>1. CASE Signal(g)  BY <2>1 DEF Signal, Shutdown
  <2>2. CASE SignalAgain(g)  BY <1>1, <2>2 DEF SignalAgain
  <2>3. CASE Kill(g)
    <3>1. phase # "exited"  BY <2>3 DEF Kill, IInv, Draining
    <3>. QED BY <2>3, <3>1 DEF Kill, Exited
  <2>. QED BY <1>7, <2>1, <2>2, <2>3
<1>8. CASE ServerClosed \/ Exit \/ Start
  BY <1>8 DEF ServerClosed, Exit, Exited, Start
<1>. QED BY <1>2, <1>3, <1>4, <1>6, <1>7, <1>8 DEF ServerNext

\* As long as the server runs, agents do not cut each other's calls and streams off.
THEOREM AgentsUndisturbed == ServerSpec => CutOnlyWithItsSession
<1>. DEFINE Goal == \/ CutOff = {} \/ phase' # phase
                    \/ \E r \in Calls : HangUp(r)
                    \/ \E s \in Sessions : open' = open \ {s} /\ \A r \in CutOff : mcp[r].sess = s
<1>1. IInv /\ [ServerNext]_allVars => [Goal]_allVars  BY CutStep
<1>. QED BY Invariant, <1>1, PTL DEF ServerSpec, CutOnlyWithItsSession

-----------------------------------------------------------------------------
(* The limiter decides like one that forgets nothing.                      *)

\* Entries are kept oldest first.
Sorted(e) == \A i, j \in 1..Len(e) : i <= j => e[i] >= e[j]
Ordered == \A k \in DOMAIN hits : Sorted(hits[k])

\* The entries after the first c.
After(e, c) == SubSeq(e, c + 1, Len(e))

\* The entries at most `limit` old are the ones after the first c.
Cut(e, limit, c) ==
  /\ c \in 0..Len(e)
  /\ \A i \in 1..Len(e) : e[i] <= limit <=> i > c

\* A set of naturals that is not empty has a least element.
LEMMA LeastElement ==
  ASSUME NEW S \in SUBSET Nat, S # {}
  PROVE  \E m \in S : \A n \in S : m <= n
<1>1. PICK m \in S : \A n \in S : <<n, m>> \notin OpToRel(<, Nat)
  BY WFMin, NatLessThanWellFounded, Zenon
<1>2. \A n \in S : ~(n < m)  BY <1>1, Zenon DEF OpToRel
<1>. QED BY <1>2

\* What After is.
LEMMA AfterIs ==
  ASSUME NEW S, NEW e \in Seq(S), NEW c \in 0..Len(e)
  PROVE  /\ After(e, c) \in Seq(S)
         /\ Len(After(e, c)) = Len(e) - c
         /\ \A i \in 1..(Len(e) - c) : After(e, c)[i] = e[c + i]
<1>1. Len(e) \in Nat /\ c \in Nat /\ c + 1 \in 1..(Len(e) + 1)  OBVIOUS
<1>2. \A i \in (c + 1)..Len(e) : e[i] \in S
  <2>1. ASSUME NEW i \in (c + 1)..Len(e) PROVE e[i] \in S
    <3>1. i \in 1..Len(e)  BY <1>1
    <3>. QED BY <3>1, ElementOf
  <2>. QED BY <2>1
<1>3. /\ After(e, c) \in Seq(S)
      /\ Len(After(e, c)) = IF c + 1 <= Len(e) THEN Len(e) - (c + 1) + 1 ELSE 0
      /\ \A i \in 1..(Len(e) - (c + 1) + 1) : After(e, c)[i] = e[(c + 1) + i - 1]
  BY <1>1, <1>2, SubSeqProperties DEF After
<1>4. \A i \in 1..(Len(e) - c) : (c + 1) + i - 1 = c + i /\ i \in 1..(Len(e) - (c + 1) + 1)
  BY <1>1
<1>5. Len(After(e, c)) = Len(e) - c  BY <1>1, <1>3
<1>. QED BY <1>3, <1>4, <1>5

\* Sequences are equal when their entries are.
LEMMA SameSequence ==
  ASSUME NEW S, NEW T, NEW s \in Seq(S), NEW t \in Seq(T), Len(s) = Len(t),
         \A i \in 1..Len(s) : s[i] = t[i]
  PROVE  s = t
OBVIOUS

\* Entries are cut somewhere by every limit.
LEMMA CutExists ==
  ASSUME NEW e \in Seq(0..Old), Sorted(e), NEW limit \in Nat
  PROVE  \E c \in 0..Len(e) : Cut(e, limit, c)
<1>. DEFINE young == {i \in 1..Len(e) : e[i] <= limit}
<1>0. Len(e) \in Nat /\ \A i \in 1..Len(e) : e[i] \in Int
  <2>1. ASSUME NEW i \in 1..Len(e) PROVE e[i] \in Int
    <3>1. e[i] \in 0..Old  BY ElementOf
    <3>. QED BY <3>1
  <2>. QED BY <2>1
<1>1. CASE young = {}
  <2>1. \A i \in 1..Len(e) : ~(e[i] <= limit)  BY <1>1
  <2>2. Cut(e, limit, Len(e))  BY <1>0, <2>1 DEF Cut
  <2>. QED BY <1>0, <2>2
<1>2. CASE young # {}
  <2>1. young \in SUBSET Nat  BY <1>0
  <2>2. PICK m \in young : \A n \in young : m <= n  BY <1>2, <2>1, LeastElement
  <2>3. m \in 1..Len(e) /\ e[m] <= limit /\ m - 1 \in 0..Len(e)  BY <1>0, <2>2
  <2>4. ASSUME NEW i \in 1..Len(e) PROVE e[i] <= limit <=> i > m - 1
    <3>1. ASSUME e[i] <= limit PROVE i > m - 1
      <4>1. m <= i  BY <2>2, <3>1
      <4>. QED BY <2>3, <4>1
    <3>2. ASSUME i > m - 1 PROVE e[i] <= limit
      <4>1. m <= i  BY <2>3, <3>2
      <4>2. e[m] >= e[i]  BY <2>3, <4>1 DEF Sorted
      <4>. QED BY <1>0, <2>3, <4>2
    <3>. QED BY <3>1, <3>2
  <2>5. Cut(e, limit, m - 1)  BY <2>3, <2>4 DEF Cut
  <2>. QED BY <2>3, <2>5
<1>. QED BY <1>1, <1>2

\* How many entries are older than `limit`.
LEMMA CutCounts ==
  ASSUME NEW e \in Seq(0..Old), NEW limit, NEW c, Cut(e, limit, c)
  PROVE  Cardinality({i \in DOMAIN e : \A j \in 1..i : ~(e[j] <= limit)}) = c
<1>1. Len(e) \in Nat /\ c \in Nat /\ c <= Len(e) /\ DOMAIN e = 1..Len(e)
  BY DEF Cut
<1>2. {i \in DOMAIN e : \A j \in 1..i : ~(e[j] <= limit)} = 1..c
  <2>1. ASSUME NEW i \in 1..Len(e), \A j \in 1..i : ~(e[j] <= limit) PROVE i \in 1..c
    <3>1. i \in 1..i  OBVIOUS
    <3>. QED BY <1>1, <2>1, <3>1 DEF Cut
  <2>2. ASSUME NEW i \in 1..c, NEW j \in 1..i PROVE ~(e[j] <= limit) /\ i \in 1..Len(e)
    <3>1. j \in 1..Len(e) /\ ~(j > c)  BY <1>1
    <3>. QED BY <1>1, <3>1 DEF Cut
  <2>3. \A i \in 1..c : i \in 1..Len(e)  BY <1>1
  <2>. QED BY <1>1, <2>1, <2>2, <2>3
<1>3. Cardinality(1..c) = IF 1 > c THEN 0 ELSE c - 1 + 1
  <2>1. 1 \in Int /\ c \in Int  BY <1>1
  <2>. QED BY <2>1, FS_Interval
<1>4. Cardinality(1..c) = c  BY <1>1, <1>3
<1>. QED BY <1>2, <1>4, Zenon

\* Trim and InWindow take the entries after a cut.
LEMMA TrimIsAfter ==
  ASSUME NEW e \in Seq(0..Old), NEW limit \in Nat, NEW c, Cut(e, limit, c)
  PROVE  Trim(e, limit) = After(e, c)
<1>1. {i \in DOMAIN e : \A j \in 1..i : e[j] > limit}
        = {i \in DOMAIN e : \A j \in 1..i : ~(e[j] <= limit)}
  <2>1. ASSUME NEW i \in DOMAIN e, NEW j \in 1..i PROVE e[j] > limit <=> ~(e[j] <= limit)
    <3>1. Len(e) \in Nat /\ DOMAIN e = 1..Len(e)  OBVIOUS
    <3>2. j \in 1..Len(e)  BY <3>1
    <3>3. e[j] \in 0..Old  BY <3>2, ElementOf
    <3>. QED BY <3>3
  <2>. QED BY <2>1
<1>. QED BY <1>1, CutCounts DEF Trim, After

LEMMA CutUnique ==
  ASSUME NEW e \in Seq(0..Old), NEW limit, NEW c, Cut(e, limit, c), NEW d, Cut(e, limit, d)
  PROVE  c = d
<1>1. Len(e) \in Nat /\ c \in 0..Len(e) /\ d \in 0..Len(e)  BY DEF Cut
<1>2. ASSUME c < d PROVE FALSE
  <2>1. c + 1 \in 1..Len(e) /\ c + 1 > c /\ ~(c + 1 > d)  BY <1>1, <1>2
  <2>. QED BY <2>1 DEF Cut
<1>3. ASSUME d < c PROVE FALSE
  <2>1. d + 1 \in 1..Len(e) /\ d + 1 > d /\ ~(d + 1 > c)  BY <1>1, <1>3
  <2>. QED BY <2>1 DEF Cut
<1>. QED BY <1>1, <1>2, <1>3

LEMMA InWindowIsAfter ==
  ASSUME NEW e \in Seq(0..Old), NEW c, Cut(e, Window, c)
  PROVE  InWindow(e) = After(e, c)
<1>. DEFINE P(n) == \A i \in DOMAIN e : i > n <=> e[i] <= Window
            outside == CHOOSE n \in 0..Len(e) : P(n)
<1>1. DOMAIN e = 1..Len(e)  OBVIOUS
<1>2. c \in 0..Len(e) /\ P(c)  BY <1>1 DEF Cut
<1>3. outside \in 0..Len(e) /\ P(outside)
  <2>. HIDE DEF P
  <2>. QED BY <1>2
<1>4. Cut(e, Window, outside)
  <2>. HIDE DEF outside
  <2>. QED BY <1>1, <1>3 DEF Cut
<1>5. InWindow(e) = SubSeq(e, outside + 1, Len(e))  BY DEF InWindow
<1>. HIDE DEF outside
<1>. QED BY <1>4, <1>5, CutUnique DEF After

\* Cutting what has been cut.
LEMMA CutAgain ==
  ASSUME NEW e \in Seq(0..Old), NEW c, NEW d, NEW limit, NEW longer,
         Cut(e, longer, c), Cut(e, limit, d), c <= d
  PROVE  /\ Cut(After(e, c), limit, d - c)
         /\ After(After(e, c), d - c) = After(e, d)
<1>. DEFINE t == After(e, c)
<1>1. c \in 0..Len(e) /\ d \in 0..Len(e) /\ Len(e) \in Nat /\ d - c \in 0..(Len(e) - c)
  BY DEF Cut
<1>2. t \in Seq(0..Old) /\ Len(t) = Len(e) - c /\ \A i \in 1..Len(t) : t[i] = e[c + i]
  BY <1>1, AfterIs
<1>. HIDE DEF t
<1>3. Cut(t, limit, d - c)
  <2>1. ASSUME NEW i \in 1..Len(t) PROVE t[i] <= limit <=> i > d - c
    <3>1. c + i \in 1..Len(e) /\ t[i] = e[c + i]  BY <1>1, <1>2
    <3>2. e[c + i] <= limit <=> c + i > d  BY <3>1 DEF Cut
    <3>. QED BY <1>1, <1>2, <3>1, <3>2
  <2>. QED BY <1>1, <1>2, <2>1 DEF Cut
<1>4. After(t, d - c) = After(e, d)
  <2>1. d - c \in 0..Len(t)  BY <1>1, <1>2
  <2>2. /\ After(t, d - c) \in Seq(0..Old)
        /\ Len(After(t, d - c)) = Len(t) - (d - c)
        /\ \A i \in 1..(Len(t) - (d - c)) : After(t, d - c)[i] = t[(d - c) + i]
    BY <1>2, <2>1, AfterIs
  <2>3. /\ After(e, d) \in Seq(0..Old)
        /\ Len(After(e, d)) = Len(e) - d
        /\ \A i \in 1..(Len(e) - d) : After(e, d)[i] = e[d + i]
    BY <1>1, AfterIs
  <2>4. Len(t) - (d - c) = Len(e) - d  BY <1>1, <1>2
  <2>5. ASSUME NEW i \in 1..(Len(e) - d) PROVE After(t, d - c)[i] = After(e, d)[i]
    <3>1. (d - c) + i \in 1..Len(t) /\ c + ((d - c) + i) = d + i  BY <1>1, <1>2
    <3>2. t[(d - c) + i] = e[c + ((d - c) + i)]  BY <1>2, <3>1
    <3>. QED BY <2>2, <2>3, <2>4, <3>1, <3>2
  <2>. QED BY <2>2, <2>3, <2>4, <2>5, SameSequence
<1>. QED BY <1>3, <1>4 DEF t

\* What is left after a cut is sorted.
LEMMA AfterSorted ==
  ASSUME NEW e \in Seq(0..Old), Sorted(e), NEW c \in 0..Len(e)
  PROVE  Sorted(After(e, c))
<1>1. /\ Len(After(e, c)) = Len(e) - c
      /\ \A i \in 1..(Len(e) - c) : After(e, c)[i] = e[c + i]
  BY AfterIs
<1>2. ASSUME NEW i \in 1..(Len(e) - c), NEW j \in 1..(Len(e) - c), i <= j
      PROVE  After(e, c)[i] >= After(e, c)[j]
  <2>1. c + i \in 1..Len(e) /\ c + j \in 1..Len(e) /\ c + i <= c + j  BY <1>2
  <2>2. e[c + i] >= e[c + j]  BY <2>1 DEF Sorted
  <2>. QED BY <1>1, <2>2
<1>. QED BY <1>1, <1>2 DEF Sorted

\* A new entry is the youngest.
LEMMA AppendEntry ==
  ASSUME NEW e \in Seq(0..Old), Sorted(e), Cut(e, Window, 0)
  PROVE  Sorted(Append(e, 0)) /\ Cut(Append(e, 0), Window, 0)
<1>. USE ConstantsAssumption
<1>. DEFINE t == Append(e, 0)
<1>1. Len(e) \in Nat /\ Len(t) = Len(e) + 1  OBVIOUS
<1>2. t[Len(e) + 1] = 0 /\ \A i \in 1..Len(e) : t[i] = e[i]  OBVIOUS
<1>. HIDE DEF t
<1>3. \A i \in 1..Len(t) : i \in 1..Len(e) \/ i = Len(e) + 1  BY <1>1
<1>4. ASSUME NEW i \in 1..Len(e) PROVE e[i] \in Nat /\ e[i] <= Window
  <2>1. e[i] \in 0..Old  BY ElementOf
  <2>. QED BY <2>1 DEF Cut
<1>5. ASSUME NEW i \in 1..Len(t), NEW j \in 1..Len(t), i <= j PROVE t[i] >= t[j]
  <2>1. CASE j \in 1..Len(e)
    <3>1. i \in 1..Len(e)  BY <1>1, <1>3, <1>5, <2>1
    <3>2. e[i] >= e[j]  BY <1>5, <2>1, <3>1 DEF Sorted
    <3>. QED BY <1>2, <2>1, <3>1, <3>2
  <2>2. CASE j = Len(e) + 1
    <3>1. t[j] = 0  BY <1>2, <2>2
    <3>2. t[i] \in Nat  BY <1>2, <1>3, <1>4
    <3>. QED BY <3>1, <3>2
  <2>. QED BY <1>3, <2>1, <2>2
<1>6. ASSUME NEW i \in 1..Len(t) PROVE t[i] <= Window /\ i > 0
  BY <1>2, <1>3, <1>4
<1>7. 0 \in 0..Len(t)  BY <1>1
<1>. QED BY <1>5, <1>6, <1>7 DEF Sorted, Cut, t


\* The same entries one tick later.
Aged(e) == [i \in DOMAIN e |-> IF e[i] = Old THEN Old ELSE e[i] + 1]

LEMMA AgedIs ==
  ASSUME NEW e \in Seq(0..Old), Sorted(e)
  PROVE  /\ Aged(e) \in Seq(0..Old) /\ Len(Aged(e)) = Len(e) /\ Sorted(Aged(e))
         /\ \A i \in 1..Len(e) : e[i] < Old => Aged(e)[i] = e[i] + 1
         /\ \A d : Cut(e, Window - 1, d) => Cut(Aged(e), Window, d)
<1>. USE ConstantsAssumption
<1>. DEFINE n == Len(e)
            t == Aged(e)
<1>1. n \in Nat /\ DOMAIN e = 1..n /\ Old \in Nat /\ Window < Old  BY DEF Old
<1>2. \A i \in 1..n : e[i] \in 0..Old
  <2>1. ASSUME NEW i \in 1..n PROVE e[i] \in 0..Old  BY ElementOf
  <2>. QED BY <2>1
<1>. HIDE DEF n
<1>3. t = [i \in 1..n |-> IF e[i] = Old THEN Old ELSE e[i] + 1]  BY <1>1 DEF Aged
<1>4. \A i \in 1..n : t[i] = IF e[i] = Old THEN Old ELSE e[i] + 1  BY <1>3
<1>5. ASSUME NEW i \in 1..n
      PROVE  /\ t[i] \in 0..Old
             /\ e[i] < Old => t[i] = e[i] + 1
             /\ t[i] <= Window <=> e[i] <= Window - 1
  BY <1>1, <1>2, <1>4
<1>6. t \in [1..n -> 0..Old]  BY <1>3, <1>5
<1>7. t \in Seq(0..Old) /\ Len(t) = n  BY <1>1, <1>6
<1>. HIDE DEF t
<1>8. ASSUME NEW i \in 1..n, NEW j \in 1..n, i <= j PROVE t[i] >= t[j]
  <2>1. e[i] >= e[j]  BY <1>8 DEF Sorted, n
  <2>. QED BY <1>1, <1>2, <1>4, <2>1
<1>9. ASSUME NEW d, Cut(e, Window - 1, d) PROVE Cut(t, Window, d)
  BY <1>5, <1>7, <1>9 DEF Cut, n
<1>. QED BY <1>5, <1>7, <1>8, <1>9 DEF Sorted, n, t

\* The ideal limiter's list, a tick later.
LEMMA OlderIs ==
  ASSUME NEW e \in Seq(0..Old), Sorted(e), NEW c, Cut(e, Window, c),
         NEW d, Cut(e, Window - 1, d)
  PROVE  Ideal!Older(After(e, c)) = After(Aged(e), d)
<1>. USE ConstantsAssumption
<1>. DEFINE n == Len(e)
            t == After(e, c)
            P(m) == \A i \in DOMAIN t : i > m <=> t[i] < Window
            left == CHOOSE m \in 0..Len(t) : P(m)
<1>1. n \in Nat /\ c \in 0..n /\ d \in 0..n  BY DEF Cut
<1>2. \A i \in 1..n : e[i] \in 0..Old
  <2>1. ASSUME NEW i \in 1..n PROVE e[i] \in 0..Old  BY ElementOf
  <2>. QED BY <2>1
<1>3. c <= d
  <2>1. SUFFICES ASSUME d < c PROVE FALSE  BY <1>1
  <2>2. d + 1 \in 1..n /\ d + 1 > d /\ ~(d + 1 > c)  BY <1>1, <2>1
  <2>3. e[d + 1] <= Window - 1  BY <2>2 DEF Cut
  <2>4. e[d + 1] <= Window  BY <1>2, <2>2, <2>3
  <2>. QED BY <2>2, <2>4 DEF Cut
<1>4. /\ t \in Seq(0..Old) /\ Len(t) = n - c
      /\ \A i \in 1..(n - c) : t[i] = e[c + i]
  BY <1>1, AfterIs
<1>5. Cut(t, Window - 1, d - c)  BY <1>3, CutAgain
<1>. HIDE DEF t, n
<1>6. DOMAIN t = 1..Len(t) /\ \A i \in 1..Len(t) : t[i] < Window <=> t[i] <= Window - 1
  <2>1. ASSUME NEW i \in 1..Len(t) PROVE t[i] < Window <=> t[i] <= Window - 1
    <3>1. t[i] \in 0..Old  BY <1>4, ElementOf
    <3>. QED BY <3>1
  <2>. QED BY <1>4, <2>1
<1>7. left = d - c
  <2>1. d - c \in 0..Len(t) /\ P(d - c)  BY <1>5, <1>6 DEF Cut
  <2>2. left \in 0..Len(t) /\ P(left)
    <3>. HIDE DEF P
    <3>. QED BY <2>1
  <2>. HIDE DEF left
  <2>. DEFINE limit == Window - 1
  <2>3. Cut(t, limit, left) /\ Cut(t, limit, d - c)  BY <1>5, <1>6, <2>2 DEF Cut
  <2>. HIDE DEF limit
  <2>. QED BY <1>4, <2>3, CutUnique
<1>8. Ideal!Older(t) = [i \in 1..(Len(t) - left) |-> t[left + i] + 1]
  BY DEF Ideal!Older
<1>. HIDE DEF left
<1>9. Len(t) - left = n - d  BY <1>1, <1>4, <1>7
<1>10. Ideal!Older(t) = [i \in 1..(n - d) |-> t[(d - c) + i] + 1]
  BY <1>7, <1>8, <1>9
<1>11. /\ Aged(e) \in Seq(0..Old) /\ Len(Aged(e)) = n
       /\ \A i \in 1..n : e[i] < Old => Aged(e)[i] = e[i] + 1
  BY AgedIs DEF n
<1>12. /\ After(Aged(e), d) \in Seq(0..Old)
       /\ Len(After(Aged(e), d)) = n - d
       /\ \A i \in 1..(n - d) : After(Aged(e), d)[i] = Aged(e)[d + i]
  BY <1>1, <1>11, AfterIs
<1>13. ASSUME NEW i \in 1..(n - d) PROVE t[(d - c) + i] + 1 = After(Aged(e), d)[i]
  <2>1. (d - c) + i \in 1..(n - c) /\ c + ((d - c) + i) = d + i /\ d + i \in 1..n /\ d + i > d
    BY <1>1, <1>3
  <2>2. t[(d - c) + i] = e[d + i]  BY <1>4, <2>1
  <2>3. e[d + i] <= Window - 1  BY <2>1 DEF Cut, n
  <2>4. e[d + i] < Old  BY <1>2, <2>1, <2>3 DEF Old
  <2>. QED BY <1>11, <1>12, <2>1, <2>2, <2>4
<1>14. DOMAIN After(Aged(e), d) = 1..(n - d) /\ n - d \in Nat  BY <1>1, <1>12
<1>15. After(Aged(e), d) = [i \in 1..(n - d) |-> After(Aged(e), d)[i]]  BY <1>12, <1>14
<1>. HIDE DEF Aged
<1>. QED BY <1>10, <1>13, <1>15 DEF t


\* The list of every address is sorted.
LEMMA SortedEntries ==
  ASSUME TypeOK, Ordered, NEW k
  PROVE  Entries(k) \in Seq(0..Old) /\ Sorted(Entries(k))
<1>1. CASE k \in DOMAIN hits  BY <1>1 DEF TypeOK, Ordered, Entries
<1>2. CASE k \notin DOMAIN hits  BY <1>2 DEF Entries, Sorted
<1>. QED BY <1>1, <1>2

\* A cut by a longer limit comes first.
LEMMA LongerCutsLess ==
  ASSUME NEW e \in Seq(0..Old), NEW limit \in Int, NEW c, Cut(e, limit, c),
         NEW longer \in Int, NEW d, Cut(e, longer, d), limit <= longer
  PROVE  d <= c
<1>1. c \in 0..Len(e) /\ d \in 0..Len(e) /\ Len(e) \in Nat  BY DEF Cut
<1>. SUFFICES ASSUME c < d PROVE FALSE  BY <1>1
<1>2. c + 1 \in 1..Len(e) /\ c + 1 > c /\ ~(c + 1 > d)  BY <1>1
<1>3. e[c + 1] <= limit /\ ~(e[c + 1] <= longer)  BY <1>2 DEF Cut
<1>4. e[c + 1] \in 0..Old  BY <1>2, ElementOf
<1>. QED BY <1>3, <1>4

\* Trimming by the window or more leaves what is in the window.
LEMMA TrimKeeps ==
  ASSUME NEW e \in Seq(0..Old), Sorted(e), NEW limit \in Nat, Window <= limit
  PROVE  /\ Trim(e, limit) \in Seq(0..Old) /\ Sorted(Trim(e, limit))
         /\ InWindow(Trim(e, limit)) = InWindow(e)
         /\ limit = Window => /\ Trim(e, limit) = InWindow(e)
                              /\ Cut(Trim(e, limit), Window, 0)
<1>. USE ConstantsAssumption
<1>1. PICK c \in 0..Len(e) : Cut(e, limit, c)  BY CutExists
<1>2. PICK d \in 0..Len(e) : Cut(e, Window, d)  BY CutExists
<1>3. c <= d  BY <1>1, <1>2, LongerCutsLess
<1>4. Trim(e, limit) = After(e, c)  BY <1>1, TrimIsAfter
<1>5. After(e, c) \in Seq(0..Old) /\ Sorted(After(e, c))  BY AfterIs, AfterSorted
<1>6. Cut(After(e, c), Window, d - c) /\ After(After(e, c), d - c) = After(e, d)
  BY <1>1, <1>2, <1>3, CutAgain
<1>7. InWindow(After(e, c)) = After(After(e, c), d - c)  BY <1>5, <1>6, InWindowIsAfter
<1>8. InWindow(e) = After(e, d)  BY <1>2, InWindowIsAfter
<1>9. ASSUME limit = Window PROVE c = d  BY <1>1, <1>2, <1>9, CutUnique
<1>10. c = d => d - c = 0  OBVIOUS
<1>. QED BY <1>4, <1>5, <1>6, <1>7, <1>8, <1>9, <1>10

\* A request is decided by what is in the window, and what is admitted is added to it.
LEMMA CheckDecides ==
  ASSUME TypeOK, Ordered, NEW k \in Keys, Check(k)
  PROVE  /\ Ordered'
         /\ \A j \in Keys : j # k => Recent(j)' = Recent(j)
         /\ \/ /\ Len(Recent(k)) < Max
               /\ Recent(k)' = Append(Recent(k), 0)
               /\ verdict' = [verdict EXCEPT ![k] = "admitted"]
            \/ /\ Len(Recent(k)) >= Max
               /\ Recent(k)' = Recent(k)
               /\ verdict' = [verdict EXCEPT ![k] = "rejected"]
<1>. USE ConstantsAssumption
<1>. DEFINE e == Entries(k)
            t == Trim(e, Window)
            put == IF Len(t) >= Max THEN t ELSE Append(t, 0)
<1>1. e \in Seq(0..Old) /\ Sorted(e)  BY SortedEntries
<1>2. /\ t \in Seq(0..Old) /\ Sorted(t) /\ t = Recent(k) /\ InWindow(t) = t
      /\ Cut(t, Window, 0)
  BY <1>1, TrimKeeps DEF Recent
<1>3. 0 \in 0..Old /\ Append(t, 0) \in Seq(0..Old)
  <2>1. 0 \in 0..Old  BY DEF Old
  <2>. HIDE DEF t
  <2>. QED BY <1>2, <2>1
<1>4. Put(k, put) /\ verdict' = [verdict EXCEPT ![k] = IF Len(t) >= Max THEN "rejected"
                                                       ELSE "admitted"]
  BY DEF Check
<1>. HIDE DEF t, e
<1>5. Sorted(Append(t, 0)) /\ Cut(Append(t, 0), Window, 0)  BY <1>2, AppendEntry
<1>6. After(Append(t, 0), 0) = Append(t, 0)
  <2>. DEFINE a == Append(t, 0)
  <2>1. 0 \in 0..Len(a) /\ Len(a) \in Nat /\ a \in Seq(0..Old)  BY <1>3
  <2>. HIDE DEF a
  <2>2. /\ After(a, 0) \in Seq(0..Old) /\ Len(After(a, 0)) = Len(a) - 0
        /\ \A i \in 1..(Len(a) - 0) : After(a, 0)[i] = a[0 + i]
    BY <2>1, AfterIs
  <2>3. Len(a) - 0 = Len(a) /\ \A i \in 1..Len(a) : 0 + i = i  BY <2>1
  <2>4. \A i \in 1..Len(a) : After(a, 0)[i] = a[i]  BY <2>2, <2>3
  <2>. QED BY <2>1, <2>2, <2>3, <2>4, SameSequence DEF a
<1>7. InWindow(Append(t, 0)) = Append(t, 0)  BY <1>3, <1>5, <1>6, InWindowIsAfter
<1>8. /\ DOMAIN hits' = DOMAIN hits \cup {k}
      /\ \A j \in DOMAIN hits' : hits'[j] = IF j = k THEN put ELSE hits[j]
  <2>. HIDE DEF put
  <2>. QED BY <1>4 DEF Put
<1>9. Sorted(put) /\ InWindow(put) = put  BY <1>2, <1>5, <1>7
<1>. HIDE DEF put
<1>10. Ordered'  BY <1>8, <1>9 DEF Ordered
<1>11. Entries(k)' = put /\ \A j : j # k => Entries(j)' = Entries(j)
  BY <1>8 DEF Entries
<1>12. Recent(k)' = put /\ \A j : j # k => Recent(j)' = Recent(j)
  BY <1>9, <1>11 DEF Recent
<1>13. Len(t) \in Nat  BY <1>2
<1>14. Max \in Nat  OBVIOUS
<1>15. CASE Len(t) >= Max
  BY <1>2, <1>4, <1>10, <1>12, <1>15 DEF put
<1>16. CASE Len(t) < Max
  <2>1. ~(Len(t) >= Max)  BY <1>13, <1>14, <1>16
  <2>. QED BY <1>2, <1>4, <1>10, <1>12, <1>16, <2>1 DEF put
<1>. QED BY <1>13, <1>14, <1>15, <1>16

\* The sweep removes nothing that is in the window.
LEMMA SweepKeeps ==
  ASSUME TypeOK, Ordered, Sweep
  PROVE  Ordered' /\ \A k : Recent(k)' = Recent(k)
<1>. USE ConstantsAssumption
<1>1. 2 * Window \in Nat /\ Window <= 2 * Window  OBVIOUS
<1>. DEFINE swept == [k \in DOMAIN hits |-> Trim(hits[k], 2 * Window)]
<1>2. ASSUME NEW k \in DOMAIN hits
      PROVE  Sorted(swept[k]) /\ InWindow(swept[k]) = InWindow(hits[k])
  <2>1. hits[k] \in Seq(0..Old) /\ Sorted(hits[k])  BY DEF TypeOK, Ordered
  <2>2. swept[k] = Trim(hits[k], 2 * Window)  OBVIOUS
  <2>. QED BY <1>1, <2>1, <2>2, TrimKeeps
<1>3. hits' = [k \in {j \in DOMAIN hits : swept[j] # <<>>} |-> swept[k]]  BY DEF Sweep
<1>. HIDE DEF swept
<1>4. Ordered'  BY <1>2, <1>3 DEF Ordered
<1>5. ASSUME NEW k PROVE Recent(k)' = Recent(k)
  <2>1. CASE k \in DOMAIN hits
    <3>1. Entries(k)' = swept[k] /\ Entries(k) = hits[k]  BY <1>3, <2>1 DEF Entries
    <3>. QED BY <1>2, <2>1, <3>1 DEF Recent
  <2>2. CASE k \notin DOMAIN hits
    <3>1. Entries(k)' = Entries(k)  BY <1>3, <2>2 DEF Entries
    <3>. QED BY <3>1 DEF Recent
  <2>. QED BY <2>1, <2>2
<1>. QED BY <1>4, <1>5

\* The clock moves the window on.
LEMMA TickMoves ==
  ASSUME TypeOK, Ordered, Tick
  PROVE  Ordered' /\ \A k : Recent(k)' = Ideal!Older(Recent(k))
<1>. USE ConstantsAssumption
<1>1. hits' = [k \in DOMAIN hits |-> Aged(hits[k])]  BY DEF Tick, Aged
<1>2. Ordered'
  <2>1. ASSUME NEW k \in DOMAIN hits PROVE Sorted(Aged(hits[k]))
    BY AgedIs DEF TypeOK, Ordered
  <2>. QED BY <1>1, <2>1 DEF Ordered
<1>3. ASSUME NEW k PROVE Recent(k)' = Ideal!Older(Recent(k))
  <2>. DEFINE e == Entries(k)
  <2>1. e \in Seq(0..Old) /\ Sorted(e)  BY SortedEntries
  <2>2. Entries(k)' = Aged(e)
    <3>1. CASE k \in DOMAIN hits  BY <1>1, <3>1 DEF Entries
    <3>2. CASE k \notin DOMAIN hits
      <4>1. Aged(<<>>) = <<>>  BY DEF Aged
      <4>. QED BY <1>1, <3>2, <4>1 DEF Entries
    <3>. QED BY <3>1, <3>2
  <2>. HIDE DEF e
  <2>3. Window - 1 \in Nat  OBVIOUS
  <2>4. PICK c \in 0..Len(e) : Cut(e, Window, c)  BY <2>1, CutExists
  <2>5. PICK d \in 0..Len(e) : Cut(e, Window - 1, d)  BY <2>1, <2>3, CutExists
  <2>6. InWindow(e) = After(e, c)  BY <2>1, <2>4, InWindowIsAfter
  <2>7. Aged(e) \in Seq(0..Old) /\ Cut(Aged(e), Window, d)  BY <2>1, <2>5, AgedIs
  <2>8. InWindow(Aged(e)) = After(Aged(e), d)  BY <2>7, InWindowIsAfter
  <2>9. Ideal!Older(After(e, c)) = After(Aged(e), d)  BY <2>1, <2>4, <2>5, OlderIs
  <2>10. Recent(k) = InWindow(e)  BY DEF Recent, e
  <2>. QED BY <2>2, <2>6, <2>8, <2>9, <2>10 DEF Recent
<1>. QED BY <1>2, <1>3


\* The server's lists as the ideal limiter's.
Recents == [k \in Keys |-> Recent(k)]
Up == phase # "exited"

\* What is in the window of an address without entries.
LEMMA EmptyWindow == InWindow(<<>>) = <<>>
<1>1. <<>> \in Seq(0..Old) /\ Cut(<<>>, Window, 0)  BY DEF Cut
<1>2. After(<<>>, 0) = <<>>  BY DEF After
<1>. QED BY <1>1, <1>2, InWindowIsAfter

\* A step that leaves the limiter alone leaves its view alone.
LEMMA LimiterIdle ==
  ASSUME Ordered, UNCHANGED <<hits, verdict>>, Up' = Up
  PROVE  Ordered' /\ UNCHANGED <<Recents, verdict, Up>>
<1>1. Ordered'  BY DEF Ordered
<1>2. \A k : Recent(k)' = Recent(k)  BY DEF Recent, Entries
<1>. QED BY <1>1, <1>2 DEF Recents

\* The end of a process is the end of its memory.
LEMMA ExitedForgets ==
  ASSUME Exited, Up
  PROVE  /\ Ordered' /\ ~Up'
         /\ Recents' = [k \in Keys |-> <<>>] /\ UNCHANGED verdict
<1>1. hits' = <<>> /\ DOMAIN <<>> = {} /\ phase' = "exited" /\ UNCHANGED verdict
  BY DEF Exited
<1>2. Ordered'  BY <1>1 DEF Ordered
<1>3. \A k : Entries(k)' = <<>>  BY <1>1 DEF Entries
<1>4. \A k : Recent(k)' = <<>>  BY <1>3, EmptyWindow DEF Recent
<1>5. ~Up'  BY <1>1 DEF Up
<1>. QED BY <1>1, <1>2, <1>4, <1>5 DEF Recents

\* Every step of the server is one of the ideal limiter's, or none.
LEMMA DecisionStep ==
  ASSUME TypeOK, IInv, Ordered, [ServerNext]_allVars
  PROVE  /\ Ordered'
         /\ \/ Ideal!Next
            \/ UNCHANGED <<Recents, verdict, Up>>
<1>. DEFINE Goal == Ordered' /\ (Ideal!Next \/ UNCHANGED <<Recents, verdict, Up>>)
<1>1. CASE UNCHANGED allVars
  <2>1. UNCHANGED <<hits, verdict>> /\ Up' = Up  BY <1>1 DEF allVars, vars, serverVars, Up
  <2>. QED BY <2>1, LimiterIdle
<1>2. CASE ClockTick
  <2>1. Tick /\ Up /\ Up' = Up /\ verdict' = verdict
    BY <1>2 DEF ClockTick, Running, serverVars, Tick, Up
  <2>2. Ordered' /\ \A k : Recent(k)' = Ideal!Older(Recent(k))  BY <2>1, TickMoves
  <2>3. Recents' = [k \in Keys |-> Ideal!Older(Recents[k])]  BY <2>2 DEF Recents
  <2>4. Ideal!Tick  BY <2>1, <2>3 DEF Ideal!Tick, Recents
  <2>. QED BY <2>1, <2>2, <2>4 DEF Ideal!Next, Up
<1>3. CASE SweepTimer
  <2>1. Sweep /\ Up' = Up /\ verdict' = verdict
    BY <1>3 DEF SweepTimer, Running, serverVars, Sweep, Up
  <2>2. Ordered' /\ \A k : Recent(k)' = Recent(k)  BY <2>1, SweepKeeps
  <2>. QED BY <2>1, <2>2 DEF Recents
<1>4. ASSUME NEW k \in Keys, Rest(k) PROVE Goal
  <2>1. Check(k) /\ Up /\ Up' = Up  BY <1>4 DEF Rest, Up
  <2>2. /\ Ordered'
        /\ \A j \in Keys : j # k => Recent(j)' = Recent(j)
        /\ \/ /\ Len(Recent(k)) < Max
              /\ Recent(k)' = Append(Recent(k), 0)
              /\ verdict' = [verdict EXCEPT ![k] = "admitted"]
           \/ /\ Len(Recent(k)) >= Max
              /\ Recent(k)' = Recent(k)
              /\ verdict' = [verdict EXCEPT ![k] = "rejected"]
    BY <2>1, CheckDecides
  <2>3. CASE Len(Recent(k)) < Max /\ Recent(k)' = Append(Recent(k), 0)
             /\ verdict' = [verdict EXCEPT ![k] = "admitted"]
    <3>1. Recents' = [Recents EXCEPT ![k] = Append(Recent(k), 0)]
      BY <2>2, <2>3 DEF Recents
    <3>2. Recents[k] = Recent(k)  BY DEF Recents
    <3>3. Ideal!Admit(k)  BY <2>3, <3>1, <3>2 DEF Ideal!Admit, Recents
    <3>. QED BY <2>1, <2>2, <3>3 DEF Ideal!Next, Up
  <2>4. CASE Len(Recent(k)) >= Max /\ Recent(k)' = Recent(k)
             /\ verdict' = [verdict EXCEPT ![k] = "rejected"]
    <3>1. Recents' = Recents  BY <2>2, <2>4 DEF Recents
    <3>2. Recents[k] = Recent(k)  BY DEF Recents
    <3>3. Ideal!Reject(k)  BY <2>4, <3>1, <3>2 DEF Ideal!Reject, Recents
    <3>. QED BY <2>1, <2>2, <3>3 DEF Ideal!Next, Up
  <2>. QED BY <2>2, <2>3, <2>4
<1>5. ASSUME NEW k \in Keys, ClientLeaves(k) \/ RestAnswer(k) \/ RestHangUp(k) PROVE Goal
  <2>1. UNCHANGED <<hits, verdict>> /\ Up' = Up
    BY <1>5 DEF ClientLeaves, Running, Leave, RestAnswer, RestHangUp, vars, serverVars, Up
  <2>. QED BY <2>1, LimiterIdle
<1>6. ASSUME NEW r \in Calls, McpStep(r) PROVE Goal
  <2>1. UNCHANGED <<hits, verdict>> /\ Up' = Up
    BY <1>6 DEF McpStep, Post, Stream, End, Read, Initialize, Handle, Refuse, Answer,
                HangUp, Disconnect, vars, Up
  <2>. QED BY <2>1, LimiterIdle
<1>7. ASSUME Exited, Up PROVE Goal
  <2>1. /\ Ordered' /\ ~Up'
        /\ Recents' = [k \in Keys |-> <<>>] /\ UNCHANGED verdict
    BY <1>7, ExitedForgets
  <2>2. Ideal!Stop  BY <1>7, <2>1 DEF Ideal!Stop, Recents, Up
  <2>. QED BY <2>1, <2>2 DEF Ideal!Next
<1>8. ASSUME NEW g \in Signals, Signal(g) \/ SignalAgain(g) \/ Kill(g) PROVE Goal
  <2>1. CASE Signal(g) \/ SignalAgain(g)
    <3>1. UNCHANGED <<hits, verdict>> /\ Up' = Up
      BY <2>1 DEF Signal, Shutdown, SignalAgain, vars, Up
    <3>. QED BY <3>1, LimiterIdle
  <2>2. CASE Kill(g)
    <3>1. Exited /\ Up  BY <2>2 DEF Kill, IInv, Draining, Up
    <3>. QED BY <1>7, <3>1
  <2>. QED BY <1>8, <2>1, <2>2
<1>9. CASE ServerClosed
  <2>1. UNCHANGED <<hits, verdict>> /\ Up' = Up  BY <1>9 DEF ServerClosed, vars, Up
  <2>. QED BY <2>1, LimiterIdle
<1>10. CASE Exit  BY <1>7, <1>10 DEF Exit, Up
<1>11. CASE Start
  <2>1. UNCHANGED <<hits, verdict>> /\ ~Up /\ Up'  BY <1>11 DEF Start, Up
  <2>2. Ordered'  BY <2>1 DEF Ordered
  <2>3. Recents' = Recents
    <3>1. \A k : Recent(k)' = Recent(k)  BY <2>1 DEF Recent, Entries
    <3>. QED BY <3>1 DEF Recents
  <2>4. Ideal!Start  BY <2>1, <2>3 DEF Ideal!Start, Recents, Up
  <2>. QED BY <2>2, <2>4 DEF Ideal!Next
<1>. QED BY <1>1, <1>2, <1>3, <1>4, <1>5, <1>6, <1>8, <1>9, <1>10, <1>11 DEF ServerNext

\* Each decision about a request is the one that a limiter would take that remembers every
\* request it has admitted since its process started: trimming lazily, sweeping and
\* forgetting addresses change none.
THEOREM LimiterIdeal == ServerSpec => DecidesLikeIdeal
<1>1. ServerInit => Ideal!Init /\ Ordered
  <2>. SUFFICES ASSUME ServerInit PROVE Ideal!Init /\ Ordered  OBVIOUS
  <2>1. hits = <<>> /\ DOMAIN <<>> = {} /\ verdict = [k \in Keys |-> "none"]
        /\ phase = "serving"
    BY DEF ServerInit, Init
  <2>2. Ordered  BY <2>1 DEF Ordered
  <2>3. \A k : Entries(k) = <<>>  BY <2>1 DEF Entries
  <2>4. Recents = [k \in Keys |-> <<>>]  BY <2>3, EmptyWindow DEF Recents, Recent
  <2>5. Ideal!Init  BY <2>1, <2>4 DEF Ideal!Init, Recents
  <2>. QED BY <2>2, <2>5
<1>2. TypeOK /\ IInv /\ Ordered /\ [ServerNext]_allVars
        => Ordered' /\ [Ideal!Next]_<<Recents, verdict, Up>>
  BY DecisionStep
<1>3. <<Recents, verdict, Up>> = <<[k \in Keys |-> Recent(k)], verdict, phase # "exited">>
  BY DEF Recents, Up
<1>4. [Ideal!Next]_<<Recents, verdict, Up>>
        <=> [Ideal!Next]_<<[k \in Keys |-> Recent(k)], verdict, phase # "exited">>
  BY DEF Recents, Up
<1>. QED BY Invariant, <1>1, <1>2, <1>4, PTL DEF ServerSpec, DecidesLikeIdeal, Ideal!Spec

=============================================================================
