----------------------------- MODULE HttpServer -----------------------------
(***************************************************************************)
(* The process that `serve` runs: REST requests behind the rate limiter,   *)
(* MCP sessions over HTTP, the shutdown that drains both, and the next     *)
(* process, to which agents come back with the old session ids.            *)
(*                                                                         *)
(* Node's HTTP server and the SDK's transport are external.  Of the first: *)
(* close() stops accepting connections, goes on serving those in use (a    *)
(* kept-alive one may send further requests) and calls back when all have  *)
(* ended.  Of the second: close() ends the responses that are open in its  *)
(* session, and a message read after that is rejected or never answered.   *)
(***************************************************************************)
EXTENDS RateLimiter

CONSTANTS Calls,     \* connections to /mcp, one request at a time on each
          Sessions,  \* MCP session ids
          Null,
          Workloads  \* bounds: the addresses that use REST, how many requests go to
                     \* /mcp and how many signals arrive in one behaviour

ASSUME WorkloadsAssumption ==
  /\ Workloads \subseteq [keys : SUBSET Keys, calls : Nat, signals : Nat]
  /\ Null \notin Sessions

VARIABLES
  phase,     \* what the process is doing
  heard,     \* the signals whose once-listener has been used
  rest,      \* address -> what its REST request is doing
  mcp,       \* connection -> what its request to /mcp is doing
  sessions,  \* httpSessions: the ids with an entry (which is always their own transport)
  open,      \* the ids whose transport has been initialised and not closed
  issued,    \* the ids agents have been given, by earlier processes too
  late,      \* history: the ids initialised after the signal
  kept,      \* connections in use when the signal came, not ended since
  budget     \* what is left of the workload

serverVars == <<phase, heard, rest, mcp, sessions, open, issued, late, kept, budget>>
allVars == <<vars, serverVars>>

Phases == {"serving", "draining", "closing", "exited"}
Signals == {"SIGTERM", "SIGINT"}

\* A request to /mcp.  "reading" awaits the body, with the transport found in the table or
\* (sess = Null) a new one; "calling" awaits a tool; "lost" was read by a closed transport.
\* client: whether the response is still open to somebody.
Request == [at : {"idle", "reading", "calling", "streaming", "lost"},
            sess : Sessions \cup {Null}, client : BOOLEAN]
Idle == [at |-> "idle", sess |-> Null, client |-> FALSE]
Busy(at, s) == [at |-> at, sess |-> s, client |-> TRUE]

ServerInit ==
  /\ Init
  /\ budget \in Workloads
  /\ active = budget.keys
  /\ phase = "serving" /\ heard = {}
  /\ rest = [k \in Keys |-> "idle"]
  /\ mcp = [r \in Calls |-> Idle]
  /\ sessions = {} /\ open = {} /\ issued = {} /\ late = {} /\ kept = {}

-----------------------------------------------------------------------------
(* REST requests.                                                          *)

\* The limiter's middleware, and the handler if it lets the request pass.
Rest(k) ==
  /\ phase = "serving"
  /\ rest[k] = "idle"
  /\ Check(k)
  /\ rest' = [rest EXCEPT ![k] = IF verdict'[k] = "admitted" THEN "handled" ELSE "idle"]
  /\ UNCHANGED <<phase, heard, mcp, sessions, open, issued, late, kept, budget>>

RestAnswer(k) ==
  /\ rest[k] # "idle"
  /\ rest' = [rest EXCEPT ![k] = "idle"]
  /\ UNCHANGED <<vars, phase, heard, mcp, sessions, open, issued, late, kept, budget>>

\* The client disconnects; its handler runs on.
RestHangUp(k) ==
  /\ rest[k] = "handled"
  /\ rest' = [rest EXCEPT ![k] = "abandoned"]
  /\ UNCHANGED <<vars, phase, heard, mcp, sessions, open, issued, late, kept, budget>>

-----------------------------------------------------------------------------
(* Requests to /mcp: handleMcp.                                            *)

Send(r) ==
  /\ mcp[r].at = "idle"
  /\ phase = "serving" \/ (phase = "draining" /\ r \in kept)
  /\ budget.calls > 0
  /\ budget' = [budget EXCEPT !.calls = @ - 1]

Becomes(r, request) == mcp' = [mcp EXCEPT ![r] = request]

\* A POST, with a session id or without: an id that is not in the table is treated as none.
Post(r, s) ==
  /\ Send(r)
  /\ Becomes(r, Busy("reading", IF s \in sessions THEN s ELSE Null))
  /\ UNCHANGED <<vars, phase, heard, rest, sessions, open, issued, late, kept>>

\* randomUUID: an id nobody has been given (ids are interchangeable).
FreshId == CHOOSE s \in Sessions : s \notin issued

\* The body turns out to be an initialize message for a new transport.
InitializeUnnamed(r) ==  \* mutant: registered before the transport has its id
  LET s == FreshId IN
  /\ mcp[r].at = "reading" /\ mcp[r].sess = Null
  /\ issued # Sessions
  /\ issued' = issued \cup {s}
  /\ sessions' = sessions \cup {Null}
  /\ open' = open \cup {s}
  /\ late' = IF phase = "serving" THEN late ELSE late \cup {s}
  /\ Becomes(r, Busy("calling", s))
  /\ UNCHANGED <<vars, phase, heard, rest, kept, budget>>
Initialize(r) ==
  LET s == FreshId IN
  /\ mcp[r].at = "reading" /\ mcp[r].sess = Null
  /\ issued # Sessions
  /\ issued' = issued \cup {s}
  /\ sessions' = sessions \cup {s}
  /\ open' = open \cup {s}
  /\ late' = IF phase = "serving" THEN late ELSE late \cup {s}
  /\ Becomes(r, Busy("calling", s))
  /\ UNCHANGED <<vars, phase, heard, rest, kept, budget>>

\* A call for the transport found before the body was read.
Handle(r) ==
  /\ mcp[r].at = "reading" /\ mcp[r].sess # Null
  /\ Becomes(r, Busy(IF mcp[r].sess \in open THEN "calling" ELSE "lost", mcp[r].sess))
  /\ UNCHANGED <<vars, phase, heard, rest, sessions, open, issued, late, kept, budget>>

\* Not a JSON body, or not a message this transport can take now.
Refuse(r) ==
  /\ mcp[r].at = "reading"
  /\ Becomes(r, Idle)
  /\ UNCHANGED <<vars, phase, heard, rest, sessions, open, issued, late, kept, budget>>

\* The tool has run; somebody gets the result, if anybody is there.
Answer(r) ==
  /\ mcp[r].at = "calling"
  /\ Becomes(r, Idle)
  /\ UNCHANGED <<vars, phase, heard, rest, sessions, open, issued, late, kept, budget>>

\* A GET: the session's event stream, at most one at a time.
Stream(r, s) ==
  /\ Send(r)
  /\ s \in sessions
  /\ \A q \in Calls : ~(mcp[q].at = "streaming" /\ mcp[q].sess = s)
  /\ Becomes(r, Busy("streaming", s))
  /\ UNCHANGED <<vars, phase, heard, rest, sessions, open, issued, late, kept>>

\* Transports close: their responses end, and onclose removes their entries.
CloseAll(closed) ==  \* mutant: every session is closed with the ones meant
  /\ open' = {} /\ sessions' = {}
  /\ mcp' = [r \in Calls |->
       IF mcp[r].sess = Null THEN mcp[r]
       ELSE CASE mcp[r].at = "streaming" -> Idle
              [] mcp[r].at = "calling" -> [mcp[r] EXCEPT !.client = FALSE]
              [] OTHER -> mcp[r]]
CloseKeepsEntry(closed) ==  \* mutant: no onclose handler
  /\ open' = open \ closed
  /\ UNCHANGED sessions
  /\ mcp' = [r \in Calls |->
       IF mcp[r].sess \notin closed THEN mcp[r]
       ELSE CASE mcp[r].at = "streaming" -> Idle
              [] mcp[r].at = "calling" -> [mcp[r] EXCEPT !.client = FALSE]
              [] OTHER -> mcp[r]]
Close(closed) ==
  /\ open' = open \ closed
  /\ sessions' = sessions \ closed
  /\ mcp' = [r \in Calls |->
       IF mcp[r].sess \notin closed THEN mcp[r]
       ELSE CASE mcp[r].at = "streaming" -> Idle
              [] mcp[r].at = "calling" -> [mcp[r] EXCEPT !.client = FALSE]
              [] OTHER -> mcp[r]]

\* A DELETE.
End(r, s) ==
  /\ Send(r)
  /\ s \in sessions
  /\ Close({s})
  /\ UNCHANGED <<vars, phase, heard, rest, issued, late, kept>>

\* The agent disconnects; a tool that has started runs on.
HangUp(r) ==
  /\ mcp[r].client
  /\ Becomes(r, IF mcp[r].at = "calling" THEN [mcp[r] EXCEPT !.client = FALSE] ELSE Idle)
  /\ kept' = kept \ {r}
  /\ UNCHANGED <<vars, phase, heard, rest, sessions, open, issued, late, budget>>

-----------------------------------------------------------------------------
(* Shutdown.                                                               *)

\* SIGTERM or SIGINT: every session in the table is closed, and the server stops accepting
\* connections.  REST clients are taken not to send again on a connection kept alive.
Heard(g) == /\ budget.signals > 0
            /\ budget' = [budget EXCEPT !.signals = @ - 1]
            /\ heard' = heard \cup {g}
ShutdownLeavesOpen ==  \* mutant: the table is cleared, the transports are not closed
  /\ phase' = "draining"
  /\ kept' = {r \in Calls : mcp[r].client}
  /\ sessions' = {}
  /\ active' = {}
  /\ UNCHANGED <<hits, verdict, rest, mcp, open, issued, late>>
Shutdown ==
  /\ phase' = "draining"
  /\ kept' = {r \in Calls : mcp[r].client}
  /\ Close(sessions)
  /\ active' = {}
  /\ UNCHANGED <<hits, verdict, rest, issued, late>>
Signal(g) == phase = "serving" /\ Heard(g) /\ Shutdown

\* The other signal, while the process is shutting down already.
SignalAgain(g) ==
  /\ phase \in {"draining", "closing"} /\ g \notin heard
  /\ Heard(g)
  /\ UNCHANGED <<vars, phase, rest, mcp, sessions, open, issued, late, kept>>

\* A connection without an open response ends: either side closes it.
Disconnect(r) ==
  /\ phase = "draining" /\ r \in kept
  /\ ~mcp[r].client
  /\ kept' = kept \ {r}
  /\ UNCHANGED <<vars, phase, heard, rest, mcp, sessions, open, issued, late, budget>>

\* The callback of httpServer.close: it starts to close the database pool.
ServerClosedAtOnce ==  \* mutant: the pool is closed outside of the callback
  /\ phase = "draining"
  /\ phase' = "closing"
  /\ UNCHANGED <<vars, heard, rest, mcp, sessions, open, issued, late, kept, budget>>
ServerClosed ==
  /\ phase = "draining"
  /\ kept = {} /\ \A k \in Keys : rest[k] # "handled"
  /\ phase' = "closing"
  /\ UNCHANGED <<vars, heard, rest, mcp, sessions, open, issued, late, kept, budget>>

\* The process ends with all it holds.
Exited ==
  /\ phase' = "exited"
  /\ heard' = {}
  /\ hits' = <<>>
  /\ rest' = [k \in Keys |-> "idle"]
  /\ mcp' = [r \in Calls |-> Idle]
  /\ sessions' = {} /\ open' = {} /\ late' = {} /\ kept' = {}
  /\ UNCHANGED <<verdict, active, issued>>

\* The pool is closed, or 5 seconds have passed.
Exit == phase = "closing" /\ Exited /\ UNCHANGED budget

\* The same signal once more finds no listener left, and Node's default ends the process.
Kill(g) ==
  /\ g \in heard /\ budget.signals > 0
  /\ budget' = [budget EXCEPT !.signals = @ - 1]
  /\ Exited

\* Another process takes over; its clients are back.
Start ==
  /\ phase = "exited"
  /\ phase' = "serving"
  /\ active' = budget.keys
  /\ UNCHANGED <<hits, verdict, heard, rest, mcp, sessions, open, issued, late, kept, budget>>

-----------------------------------------------------------------------------
\* What the limiter does by itself.
Running == phase # "exited" /\ UNCHANGED serverVars
ClockTick == Running /\ Tick
SweepTimer == Running /\ Sweep
ClientLeaves(k) == Running /\ Leave(k)

Read(r) == Initialize(r) \/ Handle(r) \/ Refuse(r)

McpStep(r) == \/ \E s \in issued \cup {Null} : Post(r, s)
              \/ \E s \in issued : Stream(r, s) \/ End(r, s)
              \/ Read(r) \/ Answer(r) \/ HangUp(r) \/ Disconnect(r)

ServerNext == \/ ClockTick \/ SweepTimer
              \/ \E k \in Keys : ClientLeaves(k) \/ Rest(k) \/ RestAnswer(k) \/ RestHangUp(k)
              \/ \E r \in Calls : McpStep(r)
              \/ \E g \in Signals : Signal(g) \/ SignalAgain(g) \/ Kill(g)
              \/ ServerClosed \/ Exit \/ Start

\* Time passes, the interval timer goes off again and again, an active client keeps
\* sending, promises are resumed, idle connections time out.  No client has to hang up.
ServerSpec ==
  /\ ServerInit /\ [][ServerNext]_allVars
  /\ WF_allVars(ClockTick) /\ WF_allVars(SweepTimer)
  /\ \A k \in Keys : WF_allVars(Rest(k)) /\ WF_allVars(RestAnswer(k))
  /\ \A r \in Calls : WF_allVars(Read(r)) /\ WF_allVars(Answer(r)) /\ WF_allVars(Disconnect(r))
  /\ WF_allVars(ServerClosed) /\ WF_allVars(Exit)

-----------------------------------------------------------------------------
(* Properties.                                                             *)

\* Types, and: an entry of the table is an id some agent was given.
ServerTypeOK ==
  /\ phase \in Phases /\ heard \subseteq Signals
  /\ rest \in [Keys -> {"idle", "handled", "abandoned"}]
  /\ mcp \in [Calls -> Request]
  /\ sessions \subseteq issued /\ open \subseteq issued /\ late \subseteq issued
  /\ issued \subseteq Sessions
  /\ kept \subseteq Calls
  /\ budget \in [keys : SUBSET Keys, calls : Nat, signals : Nat]

\* Whatever agents, DELETEs, the signal and late initialisations interleave: the table
\* routes to open transports only and forgets none, and no response stays open in a
\* session that has been closed, where nobody would ever end it.
SessionsReachable ==
  /\ sessions = open
  /\ \A r \in Calls : mcp[r].client /\ mcp[r].at \in {"calling", "streaming"}
                      => mcp[r].sess \in open

\* "draining HTTP": once the database pool is being closed nobody waits for a response.
DrainedBeforeClosing ==
  phase = "closing" =>
    /\ \A k \in Keys : rest[k] # "handled"
    /\ \A r \in Calls : ~mcp[r].client

\* As long as the server runs, a call or a stream is cut off by its own agent, or because
\* its own session, and no other, was deleted: agents do not disturb one another.
CutOff == {r \in Calls : /\ mcp[r].client /\ ~mcp'[r].client
                         /\ mcp[r].at = "streaming" \/ mcp'[r].at = "calling"}
CutOnlyWithItsSession ==
  [][\/ CutOff = {} \/ phase' # phase
     \/ \E r \in Calls : HangUp(r)
     \/ \E s \in Sessions : open' = open \ {s} /\ \A r \in CutOff : mcp[r].sess = s]_allVars

\* A shutdown comes to its end, unless an agent holds it up with the stream of a session
\* that was initialised after the sessions had been closed, or with a call that was being
\* read when its session was closed.
HeldUp == \E r \in Calls : \/ mcp[r].at = "streaming" /\ mcp[r].sess \in late
                           \/ mcp[r].at = "lost"
ShutdownEnds == phase = "draining" ~> (phase = "exited" \/ HeldUp)

Ideal == INSTANCE SlidingWindow WITH
           recent <- [k \in Keys |-> Recent(k)], up <- phase # "exited"

\* Lazy trimming, the sweep and forgotten addresses never change a decision: each is
\* the one a limiter that remembers every admitted request of its process would take.
DecidesLikeIdeal == Ideal!Spec
=============================================================================
