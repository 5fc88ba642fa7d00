----------------------------- MODULE McpSessions -----------------------------
(***************************************************************************)
(* mcphttp.Handler: the remote MCP endpoint.  Requests pass the Origin     *)
(* check, the session lookup and the token check, in that order; sessions  *)
(* are opened by initialize, refreshed by every lookup, closed by DELETE   *)
(* and by a sweep of the idle ones every half of their time to live.       *)
(*                                                                         *)
(* The sessions are in a concurrent map and their number is in an atomic   *)
(* counter beside it: each is updated by steps of its own, and the cap is  *)
(* tested on the counter.  Times are in ticks of half a time to live.      *)
(***************************************************************************)
EXTENDS Integers, FiniteSets, BearerTokens

CONSTANTS
  Requests,    \* concurrent HTTP requests
  SessionIds,  \* ids that generateSessionID can return, each once
  Bearers,     \* tokens that clients present
  NoSession, NoToken,
  Cap,         \* maxSessions
  Horizon      \* bound on the clock

ASSUME McpAssumption ==
  /\ IsFiniteSet(Requests)
  /\ IsFiniteSet(SessionIds)
  /\ Cap \in Nat \ {0}
  /\ Horizon \in Nat \ {0}
  /\ NoSession \notin SessionIds
  /\ NoToken \notin Bearers

VARIABLES
  clock,
  live,       \* ids in Handler.sessions
  seen,       \* lastSeen by id
  count,      \* Handler.sessionCount
  at,         \* what a request does next
  mine,       \* the session a request opens or closes
  token,      \* the token a request presents
  reaper,     \* what startReaper does next
  todo,       \* sessions the sweep has yet to look at
  victim,     \* the session it found idle
  sweptAt,    \* the tick of the last sweep
  issued,     \* history: ids given out
  drift       \* history: sessions that two goroutines counted down

mcpVars == <<clock, live, seen, count, at, mine, token, reaper, todo, victim,
             sweptAt, issued, drift>>

SessionTTL == 2                \* sessionTTL
SweepEvery == SessionTTL \div 2

McpTypeOK ==
  /\ clock \in 1 .. Horizon
  /\ live \in SUBSET issued
  /\ issued \in SUBSET SessionIds
  /\ seen \in [SessionIds -> 0 .. Horizon]
  /\ count \in Int
  /\ at \in [Requests -> {"idle", "auth", "route", "store", "add", "uncount"}]
  /\ mine \in [Requests -> SessionIds \cup {NoSession}]
  /\ token \in [Requests -> Bearers \cup {NoToken}]
  /\ reaper \in {"wait", "sweep", "delete", "uncount"}
  /\ todo \in SUBSET SessionIds
  /\ victim \in SessionIds \cup {NoSession}
  /\ sweptAt \in 1 .. Horizon
  /\ drift \in Nat

McpInit ==
  /\ clock = 1
  /\ live = {}
  /\ seen = [s \in SessionIds |-> 0]
  /\ count = 0
  /\ at = [r \in Requests |-> "idle"]
  /\ mine = [r \in Requests |-> NoSession]
  /\ token = [r \in Requests |-> NoToken]
  /\ reaper = "wait"
  /\ todo = {}
  /\ victim = NoSession
  /\ sweptAt = 1
  /\ issued = {}
  /\ drift = 0

reaperVars == <<reaper, todo, victim, sweptAt>>

-----------------------------------------------------------------------------
(* POST /mcp *)

GoTo(r, where) == at' = [at EXCEPT ![r] = where]

\* The response is written: the goroutine is done.
Answered(r) ==
  /\ GoTo(r, "idle")
  /\ mine' = [mine EXCEPT ![r] = NoSession]
  /\ token' = [token EXCEPT ![r] = NoToken]

\* sess.lastSeen = time.Now(), before the token is looked at.
Touch(s) ==
  /\ seen' = [seen EXCEPT ![s] = clock]
  /\ UNCHANGED live

\* A request passes the Origin check; it names a session the map holds with the
\* version it negotiated, or none.  (With another Origin, session or version it
\* is refused and nothing changes.)
Arrive(r, tok) ==
  /\ at[r] = "idle"
  /\ GoTo(r, "auth")
  /\ token' = [token EXCEPT ![r] = tok]
  /\ \/ \E s \in live : Touch(s)
     \/ UNCHANGED <<seen, live>>
  /\ UNCHANGED <<clock, count, mine, reaperVars, issued, drift>>

\* validateBearer refuses: 401.
Unauthorized(r) ==
  /\ at[r] = "auth"
  /\ Validate(token[r], clock) # "ok"
  /\ Answered(r)
  /\ UNCHANGED <<clock, live, seen, count, reaperVars, issued, drift>>

Authorized(r) ==
  /\ at[r] = "auth"
  /\ Validate(token[r], clock) = "ok"
  /\ GoTo(r, "route")
  /\ UNCHANGED <<clock, live, seen, count, mine, token, reaperVars, issued, drift>>

\* tools/list, tools/call, ping, an unknown method or a body that is not JSON.
Serve(r) ==
  /\ at[r] = "route"
  /\ Answered(r)
  /\ UNCHANGED <<clock, live, seen, count, reaperVars, issued, drift>>

\* handleInitialize: the cap is tested on the counter.
TooManySessions(r) ==
  /\ at[r] = "route"
  /\ count >= Cap
  /\ Answered(r)
  /\ UNCHANGED <<clock, live, seen, count, reaperVars, issued, drift>>

Admit(r) ==
  /\ at[r] = "route"
  /\ count < Cap
  /\ \E s \in SessionIds \ issued :
       /\ issued' = issued \cup {s}
       /\ mine' = [mine EXCEPT ![r] = s]
  /\ GoTo(r, "store")
  /\ UNCHANGED <<clock, live, seen, count, token, reaperVars, drift>>

StoreSession(r) ==
  /\ at[r] = "store"
  /\ live' = live \cup {mine[r]}
  /\ seen' = [seen EXCEPT ![mine[r]] = clock]
  /\ GoTo(r, "add")
  /\ UNCHANGED <<clock, count, mine, token, reaperVars, issued, drift>>

CountUp(r) ==
  /\ at[r] = "add"
  /\ count' = count + 1
  /\ Answered(r)
  /\ UNCHANGED <<clock, live, seen, reaperVars, issued, drift>>

-----------------------------------------------------------------------------
(* DELETE /mcp: no token is asked for *)

\* LoadAndDelete; a session that is not there is not an error.
Terminate(r) ==
  /\ at[r] = "idle"
  /\ \E s \in live : live' = live \ {s}
  /\ GoTo(r, "uncount")
  /\ UNCHANGED <<clock, seen, count, mine, token, reaperVars, issued, drift>>

\* Mutation of CountDown: the counter is forgotten.
CountDownForgotten(r) ==
  /\ at[r] = "uncount"
  /\ Answered(r)
  /\ UNCHANGED <<clock, live, seen, count, reaperVars, issued, drift>>

CountDown(r) ==
  /\ at[r] = "uncount"
  /\ count' = count - 1
  /\ Answered(r)
  /\ UNCHANGED <<clock, live, seen, reaperVars, issued, drift>>

-----------------------------------------------------------------------------
(* startReaper *)

SweepDue == clock >= sweptAt + SweepEvery

SweepBegins ==
  /\ reaper = "wait"
  /\ SweepDue
  /\ reaper' = "sweep"
  /\ todo' = live
  /\ sweptAt' = clock
  /\ UNCHANGED <<clock, live, seen, count, at, mine, token, victim, issued, drift>>

\* Mutation of Idle: the comparison is against a deadline twice as late.
IdleLate(s) == sweptAt > seen[s] + 2 * SessionTTL

\* now.After(lastSeen + sessionTTL)
Idle(s) == sweptAt > seen[s] + SessionTTL

Look(s) ==
  /\ reaper = "sweep"
  /\ s \in todo
  /\ todo' = todo \ {s}
  /\ IF s \in live /\ Idle(s)
       THEN reaper' = "delete" /\ victim' = s
       ELSE UNCHANGED <<reaper, victim>>
  /\ UNCHANGED <<clock, live, seen, count, at, mine, token, sweptAt, issued, drift>>

\* sessions.Delete: a DELETE request may have been faster, which goes unnoticed.
Reap ==
  /\ reaper = "delete"
  /\ live' = live \ {victim}
  /\ drift' = IF victim \in live THEN drift ELSE drift + 1
  /\ reaper' = "uncount"
  /\ UNCHANGED <<clock, seen, count, at, mine, token, todo, victim, sweptAt, issued>>

ReapCount ==
  /\ reaper = "uncount"
  /\ count' = count - 1
  /\ victim' = NoSession
  /\ reaper' = "sweep"
  /\ UNCHANGED <<clock, live, seen, at, mine, token, todo, sweptAt, issued, drift>>

SweepEnds ==
  /\ reaper = "sweep"
  /\ todo = {}
  /\ reaper' = "wait"
  /\ UNCHANGED <<clock, live, seen, count, at, mine, token, todo, victim, sweptAt,
                 issued, drift>>

\* The sweep starts on time and takes no time worth a tick.
McpTick ==
  /\ clock < Horizon
  /\ reaper = "wait"
  /\ ~SweepDue
  /\ clock' = clock + 1
  /\ UNCHANGED <<live, seen, count, at, mine, token, reaperVars, issued, drift>>

-----------------------------------------------------------------------------

McpNext ==
  \/ \E r \in Requests :
       \/ \E tok \in Bearers : Arrive(r, tok)
       \/ Unauthorized(r)
       \/ Authorized(r)
       \/ Serve(r)
       \/ TooManySessions(r)
       \/ Admit(r)
       \/ StoreSession(r)
       \/ CountUp(r)
       \/ Terminate(r)
       \/ CountDown(r)
  \/ SweepBegins
  \/ \E s \in SessionIds : Look(s)
  \/ Reap
  \/ ReapCount
  \/ SweepEnds
  \/ McpTick

McpSpec == McpInit /\ [][McpNext]_mcpVars

-----------------------------------------------------------------------------
(* Properties *)

At(where) == {r \in Requests : at[r] = where}

\* Sessions that are gone from the map and not yet from the counter.
Leaving == Cardinality(At("uncount")) + (IF reaper = "uncount" THEN 1 ELSE 0)

\* A client is told that there are too many sessions only if there are: Cap
\* sessions are live, or were until a moment ago.
RefusalsJustified == count >= Cap => Cardinality(live) + Leaving >= Cap

\* The cap is overrun by no more than the requests that passed the test together,
\* and by one session for each that a DELETE and the sweep both counted down.
OvershootBounded ==
  Cardinality(live) <= Cap - 1 + Cardinality(Requests) + drift

\* The hard cap of the session map, with a counter and a map that are not changed
\* together: the counter errs by no more than that in either direction.
CapHonoured == RefusalsJustified /\ OvershootBounded

\* A session that nobody uses is gone after one and a half times its time to live,
\* whatever opened, used or closed sessions while the sweeps ran.
IdleBounded == \A s \in live : clock <= seen[s] + SessionTTL + SweepEvery

=============================================================================
