------------------------------- MODULE Serving -------------------------------
(***************************************************************************)
(* straylight serve, from its first line to its last: the components are   *)
(* built and what undoes each is deferred, server.Run answers requests on  *)
(* the local listener and perhaps on the remote one, a signal or Stop      *)
(* begins the shutdown, and the deferred calls run in reverse order.       *)
(*                                                                         *)
(* A request that reaches its handler may leave a lease, which is the one  *)
(* effect outside the program that the end of the program must undo.  It   *)
(* undoes it for the leases that the lease manager still caches            *)
(* (LeaseManager tells how a lease gets out of its cache).                 *)
(***************************************************************************)
EXTENDS Naturals, Sequences, SequencesExt

CONSTANTS
  Clients,       \* concurrent HTTP requests
  Burst,         \* size of the bucket of a RateLimiter
  Remote         \* RemoteListenAddress is set and buildRemoteServer succeeds

ASSUME ServingAssumption ==
  /\ Burst \in Nat \ {0}
  /\ Remote \in BOOLEAN

VARIABLES
  stage,     \* what serve() does
  deferred,  \* its deferred calls, the last one first to run
  listening, \* Listeners -> what the goroutine of the listener does
  bucket,    \* Listeners -> tokens of the rate limiter
  asked,     \* a signal came, or Stop was called
  timedOut,  \* the context of the shutdown has expired
  handled,   \* Clients -> the listener that a request in its handler came from
  dbUser,    \* Clients -> what became of the lease that OpenBao made for the request
  renewing,  \* the goroutines of StartTokenRenewal, database.Manager and the Engine
  openbao,   \* the child process
  disorderly \* history: the end is not, or not only, the one that serve and Run provide for

serveVars == <<stage, deferred, listening, bucket, asked, timedOut, handled, dbUser,
               renewing, openbao, disorderly>>

Listeners == {"local", "remote"}
Kinds == {"preflight", "foreign", "metadata", "large", "plain"}

Calls == {"cancel", "sup.Stop", "RevokeAll", "dbMgr.Close", "cloudMgr.Close"}

ServeTypeOK ==
  /\ stage \in {"supervisor", "vault", "build", "run", "serving", "local", "remote",
                "unwind", "gone"}
  /\ deferred \in Seq(Calls)
  /\ listening \in [Listeners -> {"off", "opening", "open", "failed"}]
  /\ bucket \in [Listeners -> 0 .. Burst]
  /\ asked \in BOOLEAN /\ timedOut \in BOOLEAN /\ disorderly \in BOOLEAN
  /\ handled \in [Clients -> Listeners \cup {"nowhere"}]
  /\ dbUser \in [Clients -> {"none", "cached", "lost", "asked", "unasked"}]
  /\ renewing \in SUBSET {"token", "leases", "engine"}
  /\ openbao \in {"off", "running", "told", "ended"}

ServeInit ==
  /\ stage = "supervisor"
  /\ deferred = <<>>
  /\ listening = [l \in Listeners |-> "off"]
  /\ bucket = [l \in Listeners |-> Burst]
  /\ asked = FALSE
  /\ timedOut = FALSE
  /\ handled = [c \in Clients |-> "nowhere"]
  /\ dbUser = [c \in Clients |-> "none"]
  /\ renewing = {}
  /\ openbao = "off"
  /\ disorderly = FALSE

netVars == <<listening, bucket, handled>>

-----------------------------------------------------------------------------
(* serve: what is built, and what is deferred to undo it *)

\* The supervisor starts its child; or it does not; or the data directory or the
\* configuration is no good, which is found before the context is made.
StartSupervisor ==
  /\ stage = "supervisor"
  /\ \/ /\ openbao' = "running"
        /\ deferred' = <<"cancel", "sup.Stop">>
        /\ stage' = "vault"
     \/ /\ deferred' \in {<<>>, <<"cancel">>}
        /\ stage' = "unwind"
        /\ UNCHANGED openbao
  /\ UNCHANGED <<netVars, dbUser, asked, timedOut, renewing, disorderly>>

\* WaitForReady and InitializeVault, then StartTokenRenewal.
BringUpVault ==
  /\ stage = "vault"
  /\ \/ openbao = "running" /\ stage' = "build" /\ renewing' = {"token"}
     \/ stage' = "unwind" /\ UNCHANGED renewing
  /\ UNCHANGED <<deferred, netVars, dbUser, asked, timedOut, openbao, disorderly>>

\* The registry, the database manager and the cloud manager; none of it fails.
Build ==
  /\ stage = "build"
  /\ deferred' = deferred \o <<"RevokeAll", "dbMgr.Close", "cloudMgr.Close">>
  /\ renewing' = renewing \cup {"leases", "engine"}
  /\ stage' = "run"
  /\ UNCHANGED <<netVars, dbUser, asked, timedOut, openbao, disorderly>>

\* Run: each listener has a goroutine.
StartListeners ==
  /\ stage = "run"
  /\ listening' = [l \in Listeners |->
       IF l = "local" \/ Remote THEN "opening" ELSE "off"]
  /\ stage' = "serving"
  /\ UNCHANGED <<deferred, bucket, asked, timedOut, handled, dbUser, renewing, openbao,
                 disorderly>>

\* No request comes any more, and the bucket that nobody asks fills up.
Closes(l, how) ==
  /\ listening' = [listening EXCEPT ![l] = how]
  /\ bucket' = [bucket EXCEPT ![l] = Burst]

\* ListenAndServe opens the port, or returns an error, at once or later.
Listen(l) ==
  /\ listening[l] = "opening"
  /\ listening' = [listening EXCEPT ![l] = "open"]
  /\ UNCHANGED <<stage, deferred, bucket, asked, timedOut, handled, dbUser, renewing,
                 openbao, disorderly>>

ListenFails(l) ==
  /\ listening[l] \in {"opening", "open"}
  /\ Closes(l, "failed")
  /\ UNCHANGED <<stage, deferred, asked, timedOut, handled, dbUser, renewing,
                 openbao, disorderly>>

\* SIGTERM, SIGINT or Stop.
AskToStop ==
  /\ stage \in {"run", "serving"}
  /\ ~asked
  /\ asked' = TRUE
  /\ UNCHANGED <<stage, deferred, netVars, dbUser, timedOut, renewing, openbao,
                 disorderly>>

-----------------------------------------------------------------------------
(* The middleware chain of a listener *)

\* The CORS middleware answers every OPTIONS request itself.
CORSAnswers(kind) == kind = "preflight"

\* OriginValidate refuses an origin that is not allowed, but for the public metadata.
OriginRefuses(kind) == kind = "foreign"

\* applyMiddlewareChain and buildRemoteServer: what reaches the rate limiter.  No refusal
\* of an origin costs a token.
LocalChain(kind) == ~CORSAnswers(kind)
RemoteChain(kind) == ~OriginRefuses(kind)

\* RateLimiter: Limiter.Allow takes a token or refuses.
Allow(l) ==
  /\ bucket[l] > 0
  /\ bucket' = [bucket EXCEPT ![l] = @ - 1]

\* MaxBodySize: the request has cost its token.
BodyTooLarge(kind) == kind = "large"

Arrive(c, l, kind) ==
  /\ handled[c] = "nowhere"
  /\ listening[l] = "open"
  /\ IF l = "local" THEN LocalChain(kind) ELSE RemoteChain(kind)
  /\ Allow(l)
  /\ handled' = IF BodyTooLarge(kind) THEN handled ELSE [handled EXCEPT ![c] = l]
  /\ UNCHANGED <<stage, deferred, listening, asked, timedOut, dbUser, renewing, openbao,
                 disorderly>>

\* Limiter.Allow adds the tokens of the time that has passed.
Refill(l) ==
  /\ listening[l] = "open"
  /\ bucket[l] < Burst
  /\ bucket' = [bucket EXCEPT ![l] = @ + 1]
  /\ UNCHANGED <<stage, deferred, listening, asked, timedOut, handled, dbUser, renewing,
                 openbao, disorderly>>

\* OpenBao answers until it has ended, though it was told to end.
OpenBaoUp == openbao \in {"running", "told"}

Cached == {c \in Clients : dbUser[c] = "cached"}

\* The handler is db_query and OpenBao makes a user for it.  GetCredentials cannot use
\* the answer, or it stores the lease, perhaps in the place of another of its key.
TakeLease(c) ==
  /\ handled[c] # "nowhere"
  /\ OpenBaoUp
  /\ dbUser[c] = "none"
  /\ \/ dbUser' = [dbUser EXCEPT ![c] = "lost"]
     \/ \E old \in {c} \cup Cached : dbUser' = [dbUser EXCEPT ![old] = "lost", ![c] = "cached"]
  /\ UNCHANGED <<stage, deferred, netVars, asked, timedOut, renewing, openbao, disorderly>>

\* The renewal of a lease has failed, or Get finds it expired: it leaves the cache.
DropLease(c) ==
  /\ stage # "gone"
  /\ c \in Cached
  /\ dbUser' = [dbUser EXCEPT ![c] = "lost"]
  /\ UNCHANGED <<stage, deferred, netVars, asked, timedOut, renewing, openbao, disorderly>>

Answered(c) ==
  /\ handled[c] # "nowhere"
  /\ handled' = [handled EXCEPT ![c] = "nowhere"]
  /\ UNCHANGED <<stage, deferred, listening, bucket, asked, timedOut, dbUser, renewing,
                 openbao, disorderly>>

-----------------------------------------------------------------------------
(* Run: the shutdown *)

InHandlersOf(l) == {c \in Clients : handled[c] = l}

\* The select: the local listener has failed, and Run returns at once.
ServeFails ==
  /\ stage = "serving"
  /\ listening["local"] = "failed"
  /\ stage' = "unwind"
  /\ disorderly' = TRUE
  /\ UNCHANGED <<deferred, netVars, dbUser, asked, timedOut, renewing, openbao>>

\* The select: quit or stopCh.  httpServer.Shutdown closes the listener and waits.
BeginShutdown ==
  /\ stage = "serving"
  /\ asked
  /\ Closes("local", "off")
  /\ stage' = "local"
  /\ UNCHANGED <<deferred, asked, timedOut, handled, dbUser, renewing, openbao,
                 disorderly>>

LocalDrained ==
  /\ stage = "local"
  /\ InHandlersOf("local") = {}
  /\ IF Remote
       THEN stage' = "remote" /\ Closes("remote", "off")
       ELSE stage' = "unwind" /\ UNCHANGED <<listening, bucket>>
  /\ UNCHANGED <<deferred, asked, timedOut, handled, dbUser, renewing, openbao,
                 disorderly>>

\* Mutation of ShutdownExpires: the context of the shutdown has no deadline.
ShutdownUnlimited ==
  /\ stage \in {"local", "remote"}
  /\ timedOut
  /\ UNCHANGED serveVars

\* shutdownTimeout, one context for both servers.
ShutdownExpires ==
  /\ stage \in {"local", "remote"}
  /\ ~timedOut
  /\ timedOut' = TRUE
  /\ UNCHANGED <<stage, deferred, netVars, dbUser, asked, renewing, openbao, disorderly>>

\* Shutdown of the local server returns the error of the context, and so does Run: the
\* remote server is not shut down at all.
LocalTimesOut ==
  /\ stage = "local"
  /\ timedOut
  /\ stage' = "unwind"
  /\ disorderly' = TRUE
  /\ UNCHANGED <<deferred, netVars, dbUser, asked, timedOut, renewing, openbao>>

RemoteDrained ==
  /\ stage = "remote"
  /\ InHandlersOf("remote") = {}
  /\ stage' = "unwind"
  /\ UNCHANGED <<deferred, netVars, dbUser, asked, timedOut, renewing, openbao, disorderly>>

RemoteTimesOut ==
  /\ stage = "remote"
  /\ timedOut
  /\ stage' = "unwind"
  /\ disorderly' = TRUE
  /\ UNCHANGED <<deferred, netVars, dbUser, asked, timedOut, renewing, openbao>>

-----------------------------------------------------------------------------
(* The deferred calls *)

\* RevokeAll empties the cache, asks OpenBao to revoke each lease that was in it and
\* goes on whatever the answer is.
RevokeAllLeases ==
  dbUser' = [c \in Clients |->
    IF c \in Cached THEN IF OpenBaoUp THEN "asked" ELSE "unasked" ELSE dbUser[c]]

\* Supervisor.Stop interrupts its child, or kills it, and does not wait for its end.
TellOpenBao == openbao' = IF openbao = "running" THEN "told" ELSE openbao

\* "cancel" ends the context of the token renewal and of the command that is the child.
RunDeferred(call) ==
  CASE call = "cloudMgr.Close" -> /\ renewing' = renewing \ {"engine"}
                                  /\ UNCHANGED <<dbUser, openbao>>
    [] call = "dbMgr.Close"    -> /\ renewing' = renewing \ {"leases"}
                                  /\ UNCHANGED <<dbUser, openbao>>
    [] call = "RevokeAll"      -> /\ RevokeAllLeases
                                  /\ UNCHANGED <<renewing, openbao>>
    [] call = "sup.Stop"       -> /\ TellOpenBao
                                  /\ UNCHANGED <<dbUser, renewing>>
    [] call = "cancel"         -> /\ renewing' = renewing \ {"token"}
                                  /\ TellOpenBao
                                  /\ UNCHANGED dbUser

\* Mutation of Unwind: what was deferred first runs first.
UnwindForwards ==
  /\ stage = "unwind"
  /\ deferred # <<>>
  /\ RunDeferred(Head(deferred))
  /\ deferred' = Tail(deferred)
  /\ UNCHANGED <<stage, netVars, asked, timedOut, disorderly>>

\* Requests that are still in their handlers, and the remote listener, go on meanwhile.
Unwind ==
  /\ stage = "unwind"
  /\ deferred # <<>>
  /\ RunDeferred(Last(deferred))
  /\ deferred' = Front(deferred)
  /\ UNCHANGED <<stage, netVars, asked, timedOut, disorderly>>

\* The process ends, with all that still runs in it.
Ended ==
  /\ stage' = "gone"
  /\ handled' = [c \in Clients |-> "nowhere"]
  /\ listening' = [l \in Listeners |-> "off"]
  /\ bucket' = [l \in Listeners |-> Burst]

Return ==
  /\ stage = "unwind"
  /\ deferred = <<>>
  /\ Ended
  /\ UNCHANGED <<deferred, asked, timedOut, dbUser, renewing, openbao, disorderly>>

-----------------------------------------------------------------------------
(* What comes from outside *)

\* A child that was told to end ends.  Nobody is told of one that ends by itself.
OpenBaoEnds ==
  /\ OpenBaoUp
  /\ openbao' = "ended"
  /\ disorderly' = (disorderly \/ openbao = "running")
  /\ UNCHANGED <<stage, deferred, netVars, dbUser, asked, timedOut, renewing>>

\* Run alone listens to signals: one that comes before signal.Notify, or again after Run
\* has returned, ends the process where it is, and so does SIGKILL at any time.  The
\* child is not told.
Killed ==
  /\ stage # "gone"
  /\ Ended
  /\ disorderly' = TRUE
  /\ deferred' = <<>>
  /\ renewing' = {}
  /\ UNCHANGED <<dbUser, asked, timedOut, openbao>>

-----------------------------------------------------------------------------

\* The goroutine of serve().
Main ==
  \/ StartSupervisor
  \/ BringUpVault
  \/ Build
  \/ StartListeners
  \/ ServeFails
  \/ BeginShutdown
  \/ LocalDrained
  \/ LocalTimesOut
  \/ RemoteDrained
  \/ RemoteTimesOut
  \/ Unwind
  \/ Return

ServeNext ==
  \/ Main
  \/ ShutdownExpires
  \/ AskToStop
  \/ OpenBaoEnds
  \/ Killed
  \/ \E l \in Listeners :
       \/ Listen(l)
       \/ ListenFails(l)
       \/ Refill(l)
       \/ \E c \in Clients, kind \in Kinds : Arrive(c, l, kind)
  \/ \E c \in Clients : TakeLease(c) \/ DropLease(c) \/ Answered(c)

\* The program goes on and its timer fires.  Nothing is assumed of the requests: a
\* handler may never return.
ServeFairness == WF_serveVars(Main) /\ WF_serveVars(ShutdownExpires)

ServeSpec == ServeInit /\ [][ServeNext]_serveVars /\ ServeFairness

-----------------------------------------------------------------------------
(* Properties *)

\* A program that was asked to stop, whose requests returned in time and which nobody
\* killed meanwhile, has told OpenBao to end and stopped its goroutines, and has asked
\* an OpenBao that still ran to revoke every lease that it had in its cache.  The leases
\* that live on are those that OpenBao refused to revoke and those that the cache had
\* lost before (ShutdownLeavesNoLiveLease of LeaseManager shows how that comes).
OrderlyStopLeavesNothing ==
  stage = "gone" /\ ~disorderly =>
    /\ openbao # "running"
    /\ renewing = {}
    /\ \A c \in Clients : dbUser[c] \notin {"cached", "unasked"}

\* A program that is asked to stop ends, although its requests may never return.
StopEnds == asked ~> stage = "gone"

=============================================================================
