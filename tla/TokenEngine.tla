----------------------------- MODULE TokenEngine -----------------------------
(***************************************************************************)
(* tokenexchange.Engine (internal/tokenexchange/engine.go): a cache of     *)
(* exchanged credentials with single-flight misses, proactive background   *)
(* refresh, explicit invalidation and a refresh loop.                      *)
(*                                                                         *)
(* cacheMu and inflightMu are two locks: every critical section of either  *)
(* is one step and the exchange with the identity source and the provider  *)
(* happens between steps.  A cache entry is named by the credential it     *)
(* was made for, since no credential is ever stored twice.                 *)
(***************************************************************************)
EXTENDS Naturals, FiniteSets

CONSTANTS
  Threads,         \* goroutines that call Credential
  Keys,            \* cache keys
  Creds,           \* credentials providers can mint (bounds the exchanges)
  None,            \* no entry, no flight, no credential
  Failed,          \* the outcome of a failed exchange
  MaxInvalidations \* bound on the calls of Invalidate that epoch counts

ASSUME EngineAssumption ==
  /\ None \notin Creds \cup Keys \cup Threads \cup {Failed}
  /\ Failed \notin Creds
  /\ MaxInvalidations \in Nat

VARIABLES
  cache,       \* Engine.cache: key -> entry, named by its credential, or None
  estate,      \* cacheEntry.state ("none": not stored)
  phase,       \* cred.ExpiresAt relative to now and the refresh window
  mintedFor,   \* key a credential was exchanged for, None if not minted yet
  epoch,       \* invalidations that found no exchange of the key under way
  born,        \* epoch of its key when a credential was minted
  inflight,    \* Engine.inflight: key -> the thread that leads the flight
  pc, key, got,\* a Credential call: where it is, its key, what it holds
  since,       \* epoch of the key when its call began
  refresher,   \* the backgroundRefresh goroutine of an entry
  fresh,       \* what that goroutine got from the exchange
  loop,        \* where refreshLoop is
  picked,      \* keys checkAndRefresh collected
  lapsed,      \* entries already expired at the `now` of checkAndRefresh
  engine       \* lifecycle of the engine

vars == <<cache, estate, phase, mintedFor, epoch, born, inflight, pc, key, got,
          since, refresher, fresh, loop, picked, lapsed, engine>>

entryVars  == <<cache, estate>>
credVars   == <<mintedFor, born>>
callVars   == <<pc, key, got, since>>
bgVars     == <<refresher, fresh>>
loopVars   == <<loop, picked, lapsed>>

-----------------------------------------------------------------------------

TypeOK ==
  /\ cache \in [Keys -> Creds \cup {None}]
  /\ estate \in [Creds -> {"none", "active", "refreshing"}]
  /\ phase \in [Creds -> {"fresh", "due", "expired"}]
  /\ mintedFor \in [Creds -> Keys \cup {None}]
  /\ epoch \in [Keys -> 0 .. MaxInvalidations]
  /\ born \in [Creds -> 0 .. MaxInvalidations]
  /\ inflight \in [Keys -> Threads \cup {None}]
  /\ pc \in [Threads -> {"idle", "trigger", "hit", "flight", "exchange",
                         "wait", "publish", "store", "answered"}]
  /\ key \in [Threads -> Keys \cup {None}]
  /\ got \in [Threads -> Creds \cup {None, Failed}]
  /\ since \in [Threads -> 0 .. MaxInvalidations]
  /\ refresher \in [Creds -> {"none", "exchange", "apply"}]
  /\ fresh \in [Creds -> Creds \cup {None}]
  /\ loop \in {"idle", "mark", "stopped"}
  /\ picked \in SUBSET Keys
  /\ lapsed \in SUBSET Creds
  /\ engine \in {"open", "closing", "closed"}

Init ==
  /\ cache = [k \in Keys |-> None]
  /\ estate = [c \in Creds |-> "none"]
  /\ phase = [c \in Creds |-> "fresh"]
  /\ mintedFor = [c \in Creds |-> None]
  /\ epoch = [k \in Keys |-> 0]
  /\ born = [c \in Creds |-> 0]
  /\ inflight = [k \in Keys |-> None]
  /\ pc = [t \in Threads |-> "idle"]
  /\ key = [t \in Threads |-> None]
  /\ got = [t \in Threads |-> None]
  /\ since = [t \in Threads |-> 0]
  /\ refresher = [c \in Creds |-> "none"]
  /\ fresh = [c \in Creds |-> None]
  /\ loop = "idle"
  /\ picked = {}
  /\ lapsed = {}
  /\ engine = "open"

Cached(c) == \E k \in Keys : cache[k] = c

\* A provider answers an exchange for key k with a new credential.
Mint(c, k) ==
  /\ mintedFor[c] = None
  /\ mintedFor' = [mintedFor EXCEPT ![c] = k]
  /\ born' = [born EXCEPT ![c] = epoch[k]]

\* A new entry for credential c replaces what key k holds.
Put(k, c) ==
  /\ cache' = [cache EXCEPT ![k] = c]
  /\ estate' = [estate EXCEPT ![c] = "active"]

-----------------------------------------------------------------------------
(* Credential *)

\* Step 3, the lookup under RLock: a hit inside the refresh window goes on to
\* trigger a refresh, any other hit answers, a miss looks for a flight.
Lookup(t, k) ==
  /\ pc[t] = "idle"
  /\ key' = [key EXCEPT ![t] = k]
  /\ since' = [since EXCEPT ![t] = epoch[k]]
  /\ LET c == cache[k] IN
       \/ /\ c # None
          /\ phase[c] # "expired"
          /\ got' = [got EXCEPT ![t] = c]
          /\ pc' = [pc EXCEPT ![t] = IF phase[c] = "due" THEN "trigger"
                                                        ELSE "hit"]
       \/ /\ c # None => phase[c] = "expired"
          /\ pc' = [pc EXCEPT ![t] = "flight"]
          /\ UNCHANGED got
  /\ UNCHANGED <<entryVars, phase, epoch, credVars, inflight, bgVars, loopVars,
                 engine>>

\* Mutation of Trigger: it does not look at the state of the entry.
TriggerAlways(t) ==
  /\ pc[t] = "trigger"
  /\ estate' = [estate EXCEPT ![got[t]] = "refreshing"]
  /\ refresher' = [refresher EXCEPT ![got[t]] = "exchange"]
  /\ pc' = [pc EXCEPT ![t] = "hit"]
  /\ UNCHANGED <<cache, phase, epoch, credVars, inflight, key, got, since, fresh,
                 loopVars, engine>>

\* triggerBackgroundRefresh on the entry the lookup saw, replaced or not.
Trigger(t) ==
  /\ pc[t] = "trigger"
  /\ LET c == got[t] IN
       IF estate[c] = "active"
         THEN /\ estate' = [estate EXCEPT ![c] = "refreshing"]
              /\ refresher' = [refresher EXCEPT ![c] = "exchange"]
         ELSE UNCHANGED <<estate, refresher>>
  /\ pc' = [pc EXCEPT ![t] = "hit"]
  /\ UNCHANGED <<cache, phase, epoch, credVars, inflight, key, got, since, fresh,
                 loopVars, engine>>

\* Step 4, under inflightMu: join the flight of the key or lead a new one.
Join(t) ==
  /\ pc[t] = "flight"
  /\ inflight[key[t]] # None
  /\ pc' = [pc EXCEPT ![t] = "wait"]
  /\ UNCHANGED <<entryVars, phase, epoch, credVars, inflight, key, got, since,
                 bgVars, loopVars, engine>>

\* Mutation of Lead: the flight is looked up and registered under two locks.
LeadUnchecked(t) ==
  /\ pc[t] = "flight"
  /\ inflight' = [inflight EXCEPT ![key[t]] = t]
  /\ pc' = [pc EXCEPT ![t] = "exchange"]
  /\ UNCHANGED <<entryVars, phase, epoch, credVars, key, got, since, bgVars,
                 loopVars, engine>>

Lead(t) ==
  /\ pc[t] = "flight"
  /\ inflight[key[t]] = None
  /\ inflight' = [inflight EXCEPT ![key[t]] = t]
  /\ pc' = [pc EXCEPT ![t] = "exchange"]
  /\ UNCHANGED <<entryVars, phase, epoch, credVars, key, got, since, bgVars,
                 loopVars, engine>>

\* Step 5, doExchange: identity proof, then the provider.  Either may fail.
Exchange(t) ==
  /\ pc[t] = "exchange"
  /\ \/ \E c \in Creds : /\ Mint(c, key[t])
                         /\ got' = [got EXCEPT ![t] = c]
     \/ /\ got' = [got EXCEPT ![t] = Failed]
        /\ UNCHANGED credVars
  /\ pc' = [pc EXCEPT ![t] = "publish"]
  /\ UNCHANGED <<entryVars, phase, epoch, inflight, key, since, bgVars, loopVars,
                 engine>>

\* Who the leader t tells its outcome to: itself and the waiters of its key.
Told(t) == {t} \cup {u \in Threads : pc[u] = "wait" /\ key[u] = key[t]}

\* Mutations of Publish: an error returns before the flight is dropped; the
\* waiters are not released.
PublishKeepsFailedFlight(t) ==
  /\ pc[t] = "publish"
  /\ inflight' = [inflight EXCEPT ![key[t]] = IF got[t] = Failed THEN @ ELSE None]
  /\ pc' = [pc EXCEPT ![t] = IF got[t] = Failed THEN "answered" ELSE "store"]
  /\ UNCHANGED <<entryVars, phase, epoch, credVars, key, got, since, bgVars,
                 loopVars, engine>>
PublishToLeader(t) ==
  /\ pc[t] = "publish"
  /\ inflight' = [inflight EXCEPT ![key[t]] = None]
  /\ pc' = [pc EXCEPT ![t] = IF got[t] = Failed THEN "answered" ELSE "store"]
  /\ UNCHANGED <<entryVars, phase, epoch, credVars, key, got, since, bgVars,
                 loopVars, engine>>

\* Step 6, under inflightMu: drop the flight and release the waiters, who
\* read nothing but the leader's outcome from then on.
Publish(t) ==
  /\ pc[t] = "publish"
  /\ inflight' = [inflight EXCEPT ![key[t]] = None]
  /\ got' = [u \in Threads |-> IF u \in Told(t) THEN got[t] ELSE got[u]]
  /\ pc' = [u \in Threads |->
              IF u = t /\ got[t] # Failed THEN "store"
              ELSE IF u \in Told(t) THEN "answered" ELSE pc[u]]
  /\ UNCHANGED <<entryVars, phase, epoch, credVars, key, since, bgVars, loopVars,
                 engine>>

\* ... and only then, under cacheMu, store the credential.
Store(t) ==
  /\ pc[t] = "store"
  /\ Put(key[t], got[t])
  /\ pc' = [pc EXCEPT ![t] = "answered"]
  /\ UNCHANGED <<phase, epoch, credVars, inflight, key, got, since, bgVars,
                 loopVars, engine>>

\* Credential has returned to its caller.
Return(t) ==
  /\ pc[t] \in {"hit", "answered"}
  /\ pc' = [pc EXCEPT ![t] = "idle"]
  /\ key' = [key EXCEPT ![t] = None]
  /\ got' = [got EXCEPT ![t] = None]
  /\ since' = [since EXCEPT ![t] = 0]
  /\ UNCHANGED <<entryVars, phase, epoch, credVars, inflight, bgVars, loopVars,
                 engine>>

-----------------------------------------------------------------------------
(* backgroundRefresh of entry c *)

RefreshExchange(c) ==
  /\ refresher[c] = "exchange"
  /\ \E d \in Creds : /\ Mint(d, mintedFor[c])
                      /\ fresh' = [fresh EXCEPT ![c] = d]
  /\ refresher' = [refresher EXCEPT ![c] = "apply"]
  /\ UNCHANGED <<entryVars, phase, epoch, inflight, callVars, loopVars,
                 engine>>

\* Mutation of RefreshApply: it looks for an active entry to replace.
RefreshAppliesToActive(c) ==
  /\ refresher[c] = "apply"
  /\ LET k == mintedFor[c] IN
       IF cache[k] = None \/ estate[cache[k]] = "active"
         THEN Put(k, fresh[c])
         ELSE UNCHANGED entryVars
  /\ refresher' = [refresher EXCEPT ![c] = "none"]
  /\ fresh' = [fresh EXCEPT ![c] = None]
  /\ UNCHANGED <<phase, epoch, credVars, inflight, callVars, loopVars, engine>>

\* The fresh credential goes into the cache when the key holds an entry that
\* is refreshing, or none; otherwise it is dropped.
RefreshApply(c) ==
  /\ refresher[c] = "apply"
  /\ LET k == mintedFor[c] IN
       IF cache[k] = None \/ estate[cache[k]] = "refreshing"
         THEN Put(k, fresh[c])
         ELSE UNCHANGED entryVars
  /\ refresher' = [refresher EXCEPT ![c] = "none"]
  /\ fresh' = [fresh EXCEPT ![c] = None]
  /\ UNCHANGED <<phase, epoch, credVars, inflight, callVars, loopVars, engine>>

\* The exchange failed: the key is deleted, whatever entry it holds.
RefreshFails(c) ==
  /\ refresher[c] = "exchange"
  /\ cache' = [cache EXCEPT ![mintedFor[c]] = None]
  /\ refresher' = [refresher EXCEPT ![c] = "none"]
  /\ UNCHANGED <<estate, phase, epoch, credVars, inflight, callVars, fresh,
                 loopVars, engine>>

-----------------------------------------------------------------------------
(* checkAndRefresh *)

\* Phase 1 under RLock: the keys whose entry is in the window.  What has
\* already expired at `now` is remembered, as phase 2 compares with that now.
Collect ==
  /\ loop = "idle"
  /\ picked' = {k \in Keys : /\ cache[k] # None
                             /\ estate[cache[k]] = "active"
                             /\ phase[cache[k]] # "fresh"}
  /\ lapsed' = IF picked' = {} THEN {}
               ELSE {c \in Creds : Cached(c) /\ phase[c] = "expired"}
  /\ loop' = IF picked' = {} THEN "idle" ELSE "mark"
  /\ UNCHANGED <<entryVars, phase, epoch, credVars, inflight, callVars, bgVars,
                 engine>>

\* Phase 2 marks what the picked keys hold now, if it is active and was not
\* expired then; phase 3 starts a goroutine for each.
ToRefresh ==
  {c \in Creds : /\ \E k \in picked : cache[k] = c
                 /\ estate[c] = "active"
                 /\ c \notin lapsed}

Mark ==
  /\ loop = "mark"
  /\ estate' = [c \in Creds |-> IF c \in ToRefresh THEN "refreshing" ELSE estate[c]]
  /\ refresher' = [c \in Creds |-> IF c \in ToRefresh THEN "exchange" ELSE refresher[c]]
  /\ loop' = "idle"
  /\ picked' = {}
  /\ lapsed' = {}
  /\ UNCHANGED <<cache, phase, epoch, credVars, inflight, callVars, fresh, engine>>

LoopStops ==
  /\ loop = "idle"
  /\ engine = "closing"
  /\ loop' = "stopped"
  /\ UNCHANGED <<entryVars, phase, epoch, credVars, inflight, callVars, bgVars,
                 picked, lapsed, engine>>

-----------------------------------------------------------------------------
(* Invalidate, Close, time *)

\* An exchange for key k was asked for and its result is not in the cache yet.
UnderWay(k) ==
  \/ \E t \in Threads : key[t] = k /\ pc[t] \in {"exchange", "publish", "store"}
  \/ \E c \in Creds : mintedFor[c] = k /\ refresher[c] # "none"

\* The bookkeeping of an invalidation.
CountInvalidation(k) ==
  \/ /\ UnderWay(k)
     /\ UNCHANGED epoch
  \/ /\ ~UnderWay(k)
     /\ \A j \in Keys : epoch[j] < MaxInvalidations
     /\ epoch' = [epoch EXCEPT ![k] = @ + 1]

\* Mutation of Invalidate: only an entry that has expired is dropped.
InvalidateExpired(k) ==
  /\ CountInvalidation(k)
  /\ cache' = [cache EXCEPT ![k] = IF @ # None /\ phase[@] # "expired" THEN @ ELSE None]
  /\ UNCHANGED <<estate, phase, credVars, inflight, callVars, bgVars, loopVars,
                 engine>>

Invalidate(k) ==
  /\ CountInvalidation(k)
  /\ cache' = [cache EXCEPT ![k] = None]
  /\ UNCHANGED <<estate, phase, credVars, inflight, callVars, bgVars, loopVars,
                 engine>>

\* The program closes the engine once.
Close ==
  /\ engine = "open"
  /\ engine' = "closing"
  /\ UNCHANGED <<entryVars, phase, epoch, credVars, inflight, callVars, bgVars,
                 loopVars>>

CloseReturns ==
  /\ engine = "closing"
  /\ loop = "stopped"
  /\ engine' = "closed"
  /\ UNCHANGED <<entryVars, phase, epoch, credVars, inflight, callVars, bgVars,
                 loopVars>>

\* Nothing reads the expiry of a credential outside the cache.
Age(c) ==
  /\ Cached(c)
  /\ phase[c] # "expired"
  /\ phase' = [phase EXCEPT ![c] = IF @ = "fresh" THEN "due" ELSE "expired"]
  /\ UNCHANGED <<entryVars, epoch, credVars, inflight, callVars, bgVars, loopVars,
                 engine>>

-----------------------------------------------------------------------------

CallStep(t) ==
  \/ Trigger(t) \/ Join(t) \/ Lead(t) \/ Exchange(t)
  \/ Publish(t) \/ Store(t) \/ Return(t)

RefreshStep(c) == RefreshExchange(c) \/ RefreshApply(c) \/ RefreshFails(c)

Next ==
  \/ \E t \in Threads : CallStep(t) \/ \E k \in Keys : Lookup(t, k)
  \/ \E c \in Creds : RefreshStep(c) \/ Age(c)
  \/ Collect \/ Mark \/ LoopStops
  \/ \E k \in Keys : Invalidate(k)
  \/ Close \/ CloseReturns

Spec == Init /\ [][Next]_vars

\* Goroutines are scheduled and exchanges return: the adapters' HTTP clients
\* have timeouts.
Fairness ==
  /\ \A t \in Threads : WF_vars(CallStep(t))
  /\ \A c \in Creds : WF_vars(RefreshStep(c))
  /\ WF_vars(Collect) /\ WF_vars(Mark)
  /\ SF_vars(LoopStops) /\ WF_vars(CloseReturns)

FairSpec == Spec /\ Fairness

-----------------------------------------------------------------------------
(* What holds *)

\* The calls that miss the cache form single-flight groups: one exchange per
\* key, joined by every caller until it lands, one outcome for all of them.
Flight == INSTANCE SingleFlight WITH
  Callers  <- Threads,
  Outcomes <- Creds \cup {Failed},
  group    <- [k \in Keys |-> {t \in Threads :
                 key[t] = k /\ pc[t] \in {"exchange", "publish", "wait"}}],
  outcome  <- [t \in Threads |->
                 IF pc[t] \in {"store", "answered"} THEN got[t] ELSE None]

\* Engine.Credential implements the single-flight group.
IsSingleFlight == Flight!Spec

\* Credentials never cross cache keys, whoever exchanged, refreshed, joined
\* or stored them.
KeyIsolation ==
  /\ \A k \in Keys : cache[k] # None => mintedFor[cache[k]] = k
  /\ \A t \in Threads : got[t] \in Creds => mintedFor[got[t]] = key[t]

\* No cached entry is stuck in entryRefreshing: its goroutine is running.  A
\* stuck entry would never be refreshed again.
RefreshingAttended ==
  \A k \in Keys : cache[k] # None /\ estate[cache[k]] = "refreshing" =>
    refresher[cache[k]] # "none"

\* Triggered by a request or by the loop, an entry gets at most one background
\* exchange in its life, although both look at it without a lock first: once
\* refreshing it stays so, and no further exchange starts for it.
OneRefreshPerEntry ==
  [][\A c \in Creds : estate[c] = "refreshing" =>
       /\ estate'[c] = "refreshing"
       /\ refresher[c] # "exchange" => refresher'[c] # "exchange"]_vars

\* A flight is registered under a key exactly as long as one thread leads it,
\* so an abandoned registration can never block the key.
FlightHasLeader ==
  \A k \in Keys :
    {t \in Threads : key[t] = k /\ pc[t] \in {"exchange", "publish"}}
      = IF inflight[k] = None THEN {} ELSE {inflight[k]}

\* Invalidate, "forcing a fresh exchange on the next Credential() call", does so
\* when no exchange of its key is under way: neither the dropped entry nor any
\* credential older than it answers a call that begins afterwards.  (An exchange
\* under way puts its result into the cache after the invalidation.)
InvalidateForcesExchange ==
  \A t \in Threads : pc[t] \in {"hit", "answered"} /\ got[t] \in Creds
                       => born[got[t]] >= since[t]

\* Every call that misses the cache returns.
MissReturns == \A t \in Threads : pc[t] \in {"flight", "wait"} ~> pc[t] = "answered"

\* A background refresh ends with a new entry, none, or the newer one of
\* another goroutine; it never leaves its entry refreshing in the cache.
RefreshSettles ==
  \A c \in Creds :
    Cached(c) /\ estate[c] = "refreshing" ~> ~(Cached(c) /\ estate[c] = "refreshing")

=============================================================================
