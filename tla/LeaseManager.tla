---------------------------- MODULE LeaseManager ----------------------------
(***************************************************************************)
(* The lease cache of dynamic database credentials                         *)
(* (internal/lease/cache.go), the read-through path that fills it          *)
(* (database.Manager.GetCredentials) and the shutdown that empties it      *)
(* (the deferred calls of cmd/straylight/main.go), against the lease       *)
(* table of the external OpenBao vault.                                    *)
(*                                                                         *)
(* Every critical section of Manager.mu and every vault call is one step,  *)
(* so request goroutines, the renewal loop, its renewal goroutines and the *)
(* shutdown interleave exactly where the code releases the lock or waits   *)
(* for the vault.  Time is abstracted to the phase of a lease: the lease   *)
(* is outside the renewal window, inside it, or past ExpiresAt.            *)
(***************************************************************************)
EXTENDS FiniteSets

CONSTANTS
  Threads,   \* request goroutines that call GetCredentials
  Services,  \* configured database services
  Roles,     \* database roles a caller may name
  Leases,    \* lease ids the vault can issue (bounds the number of issues)
  None,      \* absence of a lease or of a key
  Drained    \* TRUE: the HTTP server drained its handlers before shutdown

ASSUME LeaseAssumption ==
  /\ None \notin Leases
  /\ None \notin Services \X Roles
  /\ Drained \in BOOLEAN

VARIABLES
  cache,       \* Manager.leases: key -> cached lease, or None
  state,       \* Lease.State of the object made for a lease ("none": no object)
  phase,       \* Lease.ExpiresAt of that object, relative to now
  vault,       \* the vault's view of a lease
  issuedFor,   \* <<service, role>> the vault issued a lease for
  pc,          \* where a request goroutine is inside GetCredentials
  asked,       \* the <<service, role>> it asked for
  got,         \* the lease it holds: about to be stored, or its answer
  loop,        \* where renewalLoop is
  candidates,  \* the leases checkAndRenew collected
  renewer,     \* the renewLease goroutine of a lease
  shut,        \* progress of the deferred shutdown calls
  cut,         \* leases RevokeAll took out of the cache
  toRevoke,    \* leases taken out of the cache and not yet sent to the vault
  revokeErr    \* leases whose revocation call failed

vars == <<cache, state, phase, vault, issuedFor, pc, asked, got, loop,
          candidates, renewer, shut, cut, toRevoke, revokeErr>>

reqVars   == <<pc, asked, got>>
loopVars  == <<loop, candidates>>
shutVars  == <<shut, cut, toRevoke, revokeErr>>
leaseVars == <<state, phase, vault, issuedFor>>

-----------------------------------------------------------------------------

Keys == Services \X Roles

\* The map key of a service/role pair.
CacheKey(s, r) == <<s, r>>

Cached(l) == \E k \in Keys : cache[k] = l

\* A new Lease object is made by Store: it may already be inside the renewal
\* window when the role's TTL is short, and so may a renewed lease that the
\* vault capped at its maximum TTL.
NewPhases == {"fresh", "due"}

TypeOK ==
  /\ cache \in [Keys -> Leases \cup {None}]
  /\ state \in [Leases -> {"none", "active", "renewing"}]
  /\ phase \in [Leases -> {"fresh", "due", "expired"}]
  /\ vault \in [Leases -> {"free", "live", "expired", "revoked"}]
  /\ issuedFor \in [Leases -> Keys \cup {None}]
  /\ pc \in [Threads -> {"idle", "prune", "provision", "store", "query"}]
  /\ asked \in [Threads -> Keys \cup {None}]
  /\ got \in [Threads -> Leases \cup {None}]
  /\ loop \in {"idle", "mark", "dispatch", "stopped"}
  /\ candidates \in SUBSET Leases
  /\ renewer \in [Leases -> {"none", "call", "ok"}]
  /\ shut \in {"running", "closing", "closed", "revoking", "revoked"}
  /\ cut \in SUBSET Leases
  /\ toRevoke \in SUBSET Leases
  /\ revokeErr \in SUBSET Leases

Init ==
  /\ cache = [k \in Keys |-> None]
  /\ state = [l \in Leases |-> "none"]
  /\ phase = [l \in Leases |-> "fresh"]
  /\ vault = [l \in Leases |-> "free"]
  /\ issuedFor = [l \in Leases |-> None]
  /\ pc = [t \in Threads |-> "idle"]
  /\ asked = [t \in Threads |-> None]
  /\ got = [t \in Threads |-> None]
  /\ loop = "idle"
  /\ candidates = {}
  /\ renewer = [l \in Leases |-> "none"]
  /\ shut = "running"
  /\ cut = {}
  /\ toRevoke = {}
  /\ revokeErr = {}

-----------------------------------------------------------------------------
(* GetCredentials, one request goroutine t *)

Idle(t) ==
  /\ pc' = [pc EXCEPT ![t] = "idle"]
  /\ asked' = [asked EXCEPT ![t] = None]
  /\ got' = [got EXCEPT ![t] = None]

\* Manager.Get under the read lock: a hit answers the request at once, an
\* expired entry is pruned in a second critical section, a miss provisions.
Get(t, s, r) ==
  /\ pc[t] = "idle"
  /\ Drained => shut = "running"
  /\ asked' = [asked EXCEPT ![t] = <<s, r>>]
  /\ LET l == cache[CacheKey(s, r)] IN
       \/ /\ l = None
          /\ pc' = [pc EXCEPT ![t] = "provision"]
          /\ UNCHANGED got
       \/ /\ l # None
          /\ phase[l] = "expired"
          /\ pc' = [pc EXCEPT ![t] = "prune"]
          /\ UNCHANGED got
       \/ /\ l # None
          /\ phase[l] # "expired"
          /\ pc' = [pc EXCEPT ![t] = "query"]
          /\ got' = [got EXCEPT ![t] = l]
  /\ UNCHANGED <<cache, leaseVars, loopVars, renewer, shutVars>>

\* Manager.Get, second half: the entry of the key is deleted under the write
\* lock, whatever lease the key holds by then.
PruneExpired(t) ==
  /\ pc[t] = "prune"
  /\ cache' = [cache EXCEPT ![CacheKey(asked[t][1], asked[t][2])] = None]
  /\ pc' = [pc EXCEPT ![t] = "provision"]
  /\ UNCHANGED <<asked, got, leaseVars, loopVars, renewer, shutVars>>

\* GetDynamicCredential: the vault creates a database user under a new lease.
Provision(t) ==
  /\ pc[t] = "provision"
  /\ \E l \in Leases :
       /\ vault[l] = "free"
       /\ vault' = [vault EXCEPT ![l] = "live"]
       /\ issuedFor' = [issuedFor EXCEPT ![l] = asked[t]]
       /\ got' = [got EXCEPT ![t] = l]
  /\ pc' = [pc EXCEPT ![t] = "store"]
  /\ UNCHANGED <<cache, state, phase, asked, loopVars, renewer, shutVars>>

\* GetDynamicCredential returns an error: the request fails.
ProvisionFails(t) ==
  /\ pc[t] = "provision"
  /\ Idle(t)
  /\ UNCHANGED <<cache, leaseVars, loopVars, renewer, shutVars>>

\* Manager.Store: a new object replaces whatever the key holds.
Store(t) ==
  /\ pc[t] = "store"
  /\ \E p \in NewPhases : phase' = [phase EXCEPT ![got[t]] = p]
  /\ state' = [state EXCEPT ![got[t]] = "active"]
  /\ cache' = [cache EXCEPT ![CacheKey(asked[t][1], asked[t][2])] = got[t]]
  /\ pc' = [pc EXCEPT ![t] = "query"]
  /\ UNCHANGED <<vault, issuedFor, asked, got, loopVars, renewer, shutVars>>

\* ExtractCredentials rejects the vault's answer: the request fails and the
\* lease that came with it is forgotten.
ExtractFails(t) ==
  /\ pc[t] = "store"
  /\ Idle(t)
  /\ UNCHANGED <<cache, leaseVars, loopVars, renewer, shutVars>>

\* The request is done with the credential: handleDBQuery ran its query.
Finish(t) ==
  /\ pc[t] = "query"
  /\ Idle(t)
  /\ UNCHANGED <<cache, leaseVars, loopVars, renewer, shutVars>>

-----------------------------------------------------------------------------
(* The renewal goroutine *)

\* Mutations of Due: it forgets to look at the state; it looks at every object
\* ever made; it waits for the expiry instead of the window.
DueInAnyState(l) == Cached(l) /\ phase[l] # "fresh"
DueUncached(l) == state[l] = "active" /\ phase[l] # "fresh"
DueAtExpiry(l) == Cached(l) /\ state[l] = "active" /\ phase[l] = "expired"

\* checkAndRenew, phase 1: what the tick finds under the read lock.
Due(l) ==
  /\ Cached(l)
  /\ state[l] = "active"
  /\ phase[l] # "fresh"

Collect ==
  /\ loop = "idle"
  /\ candidates' = {l \in Leases : Due(l)}
  /\ loop' = IF candidates' = {} THEN "idle" ELSE "mark"
  /\ UNCHANGED <<cache, leaseVars, reqVars, renewer, shutVars>>

\* checkAndRenew, phase 2: mark under the write lock, re-checking the state.
Mark ==
  /\ loop = "mark"
  /\ state' = [l \in Leases |->
                 IF l \in candidates /\ state[l] = "active"
                   THEN "renewing" ELSE state[l]]
  /\ loop' = "dispatch"
  /\ UNCHANGED <<cache, phase, vault, issuedFor, reqVars, candidates, renewer,
                 shutVars>>

\* checkAndRenew, phase 3: one goroutine for each candidate, one at a time.
Dispatch(l) ==
  /\ loop = "dispatch"
  /\ l \in candidates
  /\ renewer' = [renewer EXCEPT ![l] =
                   IF state[l] = "renewing" THEN "call" ELSE @]
  /\ candidates' = candidates \ {l}
  /\ loop' = IF candidates' = {} THEN "idle" ELSE "dispatch"
  /\ UNCHANGED <<cache, leaseVars, reqVars, shutVars>>

\* renewLease: the vault extends a lease it still holds.
VaultRenews(l) ==
  /\ renewer[l] = "call"
  /\ vault[l] = "live"
  /\ renewer' = [renewer EXCEPT ![l] = "ok"]
  /\ UNCHANGED <<cache, leaseVars, reqVars, loopVars, shutVars>>

\* Mutation of RenewSucceeds: the renewed lease is put back under its key.
RenewReinserts(l) ==
  /\ renewer[l] = "ok"
  /\ phase' = [phase EXCEPT ![l] = "fresh"]
  /\ state' = [state EXCEPT ![l] = "active"]
  /\ cache' = [cache EXCEPT ![issuedFor[l]] = l]
  /\ renewer' = [renewer EXCEPT ![l] = "none"]
  /\ UNCHANGED <<vault, issuedFor, reqVars, loopVars, shutVars>>

\* renewLease after a success: the object is extended, cached or not.
RenewSucceeds(l) ==
  /\ renewer[l] = "ok"
  /\ \E p \in NewPhases : phase' = [phase EXCEPT ![l] = p]
  /\ state' = [state EXCEPT ![l] = "active"]
  /\ renewer' = [renewer EXCEPT ![l] = "none"]
  /\ UNCHANGED <<cache, vault, issuedFor, reqVars, loopVars, shutVars>>

\* renewLease after a failure (a lease the vault does not know, a vault error,
\* or an answer lost after the vault extended the lease): the key of the lease
\* is deleted, whatever lease it holds by then.
RenewFails(l) ==
  /\ renewer[l] # "none"
  /\ cache' = [cache EXCEPT
                 ![CacheKey(issuedFor[l][1], issuedFor[l][2])] = None]
  /\ renewer' = [renewer EXCEPT ![l] = "none"]
  /\ UNCHANGED <<leaseVars, reqVars, loopVars, shutVars>>

\* Mutation of LoopStops: Close waits for the loop before it closes stopCh.
LoopStopsTooLate ==
  /\ loop = "idle"
  /\ shut \notin {"running", "closing"}
  /\ loop' = "stopped"
  /\ UNCHANGED <<cache, leaseVars, reqVars, candidates, renewer, shutVars>>

\* renewalLoop takes the stop channel instead of a tick and returns.
LoopStops ==
  /\ loop = "idle"
  /\ shut # "running"
  /\ loop' = "stopped"
  /\ UNCHANGED <<cache, leaseVars, reqVars, candidates, renewer, shutVars>>

-----------------------------------------------------------------------------
(* Revocation and shutdown *)

\* Mutation of Revoke: the entry is left to be pruned when it expires.
RevokeKeepsEntry(s, r) ==
  /\ cache[CacheKey(s, r)] # None
  /\ toRevoke' = toRevoke \cup {cache[CacheKey(s, r)]}
  /\ UNCHANGED <<cache, leaseVars, reqVars, loopVars, renewer, shut, cut,
                 revokeErr>>

\* Manager.Revoke of one key: taken out of the cache under the lock.
Revoke(s, r) ==
  LET l == cache[CacheKey(s, r)] IN
  /\ l # None
  /\ cache' = [cache EXCEPT ![CacheKey(s, r)] = None]
  /\ toRevoke' = toRevoke \cup {l}
  /\ UNCHANGED <<leaseVars, reqVars, loopVars, renewer, shut, cut, revokeErr>>

\* The vault call of Revoke and RevokeAll, outside the lock.
VaultRevokes(l) ==
  /\ l \in toRevoke
  /\ vault' = [vault EXCEPT ![l] = IF @ = "live" THEN "revoked" ELSE @]
  /\ toRevoke' = toRevoke \ {l}
  /\ UNCHANGED <<cache, state, phase, issuedFor, reqVars, loopVars, renewer,
                 shut, cut, revokeErr>>

\* Mutation of VaultRevokeFails: the first error ends the revocation.
RevokeStopsAtError(l) ==
  /\ l \in toRevoke
  /\ toRevoke' = {}
  /\ revokeErr' = revokeErr \cup {l}
  /\ UNCHANGED <<cache, leaseVars, reqVars, loopVars, renewer, shut, cut>>

\* The call fails: Revoke returns the error, RevokeAll logs it and goes on.
VaultRevokeFails(l) ==
  /\ l \in toRevoke
  /\ toRevoke' = toRevoke \ {l}
  /\ revokeErr' = revokeErr \cup {l}
  /\ UNCHANGED <<cache, leaseVars, reqVars, loopVars, renewer, shut, cut>>

\* main: server.Run returned and the deferred calls begin with Close, which
\* closes the stop channel ...
BeginClose ==
  /\ shut = "running"
  /\ Drained => \A t \in Threads : pc[t] = "idle"
  /\ shut' = "closing"
  /\ UNCHANGED <<cache, leaseVars, reqVars, loopVars, renewer, cut, toRevoke,
                 revokeErr>>

\* ... and waits for the renewal loop.
EndClose ==
  /\ shut = "closing"
  /\ loop = "stopped"
  /\ shut' = "closed"
  /\ UNCHANGED <<cache, leaseVars, reqVars, loopVars, renewer, cut, toRevoke,
                 revokeErr>>

\* RevokeAll: snapshot and clear under one lock.
RevokeAll ==
  /\ shut = "closed"
  /\ cut' = {l \in Leases : Cached(l)}
  /\ toRevoke' = toRevoke \cup cut'
  /\ cache' = [k \in Keys |-> None]
  /\ shut' = "revoking"
  /\ UNCHANGED <<leaseVars, reqVars, loopVars, renewer, revokeErr>>

\* RevokeAll has gone through its snapshot.  The process exits soon after
\* (sup.Stop); until it does, what still runs may go on.
RevokeAllReturns ==
  /\ shut = "revoking"
  /\ toRevoke \cap cut = {}
  /\ shut' = "revoked"
  /\ UNCHANGED <<cache, leaseVars, reqVars, loopVars, renewer, cut, toRevoke,
                 revokeErr>>

-----------------------------------------------------------------------------
(* Time *)

\* A lease object comes closer to its ExpiresAt.  Nothing reads the ExpiresAt
\* of an object that is out of the cache once its lease is dead in the vault.
Age(l) ==
  /\ state[l] # "none"
  /\ Cached(l) \/ vault[l] = "live"
  /\ phase[l] # "expired"
  /\ phase' = [phase EXCEPT ![l] = IF @ = "fresh" THEN "due" ELSE "expired"]
  /\ UNCHANGED <<cache, state, vault, issuedFor, reqVars, loopVars, renewer,
                 shutVars>>

\* The vault ends a lease by itself.  Its clock started when it issued or
\* renewed the lease, earlier than the ExpiresAt computed from its answer.
VaultExpires(l) ==
  /\ vault[l] = "live"
  /\ state[l] = "none" \/ phase[l] # "fresh"
  /\ vault' = [vault EXCEPT ![l] = "expired"]
  /\ UNCHANGED <<cache, state, phase, issuedFor, reqVars, loopVars, renewer,
                 shutVars>>

-----------------------------------------------------------------------------

RequestStep(t) ==
  \/ PruneExpired(t) \/ Provision(t) \/ ProvisionFails(t)
  \/ Store(t) \/ ExtractFails(t) \/ Finish(t)

RenewStep(l) ==
  VaultRenews(l) \/ RenewSucceeds(l) \/ RenewFails(l)

ShutdownStep ==
  EndClose \/ RevokeAll \/ RevokeAllReturns

\* What the program does: no code of it calls Manager.Revoke.
ProgramNext ==
  \/ \E t \in Threads : \/ \E s \in Services, r \in Roles : Get(t, s, r)
                        \/ RequestStep(t)
  \/ Collect \/ Mark \/ LoopStops
  \/ BeginClose \/ ShutdownStep
  \/ \E l \in Leases : \/ Dispatch(l) \/ RenewStep(l)
                       \/ VaultRevokes(l) \/ VaultRevokeFails(l)
                       \/ Age(l) \/ VaultExpires(l)

\* What the packages allow.
Next == ProgramNext \/ \E s \in Services, r \in Roles : Revoke(s, r)

Spec == Init /\ [][Next]_vars

ProgramSpec == Init /\ [][ProgramNext]_vars

\* Goroutines are scheduled, the ticker fires, every vault call returns (the
\* HTTP client has a timeout) and the deferred calls run one after another.
\* No request has to arrive and nothing makes a shutdown begin.  LoopStops is
\* strongly fair: select picks at random among the channels that are ready.
Fairness ==
  /\ \A t \in Threads : WF_vars(RequestStep(t))
  /\ WF_vars(Collect)
  /\ WF_vars(Mark)
  /\ \A l \in Leases :
       /\ WF_vars(Dispatch(l))
       /\ WF_vars(RenewStep(l))
       /\ WF_vars(VaultRevokes(l) \/ VaultRevokeFails(l))
  /\ SF_vars(LoopStops)
  /\ WF_vars(ShutdownStep)

FairSpec == ProgramSpec /\ Fairness

-----------------------------------------------------------------------------
(* What holds *)

\* A request goroutine will still put lease l into the cache.
Incoming(l) == \E t \in Threads : pc[t] = "store" /\ got[t] = l

\* The vault issued l and this process no longer has it in the cache, nor on
\* its way there.
Dropped(l) == vault[l] # "free" /\ ~Cached(l) /\ ~Incoming(l)

\* Credentials never cross services or roles: a lease is cached under the
\* pair the vault issued it for, and a request holds a lease of the pair it
\* asked for, although entries are replaced and deleted by key only.
KeyIsolation ==
  /\ \A k \in Keys : cache[k] # None => issuedFor[cache[k]] = k
  /\ \A t \in Threads : got[t] # None => issuedFor[got[t]] = asked[t]

\* Revoke and RevokeAll take a lease out of the cache before they ask the
\* vault to revoke it, so the cache never offers a credential that this
\* process has revoked or is about to revoke.
CachedNeverRevoked ==
  \A l \in Leases :
    Cached(l) => /\ vault[l] \notin {"free", "revoked"}
                 /\ l \notin toRevoke

\* checkAndRenew never starts a second renewLease goroutine for a lease while
\* one is running (the "double-scheduling" of its comment).
NoDoubleRenewal ==
  \A l \in candidates :
    loop = "dispatch" /\ state[l] = "renewing" => renewer[l] = "none"

\* No cached lease is stuck in LeaseRenewing: either a renewLease goroutine
\* runs for it or checkAndRenew is about to start one.  A lease stuck in that
\* state would never be a candidate again and would silently run out.
RenewingAttended ==
  \A l \in Leases :
    Cached(l) /\ state[l] = "renewing" =>
      \/ renewer[l] # "none"
      \/ loop = "dispatch" /\ l \in candidates

\* A lease that left the cache never comes back to it: not by a renewal that
\* was in flight when it was revoked, replaced or pruned, nor by a request.
NoResurrection == [][\A l \in Leases : Dropped(l) => Dropped(l)']_vars

\* A lease that left the cache, with no renewal of it under way, is at rest.
Forgotten(l) == Dropped(l) /\ renewer[l] = "none" /\ l \notin candidates

\* A lease at rest stays at rest: checkAndRenew only picks up what is cached,
\* so a credential this process has forgotten is never extended again and
\* lives at most for the rest of its TTL.
ForgottenNotRenewed == [][\A l \in Leases : Forgotten(l) => Forgotten(l)']_vars

\* A failed revocation does not stop RevokeAll: when it returns, every lease
\* it took out of the cache is dead in the vault or its error was logged.
RevokeAllCoversCut ==
  shut = "revoked" =>
    \A l \in cut : vault[l] # "live" \/ l \in revokeErr

\* The deferred shutdown calls get to the end, although Close waits for a
\* renewal loop that may be anywhere in checkAndRenew.
ShutdownCompletes == (shut = "closing") ~> (shut = "revoked")

\* A cached lease that comes into the renewal window gets a renewal attempt,
\* unless it runs out or leaves the cache first or the manager is closing.
\* That is checkAndRenew, and so its test TestRenewalTriggered;
\* docs/docs/user-guide.md:234 says otherwise: "After the query completes, the
\* lease runs to expiry and is not renewed."  The manager knows nothing of
\* queries: a lease is renewed whether or not one is under way.
DueIsRenewed ==
  \A l \in Leases :
    (Cached(l) /\ state[l] = "active" /\ phase[l] = "due")
      ~> \/ renewer[l] # "none" \/ phase[l] # "due"
         \/ ~Cached(l) \/ shut # "running"

-----------------------------------------------------------------------------
(* What the documentation says and the code does not do *)

\* database.go: "RevokeAll revokes all active lease credentials", for "a clean
\* shutdown that invalidates all temporary database users".
ShutdownLeavesNoLiveLease ==
  shut = "revoked" /\ revokeErr = {} =>
    \A l \in Leases : state[l] # "none" => vault[l] # "live"

=============================================================================
