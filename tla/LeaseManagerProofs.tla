------------------------- MODULE LeaseManagerProofs -------------------------
(***************************************************************************)
(* What LeaseManager guarantees for any number of requests, services,      *)
(* roles and leases.  The safety invariants are not inductive: a step may  *)
(* break them from states that are never reached.  IInv adds where a lease *)
(* may be at each stage of its life.                                       *)
(***************************************************************************)
EXTENDS LeaseManager, TLAPS

\* What a request goroutine knows at each point of GetCredentials.
RequestsOK ==
  \A t \in Threads :
    /\ pc[t] # "idle" => asked[t] \in Keys
    /\ pc[t] \in {"store", "query"} => got[t] \in Leases
    /\ pc[t] \notin {"store", "query"} => got[t] = None
    /\ got[t] # None => issuedFor[got[t]] = asked[t]

\* A lease on its way to the cache has no object yet and one owner.
IncomingOK ==
  \A t \in Threads : pc[t] = "store" =>
    /\ state[got[t]] = "none"
    /\ vault[got[t]] # "free"
    /\ \A u \in Threads : pc[u] = "store" /\ got[u] = got[t] => u = t

\* A lease without an object was never stored.
NotStoredOK ==
  \A l \in Leases :
    /\ vault[l] = "free" => state[l] = "none" /\ issuedFor[l] = None
    /\ state[l] # "none" => issuedFor[l] \in Keys
    /\ state[l] = "none" => /\ vault[l] # "revoked"
                            /\ l \notin toRevoke
                            /\ l \notin cut
                            /\ l \notin candidates
                            /\ renewer[l] = "none"

\* A cached lease has an object and was never sent to be revoked.
CachedOK ==
  \A k \in Keys : cache[k] # None =>
    /\ issuedFor[cache[k]] = k
    /\ state[cache[k]] # "none"
    /\ vault[cache[k]] # "revoked"
    /\ cache[k] \notin toRevoke
    /\ cache[k] \notin cut

\* Candidates are active until they are marked and renewing until their
\* goroutine starts; a goroutine's lease is renewing and no candidate.
RenewalsOK ==
  /\ loop \in {"idle", "stopped"} => candidates = {}
  /\ \A l \in Leases :
       /\ l \in candidates /\ loop = "mark" => state[l] = "active"
       /\ l \in candidates /\ loop = "dispatch" => state[l] = "renewing"
       /\ renewer[l] # "none" => state[l] = "renewing" /\ l \notin candidates
       /\ Cached(l) /\ state[l] = "renewing" =>
            renewer[l] # "none" \/ (loop = "dispatch" /\ l \in candidates)

\* What RevokeAll took out is pending, dead or logged.
RevocationsOK ==
  /\ shut \notin {"revoking", "revoked"} => cut = {}
  /\ shut = "revoked" => toRevoke \cap cut = {}
  /\ \A l \in cut : l \in toRevoke \/ vault[l] # "live" \/ l \in revokeErr
  /\ \A l \in cut : vault[l] # "free"

IInv ==
  /\ TypeOK
  /\ RequestsOK
  /\ IncomingOK
  /\ NotStoredOK
  /\ CachedOK
  /\ RenewalsOK
  /\ RevocationsOK

-----------------------------------------------------------------------------

\* A key is rebuilt from its two parts.
LEMMA KeyParts ==
  /\ \A k \in Keys : CacheKey(k[1], k[2]) = k
  /\ \A s \in Services, r \in Roles : CacheKey(s, r) \in Keys
BY DEF Keys, CacheKey

\* None is neither a lease nor a key.
LEMMA NoneApart == None \notin Leases /\ None \notin Keys
BY LeaseAssumption DEF Keys

LEMMA InitIInv == Init => IInv
<1> SUFFICES ASSUME Init PROVE IInv
  OBVIOUS
<1> USE NoneApart DEF Init
<1>1. TypeOK
  BY DEF TypeOK
<1>2. RequestsOK /\ IncomingOK /\ NotStoredOK /\ CachedOK
  BY DEF RequestsOK, IncomingOK, NotStoredOK, CachedOK
<1>3. RenewalsOK /\ RevocationsOK
  BY DEF RenewalsOK, RevocationsOK, Cached
<1> QED
  BY <1>1, <1>2, <1>3 DEF IInv

\* Type correctness is preserved by every step from a typed state in which
\* the requests hold what their program counter says.
LEMMA TypeStep == TypeOK /\ RequestsOK /\ NotStoredOK /\ [Next]_vars => TypeOK'
<1> SUFFICES ASSUME TypeOK, RequestsOK, NotStoredOK, [Next]_vars PROVE TypeOK'
  OBVIOUS
<1> USE KeyParts, NoneApart
    DEF TypeOK, leaseVars, reqVars, loopVars, shutVars
<1>1. ASSUME NEW t \in Threads, NEW s \in Services, NEW r \in Roles, Get(t, s, r)
      PROVE TypeOK'
  <2>1. <<s, r>> \in Keys /\ cache[CacheKey(s, r)] \in Leases \cup {None}
    BY DEF Keys, CacheKey
  <2> QED BY <1>1, <2>1 DEF Get
<1>2. ASSUME NEW t \in Threads, RequestStep(t) PROVE TypeOK'
  <2>1. CASE PruneExpired(t)
    BY <2>1 DEF PruneExpired
  <2>2. CASE Provision(t)
    BY <2>2 DEF Provision, RequestsOK
  <2>3. CASE ProvisionFails(t) \/ ExtractFails(t) \/ Finish(t)
    BY <2>3 DEF ProvisionFails, ExtractFails, Finish, Idle
  <2>4. CASE Store(t)
    BY <2>4 DEF Store, RequestsOK, NewPhases
  <2> QED BY <1>2, <2>1, <2>2, <2>3, <2>4 DEF RequestStep
<1>3. CASE Collect
  BY <1>3 DEF Collect
<1>4. CASE Mark
  BY <1>4 DEF Mark
<1>5. CASE LoopStops
  BY <1>5 DEF LoopStops
<1>6. ASSUME NEW s \in Services, NEW r \in Roles, Revoke(s, r) PROVE TypeOK'
  BY <1>6 DEF Revoke
<1>7. CASE BeginClose \/ ShutdownStep
  BY <1>7 DEF BeginClose, ShutdownStep, EndClose, RevokeAll, RevokeAllReturns
<1>8. ASSUME NEW l \in Leases, Dispatch(l) PROVE TypeOK'
  BY <1>8 DEF Dispatch
<1>9. ASSUME NEW l \in Leases, RenewStep(l) PROVE TypeOK'
  <2>1. CASE VaultRenews(l)
    BY <2>1 DEF VaultRenews
  <2>2. CASE RenewSucceeds(l)
    BY <2>2 DEF RenewSucceeds, NewPhases
  <2>3. CASE RenewFails(l)
    BY <2>3 DEF RenewFails
  <2> QED BY <1>9, <2>1, <2>2, <2>3 DEF RenewStep
<1>10. ASSUME NEW l \in Leases, VaultRevokes(l) \/ VaultRevokeFails(l)
       PROVE TypeOK'
  BY <1>10 DEF VaultRevokes, VaultRevokeFails
<1>11. ASSUME NEW l \in Leases, Age(l) \/ VaultExpires(l) PROVE TypeOK'
  BY <1>11 DEF Age, VaultExpires
<1>12. CASE UNCHANGED vars
  BY <1>12 DEF vars
<1> QED
  BY <1>1, <1>2, <1>3, <1>4, <1>5, <1>6, <1>7, <1>8, <1>9, <1>10, <1>11, <1>12
  DEF Next, ProgramNext

\* A request goroutine keeps what it holds and no two are about to store the same lease.
LEMMA RequestsStep == IInv /\ TypeOK' /\ [Next]_vars => RequestsOK' /\ IncomingOK'
<1> SUFFICES ASSUME IInv, TypeOK', [Next]_vars PROVE RequestsOK' /\ IncomingOK'
  OBVIOUS
<1> USE KeyParts, NoneApart
    DEF IInv, TypeOK, leaseVars, reqVars, loopVars, shutVars,
        RequestsOK, IncomingOK, NotStoredOK, CachedOK
<1>1. ASSUME NEW t \in Threads, NEW s \in Services, NEW r \in Roles, Get(t, s, r)
      PROVE RequestsOK' /\ IncomingOK'
  BY <1>1 DEF Get, CacheKey
<1>2. ASSUME NEW t \in Threads, PruneExpired(t)
      PROVE RequestsOK' /\ IncomingOK'
  BY <1>2 DEF PruneExpired
<1>3. ASSUME NEW t \in Threads, Provision(t)
      PROVE RequestsOK' /\ IncomingOK'
  BY <1>3 DEF Provision
<1>4. ASSUME NEW t \in Threads, ProvisionFails(t) \/ ExtractFails(t) \/ Finish(t)
      PROVE RequestsOK' /\ IncomingOK'
  BY <1>4 DEF ProvisionFails, ExtractFails, Finish, Idle
<1>5. ASSUME NEW t \in Threads, Store(t)
      PROVE RequestsOK' /\ IncomingOK'
  BY <1>5 DEF Store, NewPhases
<1>6. CASE Collect
  BY <1>6 DEF Collect, Due
<1>7. CASE Mark
  BY <1>7 DEF Mark
<1>8. CASE LoopStops
  BY <1>8 DEF LoopStops
<1>9. ASSUME NEW s \in Services, NEW r \in Roles, Revoke(s, r)
      PROVE RequestsOK' /\ IncomingOK'
  BY <1>9 DEF Revoke
<1>10. CASE BeginClose \/ EndClose \/ RevokeAllReturns
  BY <1>10 DEF BeginClose, EndClose, RevokeAllReturns
<1>11. CASE RevokeAll
  BY <1>11 DEF RevokeAll
<1>12. ASSUME NEW l \in Leases, Dispatch(l)
      PROVE RequestsOK' /\ IncomingOK'
  BY <1>12 DEF Dispatch
<1>13. ASSUME NEW l \in Leases, VaultRenews(l)
      PROVE RequestsOK' /\ IncomingOK'
  BY <1>13 DEF VaultRenews
<1>14. ASSUME NEW l \in Leases, RenewSucceeds(l)
      PROVE RequestsOK' /\ IncomingOK'
  BY <1>14 DEF RenewSucceeds, NewPhases
<1>15. ASSUME NEW l \in Leases, RenewFails(l)
      PROVE RequestsOK' /\ IncomingOK'
  BY <1>15 DEF RenewFails
<1>16. ASSUME NEW l \in Leases, VaultRevokes(l) \/ VaultRevokeFails(l)
      PROVE RequestsOK' /\ IncomingOK'
  BY <1>16 DEF VaultRevokes, VaultRevokeFails
<1>17. ASSUME NEW l \in Leases, Age(l) \/ VaultExpires(l)
      PROVE RequestsOK' /\ IncomingOK'
  BY <1>17 DEF Age, VaultExpires
<1>18. CASE UNCHANGED vars
  BY <1>18 DEF vars
<1> QED
  BY <1>1, <1>2, <1>3, <1>4, <1>5, <1>6, <1>7, <1>8, <1>9, <1>10,
      <1>11, <1>12, <1>13, <1>14, <1>15, <1>16, <1>17, <1>18
  DEF Next, ProgramNext, RequestStep, RenewStep, ShutdownStep

\* Only Store makes objects and cache entries, of leases never sent to be revoked.
LEMMA StoredStep == IInv /\ TypeOK' /\ [Next]_vars => NotStoredOK' /\ CachedOK'
<1> SUFFICES ASSUME IInv, TypeOK', [Next]_vars PROVE NotStoredOK' /\ CachedOK'
  OBVIOUS
<1> USE KeyParts, NoneApart
    DEF IInv, TypeOK, leaseVars, reqVars, loopVars, shutVars,
        RequestsOK, IncomingOK, NotStoredOK, CachedOK, RevocationsOK
<1>1. ASSUME NEW t \in Threads, NEW s \in Services, NEW r \in Roles, Get(t, s, r)
      PROVE NotStoredOK' /\ CachedOK'
  BY <1>1 DEF Get
<1>2. ASSUME NEW t \in Threads, PruneExpired(t)
      PROVE NotStoredOK' /\ CachedOK'
  BY <1>2 DEF PruneExpired
<1>3. ASSUME NEW t \in Threads, Provision(t)
      PROVE NotStoredOK' /\ CachedOK'
  BY <1>3 DEF Provision
<1>4. ASSUME NEW t \in Threads, ProvisionFails(t) \/ ExtractFails(t) \/ Finish(t)
      PROVE NotStoredOK' /\ CachedOK'
  BY <1>4 DEF ProvisionFails, ExtractFails, Finish, Idle
<1>5. ASSUME NEW t \in Threads, Store(t)
      PROVE NotStoredOK' /\ CachedOK'
  BY <1>5 DEF Store, NewPhases
<1>6. CASE Collect
  BY <1>6 DEF Collect, Due
<1>7. CASE Mark
  BY <1>7 DEF Mark
<1>8. CASE LoopStops
  BY <1>8 DEF LoopStops
<1>9. ASSUME NEW s \in Services, NEW r \in Roles, Revoke(s, r)
      PROVE NotStoredOK' /\ CachedOK'
  BY <1>9 DEF Revoke
<1>10. CASE BeginClose \/ EndClose \/ RevokeAllReturns
  BY <1>10 DEF BeginClose, EndClose, RevokeAllReturns
<1>11. CASE RevokeAll
  BY <1>11 DEF RevokeAll, Cached
<1>12. ASSUME NEW l \in Leases, Dispatch(l)
      PROVE NotStoredOK' /\ CachedOK'
  BY <1>12 DEF Dispatch
<1>13. ASSUME NEW l \in Leases, VaultRenews(l)
      PROVE NotStoredOK' /\ CachedOK'
  BY <1>13 DEF VaultRenews
<1>14. ASSUME NEW l \in Leases, RenewSucceeds(l)
      PROVE NotStoredOK' /\ CachedOK'
  BY <1>14 DEF RenewSucceeds, NewPhases
<1>15. ASSUME NEW l \in Leases, RenewFails(l)
      PROVE NotStoredOK' /\ CachedOK'
  BY <1>15 DEF RenewFails
<1>16. ASSUME NEW l \in Leases, VaultRevokes(l) \/ VaultRevokeFails(l)
      PROVE NotStoredOK' /\ CachedOK'
  BY <1>16 DEF VaultRevokes, VaultRevokeFails
<1>17. ASSUME NEW l \in Leases, Age(l) \/ VaultExpires(l)
      PROVE NotStoredOK' /\ CachedOK'
  BY <1>17 DEF Age, VaultExpires
<1>18. CASE UNCHANGED vars
  BY <1>18 DEF vars
<1> QED
  BY <1>1, <1>2, <1>3, <1>4, <1>5, <1>6, <1>7, <1>8, <1>9, <1>10,
      <1>11, <1>12, <1>13, <1>14, <1>15, <1>16, <1>17, <1>18
  DEF Next, ProgramNext, RequestStep, RenewStep, ShutdownStep

\* The three phases of checkAndRenew and the renewal goroutines keep in step.
LEMMA RenewalsStep == IInv /\ TypeOK' /\ [Next]_vars => RenewalsOK'
<1> SUFFICES ASSUME IInv, TypeOK', [Next]_vars PROVE RenewalsOK'
  OBVIOUS
<1> USE KeyParts, NoneApart
    DEF IInv, TypeOK, leaseVars, reqVars, loopVars, shutVars,
        IncomingOK, RequestsOK, NotStoredOK, CachedOK, RenewalsOK, Cached
<1>1. ASSUME NEW t \in Threads, NEW s \in Services, NEW r \in Roles, Get(t, s, r)
      PROVE RenewalsOK'
  BY <1>1 DEF Get
<1>2. ASSUME NEW t \in Threads, PruneExpired(t)
      PROVE RenewalsOK'
  BY <1>2 DEF PruneExpired
<1>3. ASSUME NEW t \in Threads, Provision(t)
      PROVE RenewalsOK'
  BY <1>3 DEF Provision
<1>4. ASSUME NEW t \in Threads, ProvisionFails(t) \/ ExtractFails(t) \/ Finish(t)
      PROVE RenewalsOK'
  BY <1>4 DEF ProvisionFails, ExtractFails, Finish, Idle
<1>5. ASSUME NEW t \in Threads, Store(t)
      PROVE RenewalsOK'
  BY <1>5 DEF Store, NewPhases
<1>6. CASE Collect
  BY <1>6 DEF Collect, Due
<1>7. CASE Mark
  BY <1>7 DEF Mark
<1>8. CASE LoopStops
  BY <1>8 DEF LoopStops
<1>9. ASSUME NEW s \in Services, NEW r \in Roles, Revoke(s, r)
      PROVE RenewalsOK'
  BY <1>9 DEF Revoke
<1>10. CASE BeginClose \/ EndClose \/ RevokeAllReturns
  BY <1>10 DEF BeginClose, EndClose, RevokeAllReturns
<1>11. CASE RevokeAll
  BY <1>11 DEF RevokeAll
<1>12. ASSUME NEW l \in Leases, Dispatch(l)
      PROVE RenewalsOK'
  BY <1>12 DEF Dispatch
<1>13. ASSUME NEW l \in Leases, VaultRenews(l)
      PROVE RenewalsOK'
  BY <1>13 DEF VaultRenews
<1>14. ASSUME NEW l \in Leases, RenewSucceeds(l)
      PROVE RenewalsOK'
  BY <1>14 DEF RenewSucceeds, NewPhases
<1>15. ASSUME NEW l \in Leases, RenewFails(l)
      PROVE RenewalsOK'
  BY <1>15 DEF RenewFails
<1>16. ASSUME NEW l \in Leases, VaultRevokes(l) \/ VaultRevokeFails(l)
      PROVE RenewalsOK'
  BY <1>16 DEF VaultRevokes, VaultRevokeFails
<1>17. ASSUME NEW l \in Leases, Age(l) \/ VaultExpires(l)
      PROVE RenewalsOK'
  BY <1>17 DEF Age, VaultExpires
<1>18. CASE UNCHANGED vars
  BY <1>18 DEF vars
<1> QED
  BY <1>1, <1>2, <1>3, <1>4, <1>5, <1>6, <1>7, <1>8, <1>9, <1>10,
      <1>11, <1>12, <1>13, <1>14, <1>15, <1>16, <1>17, <1>18
  DEF Next, ProgramNext, RequestStep, RenewStep, ShutdownStep

\* Nothing RevokeAll took out of the cache escapes its revocation unnoticed.
LEMMA RevocationsStep == IInv /\ TypeOK' /\ [Next]_vars => RevocationsOK'
<1> SUFFICES ASSUME IInv, TypeOK', [Next]_vars PROVE RevocationsOK'
  OBVIOUS
<1> USE KeyParts, NoneApart
    DEF IInv, TypeOK, leaseVars, reqVars, loopVars, shutVars,
        RequestsOK, IncomingOK, NotStoredOK, CachedOK, RevocationsOK, Cached
<1>1. ASSUME NEW t \in Threads, NEW s \in Services, NEW r \in Roles, Get(t, s, r)
      PROVE RevocationsOK'
  BY <1>1 DEF Get
<1>2. ASSUME NEW t \in Threads, PruneExpired(t)
      PROVE RevocationsOK'
  BY <1>2 DEF PruneExpired
<1>3. ASSUME NEW t \in Threads, Provision(t)
      PROVE RevocationsOK'
  BY <1>3 DEF Provision
<1>4. ASSUME NEW t \in Threads, ProvisionFails(t) \/ ExtractFails(t) \/ Finish(t)
      PROVE RevocationsOK'
  BY <1>4 DEF ProvisionFails, ExtractFails, Finish, Idle
<1>5. ASSUME NEW t \in Threads, Store(t)
      PROVE RevocationsOK'
  BY <1>5 DEF Store, NewPhases
<1>6. CASE Collect
  BY <1>6 DEF Collect, Due
<1>7. CASE Mark
  BY <1>7 DEF Mark
<1>8. CASE LoopStops
  BY <1>8 DEF LoopStops
<1>9. ASSUME NEW s \in Services, NEW r \in Roles, Revoke(s, r)
      PROVE RevocationsOK'
  BY <1>9 DEF Revoke
<1>10. CASE BeginClose \/ EndClose \/ RevokeAllReturns
  BY <1>10 DEF BeginClose, EndClose, RevokeAllReturns
<1>11. CASE RevokeAll
  BY <1>11 DEF RevokeAll
<1>12. ASSUME NEW l \in Leases, Dispatch(l)
      PROVE RevocationsOK'
  BY <1>12 DEF Dispatch
<1>13. ASSUME NEW l \in Leases, VaultRenews(l)
      PROVE RevocationsOK'
  BY <1>13 DEF VaultRenews
<1>14. ASSUME NEW l \in Leases, RenewSucceeds(l)
      PROVE RevocationsOK'
  BY <1>14 DEF RenewSucceeds, NewPhases
<1>15. ASSUME NEW l \in Leases, RenewFails(l)
      PROVE RevocationsOK'
  BY <1>15 DEF RenewFails
<1>16. ASSUME NEW l \in Leases, VaultRevokes(l) \/ VaultRevokeFails(l)
      PROVE RevocationsOK'
  BY <1>16 DEF VaultRevokes, VaultRevokeFails
<1>17. ASSUME NEW l \in Leases, Age(l) \/ VaultExpires(l)
      PROVE RevocationsOK'
  BY <1>17 DEF Age, VaultExpires
<1>18. CASE UNCHANGED vars
  BY <1>18 DEF vars
<1> QED
  BY <1>1, <1>2, <1>3, <1>4, <1>5, <1>6, <1>7, <1>8, <1>9, <1>10,
      <1>11, <1>12, <1>13, <1>14, <1>15, <1>16, <1>17, <1>18
  DEF Next, ProgramNext, RequestStep, RenewStep, ShutdownStep

-----------------------------------------------------------------------------

\* The strengthened invariant holds in every reachable state.
LEMMA Invariance == Spec => []IInv
<1>1. IInv /\ [Next]_vars => IInv'
  <2> SUFFICES ASSUME IInv, [Next]_vars PROVE IInv'
    OBVIOUS
  <2>1. TypeOK'
    BY TypeStep DEF IInv
  <2> QED
    BY <2>1, RequestsStep, StoredStep, RenewalsStep, RevocationsStep DEF IInv
<1> QED
  BY <1>1, InitIInv, PTL DEF Spec

\* Type correctness of the lease manager, for any number of requests, keys
\* and leases.
THEOREM TypeCorrectness == Spec => []TypeOK
<1>1. IInv => TypeOK
  BY DEF IInv
<1> QED
  BY <1>1, Invariance, PTL

\* Credentials never cross services or roles (Store, Get, renewLease and
\* Revoke all work by key).
THEOREM KeyIsolationHolds == Spec => []KeyIsolation
<1>1. IInv => KeyIsolation
  BY DEF IInv, CachedOK, RequestsOK, KeyIsolation
<1> QED
  BY <1>1, Invariance, PTL

\* The cache never offers a lease that Revoke or RevokeAll took out of it.
THEOREM CachedNeverRevokedHolds == Spec => []CachedNeverRevoked
<1>1. IInv => CachedNeverRevoked
  BY NoneApart DEF IInv, CachedOK, NotStoredOK, CachedNeverRevoked, Cached
<1> QED
  BY <1>1, Invariance, PTL

\* checkAndRenew starts no second goroutine for a lease.
THEOREM NoDoubleRenewalHolds == Spec => []NoDoubleRenewal
<1>1. IInv => NoDoubleRenewal
  BY DEF IInv, TypeOK, RenewalsOK, NoDoubleRenewal
<1> QED
  BY <1>1, Invariance, PTL

\* No cached lease is stuck in LeaseRenewing.
THEOREM RenewingAttendedHolds == Spec => []RenewingAttended
<1>1. IInv => RenewingAttended
  BY DEF IInv, RenewalsOK, RenewingAttended
<1> QED
  BY <1>1, Invariance, PTL

\* RevokeAll goes through its whole snapshot, errors or not.
THEOREM RevokeAllCoversCutHolds == Spec => []RevokeAllCoversCut
<1>1. IInv => RevokeAllCoversCut
  BY DEF IInv, RevocationsOK, RevokeAllCoversCut
<1> QED
  BY <1>1, Invariance, PTL

\* A lease that left the cache never comes back: only Store fills a key, with
\* a lease that was incoming until then, and only Provision makes a lease
\* incoming, one the vault has just issued.
LEMMA DroppedStays == IInv /\ TypeOK' /\ [Next]_vars
                        => \A l \in Leases : Dropped(l) => Dropped(l)'
<1> SUFFICES ASSUME IInv, TypeOK', [Next]_vars,
                    NEW d \in Leases, Dropped(d)
             PROVE  Dropped(d)'
  OBVIOUS
<1> USE KeyParts, NoneApart
    DEF IInv, TypeOK, Dropped, Cached, Incoming, RequestsOK,
        leaseVars, reqVars, loopVars, shutVars
<1>1. ASSUME NEW t \in Threads, NEW s \in Services, NEW r \in Roles, Get(t, s, r)
      PROVE Dropped(d)'
  BY <1>1 DEF Get
<1>2. ASSUME NEW t \in Threads, PruneExpired(t) PROVE Dropped(d)'
  BY <1>2 DEF PruneExpired
<1>3. ASSUME NEW t \in Threads, Provision(t) PROVE Dropped(d)'
  BY <1>3 DEF Provision
<1>4. ASSUME NEW t \in Threads, ProvisionFails(t) \/ ExtractFails(t) \/ Finish(t)
      PROVE Dropped(d)'
  BY <1>4 DEF ProvisionFails, ExtractFails, Finish, Idle
<1>5. ASSUME NEW t \in Threads, Store(t) PROVE Dropped(d)'
  BY <1>5 DEF Store
<1>6. CASE Collect \/ Mark \/ LoopStops
  BY <1>6 DEF Collect, Mark, LoopStops
<1>7. ASSUME NEW s \in Services, NEW r \in Roles, Revoke(s, r) PROVE Dropped(d)'
  BY <1>7 DEF Revoke
<1>8. CASE BeginClose \/ ShutdownStep
  BY <1>8 DEF BeginClose, ShutdownStep, EndClose, RevokeAll, RevokeAllReturns
<1>9. ASSUME NEW l \in Leases, Dispatch(l) PROVE Dropped(d)'
  BY <1>9 DEF Dispatch
<1>10. ASSUME NEW l \in Leases, RenewStep(l) PROVE Dropped(d)'
  BY <1>10 DEF RenewStep, VaultRenews, RenewSucceeds, RenewFails
<1>11. ASSUME NEW l \in Leases, VaultRevokes(l) \/ VaultRevokeFails(l)
       PROVE Dropped(d)'
  BY <1>11 DEF VaultRevokes, VaultRevokeFails
<1>12. ASSUME NEW l \in Leases, Age(l) \/ VaultExpires(l) PROVE Dropped(d)'
  BY <1>12 DEF Age, VaultExpires
<1>13. CASE UNCHANGED vars
  BY <1>13 DEF vars
<1> QED
  BY <1>1, <1>2, <1>3, <1>4, <1>5, <1>6, <1>7, <1>8, <1>9, <1>10, <1>11,
     <1>12, <1>13
  DEF Next, ProgramNext, RequestStep

\* No step brings a forgotten or revoked lease back to a request.
THEOREM NoResurrectionHolds == Spec => NoResurrection
<1>1. IInv /\ [Next]_vars
        => [\A l \in Leases : Dropped(l) => Dropped(l)']_vars
  BY DroppedStays, TypeStep DEF IInv
<1> QED
  BY <1>1, Invariance, PTL DEF Spec, NoResurrection

\* A forgotten lease is not renewed again, so it ends with its TTL.
THEOREM ForgottenNotRenewedHolds == Spec => ForgottenNotRenewed
<1>1. ASSUME IInv, TypeOK', [Next]_vars, NEW d \in Leases, Forgotten(d)
      PROVE  renewer'[d] = "none" /\ d \notin candidates'
  <2> USE <1>1 DEF IInv, TypeOK, Forgotten, leaseVars, reqVars, loopVars, shutVars
  <2>1. CASE Collect
    BY <2>1 DEF Collect, Due, Dropped
  <2>2. ASSUME NEW l \in Leases, Dispatch(l)
        PROVE  renewer'[d] = "none" /\ d \notin candidates'
    BY <2>2 DEF Dispatch
  <2>3. ASSUME NEW l \in Leases, RenewStep(l)
        PROVE  renewer'[d] = "none" /\ d \notin candidates'
    BY <2>3 DEF RenewStep, VaultRenews, RenewSucceeds, RenewFails
  <2>4. ASSUME ~Collect, ~(\E l \in Leases : Dispatch(l) \/ RenewStep(l))
        PROVE  renewer'[d] = "none" /\ d \notin candidates'
    BY <2>4
    DEF Next, ProgramNext, vars, Get, RequestStep, PruneExpired, Provision,
        ProvisionFails, Store, ExtractFails, Finish, Mark, LoopStops,
        Revoke, BeginClose, ShutdownStep, EndClose, RevokeAll,
        RevokeAllReturns, VaultRevokes, VaultRevokeFails, Age, VaultExpires
  <2> QED
    BY <2>1, <2>2, <2>3, <2>4
<1>2. IInv /\ [Next]_vars
        => [\A l \in Leases : Forgotten(l) => Forgotten(l)']_vars
  BY <1>1, DroppedStays, TypeStep DEF Forgotten, IInv
<1> QED
  BY <1>2, Invariance, PTL DEF Spec, ForgottenNotRenewed

=============================================================================
