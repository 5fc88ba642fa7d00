-------------------------- MODULE TokenEngineProofs --------------------------
(***************************************************************************)
(* What TokenEngine guarantees for any number of callers, keys and         *)
(* credentials, and that the calls which miss implement SingleFlight.      *)
(* The invariants below are not inductive alone: whether a background      *)
(* refresh leaves its entry stuck depends on whose entry the key holds     *)
(* when it answers, so IInv says where a credential may be at each stage.  *)
(***************************************************************************)
EXTENDS TokenEngine, TLAPS

\* What a call holds at each point of Credential.
CallsOK ==
  \A t \in Threads :
    /\ pc[t] = "idle" => key[t] = None
    /\ pc[t] # "idle" => key[t] \in Keys
    /\ pc[t] \in {"trigger", "hit", "store"} => got[t] \in Creds
    /\ pc[t] \in {"idle", "flight", "exchange", "wait"} => got[t] = None
    /\ pc[t] \in {"publish", "answered"} => got[t] # None
    /\ got[t] \in Creds => mintedFor[got[t]] = key[t]

\* An entry exists for a minted credential only, and under its own key.
EntriesOK ==
  /\ \A c \in Creds : estate[c] # "none" => mintedFor[c] \in Keys
  /\ \A k \in Keys : cache[k] # None => /\ mintedFor[cache[k]] = k
                                        /\ estate[cache[k]] # "none"
  /\ \A t \in Threads : pc[t] = "trigger" => estate[got[t]] # "none"

\* A background refresh runs for a refreshing entry and carries a credential
\* of the same key.
RefreshersOK ==
  \A c \in Creds :
    /\ refresher[c] # "none" => estate[c] = "refreshing"
    /\ refresher[c] # "apply" => fresh[c] = None
    /\ refresher[c] = "apply" => /\ fresh[c] \in Creds
                                 /\ mintedFor[fresh[c]] = mintedFor[c]

\* A credential on its way to the cache has no entry yet and one carrier.
PendingOK ==
  /\ \A t \in Threads : pc[t] \in {"publish", "store"} /\ got[t] \in Creds =>
       /\ estate[got[t]] = "none"
       /\ \A u \in Threads : pc[u] \in {"publish", "store"} /\ got[u] = got[t] => u = t
       /\ \A c \in Creds : fresh[c] # got[t]
  /\ \A c \in Creds : fresh[c] # None =>
       /\ estate[fresh[c]] = "none"
       /\ \A d \in Creds : fresh[d] = fresh[c] => d = c

\* The registration of a flight and its leader know each other.
LeadersOK ==
  /\ \A t \in Threads : pc[t] \in {"exchange", "publish"} => inflight[key[t]] = t
  /\ \A k \in Keys : inflight[k] # None =>
       key[inflight[k]] = k /\ pc[inflight[k]] \in {"exchange", "publish"}

IInv ==
  /\ TypeOK
  /\ CallsOK
  /\ EntriesOK
  /\ RefreshersOK
  /\ PendingOK
  /\ LeadersOK
  /\ RefreshingAttended

-----------------------------------------------------------------------------

\* None and Failed are neither credentials, keys nor threads.
LEMMA Apart ==
  /\ None \notin Creds /\ None \notin Keys /\ None \notin Threads
  /\ Failed \notin Creds /\ Failed # None
BY EngineAssumption

LEMMA InitIInv == Init => IInv
<1> SUFFICES ASSUME Init PROVE IInv
  OBVIOUS
<1> USE Apart, EngineAssumption DEF Init
<1>1. TypeOK
  BY DEF TypeOK
<1>2. CallsOK /\ EntriesOK /\ RefreshersOK
  BY DEF CallsOK, EntriesOK, RefreshersOK
<1>3. PendingOK /\ LeadersOK /\ RefreshingAttended
  BY DEF PendingOK, LeadersOK, RefreshingAttended
<1> QED
  BY <1>1, <1>2, <1>3 DEF IInv

\* Next split into its actions, for the lemmas that follow.
LEMMA Steps ==
  ASSUME [Next]_vars
  PROVE \/ \E t \in Threads, k \in Keys : Lookup(t, k)
        \/ \E t \in Threads : \/ Trigger(t) \/ Join(t) \/ Lead(t) \/ Exchange(t)
                              \/ Publish(t) \/ Store(t) \/ Return(t)
        \/ \E c \in Creds : \/ RefreshExchange(c) \/ RefreshApply(c)
                            \/ RefreshFails(c) \/ Age(c)
        \/ Collect \/ Mark \/ LoopStops
        \/ \E k \in Keys : Invalidate(k)
        \/ Close \/ CloseReturns
        \/ UNCHANGED vars
BY DEF Next, CallStep, RefreshStep

LEMMA TypeStep == IInv /\ [Next]_vars => TypeOK'
<1> SUFFICES ASSUME IInv, [Next]_vars PROVE TypeOK'
  OBVIOUS
<1> USE Apart, EngineAssumption
    DEF IInv, TypeOK, entryVars, credVars, callVars, bgVars, loopVars
<1>1. ASSUME NEW t \in Threads, NEW k \in Keys, Lookup(t, k) PROVE TypeOK'
  BY <1>1 DEF Lookup
<1>2. ASSUME NEW t \in Threads, Trigger(t) PROVE TypeOK'
  BY <1>2 DEF Trigger, CallsOK
<1>3. ASSUME NEW t \in Threads, Join(t) \/ Lead(t) \/ Return(t) PROVE TypeOK'
  BY <1>3 DEF Join, Lead, Return, CallsOK
<1>4. ASSUME NEW t \in Threads, Exchange(t) PROVE TypeOK'
  BY <1>4 DEF Exchange, Mint, CallsOK
<1>5. ASSUME NEW t \in Threads, Publish(t) PROVE TypeOK'
  BY <1>5 DEF Publish, CallsOK
<1>6. ASSUME NEW t \in Threads, Store(t) PROVE TypeOK'
  BY <1>6 DEF Store, Put, CallsOK
<1>7. ASSUME NEW c \in Creds, RefreshExchange(c) PROVE TypeOK'
  BY <1>7 DEF RefreshExchange, Mint, EntriesOK, RefreshersOK
<1>8. ASSUME NEW c \in Creds, RefreshApply(c) PROVE TypeOK'
  BY <1>8 DEF RefreshApply, Put, EntriesOK, RefreshersOK
<1>9. ASSUME NEW c \in Creds, RefreshFails(c) PROVE TypeOK'
  BY <1>9 DEF RefreshFails, EntriesOK, RefreshersOK
<1>10. ASSUME NEW c \in Creds, Age(c) PROVE TypeOK'
  BY <1>10 DEF Age
<1>11. CASE Collect
  BY <1>11 DEF Collect
<1>12. CASE Mark
  BY <1>12 DEF Mark
<1>13. CASE LoopStops \/ Close \/ CloseReturns
  BY <1>13 DEF LoopStops, Close, CloseReturns
<1>14. ASSUME NEW k \in Keys, Invalidate(k) PROVE TypeOK'
  <2>1. epoch' \in [Keys -> 0 .. MaxInvalidations]
    <3>1. CASE UNCHANGED epoch
      BY <3>1
    <3>2. CASE /\ epoch[k] < MaxInvalidations
               /\ epoch' = [epoch EXCEPT ![k] = @ + 1]
      BY <3>2
    <3>3. QED
      BY <1>14, <3>1, <3>2 DEF Invalidate, CountInvalidation
  <2>2. cache' \in [Keys -> Creds \cup {None}]
    BY <1>14 DEF Invalidate
  <2>3. QED
    BY <1>14, <2>1, <2>2 DEF Invalidate
<1>15. CASE UNCHANGED vars
  BY <1>15 DEF vars
<1> QED
  BY Steps, <1>1, <1>2, <1>3, <1>4, <1>5, <1>6, <1>7, <1>8, <1>9, <1>10,
     <1>11, <1>12, <1>13, <1>14, <1>15

\* A call keeps what it holds; a mint touches nothing anyone holds.
LEMMA CallsStep == IInv /\ [Next]_vars => CallsOK'
<1> SUFFICES ASSUME IInv, [Next]_vars PROVE CallsOK'
  OBVIOUS
<1> USE Apart, EngineAssumption
    DEF IInv, TypeOK, entryVars, credVars, callVars, bgVars, loopVars,
        CallsOK
<1>1. ASSUME NEW t \in Threads, NEW k \in Keys, Lookup(t, k) PROVE CallsOK'
  BY <1>1 DEF Lookup, EntriesOK
<1>2. ASSUME NEW t \in Threads, Trigger(t) PROVE CallsOK'
  BY <1>2 DEF Trigger
<1>3. ASSUME NEW t \in Threads, Join(t) \/ Lead(t) \/ Return(t) PROVE CallsOK'
  BY <1>3 DEF Join, Lead, Return
<1>4. ASSUME NEW t \in Threads, Exchange(t) PROVE CallsOK'
  BY <1>4 DEF Exchange, Mint
<1>5. ASSUME NEW t \in Threads, Publish(t) PROVE CallsOK'
  BY <1>5 DEF Publish, Told
<1>6. ASSUME NEW t \in Threads, Store(t) PROVE CallsOK'
  BY <1>6 DEF Store, Put
<1>7. ASSUME NEW c \in Creds, RefreshExchange(c) PROVE CallsOK'
  BY <1>7 DEF RefreshExchange, Mint
<1>8. ASSUME NEW c \in Creds, RefreshApply(c) PROVE CallsOK'
  BY <1>8 DEF RefreshApply, Put
<1>9. ASSUME NEW c \in Creds, RefreshFails(c) \/ Age(c) PROVE CallsOK'
  BY <1>9 DEF RefreshFails, Age
<1>10. CASE Collect \/ LoopStops \/ Close \/ CloseReturns
  BY <1>10 DEF Collect, LoopStops, Close, CloseReturns
<1>11. CASE Mark
  BY <1>11 DEF Mark, ToRefresh, Cached
<1>12. ASSUME NEW k \in Keys, Invalidate(k) PROVE CallsOK'
  BY <1>12 DEF Invalidate
<1>13. CASE UNCHANGED vars
  BY <1>13 DEF vars
<1> QED
  BY Steps, <1>1, <1>2, <1>3, <1>4, <1>5, <1>6, <1>7,
     <1>8, <1>9, <1>10, <1>11, <1>12, <1>13

\* Entries are put under the key their credential was exchanged for.
LEMMA EntriesStep == IInv /\ [Next]_vars => EntriesOK'
<1> SUFFICES ASSUME IInv, [Next]_vars PROVE EntriesOK'
  OBVIOUS
<1> USE Apart, EngineAssumption
    DEF IInv, TypeOK, entryVars, credVars, callVars, bgVars, loopVars,
        EntriesOK, CallsOK, RefreshersOK
<1>1. ASSUME NEW t \in Threads, NEW k \in Keys, Lookup(t, k) PROVE EntriesOK'
  BY <1>1 DEF Lookup
<1>2. ASSUME NEW t \in Threads, Trigger(t) PROVE EntriesOK'
  BY <1>2 DEF Trigger
<1>3. ASSUME NEW t \in Threads, Join(t) \/ Lead(t) \/ Return(t) PROVE EntriesOK'
  BY <1>3 DEF Join, Lead, Return
<1>4. ASSUME NEW t \in Threads, Exchange(t) PROVE EntriesOK'
  BY <1>4 DEF Exchange, Mint
<1>5. ASSUME NEW t \in Threads, Publish(t) PROVE EntriesOK'
  BY <1>5 DEF Publish, Told
<1>6. ASSUME NEW t \in Threads, Store(t) PROVE EntriesOK'
  BY <1>6 DEF Store, Put
<1>7. ASSUME NEW c \in Creds, RefreshExchange(c) PROVE EntriesOK'
  BY <1>7 DEF RefreshExchange, Mint
<1>8. ASSUME NEW c \in Creds, RefreshApply(c) PROVE EntriesOK'
  BY <1>8 DEF RefreshApply, Put
<1>9. ASSUME NEW c \in Creds, RefreshFails(c) \/ Age(c) PROVE EntriesOK'
  BY <1>9 DEF RefreshFails, Age
<1>10. CASE Collect \/ LoopStops \/ Close \/ CloseReturns
  BY <1>10 DEF Collect, LoopStops, Close, CloseReturns
<1>11. CASE Mark
  BY <1>11 DEF Mark, ToRefresh, Cached
<1>12. ASSUME NEW k \in Keys, Invalidate(k) PROVE EntriesOK'
  BY <1>12 DEF Invalidate
<1>13. CASE UNCHANGED vars
  BY <1>13 DEF vars
<1> QED
  BY Steps, <1>1, <1>2, <1>3, <1>4, <1>5, <1>6, <1>7,
     <1>8, <1>9, <1>10, <1>11, <1>12, <1>13

\* A background refresh belongs to a refreshing entry to its end.
LEMMA RefreshersStep == IInv /\ [Next]_vars => RefreshersOK'
<1> SUFFICES ASSUME IInv, [Next]_vars PROVE RefreshersOK'
  OBVIOUS
<1> USE Apart, EngineAssumption
    DEF IInv, TypeOK, entryVars, credVars, callVars, bgVars, loopVars,
        RefreshersOK, EntriesOK, PendingOK, CallsOK
<1>1. ASSUME NEW t \in Threads, NEW k \in Keys, Lookup(t, k) PROVE RefreshersOK'
  BY <1>1 DEF Lookup
<1>2. ASSUME NEW t \in Threads, Trigger(t) PROVE RefreshersOK'
  BY <1>2 DEF Trigger
<1>3. ASSUME NEW t \in Threads, Join(t) \/ Lead(t) \/ Return(t) PROVE RefreshersOK'
  BY <1>3 DEF Join, Lead, Return
<1>4. ASSUME NEW t \in Threads, Exchange(t) PROVE RefreshersOK'
  BY <1>4 DEF Exchange, Mint
<1>5. ASSUME NEW t \in Threads, Publish(t) PROVE RefreshersOK'
  BY <1>5 DEF Publish, Told
<1>6. ASSUME NEW t \in Threads, Store(t) PROVE RefreshersOK'
  BY <1>6 DEF Store, Put
<1>7. ASSUME NEW c \in Creds, RefreshExchange(c) PROVE RefreshersOK'
  BY <1>7 DEF RefreshExchange, Mint
<1>8. ASSUME NEW c \in Creds, RefreshApply(c) PROVE RefreshersOK'
  BY <1>8 DEF RefreshApply, Put
<1>9. ASSUME NEW c \in Creds, RefreshFails(c) \/ Age(c) PROVE RefreshersOK'
  BY <1>9 DEF RefreshFails, Age
<1>10. CASE Collect \/ LoopStops \/ Close \/ CloseReturns
  BY <1>10 DEF Collect, LoopStops, Close, CloseReturns
<1>11. CASE Mark
  BY <1>11 DEF Mark, ToRefresh, Cached
<1>12. ASSUME NEW k \in Keys, Invalidate(k) PROVE RefreshersOK'
  BY <1>12 DEF Invalidate
<1>13. CASE UNCHANGED vars
  BY <1>13 DEF vars
<1> QED
  BY Steps, <1>1, <1>2, <1>3, <1>4, <1>5, <1>6, <1>7,
     <1>8, <1>9, <1>10, <1>11, <1>12, <1>13

\* Every credential is carried to the cache once.
LEMMA PendingStep == IInv /\ [Next]_vars => PendingOK'
<1> SUFFICES ASSUME IInv, [Next]_vars PROVE PendingOK'
  OBVIOUS
<1> USE Apart, EngineAssumption
    DEF IInv, TypeOK, entryVars, credVars, callVars, bgVars, loopVars,
        PendingOK, RefreshersOK, CallsOK, EntriesOK
<1>1. ASSUME NEW t \in Threads, NEW k \in Keys, Lookup(t, k) PROVE PendingOK'
  BY <1>1 DEF Lookup
<1>2. ASSUME NEW t \in Threads, Trigger(t) PROVE PendingOK'
  BY <1>2 DEF Trigger
<1>3. ASSUME NEW t \in Threads, Join(t) \/ Lead(t) \/ Return(t) PROVE PendingOK'
  BY <1>3 DEF Join, Lead, Return
<1>4. ASSUME NEW t \in Threads, Exchange(t) PROVE PendingOK'
  BY <1>4 DEF Exchange, Mint
<1>5. ASSUME NEW t \in Threads, Publish(t) PROVE PendingOK'
  BY <1>5 DEF Publish, Told
<1>6. ASSUME NEW t \in Threads, Store(t) PROVE PendingOK'
  BY <1>6 DEF Store, Put
<1>7. ASSUME NEW c \in Creds, RefreshExchange(c) PROVE PendingOK'
  BY <1>7 DEF RefreshExchange, Mint
<1>8. ASSUME NEW c \in Creds, RefreshApply(c) PROVE PendingOK'
  BY <1>8 DEF RefreshApply, Put
<1>9. ASSUME NEW c \in Creds, RefreshFails(c) \/ Age(c) PROVE PendingOK'
  BY <1>9 DEF RefreshFails, Age
<1>10. CASE Collect \/ LoopStops \/ Close \/ CloseReturns
  BY <1>10 DEF Collect, LoopStops, Close, CloseReturns
<1>11. CASE Mark
  BY <1>11 DEF Mark, ToRefresh, Cached
<1>12. ASSUME NEW k \in Keys, Invalidate(k) PROVE PendingOK'
  BY <1>12 DEF Invalidate
<1>13. CASE UNCHANGED vars
  BY <1>13 DEF vars
<1> QED
  BY Steps, <1>1, <1>2, <1>3, <1>4, <1>5, <1>6, <1>7,
     <1>8, <1>9, <1>10, <1>11, <1>12, <1>13

\* A flight is registered as long as it has a leader.
LEMMA LeadersStep == IInv /\ [Next]_vars => LeadersOK'
<1> SUFFICES ASSUME IInv, [Next]_vars PROVE LeadersOK'
  OBVIOUS
<1> USE Apart, EngineAssumption
    DEF IInv, TypeOK, entryVars, credVars, callVars, bgVars, loopVars,
        LeadersOK, CallsOK
<1>1. ASSUME NEW t \in Threads, NEW k \in Keys, Lookup(t, k) PROVE LeadersOK'
  BY <1>1 DEF Lookup
<1>2. ASSUME NEW t \in Threads, Trigger(t) PROVE LeadersOK'
  BY <1>2 DEF Trigger
<1>3. ASSUME NEW t \in Threads, Join(t) \/ Lead(t) \/ Return(t) PROVE LeadersOK'
  BY <1>3 DEF Join, Lead, Return
<1>4. ASSUME NEW t \in Threads, Exchange(t) PROVE LeadersOK'
  BY <1>4 DEF Exchange, Mint
<1>5. ASSUME NEW t \in Threads, Publish(t) PROVE LeadersOK'
  BY <1>5 DEF Publish, Told
<1>6. ASSUME NEW t \in Threads, Store(t) PROVE LeadersOK'
  BY <1>6 DEF Store, Put
<1>7. ASSUME NEW c \in Creds, RefreshExchange(c) PROVE LeadersOK'
  BY <1>7 DEF RefreshExchange, Mint
<1>8. ASSUME NEW c \in Creds, RefreshApply(c) PROVE LeadersOK'
  BY <1>8 DEF RefreshApply, Put
<1>9. ASSUME NEW c \in Creds, RefreshFails(c) \/ Age(c) PROVE LeadersOK'
  BY <1>9 DEF RefreshFails, Age
<1>10. CASE Collect \/ LoopStops \/ Close \/ CloseReturns
  BY <1>10 DEF Collect, LoopStops, Close, CloseReturns
<1>11. CASE Mark
  BY <1>11 DEF Mark, ToRefresh, Cached
<1>12. ASSUME NEW k \in Keys, Invalidate(k) PROVE LeadersOK'
  BY <1>12 DEF Invalidate
<1>13. CASE UNCHANGED vars
  BY <1>13 DEF vars
<1> QED
  BY Steps, <1>1, <1>2, <1>3, <1>4, <1>5, <1>6, <1>7,
     <1>8, <1>9, <1>10, <1>11, <1>12, <1>13

\* A refresh ends by replacing or deleting its entry, if it is still cached.
LEMMA AttendedStep == IInv /\ [Next]_vars => RefreshingAttended'
<1> SUFFICES ASSUME IInv, [Next]_vars PROVE RefreshingAttended'
  OBVIOUS
<1> USE Apart, EngineAssumption
    DEF IInv, TypeOK, entryVars, credVars, callVars, bgVars, loopVars,
        RefreshingAttended, RefreshersOK, EntriesOK, PendingOK, CallsOK
<1>1. ASSUME NEW t \in Threads, NEW k \in Keys, Lookup(t, k) PROVE RefreshingAttended'
  BY <1>1 DEF Lookup
<1>2. ASSUME NEW t \in Threads, Trigger(t) PROVE RefreshingAttended'
  BY <1>2 DEF Trigger
<1>3. ASSUME NEW t \in Threads, Join(t) \/ Lead(t) \/ Return(t) PROVE RefreshingAttended'
  BY <1>3 DEF Join, Lead, Return
<1>4. ASSUME NEW t \in Threads, Exchange(t) PROVE RefreshingAttended'
  BY <1>4 DEF Exchange, Mint
<1>5. ASSUME NEW t \in Threads, Publish(t) PROVE RefreshingAttended'
  BY <1>5 DEF Publish, Told
<1>6. ASSUME NEW t \in Threads, Store(t) PROVE RefreshingAttended'
  BY <1>6 DEF Store, Put
<1>7. ASSUME NEW c \in Creds, RefreshExchange(c) PROVE RefreshingAttended'
  BY <1>7 DEF RefreshExchange, Mint
<1>8. ASSUME NEW c \in Creds, RefreshApply(c) PROVE RefreshingAttended'
  BY <1>8 DEF RefreshApply, Put
<1>9. ASSUME NEW c \in Creds, RefreshFails(c) \/ Age(c) PROVE RefreshingAttended'
  BY <1>9 DEF RefreshFails, Age
<1>10. CASE Collect \/ LoopStops \/ Close \/ CloseReturns
  BY <1>10 DEF Collect, LoopStops, Close, CloseReturns
<1>11. CASE Mark
  BY <1>11 DEF Mark, ToRefresh, Cached
<1>12. ASSUME NEW k \in Keys, Invalidate(k) PROVE RefreshingAttended'
  BY <1>12 DEF Invalidate
<1>13. CASE UNCHANGED vars
  BY <1>13 DEF vars
<1> QED
  BY Steps, <1>1, <1>2, <1>3, <1>4, <1>5, <1>6, <1>7,
     <1>8, <1>9, <1>10, <1>11, <1>12, <1>13

\* IInv holds in every reachable state.
LEMMA Invariance == Spec => []IInv
<1>1. IInv /\ [Next]_vars => IInv'
  BY TypeStep, CallsStep, EntriesStep, RefreshersStep, PendingStep, LeadersStep,
     AttendedStep DEF IInv
<1> QED
  BY InitIInv, <1>1, PTL DEF Spec

-----------------------------------------------------------------------------

\* Every variable keeps its type.
THEOREM TypeCorrectness == Spec => []TypeOK
<1>1. IInv => TypeOK
  BY DEF IInv
<1> QED
  BY Invariance, <1>1, PTL

\* engine.go never serves or caches a credential under a key it was not
\* exchanged for.
THEOREM KeyIsolationHolds == Spec => []KeyIsolation
<1>1. IInv => KeyIsolation
  BY DEF IInv, CallsOK, EntriesOK, KeyIsolation
<1> QED
  BY Invariance, <1>1, PTL

\* A cached entry marked entryRefreshing always has its goroutine.
THEOREM RefreshingAttendedHolds == Spec => []RefreshingAttended
<1>1. IInv => RefreshingAttended
  BY DEF IInv
<1> QED
  BY Invariance, <1>1, PTL

\* A key is registered in flight exactly as long as one thread leads it.
THEOREM FlightHasLeaderHolds == Spec => []FlightHasLeader
<1>1. IInv => FlightHasLeader
  BY Apart DEF IInv, TypeOK, LeadersOK, FlightHasLeader
<1> QED
  BY Invariance, <1>1, PTL

\* An entry gets at most one background exchange in its life.
THEOREM OneRefreshPerEntryHolds == Spec => OneRefreshPerEntry
<1> DEFINE Once(c) == estate[c] = "refreshing" =>
             /\ estate'[c] = "refreshing"
             /\ refresher[c] # "exchange" => refresher'[c] # "exchange"
<1>1. ASSUME IInv, [Next]_vars, NEW d \in Creds PROVE Once(d)
  <2> USE <1>1, Apart
      DEF IInv, TypeOK, entryVars, credVars, callVars, bgVars, loopVars
  <2>1. ASSUME NEW t \in Threads, NEW k \in Keys, Lookup(t, k) PROVE Once(d)
    BY <2>1 DEF Lookup
  <2>2. ASSUME NEW t \in Threads, Trigger(t) PROVE Once(d)
    BY <2>2 DEF Trigger
  <2>3. ASSUME NEW t \in Threads,
               Join(t) \/ Lead(t) \/ Exchange(t) \/ Publish(t) \/ Return(t)
        PROVE Once(d)
    BY <2>3 DEF Join, Lead, Exchange, Publish, Return
  <2>4. ASSUME NEW t \in Threads, Store(t) PROVE Once(d)
    BY <2>4 DEF Store, Put, PendingOK, CallsOK
  <2>5. ASSUME NEW c \in Creds, RefreshExchange(c) PROVE Once(d)
    BY <2>5 DEF RefreshExchange
  <2>6. ASSUME NEW c \in Creds, RefreshApply(c) PROVE Once(d)
    BY <2>6 DEF RefreshApply, Put, PendingOK, RefreshersOK
  <2>7. ASSUME NEW c \in Creds, RefreshFails(c) \/ Age(c) PROVE Once(d)
    BY <2>7 DEF RefreshFails, Age
  <2>8. CASE Mark
    BY <2>8 DEF Mark, ToRefresh
  <2>9. CASE Collect \/ LoopStops \/ Close \/ CloseReturns \/ UNCHANGED vars
    BY <2>9 DEF Collect, LoopStops, Close, CloseReturns, vars
  <2>10. ASSUME NEW k \in Keys, Invalidate(k) PROVE Once(d)
    BY <2>10 DEF Invalidate
  <2> QED
    BY Steps, <2>1, <2>2, <2>3, <2>4, <2>5, <2>6, <2>7, <2>8, <2>9, <2>10
<1>2. IInv /\ [Next]_vars => [\A c \in Creds : Once(c)]_vars
  BY <1>1
<1> QED
  BY Invariance, <1>2, PTL DEF Spec, OneRefreshPerEntry

-----------------------------------------------------------------------------
(* Invalidation *)

\* A credential in the cache, or on its way there, is of the present epoch of
\* its key; a call began in this epoch or before and got nothing older.
DatesOK ==
  /\ \A k \in Keys : cache[k] # None => born[cache[k]] = epoch[k]
  /\ \A c \in Creds : refresher[c] = "apply" => born[fresh[c]] = epoch[mintedFor[c]]
  /\ \A t \in Threads :
       /\ pc[t] # "idle" => since[t] <= epoch[key[t]]
       /\ pc[t] \in {"publish", "store"} /\ got[t] \in Creds
            => born[got[t]] = epoch[key[t]]
       /\ pc[t] \in {"trigger", "hit", "answered"} /\ got[t] \in Creds
            => since[t] <= born[got[t]]

LEMMA DatesInit == Init => DatesOK
BY Apart, EngineAssumption DEF Init, DatesOK

LEMMA DatesStep == IInv /\ DatesOK /\ [Next]_vars => DatesOK'
<1> SUFFICES ASSUME IInv, DatesOK, [Next]_vars PROVE DatesOK'
  OBVIOUS
<1> USE Apart, EngineAssumption
    DEF IInv, TypeOK, entryVars, credVars, callVars, bgVars, loopVars,
        DatesOK, RefreshersOK, EntriesOK, CallsOK
<1>1. ASSUME NEW t \in Threads, NEW k \in Keys, Lookup(t, k) PROVE DatesOK'
  BY <1>1 DEF Lookup
<1>2. ASSUME NEW t \in Threads, Trigger(t) PROVE DatesOK'
  BY <1>2 DEF Trigger
<1>3. ASSUME NEW t \in Threads, Join(t) \/ Lead(t) \/ Return(t) PROVE DatesOK'
  BY <1>3 DEF Join, Lead, Return
<1>4. ASSUME NEW t \in Threads, Exchange(t) PROVE DatesOK'
  BY <1>4 DEF Exchange, Mint
<1>5. ASSUME NEW t \in Threads, Publish(t) PROVE DatesOK'
  BY <1>5 DEF Publish, Told
<1>6. ASSUME NEW t \in Threads, Store(t) PROVE DatesOK'
  BY <1>6 DEF Store, Put
<1>7. ASSUME NEW c \in Creds, RefreshExchange(c) PROVE DatesOK'
  BY <1>7 DEF RefreshExchange, Mint
<1>8. ASSUME NEW c \in Creds, RefreshApply(c) PROVE DatesOK'
  BY <1>8 DEF RefreshApply, Put
<1>9. ASSUME NEW c \in Creds, RefreshFails(c) \/ Age(c) PROVE DatesOK'
  BY <1>9 DEF RefreshFails, Age
<1>10. CASE Collect \/ LoopStops \/ Close \/ CloseReturns
  BY <1>10 DEF Collect, LoopStops, Close, CloseReturns
<1>11. CASE Mark
  BY <1>11 DEF Mark, ToRefresh
<1>12. ASSUME NEW k \in Keys, Invalidate(k) PROVE DatesOK'
  <2>1. CASE UNCHANGED epoch
    BY <1>12, <2>1 DEF Invalidate
  <2>2. CASE ~UnderWay(k) /\ epoch' = [epoch EXCEPT ![k] = @ + 1]
    BY <1>12, <2>2 DEF Invalidate, UnderWay
  <2>3. QED
    BY <1>12, <2>1, <2>2 DEF Invalidate, CountInvalidation
<1>13. CASE UNCHANGED vars
  BY <1>13 DEF vars
<1> QED
  BY Steps, <1>1, <1>2, <1>3, <1>4, <1>5, <1>6, <1>7,
     <1>8, <1>9, <1>10, <1>11, <1>12, <1>13

\* An invalidation that meets no exchange of its key forces a fresh one.
THEOREM InvalidateForcesExchangeHolds == Spec => []InvalidateForcesExchange
<1>1. IInv /\ DatesOK => InvalidateForcesExchange
  <2> SUFFICES ASSUME IInv, DatesOK, NEW t \in Threads,
                      pc[t] \in {"hit", "answered"}, got[t] \in Creds
               PROVE  born[got[t]] >= since[t]
    BY DEF InvalidateForcesExchange
  <2> QED
    BY DEF IInv, TypeOK, DatesOK
<1> QED
  BY Invariance, DatesInit, DatesStep, <1>1, PTL DEF Spec

-----------------------------------------------------------------------------
(* The refinement *)

\* The members of the flight of k and what a caller was told, as Flight sees them.
Members(k) == {t \in Threads : key[t] = k /\ pc[t] \in {"exchange", "publish", "wait"}}
Answer(t) == IF pc[t] \in {"store", "answered"} THEN got[t] ELSE None

group == [k \in Keys |-> Members(k)]
outcome == [t \in Threads |-> Answer(t)]

LEMMA FlightInit == Init => Flight!Init
BY Apart DEF Init, Flight!Init

\* A step that moves no caller into, within or out of a flight or an answer
\* is a stutter of the abstract group.
LEMMA Stutter ==
  ASSUME \A t \in Threads : Answer(t)' = Answer(t),
         \A k \in Keys : Members(k)' = Members(k)
  PROVE UNCHANGED Flight!vars
BY DEF Answer, Members, Flight!vars

\* The abstract state changes where Members and Answer do.
LEMMA GroupChange ==
  ASSUME NEW k0 \in Keys, NEW S,
         \A k \in Keys : Members(k)' = IF k = k0 THEN S ELSE Members(k)
  PROVE  group' = [group EXCEPT ![k0] = S]
<1>1. group' = [k \in Keys |-> Members(k)']
  BY DEF group
<1>2. [group EXCEPT ![k0] = S] = [k \in Keys |-> IF k = k0 THEN S ELSE Members(k)]
  BY DEF group
<1> QED
  BY <1>1, <1>2

LEMMA OutcomeChange ==
  ASSUME NEW f, \A u \in Threads : Answer(u)' = f[u], f = [u \in Threads |-> f[u]]
  PROVE  outcome' = f
<1>1. outcome' = [u \in Threads |-> Answer(u)']
  BY DEF outcome
<1> QED
  BY <1>1

\* Join and Lead enter the group, Publish lands it, Return leaves; every
\* other step stutters.
LEMMA FlightStep == IInv /\ [Next]_vars => [Flight!Next]_(Flight!vars)
<1> SUFFICES ASSUME IInv, [Next]_vars PROVE [Flight!Next]_(Flight!vars)
  OBVIOUS
<1> USE Apart DEF IInv, TypeOK
<1>1. ASSUME NEW t \in Threads, NEW k \in Keys, Lookup(t, k)
      PROVE UNCHANGED Flight!vars
  BY <1>1, Stutter DEF Lookup, Answer, Members, CallsOK
<1>2. ASSUME NEW t \in Threads, Trigger(t) \/ Exchange(t) \/ Store(t)
      PROVE UNCHANGED Flight!vars
  BY <1>2, Stutter DEF Trigger, Exchange, Store, Answer, Members
<1>3. ASSUME NEW t \in Threads, Join(t) \/ Lead(t),
             NEW k0 \in Keys, key[t] = k0
      PROVE Flight!Enter(t, k0)
  <2>1. /\ pc[t] = "flight" /\ key[t] \in Keys
        /\ key' = key /\ got' = got
        /\ \/ pc' = [pc EXCEPT ![t] = "wait"]
           \/ pc' = [pc EXCEPT ![t] = "exchange"]
    BY <1>3 DEF Join, Lead, CallsOK
  <2>2. \A k \in Keys : /\ t \notin Members(k)
                        /\ Members(k)' = IF k = key[t] THEN Members(key[t]) \cup {t}
                                                       ELSE Members(k)
    BY <2>1 DEF Members
  <2>3. Answer(t) = None /\ \A u \in Threads : Answer(u)' = Answer(u)
    BY <2>1 DEF Answer
  <2>4. group' = [group EXCEPT ![key[t]] = Members(key[t]) \cup {t}]
    BY <2>1, <2>2, GroupChange
  <2>5. outcome' = outcome
    BY <2>3, OutcomeChange DEF outcome
  <2>6. group[key[t]] = Members(key[t])
    BY <2>1 DEF group
  <2>7. outcome[t] = None /\ \A k \in Keys : t \notin group[k]
    BY <2>2, <2>3 DEF group, outcome
  <2> QED
    BY <1>3, <2>4, <2>5, <2>6, <2>7
    DEF Flight!Enter, Flight!Free, group, outcome, Members, Answer
<1>4. ASSUME NEW t \in Threads, Publish(t), NEW k0 \in Keys, key[t] = k0,
             NEW o \in Creds \cup {Failed}, got[t] = o
      PROVE Flight!Land(k0, o)
  <2>1. pc[t] = "publish" /\ key[t] \in Keys /\ key' = key
    BY <1>4 DEF Publish, CallsOK
  <2>2. Members(key[t]) = Told(t)
    BY <2>1 DEF Members, Told, LeadersOK
  <2>3. \A k \in Keys : Members(k)' = IF k = key[t] THEN {} ELSE Members(k)
    BY <1>4, <2>1, <2>2 DEF Publish, Members, Told
  <2>4. /\ t \in Members(key[t])
        /\ \A u \in Threads :
             Answer(u)' = IF u \in Members(key[t]) THEN got[t] ELSE Answer(u)
    BY <1>4, <2>1, <2>2 DEF Publish, Answer, Told
  <2>5. group' = [group EXCEPT ![key[t]] = {}]
    BY <2>1, <2>3, GroupChange
  <2>6. group[key[t]] = Members(key[t])
    BY <2>1 DEF group
  <2>7. outcome' = [u \in Threads |-> IF u \in group[key[t]] THEN got[t] ELSE outcome[u]]
    BY <2>4, <2>6, OutcomeChange DEF outcome
  <2>8. group[key[t]] # {}
    BY <2>4, <2>6
  <2> QED
    BY <1>4, <2>5, <2>7, <2>8 DEF Flight!Land, group, outcome, Members, Answer
<1>5. ASSUME NEW t \in Threads, Return(t), pc[t] = "answered"
      PROVE Flight!Leave(t)
  <2>1. \A k \in Keys : Members(k)' = Members(k)
    BY <1>5 DEF Return, Members
  <2>2. /\ Answer(t) # None
        /\ \A u \in Threads : Answer(u)' = IF u = t THEN None ELSE Answer(u)
    BY <1>5 DEF Return, Answer, CallsOK
  <2>3. outcome' = [u \in Threads |-> IF u = t THEN None ELSE outcome[u]]
    BY <2>2, OutcomeChange DEF outcome
  <2>4. [u \in Threads |-> IF u = t THEN None ELSE outcome[u]] = [outcome EXCEPT ![t] = None]
    BY DEF outcome
  <2>5. outcome[t] # None
    BY <2>2 DEF outcome
  <2>6. group' = group
    BY <2>1 DEF group
  <2> QED
    BY <2>3, <2>4, <2>5, <2>6 DEF Flight!Leave, group, outcome, Members, Answer
<1>6. ASSUME NEW t \in Threads, Return(t), pc[t] = "hit"
      PROVE UNCHANGED Flight!vars
  BY <1>6, Stutter DEF Return, Answer, Members
<1>7. CASE UNCHANGED callVars
  BY <1>7, Stutter DEF callVars, Answer, Members
<1>8. ASSUME NEW c \in Creds, \/ RefreshExchange(c) \/ RefreshApply(c)
                              \/ RefreshFails(c) \/ Age(c)
      PROVE UNCHANGED callVars
  BY <1>8 DEF RefreshExchange, RefreshApply, RefreshFails, Age
<1>9. ASSUME Collect \/ Mark \/ LoopStops \/ Close \/ CloseReturns
      PROVE UNCHANGED callVars
  BY <1>9 DEF Collect, Mark, LoopStops, Close, CloseReturns
<1>10. ASSUME NEW k \in Keys, Invalidate(k) PROVE UNCHANGED callVars
  BY <1>10 DEF Invalidate
<1>11. CASE UNCHANGED vars
  BY <1>7, <1>11 DEF vars, callVars
<1>12. ASSUME NEW t \in Threads, Return(t) PROVE pc[t] = "answered" \/ pc[t] = "hit"
  BY <1>12 DEF Return
<1>13. ASSUME NEW t \in Threads, Publish(t) \/ Join(t) \/ Lead(t)
       PROVE key[t] \in Keys /\ (Publish(t) => got[t] \in Creds \cup {Failed})
  BY <1>13 DEF Publish, Join, Lead, CallsOK
<1>14. ASSUME NEW t \in Threads, Join(t) \/ Lead(t) PROVE Flight!Next
  <2>1. PICK k0 \in Keys : key[t] = k0
    BY <1>13, <1>14
  <2>2. Flight!Enter(t, k0)
    BY <1>3, <1>14, <2>1
  <2> QED
    BY <2>2 DEF Flight!Next
<1>15. ASSUME NEW t \in Threads, Publish(t) PROVE Flight!Next
  <2>1. PICK k0 \in Keys, o \in Creds \cup {Failed} : key[t] = k0 /\ got[t] = o
    BY <1>13, <1>15
  <2>2. Flight!Land(k0, o)
    BY <1>4, <1>15, <2>1
  <2> QED
    BY <2>2 DEF Flight!Next
<1>16. ASSUME NEW t \in Threads, Return(t) PROVE Flight!Next \/ UNCHANGED Flight!vars
  BY <1>5, <1>6, <1>12, <1>16 DEF Flight!Next
<1> QED
  BY Steps, <1>1, <1>2, <1>7, <1>8, <1>9, <1>10, <1>11, <1>14, <1>15, <1>16

\* Engine.Credential implements the single-flight group: the calls that miss
\* share one exchange per key and its one outcome.
THEOREM ImplementsSingleFlight == Spec => IsSingleFlight
BY FlightInit, FlightStep, Invariance, PTL DEF Spec, IsSingleFlight, Flight!Spec

=============================================================================
