-------------------------- MODULE OAuthTokensProofs --------------------------
(***************************************************************************)
(* What OAuthTokens guarantees for any number of goroutines, services and  *)
(* tokens, and that RefreshGuard.Do implements SingleFlight.               *)
(*                                                                         *)
(* That no consumed refresh token is presented rests on three facts which  *)
(* IInv adds to it: a service has one leader, which its registration and   *)
(* the goroutine agree on; a token belongs to the service it was issued    *)
(* to; and a token on its way to the vault is held once and not consumed.  *)
(***************************************************************************)
EXTENDS OAuthTokens, TLAPS

Leading == {"read", "request", "write", "publish"}

\* What a goroutine holds at each point of RefreshToken and of an authorisation.
CallsOK ==
  \A t \in Threads :
    /\ pc[t] = "idle" => svc[t] = None
    /\ pc[t] # "idle" => svc[t] \in Services
    /\ pc[t] \in {"write", "save"} => got[t] \in Tokens
    /\ pc[t] \in {"publish", "answered"} => got[t] # None
    /\ pc[t] \in {"idle", "guard", "read", "request", "wait", "code"} => got[t] = None
    /\ pc[t] \in {"request", "write"} => held[t] \in Tokens

\* The registration of a flight and its leader know each other.
LeadersOK ==
  /\ \A t \in Threads : pc[t] \in Leading => inflight[svc[t]] = t
  /\ \A s \in Services : inflight[s] # None =>
       svc[inflight[s]] = s /\ pc[inflight[s]] \in Leading

\* A token is consumed or held by a leader only after it was in the vault.
WrittenOK ==
  /\ spent \subseteq written
  /\ \A k \in written : issuedTo[k] # None
  /\ \A s \in Services : stored[s] # None => stored[s] \in written
  /\ \A t \in Threads : /\ held[t] # None => held[t] \in written
                        /\ pc[t] = "request" => issuedTo[held[t]] = svc[t]
                        /\ pc[t] = "publish" /\ got[t] \in Tokens => got[t] \in written

\* A token on its way to the vault is new there, and one goroutine has it.
FreshOK ==
  \A t \in Threads : pc[t] \in {"write", "save"} =>
    /\ got[t] \notin written
    /\ \A u \in Threads : pc[u] \in {"write", "save"} /\ got[u] = got[t] => u = t

IInv ==
  /\ TypeOK
  /\ CallsOK
  /\ LeadersOK
  /\ WrittenOK
  /\ FreshOK
  /\ ServiceIsolation
  /\ WrittenBeforeReleased
  /\ UsableAtRest
  /\ NoReplay

-----------------------------------------------------------------------------

\* None and Failed are neither tokens, services nor goroutines.
LEMMA Apart ==
  /\ None \notin Tokens /\ None \notin Services /\ None \notin Threads
  /\ Failed \notin Tokens /\ Failed # None
BY TokensAssumption

\* Next split into its actions, for the lemmas that follow.
LEMMA Steps ==
  ASSUME [Next]_vars
  PROVE \/ \E t \in Threads, s \in Services : RefreshToken(t, s) \/ Authorize(t, s)
        \/ \E t \in Threads :
             \/ Join(t) \/ Lead(t) \/ ReadTokens(t) \/ RequestGranted(t)
             \/ RequestLost(t) \/ RequestRefused(t) \/ WriteTokens(t) \/ WriteFails(t)
             \/ Publish(t) \/ Return(t) \/ ExchangeCode(t) \/ SaveTokens(t)
        \/ UNCHANGED vars
BY DEF Next, RefreshStep, LeaderStep

LEMMA InitIInv == Init => IInv
<1> SUFFICES ASSUME Init PROVE IInv
  OBVIOUS
<1> USE Apart DEF Init
<1>1. TypeOK
  BY DEF TypeOK
<1>2. CallsOK /\ LeadersOK /\ WrittenOK /\ FreshOK
  BY DEF CallsOK, LeadersOK, WrittenOK, FreshOK, Leading
<1>3. ServiceIsolation /\ WrittenBeforeReleased /\ UsableAtRest /\ NoReplay
  BY DEF ServiceIsolation, WrittenBeforeReleased, UsableAtRest, NoReplay
<1> QED
  BY <1>1, <1>2, <1>3 DEF IInv

-----------------------------------------------------------------------------
(* What each step changes *)

LEMMA BeginStep ==
  ASSUME IInv, NEW t \in Threads, NEW s \in Services, RefreshToken(t, s) \/ Authorize(t, s)
  PROVE  IInv'
<1> USE Apart DEF IInv, TypeOK, RefreshToken, Authorize, Begin, vault, provider
<1>1. TypeOK' /\ CallsOK'
  BY DEF CallsOK
<1>2. LeadersOK'
  BY DEF LeadersOK, CallsOK, Leading
<1>3. WrittenOK' /\ FreshOK' /\ WrittenBeforeReleased'
  BY DEF WrittenOK, FreshOK, WrittenBeforeReleased
<1>4. ServiceIsolation'
  BY DEF ServiceIsolation, CallsOK
<1>5. UsableAtRest' /\ NoReplay'
  BY DEF UsableAtRest, NoReplay
<1> QED
  BY <1>1, <1>2, <1>3, <1>4, <1>5

LEMMA JoinStep ==
  ASSUME IInv, NEW t \in Threads, Join(t)
  PROVE  IInv'
<1> USE Apart DEF IInv, TypeOK, Join, vault, provider
<1>1. TypeOK' /\ CallsOK'
  BY DEF CallsOK
<1>2. LeadersOK'
  BY DEF LeadersOK, CallsOK, Leading
<1>3. WrittenOK' /\ FreshOK' /\ WrittenBeforeReleased'
  BY DEF WrittenOK, FreshOK, WrittenBeforeReleased
<1>4. ServiceIsolation' /\ UsableAtRest' /\ NoReplay'
  BY DEF ServiceIsolation, UsableAtRest, NoReplay
<1> QED
  BY <1>1, <1>2, <1>3, <1>4

LEMMA LeadStep ==
  ASSUME IInv, NEW t \in Threads, Lead(t)
  PROVE  IInv'
<1> USE Apart DEF IInv, TypeOK, Lead, vault, provider
<1>1. TypeOK' /\ CallsOK'
  BY DEF CallsOK
<1>2. LeadersOK'
  BY DEF LeadersOK, CallsOK, Leading
<1>3. WrittenOK' /\ FreshOK' /\ WrittenBeforeReleased'
  BY DEF WrittenOK, FreshOK, WrittenBeforeReleased
<1>4. ServiceIsolation' /\ UsableAtRest' /\ NoReplay'
  BY DEF ServiceIsolation, UsableAtRest, NoReplay
<1> QED
  BY <1>1, <1>2, <1>3, <1>4

\* The record that is read was not consumed: the leader that would be about to
\* overwrite it is this one, and it is only about to read.
LEMMA ReadStep ==
  ASSUME IInv, NEW t \in Threads, ReadTokens(t)
  PROVE  IInv'
<1> USE Apart DEF IInv, TypeOK, ReadTokens, Fails, vault, provider
<1>1. TypeOK' /\ CallsOK'
  BY DEF CallsOK
<1>2. LeadersOK'
  BY DEF LeadersOK, CallsOK, Leading
<1>3. WrittenOK'
  BY DEF WrittenOK, ServiceIsolation, CallsOK
<1>4. FreshOK' /\ WrittenBeforeReleased' /\ ServiceIsolation' /\ UsableAtRest'
  BY DEF FreshOK, WrittenBeforeReleased, ServiceIsolation, UsableAtRest
<1>5. NoReplay'
  <2>1. svc[t] \in Services /\ pc[t] = "read"
    BY DEF CallsOK
  <2>2. \A u \in Threads : svc[u] = svc[t] /\ pc[u] = "write" => FALSE
    BY <2>1 DEF LeadersOK, Leading
  <2>3. stored[svc[t]] \in spent => svc[t] \in faulted
    BY <2>1, <2>2 DEF UsableAtRest
  <2> QED
    BY <2>3 DEF NoReplay
<1> QED
  BY <1>1, <1>2, <1>3, <1>4, <1>5

\* One leader per service, and a held token belongs to the service of its leader.
LEMMA HeldOnce ==
  ASSUME IInv, NEW t \in Threads, NEW u \in Threads,
         pc[t] = "request", pc[u] = "request", held[t] = held[u]
  PROVE  u = t
<1>1. svc[t] = svc[u]
  BY DEF IInv, WrittenOK
<1> QED
  BY <1>1 DEF IInv, LeadersOK, Leading

LEMMA GrantedStep ==
  ASSUME IInv, NEW t \in Threads, RequestGranted(t)
  PROVE  IInv'
<1> USE Apart DEF IInv, TypeOK, RequestGranted, Issue, vault, provider
<1>0. PICK k \in Tokens : /\ issuedTo[k] = None
                          /\ issuedTo' = [issuedTo EXCEPT ![k] = svc[t]]
                          /\ got' = [got EXCEPT ![t] = k]
  OBVIOUS
<1>1. svc[t] \in Services /\ held[t] \in Tokens /\ held[t] \in written
  BY DEF CallsOK, WrittenOK
<1>2. Consumed(t) \subseteq {held[t]}
  BY DEF Consumed
<1>3. k \notin written
  BY <1>0 DEF WrittenOK
<1>4. /\ \A s \in Services : stored[s] # k
      /\ \A u \in Threads : got[u] # k
  BY <1>0, <1>1 DEF WrittenOK, ServiceIsolation, CallsOK
<1>5. TypeOK' /\ CallsOK'
  BY <1>0, <1>1, <1>2 DEF CallsOK
<1>6. LeadersOK'
  BY DEF LeadersOK, CallsOK, Leading
<1>7. WrittenOK'
  <2>1. spent' \subseteq written
    BY <1>1, <1>2 DEF WrittenOK
  <2>2. \A u \in Threads : held[u] # k
    BY <1>3 DEF WrittenOK
  <2> QED
    BY <1>0, <1>1, <1>3, <2>1, <2>2 DEF WrittenOK
<1>8. FreshOK'
  BY <1>0, <1>3, <1>4 DEF FreshOK
<1>9. ServiceIsolation'
  BY <1>0, <1>1, <1>4 DEF ServiceIsolation
<1>10. WrittenBeforeReleased'
  BY <1>0 DEF WrittenBeforeReleased
<1>11. UsableAtRest'
  <2> SUFFICES ASSUME NEW s \in Services, stored[s] \in spent', s \notin faulted
               PROVE  \E u \in Threads : svc[u] = s /\ pc'[u] = "write" /\ held[u] = stored[s]
    BY DEF UsableAtRest
  <2>1. CASE stored[s] \in spent
    BY <2>1 DEF UsableAtRest
  <2>2. CASE stored[s] = held[t]
    <3>1. svc[t] = s
      BY <1>1, <2>2 DEF WrittenOK, ServiceIsolation
    <3> QED
      BY <2>2, <3>1
  <2> QED
    BY <1>2, <2>1, <2>2
<1>12. NoReplay'
  <2> SUFFICES ASSUME NEW u \in Threads, pc'[u] = "request", held[u] \in spent'
               PROVE  svc[u] \in faulted
    BY DEF NoReplay
  <2>1. u # t /\ pc[u] = "request"
    OBVIOUS
  <2>2. held[u] # held[t]
    BY <2>1, HeldOnce
  <2> QED
    BY <1>2, <2>1, <2>2 DEF NoReplay
<1> QED
  BY <1>5, <1>6, <1>7, <1>8, <1>9, <1>10, <1>11, <1>12

LEMMA LostStep ==
  ASSUME IInv, NEW t \in Threads, RequestLost(t)
  PROVE  IInv'
<1> USE Apart DEF IInv, TypeOK, RequestLost, Fails, vault
<1>1. svc[t] \in Services /\ held[t] \in Tokens /\ held[t] \in written
  BY DEF CallsOK, WrittenOK
<1>2. Consumed(t) \subseteq {held[t]}
  BY DEF Consumed
<1>3. TypeOK' /\ CallsOK'
  BY <1>1, <1>2 DEF CallsOK
<1>4. LeadersOK'
  BY DEF LeadersOK, CallsOK, Leading
<1>5. WrittenOK'
  BY <1>1, <1>2 DEF WrittenOK
<1>6. FreshOK' /\ ServiceIsolation' /\ WrittenBeforeReleased'
  BY DEF FreshOK, ServiceIsolation, WrittenBeforeReleased
<1>7. UsableAtRest'
  <2> SUFFICES ASSUME NEW s \in Services, stored[s] \in spent', s \notin faulted, s # svc[t]
               PROVE  \E u \in Threads : svc[u] = s /\ pc'[u] = "write" /\ held[u] = stored[s]
    BY DEF UsableAtRest
  <2>1. stored[s] # held[t]
    BY <1>1 DEF WrittenOK, ServiceIsolation
  <2> QED
    BY <1>2, <2>1 DEF UsableAtRest
<1>8. NoReplay'
  <2> SUFFICES ASSUME NEW u \in Threads, pc'[u] = "request", held[u] \in spent'
               PROVE  svc[u] \in faulted
    BY DEF NoReplay
  <2>1. u # t /\ pc[u] = "request"
    OBVIOUS
  <2>2. held[u] # held[t]
    BY <2>1, HeldOnce
  <2> QED
    BY <1>2, <2>1, <2>2 DEF NoReplay
<1> QED
  BY <1>3, <1>4, <1>5, <1>6, <1>7, <1>8

LEMMA RefusedStep ==
  ASSUME IInv, NEW t \in Threads, RequestRefused(t)
  PROVE  IInv'
<1> USE Apart DEF IInv, TypeOK, RequestRefused, Fails, vault, provider
<1>1. TypeOK' /\ CallsOK'
  BY DEF CallsOK
<1>2. LeadersOK'
  BY DEF LeadersOK, CallsOK, Leading
<1>3. WrittenOK' /\ FreshOK' /\ WrittenBeforeReleased'
  BY DEF WrittenOK, FreshOK, WrittenBeforeReleased
<1>4. ServiceIsolation' /\ UsableAtRest' /\ NoReplay'
  BY DEF ServiceIsolation, UsableAtRest, NoReplay
<1> QED
  BY <1>1, <1>2, <1>3, <1>4

LEMMA WriteStep ==
  ASSUME IInv, NEW t \in Threads, WriteTokens(t)
  PROVE  IInv'
<1> USE Apart DEF IInv, TypeOK, WriteTokens, WriteRecord, provider
<1>1. /\ svc[t] \in Services /\ got[t] \in Tokens
      /\ got[t] \notin written /\ issuedTo[got[t]] = svc[t]
  BY DEF CallsOK, FreshOK, ServiceIsolation
<1>2. TypeOK' /\ CallsOK'
  BY <1>1 DEF CallsOK
<1>3. LeadersOK'
  BY DEF LeadersOK, CallsOK, Leading
<1>4. WrittenOK'
  BY <1>1 DEF WrittenOK
<1>5. FreshOK' /\ WrittenBeforeReleased'
  BY <1>1 DEF FreshOK, WrittenBeforeReleased, CallsOK
<1>6. ServiceIsolation' /\ NoReplay'
  BY <1>1 DEF ServiceIsolation, NoReplay
<1>7. UsableAtRest'
  <2>1. got[t] \notin spent
    BY <1>1 DEF WrittenOK
  <2> QED
    BY <1>1, <2>1 DEF UsableAtRest
<1> QED
  BY <1>2, <1>3, <1>4, <1>5, <1>6, <1>7

LEMMA WriteFailsStep ==
  ASSUME IInv, NEW t \in Threads, WriteFails(t)
  PROVE  IInv'
<1> USE Apart DEF IInv, TypeOK, WriteFails, Fails, vault, provider
<1>1. TypeOK' /\ CallsOK'
  BY DEF CallsOK
<1>2. LeadersOK'
  BY DEF LeadersOK, CallsOK, Leading
<1>3. WrittenOK' /\ FreshOK' /\ WrittenBeforeReleased'
  BY DEF WrittenOK, FreshOK, WrittenBeforeReleased
<1>4. ServiceIsolation' /\ UsableAtRest' /\ NoReplay'
  BY DEF ServiceIsolation, UsableAtRest, NoReplay
<1> QED
  BY <1>1, <1>2, <1>3, <1>4

LEMMA PublishStep ==
  ASSUME IInv, NEW t \in Threads, Publish(t)
  PROVE  IInv'
<1> USE Apart DEF IInv, TypeOK, Publish, Told, vault, provider
<1>1. svc[t] \in Services /\ got[t] # None
  BY DEF CallsOK
<1>2. TypeOK' /\ CallsOK'
  BY <1>1 DEF CallsOK
<1>3. LeadersOK'
  BY <1>1 DEF LeadersOK, CallsOK, Leading
<1>4. WrittenOK' /\ WrittenBeforeReleased'
  BY DEF WrittenOK, WrittenBeforeReleased
<1>5. FreshOK' /\ ServiceIsolation'
  BY DEF FreshOK, ServiceIsolation
<1>6. UsableAtRest' /\ NoReplay'
  BY DEF UsableAtRest, NoReplay
<1> QED
  BY <1>2, <1>3, <1>4, <1>5, <1>6

LEMMA ReturnStep ==
  ASSUME IInv, NEW t \in Threads, Return(t)
  PROVE  IInv'
<1> USE Apart DEF IInv, TypeOK, Return, End, vault, provider
<1>1. TypeOK' /\ CallsOK'
  BY DEF CallsOK
<1>2. LeadersOK'
  BY DEF LeadersOK, CallsOK, Leading
<1>3. WrittenOK' /\ FreshOK' /\ WrittenBeforeReleased'
  BY DEF WrittenOK, FreshOK, WrittenBeforeReleased
<1>4. ServiceIsolation' /\ UsableAtRest' /\ NoReplay'
  BY DEF ServiceIsolation, UsableAtRest, NoReplay
<1> QED
  BY <1>1, <1>2, <1>3, <1>4

LEMMA CodeStep ==
  ASSUME IInv, NEW t \in Threads, ExchangeCode(t)
  PROVE  IInv'
<1> USE Apart DEF IInv, TypeOK, ExchangeCode, vault
<1>1. svc[t] \in Services /\ pc[t] = "code" /\ got[t] = None
  BY DEF CallsOK
<1>2. CASE End(t) /\ UNCHANGED <<issuedTo, carries>>
  <2> USE <1>2 DEF End
  <2>1. TypeOK' /\ CallsOK'
    BY DEF CallsOK
  <2>2. LeadersOK'
    BY <1>1 DEF LeadersOK, CallsOK, Leading
  <2>3. WrittenOK' /\ FreshOK' /\ WrittenBeforeReleased'
    BY <1>1 DEF WrittenOK, FreshOK, WrittenBeforeReleased
  <2>4. ServiceIsolation' /\ UsableAtRest' /\ NoReplay'
    BY <1>1 DEF ServiceIsolation, UsableAtRest, NoReplay
  <2> QED
    BY <2>1, <2>2, <2>3, <2>4
<1>3. ASSUME NEW k \in Tokens,
             Issue(k, svc[t]),
             got' = [got EXCEPT ![t] = k],
             carries' \in {carries, carries \cup {k}},
             pc' = [pc EXCEPT ![t] = "save"],
             UNCHANGED <<svc, held>>
      PROVE  IInv'
  <2> USE <1>3 DEF Issue
  <2>1. k \notin written
    BY DEF WrittenOK
  <2>2. /\ \A s \in Services : stored[s] # k
        /\ \A u \in Threads : got[u] # k /\ held[u] # k
    BY <2>1 DEF WrittenOK, ServiceIsolation, CallsOK
  <2>3. TypeOK' /\ CallsOK'
    BY <1>1 DEF CallsOK
  <2>4. LeadersOK'
    BY <1>1 DEF LeadersOK, CallsOK, Leading
  <2>5. WrittenOK'
    BY <1>1, <2>1, <2>2 DEF WrittenOK
  <2>6. FreshOK' /\ WrittenBeforeReleased'
    BY <1>1, <2>1, <2>2 DEF FreshOK, WrittenBeforeReleased
  <2>7. ServiceIsolation'
    BY <1>1, <2>2 DEF ServiceIsolation
  <2>8. UsableAtRest' /\ NoReplay'
    BY <1>1 DEF UsableAtRest, NoReplay
  <2> QED
    BY <2>3, <2>4, <2>5, <2>6, <2>7, <2>8
<1> QED
  BY <1>2, <1>3

LEMMA SaveStep ==
  ASSUME IInv, NEW t \in Threads, SaveTokens(t)
  PROVE  IInv'
<1> USE Apart DEF IInv, TypeOK, SaveTokens, End, WriteRecord, vault, provider
<1>1. /\ svc[t] \in Services /\ got[t] \in Tokens
      /\ got[t] \notin written /\ issuedTo[got[t]] = svc[t]
  BY DEF CallsOK, FreshOK, ServiceIsolation
<1>2. TypeOK' /\ CallsOK'
  BY <1>1 DEF CallsOK
<1>3. LeadersOK'
  BY DEF LeadersOK, CallsOK, Leading
<1>4. WrittenOK'
  BY <1>1 DEF WrittenOK
<1>5. FreshOK' /\ WrittenBeforeReleased'
  BY <1>1 DEF FreshOK, WrittenBeforeReleased, CallsOK
<1>6. ServiceIsolation' /\ NoReplay'
  BY <1>1 DEF ServiceIsolation, NoReplay
<1>7. UsableAtRest'
  <2>1. got[t] \notin spent
    BY <1>1 DEF WrittenOK
  <2> QED
    BY <1>1, <2>1 DEF UsableAtRest
<1> QED
  BY <1>2, <1>3, <1>4, <1>5, <1>6, <1>7

LEMMA StepIInv == IInv /\ [Next]_vars => IInv'
<1> SUFFICES ASSUME IInv, [Next]_vars PROVE IInv'
  OBVIOUS
<1>1. CASE UNCHANGED vars
  BY <1>1 DEF vars, IInv, TypeOK, CallsOK, LeadersOK, WrittenOK, FreshOK,
              ServiceIsolation, WrittenBeforeReleased, UsableAtRest, NoReplay
<1> QED
  BY <1>1, Steps, BeginStep, JoinStep, LeadStep, ReadStep, GrantedStep, LostStep,
     RefusedStep, WriteStep, WriteFailsStep, PublishStep, ReturnStep, CodeStep, SaveStep

LEMMA Invariance == Spec => []IInv
<1>1. Init => IInv
  BY InitIInv
<1>2. IInv /\ [Next]_vars => IInv'
  BY StepIInv
<1> QED
  BY <1>1, <1>2, PTL DEF Spec

-----------------------------------------------------------------------------

\* The record, the provider and the goroutines keep their types (RefreshToken,
\* Callback, PollDeviceFlow).
THEOREM TypeCorrectness == Spec => []TypeOK
<1>1. IInv => TypeOK
  BY DEF IInv
<1> QED
  BY <1>1, Invariance, PTL

\* For any number of refreshes and authorisations of any services, no refresh token
\* is presented twice but after a lost answer or write (RefreshGuard, doRefreshToken).
THEOREM NoReplayHolds == Spec => []NoReplay
<1>1. IInv => NoReplay
  BY DEF IInv
<1> QED
  BY <1>1, Invariance, PTL

\* Without such a loss the vault holds a consumed refresh token only while its
\* leader is about to overwrite it (doRefreshToken).
THEOREM UsableAtRestHolds == Spec => []UsableAtRest
<1>1. IInv => UsableAtRest
  BY DEF IInv
<1> QED
  BY <1>1, Invariance, PTL

\* Whoever is told of a new token is told of one that the vault has (doRefreshToken).
THEOREM WrittenBeforeReleasedHolds == Spec => []WrittenBeforeReleased
<1>1. IInv => WrittenBeforeReleased
  BY DEF IInv
<1> QED
  BY <1>1, Invariance, PTL

\* The tokens of one service never get into the record or the answer of another.
THEOREM ServiceIsolationHolds == Spec => []ServiceIsolation
<1>1. IInv => ServiceIsolation
  BY DEF IInv
<1> QED
  BY <1>1, Invariance, PTL

-----------------------------------------------------------------------------
(* RefreshGuard.Do is a single-flight group *)

Answer(t) == IF pc[t] = "answered" THEN got[t] ELSE None

group == [s \in Services |-> InFlight(s)]
outcome == [t \in Threads |-> Answer(t)]

LEMMA GuardInit == Init => Guard!Init
BY Apart DEF Init, Guard!Init, InFlight

\* A step that moves no goroutine into, within or out of a flight or an answer is a
\* stutter of the abstract group.
LEMMA Stutter ==
  ASSUME \A t \in Threads : Answer(t)' = Answer(t),
         \A s \in Services : InFlight(s)' = InFlight(s)
  PROVE UNCHANGED Guard!vars
BY DEF Answer, Guard!vars

\* The abstract state changes where InFlight and Answer do.
LEMMA GroupChange ==
  ASSUME NEW r \in Services, NEW S,
         \A s \in Services : InFlight(s)' = IF s = r THEN S ELSE InFlight(s)
  PROVE  group' = [group EXCEPT ![r] = S]
<1>1. group' = [s \in Services |-> InFlight(s)']
  BY DEF group
<1>2. [group EXCEPT ![r] = S] = [s \in Services |-> IF s = r THEN S ELSE InFlight(s)]
  BY DEF group
<1> QED
  BY <1>1, <1>2

LEMMA OutcomeChange ==
  ASSUME NEW f, \A u \in Threads : Answer(u)' = f[u], f = [u \in Threads |-> f[u]]
  PROVE  outcome' = f
<1>1. outcome' = [u \in Threads |-> Answer(u)']
  BY DEF outcome
<1> QED
  BY <1>1

\* Join and Lead enter the group.
LEMMA EnterStep ==
  ASSUME IInv, NEW t \in Threads, Join(t) \/ Lead(t)
  PROVE  Guard!Next
<1> USE Apart DEF IInv, TypeOK
<1>1. PICK r \in Services : r = svc[t]
  BY DEF Join, Lead, CallsOK
<1>2. /\ pc[t] = "guard" /\ svc' = svc /\ got' = got
      /\ \/ pc' = [pc EXCEPT ![t] = "wait"]
         \/ pc' = [pc EXCEPT ![t] = "read"]
  BY DEF Join, Lead
<1>3. \A s \in Services : /\ t \notin InFlight(s)
                          /\ InFlight(s)' = IF s = r THEN InFlight(r) \cup {t} ELSE InFlight(s)
  BY <1>1, <1>2 DEF InFlight
<1>4. Answer(t) = None /\ \A u \in Threads : Answer(u)' = Answer(u)
  BY <1>2 DEF Answer
<1>5. group' = [group EXCEPT ![r] = InFlight(r) \cup {t}]
  BY <1>3, GroupChange
<1>6. outcome' = outcome
  BY <1>4, OutcomeChange DEF outcome
<1>7. group[r] = InFlight(r)
  BY DEF group
<1>8. outcome[t] = None /\ \A s \in Services : t \notin group[s]
  BY <1>3, <1>4 DEF group, outcome
<1>9. Guard!Enter(t, r)
  BY <1>5, <1>6, <1>7, <1>8 DEF Guard!Enter, Guard!Free, group, outcome, Answer
<1> QED
  BY <1>9 DEF Guard!Next

\* Publish lands the group: it tells exactly those who are in flight.
LEMMA LandStep ==
  ASSUME IInv, NEW t \in Threads, Publish(t)
  PROVE  Guard!Next
<1> USE Apart DEF IInv, TypeOK
<1>1. PICK r \in Services, o \in Tokens \cup {Failed} : r = svc[t] /\ o = got[t]
  BY DEF Publish, CallsOK
<1>2. pc[t] = "publish" /\ svc' = svc
  BY DEF Publish
<1>3. InFlight(r) = Told(t)
  BY <1>1, <1>2 DEF InFlight, Told, LeadersOK, Leading
<1>4. \A s \in Services : InFlight(s)' = IF s = r THEN {} ELSE InFlight(s)
  BY <1>1, <1>2, <1>3 DEF Publish, InFlight, Told
<1>5. /\ t \in InFlight(r)
      /\ \A u \in Threads : Answer(u)' = IF u \in InFlight(r) THEN o ELSE Answer(u)
  BY <1>1, <1>2, <1>3 DEF Publish, Answer, Told
<1>6. group' = [group EXCEPT ![r] = {}]
  BY <1>4, GroupChange
<1>7. group[r] = InFlight(r) /\ group[r] # {}
  BY <1>5 DEF group
<1>8. outcome' = [u \in Threads |-> IF u \in group[r] THEN o ELSE outcome[u]]
  BY <1>5, <1>7, OutcomeChange DEF outcome
<1>9. Guard!Land(r, o)
  BY <1>6, <1>7, <1>8 DEF Guard!Land, group, outcome, Answer
<1> QED
  BY <1>9 DEF Guard!Next

\* Return leaves.
LEMMA LeaveStep ==
  ASSUME IInv, NEW t \in Threads, Return(t)
  PROVE  Guard!Next
<1> USE Apart DEF IInv, TypeOK
<1>1. \A s \in Services : InFlight(s)' = InFlight(s)
  BY DEF Return, End, InFlight
<1>2. /\ Answer(t) # None
      /\ \A u \in Threads : Answer(u)' = IF u = t THEN None ELSE Answer(u)
  BY DEF Return, End, Answer, CallsOK
<1>3. outcome' = [u \in Threads |-> IF u = t THEN None ELSE outcome[u]]
  BY <1>2, OutcomeChange DEF outcome
<1>4. [u \in Threads |-> IF u = t THEN None ELSE outcome[u]] = [outcome EXCEPT ![t] = None]
  BY DEF outcome
<1>5. outcome[t] # None /\ group' = group
  BY <1>1, <1>2 DEF outcome, group
<1>6. Guard!Leave(t)
  BY <1>3, <1>4, <1>5 DEF Guard!Leave, group, outcome, Answer
<1> QED
  BY <1>6 DEF Guard!Next

\* Every other step stutters.
LEMMA GuardStep == IInv /\ [Next]_vars => [Guard!Next]_(Guard!vars)
<1> SUFFICES ASSUME IInv, [Next]_vars PROVE [Guard!Next]_(Guard!vars)
  OBVIOUS
<1> USE Apart DEF IInv, TypeOK
<1>1. ASSUME NEW t \in Threads, NEW s \in Services, RefreshToken(t, s) \/ Authorize(t, s)
      PROVE  UNCHANGED Guard!vars
  BY <1>1, Stutter DEF RefreshToken, Authorize, Begin, Answer, InFlight, CallsOK
<1>2. ASSUME NEW t \in Threads,
             \/ ReadTokens(t) \/ RequestGranted(t) \/ RequestLost(t)
             \/ RequestRefused(t) \/ WriteTokens(t) \/ WriteFails(t)
      PROVE  UNCHANGED Guard!vars
  <2>1. \A u \in Threads : Answer(u)' = Answer(u)
    BY <1>2 DEF ReadTokens, RequestGranted, RequestLost, RequestRefused, WriteTokens,
                WriteFails, Fails, Answer
  <2>2. \A s \in Services : InFlight(s)' = InFlight(s)
    BY <1>2 DEF ReadTokens, RequestGranted, RequestLost, RequestRefused, WriteTokens,
                WriteFails, Fails, InFlight
  <2> QED
    BY <2>1, <2>2, Stutter
<1>3. ASSUME NEW t \in Threads, ExchangeCode(t) \/ SaveTokens(t)
      PROVE  UNCHANGED Guard!vars
  <2>1. pc[t] \in {"code", "save"} /\ \A u \in Threads \ {t} : pc'[u] = pc[u] /\ got'[u] = got[u] /\ svc'[u] = svc[u]
    BY <1>3 DEF ExchangeCode, SaveTokens, End
  <2>2. pc'[t] \in {"idle", "save"}
    BY <1>3 DEF ExchangeCode, SaveTokens, End
  <2>3. \A u \in Threads : Answer(u)' = Answer(u)
    BY <2>1, <2>2 DEF Answer
  <2>4. \A s \in Services : InFlight(s)' = InFlight(s)
    BY <2>1, <2>2 DEF InFlight
  <2> QED
    BY <2>3, <2>4, Stutter
<1>4. CASE UNCHANGED vars
  BY <1>4, Stutter DEF vars, Answer, InFlight
<1> QED
  BY Steps, <1>1, <1>2, <1>3, <1>4, EnterStep, LandStep, LeaveStep

\* RefreshGuard.Do implements the single-flight group: all refreshes of a service
\* that overlap share one request to the provider and its one outcome.
THEOREM ImplementsSingleFlight == Spec => IsSingleFlight
BY GuardInit, GuardStep, Invariance, PTL DEF Spec, IsSingleFlight, Guard!Spec

=============================================================================
