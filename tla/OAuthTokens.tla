----------------------------- MODULE OAuthTokens -----------------------------
(***************************************************************************)
(* The OAuth token record of a service in the vault and its two writers:   *)
(* oauth.Handler.RefreshToken, guarded by tokenexchange.RefreshGuard, and  *)
(* the authorisations (Callback, PollDeviceFlow), which are not guarded.   *)
(*                                                                         *)
(* A token stands for one answer of the token endpoint, access token and   *)
(* refresh token together.  Providers rotate: a refresh spends the refresh *)
(* token it presents and answers with a new one.  Those in Omitting keep   *)
(* the refresh token and leave it out of the answer to a refresh.          *)
(***************************************************************************)
EXTENDS Naturals, FiniteSets

CONSTANTS
  Threads,   \* goroutines that call RefreshToken or serve an authorisation
  Services,  \* service names
  Omitting,  \* services whose provider answers a refresh without refresh token
  Tokens,    \* answers the providers can give (bounds the exchanges)
  None,      \* no record, no flight, nothing held
  Failed     \* the outcome of a failed refresh

ASSUME TokensAssumption ==
  /\ Omitting \subseteq Services
  /\ None \notin Tokens \cup Services \cup Threads \cup {Failed}
  /\ Failed \notin Tokens

VARIABLES
  stored,    \* services/<name>/oauth_tokens in the vault
  issuedTo,  \* service a token was issued to, None if not issued yet
  carries,   \* tokens that came with a refresh token
  spent,     \* tokens whose refresh token the provider has consumed
  written,   \* tokens that were written to the vault
  faulted,   \* services that lost an answer or a write of a refresh
  inflight,  \* RefreshGuard.inflight: service -> leader
  pc, svc,   \* where a goroutine is and for which service
  held,      \* the token it read from the vault
  got        \* the outcome it has

vars == <<stored, issuedTo, carries, spent, written, faulted, inflight,
          pc, svc, held, got>>

provider == <<issuedTo, carries, spent>>
vault    == <<stored, written>>

-----------------------------------------------------------------------------

TypeOK ==
  /\ stored \in [Services -> Tokens \cup {None}]
  /\ issuedTo \in [Tokens -> Services \cup {None}]
  /\ carries \in SUBSET Tokens
  /\ spent \in SUBSET Tokens
  /\ written \in SUBSET Tokens
  /\ faulted \in SUBSET Services
  /\ inflight \in [Services -> Threads \cup {None}]
  /\ pc \in [Threads -> {"idle", "guard", "read", "request", "write", "publish",
                         "wait", "answered", "code", "save"}]
  /\ svc \in [Threads -> Services \cup {None}]
  /\ held \in [Threads -> Tokens \cup {None}]
  /\ got \in [Threads -> Tokens \cup {None, Failed}]

Init ==
  /\ stored = [s \in Services |-> None]
  /\ issuedTo = [k \in Tokens |-> None]
  /\ carries = {}
  /\ spent = {}
  /\ written = {}
  /\ faulted = {}
  /\ inflight = [s \in Services |-> None]
  /\ pc = [t \in Threads |-> "idle"]
  /\ svc = [t \in Threads |-> None]
  /\ held = [t \in Threads |-> None]
  /\ got = [t \in Threads |-> None]

Begin(t, s, where) ==
  /\ pc[t] = "idle"
  /\ pc' = [pc EXCEPT ![t] = where]
  /\ svc' = [svc EXCEPT ![t] = s]

\* A goroutine is done: its answer is on the wire.
End(t) ==
  /\ pc' = [pc EXCEPT ![t] = "idle"]
  /\ svc' = [svc EXCEPT ![t] = None]
  /\ held' = [held EXCEPT ![t] = None]
  /\ got' = [got EXCEPT ![t] = None]

\* The provider issues token k to service s.
Issue(k, s) ==
  /\ issuedTo[k] = None
  /\ issuedTo' = [issuedTo EXCEPT ![k] = s]

\* vault.WriteSecret of the whole record.
WriteRecord(s, k) ==
  /\ stored' = [stored EXCEPT ![s] = k]
  /\ written' = written \cup {k}

-----------------------------------------------------------------------------
(* RefreshToken behind RefreshGuard.Do *)

RefreshToken(t, s) ==
  /\ Begin(t, s, "guard")
  /\ UNCHANGED <<vault, provider, faulted, inflight, held, got>>

\* Under g.mu: wait for the flight of the service ...
Join(t) ==
  /\ pc[t] = "guard"
  /\ inflight[svc[t]] # None
  /\ pc' = [pc EXCEPT ![t] = "wait"]
  /\ UNCHANGED <<vault, provider, faulted, inflight, svc, held, got>>

\* Mutation of Lead: no guard (NewHandler instead of NewHandlerWithGuard).
LeadUnguarded(t) ==
  /\ pc[t] = "guard"
  /\ inflight' = [inflight EXCEPT ![svc[t]] = t]
  /\ pc' = [pc EXCEPT ![t] = "read"]
  /\ UNCHANGED <<vault, provider, faulted, svc, held, got>>

\* ... or register as its leader.
Lead(t) ==
  /\ pc[t] = "guard"
  /\ inflight[svc[t]] = None
  /\ inflight' = [inflight EXCEPT ![svc[t]] = t]
  /\ pc' = [pc EXCEPT ![t] = "read"]
  /\ UNCHANGED <<vault, provider, faulted, svc, held, got>>

\* Leader t's refresh ends with an error.
Fails(t) ==
  /\ got' = [got EXCEPT ![t] = Failed]
  /\ pc' = [pc EXCEPT ![t] = "publish"]

\* doRefreshToken reads the record.  No record, no refresh token in it or a
\* vault that does not answer ends the refresh.
ReadTokens(t) ==
  /\ pc[t] = "read"
  /\ \/ /\ stored[svc[t]] \in carries
        /\ held' = [held EXCEPT ![t] = stored[svc[t]]]
        /\ pc' = [pc EXCEPT ![t] = "request"]
        /\ UNCHANGED got
     \/ /\ Fails(t)
        /\ UNCHANGED held
  /\ UNCHANGED <<vault, provider, faulted, inflight, svc>>

\* What a provider consumes when it grants a refresh.
Consumed(t) == IF svc[t] \in Omitting THEN {} ELSE {held[t]}

\* The token endpoint grants the refresh and the answer arrives.
RequestGranted(t) ==
  /\ pc[t] = "request"
  /\ held[t] \notin spent
  /\ \E k \in Tokens :
       /\ Issue(k, svc[t])
       /\ got' = [got EXCEPT ![t] = k]
       /\ carries' = IF svc[t] \in Omitting THEN carries ELSE carries \cup {k}
  /\ spent' = spent \cup Consumed(t)
  /\ pc' = [pc EXCEPT ![t] = "write"]
  /\ UNCHANGED <<vault, faulted, inflight, svc, held>>

\* It grants the refresh and the answer is lost (the client's 15 s timeout).
RequestLost(t) ==
  /\ pc[t] = "request"
  /\ held[t] \notin spent
  /\ spent' = spent \cup Consumed(t)
  /\ faulted' = faulted \cup {svc[t]}
  /\ Fails(t)
  /\ UNCHANGED <<vault, issuedTo, carries, inflight, svc, held>>

\* It refuses, or the request never reached it.
RequestRefused(t) ==
  /\ pc[t] = "request"
  /\ Fails(t)
  /\ UNCHANGED <<vault, provider, faulted, inflight, svc, held>>

\* The record is overwritten as a whole, refresh token included.
WriteTokens(t) ==
  /\ pc[t] = "write"
  /\ WriteRecord(svc[t], got[t])
  /\ pc' = [pc EXCEPT ![t] = "publish"]
  /\ UNCHANGED <<provider, faulted, inflight, svc, held, got>>

\* Mutation of WriteFails: the failed write is not reported.
WriteFailsSilently(t) ==
  /\ pc[t] = "write"
  /\ pc' = [pc EXCEPT ![t] = "publish"]
  /\ UNCHANGED <<vault, provider, faulted, inflight, svc, held, got>>

WriteFails(t) ==
  /\ pc[t] = "write"
  /\ faulted' = faulted \cup {svc[t]}
  /\ Fails(t)
  /\ UNCHANGED <<vault, provider, inflight, svc, held>>

\* Who leader t tells its outcome to.
Told(t) == {t} \cup {u \in Threads : pc[u] = "wait" /\ svc[u] = svc[t]}

\* Mutation of Publish: the flight stays registered after an error.
PublishKeepsFailedFlight(t) ==
  /\ pc[t] = "publish"
  /\ inflight' = [inflight EXCEPT ![svc[t]] = IF got[t] = Failed THEN @ ELSE None]
  /\ got' = [u \in Threads |-> IF u \in Told(t) THEN got[t] ELSE got[u]]
  /\ held' = [held EXCEPT ![t] = None]
  /\ pc' = [u \in Threads |-> IF u \in Told(t) THEN "answered" ELSE pc[u]]
  /\ UNCHANGED <<vault, provider, faulted, svc>>

\* Under g.mu: publish the result, drop the flight, release the waiters.
Publish(t) ==
  /\ pc[t] = "publish"
  /\ inflight' = [inflight EXCEPT ![svc[t]] = None]
  /\ got' = [u \in Threads |-> IF u \in Told(t) THEN got[t] ELSE got[u]]
  /\ held' = [held EXCEPT ![t] = None]
  /\ pc' = [u \in Threads |-> IF u \in Told(t) THEN "answered" ELSE pc[u]]
  /\ UNCHANGED <<vault, provider, faulted, svc>>

Return(t) ==
  /\ pc[t] = "answered"
  /\ End(t)
  /\ UNCHANGED <<vault, provider, faulted, inflight>>

-----------------------------------------------------------------------------
(* Callback and PollDeviceFlow: exchange a code, then write the record *)

Authorize(t, s) ==
  /\ Begin(t, s, "code")
  /\ UNCHANGED <<vault, provider, faulted, inflight, held, got>>

ExchangeCode(t) ==
  /\ pc[t] = "code"
  /\ \/ \E k \in Tokens : /\ Issue(k, svc[t])
                          /\ got' = [got EXCEPT ![t] = k]
                          /\ carries' \in {carries, carries \cup {k}}
                          /\ pc' = [pc EXCEPT ![t] = "save"]
                          /\ UNCHANGED <<svc, held>>
     \/ End(t) /\ UNCHANGED <<issuedTo, carries>>
  /\ UNCHANGED <<vault, spent, faulted, inflight>>

SaveTokens(t) ==
  /\ pc[t] = "save"
  /\ \/ WriteRecord(svc[t], got[t])
     \/ UNCHANGED vault
  /\ End(t)
  /\ UNCHANGED <<provider, faulted, inflight>>

-----------------------------------------------------------------------------

LeaderStep(t) ==
  \/ ReadTokens(t) \/ RequestGranted(t) \/ RequestLost(t) \/ RequestRefused(t)
  \/ WriteTokens(t) \/ WriteFails(t) \/ Publish(t)

RefreshStep(t) == Join(t) \/ Lead(t) \/ LeaderStep(t) \/ Return(t)

Next ==
  \E t \in Threads :
    \/ RefreshStep(t)
    \/ \E s \in Services : RefreshToken(t, s) \/ Authorize(t, s)
    \/ ExchangeCode(t) \/ SaveTokens(t)

Spec == Init /\ [][Next]_vars

\* Goroutines are scheduled and every request has a timeout.
FairSpec == Spec /\ \A t \in Threads : WF_vars(RefreshStep(t))

-----------------------------------------------------------------------------

\* Goroutines inside Do for service s.
InFlight(s) ==
  {t \in Threads : svc[t] = s /\ pc[t] \in {"read", "request", "write", "publish", "wait"}}

Guard == INSTANCE SingleFlight WITH
  Callers  <- Threads,
  Keys     <- Services,
  Outcomes <- Tokens \cup {Failed},
  group    <- [s \in Services |-> InFlight(s)],
  outcome  <- [t \in Threads |-> IF pc[t] = "answered" THEN got[t] ELSE None]

\* RefreshGuard.Do implements the single-flight group.
IsSingleFlight == Guard!Spec

\* However refreshes and authorisations interleave, a refresh never presents a
\* refresh token the provider has already consumed, unless an answer or a
\* write of that service was lost before: the purpose of the guard.
NoReplay ==
  \A t \in Threads : pc[t] = "request" /\ held[t] \in spent => svc[t] \in faulted

\* Without such a loss a consumed refresh token is in the vault only while the
\* leader that consumed it is about to overwrite it.
UsableAtRest ==
  \A s \in Services : stored[s] \in spent /\ s \notin faulted =>
    \E t \in Threads : svc[t] = s /\ pc[t] = "write" /\ held[t] = stored[s]

\* Waiters and leader are released with a token the vault already has.
WrittenBeforeReleased ==
  \A t \in Threads : pc[t] = "answered" /\ got[t] \in Tokens => got[t] \in written

\* Tokens never cross services.
ServiceIsolation ==
  /\ \A s \in Services : stored[s] # None => issuedTo[stored[s]] = s
  /\ \A t \in Threads : got[t] \in Tokens => issuedTo[got[t]] = svc[t]

\* Every RefreshToken call returns.
RefreshReturns == \A t \in Threads : pc[t] \in {"guard", "wait"} ~> pc[t] = "answered"

=============================================================================
