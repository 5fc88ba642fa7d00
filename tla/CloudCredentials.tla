--------------------------- MODULE CloudCredentials ---------------------------
(***************************************************************************)
(* cloud.Manager and its providers: temporary cloud credentials by service *)
(* name, from the manager's cache, from the static path of the provider or *)
(* by the keyless path through the token-exchange engine, which has a      *)
(* cache of its own under a key that the provider chooses.                 *)
(*                                                                         *)
(* The engine is TokenEngine seen from outside: a credential in its cache, *)
(* or one exchange, and a refresh ahead of time that may fail.  Its end,   *)
(* Manager.Close, is in Serving.                                           *)
(***************************************************************************)
EXTENDS Naturals

CONSTANTS
  CloudCalls,     \* concurrent calls of GetCredentials
  CloudServices,  \* service names
  CloudConfigs,   \* ServiceConfigs: engine, id, audience, keyless, asks, allowed, scope
  NoCredential,
  NoAudience,     \* the audience is left out
  DefaultAudience,\* awsDefaultAudience
  Lifetime,       \* default lifetime of a credential in ticks
  Grants,         \* lifetimes that a token endpoint may grant, 0 when it names none
  LastTick        \* bound on the clock

\* id is the account that is asked for: the RoleARN, the client id, or for GCP the
\* audience, which is the pool that the project trusts; scope is the rest of the
\* configuration (session policy, region, scopes, project); asks is
\* SessionDurationSecs, 0 when it is left out; allowed: the service account names a
\* token endpoint of Google.

Accounts == {f.id : f \in CloudConfigs}
EngineKeys == Accounts \cup {f.audience : f \in CloudConfigs} \cup {DefaultAudience}

Lifetimes == {Lifetime} \cup Grants \cup {f.asks : f \in CloudConfigs}
IsLongest(n) == n \in Lifetimes /\ \A m \in Lifetimes : n >= m
Longest == CHOOSE n \in Lifetimes : IsLongest(n)

ASSUME CloudAssumption ==
  /\ \A f \in CloudConfigs : /\ f.engine \in {"aws", "gcp", "azure"}
                             /\ f.keyless \in BOOLEAN
                             /\ f.engine = "gcp" => f.id = f.audience
                             /\ f.asks \in Nat
                             /\ f.allowed \in BOOLEAN
  /\ Grants # {} /\ Grants \subseteq Nat
  /\ Lifetime \in Nat \ {0}
  /\ \E n \in Lifetimes : IsLongest(n)   \* the durations are ints
  /\ LastTick \in Nat \ {0}

VARIABLES
  tick,
  managed,    \* Manager.cache
  engine,     \* the cache of the Engine
  callAt,     \* what a call does next
  want,       \* its service and configuration, and when it was answered
  got,        \* the credential it has
  wanted      \* history: service -> account -> when a call last asked for it

cloudVars == <<tick, managed, engine, callAt, want, got, wanted>>

\* A credential: the configuration it was made for, and when it expires.
Credentials == [config: CloudConfigs, expires: 1 .. LastTick + Longest]
Wants == [service: CloudServices, config: CloudConfigs, on: 1 .. LastTick]

CloudTypeOK ==
  /\ tick \in 1 .. LastTick
  /\ managed \in [CloudServices -> Credentials \cup {NoCredential}]
  /\ engine \in [EngineKeys -> Credentials \cup {NoCredential}]
  /\ callAt \in [CloudCalls -> {"idle", "static", "engine", "exchange", "keep", "answer"}]
  /\ want \in [CloudCalls -> Wants \cup {NoCredential}]
  /\ got \in [CloudCalls -> Credentials \cup {NoCredential}]
  /\ \A c \in CloudCalls : /\ callAt[c] # "idle" => want[c] \in Wants
                           /\ callAt[c] \in {"keep", "answer"} => got[c] \in Credentials
  /\ wanted \in [CloudServices -> [Accounts -> 0 .. LastTick]]

CloudInit ==
  /\ tick = 1
  /\ managed = [s \in CloudServices |-> NoCredential]
  /\ engine = [k \in EngineKeys |-> NoCredential]
  /\ callAt = [c \in CloudCalls |-> "idle"]
  /\ want = [c \in CloudCalls |-> NoCredential]
  /\ got = [c \in CloudCalls |-> NoCredential]
  /\ wanted = [s \in CloudServices |-> [a \in Accounts |-> 0]]

CallGoes(c, to) == callAt' = [callAt EXCEPT ![c] = to]

\* The call returns, with its answer or an error.
CallEnds(c) ==
  /\ CallGoes(c, "idle")
  /\ want' = [want EXCEPT ![c] = NoCredential]
  /\ got' = [got EXCEPT ![c] = NoCredential]

-----------------------------------------------------------------------------
(* Manager.GetCredentials *)

\* time.Now().Before(entry.expiresAt)
Valid(entry) == entry # NoCredential /\ tick < entry.expires

\* providerFor and the branch of GenerateCredentials.  (An engine without a provider is
\* an error, and nothing changes.)
PathOf(f) == IF f.keyless THEN "engine" ELSE "static"

\* A call for service s under configuration f: the cache goes by the name alone.
GetCloud(c, s, f) ==
  /\ callAt[c] = "idle"
  /\ want' = [want EXCEPT ![c] = [service |-> s, config |-> f, on |-> tick]]
  /\ IF Valid(managed[s])
       THEN got' = [got EXCEPT ![c] = managed[s]] /\ CallGoes(c, "answer")
       ELSE CallGoes(c, PathOf(f)) /\ UNCHANGED got
  /\ UNCHANGED <<tick, managed, engine, wanted>>

Made(f, span) == [config |-> f, expires |-> tick + span]

-----------------------------------------------------------------------------
(* The static path: what a provider may answer, NoCredential for an error *)

\* AssumeRole takes the duration of the configuration.
AWSStatic(f) == {NoCredential, Made(f, IF f.asks > 0 THEN f.asks ELSE Lifetime)}

\* expires_in of a token endpoint, and the default when it says nothing of use.
OrDefault(n) == IF n > 0 THEN n ELSE Lifetime

\* validateSATokenURI comes before the request; TokenLifetimeSecs is not part of it.
GCPStatic(f) ==
  {NoCredential} \cup
  IF f.allowed THEN {Made(f, OrDefault(n)) : n \in Grants} ELSE {}

AzureStatic(f) == {NoCredential} \cup {Made(f, OrDefault(n)) : n \in Grants}

Static(f) ==
  [aws |-> AWSStatic(f), gcp |-> GCPStatic(f), azure |-> AzureStatic(f)][f.engine]

\* GenerateCredentials has returned: its credential, or an error that ends the call.
Generated(c, answer) ==
  IF answer = NoCredential THEN CallEnds(c)
  ELSE /\ got' = [got EXCEPT ![c] = answer]
       /\ CallGoes(c, "keep")
       /\ UNCHANGED want

GenerateStatic(c) ==
  /\ callAt[c] = "static"
  /\ \E answer \in Static(want[c].config) : Generated(c, answer)
  /\ UNCHANGED <<tick, managed, engine, wanted>>

-----------------------------------------------------------------------------
(* The keyless path: the key and the audience for Engine.Credential *)

AWSAudience(f) == IF f.audience = NoAudience THEN DefaultAudience ELSE f.audience

\* Mutation of AWSInput: the credential is kept under the audience of the proof.
AWSInputByAudience(f) == [key |-> AWSAudience(f), audience |-> AWSAudience(f)]

AWSInput(f) == [key |-> f.id, audience |-> AWSAudience(f)]
GCPInput(f) == [key |-> f.audience, audience |-> f.audience]
AzureInput(f) == [key |-> f.id, audience |-> f.audience]

Input(f) ==
  [aws |-> AWSInput(f), gcp |-> GCPInput(f), azure |-> AzureInput(f)][f.engine]

Unexpired(entry) == entry # NoCredential /\ tick <= entry.expires

\* Engine.Credential refuses an empty audience, and finds what it has whatever else the
\* input of the call says ...
EngineHit(c) ==
  LET in == Input(want[c].config)
      entry == engine[in.key]
  IN
  /\ callAt[c] = "engine"
  /\ \/ in.audience = NoAudience /\ CallEnds(c)
     \/ in.audience # NoAudience /\ Unexpired(entry) /\ Generated(c, entry)
     \/ /\ in.audience # NoAudience /\ ~Unexpired(entry)
        /\ CallGoes(c, "exchange")
        /\ UNCHANGED <<want, got>>
  /\ UNCHANGED <<tick, managed, engine, wanted>>

\* The adapter of AWS looks for a duration in Params, where no one puts it.
AWSExchange(f) == {NoCredential, Made(f, Lifetime)}

\* ExchangeToken of the HTTP clients: that of Azure fills in the default itself.
GCPGrants == Grants
AzureGrants == {OrDefault(n) : n \in Grants}

GCPExchange(f) == {NoCredential} \cup {Made(f, OrDefault(n)) : n \in GCPGrants}
AzureExchange(f) == {NoCredential} \cup {Made(f, OrDefault(n)) : n \in AzureGrants}

\* The adapter of the provider.
Exchanged(f) ==
  [aws |-> AWSExchange(f), gcp |-> GCPExchange(f), azure |-> AzureExchange(f)][f.engine]

\* ... or gets a proof and lets the adapter exchange it.
Exchange(c) ==
  LET f == want[c].config IN
  /\ callAt[c] = "exchange"
  /\ \E answer \in Exchanged(f) :
       /\ Generated(c, answer)
       /\ engine' = IF answer = NoCredential THEN engine
                    ELSE [engine EXCEPT ![Input(f).key] = answer]
  /\ UNCHANGED <<tick, managed, wanted>>

-----------------------------------------------------------------------------
(* Manager.GetCredentials, after the provider *)

\* The result is cached under the name of the service ...
Keep(c) ==
  /\ callAt[c] = "keep"
  /\ managed' = [managed EXCEPT ![want[c].service] = got[c]]
  /\ wanted' = [wanted EXCEPT ![want[c].service][want[c].config.id] = tick]
  /\ want' = [want EXCEPT ![c].on = tick]
  /\ CallGoes(c, "answer")
  /\ UNCHANGED <<tick, engine, got>>

\* ... and returned.
Answer(c) ==
  /\ callAt[c] = "answer"
  /\ CallEnds(c)
  /\ UNCHANGED <<tick, managed, engine, wanted>>

\* InvalidateCache: the engine is not told.
InvalidateCache(s) ==
  /\ managed[s] # NoCredential
  /\ managed' = [managed EXCEPT ![s] = NoCredential]
  /\ UNCHANGED <<tick, engine, callAt, want, got, wanted>>

-----------------------------------------------------------------------------
(* The engine and the clock *)

\* A refresh asks again with the input of the entry; when it fails the entry goes.
Refresh(k) ==
  /\ engine[k] # NoCredential
  /\ \E answer \in Exchanged(engine[k].config) : engine' = [engine EXCEPT ![k] = answer]
  /\ UNCHANGED <<tick, managed, callAt, want, got, wanted>>

CloudTick ==
  /\ tick < LastTick
  /\ tick' = tick + 1
  /\ UNCHANGED <<managed, engine, callAt, want, got, wanted>>

CloudNext ==
  \/ \E c \in CloudCalls :
       \/ \E s \in CloudServices, f \in CloudConfigs : GetCloud(c, s, f)
       \/ GenerateStatic(c)
       \/ EngineHit(c)
       \/ Exchange(c)
       \/ Keep(c)
       \/ Answer(c)
  \/ \E s \in CloudServices : InvalidateCache(s)
  \/ \E k \in EngineKeys : Refresh(k)
  \/ CloudTick

CloudSpec == CloudInit /\ [][CloudNext]_cloudVars

-----------------------------------------------------------------------------
(* Properties *)

\* The credentials that a call gets are for the account of its configuration, or for
\* one that a call for the same service asked for less than the lifetime of a
\* credential ago: what is configured anew is in use after that time.
AccountHonoured ==
  \A c \in CloudCalls : callAt[c] = "answer" =>
    LET account == got[c].config.id
    IN \/ account = want[c].config.id
       \/ LET last == wanted[want[c].service][account]
          IN last # 0 /\ want[c].on <= last + Longest

=============================================================================
