--------------------------- MODULE ServiceRegistry ---------------------------
(***************************************************************************)
(* services.Registry: the services in memory, their metadata and secrets   *)
(* in the vault, the HTTP and OAuth handlers that call it, and a restart   *)
(* of the process.                                                         *)
(*                                                                         *)
(* Registry.mu is held across the vault calls of an operation, so only a   *)
(* crash can come between its steps; between two registry calls of one     *)
(* handler anything can.  A vault write that returns an error may have     *)
(* been applied.  Metadata is best-effort: its failures are ignored.       *)
(***************************************************************************)
EXTENDS Naturals, FiniteSets

CONSTANTS
  Threads,     \* goroutines that serve requests
  Names,       \* service names
  Targets,     \* target URLs, standing for the configuration that is persisted
  Methods,     \* auth methods known to the service templates
  Egresses,    \* egress policies of services
  Values,      \* credentials; every request brings a new one
  None,
  Ops,         \* requests clients send
  Faults,      \* TRUE: a vault call may fail
  MaxCrashes   \* bound on the crashes

AllOps == {"create", "create_auth", "put", "put_plain", "put_auth", "rotate",
           "rotate_auth", "delete", "oauth"}

\* "flat" is an empty AuthMethodID: injection from the flat fields.  Egress is
\* nil (None) in the services the handlers make; a caller of Create may set it.
Service == [target: Targets, method: Methods \cup {"flat"}, egress: Egresses \cup {None}]

\* "api_key" is what writeCredential stores with a single credential.
Secret == [method: Methods \cup {"api_key"}, value: Values]

ASSUME RegistryAssumption ==
  /\ None \notin Names \cup Values \cup Threads
  /\ None \notin Secret \cup Service \cup Egresses
  /\ Methods \cap {"flat", "api_key"} = {}
  /\ Ops \subseteq AllOps
  /\ Faults \in BOOLEAN
  /\ MaxCrashes \in Nat

VARIABLES
  mem,      \* Registry.services: name -> service, None if absent
  meta,     \* services/<name>/metadata in the vault
  secret,   \* services/<name>/credential in the vault
  mu,       \* holder of Registry.mu between two steps of an operation
  pc, arg,  \* what a handler does next, and for what
  up,       \* the process runs (FALSE: it starts and loads the vault)
  crashes,  \* crashes so far
  used,     \* credentials that requests have brought
  lost,     \* names whose metadata may differ from memory
  ghosts,   \* names whose secret may be gone while their metadata is not
  deleted,  \* names deleted with success and not created since
  before    \* mem when the process ended

handlerVars == <<mu, pc, arg>>
history == <<used, lost, ghosts, deleted, before>>
vars == <<mem, meta, secret, handlerVars, up, crashes, history>>

-----------------------------------------------------------------------------

NoArg == [name |-> None]

\* The locals of a handler, by what it does next.
Awaiting(methods) == [name: Names, method: methods, value: Values]
ArgAt ==
  [idle         |-> {NoArg},
   insert       |-> [name: Names, svc: Service, value: Values],
   replace      |-> [name: Names, svc: Service],
   purge        |-> [name: Names],
   credentials  |-> Awaiting(Methods \cup {"api_key"}),
   oauth_create |-> Awaiting(Methods),
   oauth_update |-> Awaiting(Methods)]

TypeOK ==
  /\ mem \in [Names -> Service \cup {None}]
  /\ meta \in [Names -> Service \cup {None}]
  /\ secret \in [Names -> Secret \cup {None}]
  /\ mu \in Threads \cup {None}
  /\ pc \in [Threads -> {"idle", "insert", "replace", "purge", "credentials",
                         "oauth_create", "oauth_update"}]
  /\ arg = [t \in Threads |-> arg[t]]
  /\ \A t \in Threads : arg[t] \in ArgAt[pc[t]]
  /\ up \in BOOLEAN
  /\ crashes \in 0 .. MaxCrashes
  /\ used \in SUBSET Values
  /\ lost \in SUBSET Names
  /\ ghosts \in SUBSET Names
  /\ deleted \in SUBSET Names
  /\ before \in [Names -> Service \cup {None}]

Init ==
  /\ mem = [n \in Names |-> None]
  /\ meta = [n \in Names |-> None]
  /\ secret = [n \in Names |-> None]
  /\ mu = None
  /\ pc = [t \in Threads |-> "idle"]
  /\ arg = [t \in Threads |-> NoArg]
  /\ up = TRUE
  /\ crashes = 0
  /\ used = {}
  /\ lost = {}
  /\ ghosts = {}
  /\ deleted = {}
  /\ before = [n \in Names |-> None]

-----------------------------------------------------------------------------
(* Pieces of the operations *)

\* A registry call runs: nobody holds mu.
Free == up /\ mu = None

Goto(t, where, a) ==
  /\ pc' = [pc EXCEPT ![t] = where]
  /\ arg' = [arg EXCEPT ![t] = a]

Done(t) == Goto(t, "idle", NoArg)

\* A request with a new credential v.
Fresh(v) ==
  /\ v \notin used
  /\ used' = used \cup {v}

\* writeCredentials succeeds.
WriteSecret(n, m, v) ==
  /\ secret' = [secret EXCEPT ![n] = [method |-> m, value |-> v]]
  /\ ghosts' = ghosts \ {n}

\* writeCredentials returns an error: the write was applied or not.
WriteSecretFails(n, m, v) ==
  /\ Faults
  /\ \/ WriteSecret(n, m, v)
     \/ UNCHANGED <<secret, ghosts>>

\* writeCredentials, with either result.
WriteSecretAnyhow(n, m, v) == WriteSecret(n, m, v) \/ WriteSecretFails(n, m, v)

\* Mutation of Persisted: the auth method is not among the fields.
PersistedWithoutMethod(s) == [target |-> s.target, method |-> "flat", egress |-> None]

\* What saveMetadata writes of a service and LoadFromVault reads back: the
\* egress policy is not among the fields.
Persisted(s) == [target |-> s.target, method |-> s.method, egress |-> None]

\* The service enters the map and saveMetadata succeeds or not.
Put(n, s) ==
  /\ mem' = [mem EXCEPT ![n] = s]
  /\ \/ /\ meta' = [meta EXCEPT ![n] = Persisted(s)]
        /\ lost' = lost \ {n}
     \/ /\ Faults
        /\ lost' = lost \cup {n}
        /\ UNCHANGED meta

-----------------------------------------------------------------------------
(* Create, CreateWithAuth *)

\* Mutation of Store: the name is looked up before the lock is taken.
StoreUnlocked(t, n, s, m, v) ==
  /\ up
  /\ mem[n] = None
  /\ WriteSecret(n, m, v)
  /\ deleted' = deleted \ {n}
  /\ mu' = t
  /\ Goto(t, "insert", [name |-> n, svc |-> s, value |-> v])
  /\ UNCHANGED <<mem, meta, up, crashes, lost, before>>

\* Under mu: the name is free and the secret is written ...
Store(t, n, s, m, v) ==
  /\ Free
  /\ mem[n] = None
  /\ deleted' = deleted \ {n}
  /\ \/ /\ WriteSecret(n, m, v)
        /\ mu' = t
        /\ Goto(t, "insert", [name |-> n, svc |-> s, value |-> v])
     \/ /\ WriteSecretFails(n, m, v)
        /\ Done(t)
        /\ UNCHANGED mu
  /\ UNCHANGED <<mem, meta, up, crashes, lost, before>>

\* ... then the service enters the map and its metadata the vault.
Insert(t) ==
  /\ pc[t] = "insert"
  /\ Put(arg[t].name, arg[t].svc)
  /\ mu' = None
  /\ Done(t)
  /\ UNCHANGED <<secret, up, crashes, used, ghosts, deleted, before>>

\* A service with injection from its flat fields.
Flat(tgt) == [target |-> tgt, method |-> "flat", egress |-> None]

\* A service with the auth method m of a template.
Templated(tgt, m) == [target |-> tgt, method |-> m, egress |-> None]

\* Registry.Create, a single credential.  handleCreateService calls it with a
\* Flat service; the method itself takes a service with an egress policy too.
Create(t, n, tgt, e, v) ==
  /\ "create" \in Ops
  /\ pc[t] = "idle"
  /\ Fresh(v)
  /\ Store(t, n, [Flat(tgt) EXCEPT !.egress = e], "api_key", v)

\* handleCreateServiceWithAuth, from a template.
CreateWithAuth(t, n, tgt, m, v) ==
  /\ "create_auth" \in Ops
  /\ pc[t] = "idle"
  /\ Fresh(v)
  /\ Store(t, n, Templated(tgt, m), m, v)

-----------------------------------------------------------------------------
(* Update, UpdateCredentials, RotateCredential *)

\* handleUpdateService never fills AuthMethodID: the service becomes Flat.
\* With a single credential: the secret first, under mu ...
Update(t, n, tgt, v) ==
  /\ "put" \in Ops
  /\ pc[t] = "idle"
  /\ Free
  /\ mem[n] # None
  /\ Fresh(v)
  /\ \/ /\ WriteSecret(n, "api_key", v)
        /\ mu' = t
        /\ Goto(t, "replace", [name |-> n, svc |-> Flat(tgt)])
     \/ /\ WriteSecretFails(n, "api_key", v)
        /\ UNCHANGED handlerVars
  /\ UNCHANGED <<mem, meta, up, crashes, lost, deleted, before>>

\* ... then the map and the metadata.
Replace(t) ==
  /\ pc[t] = "replace"
  /\ Put(arg[t].name, arg[t].svc)
  /\ mu' = None
  /\ Done(t)
  /\ UNCHANGED <<secret, up, crashes, used, ghosts, deleted, before>>

\* Without credential: the secret stays.
UpdateConfig(t, n, tgt) ==
  /\ "put_plain" \in Ops
  /\ pc[t] = "idle"
  /\ Free
  /\ mem[n] # None
  /\ Put(n, Flat(tgt))
  /\ UNCHANGED <<secret, handlerVars, up, crashes, used, ghosts,
                 deleted, before>>

\* With a credential map: Update without credential, then, unlocked in
\* between, UpdateCredentials.
UpdateThenCredentials(t, n, tgt, m, v) ==
  /\ "put_auth" \in Ops
  /\ pc[t] = "idle"
  /\ Free
  /\ mem[n] # None
  /\ Fresh(v)
  /\ Put(n, Flat(tgt))
  /\ Goto(t, "credentials", [name |-> n, method |-> m, value |-> v])
  /\ UNCHANGED <<secret, mu, up, crashes, ghosts, deleted, before>>

\* handleRotateCredential with a map reads the auth method to preserve first.
RotateRead(t, n, v) ==
  /\ "rotate_auth" \in Ops
  /\ pc[t] = "idle"
  /\ Free
  /\ mem[n] # None
  /\ secret[n] # None
  /\ Fresh(v)
  /\ Goto(t, "credentials",
          [name |-> n, method |-> secret[n].method, value |-> v])
  /\ UNCHANGED <<mem, meta, secret, mu, up, crashes, lost,
                 ghosts, deleted, before>>

\* Mutation of UpdateCredentials: it does not look whether the service exists.
UpdateCredentialsUnchecked(t) ==
  /\ pc[t] = "credentials"
  /\ Free
  /\ WriteSecretAnyhow(arg[t].name, arg[t].method, arg[t].value)
  /\ Done(t)
  /\ UNCHANGED <<mem, meta, mu, up, crashes, used, lost, deleted, before>>

UpdateCredentials(t) ==
  /\ pc[t] = "credentials"
  /\ Free
  /\ \/ /\ mem[arg[t].name] # None
        /\ WriteSecretAnyhow(arg[t].name, arg[t].method, arg[t].value)
     \/ /\ mem[arg[t].name] = None
        /\ UNCHANGED <<secret, ghosts>>
  /\ Done(t)
  /\ UNCHANGED <<mem, meta, mu, up, crashes, used, lost, deleted, before>>

\* handleRotateCredential with a single credential.
RotateCredential(n, v) ==
  /\ "rotate" \in Ops
  /\ Free
  /\ mem[n] # None
  /\ Fresh(v)
  /\ WriteSecretAnyhow(n, "api_key", v)
  /\ UNCHANGED <<mem, meta, handlerVars, up, crashes, lost, deleted, before>>

-----------------------------------------------------------------------------
(* Delete *)

\* Mutation of Delete: the lock is released before the secret is deleted.
DeleteUnlocks(t, n) ==
  /\ "delete" \in Ops
  /\ pc[t] = "idle"
  /\ Free
  /\ mem[n] # None
  /\ mem' = [mem EXCEPT ![n] = None]
  /\ \/ /\ meta' = [meta EXCEPT ![n] = None]
        /\ lost' = lost \ {n}
        /\ UNCHANGED ghosts
     \/ /\ Faults
        /\ lost' = lost \cup {n}
        /\ ghosts' = ghosts \cup {n}
        /\ UNCHANGED meta
  /\ mu' = None
  /\ Goto(t, "purge", [name |-> n])
  /\ UNCHANGED <<secret, up, crashes, used, deleted, before>>

\* The map entry goes first, then the metadata, errors ignored ...
Delete(t, n) ==
  /\ "delete" \in Ops
  /\ pc[t] = "idle"
  /\ Free
  /\ mem[n] # None
  /\ mem' = [mem EXCEPT ![n] = None]
  /\ \/ /\ meta' = [meta EXCEPT ![n] = None]
        /\ lost' = lost \ {n}
        /\ UNCHANGED ghosts
     \/ /\ Faults
        /\ lost' = lost \cup {n}
        /\ ghosts' = ghosts \cup {n}
        /\ UNCHANGED meta
  /\ mu' = t
  /\ Goto(t, "purge", [name |-> n])
  /\ UNCHANGED <<secret, up, crashes, used, deleted, before>>

\* ... then the secret.
Purge(t) ==
  /\ pc[t] = "purge"
  /\ LET n == arg[t].name IN
       \/ /\ secret' = [secret EXCEPT ![n] = None]
          /\ deleted' = deleted \cup {n}
       \/ Faults /\ UNCHANGED <<secret, deleted>>
  /\ mu' = None
  /\ Done(t)
  /\ UNCHANGED <<mem, meta, up, crashes, used, lost, ghosts, before>>

-----------------------------------------------------------------------------
(* Callback and PollDeviceFlow, once they have the tokens *)

\* They look whether the service exists ...
OAuthGet(t, n, m, v) ==
  /\ "oauth" \in Ops
  /\ pc[t] = "idle"
  /\ Free
  /\ Fresh(v)
  /\ Goto(t, IF mem[n] = None THEN "oauth_create" ELSE "oauth_update",
          [name |-> n, method |-> m, value |-> v])
  /\ UNCHANGED <<mem, meta, secret, mu, up, crashes, lost,
                 ghosts, deleted, before>>

\* ... create it from the template of the provider, whatever comes of it, ...
OAuthCreate(t, tgt) ==
  /\ pc[t] = "oauth_create"
  /\ LET a == arg[t] IN
       /\ UNCHANGED used
       /\ \/ Store(t, a.name, Templated(tgt, a.method), "api_key", a.value)
          \/ /\ Free
             /\ mem[a.name] # None
             /\ Done(t)
             /\ UNCHANGED <<mem, meta, secret, mu, up, crashes, lost,
                            ghosts, deleted, before>>

\* ... or update it with a Service that has no Type, which validateService
\* rejects; the error is logged and the answer is "complete".
OAuthUpdate(t) ==
  /\ pc[t] = "oauth_update"
  /\ up
  /\ Done(t)
  /\ UNCHANGED <<mem, meta, secret, mu, up, crashes, used, lost, ghosts,
                 deleted, before>>

-----------------------------------------------------------------------------
(* Crash and restart *)

\* Services whose map entry or metadata is still to be written.
InOperation == {arg[t].name : t \in {u \in Threads : pc[u] \in {"insert", "replace"}}}

Crash ==
  /\ up
  /\ crashes < MaxCrashes
  /\ up' = FALSE
  /\ crashes' = crashes + 1
  /\ before' = mem
  /\ mem' = [n \in Names |-> None]
  /\ lost' = lost \cup InOperation
  /\ mu' = None
  /\ pc' = [t \in Threads |-> "idle"]
  /\ arg' = [t \in Threads |-> NoArg]
  /\ UNCHANGED <<meta, secret, used, ghosts, deleted>>

\* LoadFromVault: what cannot be listed or read is skipped silently.
LoadFromVault ==
  /\ ~up
  /\ up' = TRUE
  /\ \E read \in IF Faults THEN SUBSET Names ELSE {Names} :
       /\ mem' = [n \in Names |-> IF n \in read THEN meta[n] ELSE None]
       /\ lost' = lost \cup {n \in Names \ read : meta[n] # None}
  /\ deleted' = {n \in deleted : mem'[n] = None}
  /\ UNCHANGED <<meta, secret, handlerVars, crashes, used, ghosts, before>>

-----------------------------------------------------------------------------

RequestStep(t) ==
  \E n \in Names, v \in Values :
    \/ \E tgt \in Targets :
         \/ \E e \in Egresses \cup {None} : Create(t, n, tgt, e, v)
         \/ Update(t, n, tgt, v)
         \/ UpdateConfig(t, n, tgt)
         \/ \E m \in Methods : \/ CreateWithAuth(t, n, tgt, m, v)
                              \/ UpdateThenCredentials(t, n, tgt, m, v)
    \/ \E m \in Methods : OAuthGet(t, n, m, v)
    \/ RotateRead(t, n, v)
    \/ RotateCredential(n, v)
    \/ Delete(t, n)

HandlerStep(t) ==
  \/ Insert(t)
  \/ Replace(t)
  \/ Purge(t)
  \/ UpdateCredentials(t)
  \/ OAuthUpdate(t)
  \/ \E tgt \in Targets : OAuthCreate(t, tgt)

Next ==
  \/ \E t \in Threads : RequestStep(t) \/ HandlerStep(t)
  \/ Crash
  \/ LoadFromVault

Spec == Init /\ [][Next]_vars

-----------------------------------------------------------------------------
(* Properties *)

Restart == ~up /\ up'

\* The program loads after a restart the services it had, with the target and
\* the auth method they had, save those whose metadata could not be written or
\* read (saveMetadata, LoadFromVault).  Without their egress policies, which
\* neither function knows: a service made with one comes back with the default
\* guard, though registry.go:95 calls EgressPolicy "the persisted, declarative
\* form of per-service egress controls".  No handler of the program makes one.
RestartRestores ==
  [][Restart => \A n \in Names \ lost' :
       \/ mem'[n] = None /\ before[n] = None
       \/ /\ mem'[n] # None /\ before[n] # None
          /\ mem'[n].target = before[n].target
          /\ mem'[n].method = before[n].method
          /\ mem'[n].egress = None]_vars

\* Every service in memory has a credential in the vault, whatever is created,
\* deleted and restarted around it, except one that a restart brought back
\* after the vault refused to delete its metadata.
SecretBacked ==
  \A n \in Names : up /\ mem[n] # None /\ secret[n] = None => n \in ghosts

\* Of two requests that create a service of one name, the one that enters the
\* map has left its own credential in the vault (Create, CreateWithAuth).
CreatedWithItsCredential ==
  \A t \in Threads : pc[t] = "insert" => /\ secret[arg[t].name] # None
                                         /\ secret[arg[t].name].value = arg[t].value

\* A service deleted with success leaves no secret behind, though a request that
\* found it before is still about to write one (Delete: "to avoid orphaned
\* secrets").
NoOrphanedSecret == \A n \in deleted : secret[n] = None

\* "It replaces the stored credential without changing any other service
\* configuration" (handleRotateCredential) and "stored as the credential so the
\* proxy can use it" (Callback): resolveInjectionConfig finds the injection of
\* a service with an auth method by the auth method stored with its secret.
InjectionResolves ==
  \A n \in Names :
    mem[n] # None /\ mem[n].method \in Methods /\ secret[n] # None
      => secret[n].method \in Methods

=============================================================================
