---------------------------- MODULE RegistryProofs ----------------------------
(***************************************************************************)
(* The service registry and the proxy's caches over it, for any number of  *)
(* requests, names, credentials and crashes.                               *)
(*                                                                         *)
(* The invariants of the registry hold because mu covers what an operation *)
(* has done to the vault but not yet to the map, or the other way round.   *)
(* RegistryIInv therefore says who holds mu (Locked) and what each holder  *)
(* has left half done (HalfDone), and, beside the invariants themselves,   *)
(* how metadata and secrets agree (Kept) and how a crash finds them        *)
(* (Recorded).                                                             *)
(***************************************************************************)
EXTENDS ProxyCalls, TLAPS

-----------------------------------------------------------------------------
(* The registry *)

\* mu is held exactly by the handler that is inside of an operation.
Holding == {"insert", "replace", "purge"}
Locked == \A t \in Threads : pc[t] \in Holding <=> mu = t

\* A starting program has no handler and no service yet.
Down ==
  ~up => /\ \A t \in Threads : pc[t] = "idle"
         /\ \A n \in Names : mem[n] = None

\* What the holder of mu has done and not done yet.
HalfDone ==
  \A t \in Threads :
    LET n == arg[t].name IN
    /\ pc[t] = "insert" => /\ mem[n] = None
                           /\ n \notin deleted
                           /\ secret[n] # None
                           /\ secret[n].value = arg[t].value
    /\ pc[t] = "replace" => /\ n \notin deleted
                            /\ secret[n] # None
    /\ pc[t] = "purge" => /\ mem[n] = None
                          /\ meta[n] = None \/ n \in ghosts

\* A service that is in the map or could be loaded into it has its secret.
Kept ==
  \A n \in Names : mem[n] # None \/ meta[n] # None => secret[n] # None \/ n \in ghosts

\* A deleted service is gone from the map and the vault.
Forgotten == \A n \in deleted : mem[n] = None /\ secret[n] = None

\* What is saved of a service, if there is one.
Saved(s) == IF s = None THEN None ELSE Persisted(s)

\* The metadata of a name that is not lost is what is saved of the service that
\* memory has, or had.
Recorded == \A n \in Names \ lost : meta[n] = Saved(IF up THEN mem[n] ELSE before[n])

RegistryIInv == TypeOK /\ Locked /\ Down /\ HalfDone /\ Kept /\ Forgotten /\ Recorded

Steps == {"idle", "insert", "replace", "purge", "credentials", "oauth_create", "oauth_update"}

LEMMA LocalsOfHandlers ==
  /\ ArgAt["idle"] = {NoArg}
  /\ ArgAt["insert"] = [name: Names, svc: Service, value: Values]
  /\ ArgAt["replace"] = [name: Names, svc: Service]
  /\ ArgAt["purge"] = [name: Names]
  /\ ArgAt["credentials"] = Awaiting(Methods \cup {"api_key"})
  /\ ArgAt["oauth_create"] = Awaiting(Methods)
  /\ ArgAt["oauth_update"] = Awaiting(Methods)
BY DEF ArgAt

LEMMA LocalsTyped ==
  ASSUME TypeOK, NEW t \in Threads
  PROVE  /\ pc[t] = "insert" => arg[t] \in [name: Names, svc: Service, value: Values]
         /\ pc[t] = "replace" => arg[t] \in [name: Names, svc: Service]
         /\ pc[t] = "purge" => arg[t] \in [name: Names]
         /\ pc[t] = "credentials" => arg[t] \in Awaiting(Methods \cup {"api_key"})
         /\ pc[t] = "oauth_create" => arg[t] \in Awaiting(Methods)
<1>1. arg[t] \in ArgAt[pc[t]]
  BY DEF TypeOK
<1> QED
  BY <1>1, LocalsOfHandlers

\* Goto keeps the locals of the handlers well-typed.
LEMMA GotoTyped ==
  ASSUME TypeOK, NEW t \in Threads,
         NEW where \in Steps, NEW a \in ArgAt[where], Goto(t, where, a)
  PROVE  /\ pc' \in [Threads -> Steps]
         /\ arg' = [u \in Threads |-> arg'[u]]
         /\ \A u \in Threads : arg'[u] \in ArgAt[pc'[u]]
         /\ pc'[t] = where /\ arg'[t] = a
         /\ \A u \in Threads : u # t => pc'[u] = pc[u] /\ arg'[u] = arg[u]
BY DEF TypeOK, Goto, Steps

LEMMA StoreInv ==
  ASSUME RegistryIInv, NEW t \in Threads, pc[t] \notin Holding, NEW n \in Names,
         NEW s \in Service, NEW m \in Methods \cup {"api_key"}, NEW v \in Values,
         used' \in SUBSET Values, Store(t, n, s, m, v)
  PROVE  RegistryIInv'
<1> USE DEF RegistryIInv
<1> DEFINE sec == [method |-> m, value |-> v]
<1>0. sec \in Secret /\ sec # None
  BY RegistryAssumption DEF Secret
<1>1. up /\ mu = None /\ mem[n] = None /\ deleted' = deleted \ {n}
      /\ UNCHANGED <<mem, meta, up, crashes, lost, before>>
  BY DEF Store, Free
<1>2. CASE WriteSecret(n, m, v) /\ mu' = t /\ Goto(t, "insert", [name |-> n, svc |-> s, value |-> v])
  <2>1. [name |-> n, svc |-> s, value |-> v] \in ArgAt["insert"]
    BY LocalsOfHandlers
  <2>2. TypeOK'
    BY <1>0, <1>1, <1>2, <2>1, GotoTyped DEF TypeOK, Steps, WriteSecret
  <2>3. Locked' /\ Down'
    BY <1>1, <1>2, <2>1, GotoTyped, RegistryAssumption DEF Steps, Locked, Down, Holding
  <2>4. HalfDone'
    BY <1>0, <1>1, <1>2, <2>1, GotoTyped, RegistryAssumption DEF Steps, HalfDone, Locked, Holding, WriteSecret, TypeOK
  <2>5. Kept' /\ Forgotten' /\ Recorded'
    BY <1>0, <1>1, <1>2 DEF Kept, Forgotten, Recorded, WriteSecret, TypeOK
  <2> QED
    BY <2>2, <2>3, <2>4, <2>5
<1>3. CASE WriteSecretFails(n, m, v) /\ Done(t) /\ UNCHANGED mu
  <2>1. NoArg \in ArgAt["idle"]
    BY LocalsOfHandlers
  <2>2. TypeOK'
    BY <1>0, <1>1, <1>3, <2>1, GotoTyped DEF TypeOK, Steps, WriteSecret, WriteSecretFails, Done
  <2>3. Locked' /\ Down'
    BY <1>1, <1>3, <2>1, GotoTyped, RegistryAssumption DEF Steps, Locked, Down, Holding, Done
  <2>4. HalfDone'
    BY <1>0, <1>1, <1>3, <2>1, GotoTyped, RegistryAssumption DEF Steps, HalfDone, Locked, Holding, Done
  <2>5. Kept' /\ Forgotten' /\ Recorded'
    BY <1>0, <1>1, <1>3 DEF Kept, Forgotten, Recorded, WriteSecret, WriteSecretFails, TypeOK
  <2> QED
    BY <2>2, <2>3, <2>4, <2>5
<1> QED
  BY <1>2, <1>3 DEF Store

\* What the end of a handler and of its locals amounts to.
LEMMA DoneTyped ==
  ASSUME TypeOK, NEW t \in Threads, Done(t)
  PROVE  /\ pc' \in [Threads -> Steps]
         /\ arg' = [u \in Threads |-> arg'[u]]
         /\ \A u \in Threads : arg'[u] \in ArgAt[pc'[u]]
         /\ pc'[t] = "idle"
         /\ \A u \in Threads : u # t => pc'[u] = pc[u] /\ arg'[u] = arg[u]
BY GotoTyped, LocalsOfHandlers DEF Done, Steps

\* What is saved of a service is a service, which may lack its egress policy; saving
\* that one loses nothing more.
LEMMA SavedServices ==
  /\ Saved(None) = None
  /\ \A s \in Service : /\ s # None
                        /\ Saved(s) = Persisted(s)
                        /\ Persisted(s) \in Service
                        /\ Persisted(Persisted(s)) = Persisted(s)
                        /\ Persisted(s) # None
<1>1. Saved(None) = None
  BY DEF Saved
<1>2. ASSUME NEW s \in Service
      PROVE  Persisted(s) \in Service /\ Persisted(Persisted(s)) = Persisted(s)
  BY DEF Persisted, Service
<1>3. \A s \in Service : s # None
  BY RegistryAssumption
<1> QED
  BY <1>1, <1>2, <1>3 DEF Saved

\* The last step of Create and of Update: the map and the metadata follow the secret.
LEMMA PutInv ==
  ASSUME RegistryIInv, NEW t \in Threads, Insert(t) \/ Replace(t)
  PROVE  RegistryIInv'
<1> USE DEF RegistryIInv
<1> DEFINE n == arg[t].name
           s == arg[t].svc
<1>1. /\ pc[t] \in {"insert", "replace"} /\ Put(n, s) /\ mu' = None /\ Done(t)
      /\ UNCHANGED <<secret, up, crashes, ghosts, deleted, before>>
      /\ used' = used
  BY DEF Insert, Replace
<1>2. n \in Names /\ s \in Service
  BY <1>1, LocalsTyped
<1>3. mu = t /\ up /\ secret[n] # None /\ n \notin deleted
  BY <1>1 DEF Locked, Holding, Down, HalfDone
<1>4. mem' = [mem EXCEPT ![n] = s]
      /\ \/ meta' = [meta EXCEPT ![n] = Saved(s)] /\ lost' = lost \ {n}
         \/ meta' = meta /\ lost' = lost \cup {n}
      /\ Saved(s) \in Service
  BY <1>1, <1>2, SavedServices DEF Put
<1> HIDE DEF n, s
<1>5. TypeOK'
  BY <1>1, <1>2, <1>4, DoneTyped DEF TypeOK, Steps
<1>6. Locked' /\ Down'
  BY <1>1, <1>3, DoneTyped, RegistryAssumption DEF Locked, Down, Holding
<1>7. HalfDone'
  BY <1>1, <1>3, DoneTyped, RegistryAssumption DEF HalfDone, Locked, Holding
<1>8. Kept' /\ Forgotten' /\ Recorded'
  BY <1>1, <1>2, <1>3, <1>4 DEF Kept, Forgotten, Recorded, TypeOK
<1> QED
  BY <1>5, <1>6, <1>7, <1>8

LEMMA UpdateInv ==
  ASSUME RegistryIInv, NEW t \in Threads, NEW n \in Names, NEW tgt \in Targets,
         NEW v \in Values, Update(t, n, tgt, v)
  PROVE  RegistryIInv'
<1> USE DEF RegistryIInv
<1> DEFINE sec == [method |-> "api_key", value |-> v]
<1>0. sec \in Secret /\ sec # None
  BY RegistryAssumption DEF Secret
<1>1. /\ pc[t] = "idle" /\ up /\ mu = None /\ mem[n] # None
      /\ used' \in SUBSET Values
      /\ UNCHANGED <<mem, meta, up, crashes, lost, deleted, before>>
  BY DEF Update, Free, Fresh, TypeOK
<1>2. CASE WriteSecret(n, "api_key", v) /\ mu' = t
           /\ Goto(t, "replace", [name |-> n, svc |-> Flat(tgt)])
  <2>1. [name |-> n, svc |-> Flat(tgt)] \in ArgAt["replace"]
    BY LocalsOfHandlers DEF Flat, Service
  <2>2. TypeOK'
    BY <1>0, <1>1, <1>2, <2>1, GotoTyped DEF TypeOK, Steps, WriteSecret
  <2>3. Locked' /\ Down'
    BY <1>1, <1>2, <2>1, GotoTyped, RegistryAssumption DEF Steps, Locked, Down, Holding
  <2>4. HalfDone'
    BY <1>0, <1>1, <1>2, <2>1, GotoTyped, RegistryAssumption
       DEF Steps, HalfDone, Locked, Holding, WriteSecret, TypeOK, Forgotten
  <2>5. Kept' /\ Forgotten' /\ Recorded'
    BY <1>0, <1>1, <1>2 DEF Kept, Forgotten, Recorded, WriteSecret, TypeOK
  <2> QED
    BY <2>2, <2>3, <2>4, <2>5
<1>3. CASE WriteSecretFails(n, "api_key", v) /\ UNCHANGED handlerVars
  <2>1. TypeOK'
    BY <1>0, <1>1, <1>3 DEF TypeOK, WriteSecret, WriteSecretFails, handlerVars
  <2>2. Locked' /\ Down' /\ HalfDone'
    BY <1>1, <1>3, RegistryAssumption DEF Locked, Down, HalfDone, Holding, handlerVars
  <2>3. Kept' /\ Forgotten' /\ Recorded'
    BY <1>0, <1>1, <1>3 DEF Kept, Forgotten, Recorded, WriteSecret, WriteSecretFails, TypeOK
  <2> QED
    BY <2>1, <2>2, <2>3
<1> QED
  BY <1>2, <1>3 DEF Update

\* UpdateConfig, and the first half of UpdateThenCredentials.
LEMMA ConfigInv ==
  ASSUME RegistryIInv, NEW t \in Threads, NEW n \in Names, NEW tgt \in Targets,
         \/ UpdateConfig(t, n, tgt)
         \/ \E m \in Methods, v \in Values : UpdateThenCredentials(t, n, tgt, m, v)
  PROVE  RegistryIInv'
<1> USE DEF RegistryIInv
<1> DEFINE s == Flat(tgt)
<1>1. /\ pc[t] = "idle" /\ up /\ mu = None /\ mem[n] # None /\ Put(n, s)
      /\ used' \in SUBSET Values
      /\ UNCHANGED <<secret, mu, up, crashes, ghosts, deleted, before>>
  BY DEF UpdateConfig, UpdateThenCredentials, Free, Fresh, TypeOK, handlerVars
<1>2. s \in Service
  BY DEF Flat, Service
<1>3. mem' = [mem EXCEPT ![n] = s]
      /\ \/ meta' = [meta EXCEPT ![n] = Saved(s)] /\ lost' = lost \ {n}
         \/ meta' = meta /\ lost' = lost \cup {n}
      /\ Saved(s) \in Service
  BY <1>1, <1>2, SavedServices DEF Put
<1> HIDE DEF s
<1>4. /\ pc' \in [Threads -> Steps]
      /\ arg' = [u \in Threads |-> arg'[u]]
      /\ \A u \in Threads : arg'[u] \in ArgAt[pc'[u]]
      /\ pc'[t] \in {"idle", "credentials"}
      /\ \A u \in Threads : u # t => pc'[u] = pc[u] /\ arg'[u] = arg[u]
  <2>1. CASE UpdateConfig(t, n, tgt)
    BY <2>1, <1>1 DEF UpdateConfig, handlerVars, TypeOK, Steps
  <2>2. CASE \E m \in Methods, v \in Values : UpdateThenCredentials(t, n, tgt, m, v)
    <3> PICK m \in Methods, v \in Values : UpdateThenCredentials(t, n, tgt, m, v)
      BY <2>2
    <3>1. [name |-> n, method |-> m, value |-> v] \in ArgAt["credentials"]
      BY LocalsOfHandlers DEF Awaiting
    <3> QED
      BY <3>1, GotoTyped DEF UpdateThenCredentials, Steps
  <2> QED
    BY <2>1, <2>2
<1>5. TypeOK'
  BY <1>1, <1>2, <1>3, <1>4 DEF TypeOK, Steps
<1>6. Locked' /\ Down'
  BY <1>1, <1>4, RegistryAssumption DEF Locked, Down, Holding
<1>7. HalfDone'
  BY <1>1, <1>4, RegistryAssumption DEF HalfDone, Locked, Holding
<1>8. Kept' /\ Forgotten' /\ Recorded'
  BY <1>1, <1>2, <1>3 DEF Kept, Forgotten, Recorded, TypeOK
<1> QED
  BY <1>5, <1>6, <1>7, <1>8

\* RotateRead and OAuthGet: a handler sets out, with locals of its own.
LEMMA AwaitInv ==
  ASSUME RegistryIInv, NEW t \in Threads, pc[t] = "idle", up,
         NEW where \in {"credentials", "oauth_create", "oauth_update"}, NEW a \in ArgAt[where],
         Goto(t, where, a),
         used' \in SUBSET Values,
         UNCHANGED <<mem, meta, secret, mu, up, crashes, lost, ghosts, deleted, before>>
  PROVE  RegistryIInv'
<1> USE DEF RegistryIInv
<1>1. where \in Steps
  BY DEF Steps
<1>2. TypeOK'
  BY <1>1, GotoTyped DEF TypeOK, Steps
<1>3. Locked' /\ Down' /\ HalfDone'
  BY <1>1, GotoTyped, RegistryAssumption DEF Locked, Down, HalfDone, Holding
<1>4. Kept' /\ Forgotten' /\ Recorded'
  BY DEF Kept, Forgotten, Recorded
<1> QED
  BY <1>2, <1>3, <1>4

\* UpdateCredentials, RotateCredential: the secret of a service that exists is replaced.
LEMMA SecretInv ==
  ASSUME RegistryIInv, up, mu = None, NEW n \in Names, mem[n] # None,
         NEW m \in Methods \cup {"api_key"}, NEW v \in Values, WriteSecretAnyhow(n, m, v),
         TypeOK', UNCHANGED <<mem, meta, mu, up, lost, deleted, before>>,
         \A t \in Threads : \/ pc'[t] = pc[t] /\ arg'[t] = arg[t]
                            \/ pc'[t] \notin Holding /\ pc[t] \notin Holding
  PROVE  RegistryIInv'
<1> USE DEF RegistryIInv
<1> DEFINE sec == [method |-> m, value |-> v]
<1>1. sec \in Secret /\ sec # None
  BY RegistryAssumption DEF Secret
<1>2. \/ secret' = [secret EXCEPT ![n] = sec] /\ ghosts' = ghosts \ {n}
      \/ UNCHANGED <<secret, ghosts>>
  BY DEF WriteSecretAnyhow, WriteSecret, WriteSecretFails
<1> HIDE DEF sec
<1>3. \A t \in Threads : pc[t] \notin Holding /\ pc'[t] \notin Holding
  BY RegistryAssumption DEF Locked
<1>4. Locked' /\ Down' /\ HalfDone'
  BY <1>3, RegistryAssumption DEF Locked, Down, HalfDone, Holding
<1>5. Kept' /\ Forgotten' /\ Recorded'
  BY <1>1, <1>2 DEF Kept, Forgotten, Recorded, TypeOK
<1> QED
  BY <1>4, <1>5

LEMMA WriteSecretTyped ==
  ASSUME TypeOK, NEW n \in Names, NEW m \in Methods \cup {"api_key"}, NEW v \in Values,
         WriteSecretAnyhow(n, m, v)
  PROVE  secret' \in [Names -> Secret \cup {None}] /\ ghosts' \in SUBSET Names
BY DEF TypeOK, WriteSecretAnyhow, WriteSecret, WriteSecretFails, Secret

LEMMA UpdateCredentialsInv ==
  ASSUME RegistryIInv, NEW t \in Threads, UpdateCredentials(t)
  PROVE  RegistryIInv'
<1> USE DEF RegistryIInv
<1> DEFINE a == arg[t]
<1>1. /\ pc[t] = "credentials" /\ up /\ mu = None /\ Done(t)
      /\ UNCHANGED <<mem, meta, mu, up, crashes, used, lost, deleted, before>>
  BY DEF UpdateCredentials, Free
<1>2. a.name \in Names /\ a.method \in Methods \cup {"api_key"} /\ a.value \in Values
  BY <1>1, LocalsTyped DEF Awaiting
<1>3. CASE mem[a.name] # None /\ WriteSecretAnyhow(a.name, a.method, a.value)
  <2>1. TypeOK'
    BY <1>1, <1>2, <1>3, WriteSecretTyped, DoneTyped DEF TypeOK, Steps
  <2>2. \A u \in Threads : \/ pc'[u] = pc[u] /\ arg'[u] = arg[u]
                           \/ pc'[u] \notin Holding /\ pc[u] \notin Holding
    BY <1>1, DoneTyped DEF Holding
  <2> QED
    BY <1>1, <1>2, <1>3, <2>1, <2>2, SecretInv
<1>4. CASE UNCHANGED <<secret, ghosts>>
  <2>1. TypeOK'
    BY <1>1, <1>4, DoneTyped DEF TypeOK, Steps
  <2>2. Locked' /\ Down' /\ HalfDone'
    BY <1>1, <1>4, DoneTyped, RegistryAssumption DEF Locked, Down, HalfDone, Holding
  <2>3. Kept' /\ Forgotten' /\ Recorded'
    BY <1>1, <1>4 DEF Kept, Forgotten, Recorded
  <2> QED
    BY <2>1, <2>2, <2>3
<1> QED
  BY <1>3, <1>4 DEF UpdateCredentials

LEMMA RotateCredentialInv ==
  ASSUME RegistryIInv, NEW n \in Names, NEW v \in Values, RotateCredential(n, v)
  PROVE  RegistryIInv'
<1>1. /\ up /\ mu = None /\ mem[n] # None /\ WriteSecretAnyhow(n, "api_key", v)
      /\ used' \in SUBSET Values /\ UNCHANGED <<mem, meta, mu, pc, arg, up, crashes, lost, deleted, before>>
  BY DEF RotateCredential, Free, Fresh, RegistryIInv, TypeOK, handlerVars
<1>2. TypeOK'
  BY <1>1, WriteSecretTyped DEF RegistryIInv, TypeOK
<1> QED
  BY <1>1, <1>2, SecretInv

LEMMA DeleteInv ==
  ASSUME RegistryIInv, NEW t \in Threads, NEW n \in Names, Delete(t, n)
  PROVE  RegistryIInv'
<1> USE DEF RegistryIInv
<1>1. /\ pc[t] = "idle" /\ up /\ mu = None /\ mem[n] # None
      /\ mem' = [mem EXCEPT ![n] = None] /\ mu' = t /\ Goto(t, "purge", [name |-> n])
      /\ \/ meta' = [meta EXCEPT ![n] = None] /\ lost' = lost \ {n} /\ ghosts' = ghosts
         \/ meta' = meta /\ lost' = lost \cup {n} /\ ghosts' = ghosts \cup {n}
      /\ UNCHANGED <<secret, up, crashes, used, deleted, before>>
  BY DEF Delete, Free
<1>2. [name |-> n] \in ArgAt["purge"] /\ "purge" \in Steps
  BY LocalsOfHandlers DEF Steps
<1>3. TypeOK'
  BY <1>1, <1>2, GotoTyped DEF TypeOK, Steps
<1>4. Locked' /\ Down'
  BY <1>1, <1>2, GotoTyped, RegistryAssumption DEF Locked, Down, Holding
<1>5. HalfDone'
  BY <1>1, <1>2, GotoTyped, RegistryAssumption DEF HalfDone, Locked, Holding, TypeOK
<1>6. Kept' /\ Forgotten' /\ Recorded'
  BY <1>1, SavedServices DEF Kept, Forgotten, Recorded, TypeOK
<1> QED
  BY <1>3, <1>4, <1>5, <1>6

LEMMA PurgeInv ==
  ASSUME RegistryIInv, NEW t \in Threads, Purge(t)
  PROVE  RegistryIInv'
<1> USE DEF RegistryIInv
<1> DEFINE n == arg[t].name
<1>1. /\ pc[t] = "purge" /\ mu' = None /\ Done(t)
      /\ \/ secret' = [secret EXCEPT ![n] = None] /\ deleted' = deleted \cup {n}
         \/ UNCHANGED <<secret, deleted>>
      /\ UNCHANGED <<mem, meta, up, crashes, used, lost, ghosts, before>>
  BY DEF Purge
<1>2. n \in Names /\ mu = t /\ up /\ mem[n] = None /\ (meta[n] = None \/ n \in ghosts)
  BY <1>1, LocalsTyped DEF Locked, Holding, Down, HalfDone
<1> HIDE DEF n
<1>3. TypeOK'
  BY <1>1, <1>2, DoneTyped DEF TypeOK, Steps
<1>4. Locked' /\ Down' /\ HalfDone'
  BY <1>1, <1>2, DoneTyped, RegistryAssumption DEF Locked, Down, HalfDone, Holding
<1>5. Kept' /\ Forgotten' /\ Recorded'
  BY <1>1, <1>2 DEF Kept, Forgotten, Recorded, TypeOK
<1> QED
  BY <1>3, <1>4, <1>5

\* OAuthUpdate, and OAuthCreate of a service that has appeared in the meantime.
LEMMA NothingDoneInv ==
  ASSUME RegistryIInv, NEW t \in Threads, up, pc[t] \notin Holding, Done(t),
         UNCHANGED <<mem, meta, secret, mu, up, crashes, used, lost, ghosts, deleted, before>>
  PROVE  RegistryIInv'
<1> USE DEF RegistryIInv
<1>1. TypeOK'
  BY DoneTyped DEF TypeOK, Steps
<1>2. Locked' /\ Down' /\ HalfDone'
  BY DoneTyped, RegistryAssumption DEF Locked, Down, HalfDone, Holding
<1>3. Kept' /\ Forgotten' /\ Recorded'
  BY DEF Kept, Forgotten, Recorded
<1> QED
  BY <1>1, <1>2, <1>3

LEMMA CrashInv == RegistryIInv /\ Crash => RegistryIInv'
<1> SUFFICES ASSUME RegistryIInv, Crash PROVE RegistryIInv'
  OBVIOUS
<1> USE DEF RegistryIInv
<1>1. InOperation \in SUBSET Names
  <2>1. ASSUME NEW t \in Threads, pc[t] \in {"insert", "replace"} PROVE arg[t].name \in Names
    BY <2>1, LocalsTyped
  <2> QED
    BY <2>1 DEF InOperation
<1>2. TypeOK'
  <2>1. /\ up /\ crashes < MaxCrashes /\ up' = FALSE /\ crashes' = crashes + 1 /\ before' = mem
        /\ mem' = [n \in Names |-> None] /\ lost' = lost \cup InOperation /\ mu' = None
        /\ UNCHANGED <<meta, secret, used, ghosts, deleted>>
    BY DEF Crash
  <2>2. /\ pc' = [t \in Threads |-> "idle"]
        /\ arg' = [t \in Threads |-> arg'[t]]
        /\ \A t \in Threads : arg'[t] \in ArgAt[pc'[t]]
    BY LocalsOfHandlers DEF Crash
  <2>3. crashes' \in 0 .. MaxCrashes
    BY <2>1, RegistryAssumption DEF TypeOK
  <2> QED
    BY <1>1, <2>1, <2>2, <2>3 DEF TypeOK
<1>3. Locked' /\ Down' /\ HalfDone'
  BY RegistryAssumption DEF Crash, Locked, Down, HalfDone, Holding
<1>4. Kept' /\ Forgotten'
  BY DEF Crash, Kept, Forgotten, TypeOK
<1>5. Recorded'
  BY DEF Crash, Recorded
<1> QED
  BY <1>2, <1>3, <1>4, <1>5

LEMMA LoadInv == RegistryIInv /\ LoadFromVault => RegistryIInv'
<1> SUFFICES ASSUME RegistryIInv, LoadFromVault PROVE RegistryIInv'
  OBVIOUS
<1> USE DEF RegistryIInv
<1>1. PICK read \in SUBSET Names :
        /\ mem' = [n \in Names |-> IF n \in read THEN meta[n] ELSE None]
        /\ lost' = lost \cup {n \in Names \ read : meta[n] # None}
  BY DEF LoadFromVault
<1>2. /\ ~up /\ up' /\ deleted' = {n \in deleted : mem'[n] = None}
      /\ UNCHANGED <<meta, secret, mu, pc, arg, crashes, used, ghosts, before>>
  BY DEF LoadFromVault, handlerVars
<1>3. TypeOK'
  BY <1>1, <1>2 DEF TypeOK
<1>4. Locked' /\ Down' /\ HalfDone'
  BY <1>1, <1>2, RegistryAssumption DEF Locked, Down, HalfDone, Holding
<1>5. Kept' /\ Forgotten'
  BY <1>1, <1>2 DEF Kept, Forgotten, TypeOK
<1>6. Recorded'
  <2> SUFFICES ASSUME NEW n \in Names \ lost' PROVE meta[n] = Saved(mem'[n])
    BY <1>2 DEF Recorded
  <2>1. mem'[n] = meta[n] /\ meta[n] = Saved(before[n])
    BY <1>1, <1>2 DEF Recorded
  <2>2. Saved(Saved(before[n])) = Saved(before[n])
    BY SavedServices DEF TypeOK
  <2> QED
    BY <2>1, <2>2
<1> QED
  BY <1>3, <1>4, <1>5, <1>6

LEMMA RequestStepInv ==
  ASSUME RegistryIInv, NEW t \in Threads, RequestStep(t)
  PROVE  RegistryIInv'
<1> PICK n \in Names, v \in Values :
      \/ \E tgt \in Targets :
           \/ \E e \in Egresses \cup {None} : Create(t, n, tgt, e, v)
           \/ Update(t, n, tgt, v)
           \/ UpdateConfig(t, n, tgt)
           \/ \E m \in Methods : CreateWithAuth(t, n, tgt, m, v)
                                 \/ UpdateThenCredentials(t, n, tgt, m, v)
      \/ \E m \in Methods : OAuthGet(t, n, m, v)
      \/ RotateRead(t, n, v)
      \/ RotateCredential(n, v)
      \/ Delete(t, n)
  BY DEF RequestStep
<1>0. Fresh(v) => used' \in SUBSET Values
  BY DEF Fresh, RegistryIInv, TypeOK
<1>1. ASSUME NEW tgt \in Targets, NEW e \in Egresses \cup {None}, Create(t, n, tgt, e, v)
      PROVE  RegistryIInv'
  <2>1. [Flat(tgt) EXCEPT !.egress = e] \in Service
    BY DEF Flat, Service
  <2> QED
    BY <1>0, <1>1, <2>1, StoreInv DEF Create, Holding
<1>2. ASSUME NEW tgt \in Targets, Update(t, n, tgt, v) PROVE RegistryIInv'
  BY <1>2, UpdateInv
<1>3. ASSUME NEW tgt \in Targets, UpdateConfig(t, n, tgt) PROVE RegistryIInv'
  BY <1>3, ConfigInv
<1>4. ASSUME NEW tgt \in Targets, NEW m \in Methods, CreateWithAuth(t, n, tgt, m, v)
      PROVE  RegistryIInv'
  BY <1>0, <1>4, StoreInv DEF CreateWithAuth, Templated, Service, Holding
<1>5. ASSUME NEW tgt \in Targets, NEW m \in Methods, UpdateThenCredentials(t, n, tgt, m, v)
      PROVE  RegistryIInv'
  BY <1>5, ConfigInv
<1>6. ASSUME NEW m \in Methods, OAuthGet(t, n, m, v) PROVE RegistryIInv'
  <2>1. [name |-> n, method |-> m, value |-> v] \in ArgAt["oauth_create"]
        /\ [name |-> n, method |-> m, value |-> v] \in ArgAt["oauth_update"]
    BY LocalsOfHandlers DEF Awaiting
  <2> QED
    BY <1>0, <1>6, <2>1, AwaitInv DEF OAuthGet, Free
<1>7. CASE RotateRead(t, n, v)
  <2>1. [name |-> n, method |-> secret[n].method, value |-> v] \in ArgAt["credentials"]
    BY <1>7, LocalsOfHandlers DEF RotateRead, RegistryIInv, TypeOK, Secret, Awaiting
  <2> QED
    BY <1>0, <1>7, <2>1, AwaitInv DEF RotateRead, Free
<1>8. CASE RotateCredential(n, v)
  BY <1>8, RotateCredentialInv
<1>9. CASE Delete(t, n)
  BY <1>9, DeleteInv
<1> QED
  BY <1>1, <1>2, <1>3, <1>4, <1>5, <1>6, <1>7, <1>8, <1>9

LEMMA HandlerStepInv ==
  ASSUME RegistryIInv, NEW t \in Threads, HandlerStep(t)
  PROVE  RegistryIInv'
<1>1. CASE Insert(t) \/ Replace(t)
  BY <1>1, PutInv
<1>2. CASE Purge(t)
  BY <1>2, PurgeInv
<1>3. CASE UpdateCredentials(t)
  BY <1>3, UpdateCredentialsInv
<1>4. CASE OAuthUpdate(t)
  BY <1>4, NothingDoneInv DEF OAuthUpdate, Holding
<1>5. ASSUME NEW tgt \in Targets, OAuthCreate(t, tgt) PROVE RegistryIInv'
  <2> DEFINE a == arg[t]
             s == Templated(tgt, a.method)
  <2>1. pc[t] = "oauth_create" /\ used' = used
    BY <1>5 DEF OAuthCreate
  <2>2. a.name \in Names /\ a.method \in Methods /\ a.value \in Values
    BY <2>1, LocalsTyped DEF RegistryIInv, Awaiting
  <2>3. CASE Store(t, a.name, s, "api_key", a.value)
    <3>1. s \in Service
      BY <2>2 DEF Templated, Service
    <3> QED
      BY <2>1, <2>2, <2>3, <3>1, StoreInv DEF RegistryIInv, TypeOK, Holding
  <2>4. CASE Free /\ Done(t) /\ UNCHANGED <<mem, meta, secret, mu, up, crashes, lost, ghosts, deleted, before>>
    BY <2>1, <2>4, NothingDoneInv DEF Free, Holding
  <2> QED
    BY <1>5, <2>3, <2>4 DEF OAuthCreate
<1> QED
  BY <1>1, <1>2, <1>3, <1>4, <1>5 DEF HandlerStep

LEMMA RegistryInitInv == Init => RegistryIInv
BY LocalsOfHandlers, SavedServices, RegistryAssumption
   DEF Init, RegistryIInv, TypeOK, Locked, Down, HalfDone, Kept, Forgotten, Recorded, Holding

LEMMA RegistryStepInv == RegistryIInv /\ [Next]_vars => RegistryIInv'
<1> SUFFICES ASSUME RegistryIInv, [Next]_vars PROVE RegistryIInv'
  OBVIOUS
<1>1. ASSUME NEW t \in Threads, RequestStep(t) PROVE RegistryIInv'
  BY <1>1, RequestStepInv
<1>2. ASSUME NEW t \in Threads, HandlerStep(t) PROVE RegistryIInv'
  BY <1>2, HandlerStepInv
<1>3. CASE Crash
  BY <1>3, CrashInv
<1>4. CASE LoadFromVault
  BY <1>4, LoadInv
<1>5. CASE UNCHANGED vars
  BY <1>5 DEF vars, handlerVars, history, RegistryIInv, TypeOK, Locked, Down, HalfDone, Kept,
              Forgotten, Recorded
<1> QED
  BY <1>1, <1>2, <1>3, <1>4, <1>5 DEF Next

LEMMA RegistryInvariance == Spec => []RegistryIInv
BY RegistryInitInv, RegistryStepInv, PTL DEF Spec

\* The map, the vault and the handlers between their steps keep their types (Registry).
THEOREM RegistryTypeCorrectness == Spec => []TypeOK
<1>1. RegistryIInv => TypeOK
  BY DEF RegistryIInv
<1> QED
  BY <1>1, RegistryInvariance, PTL

\* Every service in memory has its secret, whatever was created, deleted and restarted
\* around it, but for one whose metadata the vault refused to delete.
THEOREM SecretBackedHolds == Spec => []SecretBacked
<1>1. RegistryIInv => SecretBacked
  BY DEF RegistryIInv, Kept, SecretBacked
<1> QED
  BY <1>1, RegistryInvariance, PTL

\* Of any number of requests that create one name, the one that enters the map has left
\* its own credential in the vault (Create, CreateWithAuth).
THEOREM CreatedWithItsCredentialHolds == Spec => []CreatedWithItsCredential
<1>1. RegistryIInv => CreatedWithItsCredential
  BY DEF RegistryIInv, HalfDone, CreatedWithItsCredential
<1> QED
  BY <1>1, RegistryInvariance, PTL

\* A service deleted with success leaves no secret, and none is written later (Delete).
THEOREM NoOrphanedSecretHolds == Spec => []NoOrphanedSecret
<1>1. RegistryIInv => NoOrphanedSecret
  BY DEF RegistryIInv, Forgotten, NoOrphanedSecret
<1> QED
  BY <1>1, RegistryInvariance, PTL

\* A program that starts does nothing but load the vault.
LEMMA OnlyLoadsWhileDown == RegistryIInv /\ ~up /\ Next => LoadFromVault
<1> SUFFICES ASSUME RegistryIInv, ~up, Next PROVE LoadFromVault
  OBVIOUS
<1>1. \A t \in Threads : pc[t] = "idle"
  BY DEF RegistryIInv, Down
<1>2. ASSUME NEW t \in Threads, RequestStep(t) PROVE FALSE
  <2> SUFFICES ASSUME NEW n \in Names, NEW v \in Values, NEW tgt, NEW m, NEW e,
                      \/ Create(t, n, tgt, e, v)
                      \/ Update(t, n, tgt, v)
                      \/ UpdateConfig(t, n, tgt)
                      \/ CreateWithAuth(t, n, tgt, m, v)
                      \/ UpdateThenCredentials(t, n, tgt, m, v)
                      \/ OAuthGet(t, n, m, v)
                      \/ RotateRead(t, n, v)
                      \/ RotateCredential(n, v)
                      \/ Delete(t, n)
               PROVE  Free
    BY <1>2 DEF RequestStep, Free
  <2>1. ASSUME NEW s, NEW w, Store(t, n, s, w, v) PROVE Free
    BY <2>1 DEF Store
  <2> QED
    BY <2>1 DEF Create, CreateWithAuth, Update, UpdateConfig, UpdateThenCredentials, OAuthGet,
                RotateRead, RotateCredential, Delete
<1>3. ASSUME NEW t \in Threads, HandlerStep(t) PROVE FALSE
  BY <1>1, <1>3 DEF HandlerStep, Insert, Replace, Purge, UpdateCredentials, OAuthUpdate, OAuthCreate
<1> QED
  BY <1>2, <1>3 DEF Next, Crash

\* After a crash at any step of any operation, the program loads the services it had
\* with their target and auth method, and without any egress policy, but for those
\* whose metadata was not written or not read (saveMetadata, LoadFromVault).
THEOREM RestartRestoresHolds == Spec => RestartRestores
<1>1. ASSUME RegistryIInv, [Next]_vars, Restart
      PROVE  \A n \in Names \ lost' :
               \/ mem'[n] = None /\ before[n] = None
               \/ /\ mem'[n] # None /\ before[n] # None
                  /\ mem'[n].target = before[n].target
                  /\ mem'[n].method = before[n].method
                  /\ mem'[n].egress = None
  <2>1. LoadFromVault
    BY <1>1, OnlyLoadsWhileDown DEF Restart, vars
  <2>2. PICK read \in SUBSET Names :
          /\ mem' = [n \in Names |-> IF n \in read THEN meta[n] ELSE None]
          /\ lost' = lost \cup {n \in Names \ read : meta[n] # None}
    BY <2>1 DEF LoadFromVault
  <2>3. \A n \in Names \ lost' : meta[n] = Saved(before[n]) /\ mem'[n] = meta[n]
    BY <1>1, <2>2 DEF Restart, RegistryIInv, Recorded
  <2>4. \A n \in Names : before[n] = None \/ before[n] \in Service
    BY <1>1 DEF RegistryIInv, TypeOK
  <2>5. ASSUME NEW n \in Names \ lost', before[n] \in Service
        PROVE  /\ mem'[n] # None /\ before[n] # None
               /\ mem'[n].target = before[n].target
               /\ mem'[n].method = before[n].method
               /\ mem'[n].egress = None
    <3>1. mem'[n] = Persisted(before[n]) /\ mem'[n] # None /\ before[n] # None
      BY <2>3, <2>5, SavedServices
    <3> QED
      BY <3>1 DEF Persisted
  <2>6. ASSUME NEW n \in Names \ lost', before[n] = None
        PROVE  mem'[n] = None
    BY <2>3, <2>6, SavedServices
  <2> QED
    BY <2>4, <2>5, <2>6
<1>2. RegistryIInv /\ [Next]_vars
        => [Restart => \A n \in Names \ lost' :
              \/ mem'[n] = None /\ before[n] = None
              \/ /\ mem'[n] # None /\ before[n] # None
                 /\ mem'[n].target = before[n].target
                 /\ mem'[n].method = before[n].method
                 /\ mem'[n].egress = None]_vars
  BY <1>1
<1> QED
  BY <1>2, RegistryInvariance, PTL DEF Spec, RestartRestores

-----------------------------------------------------------------------------
(* The proxy *)

\* The credential v was that of service n at the time since, or after it.
CurrentSince(n, v, since) == v \in Current(n) \/ replaced[n][v] >= since

\* Whatever is cached, on its way to the cache or used was once read from the vault.
CacheDated ==
  /\ \A n \in Names, v \in Values : replaced[n][v] <= now
  /\ \A k \in Kinds, n \in Names : cache[k][n] # None =>
       CurrentSince(n, cache[k][n].value, cache[k][n].fetchedAt)

CallDated ==
  \A c \in Calls : phase[c] = "store" =>
    /\ call[c].used.fetchedAt = call[c].asked
    /\ CurrentSince(call[c].name, call[c].used.value, call[c].asked)

ProxyIInv == ProxyTypeOK /\ CacheDated /\ CallDated /\ StalenessBounded

-----------------------------------------------------------------------------

LEMMA ClockTyped ==
  ASSUME ProxyTypeOK
  PROVE  /\ now \in Nat /\ now \in 0 .. now /\ TTL \in Nat /\ TTL > 0
         /\ CallIn["idle"] = {NoCall}
         /\ CallIn["lookup"] = [name: Names, kind: Kinds]
         /\ CallIn["read"] = [name: Names, kind: Kinds, asked: 0 .. now]
         /\ CallIn["store"] = [name: Names, kind: Kinds, asked: 0 .. now, used: Entry]
         /\ CallIn["send"] = [name: Names, kind: Kinds, asked: 0 .. now, used: Entry]
<1>1. now \in Nat
  BY ProxyAssumption DEF ProxyTypeOK
<1>0. now \in 0 .. now
  BY <1>1
<1>2. TTL \in Nat /\ TTL > 0
  BY ProxyAssumption
<1>3. CallIn["idle"] = {NoCall}
  BY DEF CallIn
<1>4. CallIn["lookup"] = [name: Names, kind: Kinds]
  BY DEF CallIn
<1>5. CallIn["read"] = [name: Names, kind: Kinds, asked: 0 .. now]
  BY DEF CallIn
<1>6. CallIn["store"] = [name: Names, kind: Kinds, asked: 0 .. now, used: Entry]
  BY DEF CallIn
<1>7. CallIn["send"] = [name: Names, kind: Kinds, asked: 0 .. now, used: Entry]
  BY DEF CallIn
<1> QED
  BY <1>0, <1>1, <1>2, <1>3, <1>4, <1>5, <1>6, <1>7

LEMMA CachesTyped ==
  ASSUME ProxyTypeOK, NEW k \in Kinds, NEW n \in Names
  PROVE  /\ cache[k][n] # None => /\ cache[k][n] \in Entry
                                 /\ cache[k][n].fetchedAt \in 0 .. now
                                 /\ cache[k][n].value \in Values
         /\ \A v \in Values : replaced[n][v] \in Nat
<1>1. cache[k][n] \in Entry \cup {None}
  BY DEF ProxyTypeOK
<1>2. \A v \in Values : replaced[n][v] \in 0 .. MaxTime
  BY DEF ProxyTypeOK
<1> QED
  BY <1>1, <1>2, ProxyAssumption DEF Entry

LEMMA CallsTyped ==
  ASSUME ProxyTypeOK, NEW c \in Calls
  PROVE  /\ phase[c] = "lookup" => call[c] \in [name: Names, kind: Kinds]
         /\ phase[c] = "read" => call[c] \in [name: Names, kind: Kinds, asked: 0 .. now]
         /\ phase[c] \in {"store", "send"} =>
              call[c] \in [name: Names, kind: Kinds, asked: 0 .. now, used: Entry]
<1>1. call[c] \in CallIn[phase[c]]
  BY DEF ProxyTypeOK
<1> QED
  BY <1>1, ClockTyped

\* A credential that is replaced is replaced now.
LEMMA SinceKept ==
  ASSUME ProxyTypeOK, CacheDated, Observe,
         NEW n \in Names, NEW v \in Values, NEW since \in 0 .. now, CurrentSince(n, v, since)
  PROVE  CurrentSince(n, v, since)'
BY DEF ProxyTypeOK, Observe, Current, CurrentSince

\* Steps of the registry change secrets, and note which credentials they replace.
LEMMA ObservedInv ==
  ASSUME ProxyIInv, Observe, UNCHANGED <<now, cache, phase, call>>
  PROVE  ProxyIInv'
<1> USE DEF ProxyIInv
<1>1. ProxyTypeOK'
  BY DEF ProxyTypeOK, Observe, CallIn, Entry
<1>2. CacheDated'
  BY SinceKept DEF CacheDated, ProxyTypeOK, Observe, Entry
<1>3. CallDated'
  <2> SUFFICES ASSUME NEW c \in Calls, phase[c] = "store"
               PROVE  /\ call[c].used.fetchedAt = call[c].asked
                      /\ CurrentSince(call[c].name, call[c].used.value, call[c].asked)'
    BY DEF CallDated
  <2>1. call[c].name \in Names /\ call[c].asked \in 0 .. now /\ call[c].used.value \in Values
    BY CallsTyped DEF Entry
  <2> QED
    BY <2>1, SinceKept DEF CallDated
<1>4. StalenessBounded'
  <2> SUFFICES ASSUME NEW c \in Calls, phase[c] = "send"
               PROVE  \/ call[c].used.value \in Current(call[c].name)'
                      \/ replaced'[call[c].name][call[c].used.value] + TTL > call[c].asked
    BY DEF StalenessBounded
  <2>1. call[c].name \in Names /\ call[c].asked \in 0 .. now /\ call[c].used.value \in Values
    BY CallsTyped DEF Entry
  <2>2. \/ call[c].used.value \in Current(call[c].name)
        \/ replaced[call[c].name][call[c].used.value] + TTL > call[c].asked
    BY DEF StalenessBounded
  <2>3. now + TTL > call[c].asked
    BY <2>1, ClockTyped
  <2>4. \/ call[c].used.value \in Current(call[c].name)'
        \/ replaced'[call[c].name][call[c].used.value] =
             IF call[c].used.value \in Current(call[c].name)
               THEN now ELSE replaced[call[c].name][call[c].used.value]
    BY <2>1 DEF Observe, Current
  <2> QED
    BY <2>2, <2>3, <2>4
<1> QED
  BY <1>1, <1>2, <1>3, <1>4

Phases == {"idle", "lookup", "read", "store", "send"}

\* A call that goes on keeps the locals of all calls well-typed.
LEMMA ToPhaseTyped ==
  ASSUME ProxyTypeOK, UNCHANGED now, NEW c \in Calls, NEW p \in Phases, NEW a \in CallIn[p],
         ToPhase(c, p, a)
  PROVE  /\ phase' \in [Calls -> Phases]
         /\ call' = [d \in Calls |-> call'[d]]
         /\ \A d \in Calls : call'[d] \in CallIn'[phase'[d]]
         /\ phase'[c] = p /\ call'[c] = a
         /\ \A d \in Calls : d # c => phase'[d] = phase[d] /\ call'[d] = call[d]
<1>1. CallIn' = CallIn
  BY DEF CallIn, Entry
<1> QED
  BY <1>1 DEF ProxyTypeOK, ToPhase, Phases

\* Hit, Miss, Read, StoreEntry, Send: only the call itself changes, and perhaps one
\* entry of a cache, which becomes what a call was about to store.
LEMMA CallMoves ==
  ASSUME ProxyIInv, NEW c \in Calls, NEW p \in Phases, NEW a \in CallIn[p], ToPhase(c, p, a),
         UNCHANGED <<secret, now, cache, replaced>>,
         p = "store" => a.used.fetchedAt = a.asked /\ CurrentSince(a.name, a.used.value, a.asked),
         p = "send" => \/ a.used.value \in Current(a.name)
                       \/ replaced[a.name][a.used.value] + TTL > a.asked
  PROVE  ProxyIInv'
<1> USE DEF ProxyIInv
<1>1. ProxyTypeOK'
  BY ToPhaseTyped DEF ProxyTypeOK, Phases, Entry
<1>2. CacheDated'
  BY DEF CacheDated, CurrentSince, Current
<1>3. CallDated'
  BY ToPhaseTyped DEF CallDated, CurrentSince, Current
<1>4. StalenessBounded'
  BY ToPhaseTyped DEF StalenessBounded, Current
<1> QED
  BY <1>1, <1>2, <1>3, <1>4

LEMMA GetInv ==
  ASSUME ProxyIInv, NEW c \in Calls, NEW n \in Names, Get(c, n)
  PROVE  ProxyIInv'
<1> DEFINE a == [name |-> n, kind |-> IF mem[n].method = "flat" THEN "legacy" ELSE "multi"]
<1>1. a \in CallIn["lookup"]
  BY ClockTyped DEF ProxyIInv, Kinds
<1>2. ToPhase(c, "lookup", a) /\ UNCHANGED <<secret, now, cache, replaced>>
  BY DEF Get, vars
<1> HIDE DEF a
<1> QED
  BY <1>1, <1>2, CallMoves DEF Phases

LEMMA HitInv ==
  ASSUME ProxyIInv, NEW c \in Calls, Hit(c)
  PROVE  ProxyIInv'
<1> DEFINE e == cache[call[c].kind][call[c].name]
           a == [name |-> call[c].name, kind |-> call[c].kind, asked |-> now, used |-> e]
<1>1. /\ phase[c] = "lookup" /\ IsFresh(e) /\ ToPhase(c, "send", a)
      /\ UNCHANGED <<secret, now, cache, replaced>>
  BY DEF Hit, vars
<1>2. call[c].name \in Names /\ call[c].kind \in Kinds
  BY <1>1, CallsTyped DEF ProxyIInv
<1>3. e \in Entry /\ e.fetchedAt \in 0 .. now /\ now - e.fetchedAt < TTL /\ e.value \in Values
  BY <1>1, <1>2, CachesTyped DEF ProxyIInv, IsFresh
<1>0. /\ now \in 0 .. now /\ TTL \in Nat
      /\ CallIn["send"] = [name: Names, kind: Kinds, asked: 0 .. now, used: Entry]
  BY ClockTyped DEF ProxyIInv
<1>4. a \in CallIn["send"]
  BY <1>0, <1>2, <1>3
<1>5. CurrentSince(a.name, e.value, e.fetchedAt)
  BY <1>1, <1>2 DEF ProxyIInv, CacheDated, IsFresh
<1>6. replaced[a.name][e.value] \in Nat
  BY <1>2, <1>3, CachesTyped DEF ProxyIInv
<1>7. e.value \in Current(a.name) \/ replaced[a.name][e.value] + TTL > now
  <2>1. CASE replaced[a.name][e.value] >= e.fetchedAt
    <3>1. now < e.fetchedAt + TTL /\ e.fetchedAt \in Nat /\ now \in Nat
      BY <1>0, <1>3
    <3> HIDE DEF a, e
    <3> QED
      BY <1>0, <1>6, <2>1, <3>1
  <2> QED
    BY <1>5, <2>1 DEF CurrentSince
<1>8. a.used = e /\ a.asked = now
  OBVIOUS
<1> HIDE DEF a, e
<1> QED
  BY <1>1, <1>4, <1>7, <1>8, CallMoves DEF Phases

LEMMA MissInv ==
  ASSUME ProxyIInv, NEW c \in Calls, Miss(c)
  PROVE  ProxyIInv'
<1> DEFINE a == [name |-> call[c].name, kind |-> call[c].kind, asked |-> now]
<1>1. /\ phase[c] = "lookup" /\ ToPhase(c, "read", a)
      /\ UNCHANGED <<secret, now, cache, replaced>>
  BY DEF Miss, vars
<1>2. /\ now \in 0 .. now
      /\ CallIn["read"] = [name: Names, kind: Kinds, asked: 0 .. now]
      /\ call[c].name \in Names /\ call[c].kind \in Kinds
  BY <1>1, CallsTyped, ClockTyped DEF ProxyIInv
<1>3. a \in CallIn["read"]
  BY <1>2
<1> HIDE DEF a
<1> QED
  BY <1>1, <1>3, CallMoves DEF Phases

LEMMA ReturnInv ==
  ASSUME ProxyIInv, NEW c \in Calls, Return(c), UNCHANGED <<secret, now, cache, replaced>>
  PROVE  ProxyIInv'
<1>1. NoCall \in CallIn["idle"]
  BY ClockTyped DEF ProxyIInv
<1> QED
  BY <1>1, CallMoves DEF Return, Phases

LEMMA ReadInv ==
  ASSUME TypeOK, ProxyIInv, NEW c \in Calls, Read(c)
  PROVE  ProxyIInv'
<1> DEFINE s == secret[call[c].name]
           e == [method |-> s.method, value |-> s.value, fetchedAt |-> call[c].asked]
           a == [name |-> call[c].name, kind |-> call[c].kind, asked |-> call[c].asked, used |-> e]
<1>1. phase[c] = "read" /\ UNCHANGED <<secret, now, cache, replaced>>
  BY DEF Read, vars
<1>2. call[c].name \in Names /\ call[c].kind \in Kinds /\ call[c].asked \in 0 .. now
  BY <1>1, CallsTyped DEF ProxyIInv
<1>3. CASE s # None /\ ToPhase(c, "store", a)
  <2>1. s \in Secret
    BY <1>2, <1>3 DEF TypeOK
  <2>2. e \in Entry
    BY <1>2, <2>1 DEF Secret, Entry
  <2>3. a \in CallIn["store"]
    BY <1>2, <2>2, ClockTyped DEF ProxyIInv
  <2>4. CurrentSince(a.name, e.value, a.asked)
    BY <1>3 DEF CurrentSince, Current, CredentialIn
  <2>5. a.used = e /\ e.fetchedAt = a.asked
    OBVIOUS
  <2> HIDE DEF a, e
  <2> QED
    BY <1>1, <1>3, <2>3, <2>4, <2>5, CallMoves DEF Phases
<1>4. CASE Return(c)
  BY <1>1, <1>4, ReturnInv
<1> QED
  BY <1>3, <1>4 DEF Read

LEMMA StoreEntryInv ==
  ASSUME ProxyIInv, NEW c \in Calls, StoreEntry(c)
  PROVE  ProxyIInv'
<1> USE DEF ProxyIInv
<1> DEFINE a == call[c]
<1>1. /\ phase[c] = "store" /\ cache' = [cache EXCEPT ![a.kind][a.name] = a.used]
      /\ ToPhase(c, "send", a) /\ UNCHANGED <<secret, now, replaced>>
  BY DEF StoreEntry, vars
<1>2. /\ a \in CallIn["send"] /\ a.name \in Names /\ a.kind \in Kinds /\ a.asked \in 0 .. now
      /\ a.used \in Entry /\ a.used.value \in Values
  BY <1>1, CallsTyped, ClockTyped DEF Entry
<1>3. a.used.fetchedAt = a.asked /\ CurrentSince(a.name, a.used.value, a.asked)
  BY <1>1 DEF CallDated
<1>4. a.used.value \in Current(a.name) \/ replaced[a.name][a.used.value] + TTL > a.asked
  <2>1. replaced[a.name][a.used.value] \in Nat
    BY <1>2, ProxyAssumption DEF ProxyTypeOK
  <2> QED
    BY <1>2, <1>3, <2>1, ClockTyped DEF CurrentSince
<1> HIDE DEF a
<1>5. /\ phase' \in [Calls -> Phases]
      /\ call' = [d \in Calls |-> call'[d]]
      /\ \A d \in Calls : call'[d] \in CallIn'[phase'[d]]
      /\ phase'[c] = "send" /\ call'[c] = a
      /\ \A d \in Calls : d # c => phase'[d] = phase[d] /\ call'[d] = call[d]
  BY <1>1, <1>2, ToPhaseTyped DEF Phases
<1>6. ProxyTypeOK'
  BY <1>1, <1>2, <1>5 DEF ProxyTypeOK, Phases, Entry
<1>7. CacheDated'
  BY <1>1, <1>2, <1>3 DEF CacheDated, CurrentSince, Current, ProxyTypeOK
<1>8. CallDated'
  BY <1>1, <1>5 DEF CallDated, CurrentSince, Current
<1>9. StalenessBounded'
  BY <1>1, <1>4, <1>5 DEF StalenessBounded, Current
<1> QED
  BY <1>6, <1>7, <1>8, <1>9

LEMMA ProxyCrashInv == ProxyIInv /\ ProxyCrash => ProxyIInv'
<1> SUFFICES ASSUME ProxyIInv, ProxyCrash PROVE ProxyIInv'
  OBVIOUS
<1> USE DEF ProxyIInv
<1>1. /\ cache' = [k \in Kinds |-> [n \in Names |-> None]]
      /\ phase' = [c \in Calls |-> "idle"]
      /\ call' = [c \in Calls |-> NoCall]
      /\ UNCHANGED <<secret, now, replaced>>
  BY DEF ProxyCrash, Crash
<1>2. CallIn'["idle"] = {NoCall}
  BY DEF CallIn
<1>3. ProxyTypeOK'
  BY <1>1, <1>2 DEF ProxyTypeOK
<1>4. CacheDated' /\ CallDated' /\ StalenessBounded'
  BY <1>1 DEF CacheDated, CallDated, StalenessBounded
<1> QED
  BY <1>3, <1>4

LEMMA TickInv == ProxyIInv /\ Tick => ProxyIInv'
<1> SUFFICES ASSUME ProxyIInv, Tick PROVE ProxyIInv'
  OBVIOUS
<1> USE DEF ProxyIInv
<1>1. now < MaxTime /\ now' = now + 1 /\ UNCHANGED <<secret, cache, phase, call, replaced>>
  BY DEF Tick, vars
<1>2. now \in Nat /\ MaxTime \in Nat /\ 0 .. now \subseteq 0 .. now'
  BY <1>1, ClockTyped, ProxyAssumption
<1>3. \A c \in Calls : call'[c] \in CallIn'[phase'[c]]
  <2> TAKE c \in Calls
  <2>1. call[c] \in CallIn[phase[c]] /\ phase[c] \in Phases
    BY DEF ProxyTypeOK, Phases
  <2>2. \A p \in Phases : CallIn[p] \subseteq CallIn'[p]
    <3>1. Entry \subseteq Entry'
      BY <1>2 DEF Entry
    <3>2. CallIn["idle"] \subseteq CallIn'["idle"]
      BY DEF CallIn
    <3>3. CallIn["lookup"] \subseteq CallIn'["lookup"]
      BY DEF CallIn
    <3>4. CallIn["read"] \subseteq CallIn'["read"]
      BY <1>2 DEF CallIn
    <3>5. CallIn["store"] \subseteq CallIn'["store"]
      BY <1>2, <3>1 DEF CallIn
    <3>6. CallIn["send"] \subseteq CallIn'["send"]
      BY <1>2, <3>1 DEF CallIn
    <3> QED
      BY <3>2, <3>3, <3>4, <3>5, <3>6 DEF Phases
  <2> QED
    BY <1>1, <2>1, <2>2
<1>4. ProxyTypeOK'
  <2>1. now' \in 0 .. MaxTime
    BY <1>1, <1>2
  <2>2. cache' \in [Kinds -> [Names -> Entry' \cup {None}]]
    BY <1>1, <1>2 DEF ProxyTypeOK, Entry
  <2> QED
    BY <1>1, <1>3, <2>1, <2>2 DEF ProxyTypeOK
<1>5. CacheDated'
  <2>1. \A n \in Names, v \in Values : replaced[n][v] <= now + 1
    BY <1>2, ProxyAssumption DEF CacheDated, ProxyTypeOK
  <2> QED
    BY <1>1, <2>1 DEF CacheDated, CurrentSince, Current
<1>6. CallDated' /\ StalenessBounded'
  BY <1>1 DEF CallDated, StalenessBounded, CurrentSince, Current
<1> QED
  BY <1>4, <1>5, <1>6

LEMMA ProxyInitInv == ProxyInit => ProxyIInv
BY ProxyAssumption DEF ProxyInit, ProxyIInv, ProxyTypeOK, CallIn, CacheDated, CallDated, StalenessBounded

\* The steps of the proxy's model are steps of the registry, or leave it alone.
LEMMA ProxyStepsRegistry == [ProxyNext]_allVars => [Next]_vars
<1>1. ASSUME NEW c \in Calls, CallStep(c) PROVE UNCHANGED vars
  BY <1>1 DEF CallStep, Get, Hit, Miss, Read, StoreEntry, Send
<1>2. Tick => UNCHANGED vars
  BY DEF Tick
<1>3. Registry => Next
  BY DEF Registry, Next
<1>4. ProxyCrash => Next
  BY DEF ProxyCrash, Next
<1>5. UNCHANGED allVars => UNCHANGED vars
  BY DEF allVars
<1> QED
  BY <1>1, <1>2, <1>3, <1>4, <1>5 DEF ProxyNext

\* The caches and their clock take no part in what the registry does: each step of the
\* program with its proxy is a step of the registry or none (Proxy.HandleAPICall reads
\* through Registry.GetCredential and its like, and writes nothing).
THEOREM ProxyImplementsRegistry == ProxySpec => Spec
<1>1. ProxyInit => Init
  BY DEF ProxyInit
<1> QED
  BY <1>1, ProxyStepsRegistry, PTL DEF ProxySpec, Spec

LEMMA ProxyStepInv == TypeOK /\ ProxyIInv /\ [ProxyNext]_allVars => ProxyIInv'
<1> SUFFICES ASSUME TypeOK, ProxyIInv, [ProxyNext]_allVars PROVE ProxyIInv'
  OBVIOUS
<1>1. ASSUME NEW c \in Calls, CallStep(c) PROVE ProxyIInv'
  <2>1. ASSUME NEW n \in Names, Get(c, n) PROVE ProxyIInv'
    BY <2>1, GetInv
  <2>2. CASE Hit(c)
    BY <2>2, HitInv
  <2>3. CASE Miss(c)
    BY <2>3, MissInv
  <2>4. CASE Read(c)
    BY <2>4, ReadInv
  <2>5. CASE StoreEntry(c)
    BY <2>5, StoreEntryInv
  <2>6. CASE Send(c)
    BY <2>6, ReturnInv DEF Send, vars
  <2> QED
    BY <1>1, <2>1, <2>2, <2>3, <2>4, <2>5, <2>6 DEF CallStep
<1>2. CASE Registry
  BY <1>2, ObservedInv DEF Registry
<1>3. CASE ProxyCrash
  BY <1>3, ProxyCrashInv
<1>4. CASE Tick
  BY <1>4, TickInv
<1>5. CASE UNCHANGED allVars
  <2>1. UNCHANGED <<secret, now, cache, phase, call, replaced>>
    BY <1>5 DEF allVars, proxyVars, vars
  <2> QED
    BY <2>1 DEF ProxyIInv, ProxyTypeOK, CallIn, Entry, CacheDated, CallDated, StalenessBounded,
                CurrentSince, Current
<1> QED
  BY <1>1, <1>2, <1>3, <1>4, <1>5 DEF ProxyNext

LEMMA ProxyInvariance == ProxySpec => []ProxyIInv
<1>1. ProxySpec => []TypeOK
  BY ProxyImplementsRegistry, RegistryTypeCorrectness, PTL
<1> QED
  BY <1>1, ProxyInitInv, ProxyStepInv, PTL DEF ProxySpec

\* The caches and the calls keep their types (Proxy).
THEOREM ProxyTypeCorrectness == ProxySpec => []ProxyTypeOK
<1>1. ProxyIInv => ProxyTypeOK
  BY DEF ProxyIInv
<1> QED
  BY <1>1, ProxyInvariance, PTL

\* Whatever the time to live and however many calls share the caches: a call sends the
\* credential of its service, or one that was it less than the time to live before the
\* call asked ("cached for a configurable TTL").
THEOREM StalenessBoundedHolds == ProxySpec => []StalenessBounded
<1>1. ProxyIInv => StalenessBounded
  BY DEF ProxyIInv
<1> QED
  BY <1>1, ProxyInvariance, PTL

=============================================================================
