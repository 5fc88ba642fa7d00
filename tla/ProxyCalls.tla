----------------------------- MODULE ProxyCalls -----------------------------
(***************************************************************************)
(* proxy.Proxy.HandleAPICall over services.Registry: the lookup of the     *)
(* service, the two credential caches (legacy and multi-field) with their  *)
(* time to live, and the request that leaves with what was found.          *)
(*                                                                         *)
(* The registry and its handlers are those of ServiceRegistry.  Nothing    *)
(* calls InvalidateCache, so no action does.                               *)
(***************************************************************************)
EXTENDS ServiceRegistry

CONSTANTS
  Calls,    \* concurrent API calls
  TTL,      \* Proxy.ttl in ticks
  MaxTime   \* bound on the clock

ASSUME ProxyAssumption ==
  /\ TTL \in Nat \ {0}
  /\ MaxTime \in Nat

VARIABLES
  now,       \* the clock
  cache,     \* Proxy.cache and Proxy.multiCache, by kind and service name
  phase,     \* where a call is
  call,      \* locals of a call
  replaced   \* when a credential of a service was replaced or deleted

proxyVars == <<now, cache, phase, call, replaced>>
allVars == <<vars, proxyVars>>

-----------------------------------------------------------------------------

Kinds == {"legacy", "multi"}
Entry == [method : Methods \cup {"api_key"}, value : Values, fetchedAt : 0 .. now]
NoCall == [name |-> None]

\* The locals of a call, by its phase.
CallIn ==
  [idle   |-> {NoCall},
   lookup |-> [name: Names, kind: Kinds],
   read   |-> [name: Names, kind: Kinds, asked: 0 .. now],
   store  |-> [name: Names, kind: Kinds, asked: 0 .. now, used: Entry],
   send   |-> [name: Names, kind: Kinds, asked: 0 .. now, used: Entry]]

ProxyTypeOK ==
  /\ now \in 0 .. MaxTime
  /\ cache \in [Kinds -> [Names -> Entry \cup {None}]]
  /\ phase \in [Calls -> {"idle", "lookup", "read", "store", "send"}]
  /\ call = [c \in Calls |-> call[c]]
  /\ \A c \in Calls : call[c] \in CallIn[phase[c]]
  /\ replaced \in [Names -> [Values -> 0 .. MaxTime]]

ProxyInit ==
  /\ Init
  /\ now = 0
  /\ cache = [k \in Kinds |-> [n \in Names |-> None]]
  /\ phase = [c \in Calls |-> "idle"]
  /\ call = [c \in Calls |-> NoCall]
  /\ replaced = [n \in Names |-> [v \in Values |-> 0]]

-----------------------------------------------------------------------------
(* HandleAPICall *)

ToPhase(c, p, locals) ==
  /\ phase' = [phase EXCEPT ![c] = p]
  /\ call' = [call EXCEPT ![c] = locals]

\* The call returns, with the answer of the service or an error.
Return(c) == ToPhase(c, "idle", NoCall)

\* The credential of service n in a vault with these secrets.
CredentialIn(secrets, n) == IF secrets[n] = None THEN {} ELSE {secrets[n].value}

Current(n) == CredentialIn(secret, n)

\* The service is found; its auth method selects the path.
Get(c, n) ==
  /\ phase[c] = "idle"
  /\ Free
  /\ mem[n] # None
  /\ ToPhase(c, "lookup",
             [name |-> n, kind |-> IF mem[n].method = "flat" THEN "legacy" ELSE "multi"])
  /\ UNCHANGED <<vars, now, cache, replaced>>

IsFresh(e) == e # None /\ now - e.fetchedAt < TTL

\* credential, credentials: a fresh entry is used ...
Hit(c) ==
  /\ phase[c] = "lookup"
  /\ up
  /\ LET a == call[c]
         e == cache[a.kind][a.name]
     IN /\ IsFresh(e)
        /\ ToPhase(c, "send", [name |-> a.name, kind |-> a.kind, asked |-> now, used |-> e])
  /\ UNCHANGED <<vars, now, cache, replaced>>

\* ... else the time is taken, before the vault is read ...
Miss(c) ==
  /\ phase[c] = "lookup"
  /\ up
  /\ LET a == call[c]
     IN /\ ~IsFresh(cache[a.kind][a.name])
        /\ ToPhase(c, "read", [name |-> a.name, kind |-> a.kind, asked |-> now])
  /\ UNCHANGED <<vars, now, cache, replaced>>

\* ... the registry reads the secret of a service that still exists ...
Read(c) ==
  /\ phase[c] = "read"
  /\ Free
  /\ LET a == call[c]
         s == secret[a.name]
     IN \/ /\ mem[a.name] # None /\ s # None
           /\ ToPhase(c, "store",
                      [name |-> a.name, kind |-> a.kind, asked |-> a.asked,
                       used |-> [method |-> s.method, value |-> s.value,
                                 fetchedAt |-> a.asked]])
        \/ /\ mem[a.name] = None \/ s = None \/ Faults
           /\ Return(c)
  /\ UNCHANGED <<vars, now, cache, replaced>>

\* Mutation of StoreEntry: fetchedAt is the time of the store.
StoreEntryLate(c) ==
  /\ phase[c] = "store"
  /\ up
  /\ LET a == call[c]
     IN /\ cache' = [cache EXCEPT ![a.kind][a.name] = [a.used EXCEPT !.fetchedAt = now]]
        /\ ToPhase(c, "send", a)
  /\ UNCHANGED <<vars, now, replaced>>

\* Mutation of StoreEntry: the entry notes when it expires.
StoreEntryExpiry(c) ==
  /\ phase[c] = "store"
  /\ up
  /\ LET a == call[c]
     IN /\ cache' = [cache EXCEPT ![a.kind][a.name] = [a.used EXCEPT !.fetchedAt = now + TTL]]
        /\ ToPhase(c, "send", a)
  /\ UNCHANGED <<vars, now, replaced>>

\* ... and the result is cached.
StoreEntry(c) ==
  /\ phase[c] = "store"
  /\ up
  /\ LET a == call[c]
     IN /\ cache' = [cache EXCEPT ![a.kind][a.name] = a.used]
        /\ ToPhase(c, "send", a)
  /\ UNCHANGED <<vars, now, replaced>>

\* The request is built and sent, or resolveInjectionConfig knows no injection.
Send(c) ==
  /\ phase[c] = "send"
  /\ up
  /\ Return(c)
  /\ UNCHANGED <<vars, now, cache, replaced>>

-----------------------------------------------------------------------------
(* The rest of the system *)

\* What a registry step does to the history.
Observe ==
  replaced' = [n \in Names |-> [v \in Values |->
       IF v \in Current(n) /\ v \notin CredentialIn(secret', n) THEN now ELSE replaced[n][v]]]

Registry ==
  /\ \/ \E t \in Threads : RequestStep(t) \/ HandlerStep(t)
     \/ LoadFromVault
  /\ Observe
  /\ UNCHANGED <<now, cache, phase, call>>

\* The caches and the calls end with the process.
ProxyCrash ==
  /\ Crash
  /\ cache' = [k \in Kinds |-> [n \in Names |-> None]]
  /\ phase' = [c \in Calls |-> "idle"]
  /\ call' = [c \in Calls |-> NoCall]
  /\ UNCHANGED <<now, replaced>>

Tick ==
  /\ now < MaxTime
  /\ now' = now + 1
  /\ UNCHANGED <<vars, cache, phase, call, replaced>>

CallStep(c) ==
  \/ \E n \in Names : Get(c, n)
  \/ Hit(c)
  \/ Miss(c)
  \/ Read(c)
  \/ StoreEntry(c)
  \/ Send(c)

ProxyNext ==
  \/ \E c \in Calls : CallStep(c)
  \/ Registry
  \/ ProxyCrash
  \/ Tick

ProxySpec == ProxyInit /\ [][ProxyNext]_allVars

-----------------------------------------------------------------------------
(* Properties *)

\* The credential that a call sends is, or was less than the time to live before
\* the call asked for it, the credential of the service it names, whatever calls
\* and requests run at the same time ("cached for a configurable TTL").
StalenessBounded ==
  \A c \in Calls : phase[c] = "send" =>
    LET a == call[c]
    IN a.used.value \in Current(a.name)
         \/ replaced[a.name][a.used.value] + TTL > a.asked

=============================================================================
