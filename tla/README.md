# Verification of Straylight-AI

TLA+ specifications of the parts of Straylight-AI that keep credentials alive
and out of the wrong hands under concurrency, failure and restart, model-checked
with TLC and proved with TLAPS: every safety property that a passing run checks is
a theorem for every value of the constants. Every definition is translated from the
Go code under `src/`; `PROJECT.json` maps each one to the lines it stands for.

Straylight-AI is one Go process that supervises an OpenBao vault and lends
credentials to AI assistants without showing them: an assistant calls an MCP
tool, the process finds the service, takes a credential from the vault, from a
dynamic lease or from a token exchange, uses it, and returns the sanitized result.

## Inventory

| component (code) | state | operations | hard behaviour | what makes it correct |
|---|---|---|---|---|
| vault supervisor (`vault/supervisor.go`) | child process, `init.json`, AppRole token | start, health poll, first-time set-up, resume, renew, re-login | crashes between set-up steps; renewal against two times to live | a restart serves; the client's token is valid, or soon valid again |
| vault client (`vault/client.go`, `issuer.go`) | token | secrets, database engine, renew, OIDC issuer | answers lost after the effect | callers cope with both outcomes |
| service registry (`services/registry.go`, handlers in `server/routes.go`) | services in memory; metadata and secrets in the vault | create, update, rotate, delete, load after restart | three stores written one after the other; handlers of two calls; ignored errors | service, metadata and secret agree; a restart restores |
| API proxy (`proxy/`) | two credential caches, a pool of connections | call, cache, inject, sign, dial | cache against replacement; name server against check; connections shared by services | a replaced credential is not used for long; no address is reached that no policy allows |
| lease manager (`lease/cache.go`) | lease cache, renewal states | get/store, renew loop, revoke, revoke all | request, renewal, revocation and shutdown race on one key | no revoked lease is offered, what is cached at the shutdown is asked to be revoked |
| database manager (`database/database.go`, `handleDBQuery`) | configurations; OpenBao's connections, roles and users | configure, remove, credentials, query | three calls to OpenBao against queries; a pool of one connection | a user fits the server it is presented to; a query returns |
| token exchange engine (`tokenexchange/engine.go`) | entry cache, flights | credential, invalidate, refresh loop, close | single flight with waiters; background refresh; invalidation | one exchange at a time, no stuck entry, no crossing of keys |
| refresh guard and OAuth flows (`tokenexchange/refreshguard.go`, `oauth/`) | flights, token records in the vault, state tokens, device flows | start, callback, device poll, refresh | single-use refresh tokens and state tokens; an authorisation overtakes a refresh | no consumed token is presented; the record stays usable; one callback per state |
| cloud manager and providers (`cloud/`, `tokenexchange/*.go` adapters) | service configurations, a credential cache over the engine's | credentials per provider, invalidate | two caches with different keys, replaced configurations | credentials belong to the account asked for |
| MCP tools and command wrapper (`mcp/tools.go`, `cmdwrap/`, `policy/`) | what a call has read so far | policy gate, API call, exec with approval | the service changes between two reads of the registry | no request is built and no command started that no state of the service allowed |
| HTTP server and `serve` (`server/`, `cmd/straylight/main.go`) | listeners, rate limiters, deferred calls | routes, drain, shutdown | requests that outlast the shutdown; one deadline for two servers; order of the deferred calls | an orderly stop undoes what `serve` built; every stop ends |
| audit log (`audit/`) | channel, ring, file of the day | emit, write loop, close, queries | full channel, events while closing, a ring that wraps | an accepted event is not lost; queries see the newest |
| MCP over HTTP (`mcphttp/`, `mcpauth/`) | sessions, their counter | initialize, call, DELETE, sweep, close | counter and map change in separate steps | the cap holds up to a known error; idle sessions end |
| stdio bridge (`cmd/straylight-mcp/`) | the line under way | read a line, ask the container, answer | a container that never answers | every request is answered |
| firewall, sanitizer, scanner, hooks, OpenAPI, configuration | none | pure functions on text | - | functional |
| npm package, web UI | none of their own | Docker commands, forms | - | - |

`PROJECT.json` lists every part with what is modelled of it, and every hazard
with its line.

How the parts meet: `main` starts the supervisor, builds the registry on the
vault client, loads it, then builds proxy, OAuth handler, database and cloud
managers and serves. The proxy calls the registry (shared map under `mu`) and
through it the vault; the OAuth handler writes token records to the vault and
services to the registry; the database manager reads through the lease manager;
the cloud providers read through the token engine. On shutdown the deferred
calls revoke the leases, stop the managers and then the vault. Agents enter
through the stdio bridge, which asks the local listener over HTTP, or through the
remote MCP endpoint.

## Modules

| module | models | extends / implements |
|---|---|---|
| `SingleFlight` | abstract: one attempt per key at a time, its outcome told to everyone who joined | - |
| `LossyLog` | abstract: a bounded FIFO that refuses what it has no room for | - |
| `LeaseManager` | `lease.Manager`, `GetCredentials` over it, deferred shutdown, the vault's lease table | - |
| `TokenEngine` | `tokenexchange.Engine` | implements `SingleFlight` |
| `OAuthTokens` | `RefreshGuard.Do`, `doRefreshToken`, `Callback`, `PollDeviceFlow` as writers of one token record | implements `SingleFlight` |
| `OAuthFlow` | `StartOAuth`, `Callback`, `StartDeviceFlow`, `PollDeviceFlow`, state tokens, client credentials, up to the registered service | - |
| `ServiceRegistry` | `services.Registry`, the HTTP and OAuth handlers on it, crash and `LoadFromVault` | - |
| `ProxyCalls` | `HandleAPICall` with its caches and clock, over the whole of `ServiceRegistry` | extends `ServiceRegistry` |
| `PolicyRules` | `policy.engine`: methods, hosts with wildcards, unescaped and cleaned paths | - |
| `ToolCalls` | the policy gate, `straylight_api_call` and `straylight_exec` step by step against changes of the service | extends `PolicyRules` |
| `EgressDial` | `egress.Guard` in the proxy's `DialContext`, its pool and redirects; the wrapper's preflight | - |
| `DatabaseAccess` | `ConfigureDatabase`, `RemoveDatabase`, `GetCredentials`, `executeQuery` | - |
| `CloudCredentials` | `cloud.Manager`, the three providers, the engine seen from outside | - |
| `AuditLog` | `audit.Logger`: channel, writer, ring, file of the day, queries, `Close` | implements `LossyLog` |
| `BearerTokens` | `mcpauth`: the decision of `Validate` | - |
| `McpSessions` | `mcphttp.Handler`: sessions, counter, sweep, `Close` | extends `BearerTokens` |
| `VaultSupervisor` | `Start`, `WaitForReady`, `InitializeVault`, with crashes of both processes | - |
| `TokenRenewal` | `StartTokenRenewal` against `token_ttl` and `token_max_ttl` | - |
| `Serving` | `serve` with its deferred calls, `server.Run`, middleware, rate limiters, two-server shutdown | - |
| `StdioBridge` | `straylight-mcp`: `Serve`, `ContainerClient`, `runMCPServer` | - |

`MC*` modules instantiate them: most add only symmetry sets. `MCFrontDoors` and
`MCLifecycle` put components that share no variable into one model: a variable
chosen in the initial state says which of them runs in a behaviour, and the others
stutter, so that one run covers several small components and each property is
checked on all behaviours of its component. `*Proofs` modules hold the theorems.

**Correspondence.** A step of a model is what the code does without letting
another goroutine in: a critical section, or the work between two vault or
network calls. Where a mutex is held across a vault call (`Registry.mu`), only a
crash can come between, so the lock is modelled and the call is a step. A call
to OpenBao or to a provider has three outcomes where the caller can tell the
difference: done, not done, and done with the answer lost. Strings, tokens and
configurations are model values.

- *LeaseManager*: `cache`, `state`, `phase` are `Manager.leases` and the fields of
  its leases (`phase` is `ExpiresAt` relative to the renewal window), `vault` is
  OpenBao's side, `loop` and `renewer` are `renewalLoop` and the `renewLease`
  goroutines, `shut` follows the deferred calls of `main`. Time is a lease
  becoming due and expiring at any moment.
- *TokenEngine*: one step per critical section of `cacheMu` or `inflightMu`; a
  thread that misses goes `flight` (register or join), `exchange`, `publish`,
  `store`; `refresher[c]` is the goroutine `backgroundRefresh` of an entry.
  `epoch`, `born` and `since` are histories that date credentials and calls by the
  invalidations of their key that met no exchange under way.
- *OAuthTokens*: a model value is one answer of the token endpoint; `spent` are
  the refresh tokens the provider has consumed, `faulted` the services that lost
  an answer or a write after that.
- *OAuthFlow*: a flow is a state token or a device code, a reply one request to
  the callback or poll handler, which goes through `Consume`, the exchange, the
  write of the record and the registry as separate steps. Expired states stay in
  the map until a callback consumes them, as in the code.
- *ServiceRegistry*: `mem`, `meta`, `secret` are the map and the two vault paths.
  `pc`/`arg` are the handlers between two registry calls, or an operation between
  two vault calls while it holds `mu`. The rest are histories for the properties.
  A service is its target (which stands for all the configuration that
  `saveMetadata` writes), its auth method (`"flat"` when `AuthMethodID` is empty) and
  its egress policy, which `saveMetadata` and `LoadFromVault` leave out; a secret is
  its stored auth method and value. `Ops` selects the requests of a run,
  `Faults` whether vault calls may fail.
- *ProxyCalls*: a call is `Get`, then `Hit` or `Miss`/`Read`/`StoreEntry`, then
  `Send`. `fetchedAt` is the time before the read, as in the code.
- *ToolCalls*: each read of the registry is a step (`ReadPolicy`, `Gate`,
  `ProxyLookup`, `Inject`; `ExecGate`, `Lookup`, `ReadCredential`, `Approve`);
  `Change` is any request of the dashboard between them; `during` remembers what
  the service was while the call ran. `wire` is the request the client has sent
  last: `Inject` sends the one that the proxy built, `FollowRedirect` those that the
  upstream redirects it to. `Evaluate` is `policy.Evaluate` with paths as sequences in
  which an escape is one character: a bad escape leaves the path as it came, an
  unrooted path stays unrooted, and the empty one becomes `.`.
- *EgressDial*: a request waits for a connection to its host and rides on the first
  one there is, its own or another's, which is what `http.Transport` does; `Resolve`,
  `Vet` and `Connect` are the three parts of `DialContext`; `Move` changes the name
  server's answer in between.
- *DatabaseAccess*: `connection` and `role` are OpenBao's entries, written one after
  the other by `Configure`; a query's transaction goes through the three ways of
  `executeQuery` over `pool`, the one connection of its pool.
- *CloudCredentials*: `Input` is the engine key, audience and identity that each
  provider chooses, so that the key's omissions are those of the code.
- *AuditLog*: `inHand` is the event the writer has taken; the ring is its array with
  `ringPos`, and `Recent` and `AuditEvents` compute over it as the code does.
- *McpSessions*: `route`, `store`, `count`, `uncount` are the separate steps of
  initialize, DELETE and the sweep on the map and on the counter.
- *VaultSupervisor*: `FullInit` is the step list of `runFullInit`; `done` and
  `file` survive crashes; `mountRefused` remembers that a mount refused with a 400 was
  taken for a mounted engine.
- *TokenRenewal*: discrete time, a ticker, calls with a bounded latency.
- *Serving*: `deferred` is the stack of deferred calls; a request in its handler may
  leave a lease, which is the effect that the end of the program must undo, and can
  for the leases still in the cache (`dbUser`). `Supervisor.Stop` tells OpenBao to end
  and does not wait (`openbao`); a signal that comes before `Run` listens to signals or
  after it has returned ends the program where it is (`Killed`).
- *StdioBridge*: `Serve` handles one line at a time; `running` are the calls in the
  container, also those that the bridge has given up.

## Runs

Passing runs (all deadlock checks are off: the histories and bounds let every
model come to a legitimate stop, e.g. when the bounded credentials are used up).

| run | bounds | shows |
|---|---|---|
| `lease_races` | 2 requests, 1 key, 2 leases | a cached lease is never one taken out for revocation, never renewed twice at once; nothing comes back, and nothing forgotten is extended |
| `lease_liveness` | 1 request, 2 roles, 2 leases | `RevokeAll` attempts each of the leases it found, one for each role, although a revocation fails; shutdown ends; a due lease is attempted |
| `engine_safety` | 2 callers, 2 keys, 2 credentials, 1 counted invalidation | one refresh per entry; an invalidation that meets no exchange forces one; misses implement `SingleFlight` |
| `engine_liveness` | 2 callers, 1 key, 2 credentials | misses return, refreshes settle |
| `oauth_tokens` | 2 goroutines, 2 services, 3 tokens | no replay of a consumed refresh token, and a usable record at rest, unless an answer or write was lost; one provider omits refresh tokens; refreshes return; implements `SingleFlight` |
| `registry_races` | 2 goroutines, 2 names, 3 credentials, all requests, faults, 1 crash | services keep a secret, their own; deletions leave none; a restart restores target and auth method |
| `front_doors` | see below | each of the seven components that a request enters by keeps its promise |
| `lifecycle` | see below | from the first start to the last deferred call |

`front_doors`, one component in each behaviour:

| component | bounds | property |
|---|---|---|
| audit log | 3 events, channel and ring of 2, 3 days, retention 1 | `CloseFlushes`: what was accepted before `Close` is handled; `QueriesSeeNewest`: queries over the ring are queries over the newest events; `IsLossyLog` |
| MCP sessions | 2 requests, cap 1, 3 session ids, 5 half times to live | `CapHonoured`: a refusal is justified and the overrun bounded; `IdleBounded` |
| gated tools | 1 caller, 6 requests, 4 configurations, 3 changes, 1 redirect (10 in `net/http`) | `PolicyHonoured`, `ExecGated` |
| outgoing connections | 2 requests, 2 hosts, 2 addresses, 2 policies, 3 answers, 1 change of the name server | `DeniedIsAllowed` |
| OAuth flows | 2 flows, 2 requests, 2 names, 1 provider, states of 1 tick, 2 ticks | `StateUsedOnce` |
| cloud credentials | 2 calls, 1 service, 5 configurations of 3 providers, 2 ticks | `AccountHonoured` |
| proxy cache | 2 calls, 1 name, 2 credentials, TTL 2 of 3 ticks, 1 crash | `StalenessBounded` |

and `DoorTypeOK` for each of them.

`lifecycle`, one component in each behaviour:

| component | bounds | property |
|---|---|---|
| supervisor | 3 faults | `ResumableIsConfigured`; `SavedComesBack`: once `init.json` is saved no failure is for ever |
| renewal | 80 units (interval 4, TTL 8, maximum 32, as in the code), 3 failures | `OutageBounded` |
| serving | 2 requests, both listeners, bucket of 1 | `OrderlyStopLeavesNothing`; `StopEnds` |
| databases | 2 dashboards, 2 queries, 2 names, 2 configurations (one redis), a server that refuses the read-only option | `UserFitsServer`; `QuerySettles` |
| stdio bridge | 2 lines of seven kinds, with or without an id | `BridgeAnswers` |

Why these bounds are enough: every hazard here is about one key, name, session,
host or token and at most two actors that contend for it plus one that was there
before. Two contenders and one more credential (or lease) than they hold make
replacement under a contender's hands possible. One tool call is enough because
calls share nothing but the service, which changes three times: before, between
and after its two looks at it; a second redirect finds nothing else than the
first. In `lease_liveness` two roles give `RevokeAll` two leases, of which either may
be refused. In `oauth_tokens` one goroutine leads while the
other waits, or writes unguarded, which are the two ways to meet a refresh. Two
calls and three ticks let an entry age, be replaced while being read, and be used
by the other call. A ring and channel of two wrap and overflow with three events.
Two lines let one wait behind the other. Eighty units are more than twice the
maximal time to live of a token, so that a token obtained by re-login also reaches
it. Each property is broken by at least one mutant of the code listed in
`PROJECT.json`, under the same bounds.

Violation runs, each with a finding that quotes the line it contradicts:

| run | what the code does |
|---|---|
| `lease_orphans` | leases dropped from the cache by a replacement, a failed renewal or expiry are never revoked, so a clean shutdown leaves live database users |
| `registry_rotate` | a single credential is stored under auth method `api_key`, which the proxy cannot resolve for services with an auth method: rotating one makes every call fail |
| `oauth_success` | a browser callback for a service that exists answers success although the registry refused the update, and the service goes on with its former credential |
| `renewal_expiry` | a token from a re-login is renewed to moments before the next tick at its maximal time to live, and stays dead for an interval |

Further behaviours the models contain and a maintainer may not expect, without a
run of their own:

- `Get` prunes, and a failed renewal deletes, by key under a later lock, so either
  may forget a fresh lease (`PruneExpired`, `RenewFails`).
- A flight or refresh under way when `Invalidate` is called stores its result
  afterwards; `InvalidateForcesExchange` holds only for the other invalidations.
- An ignored error leaves metadata behind, and the next start brings the deleted
  service back without its secret (`ghosts` in `ServiceRegistry`).
- The egress policy of a service is in memory only: `saveMetadata` does not write it and
  `LoadFromVault` does not read it, though `registry.go:95` calls it persisted and
  ADR-010 (`docs/design/design-egress-policy/adr/ADR-010-egress-guard-ssrf.md:360-362`)
  plans it. `RestartRestores` says that it is gone. No handler of the program makes one.
- Rotation of a credential map reads the auth method in one registry call and
  writes it in another.
- Nothing calls the proxy's `InvalidateCache`: the TTL alone bounds the use of old
  credentials. The cloud manager's does not reach the engine, whose key leaves out
  the session policy, the region and the tenant, so that what the first service
  asked for is what later ones get until it expires (`AccountHonoured` bounds the
  account only).
- Concurrent `initialize` requests overrun the session cap that `mcphttp.go:40-42`
  calls hard, and a DELETE that meets the sweep counts a session down twice;
  `CapHonoured` says by how much.
- Connections of the proxy's pool are shared by all services: a request may reach an
  address that the policy of another service for the same host allows, which is what
  `DeniedIsAllowed` states.
- The policy gate reads policy and host in two registry calls; only the second
  evaluation, in the proxy, on one copy of the service, makes `PolicyHonoured` true. Its client follows up to ten
  redirects (no `CheckRedirect`, `proxy.go:214-217`) to wherever the upstream says, and
  no policy is asked about those (`FollowRedirect`); the egress guard is, at each dial.
- A query whose read-only transactions are all refused is run without one
  (`Direct`). A database that is configured twice may meet a lease or a connection
  of the other configuration (`UserFitsServer` excludes exactly that).
- A lease is renewed as long as it is cached, whether or not a query uses it
  (`DueIsRenewed`), although `docs/docs/user-guide.md:234` says that after the query
  "the lease runs to expiry and is not renewed".
- The audit log drops the event that finds the channel full (`EmitDropped`), not "the
  oldest event" as `audit.go:98-99` says; `IsLossyLog` forbids the loss of an accepted
  one.
- When the shutdown of the local listener runs out of time, the remote one is not
  shut down, and handlers may still take leases after `RevokeAll` (`disorderly`). A second signal
  during the deferred calls ends the program at once. An orderly stop leaves the leases
  that OpenBao refused to revoke and those that the cache had lost before
  (`lease_orphans`), and ends before OpenBao has.
- The HTTP client of the stdio bridge gives up after 10 s although `exec` may run
  for 300 s: the agent is told that the container is unavailable while the call goes
  on there (`AbandonedEnds`). A line above 4 MB ends the bridge without a word.
- The unseal key exists only in memory until step 9 of the set-up: after a failure
  between step 1 and the saved file no restart serves. OpenBao is not started again
  when it dies under a serving program.
- `enableDatabaseEngine` takes every answer with status 400 for "already mounted"
  (`supervisor.go:527`): the set-up is completed and saved without a database engine, and
  nothing mounts it later (`MountRefused`; `ResumableIsConfigured` excepts this).
- `serve` wires neither the audit logger nor the remote listener, and no handler
  dispatches to the cloud manager or to `RefreshToken`: those models are of what
  the code does once it is configured.

## Fairness

Safety runs use no fairness. `LeaseManager!FairSpec` and `TokenEngine!FairSpec`
assume weak fairness of each goroutine's steps: goroutines are scheduled and
every HTTP call has a timeout (10 s for the vault client), so a call returns,
with either result. `LoopStops` needs strong fairness: the stop channel is
one branch of the loop's `select`, enabled again and again between collections.
No fairness is assumed of requests, of clients, of the shutdown being asked for,
or of calls succeeding. `OAuthTokens!FairSpec` is the same for refresh steps
alone.

In `lifecycle` each component has its own fairness, conjoined with the choice of
the component: `VaultSupervisor` assumes that a running program goes on and that
the container is started again (`restart: unless-stopped` in
`deploy/docker-compose.yml`), faults being bounded, so that a disturbed program is
in the end left alone; `Serving` assumes that the goroutine of `serve` goes on and
that the timer of the shutdown fires, and nothing of the requests, whose handlers
may never return; `DatabaseAccess` assumes that a query's own steps happen, since
the context of its request ends a statement; `StdioBridge` assumes the loop of
`Serve` and the timer of its HTTP client, and nothing of the container.

## Proofs

Every safety property of the passing runs, invariant or action property, and every
refinement is proved for every value of the constants. The arguments:

| module | theorems | argument |
|---|---|---|
| `LeaseManagerProofs` | type correctness and all safety properties of the lease runs, for any number of requests, services, roles and leases | the invariants are not inductive: whether a renewal may touch a lease depends on who else holds it. `IInv` adds where a lease may be at each stage: a lease on its way to the cache has one carrier and no object; a cached lease has one and was never sent to be revoked; candidates and renewing leases are disjoint; what `RevokeAll` took out is pending, dead or logged |
| `TokenEngineProofs` | type correctness, key isolation, attended refreshes, one leader per flight, one refresh per entry, what an invalidation forces, and that missing calls implement `SingleFlight`, for any number of callers, keys and credentials | `IInv` says what a call holds at each point, that an entry is named by a minted credential of its own key, that a credential on its way to the cache has one carrier, and that registration and leader know each other; `DatesOK` adds that whatever is cached or on its way there is of its key's present epoch. The refinement maps each step to `Enter`, `Land`, `Leave` or a stutter |
| `OAuthTokensProofs` | type correctness, no replay, a usable record at rest, written before released, isolation of services, and that `RefreshGuard.Do` implements `SingleFlight`, for any number of goroutines, services and tokens | `IInv` adds that a service has one leader which its registration knows, that a token belongs to the service it was issued to, and that a token on its way to the vault is held once and not consumed |
| `RegistryProofs`, the registry | type correctness, `SecretBacked`, `CreatedWithItsCredential`, `NoOrphanedSecret`, `RestartRestores`, for any number of requests, names, credentials, egress policies and crashes | the properties hold because `mu` covers what an operation has done to the vault and not yet to the map, or the other way round. `RegistryIInv` says who holds `mu` (`Locked`), what each holder has left half done (`HalfDone`), that a program that starts has no handler and no service (`Down`), what agrees between map, metadata and secret otherwise (`Kept`, `Forgotten`), and what a crash finds of it (`Recorded`) |
| `RegistryProofs`, the proxy | that the registry under the proxy is the registry, type correctness, `StalenessBounded` for every time to live | nothing tells the caches of a replacement, so a cached credential is dated: it was its service's at the time it is stamped with (`CacheDated`), which is before the read, and so was what a call holds (`CallDated`) |
| `InboundProofs`, the audit log | type correctness, `CloseFlushes`, `QueriesSeeNewest`, and that the log implements `LossyLog`, for every size of channel and ring | an accepted event is in the channel, in hand or delivered, and the loop leaves only when none is before it that `Close` promised (`PromisesKept`, `LoopHolds`); counted back from `ringHead`, the slots of the ring hold the last events delivered (`RingFilled`), whence `Recent` is a suffix of what was delivered |
| `InboundProofs`, the sessions | type correctness, `CapHonoured`, `IdleBounded`, for every cap, any number of requests and sessions | counter and map change apart, so `CountExplained` accounts for the difference exactly: sessions not yet counted, deletions not yet counted down, what the sweep has collected, and the drift of those counted down twice. `PastTheTest` bounds how many requests are beyond the test of the cap; `SweepOnTime` says how old a session can be when the ticker comes |
| `InboundProofs`, the authorisations | type correctness and `StateUsedOnce`, for any number of flows and callbacks | a state token in the map, a callback that consumed it and an exchange done are one permission that is never doubled (`OnePermission`), and what a reply works on was begun (`FlowsKnown`) |
| `OutboundProofs`, the tool calls | type correctness, `PolicyHonoured`, `ExecGated`, for any calls, configurations, changes and redirects | what is sent was read a step before and decided upon earlier still: `ToolIInv` carries along that the service of the moment is among those the call has seen (`SeesService`), and so is what the call holds, with the decision taken on it (`CopyAllows`, `ExecSteps`); `FirstHop` carries both to the request on the wire, until a redirect replaces it |
| `OutboundProofs`, the connections | type correctness and `DeniedIsAllowed`, for any hosts, addresses, policies and answers | a request may ride on another's connection, so `EgressIInv` says of every connection (`ConnsAllowed`), and of every pinned address before it (`PinsAllowed`), that it was allowed; allowances only grow |
| `OutboundProofs`, the cloud credentials | type correctness and `AccountHonoured`, for any configurations and lifetimes | a credential may come from either cache and from another configuration with the same key: `CloudIInv` says whose it is wherever it is (`RightAccount`) and that it ends within a lifetime of the last call that asked for its account (`WithinLifetimes`) |
| `LifecycleProofs`, start and end | type correctness of `VaultSupervisor` and `Serving`; `ResumableIsConfigured` for any number of faults; `OrderlyStopLeavesNothing` for any number of requests | the set-up: every step before the present one has taken effect, or was the mount that was refused. The end: the deferred calls that are left are a prefix of all of them, each that ran has undone its part, OpenBao is told only after `RevokeAll` has emptied the cache, and unless the stop was disorderly no request can do it anew |
| `LifecycleProofs`, the databases | type correctness and `UserFitsServer`, for any number of dashboards, queries and servers | of a database that was configured once there is one server to be met: configuration, connection, lease and query agree with the one set-up they come from (`Provenance`, `RolesConnected`), and the count of set-ups tells whether there was only one (`SetupsCounted`) |
| `LifecycleProofs`, the renewal | type correctness and the bound on outages, for every interval, time to live and latency | the bound is not inductive: it needs that the credit of the last success (its expiry, plus an interval per missed period) covers the next tick while the goroutine waits, and reached the last tick while it calls (`Appointments`) |
| `LifecycleProofs`, the bridge | type correctness and `AnswersInOrder` (one answer to a request, in the order of the requests, and to nothing else but a line that cannot be parsed), for any number of lines | lines are numbered as they come, and those that wait are after the one under way and after all that were answered (`Queued`, `UnderWay`) |
| `LifecycleProofs`, the composition | that the model of `lifecycle` has the safety properties that run checks | as in `FrontDoorsProofs`, without the fairness of the components, which the run's specification states for the one that runs |
| `FrontDoorsProofs` | that the model of `front_doors` implements each of its components, and so every safety property that run checks, `DoorTypeOK` and `IsLossyLog` included | components share no variable, and a step of one leaves the others unchanged; the rest is the theorems above |

They assume only the named `ASSUME`s of the modules, which TLC evaluates in the
runs: `None`, `Failed` and the other absent values are not data, and `None` is not
a secret either; the TTL of a token is two intervals and the latency less than one;
there is a host; a service that allows exec has commands; requests and session ids
are finitely many, since the account of the session counter counts them; among the
lifetimes of cloud credentials there is a longest one, durations being integers of
bounded width. Type invariants and inductive invariants were model-checked first.

Definitions that the proofs leave opaque, so that they hold for every meaning of
them: `PolicyRules!Evaluate` (any policy language), `BearerTokens` (any decision on
a token), and `SelectSeq` behind `AuditLog!Matching` (any filter of a query).

Only model-checked:

- the nine liveness properties: `ShutdownCompletes`, `DueIsRenewed`, `MissReturns`,
  `RefreshSettles`, `RefreshReturns`, `SavedComesBack`, `StopEnds`, `QuerySettles`,
  `BridgeAnswers` (fairness and `ENABLED` are out of the prover's reach);
- that a filtered query keeps exactly the matching events, which is what `SelectSeq`
  computes by recursion; what is proved is that a query filters the newest events
  and takes the newest of those.

No theorem rests on induction over recursive data.

## Not modelled

- Building, signing and sanitizing requests, scanning, the firewall's redaction,
  templates and field validation, OpenAPI import, hooks: pure functions on text,
  tested well by tables; no state for a model checker to reach.
- Account information of services: fetched for a credential, attached seconds later
  by name and not cleared by a rotation, but only displayed.
- Auth methods outside the templates: a client may name one when it gives no
  template; the models create services from templates.
- Signatures of bearer tokens and of cloud requests; key retrieval is a set of
  issuers that can be reached. Request building and response parsing of the
  providers' adapters.
- Of `McpSessions`, the time a session was last seen is written and read without a
  lock in the code; the model takes both for atomic.
- A child of `exec` that hands its output to a process of its own (`cmd.Run` then
  waits beyond the timeout), and `Stop` or `Close` called twice at the same time.
- The activity ring, the OIDC issuer, npm package and web UI: I/O without shared
  state, or display.
- OpenBao itself: only what the code relies on (secrets, leases, token expiry).

## Plan

Next, in this order:

1. An atomic map of services that `ServiceRegistry` implements when metadata writes
   succeed, proved over `RegistryIInv`.
2. Template and auth-method validation, hooks and the firewall as operators, each
   against a reference definition, if they come to carry state.
