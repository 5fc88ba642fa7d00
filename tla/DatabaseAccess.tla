--------------------------- MODULE DatabaseAccess ---------------------------
(***************************************************************************)
(* database.Manager and straylight_db_query: the dashboard configures and  *)
(* removes databases, in several calls to OpenBao each, while queries look *)
(* up the configuration, obtain a temporary user and run a statement over  *)
(* a pool of one connection.                                               *)
(*                                                                         *)
(* The lease cache is that of LeaseManager, seen from outside: a lease is  *)
(* found or it is not.  OpenBao keeps one connection and one read-only     *)
(* role for each database name, and makes users on the server that the     *)
(* connection points to at the time.                                       *)
(***************************************************************************)
EXTENDS Naturals

CONSTANTS
  Names,      \* database service names
  Setups,     \* configurations that dashboards send: engine, host
  Admins,     \* concurrent dashboard requests
  Queries,    \* concurrent tool calls
  Nowhere,    \* no configuration, no lease, no server
  Refused     \* what the server does not support: "option", "statement", both or none

ASSUME DatabaseAssumption ==
  /\ Nowhere \notin Setups
  /\ \A s \in Setups : s.engine \in {"postgresql", "mysql", "redis"} /\ s.host # Nowhere
  /\ Refused \subseteq {"option", "statement"}

VARIABLES
  dbs,        \* Manager.dbs
  connection, \* database/config/<name> in OpenBao: the server it points to
  role,       \* the names with a role <name>-ro in OpenBao
  lease,      \* the cached lease of a name: the server its user is on
  adminAt,    \* what a dashboard request does next
  admin,      \* its name and configuration
  queryAt,    \* what a query does next
  query,      \* its name, configuration, credential and transaction mode
  pool,       \* the connection of a query's pool is taken
  setups      \* history: how often a name was configured

dbVars == <<dbs, connection, role, lease, adminAt, admin, queryAt, query, pool, setups>>

NoQuery == [name |-> Nowhere, cfg |-> Nowhere, user |-> Nowhere, readOnly |-> FALSE]
NoAdmin == [name |-> Nowhere, cfg |-> Nowhere]

Servers == {s.host : s \in Setups}

DbTypeOK ==
  /\ dbs \in [Names -> Setups \cup {Nowhere}]
  /\ connection \in [Names -> Servers \cup {Nowhere}]
  /\ role \in SUBSET Names
  /\ lease \in [Names -> Servers \cup {Nowhere}]
  /\ adminAt \in [Admins -> {"idle", "connection", "role", "store"}]
  /\ admin \in [Admins -> [name: Names \cup {Nowhere}, cfg: Setups \cup {Nowhere}]]
  /\ \A a \in Admins : adminAt[a] # "idle" => admin[a] \in [name: Names, cfg: Setups]
  /\ queryAt \in [Queries -> {"idle", "credential", "remember", "open", "option", "begin",
                              "statement", "rollback", "direct", "run", "rows", "done"}]
  /\ query \in [Queries -> [name: Names \cup {Nowhere}, cfg: Setups \cup {Nowhere},
                            user: Servers \cup {Nowhere}, readOnly: BOOLEAN]]
  /\ \A q \in Queries : queryAt[q] \notin {"idle", "done"} => query[q].name \in Names
  /\ pool \in [Queries -> BOOLEAN]
  /\ setups \in [Names -> Nat]

DbInit ==
  /\ dbs = [n \in Names |-> Nowhere]
  /\ connection = [n \in Names |-> Nowhere]
  /\ role = {}
  /\ lease = [n \in Names |-> Nowhere]
  /\ adminAt = [a \in Admins |-> "idle"]
  /\ admin = [a \in Admins |-> NoAdmin]
  /\ queryAt = [q \in Queries |-> "idle"]
  /\ query = [q \in Queries |-> NoQuery]
  /\ pool = [q \in Queries |-> FALSE]
  /\ setups = [n \in Names |-> 0]

adminVars == <<adminAt, admin>>
queryVars == <<queryAt, query, pool>>

-----------------------------------------------------------------------------
(* handleConfigureDatabase, handleRemoveDatabase *)

AdminGoes(a, to) == adminAt' = [adminAt EXCEPT ![a] = to]

\* Validate passes.  Each dashboard request is made once.
Configure(a, n, cfg) ==
  /\ adminAt[a] = "idle"
  /\ admin[a] = NoAdmin
  /\ admin' = [admin EXCEPT ![a] = [name |-> n, cfg |-> cfg]]
  /\ setups' = [setups EXCEPT ![n] = @ + 1]
  /\ AdminGoes(a, "connection")
  /\ UNCHANGED <<dbs, connection, role, lease, queryVars>>

\* ConfigureDatabaseConnection; on an error nothing more is done.
WriteConnection(a) ==
  /\ adminAt[a] = "connection"
  /\ \/ /\ connection' = [connection EXCEPT ![admin[a].name] = admin[a].cfg.host]
        /\ AdminGoes(a, "role")
     \/ /\ AdminGoes(a, "idle")
        /\ UNCHANGED connection
  /\ UNCHANGED <<dbs, role, lease, admin, setups, queryVars>>

\* CreateDatabaseRole: the connection stays when it fails.
WriteRole(a) ==
  /\ adminAt[a] = "role"
  /\ \/ /\ role' = role \cup {admin[a].name}
        /\ AdminGoes(a, "store")
     \/ /\ AdminGoes(a, "idle")
        /\ UNCHANGED role
  /\ UNCHANGED <<dbs, connection, lease, admin, setups, queryVars>>

StoreConfig(a) ==
  /\ adminAt[a] = "store"
  /\ dbs' = [dbs EXCEPT ![admin[a].name] = admin[a].cfg]
  /\ AdminGoes(a, "idle")
  /\ UNCHANGED <<connection, role, lease, admin, setups, queryVars>>

\* RemoveDatabase forgets the configuration, not the lease, the role or the connection.
RemoveDatabase(a, n) ==
  /\ adminAt[a] = "idle"
  /\ admin[a] = NoAdmin
  /\ dbs[n] # Nowhere
  /\ dbs' = [dbs EXCEPT ![n] = Nowhere]
  /\ admin' = [admin EXCEPT ![a] = [name |-> n, cfg |-> Nowhere]]
  /\ UNCHANGED <<connection, role, lease, adminAt, setups, queryVars>>

\* The cached lease expires or is revoked.
LeaseGone(n) ==
  /\ lease[n] # Nowhere
  /\ lease' = [lease EXCEPT ![n] = Nowhere]
  /\ UNCHANGED <<dbs, connection, role, adminVars, queryVars, setups>>

-----------------------------------------------------------------------------
(* handleDBQuery *)

QueryGoes(q, to) == queryAt' = [queryAt EXCEPT ![q] = to]

Learns(q, field, value) == query' = [query EXCEPT ![q] = [@ EXCEPT ![field] = value]]

\* sqlDB.Close and the deferred Rollback run when executeQuery returns, and what the
\* query knew is forgotten.
QueryReturns(q) ==
  /\ QueryGoes(q, "done")
  /\ query' = [query EXCEPT ![q] = NoQuery]
  /\ pool' = [pool EXCEPT ![q] = FALSE]

outsideQuery == <<dbs, connection, role, adminVars, setups>>

\* GetDatabaseConfig; an unknown name is an error.
LookUp(q, n) ==
  /\ queryAt[q] = "idle"
  /\ \/ /\ dbs[n] # Nowhere
        /\ query' = [query EXCEPT ![q] = [NoQuery EXCEPT !.name = n, !.cfg = dbs[n]]]
        /\ QueryGoes(q, "credential")
        /\ UNCHANGED pool
     \/ /\ dbs[n] = Nowhere
        /\ QueryReturns(q)
  /\ UNCHANGED <<outsideQuery, lease>>

\* Mutation of FindLease: the lease of any database will do.
FindAnyLease(q) ==
  /\ queryAt[q] = "credential"
  /\ \E n \in Names : lease[n] # Nowhere /\ Learns(q, "user", lease[n])
  /\ QueryGoes(q, "open")
  /\ UNCHANGED <<outsideQuery, lease, pool>>

\* GetCredentials, cached.
FindLease(q) ==
  /\ queryAt[q] = "credential"
  /\ lease[query[q].name] # Nowhere
  /\ Learns(q, "user", lease[query[q].name])
  /\ QueryGoes(q, "open")
  /\ UNCHANGED <<outsideQuery, lease, pool>>

\* GetCredentials, not cached: OpenBao makes a user on the server that its connection
\* points to, or fails.
Provision(q) ==
  /\ queryAt[q] = "credential"
  /\ lease[query[q].name] = Nowhere
  /\ \/ /\ query[q].name \in role
        /\ Learns(q, "user", connection[query[q].name])
        /\ QueryGoes(q, "remember")
        /\ UNCHANGED pool
     \/ QueryReturns(q)
  /\ UNCHANGED <<outsideQuery, lease>>

\* leases.Store
Remember(q) ==
  /\ queryAt[q] = "remember"
  /\ lease' = [lease EXCEPT ![query[q].name] = query[q].user]
  /\ QueryGoes(q, "open")
  /\ UNCHANGED <<outsideQuery, query, pool>>

\* buildDriverDSN knows no driver for redis, which is found out here; sql.Open may
\* refuse the DSN of any.
Open(q) ==
  /\ queryAt[q] = "open"
  /\ \/ QueryReturns(q)
     \/ /\ query[q].cfg.engine # "redis"
        /\ QueryGoes(q, "option")
        /\ UNCHANGED <<pool, query>>
  /\ UNCHANGED <<outsideQuery, lease>>

\* BeginTx with ReadOnly.  It fails where the option is not supported, and when the
\* server is out of reach or refuses the user.
BeginReadOnly(q) ==
  /\ queryAt[q] = "option"
  /\ ~pool[q]
  /\ \/ /\ "option" \notin Refused
        /\ pool' = [pool EXCEPT ![q] = TRUE]
        /\ Learns(q, "readOnly", TRUE)
        /\ QueryGoes(q, "run")
     \/ /\ QueryGoes(q, "begin")
        /\ UNCHANGED <<pool, query>>
  /\ UNCHANGED <<outsideQuery, lease>>

\* BeginTx without options.
Begin(q) ==
  /\ queryAt[q] = "begin"
  /\ ~pool[q]
  /\ \/ /\ pool' = [pool EXCEPT ![q] = TRUE]
        /\ QueryGoes(q, "statement")
        /\ UNCHANGED query
     \/ QueryReturns(q)
  /\ UNCHANGED <<outsideQuery, lease>>

\* SET TRANSACTION READ ONLY in that transaction.
SetReadOnly(q) ==
  /\ queryAt[q] = "statement"
  /\ \/ /\ "statement" \notin Refused
        /\ Learns(q, "readOnly", TRUE)
        /\ QueryGoes(q, "run")
     \/ /\ QueryGoes(q, "rollback")
        /\ UNCHANGED query
  /\ UNCHANGED <<outsideQuery, lease, pool>>

\* Mutation of Rollback: the transaction keeps the only connection.
RollbackForgotten(q) ==
  /\ queryAt[q] = "rollback"
  /\ QueryGoes(q, "direct")
  /\ UNCHANGED <<outsideQuery, lease, query, pool>>

\* tx2.Rollback gives the connection back before executeQueryDirect asks for it.
Rollback(q) ==
  /\ queryAt[q] = "rollback"
  /\ pool' = [pool EXCEPT ![q] = FALSE]
  /\ QueryGoes(q, "direct")
  /\ UNCHANGED <<outsideQuery, lease, query>>

\* executeQueryDirect: the pool has one connection to give.
Direct(q) ==
  /\ queryAt[q] = "direct"
  /\ ~pool[q]
  /\ \/ /\ pool' = [pool EXCEPT ![q] = TRUE]
        /\ QueryGoes(q, "rows")
        /\ UNCHANGED query
     \/ QueryReturns(q)
  /\ UNCHANGED <<outsideQuery, lease>>

\* QueryContext in the read-only transaction.
Run(q) ==
  /\ queryAt[q] = "run"
  /\ \/ QueryGoes(q, "rows") /\ UNCHANGED <<pool, query>>
     \/ QueryReturns(q)
  /\ UNCHANGED <<outsideQuery, lease>>

\* ScanRows, the row limit, the redaction of the user's name and password.
Answer(q) ==
  /\ queryAt[q] = "rows"
  /\ QueryReturns(q)
  /\ UNCHANGED <<outsideQuery, lease>>

-----------------------------------------------------------------------------

AdminStep(a) ==
  \/ \E n \in Names :
       \/ \E cfg \in Setups : Configure(a, n, cfg)
       \/ RemoveDatabase(a, n)
  \/ WriteConnection(a)
  \/ WriteRole(a)
  \/ StoreConfig(a)

\* What a query does once it is called.
QueryStep(q) ==
  \/ FindLease(q)
  \/ Provision(q)
  \/ Remember(q)
  \/ Open(q)
  \/ BeginReadOnly(q)
  \/ Begin(q)
  \/ SetReadOnly(q)
  \/ Rollback(q)
  \/ Direct(q)
  \/ Run(q)
  \/ Answer(q)

DbNext ==
  \/ \E a \in Admins : AdminStep(a)
  \/ \E n \in Names : LeaseGone(n)
  \/ \E q \in Queries : QueryStep(q) \/ \E n \in Names : LookUp(q, n)

\* The server answers, or the context of the request ends it.
DbFairness == \A q \in Queries : WF_dbVars(QueryStep(q))

DbSpec == DbInit /\ [][DbNext]_dbVars /\ DbFairness

-----------------------------------------------------------------------------
(* Properties *)

Connecting(q) == queryAt[q] \in {"option", "begin", "statement", "rollback", "direct", "run", "rows"}

\* The temporary user that a query presents to a server was made on that server,
\* unless the database has been configured more than once: then a lease, a connection
\* or a half-done configuration of the other server may be met, in any order.
UserFitsServer ==
  \A q \in Queries :
    Connecting(q) /\ setups[query[q].name] <= 1 => query[q].user = query[q].cfg.host

\* Every query returns: the ways to begin a transaction never wait for the connection
\* that one of them holds.
QuerySettles == \A q \in Queries : (queryAt[q] # "idle") ~> (queryAt[q] = "done")

=============================================================================
