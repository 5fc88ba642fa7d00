---------------------------- MODULE MCLifecycle ----------------------------
(***************************************************************************)
(* The program from its start to its end, in one model: the start of       *)
(* OpenBao, the renewal of its token, the server between its listeners and *)
(* its deferred calls, the databases that are configured meanwhile, and    *)
(* the bridge through which an agent calls its tools.                      *)
(* They share no variable: one runs in each behaviour, and which is chosen *)
(* at the start.                                                           *)
(***************************************************************************)
EXTENDS VaultSupervisor, TokenRenewal, Serving, DatabaseAccess, StdioBridge, TLC

VARIABLE part   \* the component that runs

lifeVars == <<part, supVars, vars, serveVars, dbVars, bridgeVars>>

LifeInit ==
  /\ part \in {"supervisor", "renewal", "serving", "databases", "bridge"}
  /\ SupInit
  /\ Init
  /\ ServeInit
  /\ DbInit
  /\ BridgeInit

InSupervisor ==
  part = "supervisor" /\ UNCHANGED <<part, vars, serveVars, dbVars, bridgeVars>>
InRenewal ==
  part = "renewal" /\ UNCHANGED <<part, supVars, serveVars, dbVars, bridgeVars>>
InServing ==
  part = "serving" /\ UNCHANGED <<part, supVars, vars, dbVars, bridgeVars>>
InDatabases ==
  part = "databases" /\ UNCHANGED <<part, supVars, vars, serveVars, bridgeVars>>
InBridge ==
  part = "bridge" /\ UNCHANGED <<part, supVars, vars, serveVars, dbVars>>

LifeNext ==
  \/ SupNext /\ InSupervisor
  \/ Next /\ InRenewal
  \/ ServeNext /\ InServing
  \/ DbNext /\ InDatabases
  \/ BridgeNext /\ InBridge

\* The fairness of each component, when it is the one that runs.
LifeFairness ==
  /\ WF_lifeVars(Program /\ InSupervisor)
  /\ WF_lifeVars(Main /\ InServing)
  /\ WF_lifeVars(ShutdownExpires /\ InServing)
  /\ \A q \in Queries : WF_lifeVars(QueryStep(q) /\ InDatabases)
  /\ WF_lifeVars(BridgeStep /\ InBridge)

LifeSpec == LifeInit /\ [][LifeNext]_lifeVars /\ LifeFairness

SomeSetups == {[engine |-> "postgresql", host |-> "h1"], [engine |-> "redis", host |-> "h2"]}

=============================================================================
