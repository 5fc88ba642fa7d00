------------------------------ MODULE ToolCalls ------------------------------
(***************************************************************************)
(* mcp.Handler: the dispatch of a tool call through the policy gate to     *)
(* straylight_api_call (proxy.Proxy) or straylight_exec (cmdwrap.Wrapper)  *)
(* while the registry changes the service that the call names.             *)
(*                                                                         *)
(* Every read of the registry is a step of its own, under the registry's   *)
(* lock; between two of them any request of the dashboard may run.  What   *)
(* the registry does in one of those is in ServiceRegistry, and what the   *)
(* proxy remembers of a credential is in ProxyCalls: here the service has  *)
(* one name and a request replaces it in one step.                         *)
(***************************************************************************)
EXTENDS PolicyRules, FiniteSets

CONSTANTS
  Callers,    \* concurrent tool calls
  Asked,      \* what they may ask: tool, method, path, command
  Configs,    \* what the service may be: policy, host, exec, commands, credential
  NoService,  \* the service is not there
  NoMethod,   \* the argument method is left out
  Elsewhere,  \* where an upstream may redirect to: host, path
  Redirects,  \* how often the HTTP client follows (10 in net/http)
  Changes     \* bound on the changes of the service

ASSUME ToolAssumption ==
  /\ NoService \notin Configs
  /\ \A q \in Asked : q.tool \in {"api", "exec"}
  \* validateService: exec needs commands
  /\ \A e \in Configs : e.exec => e.commands # {}
  /\ Redirects \in Nat
  /\ Changes \in Nat

VARIABLES
  service,  \* Registry.services[name], and its credential
  changes,
  stage,    \* what a call does next
  req,      \* its request
  local,    \* what it has read: policy, host, svc, credential
  wire,     \* the request that is on its way: after how many redirects, and for what
  during,   \* history: what the service was since the call came
  ended     \* how it ended

toolVars == <<service, changes, stage, req, local, wire, during, ended>>

Nothing == [policy |-> ZeroPolicy, host |-> <<>>, svc |-> NoService, credential |-> NoService]

Reads == [policy : {ZeroPolicy} \cup {e.policy : e \in Configs},
          host : {<<>>} \cup {e.host : e \in Configs},
          svc : Configs \cup {NoService},
          credential : Configs \cup {NoService}]

NoWire == [hop |-> 0, method |-> NoMethod, host |-> <<>>, path |-> <<>>]

Wires == [hop : 0 .. Redirects,
          method : {NoMethod, "GET"} \cup {q.method : q \in Asked},
          host : {<<>>} \cup {e.host : e \in Configs} \cup {to.host : to \in Elsewhere},
          path : {<<>>} \cup {q.path : q \in Asked} \cup {to.path : to \in Elsewhere}]

ToolTypeOK ==
  /\ service \in Configs \cup {NoService}
  /\ changes \in 0 .. Changes
  /\ stage \in [Callers -> {"idle", "policy", "host", "api", "inject", "sent", "exec", "lookup",
                       "credential", "approval", "running", "done"}]
  /\ req \in [Callers -> Asked]
  /\ local \in [Callers -> Reads]
  /\ wire \in [Callers -> Wires]
  /\ during \in [Callers -> SUBSET (Configs \cup {NoService})]
  /\ ended \in [Callers -> {"none", "ok", "error", "denied"}]

ToolInit ==
  /\ service \in Configs
  /\ changes = 0
  /\ stage = [c \in Callers |-> "idle"]
  /\ req \in [Callers -> Asked]
  /\ local = [c \in Callers |-> Nothing]
  /\ wire = [c \in Callers |-> NoWire]
  /\ during = [c \in Callers |-> {}]
  /\ ended = [c \in Callers |-> "none"]

-----------------------------------------------------------------------------
(* Steps of a call *)

Moves(c, to) == stage' = [stage EXCEPT ![c] = to]

Keeps(c, field, value) == local' = [local EXCEPT ![c] = [@ EXCEPT ![field] = value]]

\* The handler returns; what dispatchToolCall adds to the audit log is left out.
Returns(c, how) ==
  /\ Moves(c, "done")
  /\ ended' = [ended EXCEPT ![c] = how]

\* handleExec and handleAPICall.
Handler(c) == IF req[c].tool = "api" THEN "api" ELSE "exec"

Dispatch(c) ==
  /\ stage[c] = "idle"
  /\ Moves(c, "policy")
  /\ during' = [during EXCEPT ![c] = {service}]
  /\ UNCHANGED <<service, changes, req, local, wire, ended>>

\* PolicyFor: no service and no policy both mean no restriction.
ReadPolicy(c) ==
  /\ stage[c] = "policy"
  /\ Keeps(c, "policy", IF service = NoService THEN ZeroPolicy ELSE service.policy)
  /\ Moves(c, "host")
  /\ UNCHANGED <<service, changes, req, during, wire, ended>>

\* TargetHostFor and the decision of the gate; the method is the raw argument.
Gate(c) ==
  /\ stage[c] = "host"
  /\ LET host == IF service = NoService THEN <<>> ELSE service.host
     IN /\ Keeps(c, "host", host)
        /\ IF Evaluate(req[c].method, host, req[c].path, local[c].policy)
             THEN Moves(c, Handler(c)) /\ UNCHANGED ended
             ELSE Returns(c, "denied")
  /\ UNCHANGED <<service, changes, req, wire, during>>

-----------------------------------------------------------------------------
(* straylight_api_call *)

MethodOf(q) == IF q.method = NoMethod THEN "GET" ELSE q.method

\* Mutation of ProxyLookup: the gate is trusted and the policy not read again.
ProxyLookupTrusting(c) ==
  /\ stage[c] = "api"
  /\ IF service = NoService
       THEN Returns(c, "error") /\ UNCHANGED local
       ELSE Keeps(c, "svc", service) /\ Moves(c, "inject") /\ UNCHANGED ended
  /\ UNCHANGED <<service, changes, req, wire, during>>

\* Proxy.HandleAPICall: one copy of the service is looked up, and its policy decides
\* again for its target.
ProxyLookup(c) ==
  /\ stage[c] = "api"
  /\ IF service = NoService
       THEN Returns(c, "error") /\ UNCHANGED local
       ELSE /\ Keeps(c, "svc", service)
            /\ IF Evaluate(MethodOf(req[c]), service.host, req[c].path, service.policy)
                 THEN Moves(c, "inject") /\ UNCHANGED ended
                 ELSE Returns(c, "error")
  /\ UNCHANGED <<service, changes, req, wire, during>>

\* What the proxy asks the upstream for; the path is relative to that of the target.
Built(c) == [hop |-> 0, method |-> MethodOf(req[c]), host |-> local[c].svc.host,
             path |-> req[c].path]

\* The credential is read, by name, and the request built for the target of the copy;
\* or the credential is not there, not readable, or of an unknown injection.
Inject(c) ==
  /\ stage[c] = "inject"
  /\ \/ /\ service # NoService
        /\ Keeps(c, "credential", service)
        /\ wire' = [wire EXCEPT ![c] = Built(c)]
        /\ Moves(c, "sent")
        /\ UNCHANGED ended
     \/ /\ Returns(c, "error")
        /\ UNCHANGED <<local, wire>>
  /\ UNCHANGED <<service, changes, req, during>>

\* The upstream redirects, to any host and path, and client.Do follows, as the client
\* has no CheckRedirect: with the method or with GET, with the headers of the service
\* (Authorization only within the domain), and without asking a policy.
FollowRedirect(c) ==
  /\ stage[c] = "sent"
  /\ wire[c].hop < Redirects
  /\ \E to \in Elsewhere, m \in {wire[c].method, "GET"} :
       wire' = [wire EXCEPT ![c] = [hop |-> @.hop + 1, method |-> m,
                                    host |-> to.host, path |-> to.path]]
  /\ UNCHANGED <<service, changes, stage, req, local, during, ended>>

\* The upstream answers, with a status below 400 or not; or it redirects once too
\* often, cannot be reached, or the egress guard refuses its address.
Upstream(c) ==
  /\ stage[c] = "sent"
  /\ \E how \in {"ok", "error"} : Returns(c, how)
  /\ UNCHANGED <<service, changes, req, local, wire, during>>

-----------------------------------------------------------------------------
(* straylight_exec *)

\* Mutation of ExecGate: the service need not have opted in.
ExecGateOpen(c) ==
  /\ stage[c] = "exec"
  /\ IF service # NoService
       THEN Moves(c, "lookup") /\ UNCHANGED ended
       ELSE Returns(c, "error")
  /\ UNCHANGED <<service, changes, req, local, wire, during>>

\* ExecEnabledFor.
ExecGate(c) ==
  /\ stage[c] = "exec"
  /\ IF service # NoService /\ service.exec
       THEN Moves(c, "lookup") /\ UNCHANGED ended
       ELSE Returns(c, "error")
  /\ UNCHANGED <<service, changes, req, local, wire, during>>

\* Execute: a child credential is configured, and the service is there.  (The name of
\* the environment variable is good, or the call ends here.)
Lookup(c) ==
  /\ stage[c] = "lookup"
  /\ IF service = NoService
       THEN Returns(c, "error") /\ UNCHANGED local
       ELSE Keeps(c, "svc", service) /\ Moves(c, "credential") /\ UNCHANGED ended
  /\ UNCHANGED <<service, changes, req, wire, during>>

\* checkAllowlist, on the copy; an empty list allows nothing.
Allowlisted(command, svc) == command \in svc.commands

\* GetCredential, the allowlist and the egress check of the arguments.
ReadCredential(c) ==
  /\ stage[c] = "credential"
  /\ \/ /\ service # NoService
        /\ Allowlisted(req[c].command, local[c].svc)
        /\ Keeps(c, "credential", service)
        /\ Moves(c, "approval")
        /\ UNCHANGED ended
     \/ /\ Returns(c, "error")
        /\ UNCHANGED local
  /\ UNCHANGED <<service, changes, req, wire, during>>

\* Approver.Await: it may take as long as the approver likes.
Approve(c) ==
  /\ stage[c] = "approval"
  /\ Moves(c, "running")
  /\ UNCHANGED <<service, changes, req, local, wire, during, ended>>

Refuse(c) ==
  /\ stage[c] = "approval"
  /\ Returns(c, "error")
  /\ UNCHANGED <<service, changes, req, local, wire, during>>

\* The child exits with 0, with another code, on a signal, or at the timeout.
ChildEnds(c) ==
  /\ stage[c] = "running"
  /\ \E how \in {"ok", "error"} : Returns(c, how)
  /\ UNCHANGED <<service, changes, req, local, wire, during>>

-----------------------------------------------------------------------------

\* The registry creates, updates, rotates or deletes the service.
Change ==
  /\ changes < Changes
  /\ changes' = changes + 1
  /\ \E e \in (Configs \cup {NoService}) \ {service} :
       /\ service' = e
       /\ during' = [c \in Callers |->
            IF stage[c] \in {"idle", "done"} THEN during[c] ELSE during[c] \cup {e}]
  /\ UNCHANGED <<stage, req, local, wire, ended>>

ToolStep(c) ==
  \/ Dispatch(c)
  \/ ReadPolicy(c)
  \/ Gate(c)
  \/ ProxyLookup(c)
  \/ Inject(c)
  \/ FollowRedirect(c)
  \/ Upstream(c)
  \/ ExecGate(c)
  \/ Lookup(c)
  \/ ReadCredential(c)
  \/ Approve(c)
  \/ Refuse(c)
  \/ ChildEnds(c)

ToolNext == Change \/ \E c \in Callers : ToolStep(c)

ToolSpec == ToolInit /\ [][ToolNext]_toolVars

-----------------------------------------------------------------------------
(* Properties *)

\* The request that the proxy builds leaves with a credential only for a host that the
\* service had during the call under a policy of that same moment that allows the
\* request.  (The gate alone would let through what no policy allows: it reads policy
\* and host in two steps.)  Where the upstream then redirects the client to, method,
\* host and path are the upstream's choice, and HandleAPICall asks no policy again.
PolicyHonoured ==
  \A c \in Callers : stage[c] = "sent" /\ wire[c].hop = 0 =>
    \E e \in during[c] \ {NoService} :
      /\ e.host = wire[c].host
      /\ Evaluate(wire[c].method, e.host, wire[c].path, e.policy)

\* A child runs only if the service opted in to exec during the call and allowed the
\* command during the call, and with a credential that the service had during it.
ExecGated ==
  \A c \in Callers : stage[c] = "running" =>
    /\ \E e \in during[c] \ {NoService} : e.exec
    /\ \E e \in during[c] \ {NoService} : req[c].command \in e.commands
    /\ local[c].credential \in during[c] \ {NoService}

=============================================================================
