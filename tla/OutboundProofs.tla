---------------------------- MODULE OutboundProofs ----------------------------
(***************************************************************************)
(* What stands between a tool call and the world outside: the policy and   *)
(* the gates, the egress rules of the proxy and the cloud credentials, for *)
(* any calls, services, hosts, answers and changes in between.             *)
(*                                                                         *)
(* What a tool call sends was read a step before and decided upon earlier  *)
(* still, so IInv carries it along: the service of the moment is among     *)
(* those the call has seen (SeesService), and so is what the call holds,   *)
(* with the decision that was taken on it.  A request may ride on a        *)
(* connection that another one opened, so IInv says what is allowed of     *)
(* every connection (ConnsAllowed) and, one step earlier, of every address *)
(* that a dial has pinned (PinsAllowed).  A cloud credential is found in   *)
(* one of two caches, so IInv says whose it is (RightAccount) and how long *)
(* it lives, counted from when its account was last asked for              *)
(* (WithinLifetimes).                                                      *)
(***************************************************************************)
EXTENDS ToolCalls, EgressDial, CloudCredentials, TLAPS

-----------------------------------------------------------------------------
(* Tool calls *)

\* The services that were there during a call.
Seen(c) == during[c] \ {NoService}

SeesService ==
  \A c \in Callers : stage[c] \notin {"idle", "done"} => service \in during[c]

\* A request that is being built is one that the policy of its copy allows.
CopyAllows ==
  \A c \in Callers : stage[c] \in {"inject", "sent"} =>
    /\ local[c].svc \in Seen(c)
    /\ Evaluate(MethodOf(req[c]), local[c].svc.host, req[c].path, local[c].svc.policy)

\* What goes out first is what the proxy has built.
FirstHop ==
  \A c \in Callers : stage[c] = "sent" /\ wire[c].hop = 0 => wire[c] = Built(c)

\* A command has passed the gate, then the lookup, then the allowlist.
ExecSteps ==
  \A c \in Callers :
    /\ stage[c] \in {"lookup", "credential", "approval", "running"} => \E e \in Seen(c) : e.exec
    /\ stage[c] \in {"credential", "approval", "running"} => local[c].svc \in Seen(c)
    /\ stage[c] \in {"approval", "running"} =>
         /\ req[c].command \in local[c].svc.commands
         /\ local[c].credential \in Seen(c)

ToolIInv == ToolTypeOK /\ SeesService /\ CopyAllows /\ FirstHop /\ ExecSteps

-----------------------------------------------------------------------------

LEMMA ToolInitInv == ToolInit => ToolIInv
<1> SUFFICES ASSUME ToolInit PROVE ToolIInv
  OBVIOUS
<1>1. Nothing \in Reads /\ NoWire \in Wires
  BY ToolAssumption DEF Nothing, Reads, NoWire, Wires
<1>2. ToolTypeOK
  BY <1>1, ToolAssumption DEF ToolInit, ToolTypeOK
<1> QED
  BY <1>2 DEF ToolInit, ToolIInv, SeesService, CopyAllows, FirstHop, ExecSteps

\* What a call may read of the service keeps its type.
LEMMA ReadTypes ==
  ASSUME ToolTypeOK, NEW c \in Callers
  PROVE  /\ [local[c] EXCEPT !["policy"] = IF service = NoService THEN ZeroPolicy ELSE service.policy]
              \in Reads
         /\ [local[c] EXCEPT !["host"] = IF service = NoService THEN <<>> ELSE service.host] \in Reads
         /\ [local[c] EXCEPT !["svc"] = service] \in Reads
         /\ [local[c] EXCEPT !["credential"] = service] \in Reads
<1>1. local[c] \in Reads /\ service \in Configs \cup {NoService}
  BY DEF ToolTypeOK
<1> QED
  BY <1>1 DEF Reads

-----------------------------------------------------------------------------

\* A request that is on its way is one that the proxy builds or an upstream redirects to.
LEMMA WireTypes ==
  ASSUME ToolTypeOK, NEW c \in Callers
  PROVE  /\ local[c].svc \in Configs => Built(c) \in Wires
         /\ \A to \in Elsewhere, m \in {wire[c].method, "GET"} : wire[c].hop < Redirects =>
              [hop |-> wire[c].hop + 1, method |-> m, host |-> to.host, path |-> to.path] \in Wires
<1>1. wire[c] \in Wires /\ req[c] \in Asked
  BY DEF ToolTypeOK
<1>2. MethodOf(req[c]) \in {NoMethod, "GET"} \cup {q.method : q \in Asked}
  BY <1>1 DEF MethodOf
<1>3. ASSUME local[c].svc \in Configs PROVE Built(c) \in Wires
  BY <1>1, <1>2, <1>3, ToolAssumption DEF Built, Wires
<1>4. ASSUME wire[c].hop < Redirects
      PROVE  wire[c].hop + 1 \in 0 .. Redirects
  BY <1>1, <1>4, ToolAssumption DEF Wires
<1>5. wire[c].method \in {NoMethod, "GET"} \cup {q.method : q \in Asked}
  BY <1>1 DEF Wires
<1> QED
  BY <1>3, <1>4, <1>5 DEF Wires

\* Only Inject sends a request that no redirect has led to.
LEMMA FirstHopInv == ToolIInv /\ [ToolNext]_toolVars => FirstHop'
<1> SUFFICES ASSUME ToolIInv, [ToolNext]_toolVars, NEW d \in Callers,
                    stage'[d] = "sent", wire'[d].hop = 0
             PROVE  wire'[d] = Built(d)'
  BY DEF FirstHop
<1> USE DEF ToolIInv
<1>1. CASE stage[d] = "sent" /\ wire'[d] = wire[d] /\ local'[d] = local[d] /\ req' = req
  BY <1>1 DEF FirstHop, Built
<1>2. ASSUME NEW c \in Callers, Inject(c) PROVE wire'[d] = Built(d)'
  <2>1. CASE d # c
    <3>1. stage'[d] = stage[d] /\ wire'[d] = wire[d] /\ local'[d] = local[d] /\ req' = req
      BY <1>2, <2>1 DEF Inject, Moves, Keeps, Returns, ToolTypeOK
    <3> QED
      BY <1>1, <3>1
  <2>2. CASE d = c
    <3>1. stage'[c] = "sent" /\ stage[c] = "inject"
      BY <1>2, <2>2 DEF Inject
    <3>2. /\ wire' = [wire EXCEPT ![c] = Built(c)]
          /\ local' = [local EXCEPT ![c] = [@ EXCEPT !["credential"] = service]]
          /\ req' = req
      BY <1>2, <3>1 DEF Inject, Moves, Keeps, Returns, ToolTypeOK
    <3>3. local'[c].svc = local[c].svc
      BY <3>2 DEF ToolTypeOK, Reads
    <3> QED
      BY <2>2, <3>2, <3>3 DEF Built, ToolTypeOK
  <2> QED
    BY <2>1, <2>2
<1>3. ASSUME NEW c \in Callers, FollowRedirect(c) PROVE wire'[d] = Built(d)'
  <2>1. CASE d # c
    <3>1. stage'[d] = stage[d] /\ wire'[d] = wire[d] /\ local'[d] = local[d] /\ req' = req
      BY <1>3, <2>1 DEF FollowRedirect, ToolTypeOK
    <3> QED
      BY <1>1, <3>1
  <2>2. CASE d = c
    <3>1. wire'[c].hop = wire[c].hop + 1
      BY <1>3 DEF FollowRedirect, ToolTypeOK
    <3>2. wire[c].hop \in Nat
      BY ToolAssumption DEF ToolTypeOK, Wires
    <3> QED
      BY <2>2, <3>1, <3>2
  <2> QED
    BY <2>1, <2>2
<1>4. ASSUME NEW c \in Callers, ToolStep(c), ~Inject(c), ~FollowRedirect(c)
      PROVE  stage[d] = "sent" /\ wire'[d] = wire[d] /\ local'[d] = local[d] /\ req' = req
  BY <1>4 DEF ToolStep, Dispatch, ReadPolicy, Gate, ProxyLookup, Upstream, ExecGate, Lookup,
              ReadCredential, Approve, Refuse, ChildEnds, Moves, Keeps, Returns, Handler, ToolTypeOK
<1>5. ASSUME Change \/ UNCHANGED toolVars
      PROVE  stage[d] = "sent" /\ wire'[d] = wire[d] /\ local'[d] = local[d] /\ req' = req
  BY <1>5 DEF Change, toolVars
<1> QED
  BY <1>1, <1>2, <1>3, <1>4, <1>5 DEF ToolNext

\* A step of a call, and a request of the dashboard.
LEMMA ToolStepInv == ToolIInv /\ [ToolNext]_toolVars => ToolIInv'
<1> SUFFICES ASSUME ToolIInv, [ToolNext]_toolVars PROVE ToolIInv'
  OBVIOUS
<1> USE DEF ToolIInv
<1>0. FirstHop'
  BY FirstHopInv
<1>1. ASSUME NEW c \in Callers, Dispatch(c) PROVE ToolIInv'
  <2>1. ToolTypeOK'
    BY <1>1 DEF Dispatch, Moves, ToolTypeOK
  <2>2. SeesService'
    BY <1>1 DEF Dispatch, Moves, ToolTypeOK, SeesService
  <2>3. CopyAllows'
    BY <1>1 DEF Dispatch, Moves, ToolTypeOK, Reads, SeesService, CopyAllows, Seen
  <2>4. ExecSteps'
    BY <1>1 DEF Dispatch, Moves, ToolTypeOK, Reads, SeesService, ExecSteps, Seen
  <2> QED
    BY <1>0, <2>1, <2>2, <2>3, <2>4
<1>2. ASSUME NEW c \in Callers, ReadPolicy(c) PROVE ToolIInv'
  <2>1. ToolTypeOK'
    BY <1>2, ReadTypes DEF ReadPolicy, Moves, Keeps, ToolTypeOK
  <2>2. SeesService'
    BY <1>2 DEF ReadPolicy, Moves, Keeps, ToolTypeOK, SeesService
  <2>3. CopyAllows'
    BY <1>2 DEF ReadPolicy, Moves, Keeps, ToolTypeOK, Reads, SeesService, CopyAllows, Seen
  <2>4. ExecSteps'
    BY <1>2 DEF ReadPolicy, Moves, Keeps, ToolTypeOK, Reads, SeesService, ExecSteps, Seen
  <2> QED
    BY <1>0, <2>1, <2>2, <2>3, <2>4
<1>3. ASSUME NEW c \in Callers, Gate(c) PROVE ToolIInv'
  <2>1. ToolTypeOK'
    BY <1>3, ReadTypes DEF Gate, Moves, Keeps, Returns, Handler, ToolTypeOK
  <2>2. SeesService'
    BY <1>3 DEF Gate, Moves, Keeps, Returns, Handler, ToolTypeOK, SeesService
  <2>3. CopyAllows'
    BY <1>3 DEF Gate, Moves, Keeps, Returns, Handler, ToolTypeOK, Reads, SeesService, CopyAllows, Seen
  <2>4. ExecSteps'
    BY <1>3 DEF Gate, Moves, Keeps, Returns, Handler, ToolTypeOK, Reads, SeesService, ExecSteps, Seen
  <2> QED
    BY <1>0, <2>1, <2>2, <2>3, <2>4
<1>4. ASSUME NEW c \in Callers, ProxyLookup(c) PROVE ToolIInv'
  <2>1. ToolTypeOK'
    BY <1>4, ReadTypes DEF ProxyLookup, Moves, Keeps, Returns, ToolTypeOK
  <2>2. SeesService'
    BY <1>4 DEF ProxyLookup, Moves, Keeps, Returns, ToolTypeOK, SeesService
  <2>3. CopyAllows'
    BY <1>4 DEF ProxyLookup, Moves, Keeps, Returns, ToolTypeOK, Reads, SeesService, CopyAllows, Seen
  <2>4. ExecSteps'
    BY <1>4 DEF ProxyLookup, Moves, Keeps, Returns, ToolTypeOK, Reads, SeesService, ExecSteps, Seen
  <2> QED
    BY <1>0, <2>1, <2>2, <2>3, <2>4
<1>5. ASSUME NEW c \in Callers, Inject(c) PROVE ToolIInv'
  <2>1. ToolTypeOK'
    <3>1. CASE /\ Keeps(c, "credential", service) /\ Moves(c, "sent")
               /\ wire' = [wire EXCEPT ![c] = Built(c)] /\ UNCHANGED <<service, changes, req, during, ended>>
      <4>1. Built(c) \in Wires
        BY <1>5, WireTypes DEF Inject, CopyAllows, Seen, ToolTypeOK
      <4> QED
        BY <3>1, <4>1, ReadTypes DEF Moves, Keeps, ToolTypeOK
    <3>2. CASE Returns(c, "error") /\ UNCHANGED <<local, wire, service, changes, req, during>>
      BY <3>2 DEF Moves, Returns, ToolTypeOK
    <3> QED
      BY <1>5, <3>1, <3>2 DEF Inject
  <2>2. SeesService'
    BY <1>5 DEF Inject, Moves, Keeps, Returns, ToolTypeOK, SeesService
  <2>3. CopyAllows'
    <3> SUFFICES ASSUME NEW d \in Callers, stage'[d] \in {"inject", "sent"}
                 PROVE  /\ local'[d].svc \in during'[d] \ {NoService}
                        /\ Evaluate(MethodOf(req'[d]), local'[d].svc.host, req'[d].path,
                                    local'[d].svc.policy)
      BY DEF CopyAllows, Seen
    <3>1. /\ stage[d] \in {"inject", "sent"} /\ local'[d].svc = local[d].svc
          /\ req' = req /\ during' = during
      BY <1>5 DEF Inject, Moves, Keeps, Returns, ToolTypeOK, Reads
    <3> QED
      BY <3>1 DEF CopyAllows, Seen
  <2>4. ExecSteps'
    BY <1>5 DEF Inject, Moves, Keeps, Returns, ToolTypeOK, Reads, SeesService, ExecSteps, Seen
  <2> QED
    BY <1>0, <2>1, <2>2, <2>3, <2>4
<1>6. ASSUME NEW c \in Callers, Upstream(c) PROVE ToolIInv'
  <2>1. ToolTypeOK'
    BY <1>6 DEF Upstream, Moves, Returns, ToolTypeOK
  <2>2. SeesService'
    BY <1>6 DEF Upstream, Moves, Returns, ToolTypeOK, SeesService
  <2>3. CopyAllows'
    BY <1>6 DEF Upstream, Moves, Returns, ToolTypeOK, Reads, SeesService, CopyAllows, Seen
  <2>4. ExecSteps'
    BY <1>6 DEF Upstream, Moves, Returns, ToolTypeOK, Reads, SeesService, ExecSteps, Seen
  <2> QED
    BY <1>0, <2>1, <2>2, <2>3, <2>4
<1>7. ASSUME NEW c \in Callers, ExecGate(c) PROVE ToolIInv'
  <2>1. ToolTypeOK'
    BY <1>7 DEF ExecGate, Moves, Returns, ToolTypeOK
  <2>2. SeesService'
    BY <1>7 DEF ExecGate, Moves, Returns, ToolTypeOK, SeesService
  <2>3. CopyAllows'
    BY <1>7 DEF ExecGate, Moves, Returns, ToolTypeOK, Reads, SeesService, CopyAllows, Seen
  <2>4. ExecSteps'
    BY <1>7 DEF ExecGate, Moves, Returns, ToolTypeOK, Reads, SeesService, ExecSteps, Seen
  <2> QED
    BY <1>0, <2>1, <2>2, <2>3, <2>4
<1>8. ASSUME NEW c \in Callers, Lookup(c) PROVE ToolIInv'
  <2>1. ToolTypeOK'
    BY <1>8, ReadTypes DEF Lookup, Moves, Keeps, Returns, ToolTypeOK
  <2>2. SeesService'
    BY <1>8 DEF Lookup, Moves, Keeps, Returns, ToolTypeOK, SeesService
  <2>3. CopyAllows'
    BY <1>8 DEF Lookup, Moves, Keeps, Returns, ToolTypeOK, Reads, SeesService, CopyAllows, Seen
  <2>4. ExecSteps'
    BY <1>8 DEF Lookup, Moves, Keeps, Returns, ToolTypeOK, Reads, SeesService, ExecSteps, Seen
  <2> QED
    BY <1>0, <2>1, <2>2, <2>3, <2>4
<1>9. ASSUME NEW c \in Callers, ReadCredential(c) PROVE ToolIInv'
  <2>1. ToolTypeOK'
    BY ZenonT(40), <1>9, ReadTypes DEF ReadCredential, Moves, Keeps, Returns, Allowlisted, ToolTypeOK
  <2>2. SeesService'
    BY <1>9 DEF ReadCredential, Moves, Keeps, Returns, Allowlisted, ToolTypeOK, SeesService
  <2>3. CopyAllows'
    BY <1>9 DEF ReadCredential, Moves, Keeps, Returns, Allowlisted, ToolTypeOK, Reads, SeesService, CopyAllows, Seen
  <2>4. ExecSteps'
    BY <1>9 DEF ReadCredential, Moves, Keeps, Returns, Allowlisted, ToolTypeOK, Reads, SeesService, ExecSteps, Seen
  <2> QED
    BY <1>0, <2>1, <2>2, <2>3, <2>4
<1>10. ASSUME NEW c \in Callers, Approve(c) PROVE ToolIInv'
  <2>1. ToolTypeOK'
    BY <1>10 DEF Approve, Moves, ToolTypeOK
  <2>2. SeesService'
    BY <1>10 DEF Approve, Moves, ToolTypeOK, SeesService
  <2>3. CopyAllows'
    BY <1>10 DEF Approve, Moves, ToolTypeOK, Reads, SeesService, CopyAllows, Seen
  <2>4. ExecSteps'
    BY <1>10 DEF Approve, Moves, ToolTypeOK, Reads, SeesService, ExecSteps, Seen
  <2> QED
    BY <1>0, <2>1, <2>2, <2>3, <2>4
<1>11. ASSUME NEW c \in Callers, Refuse(c) PROVE ToolIInv'
  <2>1. ToolTypeOK'
    BY <1>11 DEF Refuse, Moves, Returns, ToolTypeOK
  <2>2. SeesService'
    BY <1>11 DEF Refuse, Moves, Returns, ToolTypeOK, SeesService
  <2>3. CopyAllows'
    BY <1>11 DEF Refuse, Moves, Returns, ToolTypeOK, Reads, SeesService, CopyAllows, Seen
  <2>4. ExecSteps'
    BY <1>11 DEF Refuse, Moves, Returns, ToolTypeOK, Reads, SeesService, ExecSteps, Seen
  <2> QED
    BY <1>0, <2>1, <2>2, <2>3, <2>4
<1>12. ASSUME NEW c \in Callers, ChildEnds(c) PROVE ToolIInv'
  <2>1. ToolTypeOK'
    BY <1>12 DEF ChildEnds, Moves, Returns, ToolTypeOK
  <2>2. SeesService'
    BY <1>12 DEF ChildEnds, Moves, Returns, ToolTypeOK, SeesService
  <2>3. CopyAllows'
    BY <1>12 DEF ChildEnds, Moves, Returns, ToolTypeOK, Reads, SeesService, CopyAllows, Seen
  <2>4. ExecSteps'
    BY <1>12 DEF ChildEnds, Moves, Returns, ToolTypeOK, Reads, SeesService, ExecSteps, Seen
  <2> QED
    BY <1>0, <2>1, <2>2, <2>3, <2>4
<1>13. CASE Change
  <2>1. ToolTypeOK'
    BY <1>13, ToolAssumption DEF Change, ToolTypeOK
  <2>2. SeesService'
    BY <1>13 DEF Change, ToolTypeOK, SeesService
  <2>3. \A c \in Callers : during[c] \subseteq during'[c]
    BY <1>13 DEF Change, ToolTypeOK
  <2>4. CopyAllows' /\ ExecSteps'
    BY <1>13, <2>3 DEF Change, ToolTypeOK, CopyAllows, ExecSteps, Seen
  <2> QED
    BY <1>0, <2>1, <2>2, <2>4
<1>14. ASSUME NEW c \in Callers, FollowRedirect(c) PROVE ToolIInv'
  <2>1. ToolTypeOK'
    <3>1. PICK to \in Elsewhere, m \in {wire[c].method, "GET"} :
            wire' = [wire EXCEPT ![c] = [hop |-> wire[c].hop + 1, method |-> m,
                                         host |-> to.host, path |-> to.path]]
      BY <1>14 DEF FollowRedirect
    <3>2. [hop |-> wire[c].hop + 1, method |-> m, host |-> to.host, path |-> to.path] \in Wires
      BY <1>14, WireTypes DEF FollowRedirect
    <3> QED
      BY <1>14, <3>1, <3>2 DEF FollowRedirect, ToolTypeOK
  <2>2. SeesService' /\ CopyAllows' /\ ExecSteps'
    BY <1>14 DEF FollowRedirect, SeesService, CopyAllows, ExecSteps, Seen
  <2> QED
    BY <1>0, <2>1, <2>2
<1>15. CASE UNCHANGED toolVars
  BY <1>0, <1>15 DEF toolVars, ToolTypeOK, SeesService, CopyAllows, ExecSteps, Seen
<1> QED
  BY <1>1, <1>2, <1>3, <1>4, <1>5, <1>6, <1>7, <1>8, <1>9, <1>10, <1>11, <1>12, <1>13, <1>14, <1>15
     DEF ToolNext, ToolStep

LEMMA ToolInvariance == ToolSpec => []ToolIInv
  BY ToolInitInv, ToolStepInv, PTL DEF ToolSpec

-----------------------------------------------------------------------------

\* What calls have read, and what they are about to do, keep their types (Handler).
THEOREM ToolTypeCorrectness == ToolSpec => []ToolTypeOK
<1>1. ToolIInv => ToolTypeOK
  BY DEF ToolIInv
<1> QED
  BY <1>1, ToolInvariance, PTL

\* For any services, policies and changes of them: the request that the proxy builds
\* leaves only for a host that the service had under a policy that allows it
\* (Proxy.HandleAPICall), whatever the upstreams then redirect the client to.
THEOREM PolicyHonouredHolds == ToolSpec => []PolicyHonoured
<1>1. ToolIInv => PolicyHonoured
  <2> SUFFICES ASSUME ToolIInv, NEW c \in Callers, stage[c] = "sent", wire[c].hop = 0
               PROVE  \E e \in during[c] \ {NoService} :
                        /\ e.host = wire[c].host
                        /\ Evaluate(wire[c].method, e.host, wire[c].path, e.policy)
    BY DEF PolicyHonoured
  <2>1. /\ wire[c].method = MethodOf(req[c]) /\ wire[c].host = local[c].svc.host
        /\ wire[c].path = req[c].path
    <3>1. wire[c] = Built(c)
      BY DEF ToolIInv, FirstHop
    <3>2. /\ Built(c).method = MethodOf(req[c]) /\ Built(c).host = local[c].svc.host
          /\ Built(c).path = req[c].path
      BY DEF Built
    <3> QED
      BY <3>1, <3>2
  <2> QED
    BY <2>1 DEF ToolIInv, CopyAllows, Seen
<1> QED
  BY <1>1, ToolInvariance, PTL

\* For any services and changes of them: a child runs only for a service that opted
\* in and allowed its command, with a credential that it had (Wrapper.Execute).
THEOREM ExecGatedHolds == ToolSpec => []ExecGated
<1>1. ToolIInv => ExecGated
  BY DEF ToolIInv, ExecSteps, ExecGated, Seen
<1> QED
  BY <1>1, ToolInvariance, PTL

-----------------------------------------------------------------------------
(* Egress *)

\* An address that the policy of some request for the host allows.
Allowed(host, ip) ==
  ip \in Denied => \E pol \in rules[host] : host \in pol.hosts \/ CheckIP(ip, pol)

\* A request that has been sent out is among those that rules remembers.
RuleOK ==
  \A r \in Outgoing : outAt[r] \in {"wait", "sent"} \/ dial[r].stage # "none" =>
    out[r].rule \in rules[out[r].host]

\* What is resolved and not yet checked is an answer; what is pinned was checked.
PinsAllowed ==
  \A r \in Outgoing :
    /\ dial[r].stage \in {"check", "connect"} => dial[r].ips # <<>>
    /\ dial[r].stage = "connect" => Allowed(out[r].host, Head(dial[r].ips))

ConnsAllowed == \A k \in conns : Allowed(k.host, k.address)

RidesAllowed ==
  \A r \in Outgoing : outAt[r] = "sent" =>
    over[r].host = out[r].host /\ Allowed(over[r].host, over[r].address)

EgressIInv == EgressTypeOK /\ RuleOK /\ PinsAllowed /\ ConnsAllowed /\ RidesAllowed

-----------------------------------------------------------------------------

LEMMA EgressInitInv == EgressInit => EgressIInv
<1> SUFFICES ASSUME EgressInit PROVE EgressIInv
  OBVIOUS
<1>1. Unasked \in [host : Hosts, rule : EgressRules \cup {NoRule}]
  BY EgressAssumption DEF Unasked
<1>2. /\ NoDial \in [stage : {"none", "resolve", "check", "connect"}, ips : Seq(Addresses)]
      /\ NoDial.stage = "none"
  BY DEF NoDial
<1>3. EgressTypeOK
  BY <1>1, <1>2, EgressAssumption DEF EgressInit, EgressTypeOK, Conns
<1> QED
  BY <1>2, <1>3 DEF EgressInit, EgressIInv, RuleOK, PinsAllowed, ConnsAllowed, RidesAllowed

\* A request forgets no policy that asked for the host.
LEMMA AllowedGrows ==
  ASSUME NEW h, NEW ip, rules[h] \subseteq rules'[h], Allowed(h, ip)
  PROVE  Allowed(h, ip)'
  BY DEF Allowed

\* A request or a redirected one waits for a connection to its host.
LEMMA WaitForInv ==
  ASSUME EgressIInv, NEW r \in Outgoing, NEW h \in Hosts, NEW pol \in EgressRules, WaitFor(r, h, pol),
         UNCHANGED <<names, moves, conns, over>>
  PROVE  EgressIInv'
<1> USE DEF EgressIInv
<1>1. /\ out' = [out EXCEPT ![r] = [host |-> h, rule |-> pol]]
      /\ rules' = [rules EXCEPT ![h] = @ \cup {pol}]
      /\ outAt' = [outAt EXCEPT ![r] = "wait"]
      /\ dial' \in {[dial EXCEPT ![r] = [NoDial EXCEPT !.stage = "resolve"]],
                    [dial EXCEPT ![r] = NoDial]}
  BY DEF WaitFor, OutGoes
<1>2. [host |-> h, rule |-> pol] \in [host : Hosts, rule : EgressRules \cup {NoRule}]
  OBVIOUS
<1>3. {[NoDial EXCEPT !.stage = "resolve"], NoDial}
        \subseteq [stage : {"none", "resolve", "check", "connect"}, ips : Seq(Addresses)]
  <2>1. NoDial = [stage |-> "none", ips |-> <<>>] /\ <<>> \in Seq(Addresses)
    BY DEF NoDial
  <2>2. [NoDial EXCEPT !.stage = "resolve"] = [stage |-> "resolve", ips |-> <<>>]
    BY <2>1
  <2>3. \A s \in {"none", "resolve"} : [stage |-> s, ips |-> <<>>]
          \in [stage : {"none", "resolve", "check", "connect"}, ips : Seq(Addresses)]
    BY <2>1
  <2> QED
    BY <2>1, <2>2, <2>3
<1>4. dial' \in [Outgoing -> [stage : {"none", "resolve", "check", "connect"}, ips : Seq(Addresses)]]
  BY <1>1, <1>3 DEF EgressTypeOK
<1>5. out' \in [Outgoing -> [host : Hosts, rule : EgressRules \cup {NoRule}]]
  BY <1>1, <1>2 DEF EgressTypeOK
<1>6. rules' \in [Hosts -> SUBSET EgressRules] /\ \A g \in Hosts : rules[g] \subseteq rules'[g]
  BY <1>1 DEF EgressTypeOK
<1>7. EgressTypeOK'
  BY <1>1, <1>4, <1>5, <1>6 DEF EgressTypeOK
<1>8. RuleOK'
  BY <1>1, <1>6 DEF EgressTypeOK, RuleOK
<1>9. PinsAllowed'
  <2>1. dial'[r].stage \in {"none", "resolve"}
    BY <1>1 DEF EgressTypeOK, NoDial
  <2>2. \A s \in Outgoing \ {r} : dial'[s] = dial[s] /\ out'[s] = out[s] /\ out[s].host \in Hosts
    BY <1>1 DEF EgressTypeOK
  <2> QED
    BY <1>6, <2>1, <2>2, AllowedGrows DEF PinsAllowed
<1>10. ConnsAllowed'
  BY <1>6, AllowedGrows DEF EgressTypeOK, Conns, ConnsAllowed
<1>11. RidesAllowed'
  <2>1. \A s \in Outgoing : outAt'[s] = "sent" => s # r /\ outAt[s] = "sent" /\ out'[s] = out[s]
    BY <1>1 DEF EgressTypeOK
  <2> QED
    BY <1>6, <2>1, AllowedGrows DEF EgressTypeOK, RidesAllowed
<1> QED
  BY <1>7, <1>8, <1>9, <1>10, <1>11

LEMMA EgressStepInv == EgressIInv /\ [EgressNext]_egressVars => EgressIInv'
<1> SUFFICES ASSUME EgressIInv, [EgressNext]_egressVars PROVE EgressIInv'
  OBVIOUS
<1> USE DEF EgressIInv
<1>1. ASSUME NEW r \in Outgoing, NEW h \in Hosts, NEW pol \in EgressRules, SendOut(r, h, pol) PROVE EgressIInv'
  BY <1>1, WaitForInv DEF SendOut
<1>2. ASSUME NEW r \in Outgoing, NEW h \in Hosts, NEW pol \in EgressRules, Preflight(r, h, pol) PROVE EgressIInv'
  <2>1. EgressTypeOK'
    BY <1>2 DEF Preflight, OutGoes, EgressTypeOK, Conns, NoDial
  <2>2. RuleOK'
    BY <1>2 DEF Preflight, OutGoes, EgressTypeOK, RuleOK, NoDial
  <2>3. PinsAllowed'
    BY <1>2 DEF Preflight, OutGoes, EgressTypeOK, RuleOK, PinsAllowed, Allowed, NoDial, CheckHost
  <2>4. ConnsAllowed'
    BY <1>2 DEF Preflight, OutGoes, EgressTypeOK, PinsAllowed, ConnsAllowed, Allowed
  <2>5. RidesAllowed'
    BY <1>2 DEF Preflight, OutGoes, EgressTypeOK, ConnsAllowed, RidesAllowed, Allowed, Conns
  <2> QED
    BY <2>1, <2>2, <2>3, <2>4, <2>5
<1>3. ASSUME NEW r \in Outgoing, NEW h \in Hosts, Redirect(r, h) PROVE EgressIInv'
  <2>1. out[r].rule \in EgressRules
    BY <1>3 DEF Redirect, EgressTypeOK, RuleOK
  <2> QED
    BY <1>3, <2>1, WaitForInv DEF Redirect
<1>4. ASSUME NEW r \in Outgoing, Resolve(r) PROVE EgressIInv'
  <2>1. EgressTypeOK'
    BY <1>4, EgressAssumption DEF Resolve, OutGoes, EgressTypeOK, NoDial
  <2>2. RuleOK'
    BY <1>4 DEF Resolve, OutGoes, EgressTypeOK, RuleOK, NoDial
  <2>3. PinsAllowed'
    BY <1>4 DEF Resolve, OutGoes, EgressTypeOK, RuleOK, PinsAllowed, Allowed, NoDial, CheckHost
  <2>4. ConnsAllowed'
    BY <1>4 DEF Resolve, OutGoes, EgressTypeOK, PinsAllowed, ConnsAllowed, Allowed
  <2>5. RidesAllowed'
    BY <1>4 DEF Resolve, OutGoes, EgressTypeOK, ConnsAllowed, RidesAllowed, Allowed, Conns
  <2> QED
    BY <2>1, <2>2, <2>3, <2>4, <2>5
<1>5. ASSUME NEW r \in Outgoing, Vet(r) PROVE EgressIInv'
  <2>1. EgressTypeOK'
    <3>1. dial[r].ips \in Seq(Addresses) /\ dial[r].ips # <<>>
      BY <1>5 DEF Vet, EgressTypeOK, PinsAllowed
    <3>2. Head(dial[r].ips) \in Addresses
      BY <3>1
    <3> QED
      BY <1>5, <3>2 DEF Vet, OutGoes, EgressTypeOK, NoDial
  <2>2. RuleOK'
    BY <1>5 DEF Vet, OutGoes, EgressTypeOK, RuleOK, NoDial
  <2>3. PinsAllowed'
    BY <1>5 DEF Vet, OutGoes, EgressTypeOK, RuleOK, PinsAllowed, Allowed, NoDial, CheckHost
  <2>4. ConnsAllowed'
    BY <1>5 DEF Vet, OutGoes, EgressTypeOK, PinsAllowed, ConnsAllowed, Allowed
  <2>5. RidesAllowed'
    BY <1>5 DEF Vet, OutGoes, EgressTypeOK, ConnsAllowed, RidesAllowed, Allowed, Conns
  <2> QED
    BY <2>1, <2>2, <2>3, <2>4, <2>5
<1>6. ASSUME NEW r \in Outgoing, Connect(r) PROVE EgressIInv'
  <2>1. /\ dial[r].ips \in Seq(Addresses) /\ dial[r].ips # <<>> /\ out[r].host \in Hosts
        /\ Allowed(out[r].host, Head(dial[r].ips))
    BY <1>6 DEF Connect, EgressTypeOK, PinsAllowed
  <2>2. Head(dial[r].ips) \in Addresses
    BY <2>1
  <2>3. EgressTypeOK'
    <3>1. [host |-> out[r].host, address |-> Head(dial[r].ips)] \in Conns
      BY <2>1, <2>2 DEF Conns
    <3>2. conns' \subseteq Conns
      BY <1>6, <3>1 DEF Connect, EgressTypeOK
    <3>3. dial' = [dial EXCEPT ![r] = NoDial]
      BY <1>6 DEF Connect
    <3>4. NoDial \in [stage : {"none", "resolve", "check", "connect"}, ips : Seq(Addresses)]
      BY DEF NoDial
    <3>5. outAt' \in [Outgoing -> {"idle", "wait", "sent", "child", "done"}]
      BY <1>6 DEF Connect, OutGoes, EgressTypeOK
    <3> QED
      BY ZenonT(40), <1>6, <3>2, <3>3, <3>4, <3>5 DEF Connect, EgressTypeOK
  <2>4. RuleOK'
    BY <1>6 DEF Connect, OutGoes, EgressTypeOK, RuleOK, NoDial
  <2>5. PinsAllowed'
    BY <1>6 DEF Connect, OutGoes, EgressTypeOK, RuleOK, PinsAllowed, Allowed, NoDial, CheckHost
  <2>6. ConnsAllowed'
    BY <1>6, <2>1 DEF Connect, ConnsAllowed, Allowed
  <2>7. RidesAllowed'
    BY <1>6 DEF Connect, OutGoes, EgressTypeOK, ConnsAllowed, RidesAllowed, Allowed, Conns
  <2> QED
    BY <2>3, <2>4, <2>5, <2>6, <2>7
<1>7. ASSUME NEW r \in Outgoing, Ride(r) PROVE EgressIInv'
  <2>1. EgressTypeOK'
    BY <1>7 DEF Ride, OutGoes, EgressTypeOK, Conns, NoDial
  <2>2. RuleOK'
    BY <1>7 DEF Ride, OutGoes, EgressTypeOK, RuleOK, NoDial
  <2>3. PinsAllowed'
    BY <1>7 DEF Ride, OutGoes, EgressTypeOK, RuleOK, PinsAllowed, Allowed, NoDial, CheckHost
  <2>4. ConnsAllowed'
    BY <1>7 DEF Ride, OutGoes, EgressTypeOK, PinsAllowed, ConnsAllowed, Allowed
  <2>5. RidesAllowed'
    BY <1>7 DEF Ride, OutGoes, EgressTypeOK, ConnsAllowed, RidesAllowed, Allowed, Conns
  <2> QED
    BY <2>1, <2>2, <2>3, <2>4, <2>5
<1>8. ASSUME NEW r \in Outgoing, Arrived(r) PROVE EgressIInv'
  <2>1. EgressTypeOK'
    BY <1>8 DEF Arrived, OutGoes, EgressTypeOK, Conns, NoDial
  <2>2. RuleOK'
    BY <1>8 DEF Arrived, OutGoes, EgressTypeOK, RuleOK, NoDial
  <2>3. PinsAllowed'
    BY <1>8 DEF Arrived, OutGoes, EgressTypeOK, RuleOK, PinsAllowed, Allowed, NoDial, CheckHost
  <2>4. ConnsAllowed'
    BY <1>8 DEF Arrived, OutGoes, EgressTypeOK, PinsAllowed, ConnsAllowed, Allowed
  <2>5. RidesAllowed'
    BY <1>8 DEF Arrived, OutGoes, EgressTypeOK, ConnsAllowed, RidesAllowed, Allowed, Conns
  <2> QED
    BY <2>1, <2>2, <2>3, <2>4, <2>5
<1>9. ASSUME NEW k \in conns, CloseConn(k) PROVE EgressIInv'
  <2>1. EgressTypeOK'
    BY <1>9 DEF CloseConn, EgressTypeOK, Conns, NoDial
  <2>2. RuleOK'
    BY <1>9 DEF CloseConn, EgressTypeOK, RuleOK, NoDial
  <2>3. PinsAllowed'
    BY <1>9 DEF CloseConn, EgressTypeOK, RuleOK, PinsAllowed, Allowed, NoDial, CheckHost
  <2>4. ConnsAllowed'
    BY <1>9 DEF CloseConn, EgressTypeOK, PinsAllowed, ConnsAllowed, Allowed
  <2>5. RidesAllowed'
    BY <1>9 DEF CloseConn, EgressTypeOK, ConnsAllowed, RidesAllowed, Allowed, Conns
  <2> QED
    BY <2>1, <2>2, <2>3, <2>4, <2>5
<1>10. ASSUME NEW h \in Hosts, Move(h) PROVE EgressIInv'
  <2>1. EgressTypeOK'
    BY <1>10, EgressAssumption DEF Move, EgressTypeOK
  <2>2. RuleOK'
    BY <1>10 DEF Move, EgressTypeOK, RuleOK, NoDial
  <2>3. PinsAllowed'
    BY <1>10 DEF Move, EgressTypeOK, RuleOK, PinsAllowed, Allowed, NoDial, CheckHost
  <2>4. ConnsAllowed'
    BY <1>10 DEF Move, EgressTypeOK, PinsAllowed, ConnsAllowed, Allowed
  <2>5. RidesAllowed'
    BY <1>10 DEF Move, EgressTypeOK, ConnsAllowed, RidesAllowed, Allowed, Conns
  <2> QED
    BY <2>1, <2>2, <2>3, <2>4, <2>5
<1>11. CASE UNCHANGED egressVars
  BY <1>11 DEF egressVars, EgressTypeOK, RuleOK, PinsAllowed, ConnsAllowed, RidesAllowed, Allowed
<1> QED
  BY <1>1, <1>2, <1>3, <1>4, <1>5, <1>6, <1>7, <1>8, <1>9, <1>10, <1>11 DEF EgressNext

LEMMA EgressInvariance == EgressSpec => []EgressIInv
  BY EgressInitInv, EgressStepInv, PTL DEF EgressSpec

-----------------------------------------------------------------------------

\* Requests, dials and connections keep their types (NewProxyWithGuardTTL).
THEOREM EgressTypeCorrectness == EgressSpec => []EgressTypeOK
<1>1. EgressIInv => EgressTypeOK
  BY DEF EgressIInv
<1> QED
  BY <1>1, EgressInvariance, PTL

\* However the answers of the name server change, and whoever opened the connection:
\* a denied address is reached only if a policy for that host allows it (DialContext).
THEOREM DeniedIsAllowedHolds == EgressSpec => []DeniedIsAllowed
<1>1. EgressIInv => DeniedIsAllowed
  BY DEF EgressIInv, RidesAllowed, DeniedIsAllowed, Allowed
<1> QED
  BY <1>1, EgressInvariance, PTL

-----------------------------------------------------------------------------
(* Cloud credentials *)

\* The engine keeps a credential under the account it is for, and so does a call that
\* got one from a provider.
RightAccount ==
  /\ \A k \in EngineKeys : engine[k] # NoCredential => engine[k].config.id = k
  /\ \A c \in CloudCalls : callAt[c] = "keep" => got[c].config.id = want[c].config.id

\* No credential outlives the longest lifetime, counted from now, or, in the manager's
\* cache, from the last call that asked for its account.
WithinLifetime(e) == e # NoCredential => e.expires <= tick + Longest
WithinLifetimes ==
  /\ \A k \in EngineKeys : WithinLifetime(engine[k])
  /\ \A c \in CloudCalls : WithinLifetime(got[c])
  /\ \A s \in CloudServices, a \in Accounts : wanted[s][a] <= tick
  /\ \A s \in CloudServices : managed[s] # NoCredential =>
       LET last == wanted[s][managed[s].config.id]
       IN  last # 0 /\ managed[s].expires <= last + Longest

CloudIInv == CloudTypeOK /\ RightAccount /\ WithinLifetimes /\ AccountHonoured

LEMMA LongestLifetime ==
  /\ Longest \in Nat \ {0}
  /\ \A n \in Lifetimes : n \in Nat /\ n <= Longest
<1>1. IsLongest(Longest)
  BY CloudAssumption DEF Longest
<1>2. Lifetimes \subseteq Nat
  BY CloudAssumption DEF Lifetimes
<1>3. Lifetime \in Lifetimes /\ Lifetime \in Nat \ {0}
  BY CloudAssumption DEF Lifetimes
<1> QED
  BY <1>1, <1>2, <1>3 DEF IsLongest

\* Providers and adapters answer with a credential for the configuration they are given,
\* for one of the lifetimes.
LEMMA ProviderAnswers ==
  ASSUME tick \in 1 .. LastTick, NEW f \in CloudConfigs, NEW answer \in Static(f) \cup Exchanged(f)
  PROVE  \/ answer = NoCredential
         \/ answer \in Credentials /\ answer.config = f /\ answer.expires <= tick + Longest
<1>1. f.engine \in {"aws", "gcp", "azure"} /\ f.asks \in Lifetimes /\ Lifetime \in Lifetimes
      /\ Grants \subseteq Lifetimes /\ Lifetime # 0 /\ LastTick \in Nat
  BY CloudAssumption DEF Lifetimes
<1>2. Static(f) \in {AWSStatic(f), GCPStatic(f), AzureStatic(f)}
  <2> DEFINE R == [aws |-> AWSStatic(f), gcp |-> GCPStatic(f), azure |-> AzureStatic(f)]
  <2>1. R["aws"] = AWSStatic(f) /\ R["gcp"] = GCPStatic(f) /\ R["azure"] = AzureStatic(f)
    OBVIOUS
  <2>2. Static(f) = R[f.engine]
    BY DEF Static
  <2> QED
    BY <1>1, <2>1, <2>2
<1>3. Exchanged(f) \in {AWSExchange(f), GCPExchange(f), AzureExchange(f)}
  <2> DEFINE R == [aws |-> AWSExchange(f), gcp |-> GCPExchange(f), azure |-> AzureExchange(f)]
  <2>1. R["aws"] = AWSExchange(f) /\ R["gcp"] = GCPExchange(f) /\ R["azure"] = AzureExchange(f)
    OBVIOUS
  <2>2. Exchanged(f) = R[f.engine]
    BY DEF Exchanged
  <2> QED
    BY <1>1, <2>1, <2>2
<1>4. \A n \in Grants : OrDefault(n) \in Lifetimes \ {0} /\ OrDefault(OrDefault(n)) = OrDefault(n)
  BY <1>1, LongestLifetime DEF OrDefault
<1>5. answer = NoCredential \/ \E n \in Lifetimes \ {0} : answer = Made(f, n)
  BY <1>1, <1>2, <1>3, <1>4, LongestLifetime
     DEF AWSStatic, GCPStatic, AzureStatic, AWSExchange, GCPExchange, AzureExchange, GCPGrants, AzureGrants
<1>6. ASSUME NEW n \in Lifetimes \ {0}
      PROVE  LET m == Made(f, n) IN m \in Credentials /\ m.config = f /\ m.expires <= tick + Longest
  <2>1. n \in Nat /\ n <= Longest /\ tick \in Nat /\ tick <= LastTick
        /\ tick + n \in 1 .. LastTick + Longest /\ tick + n <= tick + Longest
    BY <1>1, LongestLifetime
  <2> QED
    BY <2>1 DEF Made, Credentials
<1> QED
  BY <1>5, <1>6

\* The key of the engine is the account that is asked for.
LEMMA InputKey == \A f \in CloudConfigs : Input(f).key = f.id /\ f.id \in EngineKeys /\ f.id \in Accounts
<1> SUFFICES ASSUME NEW f \in CloudConfigs
             PROVE  Input(f).key = f.id /\ f.id \in EngineKeys /\ f.id \in Accounts
  OBVIOUS
<1> DEFINE R == [aws |-> AWSInput(f), gcp |-> GCPInput(f), azure |-> AzureInput(f)]
<1>1. R["aws"] = AWSInput(f) /\ R["gcp"] = GCPInput(f) /\ R["azure"] = AzureInput(f)
  OBVIOUS
<1>2. Input(f) = R[f.engine]
  BY DEF Input
<1>3. AWSInput(f).key = f.id /\ (f.engine = "gcp" => GCPInput(f).key = f.id) /\ AzureInput(f).key = f.id
  BY CloudAssumption DEF AWSInput, GCPInput, AzureInput
<1>4. f.engine \in {"aws", "gcp", "azure"}
  BY CloudAssumption
<1> HIDE DEF R
<1> QED
  BY <1>1, <1>2, <1>3, <1>4 DEF EngineKeys, Accounts

LEMMA CloudInitInv == CloudInit => CloudIInv
BY CloudAssumption DEF CloudInit, CloudIInv, CloudTypeOK, RightAccount, WithinLifetimes, WithinLifetime, AccountHonoured

\* A step of one call, which may change what the engine has.
LEMMA CloudCallMoves ==
  ASSUME CloudIInv, NEW c \in CloudCalls, UNCHANGED <<tick, managed, wanted>>,
         CloudTypeOK',
         \A d \in CloudCalls \ {c} : callAt'[d] = callAt[d] /\ want'[d] = want[d] /\ got'[d] = got[d],
         WithinLifetime(got'[c]), callAt'[c] # "answer",
         callAt'[c] = "keep" => got'[c].config.id = want'[c].config.id,
         \A k \in EngineKeys : engine'[k] # engine[k] /\ engine'[k] # NoCredential =>
                                 WithinLifetime(engine'[k]) /\ engine'[k].config.id = k
  PROVE  CloudIInv'
<1>1. RightAccount'
  BY DEF CloudIInv, RightAccount
<1>2. WithinLifetimes'
  BY DEF CloudIInv, WithinLifetimes, WithinLifetime
<1>3. AccountHonoured'
  BY DEF CloudIInv, AccountHonoured
<1> QED
  BY <1>1, <1>2, <1>3 DEF CloudIInv

\* The provider has answered, and the call ends or goes on to keep the credential.
LEMMA GeneratedInv ==
  ASSUME CloudIInv, NEW c \in CloudCalls, want[c] \in Wants, UNCHANGED <<tick, managed, wanted>>,
         NEW answer,
         \/ answer = NoCredential
         \/ answer \in Credentials /\ WithinLifetime(answer) /\ answer.config.id = want[c].config.id,
         Generated(c, answer),
         \/ UNCHANGED engine
         \/ engine' = [engine EXCEPT ![want[c].config.id] = answer] /\ answer # NoCredential
  PROVE  CloudIInv'
<1> USE DEF CloudIInv
<1>1. want[c].config \in CloudConfigs /\ want[c].config.id \in EngineKeys
  BY InputKey DEF Wants
<1>2. engine' \in [EngineKeys -> Credentials \cup {NoCredential}]
  BY DEF CloudTypeOK
<1>3. \A k \in EngineKeys : engine'[k] # engine[k] /\ engine'[k] # NoCredential =>
                              WithinLifetime(engine'[k]) /\ engine'[k].config.id = k
  BY <1>1 DEF CloudTypeOK
<1>4. CASE answer = NoCredential
  <2>1. /\ callAt' = [callAt EXCEPT ![c] = "idle"] /\ want' = [want EXCEPT ![c] = NoCredential]
        /\ got' = [got EXCEPT ![c] = NoCredential]
    BY <1>4 DEF Generated, CallEnds, CallGoes
  <2>2. CloudTypeOK'
    BY <1>2, <2>1 DEF CloudTypeOK
  <2>3. \A d \in CloudCalls \ {c} : callAt'[d] = callAt[d] /\ want'[d] = want[d] /\ got'[d] = got[d]
    BY <2>1 DEF CloudTypeOK
  <2>4. callAt'[c] = "idle" /\ WithinLifetime(got'[c])
    BY <2>1 DEF CloudTypeOK, WithinLifetime
  <2> QED
    BY <1>3, <2>2, <2>3, <2>4, CloudCallMoves
<1>5. CASE answer # NoCredential
  <2>1. /\ callAt' = [callAt EXCEPT ![c] = "keep"] /\ got' = [got EXCEPT ![c] = answer] /\ UNCHANGED want
    BY <1>5 DEF Generated, CallGoes
  <2>2. CloudTypeOK'
    BY <1>2, <1>5, <2>1 DEF CloudTypeOK
  <2>3. \A d \in CloudCalls \ {c} : callAt'[d] = callAt[d] /\ want'[d] = want[d] /\ got'[d] = got[d]
    BY <2>1 DEF CloudTypeOK
  <2>4. callAt'[c] = "keep" /\ got'[c] = answer
    BY <2>1 DEF CloudTypeOK
  <2> QED
    BY <1>3, <1>5, <2>1, <2>2, <2>3, <2>4, CloudCallMoves DEF WithinLifetime
<1> QED
  BY <1>4, <1>5

LEMMA GetCloudInv ==
  ASSUME CloudIInv, NEW c \in CloudCalls, NEW s \in CloudServices, NEW f \in CloudConfigs,
         GetCloud(c, s, f)
  PROVE  CloudIInv'
<1> USE DEF CloudIInv
<1>1. /\ callAt[c] = "idle"
      /\ want' = [want EXCEPT ![c] = [service |-> s, config |-> f, on |-> tick]]
      /\ UNCHANGED <<tick, managed, engine, wanted>>
  BY DEF GetCloud
<1>2. CASE Valid(managed[s])
  <2>1. got' = [got EXCEPT ![c] = managed[s]] /\ callAt' = [callAt EXCEPT ![c] = "answer"]
    BY <1>2 DEF GetCloud, CallGoes
  <2>2. managed[s] \in Credentials /\ managed[s] # NoCredential /\ tick < managed[s].expires
    BY <1>2 DEF Valid, CloudTypeOK
  <2>3. CloudTypeOK'
    BY <1>1, <2>1, <2>2 DEF CloudTypeOK, Wants
  <2>4. /\ \A d \in CloudCalls \ {c} : callAt'[d] = callAt[d] /\ want'[d] = want[d] /\ got'[d] = got[d]
        /\ callAt'[c] = "answer" /\ got'[c] = managed[s] /\ want'[c].service = s /\ want'[c].on = tick
    BY <1>1, <2>1 DEF CloudTypeOK
  <2> DEFINE a == managed[s].config.id
             last == wanted[s][a]
  <2>5. last # 0 /\ managed[s].expires <= last + Longest /\ last \in Nat /\ a \in Accounts
    BY <2>2, InputKey DEF WithinLifetimes, CloudTypeOK, Credentials
  <2>6. tick <= last + Longest
    BY <2>2, <2>5, LongestLifetime DEF CloudTypeOK, Credentials
  <2>7. WithinLifetime(managed[s])
    <3>1. last <= tick
      BY <2>5 DEF WithinLifetimes
    <3> QED
      BY <2>2, <2>5, <3>1, LongestLifetime DEF WithinLifetime, CloudTypeOK, Credentials
  <2>8. RightAccount' /\ WithinLifetimes'
    BY <1>1, <2>4, <2>7 DEF RightAccount, WithinLifetimes, WithinLifetime
  <2>9. AccountHonoured'
    BY ZenonT(40), <1>1, <2>4, <2>5, <2>6 DEF AccountHonoured
  <2> QED
    BY <2>3, <2>8, <2>9
<1>3. CASE ~Valid(managed[s])
  <2>1. PICK to \in {"static", "engine"} : callAt' = [callAt EXCEPT ![c] = to] /\ UNCHANGED got
    BY <1>3 DEF GetCloud, CallGoes, PathOf
  <2>2. CloudTypeOK'
    BY <1>1, <2>1 DEF CloudTypeOK, Wants
  <2>3. /\ \A d \in CloudCalls \ {c} : callAt'[d] = callAt[d] /\ want'[d] = want[d] /\ got'[d] = got[d]
        /\ callAt'[c] = to
    BY <1>1, <2>1 DEF CloudTypeOK
  <2>4. WithinLifetime(got'[c])
    BY <2>1 DEF WithinLifetimes
  <2> QED
    BY <1>1, <2>2, <2>3, <2>4, CloudCallMoves
<1> QED
  BY <1>2, <1>3

LEMMA GenerateStaticInv ==
  ASSUME CloudIInv, NEW c \in CloudCalls, GenerateStatic(c)
  PROVE  CloudIInv'
<1>1. PICK answer \in Static(want[c].config) : Generated(c, answer)
  BY DEF GenerateStatic
<1>2. want[c] \in Wants /\ want[c].config \in CloudConfigs /\ tick \in 1 .. LastTick
  BY DEF GenerateStatic, CloudIInv, CloudTypeOK, Wants
<1>3. \/ answer = NoCredential
      \/ answer \in Credentials /\ WithinLifetime(answer) /\ answer.config.id = want[c].config.id
  BY <1>2, ProviderAnswers DEF WithinLifetime
<1>4. UNCHANGED <<tick, managed, engine, wanted>>
  BY DEF GenerateStatic
<1> QED
  BY <1>1, <1>2, <1>3, <1>4, GeneratedInv

LEMMA EngineHitInv ==
  ASSUME CloudIInv, NEW c \in CloudCalls, EngineHit(c)
  PROVE  CloudIInv'
<1> USE DEF CloudIInv
<1>1. /\ want[c] \in Wants /\ want[c].config \in CloudConfigs
      /\ UNCHANGED <<tick, managed, engine, wanted>>
  BY DEF EngineHit, CloudTypeOK, Wants
<1>2. Input(want[c].config).key = want[c].config.id /\ want[c].config.id \in EngineKeys
  BY <1>1, InputKey
<1> DEFINE k == want[c].config.id
<1>3. CASE CallEnds(c)
  <2>1. CASE NoCredential = NoCredential
    <3>1. Generated(c, NoCredential)
      BY <1>3 DEF Generated
    <3> QED
      BY <1>1, <3>1, GeneratedInv
  <2> QED
    BY <2>1
<1>4. CASE Unexpired(engine[k]) /\ Generated(c, engine[k])
  <2>1. engine[k] \in Credentials /\ WithinLifetime(engine[k]) /\ engine[k].config.id = k
    BY <1>2, <1>4 DEF Unexpired, CloudTypeOK, WithinLifetimes, RightAccount
  <2> QED
    BY <1>1, <1>4, <2>1, GeneratedInv
<1>5. CASE CallGoes(c, "exchange") /\ UNCHANGED <<want, got>>
  <2>1. CloudTypeOK'
    BY <1>1, <1>5 DEF CallGoes, CloudTypeOK
  <2>2. /\ \A d \in CloudCalls \ {c} : callAt'[d] = callAt[d] /\ want'[d] = want[d] /\ got'[d] = got[d]
        /\ callAt'[c] = "exchange"
    BY <1>5 DEF CallGoes, CloudTypeOK
  <2>3. WithinLifetime(got'[c])
    BY <1>5 DEF WithinLifetimes
  <2> QED
    BY <1>1, <2>1, <2>2, <2>3, CloudCallMoves
<1> QED
  BY <1>2, <1>3, <1>4, <1>5 DEF EngineHit

LEMMA ExchangeInv ==
  ASSUME CloudIInv, NEW c \in CloudCalls, Exchange(c)
  PROVE  CloudIInv'
<1> DEFINE f == want[c].config
<1>1. PICK answer \in Exchanged(f) :
        /\ Generated(c, answer)
        /\ engine' = IF answer = NoCredential THEN engine
                     ELSE [engine EXCEPT ![Input(f).key] = answer]
  BY DEF Exchange
<1>2. want[c] \in Wants /\ f \in CloudConfigs /\ tick \in 1 .. LastTick
      /\ UNCHANGED <<tick, managed, wanted>>
  BY DEF Exchange, CloudIInv, CloudTypeOK, Wants
<1>3. \/ answer = NoCredential
      \/ answer \in Credentials /\ WithinLifetime(answer) /\ answer.config.id = f.id
  BY <1>2, ProviderAnswers DEF WithinLifetime
<1>4. Input(f).key = f.id
  BY <1>2, InputKey
<1> QED
  BY <1>1, <1>2, <1>3, <1>4, GeneratedInv

LEMMA KeepInv ==
  ASSUME CloudIInv, NEW c \in CloudCalls, Keep(c)
  PROVE  CloudIInv'
<1> USE DEF CloudIInv
<1> DEFINE s == want[c].service
           a == want[c].config.id
<1>1. /\ callAt[c] = "keep" /\ callAt' = [callAt EXCEPT ![c] = "answer"]
      /\ want' = [want EXCEPT ![c] = [want[c] EXCEPT !.on = tick]]
      /\ managed' = [managed EXCEPT ![s] = got[c]]
      /\ wanted' = [wanted EXCEPT ![s] = [wanted[s] EXCEPT ![a] = tick]]
      /\ UNCHANGED <<tick, engine, got>>
  BY DEF Keep, CallGoes
<1>2. /\ want[c] \in Wants /\ got[c] \in Credentials /\ s \in CloudServices
      /\ a \in Accounts /\ got[c].config.id = a /\ WithinLifetime(got[c]) /\ tick \in 1 .. LastTick
  BY <1>1, InputKey DEF CloudTypeOK, RightAccount, WithinLifetimes, Wants
<1>3. [want[c] EXCEPT !.on = tick] \in Wants /\ [want[c] EXCEPT !.on = tick].config = want[c].config
      /\ [want[c] EXCEPT !.on = tick].service = s
  BY <1>2 DEF Wants
<1>4. [wanted[s] EXCEPT ![a] = tick] \in [Accounts -> 0 .. LastTick]
  BY <1>2 DEF CloudTypeOK
<1>5. CloudTypeOK'
  BY <1>1, <1>2, <1>3, <1>4 DEF CloudTypeOK
<1>6. /\ \A d \in CloudCalls \ {c} : callAt'[d] = callAt[d] /\ want'[d] = want[d]
      /\ callAt'[c] = "answer" /\ want'[c].config.id = a
  BY <1>1, <1>3 DEF CloudTypeOK
<1>7. RightAccount'
  BY <1>1, <1>6 DEF RightAccount
\* What was asked for was asked for at that time or later.
<1>8. \A r \in CloudServices, b \in Accounts :
        /\ wanted[r][b] \in Nat /\ wanted'[r][b] \in Nat /\ wanted[r][b] <= wanted'[r][b]
        /\ wanted[r][b] # 0 => wanted'[r][b] # 0
  <2> SUFFICES ASSUME NEW r \in CloudServices, NEW b \in Accounts
               PROVE  /\ wanted[r][b] \in Nat /\ wanted'[r][b] \in Nat /\ wanted[r][b] <= wanted'[r][b]
                      /\ wanted[r][b] # 0 => wanted'[r][b] # 0
    OBVIOUS
  <2>1. wanted[r][b] \in 0 .. LastTick /\ wanted[r][b] <= LastTick
    BY DEF CloudTypeOK
  <2>2. wanted'[r][b] = wanted[r][b] \/ wanted'[r][b] = tick
    BY <1>1, <1>2 DEF CloudTypeOK
  <2>3. wanted[r][b] <= tick
    BY DEF WithinLifetimes
  <2> QED
    BY <1>2, <2>1, <2>2, <2>3
<1>9. \A r \in CloudServices, b \in Accounts : wanted'[r][b] = wanted[r][b] \/ wanted'[r][b] = tick
  BY <1>1, <1>2 DEF CloudTypeOK
<1>10. WithinLifetimes'
  <2>1. \A k \in EngineKeys : WithinLifetime(engine[k])'
    BY <1>1 DEF WithinLifetimes, WithinLifetime
  <2>2. \A d \in CloudCalls : WithinLifetime(got[d])'
    BY <1>1 DEF WithinLifetimes, WithinLifetime
  <2>3. \A r \in CloudServices, b \in Accounts : wanted'[r][b] <= tick'
    BY <1>1, <1>2, <1>9 DEF WithinLifetimes
  <2>4. ASSUME NEW r \in CloudServices, managed'[r] # NoCredential
        PROVE  LET last == wanted'[r][managed'[r].config.id]
               IN  last # 0 /\ managed'[r].expires <= last + Longest
    <3>1. CASE r = s
      <4>1. managed'[r] = got[c] /\ wanted'[r][a] = tick
        BY <1>1, <1>2, <3>1 DEF CloudTypeOK
      <4>2. got[c].expires <= tick + Longest
        BY <2>4, <4>1 DEF WithinLifetimes, WithinLifetime
      <4> QED
        BY <1>2, <4>1, <4>2
    <3>2. CASE r # s
      <4>1. managed'[r] = managed[r] /\ managed[r] \in Credentials
            /\ managed[r].config.id \in Accounts
        BY <1>1, <2>4, <3>2, InputKey DEF CloudTypeOK, Credentials
      <4> DEFINE b == managed[r].config.id
      <4>2. wanted[r][b] # 0 /\ managed[r].expires <= wanted[r][b] + Longest
        BY <2>4, <4>1 DEF WithinLifetimes
      <4>3. managed[r].expires \in Nat /\ Longest \in Nat
        BY <4>1, LongestLifetime, CloudAssumption DEF Credentials
      <4>4. wanted'[r][b] # 0 /\ managed[r].expires <= wanted'[r][b] + Longest
        BY <1>8, <4>1, <4>2, <4>3
      <4> QED
        BY <4>1, <4>4
    <3> QED
      BY <3>1, <3>2
  <2> QED
    BY <2>1, <2>2, <2>3, <2>4 DEF WithinLifetimes
<1>11. AccountHonoured'
  <2> SUFFICES ASSUME NEW d \in CloudCalls, callAt'[d] = "answer", got'[d].config.id # want'[d].config.id
               PROVE  LET last == wanted'[want'[d].service][got'[d].config.id]
                      IN  last # 0 /\ want'[d].on <= last + Longest
    BY DEF AccountHonoured
  <2>1. d # c
    BY <1>1, <1>2, <1>6
  <2>2. callAt[d] = "answer" /\ want'[d] = want[d] /\ got'[d] = got[d]
        /\ want[d] \in Wants /\ got[d] \in Credentials
    BY <1>1, <1>6, <2>1 DEF CloudTypeOK
  <2> DEFINE r == want[d].service
             b == got[d].config.id
  <2>3. r \in CloudServices /\ b \in Accounts /\ want[d].on \in Nat
    BY <2>2, InputKey DEF Wants, Credentials
  <2>4. wanted[r][b] # 0 /\ want[d].on <= wanted[r][b] + Longest
    BY <2>2 DEF AccountHonoured
  <2>5. wanted'[r][b] # 0 /\ want[d].on <= wanted'[r][b] + Longest
    BY <1>8, <2>3, <2>4, LongestLifetime
  <2> QED
    BY <2>2, <2>5
<1> QED
  BY <1>5, <1>7, <1>10, <1>11

LEMMA AnswerInv ==
  ASSUME CloudIInv, NEW c \in CloudCalls, Answer(c)
  PROVE  CloudIInv'
<1>1. CallEnds(c) /\ UNCHANGED <<tick, managed, engine, wanted>>
  BY DEF Answer
<1>2. Generated(c, NoCredential)
  BY <1>1 DEF Generated
<1>3. want[c] \in Wants
  BY DEF Answer, CloudIInv, CloudTypeOK
<1> QED
  BY <1>1, <1>2, <1>3, GeneratedInv

\* What happens to the caches without a call, and the clock.
LEMMA CacheStepInv ==
  ASSUME CloudIInv,
         \/ \E s \in CloudServices : InvalidateCache(s)
         \/ \E k \in EngineKeys : Refresh(k)
         \/ CloudTick
  PROVE  CloudIInv'
<1> USE DEF CloudIInv
<1>1. UNCHANGED <<callAt, want, got, wanted>>
  BY DEF InvalidateCache, Refresh, CloudTick
<1>2. AccountHonoured'
  BY <1>1 DEF AccountHonoured
<1>3. ASSUME NEW s \in CloudServices, InvalidateCache(s) PROVE CloudIInv'
  <2>1. managed' = [managed EXCEPT ![s] = NoCredential] /\ UNCHANGED <<tick, engine>>
    BY <1>3 DEF InvalidateCache
  <2>2. CloudTypeOK'
    BY <1>1, <2>1 DEF CloudTypeOK
  <2>3. RightAccount' /\ WithinLifetimes'
    BY <1>1, <2>1 DEF RightAccount, WithinLifetimes, WithinLifetime, CloudTypeOK
  <2> QED
    BY <1>2, <2>2, <2>3
<1>4. ASSUME NEW k \in EngineKeys, Refresh(k) PROVE CloudIInv'
  <2>1. PICK answer \in Exchanged(engine[k].config) : engine' = [engine EXCEPT ![k] = answer]
    BY <1>4 DEF Refresh
  <2>2. engine[k] \in Credentials /\ engine[k].config \in CloudConfigs /\ engine[k].config.id = k
        /\ UNCHANGED <<tick, managed>>
    BY <1>4 DEF Refresh, CloudTypeOK, Credentials, RightAccount
  <2>3. \/ answer = NoCredential
        \/ answer \in Credentials /\ WithinLifetime(answer) /\ answer.config.id = k
    BY <2>2, ProviderAnswers DEF WithinLifetime, CloudTypeOK
  <2>4. CloudTypeOK'
    BY <1>1, <2>1, <2>2, <2>3 DEF CloudTypeOK
  <2>5. RightAccount' /\ WithinLifetimes'
    BY <1>1, <2>1, <2>2, <2>3 DEF RightAccount, WithinLifetimes, WithinLifetime, CloudTypeOK
  <2> QED
    BY <1>2, <2>4, <2>5
<1>5. CASE CloudTick
  <2>1. tick' = tick + 1 /\ tick < LastTick /\ UNCHANGED <<managed, engine>> /\ tick \in Nat /\ LastTick \in Nat
    BY <1>5, CloudAssumption DEF CloudTick, CloudTypeOK
  <2>2. CloudTypeOK'
    BY <1>1, <2>1 DEF CloudTypeOK
  <2>3. RightAccount'
    BY <1>1, <2>1 DEF RightAccount
  <2>4. ASSUME NEW e \in Credentials \cup {NoCredential}, WithinLifetime(e) PROVE WithinLifetime(e)'
    <3>1. e # NoCredential => e.expires \in Nat /\ Longest \in Nat
      BY <2>1, LongestLifetime DEF Credentials
    <3> QED
      BY <2>1, <2>4, <3>1 DEF WithinLifetime
  <2>5. WithinLifetimes'
    <3>1. \A s \in CloudServices, a \in Accounts : wanted[s][a] \in Nat
      BY DEF CloudTypeOK
    <3>2. \A s \in CloudServices, a \in Accounts : wanted'[s][a] <= tick'
      BY <1>1, <2>1, <3>1 DEF WithinLifetimes
    <3> QED
      BY <1>1, <2>1, <2>4, <3>2 DEF WithinLifetimes, CloudTypeOK
  <2> QED
    BY <1>2, <2>2, <2>3, <2>5
<1> QED
  BY <1>3, <1>4, <1>5

LEMMA CloudStepInv == CloudIInv /\ [CloudNext]_cloudVars => CloudIInv'
<1> SUFFICES ASSUME CloudIInv, [CloudNext]_cloudVars PROVE CloudIInv'
  OBVIOUS
<1>1. ASSUME NEW c \in CloudCalls, NEW s \in CloudServices, NEW f \in CloudConfigs, GetCloud(c, s, f)
      PROVE  CloudIInv'
  BY <1>1, GetCloudInv
<1>2. ASSUME NEW c \in CloudCalls,
             GenerateStatic(c) \/ EngineHit(c) \/ Exchange(c) \/ Keep(c) \/ Answer(c)
      PROVE  CloudIInv'
  BY <1>2, GenerateStaticInv, EngineHitInv, ExchangeInv, KeepInv, AnswerInv
<1>3. CASE UNCHANGED cloudVars
  BY <1>3 DEF cloudVars, CloudIInv, CloudTypeOK, RightAccount, WithinLifetimes, WithinLifetime, AccountHonoured
<1> QED
  BY <1>1, <1>2, <1>3, CacheStepInv DEF CloudNext

LEMMA CloudInvariance == CloudSpec => []CloudIInv
BY CloudInitInv, CloudStepInv, PTL DEF CloudSpec

\* Both caches and the calls keep their types (Manager, Engine).
THEOREM CloudTypeCorrectness == CloudSpec => []CloudTypeOK
<1>1. CloudIInv => CloudTypeOK
  BY DEF CloudIInv
<1> QED
  BY <1>1, CloudInvariance, PTL

\* Whatever calls, reconfigurations and refreshes run at the same time: a call gets the
\* account it asked for, or one asked for less than a lifetime ago (GetCredentials).
THEOREM AccountHonouredHolds == CloudSpec => []AccountHonoured
<1>1. CloudIInv => AccountHonoured
  BY DEF CloudIInv
<1> QED
  BY <1>1, CloudInvariance, PTL

=============================================================================
