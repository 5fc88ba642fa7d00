---------------------------- MODULE MCFrontDoors ----------------------------
(***************************************************************************)
(* What stands between a client and a credential, in one model: the        *)
(* sessions of the remote endpoint, the tool calls, the proxy over the     *)
(* registry, the dials of the proxy, the OAuth flows, the cloud credentials *)
(* and the audit log.                                                      *)
(* What one needs of another is modelled in each of them, so they share no *)
(* variable: one runs in each behaviour, and which is chosen at the start. *)
(***************************************************************************)
EXTENDS AuditLog, McpSessions, ToolCalls, EgressDial, OAuthFlow, CloudCredentials, ProxyCalls,
        TLC

CONSTANTS Pair, OtherPair   \* the sets of model values that TLC may permute

VARIABLE door   \* the component that runs

doorVars == <<door, auditVars, mcpVars, toolVars, egressVars, flowVars, cloudVars, allVars>>

Doors == {"audit", "mcp", "tools", "egress", "oauth", "cloud", "proxy"}

DoorInit ==
  /\ door \in Doors
  /\ AuditInit
  /\ McpInit
  /\ ToolInit
  /\ door # "tools" => /\ service = CHOOSE e \in Configs : TRUE
                       /\ \A c \in Callers : req[c] = CHOOSE q \in Asked : TRUE
  /\ EgressInit
  /\ names["h2"] = <<"public">>
  /\ door # "egress" => names["h1"] = <<"public">>
  /\ FlowInit
  /\ CloudInit
  /\ ProxyInit

DoorNext ==
  \/ /\ door = "audit" /\ AuditNext
     /\ UNCHANGED <<door, mcpVars, toolVars, egressVars, flowVars, cloudVars, allVars>>
  \/ /\ door = "mcp" /\ McpNext
     /\ UNCHANGED <<door, auditVars, toolVars, egressVars, flowVars, cloudVars, allVars>>
  \/ /\ door = "tools" /\ ToolNext
     /\ UNCHANGED <<door, auditVars, mcpVars, egressVars, flowVars, cloudVars, allVars>>
  \/ /\ door = "egress" /\ EgressNext
     /\ UNCHANGED <<door, auditVars, mcpVars, toolVars, flowVars, cloudVars, allVars>>
  \/ /\ door = "oauth" /\ FlowNext
     /\ UNCHANGED <<door, auditVars, mcpVars, toolVars, egressVars, cloudVars, allVars>>
  \/ /\ door = "cloud" /\ CloudNext
     /\ UNCHANGED <<door, auditVars, mcpVars, toolVars, egressVars, flowVars, allVars>>
  \/ /\ door = "proxy" /\ ProxyNext
     /\ UNCHANGED <<door, auditVars, mcpVars, toolVars, egressVars, flowVars, cloudVars>>

DoorSpec == DoorInit /\ [][DoorNext]_doorVars

\* Every state of the component that runs is well-typed.
DoorTypeOK ==
  /\ door \in Doors
  /\ door = "audit" => AuditTypeOK
  /\ door = "mcp" => McpTypeOK
  /\ door = "tools" => ToolTypeOK
  /\ door = "egress" => EgressTypeOK
  /\ door = "oauth" => FlowTypeOK
  /\ door = "cloud" => CloudTypeOK
  /\ door = "proxy" => ProxyTypeOK

\* Sound for safety runs only.
DoorSymmetry == Permutations(Pair) \cup Permutations(OtherPair)

-----------------------------------------------------------------------------
(* Instances *)

Bearer == [shape |-> "jwt", alg |-> "RS256", iss |-> "idp", kid |-> "known",
           signed |-> TRUE, aud |-> {"us"}, exp |-> 2, nbf |-> 0]
SomeBearers == {Bearer}

OnlyHost(l) == [wildcard |-> FALSE, labels |-> <<l>>]
ReadsOfOne == [methods |-> {"GET"}, hosts |-> {OnlyHost("h1")}, paths |-> {}]
OnePath == [methods |-> {}, hosts |-> {[wildcard |-> TRUE, labels |-> <<"h1">>]},
            paths |-> {<<"/", "b">>}]

SomeConfigs ==
  { [policy |-> ReadsOfOne, host |-> <<"h1">>, exec |-> TRUE, commands |-> {"git"},
     credential |-> "k1"],
    [policy |-> ReadsOfOne, host |-> <<"h2">>, exec |-> FALSE, commands |-> {},
     credential |-> "k2"],
    [policy |-> ZeroPolicy, host |-> <<"h2">>, exec |-> FALSE, commands |-> {"aws"},
     credential |-> "k1"],
    [policy |-> OnePath, host |-> <<"api", "h1">>, exec |-> TRUE, commands |-> {"aws"},
     credential |-> "k2"] }

Ask(tool, method, path, command) ==
  [tool |-> tool, method |-> method, path |-> path, command |-> command]
SomeAsked ==
  { Ask("api", NoMethod, <<"/", "a">>, "git"),
    Ask("api", "GET", <<"/", "a", "/", "%2e", ".", "/", "b">>, "git"),
    Ask("api", "POST", <<"/", "a">>, "git"),
    Ask("api", "GET", <<"/", "b", "%2f", "%">>, "git"),
    Ask("exec", NoMethod, <<>>, "git"),
    Ask("exec", "GET", <<"b">>, "aws") }
SomeElsewhere == { [host |-> <<"h2">>, path |-> <<"/", "a">>] }

EgressRule(hosts, loopback) == [hosts |-> hosts, ranges |-> {}, loopback |-> loopback]
SomeEgressRules == {EgressRule({}, FALSE), EgressRule({"h1"}, TRUE)}
SomeAnswers == {<<>>, <<"public">>, <<"loopback", "public">>}

Cloud(what, id, audience, keyless, scope) ==
  [engine |-> what, id |-> id, audience |-> audience, keyless |-> keyless, asks |-> 0,
   allowed |-> TRUE, scope |-> scope]
SomeCloudConfigs ==
  { Cloud("aws", "A", NoAudience, TRUE, "p1"),
    [Cloud("aws", "A", NoAudience, FALSE, "p2") EXCEPT !.asks = 2],
    Cloud("gcp", "pool", "pool", TRUE, "p1"),
    [Cloud("gcp", "pool", "pool", FALSE, "p1") EXCEPT !.allowed = FALSE],
    Cloud("azure", "A", NoAudience, TRUE, "p1") }

=============================================================================
