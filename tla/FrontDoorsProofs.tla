--------------------------- MODULE FrontDoorsProofs ---------------------------
(***************************************************************************)
(* The components of MCFrontDoors share no variable, so that a behaviour   *)
(* of all of them is a behaviour of each, and what is proved of each holds *)
(* of the model that is checked, for every value of its constants.         *)
(***************************************************************************)
EXTENDS MCFrontDoors, InboundProofs, OutboundProofs, RegistryProofs

\* Whichever component runs, the others stand still.
LEMMA EachDoor ==
  DoorSpec => /\ AuditSpec /\ McpSpec /\ ToolSpec /\ EgressSpec
              /\ FlowSpec /\ CloudSpec /\ ProxySpec
<1>1. DoorSpec => AuditSpec
  <2>1. DoorInit => AuditInit
    BY DEF DoorInit
  <2>2. [DoorNext]_doorVars => [AuditNext]_auditVars
    BY DEF DoorNext, doorVars
  <2> QED
    BY <2>1, <2>2, PTL DEF DoorSpec, AuditSpec
<1>2. DoorSpec => McpSpec
  <2>1. DoorInit => McpInit
    BY DEF DoorInit
  <2>2. [DoorNext]_doorVars => [McpNext]_mcpVars
    BY DEF DoorNext, doorVars
  <2> QED
    BY <2>1, <2>2, PTL DEF DoorSpec, McpSpec
<1>3. DoorSpec => ToolSpec
  <2>1. DoorInit => ToolInit
    BY DEF DoorInit
  <2>2. [DoorNext]_doorVars => [ToolNext]_toolVars
    BY DEF DoorNext, doorVars
  <2> QED
    BY <2>1, <2>2, PTL DEF DoorSpec, ToolSpec
<1>4. DoorSpec => EgressSpec
  <2>1. DoorInit => EgressInit
    BY DEF DoorInit
  <2>2. [DoorNext]_doorVars => [EgressNext]_egressVars
    BY DEF DoorNext, doorVars
  <2> QED
    BY <2>1, <2>2, PTL DEF DoorSpec, EgressSpec
<1>5. DoorSpec => FlowSpec
  <2>1. DoorInit => FlowInit
    BY DEF DoorInit
  <2>2. [DoorNext]_doorVars => [FlowNext]_flowVars
    BY DEF DoorNext, doorVars
  <2> QED
    BY <2>1, <2>2, PTL DEF DoorSpec, FlowSpec
<1>6. DoorSpec => CloudSpec
  <2>1. DoorInit => CloudInit
    BY DEF DoorInit
  <2>2. [DoorNext]_doorVars => [CloudNext]_cloudVars
    BY DEF DoorNext, doorVars
  <2> QED
    BY <2>1, <2>2, PTL DEF DoorSpec, CloudSpec
<1>7. DoorSpec => ProxySpec
  <2>1. DoorInit => ProxyInit
    BY DEF DoorInit
  <2>2. [DoorNext]_doorVars => [ProxyNext]_allVars
    BY DEF DoorNext, doorVars
  <2> QED
    BY <2>1, <2>2, PTL DEF DoorSpec, ProxySpec
<1> QED
  BY <1>1, <1>2, <1>3, <1>4, <1>5, <1>6, <1>7

LEMMA DoorIsKnown == DoorSpec => [](door \in Doors)
<1>1. DoorInit => door \in Doors
  BY DEF DoorInit
<1>2. door \in Doors /\ [DoorNext]_doorVars => (door \in Doors)'
  BY DEF DoorNext, doorVars
<1> QED
  BY <1>1, <1>2, PTL DEF DoorSpec

\* In the model of everything between a client and a credential, every state of the
\* component that runs is well-typed.
THEOREM DoorTypeCorrectness == DoorSpec => []DoorTypeOK
<1>1. DoorSpec => []/\ AuditTypeOK /\ McpTypeOK /\ ToolTypeOK /\ EgressTypeOK
                     /\ FlowTypeOK /\ CloudTypeOK /\ ProxyTypeOK
  BY EachDoor, AuditTypeCorrectness, McpTypeCorrectness, ToolTypeCorrectness,
     EgressTypeCorrectness, FlowTypeCorrectness, CloudTypeCorrectness, ProxyTypeCorrectness, PTL
<1>2. door \in Doors /\ AuditTypeOK /\ McpTypeOK /\ ToolTypeOK /\ EgressTypeOK
      /\ FlowTypeOK /\ CloudTypeOK /\ ProxyTypeOK => DoorTypeOK
  BY DEF DoorTypeOK
<1> QED
  BY <1>1, <1>2, DoorIsKnown, PTL

\* What the run of MCFrontDoors checks on a small instance holds of its specification for
\* every number of clients, sessions, services and accounts and every size and bound.
THEOREM FrontDoorsHold ==
  DoorSpec => /\ [](CloseFlushes /\ QueriesSeeNewest)
              /\ IsLossyLog
              /\ [](CapHonoured /\ IdleBounded)
              /\ [](PolicyHonoured /\ ExecGated)
              /\ []DeniedIsAllowed
              /\ []StateUsedOnce
              /\ []AccountHonoured
              /\ []StalenessBounded
<1>1. DoorSpec => [](CloseFlushes /\ QueriesSeeNewest) /\ IsLossyLog
  BY EachDoor, CloseFlushesHolds, QueriesSeeNewestHolds, AuditImplementsLossyLog, PTL
<1>2. DoorSpec => [](CapHonoured /\ IdleBounded)
  BY EachDoor, CapHonouredHolds, IdleBoundedHolds, PTL
<1>3. DoorSpec => [](PolicyHonoured /\ ExecGated) /\ []DeniedIsAllowed
  BY EachDoor, PolicyHonouredHolds, ExecGatedHolds, DeniedIsAllowedHolds, PTL
<1>4. DoorSpec => []StateUsedOnce /\ []AccountHonoured /\ []StalenessBounded
  BY EachDoor, StateUsedOnceHolds, AccountHonouredHolds, StalenessBoundedHolds, PTL
<1> QED
  BY <1>1, <1>2, <1>3, <1>4

=============================================================================
