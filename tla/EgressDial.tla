----------------------------- MODULE EgressDial -----------------------------
(***************************************************************************)
(* The egress guard in its two places.  The proxy checks addresses inside  *)
(* the DialContext of its transport, on what it connects to; the command   *)
(* wrapper checks the hosts of a command line before it starts a child.    *)
(*                                                                         *)
(* All services share one transport.  A request of the proxy waits for a   *)
(* connection to its host and gets the first there is: its own dial's, or  *)
(* one that another request, perhaps of another service, has opened.  The  *)
(* answers of the name server change at any time, also between two looks.  *)
(***************************************************************************)
EXTENDS Naturals, Sequences, FiniteSets

CONSTANTS
  Outgoing,     \* requests of the proxy and commands of the wrapper
  Hosts,        \* host names
  Addresses,    \* IP addresses, unmapped
  Denied,       \* those in a network of the denylist
  Loopback,     \* those that are loopback
  EgressRules,  \* EgressPolicy of the services: hosts, ranges, loopback
  Answers,      \* what the name server may answer: sequences of addresses
  NameChanges   \* bound on the changes of its answers

ASSUME EgressAssumption ==
  /\ Hosts # {}
  /\ Loopback \subseteq Denied /\ Denied \subseteq Addresses
  /\ \A pol \in EgressRules : /\ pol.hosts \subseteq Hosts
                              /\ pol.ranges \subseteq Addresses
                              /\ pol.loopback \in BOOLEAN
  /\ Answers \subseteq Seq(Addresses)
  /\ NameChanges \in Nat

VARIABLES
  names,   \* the name server: host -> answer
  moves,
  outAt,   \* what a request or command does next
  out,     \* its host and the egress policy of its service
  dial,    \* the dial of a request: the addresses it has resolved and not yet checked,
           \* or the one that it has pinned
  conns,   \* open connections of the transport: host, address
  over,    \* the connection that a request is on
  rules    \* history: host -> the policies of the requests that asked for it

egressVars == <<names, moves, outAt, out, dial, conns, over, rules>>

NoRule == [hosts |-> {}, ranges |-> {}, loopback |-> FALSE]
Unasked == [host |-> CHOOSE h \in Hosts : TRUE, rule |-> NoRule]
NoDial == [stage |-> "none", ips |-> <<>>]

Conns == [host : Hosts, address : Addresses]

EgressTypeOK ==
  /\ names \in [Hosts -> Answers]
  /\ moves \in 0 .. NameChanges
  /\ outAt \in [Outgoing -> {"idle", "wait", "sent", "child", "done"}]
  /\ out \in [Outgoing -> [host : Hosts, rule : EgressRules \cup {NoRule}]]
  /\ dial \in [Outgoing -> [stage : {"none", "resolve", "check", "connect"}, ips : Seq(Addresses)]]
  /\ conns \subseteq Conns
  /\ over \in [Outgoing -> Conns \cup {NoDial}]
  /\ rules \in [Hosts -> SUBSET EgressRules]

EgressInit ==
  /\ names \in [Hosts -> Answers]
  /\ moves = 0
  /\ outAt = [r \in Outgoing |-> "idle"]
  /\ out = [r \in Outgoing |-> Unasked]
  /\ dial = [r \in Outgoing |-> NoDial]
  /\ conns = {}
  /\ over = [r \in Outgoing |-> NoDial]
  /\ rules = [h \in Hosts |-> {}]

OutGoes(r, to) == outAt' = [outAt EXCEPT ![r] = to]

-----------------------------------------------------------------------------
(* Guard *)

\* CheckIP: the allowances of the policy come before the denylist.
CheckIP(ip, pol) ==
  \/ pol.loopback /\ ip \in Loopback
  \/ ip \in pol.ranges
  \/ ip \notin Denied

\* CheckHost: an allowed host is not resolved; a host that cannot be resolved is denied.
CheckHost(host, answer, pol) ==
  \/ host \in pol.hosts
  \/ /\ answer # <<>>
     /\ \A i \in DOMAIN answer : CheckIP(answer[i], pol)

-----------------------------------------------------------------------------
(* The proxy *)

\* The transport starts a dial for a request, unless there is a connection that it can
\* use at once.
WaitFor(r, host, pol) ==
  /\ out' = [out EXCEPT ![r] = [host |-> host, rule |-> pol]]
  /\ rules' = [rules EXCEPT ![host] = @ \cup {pol}]
  /\ OutGoes(r, "wait")
  /\ \/ dial' = [dial EXCEPT ![r] = [NoDial EXCEPT !.stage = "resolve"]]
     \/ /\ \E k \in conns : k.host = host
        /\ dial' = [dial EXCEPT ![r] = NoDial]

\* HandleAPICall puts the egress policy of the service into the context; client.Do.
SendOut(r, host, pol) ==
  /\ outAt[r] = "idle"
  /\ WaitFor(r, host, pol)
  /\ UNCHANGED <<names, moves, conns, over>>

\* DialContext: all the addresses of the host.  No answer is an error.
Resolve(r) ==
  /\ dial[r].stage = "resolve"
  /\ dial' = [dial EXCEPT ![r] =
       IF names[out[r].host] = <<>> THEN NoDial
       ELSE [stage |-> "check", ips |-> names[out[r].host]]]
  /\ OutGoes(r, IF names[out[r].host] = <<>> /\ outAt[r] = "wait" THEN "done" ELSE outAt[r])
  /\ UNCHANGED <<names, moves, out, conns, over, rules>>

\* Each of them is checked, unless the host is allowed by its name.  The first is kept.
Vet(r) ==
  LET d == dial[r]
      good == CheckHost(out[r].host, d.ips, out[r].rule)
  IN
  /\ d.stage = "check"
  /\ dial' = [dial EXCEPT ![r] =
       IF good THEN [stage |-> "connect", ips |-> <<Head(d.ips)>>] ELSE NoDial]
  /\ OutGoes(r, IF ~good /\ outAt[r] = "wait" THEN "done" ELSE outAt[r])
  /\ UNCHANGED <<names, moves, out, conns, over, rules>>

\* Mutation of Connect: the dialer is given the name.
ConnectByName(r) ==
  /\ dial[r].stage = "connect"
  /\ dial' = [dial EXCEPT ![r] = NoDial]
  /\ names[out[r].host] # <<>>
  /\ conns' = conns \cup {[host |-> out[r].host, address |-> Head(names[out[r].host])]}
  /\ UNCHANGED <<names, moves, outAt, out, over, rules>>

\* The dialer connects to the pinned address, or it cannot.
Connect(r) ==
  /\ dial[r].stage = "connect"
  /\ dial' = [dial EXCEPT ![r] = NoDial]
  /\ \/ /\ conns' = conns \cup {[host |-> out[r].host, address |-> Head(dial[r].ips)]}
        /\ UNCHANGED outAt
     \/ /\ OutGoes(r, IF outAt[r] = "wait" THEN "done" ELSE outAt[r])
        /\ UNCHANGED conns
  /\ UNCHANGED <<names, moves, out, over, rules>>

\* The request goes out on a connection to its host, while its own dial may go on.
Ride(r) ==
  /\ outAt[r] = "wait"
  /\ \E k \in conns : k.host = out[r].host /\ over' = [over EXCEPT ![r] = k]
  /\ OutGoes(r, "sent")
  /\ UNCHANGED <<names, moves, out, dial, conns, rules>>

\* The upstream redirects, and the client follows with the same context.
Redirect(r, host) ==
  /\ outAt[r] = "sent"
  /\ dial[r] = NoDial
  /\ host # out[r].host
  /\ WaitFor(r, host, out[r].rule)
  /\ UNCHANGED <<names, moves, conns, over>>

Arrived(r) ==
  /\ outAt[r] = "sent"
  /\ OutGoes(r, "done")
  /\ UNCHANGED <<names, moves, out, dial, conns, over, rules>>

\* A connection is closed by either end.  A request that waits for it to be free, and
\* has no dial, dials.
CloseConn(k) ==
  /\ k \in conns
  /\ conns' = conns \ {k}
  /\ dial' = [r \in Outgoing |->
       IF outAt[r] = "wait" /\ dial[r] = NoDial /\ ~\E j \in conns' : j.host = out[r].host
       THEN [NoDial EXCEPT !.stage = "resolve"] ELSE dial[r]]
  /\ UNCHANGED <<names, moves, outAt, out, over, rules>>

-----------------------------------------------------------------------------
(* The command wrapper *)

\* checkEgressPreflight looks at the hosts of the arguments once; the sockets of the
\* child are its own.
Preflight(r, host, pol) ==
  /\ outAt[r] = "idle"
  /\ OutGoes(r, IF CheckHost(host, names[host], pol) THEN "child" ELSE "done")
  /\ UNCHANGED <<names, moves, out, dial, conns, over, rules>>

-----------------------------------------------------------------------------

\* The owner of a host changes its addresses, or the name server fails.
Move(host) ==
  /\ moves < NameChanges
  /\ moves' = moves + 1
  /\ \E answer \in Answers \ {names[host]} : names' = [names EXCEPT ![host] = answer]
  /\ UNCHANGED <<outAt, out, dial, conns, over, rules>>

EgressNext ==
  \/ \E r \in Outgoing :
       \/ \E h \in Hosts : \/ \E pol \in EgressRules : SendOut(r, h, pol) \/ Preflight(r, h, pol)
                           \/ Redirect(r, h)
       \/ Resolve(r)
       \/ Vet(r)
       \/ Connect(r)
       \/ Ride(r)
       \/ Arrived(r)
  \/ \E k \in conns : CloseConn(k)
  \/ \E h \in Hosts : Move(h)

EgressSpec == EgressInit /\ [][EgressNext]_egressVars

-----------------------------------------------------------------------------
(* Properties *)

\* A request of the proxy reaches an address of the denylist only if the address, or
\* the host by name, is allowed by the policy of a request that asked for that host,
\* however the answers of the name server change and whoever opened the connection.
DeniedIsAllowed ==
  \A r \in Outgoing : outAt[r] = "sent" =>
    /\ over[r].host = out[r].host
    /\ over[r].address \in Denied =>
         \E pol \in rules[over[r].host] :
           over[r].host \in pol.hosts \/ CheckIP(over[r].address, pol)

=============================================================================
