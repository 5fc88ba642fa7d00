------------------------------ MODULE OAuthFlow ------------------------------
(***************************************************************************)
(* oauth.Handler: how a service gets its first tokens, by the              *)
(* authorization code flow (StartOAuth, Callback) or by the device flow    *)
(* (StartDeviceFlow, PollDeviceFlow), and the client credentials of a      *)
(* provider that both need.  What happens to a token record later, by      *)
(* refreshes, is in OAuthTokens.                                           *)
(*                                                                         *)
(* An authorization is known by its flow, and so are the state token that  *)
(* names it, its code and the access token that it leads to.               *)
(***************************************************************************)
EXTENDS Naturals

CONSTANTS
  Flows,           \* authorizations that users begin
  Replies,         \* requests to the callback and to the poll handler
  FlowNames,       \* service names
  Providers,       \* oauth.Providers
  DeviceProviders, \* those with a DeviceCodeURL
  Nobody,          \* no flow, name, provider or credential
  Typed,           \* a credential that came from the dashboard
  VaultFaults,     \* writes to OpenBao may fail
  StateTTL,        \* stateTokenTTL in ticks
  FlowHorizon      \* bound on the clock

ASSUME FlowAssumption ==
  /\ DeviceProviders \subseteq Providers
  /\ Nobody \notin Flows \cup FlowNames \cup Providers
  /\ Typed \notin Flows \cup {Nobody}
  /\ VaultFaults \in BOOLEAN
  /\ StateTTL \in Nat
  /\ FlowHorizon \in Nat

VARIABLES
  flowClock,
  client,      \* providers with stored client credentials
  flow,        \* what a flow is: browser or device, for which name and provider
  states,      \* StateManager.states: flow -> when its token expires
  codes,       \* flows whose code or device code the provider would redeem
  replyAt,     \* what a reply does next
  reply,       \* the flow and the name it is about
  result,      \* what the user is told
  record,      \* services/<name>/oauth_tokens: the flow its token came from
  registered,  \* the names in the service registry
  credential,  \* services/<name>/credential
  spent,       \* history: exchanges that were tried with a flow's code
  usable       \* history: replies whose token became the credential

flowVars == <<flowClock, client, flow, states, codes, replyAt, reply, result, record,
              registered, credential, spent, usable>>

NoFlow == [kind |-> "none", name |-> Nobody, provider |-> Nobody]
Expired == FlowHorizon + StateTTL + 1   \* not in states: later than any expiry

FlowTypeOK ==
  /\ flowClock \in 0 .. FlowHorizon
  /\ client \in SUBSET Providers
  /\ flow \in [Flows -> [kind : {"none", "browser", "device"}, name : FlowNames \cup {Nobody},
                         provider : Providers \cup {Nobody}]]
  /\ states \in [Flows -> 0 .. Expired]
  /\ codes \in SUBSET Flows
  /\ replyAt \in [Replies -> {"idle", "exchange", "write", "find", "create", "update", "done"}]
  /\ reply \in [Replies -> [flow : Flows \cup {Nobody}, name : FlowNames \cup {Nobody}]]
  /\ result \in [Replies -> {"none", "error", "pending", "expired", "success"}]
  /\ record \in [FlowNames -> Flows \cup {Nobody}]
  /\ registered \in SUBSET FlowNames
  /\ credential \in [FlowNames -> Flows \cup {Nobody, Typed}]
  /\ spent \in [Flows -> Nat]
  /\ usable \in SUBSET Replies

FlowInit ==
  /\ flowClock = 0
  /\ client = {}
  /\ flow = [f \in Flows |-> NoFlow]
  /\ states = [f \in Flows |-> Expired]
  /\ codes = {}
  /\ replyAt = [r \in Replies |-> "idle"]
  /\ reply = [r \in Replies |-> [flow |-> Nobody, name |-> Nobody]]
  /\ result = [r \in Replies |-> "none"]
  /\ record = [n \in FlowNames |-> Nobody]
  /\ registered = {}
  /\ credential = [n \in FlowNames |-> Nobody]
  /\ spent = [f \in Flows |-> 0]
  /\ usable = {}

serviceVars == <<record, registered, credential>>
replyVars == <<replyAt, reply, result>>
flowHistory == <<spent, usable>>

-----------------------------------------------------------------------------
(* SaveOAuthConfig, DeleteOAuthConfig, StartOAuth, StartDeviceFlow *)

SaveOAuthConfig(p) ==
  /\ p \notin client
  /\ client' = client \cup {p}
  /\ UNCHANGED <<flowClock, flow, states, codes, replyVars, serviceVars, flowHistory>>

DeleteOAuthConfig(p) ==
  /\ p \in client
  /\ client' = client \ {p}
  /\ UNCHANGED <<flowClock, flow, states, codes, replyVars, serviceVars, flowHistory>>

\* StartOAuth needs a client id; Generate notes whose flow the state token is.
StartOAuth(f, n, p) ==
  /\ flow[f] = NoFlow
  /\ p \in client
  /\ flow' = [flow EXCEPT ![f] = [kind |-> "browser", name |-> n, provider |-> p]]
  /\ states' = [states EXCEPT ![f] = flowClock + StateTTL]
  /\ UNCHANGED <<flowClock, client, codes, replyVars, serviceVars, flowHistory>>

\* StartDeviceFlow keeps nothing: the device code is with the browser.
StartDeviceFlow(f, p) ==
  /\ flow[f] = NoFlow
  /\ p \in client \cap DeviceProviders
  /\ flow' = [flow EXCEPT ![f] = [kind |-> "device", name |-> Nobody, provider |-> p]]
  /\ UNCHANGED <<flowClock, client, states, codes, replyVars, serviceVars, flowHistory>>

\* The user agrees, at the provider.
Agree(f) ==
  /\ flow[f] # NoFlow
  /\ f \notin codes
  /\ spent[f] = 0
  /\ codes' = codes \cup {f}
  /\ UNCHANGED <<flowClock, client, flow, states, replyVars, serviceVars, flowHistory>>

-----------------------------------------------------------------------------
(* Callback, PollDeviceFlow *)

ReplyGoes(r, to) == replyAt' = [replyAt EXCEPT ![r] = to]

Tells(r, what) ==
  /\ ReplyGoes(r, "done")
  /\ result' = [result EXCEPT ![r] = what]

\* Mutation of Consume: an expired token is consumed, a good one is kept.
KeepState(f) == states' = IF flowClock > states[f] THEN [states EXCEPT ![f] = Expired] ELSE states

\* The token goes whether it has expired or not.
Consume(f) == states' = [states EXCEPT ![f] = Expired]

\* Callback and Validate; the browser may call it again.
Callback(r, f) ==
  /\ replyAt[r] = "idle"
  /\ flow[f].kind = "browser"
  /\ reply' = [reply EXCEPT ![r] = [flow |-> f, name |-> flow[f].name]]
  /\ Consume(f)
  /\ IF states[f] = Expired \/ flowClock > states[f]
       THEN Tells(r, "error")
       ELSE ReplyGoes(r, "exchange") /\ UNCHANGED result
  /\ UNCHANGED <<flowClock, client, flow, codes, serviceVars, flowHistory>>

\* PollDeviceFlow: the browser names the service with every poll.
Poll(r, f, n) ==
  /\ replyAt[r] = "idle"
  /\ flow[f].kind = "device"
  /\ reply' = [reply EXCEPT ![r] = [flow |-> f, name |-> n]]
  /\ IF flow[f].provider \in client
       THEN ReplyGoes(r, "exchange") /\ UNCHANGED result
       ELSE Tells(r, "error")
  /\ UNCHANGED <<flowClock, client, flow, states, codes, serviceVars, flowHistory>>

\* exchangeCode and the poll of the provider.  A code is redeemed once, for a client
\* that the provider knows.
ExchangeCode(r) ==
  LET f == reply[r].flow IN
  /\ replyAt[r] = "exchange"
  /\ spent' = [spent EXCEPT ![f] = @ + 1]
  /\ \/ /\ f \in codes
        /\ flow[f].provider \in client
        /\ codes' = codes \ {f}
        /\ ReplyGoes(r, "write")
        /\ UNCHANGED result
     \/ /\ UNCHANGED codes
        /\ \E answer \in {"error"} \cup
             (IF flow[f].kind = "device" THEN {"pending", "expired"} ELSE {}) : Tells(r, answer)
  /\ UNCHANGED <<flowClock, client, flow, states, reply, serviceVars, usable>>

\* WriteSecret of the token record.
WriteTokens(r) ==
  /\ replyAt[r] = "write"
  /\ \/ /\ record' = [record EXCEPT ![reply[r].name] = reply[r].flow]
        /\ ReplyGoes(r, "find")
        /\ UNCHANGED result
     \/ /\ VaultFaults
        /\ Tells(r, "error")
        /\ UNCHANGED record
  /\ UNCHANGED <<flowClock, client, flow, states, codes, reply, registered, credential, flowHistory>>

\* services.Get
FindService(r) ==
  /\ replyAt[r] = "find"
  /\ ReplyGoes(r, IF reply[r].name \in registered THEN "update" ELSE "create")
  /\ UNCHANGED <<flowClock, client, flow, states, codes, reply, result, serviceVars, flowHistory>>

\* services.Create from the template of the provider.  A service that appeared in the
\* meantime and a vault that fails are logged, and the user is told of success.
CreateService(r) ==
  LET n == reply[r].name IN
  /\ replyAt[r] = "create"
  /\ Tells(r, "success")
  /\ \/ /\ n \notin registered
        /\ registered' = registered \cup {n}
        /\ credential' = [credential EXCEPT ![n] = reply[r].flow]
        /\ usable' = usable \cup {r}
     \/ /\ n \in registered \/ VaultFaults
        /\ UNCHANGED <<registered, credential, usable>>
  /\ UNCHANGED <<flowClock, client, flow, states, codes, reply, record, spent>>

\* services.Update with a service that has a name and a status and nothing else: it
\* does not validate, which is logged, and the user is told of success.
UpdateService(r) ==
  /\ replyAt[r] = "update"
  /\ Tells(r, "success")
  /\ UNCHANGED <<flowClock, client, flow, states, codes, reply, serviceVars, flowHistory>>

-----------------------------------------------------------------------------
(* The dashboard and the clock *)

AddService(n) ==
  /\ n \notin registered
  /\ registered' = registered \cup {n}
  /\ credential' = [credential EXCEPT ![n] = Typed]
  /\ UNCHANGED <<flowClock, client, flow, states, codes, replyVars, record, flowHistory>>

\* Registry.Delete leaves the token record where it is.
DeleteService(n) ==
  /\ n \in registered
  /\ registered' = registered \ {n}
  /\ credential' = [credential EXCEPT ![n] = Nobody]
  /\ UNCHANGED <<flowClock, client, flow, states, codes, replyVars, record, flowHistory>>

FlowTick ==
  /\ flowClock < FlowHorizon
  /\ flowClock' = flowClock + 1
  /\ UNCHANGED <<client, flow, states, codes, replyVars, serviceVars, flowHistory>>

FlowNext ==
  \/ \E p \in Providers : SaveOAuthConfig(p) \/ DeleteOAuthConfig(p)
  \/ \E f \in Flows :
       \/ \E p \in Providers : StartDeviceFlow(f, p) \/ \E n \in FlowNames : StartOAuth(f, n, p)
       \/ Agree(f)
       \/ \E r \in Replies : Callback(r, f) \/ \E n \in FlowNames : Poll(r, f, n)
  \/ \E r \in Replies :
       \/ ExchangeCode(r)
       \/ WriteTokens(r)
       \/ FindService(r)
       \/ CreateService(r)
       \/ UpdateService(r)
  \/ \E n \in FlowNames : AddService(n) \/ DeleteService(n)
  \/ FlowTick

FlowSpec == FlowInit /\ [][FlowNext]_flowVars

-----------------------------------------------------------------------------
(* Properties *)

\* A state token lets one callback through, however often and however concurrently
\* the browser repeats it, and its tokens go to the service the flow was begun for.
StateUsedOnce ==
  \A f \in Flows : flow[f].kind = "browser" =>
    /\ spent[f] <= 1
    /\ \A n \in FlowNames : record[n] = f => n = flow[f].name

\* The comment in Callback: "Create the service if it doesn't exist, or update its
\* status if it does. The access token is stored as the credential so the proxy can
\* use it."
SuccessMeansUsable == \A r \in Replies : result[r] = "success" => r \in usable

=============================================================================
