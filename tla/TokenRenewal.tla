---------------------------- MODULE TokenRenewal ----------------------------
(***************************************************************************)
(* Supervisor.StartTokenRenewal: the goroutine that keeps the AppRole      *)
(* token of the vault client alive, against the time to live and the       *)
(* maximal time to live that createAppRoleRole gave it.                    *)
(*                                                                         *)
(* Time is discrete.  The calls to OpenBao take time (10 seconds at most   *)
(* each) and less than an interval, so a token is issued somewhat later    *)
(* than the tick that asked for it.                                        *)
(***************************************************************************)
EXTENDS Naturals

CONSTANTS
  Interval,   \* tokenRenewalInterval
  TokenTTL,   \* token_ttl, also the increment that RenewSelfToken asks for
  MaxTTL,     \* token_max_ttl
  Latency,    \* longest time from a tick to the last answer
  MaxFails,   \* bound on the failing calls
  MaxTime     \* bound on the clock

ASSUME RenewalAssumption ==
  /\ Interval \in Nat \ {0}
  /\ TokenTTL = 2 * Interval
  /\ MaxTTL \in Nat /\ MaxTTL >= TokenTTL
  /\ Latency \in Nat /\ Latency < Interval
  /\ MaxFails \in Nat
  /\ MaxTime \in Nat

VARIABLES
  now,     \* the clock
  due,     \* next tick of the ticker; 0 before StartTokenRenewal
  loop,    \* the goroutine: "wait", "renew" or "login"
  issued,  \* when the client's token was issued
  expiry,  \* when OpenBao lets it expire
  fails,   \* failing calls so far
  missed   \* periods in a row that ended without renewal or login

vars == <<now, due, loop, issued, expiry, fails, missed>>

-----------------------------------------------------------------------------

TypeOK ==
  /\ now \in 0 .. MaxTime
  /\ due \in 0 .. now + Interval
  /\ loop \in {"wait", "renew", "login"}
  /\ issued \in 0 .. now
  /\ expiry \in issued .. issued + MaxTTL
  /\ fails \in 0 .. MaxFails
  /\ missed \in 0 .. MaxFails

\* InitializeVault has just logged in.
Init ==
  /\ now = 0
  /\ due = 0
  /\ loop = "wait"
  /\ issued = 0
  /\ expiry = TokenTTL
  /\ fails = 0
  /\ missed = 0

Valid == now < expiry

\* When OpenBao extends a token, never past its maximal time to live.
Extended == IF now + TokenTTL < issued + MaxTTL THEN now + TokenTTL
                                                ELSE issued + MaxTTL

StartTokenRenewal ==
  /\ due = 0
  /\ due' = now + Interval
  /\ UNCHANGED <<now, loop, issued, expiry, fails, missed>>

\* Time passes until the ticker fires, and during the calls.
Tick ==
  /\ now < MaxTime
  /\ CASE due = 0 -> now < Latency
       [] due # 0 /\ loop = "wait" -> now < due
       [] OTHER -> now < due - Interval + Latency
  /\ now' = now + 1
  /\ UNCHANGED <<due, loop, issued, expiry, fails, missed>>

TickerFires ==
  /\ due # 0 /\ now = due
  /\ loop = "wait"
  /\ loop' = "renew"
  /\ due' = due + Interval
  /\ UNCHANGED <<now, issued, expiry, fails, missed>>

Fail ==
  /\ fails < MaxFails
  /\ fails' = fails + 1

\* RenewSelfToken succeeds for a token that has not expired ...
Renew ==
  /\ loop = "renew"
  /\ Valid
  /\ expiry' = Extended
  /\ missed' = 0
  /\ loop' = "wait"
  /\ UNCHANGED <<now, due, issued, fails>>

\* ... and fails for one that has, or without a reason of its own.
RenewFails ==
  /\ loop = "renew"
  /\ \/ ~Valid /\ UNCHANGED fails
     \/ Valid /\ Fail
  /\ loop' = "login"
  /\ UNCHANGED <<now, due, issued, expiry, missed>>

\* Mutation of Relogin: the new token is not given to the client.
ReloginUnused ==
  /\ loop = "login"
  /\ missed' = 0
  /\ loop' = "wait"
  /\ UNCHANGED <<now, due, issued, expiry, fails>>

\* Then appRoleLogin brings a new token, ...
Relogin ==
  /\ loop = "login"
  /\ issued' = now
  /\ expiry' = now + TokenTTL
  /\ missed' = 0
  /\ loop' = "wait"
  /\ UNCHANGED <<now, due, fails>>

\* ... or the next tick is waited for.
ReloginFails ==
  /\ loop = "login"
  /\ Fail
  /\ missed' = missed + 1
  /\ loop' = "wait"
  /\ UNCHANGED <<now, due, issued, expiry>>

Next ==
  \/ StartTokenRenewal
  \/ Tick
  \/ TickerFires
  \/ Renew
  \/ RenewFails
  \/ Relogin
  \/ ReloginFails

Spec == Init /\ [][Next]_vars

-----------------------------------------------------------------------------
(* Properties *)

\* The client is without a valid token for one interval at most, and one more for
\* each period in a row in which renewal and login both failed ("If renewal fails
\* ... it falls back to a full AppRole re-login").
OutageBounded == now < expiry + Interval * (missed + 1) + Latency

\* "to prevent AppRole token expiry", "we renew well before expiry": as long as no
\* call fails, a token that reached its maximal time to live is replaced within
\* the time the calls take.
ExpiryIsBrief == fails = 0 => now <= expiry + 2 * Latency

=============================================================================
