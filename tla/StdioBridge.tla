----------------------------- MODULE StdioBridge -----------------------------
(***************************************************************************)
(* straylight-mcp: the bridge between an agent, which writes one JSON-RPC  *)
(* message per line, and the container, which it asks over HTTP.  Serve    *)
(* handles one line at a time: what the agent wrote after a tool call      *)
(* waits until the container has answered or the HTTP client gives up.     *)
(*                                                                         *)
(* What the container does with a call is in ToolCalls and DatabaseAccess: *)
(* here it may take for ever, fail, or be gone.                            *)
(***************************************************************************)
EXTENDS Naturals, Sequences

CONSTANT LastLine   \* bound on the lines of the agent

ASSUME BridgeAssumption == LastLine \in Nat \ {0}

VARIABLES
  inbox,     \* lines on stdin that Serve has not read
  lines,     \* how many the agent has written
  stdin,     \* open or closed
  serving,   \* what Serve does
  line,      \* the line whose HTTP request is under way
  running,   \* calls in the container, also those that the bridge gave up
  replies,   \* numbers of the lines that were answered, in order; 0 for an answer to none
  bridge,    \* the process
  awaited    \* history: numbers of the lines that want an answer

bridgeVars == <<inbox, lines, stdin, serving, line, running, replies, bridge, awaited>>

LineNumbers == 1 .. LastLine

\* atOnce: initialize, ping, a method that is not known, a call without a tool.
LineKinds == {"blank", "garbage", "atOnce", "initialized", "list", "call", "tooLong"}

Line == [kind : LineKinds, number : LineNumbers, hasId : BOOLEAN]

NoLine == [kind |-> "blank", number |-> 0, hasId |-> FALSE]

BridgeTypeOK ==
  /\ inbox \in Seq(Line)
  /\ lines \in 0 .. LastLine
  /\ stdin \in {"open", "closed"}
  /\ serving \in {"scan", "await", "returned"}
  /\ line \in Line \cup {NoLine}
  /\ running \in SUBSET LineNumbers
  /\ replies \in Seq(0 .. LastLine)
  /\ bridge \in {"running", "gone"}
  /\ awaited \in SUBSET LineNumbers

BridgeInit ==
  /\ inbox = <<>>
  /\ lines = 0
  /\ stdin = "open"
  /\ serving = "scan"
  /\ line = NoLine
  /\ running = {}
  /\ replies = <<>>
  /\ bridge = "running"
  /\ awaited = {}

-----------------------------------------------------------------------------
(* The agent *)

\* Requests have an id; an answer to "notifications/initialized" is never given.
WantsAnswer(l) == l.hasId /\ l.kind \in {"atOnce", "list", "call"}

AgentWrites(l) ==
  /\ stdin = "open"
  /\ lines < LastLine
  /\ l.number = lines + 1
  /\ l.hasId => l.kind \notin {"blank", "garbage", "tooLong"}
  /\ lines' = lines + 1
  /\ inbox' = Append(inbox, l)
  /\ awaited' = IF WantsAnswer(l) THEN awaited \cup {l.number} ELSE awaited
  /\ UNCHANGED <<stdin, serving, line, running, replies, bridge>>

AgentLeaves ==
  /\ stdin = "open"
  /\ stdin' = "closed"
  /\ UNCHANGED <<inbox, lines, serving, line, running, replies, bridge, awaited>>

-----------------------------------------------------------------------------
(* Serve, handleLine and dispatch *)

\* writeResponse; for a message without an id the writer is io.Discard.
Reply(l) ==
  replies' = IF l.hasId THEN Append(replies, l.number) ELSE replies

\* A line that the scanner takes and that needs nothing of the container.
HandleAtOnce(l) ==
  /\ l.kind \in {"blank", "garbage", "atOnce", "initialized"}
  /\ CASE l.kind = "garbage" -> replies' = Append(replies, 0)
       [] l.kind = "atOnce"  -> Reply(l)
       [] OTHER              -> UNCHANGED replies
  /\ UNCHANGED <<serving, line>>

\* handleToolsList and handleToolsCall, also for a notification.
SendRequest(l) ==
  /\ l.kind \in {"list", "call"}
  /\ serving' = "await"
  /\ line' = l
  /\ UNCHANGED replies

\* The scanner returns FALSE for a line above its limit, and Serve returns.
StopAtLongLine(l) ==
  /\ l.kind = "tooLong"
  /\ serving' = "returned"
  /\ UNCHANGED <<line, replies>>

Scan ==
  /\ bridge = "running"
  /\ serving = "scan"
  /\ inbox # <<>>
  /\ inbox' = Tail(inbox)
  /\ \/ HandleAtOnce(Head(inbox))
     \/ SendRequest(Head(inbox))
     \/ StopAtLongLine(Head(inbox))
  /\ UNCHANGED <<lines, stdin, running, bridge, awaited>>

ScanEnds ==
  /\ bridge = "running"
  /\ serving = "scan"
  /\ inbox = <<>>
  /\ stdin = "closed"
  /\ serving' = "returned"
  /\ UNCHANGED <<inbox, lines, stdin, line, running, replies, bridge, awaited>>

-----------------------------------------------------------------------------
(* ContainerClient: one request *)

\* The handler has written its result or its error.
RequestEnds ==
  /\ bridge = "running"
  /\ serving = "await"
  /\ Reply(line)
  /\ serving' = "scan"
  /\ line' = NoLine
  /\ UNCHANGED <<inbox, lines, stdin, bridge, awaited>>

\* The request reaches the container.
Arrives ==
  /\ bridge = "running"
  /\ serving = "await"
  /\ line.number \notin running
  /\ running' = running \cup {line.number}
  /\ UNCHANGED <<inbox, lines, stdin, serving, line, replies, bridge, awaited>>

\* The container answers, with whatever status and body.
ContainerAnswers ==
  /\ line.number \in running
  /\ RequestEnds
  /\ running' = running \ {line.number}

\* No connection, or it breaks.
Unreachable == RequestEnds /\ UNCHANGED running

\* Mutation of TimesOut: only the dialer has a timeout.
TimesOutUnconnected ==
  /\ line.number \notin running
  /\ RequestEnds
  /\ UNCHANGED running

\* The Timeout of the http.Client, which covers the body as well.
TimesOut == RequestEnds /\ UNCHANGED running

\* A call that the bridge has given up, or left behind, ends: its context is cancelled
\* when the server sees the connection close, or it was done before.
AbandonedEnds(n) ==
  /\ n \in running
  /\ n # line.number \/ bridge = "gone"
  /\ running' = running \ {n}
  /\ UNCHANGED <<inbox, lines, stdin, serving, line, replies, bridge, awaited>>

-----------------------------------------------------------------------------
(* runMCPServer *)

\* Serve has returned, or a signal came and it is left where it is.
BridgeEnds ==
  /\ bridge = "running"
  /\ bridge' = "gone"
  /\ UNCHANGED <<inbox, lines, stdin, serving, line, running, replies, awaited>>

ServeReturned == serving = "returned" /\ BridgeEnds

BridgeNext ==
  \/ \E l \in Line : AgentWrites(l)
  \/ AgentLeaves
  \/ Scan
  \/ ScanEnds
  \/ Arrives
  \/ ContainerAnswers
  \/ Unreachable
  \/ TimesOut
  \/ \E n \in LineNumbers : AbandonedEnds(n)
  \/ BridgeEnds

\* The bridge is scheduled and the timer of the client fires.  Nothing is assumed of the
\* agent, of the container or of the signals.
BridgeStep == Scan \/ ScanEnds \/ TimesOut \/ ServeReturned

BridgeSpec == BridgeInit /\ [][BridgeNext]_bridgeVars /\ WF_bridgeVars(BridgeStep)

-----------------------------------------------------------------------------
(* Properties *)

AnsweredLine(n) == \E i \in DOMAIN replies : replies[i] = n

\* Every request of the agent is answered although the container may never answer the
\* ones before it; unless the bridge ends, by a signal or at a line that is too long.
BridgeAnswers ==
  \A n \in LineNumbers : n \in awaited ~> AnsweredLine(n) \/ bridge = "gone"

\* A request is answered once, requests are answered in the order in which they came, and
\* nothing else is answered but a line that cannot be parsed (0), whatever becomes of the
\* calls that the bridge has given up.
AnswersInOrder ==
  \A j \in DOMAIN replies : replies[j] # 0 =>
    /\ replies[j] \in awaited
    /\ \A i \in 1 .. j - 1 : replies[i] < replies[j]

=============================================================================
