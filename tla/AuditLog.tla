------------------------------ MODULE AuditLog ------------------------------
(***************************************************************************)
(* audit.Logger: Emit into a bounded channel, the goroutine that writes    *)
(* the day's file and the ring in memory, the deletion of old files, and   *)
(* Close, which asks the goroutine to drain the channel and leave.         *)
(*                                                                         *)
(* A step of the write loop is split where another goroutine can see its   *)
(* middle: the event is off the channel, then on disk, then in the ring.   *)
(***************************************************************************)
EXTENDS Naturals, Sequences

CONSTANTS
  Events,       \* every event, emitted at most once
  NoEvent,      \* an empty slot of the ring; nothing in hand
  ChannelSize,  \* Options.ChannelSize
  RingSize,     \* Options.RingSize
  Retention,    \* days a file is kept, 0 for ever
  LastDay       \* bound on the calendar

ASSUME AuditAssumption ==
  /\ NoEvent \notin Events
  /\ ChannelSize \in Nat \ {0}
  /\ RingSize \in Nat \ {0}
  /\ Retention \in Nat
  /\ LastDay \in Nat \ {0}

VARIABLES
  fresh,      \* events not emitted yet
  channel,    \* eventCh
  dropped,    \* events lost to a full channel or to a file that does not open
  stopping,   \* stopCh is closed
  loop,       \* where writeLoop is
  inHand,     \* the event it received and has not put into the ring
  file,       \* the file it holds: none, open, or closed and still held
  fileDay,    \* currentDate
  today,
  disk,       \* the events of each day's file
  cleaning,   \* a goroutine is about to delete old files
  ring, ringHead,
  delivered,  \* history: the events put into the ring, in order
  promised    \* history: the events accepted before Close

auditVars == <<fresh, channel, dropped, stopping, loop, inHand, file, fileDay,
               today, disk, cleaning, ring, ringHead, delivered, promised>>

Days == 1 .. LastDay
Slots == 0 .. RingSize - 1

AuditTypeOK ==
  /\ fresh \in SUBSET Events
  /\ channel \in Seq(Events)
  /\ dropped \in Nat
  /\ stopping \in BOOLEAN
  /\ loop \in {"receive", "write", "remember", "exited"}
  /\ inHand \in Events \cup {NoEvent}
  /\ file \in {"none", "open", "closed"}
  /\ fileDay \in Days \cup {0}
  /\ today \in Days
  /\ disk \in [Days -> Seq(Events)]
  /\ cleaning \in BOOLEAN
  /\ ring \in [Slots -> Events \cup {NoEvent}]
  /\ ringHead \in Slots
  /\ delivered \in Seq(Events)
  /\ promised \in SUBSET Events

AuditInit ==
  /\ fresh = Events
  /\ channel = <<>>
  /\ dropped = 0
  /\ stopping = FALSE
  /\ loop = "receive"
  /\ inHand = NoEvent
  /\ file = "none"
  /\ fileDay = 0
  /\ today = 1
  /\ disk = [d \in Days |-> <<>>]
  /\ cleaning = FALSE
  /\ ring = [i \in Slots |-> NoEvent]
  /\ ringHead = 0
  /\ delivered = <<>>
  /\ promised = {}

-----------------------------------------------------------------------------
(* Emit, from any goroutine, also after Close *)

EmitAccepted(e) ==
  /\ Len(channel) < ChannelSize
  /\ channel' = Append(channel, e)
  /\ promised' = IF stopping THEN promised ELSE promised \cup {e}
  /\ UNCHANGED dropped

\* Mutation of EmitDropped: what the comment at audit.go:98 says, the oldest event is
\* dropped to make room for the new one.
EmitDropsOldest(e) ==
  /\ Len(channel) = ChannelSize
  /\ dropped' = dropped + 1
  /\ channel' = Append(Tail(channel), e)
  /\ UNCHANGED promised

\* The event that finds the channel full is the one that is lost.
EmitDropped(e) ==
  /\ Len(channel) = ChannelSize
  /\ dropped' = dropped + 1
  /\ UNCHANGED <<channel, promised>>

Emit(e) ==
  /\ e \in fresh
  /\ fresh' = fresh \ {e}
  /\ EmitAccepted(e) \/ EmitDropped(e)
  /\ UNCHANGED <<stopping, loop, inHand, file, fileDay, today, disk, cleaning,
                 ring, ringHead, delivered>>

\* Close, first call: stopOnce.
Close ==
  /\ ~stopping
  /\ stopping' = TRUE
  /\ UNCHANGED <<fresh, channel, dropped, loop, inHand, file, fileDay, today,
                 disk, cleaning, ring, ringHead, delivered, promised>>

-----------------------------------------------------------------------------
(* writeLoop *)

Receive ==
  /\ loop = "receive"
  /\ channel # <<>>
  /\ channel' = Tail(channel)
  /\ inHand' = Head(channel)
  /\ loop' = "write"
  /\ UNCHANGED <<fresh, dropped, stopping, file, fileDay, today, disk, cleaning,
                 ring, ringHead, delivered, promised>>

\* ensureFile: the file of today is there or is opened.  When it does not open,
\* the old one is closed and still held.
EnsureFile ==
  \/ /\ file # "none" /\ fileDay = today
     /\ UNCHANGED <<file, fileDay, dropped, cleaning>>
  \/ /\ file = "none" \/ fileDay # today
     /\ \/ /\ file' = "open"
           /\ fileDay' = today
           /\ cleaning' = (cleaning \/ Retention > 0)
           /\ UNCHANGED dropped
        \/ /\ file' = IF file = "none" THEN "none" ELSE "closed"
           /\ dropped' = dropped + 1
           /\ UNCHANGED <<fileDay, cleaning>>

\* writeEvent: a write to no file, to a closed file or to a full disk is
\* forgotten without a word.
WriteEvent ==
  \/ /\ file' = "open"
     /\ disk' = [disk EXCEPT ![fileDay'] = Append(@, inHand)]
  \/ UNCHANGED disk

Write ==
  /\ loop = "write"
  /\ EnsureFile
  /\ WriteEvent
  /\ loop' = "remember"
  /\ UNCHANGED <<fresh, channel, stopping, inHand, today, ring, ringHead,
                 delivered, promised>>

AppendToRing ==
  /\ loop = "remember"
  /\ ring' = [ring EXCEPT ![ringHead] = inHand]
  /\ ringHead' = (ringHead + 1) % RingSize
  /\ delivered' = Append(delivered, inHand)
  /\ inHand' = NoEvent
  /\ loop' = "receive"
  /\ UNCHANGED <<fresh, channel, dropped, stopping, file, fileDay, today, disk,
                 cleaning, promised>>

\* Mutation of Exit: the goroutine leaves on stopCh without draining.
ExitAtOnce ==
  /\ loop = "receive"
  /\ stopping
  /\ loop' = "exited"
  /\ file' = IF file = "none" THEN "none" ELSE "closed"
  /\ UNCHANGED <<fresh, channel, dropped, stopping, inHand, fileDay, today,
                 disk, cleaning, ring, ringHead, delivered, promised>>

\* The drain loop ends when a receive would wait.
Exit ==
  /\ loop = "receive"
  /\ stopping
  /\ channel = <<>>
  /\ loop' = "exited"
  /\ file' = IF file = "none" THEN "none" ELSE "closed"
  /\ UNCHANGED <<fresh, channel, dropped, stopping, inHand, fileDay, today,
                 disk, cleaning, ring, ringHead, delivered, promised>>

\* deleteOldFiles: midnight of the file's day is before now minus Retention days.
DeleteOldFiles ==
  /\ cleaning
  /\ cleaning' = FALSE
  /\ disk' = [d \in Days |-> IF d + Retention <= today THEN <<>> ELSE disk[d]]
  /\ UNCHANGED <<fresh, channel, dropped, stopping, loop, inHand, file, fileDay,
                 today, ring, ringHead, delivered, promised>>

NewDay ==
  /\ today < LastDay
  /\ today' = today + 1
  /\ UNCHANGED <<fresh, channel, dropped, stopping, loop, inHand, file, fileDay,
                 disk, cleaning, ring, ringHead, delivered, promised>>

-----------------------------------------------------------------------------

AuditNext ==
  \/ \E e \in Events : Emit(e)
  \/ Close
  \/ Receive
  \/ Write
  \/ AppendToRing
  \/ Exit
  \/ DeleteOldFiles
  \/ NewDay

AuditSpec == AuditInit /\ [][AuditNext]_auditVars

-----------------------------------------------------------------------------
(* Recent *)

\* The slot that Recent visits i-th, walking back from ringHead.
Back(i) == ring[(ringHead + RingSize - i) % RingSize]

\* How many events Recent returns: it stops at the first empty slot and when it
\* has n, which for n = 0 never comes.
RecentCount(n) ==
  LET filled == {i \in 0 .. RingSize : \A j \in 1 .. i : Back(j) # NoEvent}
      wanted == {i \in filled : n = 0 \/ i <= n}
  IN CHOOSE i \in wanted : \A j \in wanted : j <= i

\* Oldest first.
Recent(n) ==
  LET count == RecentCount(n) IN [i \in 1 .. count |-> Back(count + 1 - i)]

Matching(s, matching) == LET Matches(e) == e \in matching IN SelectSeq(s, Matches)

\* Mutation of AuditEvents: the limit is applied before the filter.
AuditEventsOfLast(matching, limit) == Matching(Recent(limit), matching)

\* The answer of GET /audit/events that asks for the events in matching: the last
\* limit of them.
AuditEvents(matching, limit) ==
  LET found == Matching(Recent(RingSize), matching)
  IN IF Len(found) > limit
       THEN SubSeq(found, Len(found) - limit + 1, Len(found)) ELSE found

-----------------------------------------------------------------------------
(* Properties *)

Newest(s, n) == IF Len(s) > n THEN SubSeq(s, Len(s) - n + 1, Len(s)) ELSE s

\* However often the ring has wrapped, Recent(n) is the last n events handled, as
\* far as the ring holds them, oldest first; and a filtered query returns the last
\* limit matches among all that the ring holds, not matches among the last limit.
QueriesSeeNewest ==
  LET inRing == Newest(delivered, RingSize) IN
  /\ \A n \in 1 .. RingSize + 1 : Recent(n) = Newest(inRing, n)
  /\ \A matching \in SUBSET {inRing[i] : i \in DOMAIN inRing}, limit \in 1 .. RingSize :
       AuditEvents(matching, limit) = Newest(Matching(inRing, matching), limit)

\* When Close has returned, every event that was accepted before Close was called
\* has been handled.  An event accepted later may be left in the channel for ever.
CloseFlushes ==
  loop = "exited" => \A e \in promised : \E i \in DOMAIN delivered : delivered[i] = e

\* Emit never waits, and what it accepts comes out in order and once: the event that
\* is lost at a full channel is the one that Emit was called for.  (The comment at
\* audit.go:98-99 says instead that "the oldest event is dropped", which would take
\* back an event that was accepted; the code of Emit drops the new one.)
Abstract == INSTANCE LossyLog WITH
  unseen <- fresh,
  taken <- IF inHand = NoEvent THEN channel ELSE <<inHand>> \o channel,
  out <- delivered
IsLossyLog == Abstract!LogSpec

=============================================================================
