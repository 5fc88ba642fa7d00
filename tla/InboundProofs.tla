---------------------------- MODULE InboundProofs ----------------------------
(***************************************************************************)
(* What the program holds between the requests of its clients: the audit   *)
(* log, the sessions of the remote endpoint and the authorizations that    *)
(* are under way, for any number of each and every size and bound.         *)
(*                                                                         *)
(* For the log IInv follows every accepted event from the channel to the   *)
(* ring (PromisesKept) and says what each slot of the ring holds however   *)
(* often it has wrapped (RingFilled).  For the sessions it is an account   *)
(* of the counter (CountExplained, PastTheTest), which is exact at every   *)
(* moment although no step changes counter and map together.  For the      *)
(* authorizations it says that a state token, the callback it let through  *)
(* and the exchange are one permission (OnePermission).                    *)
(***************************************************************************)
EXTENDS AuditLog, McpSessions, OAuthFlow, SequenceTheorems, FiniteSetTheorems, TLAPS

-----------------------------------------------------------------------------
(* The audit log *)

\* The loop has an event in hand between the channel and the ring, and leaves only
\* after Close.
LoopHolds ==
  /\ inHand # NoEvent <=> loop \in {"write", "remember"}
  /\ loop = "exited" => stopping

\* What was accepted before Close is in the channel, in hand or delivered, and only
\* delivered once the loop has left.
PromisesKept ==
  \A e \in promised :
    \/ \E i \in 1 .. Len(delivered) : delivered[i] = e
    \/ loop # "exited" /\ (e = inHand \/ \E i \in 1 .. Len(channel) : channel[i] = e)

\* The slot before ringHead has the last event delivered, and so on backwards.
RingFilled ==
  \A i \in 1 .. RingSize :
    Back(i) = IF i <= Len(delivered) THEN delivered[Len(delivered) + 1 - i] ELSE NoEvent

AuditIInv == AuditTypeOK /\ LoopHolds /\ PromisesKept /\ RingFilled

\* The remainders that ringHead meets.
LEMMA Remainder ==
  ASSUME NEW r \in Nat \ {0}, NEW a \in Nat
  PROVE  /\ a < r => a % r = a
         /\ a >= r /\ a < 2 * r => a % r = a - r
         /\ a % r \in 0 .. r - 1
<1> DEFINE q == a \div r
           m == a % r
<1>1. q \in Int /\ m \in 0 .. r - 1 /\ a = r * q + m
  OBVIOUS
<1> HIDE DEF q, m
<1>2. q >= 0
  <2>1. q <= -1 => r * q <= -r
    BY <1>1
  <2> QED
    BY <1>1, <2>1
<1>3. q >= 1 => r * q >= r
  BY <1>1
<1>4. q >= 2 => r * q >= 2 * r
  BY <1>1
<1>5. a < r => m = a
  <2>1. a < r => q = 0
    BY <1>1, <1>2, <1>3
  <2> QED
    BY <1>1, <2>1
<1>6. a >= r /\ a < 2 * r => m = a - r
  <2>1. a >= r /\ a < 2 * r => q = 1
    BY <1>1, <1>2, <1>4
  <2> QED
    BY <1>1, <2>1
<1> QED
  BY <1>1, <1>5, <1>6 DEF m

LEMMA SlotBack ==
  ASSUME NEW h \in Slots, NEW i \in 1 .. RingSize
  PROVE  (h + RingSize - i) % RingSize = (IF i <= h THEN h - i ELSE h + RingSize - i)
<1>1. RingSize \in Nat \ {0} /\ h \in Nat /\ h < RingSize /\ h + RingSize - i \in Nat
      /\ h + RingSize - i < 2 * RingSize
  BY AuditAssumption DEF Slots
<1>2. CASE i <= h
  <2>1. h + RingSize - i >= RingSize
    BY <1>1, <1>2
  <2> PICK a \in Nat : a = h + RingSize - i
    BY <1>1
  <2>2. a >= RingSize /\ a < 2 * RingSize
    BY <1>1, <2>1
  <2>3. a % RingSize = a - RingSize
    BY <1>1, <2>2, Remainder
  <2>4. a - RingSize = h - i
    BY <1>1
  <2> QED
    BY <1>2, <2>3, <2>4
<1>3. CASE ~(i <= h)
  <2>1. h + RingSize - i < RingSize
    BY <1>1, <1>3
  <2> QED
    BY <1>1, <1>3, <2>1, Remainder
<1> QED
  BY <1>2, <1>3

LEMMA NextSlot ==
  ASSUME NEW h \in Slots
  PROVE  (h + 1) % RingSize = (IF h = RingSize - 1 THEN 0 ELSE h + 1)
<1>1. RingSize \in Nat \ {0} /\ h \in Nat /\ h < RingSize /\ h + 1 \in Nat
  BY AuditAssumption DEF Slots
<1>2. CASE h = RingSize - 1
  <2>1. h + 1 >= RingSize /\ h + 1 < 2 * RingSize /\ h + 1 - RingSize = 0
    BY <1>1, <1>2
  <2> QED
    BY <1>1, <1>2, <2>1, Remainder
<1>3. CASE h # RingSize - 1
  <2>1. h + 1 < RingSize
    BY <1>1, <1>3
  <2> QED
    BY <1>1, <1>3, <2>1, Remainder
<1> QED
  BY <1>2, <1>3

LEMMA AuditInitInv == AuditInit => AuditIInv
<1> SUFFICES ASSUME AuditInit PROVE AuditIInv
  OBVIOUS
<1>1. AuditTypeOK
  <2>1. 1 \in Days /\ 0 \in Slots
    BY AuditAssumption DEF Days, Slots
  <2>2. <<>> \in Seq(Events)
    BY EmptySeq
  <2> QED
    BY <2>1, <2>2 DEF AuditInit, AuditTypeOK
<1>2. LoopHolds /\ PromisesKept
  BY DEF AuditInit, LoopHolds, PromisesKept
<1>3. \A i \in 1 .. RingSize : (ringHead + RingSize - i) % RingSize \in Slots
  BY <1>1, SlotBack, AuditAssumption DEF AuditTypeOK, Slots
<1>4. RingFilled
  BY <1>3, AuditAssumption DEF AuditInit, RingFilled, Back
<1> QED
  BY <1>1, <1>2, <1>4 DEF AuditIInv

\* The steps that leave the ring and what was delivered alone.
LEMMA RingUnchanged ==
  ASSUME AuditIInv, UNCHANGED <<ring, ringHead, delivered>>
  PROVE  RingFilled'
BY DEF AuditIInv, RingFilled, Back

LEMMA EmitInv ==
  ASSUME AuditIInv, NEW e \in Events, Emit(e)
  PROVE  AuditIInv'
<1> USE DEF AuditIInv
<1>1. UNCHANGED <<stopping, loop, inHand, file, fileDay, today, disk, cleaning,
                  ring, ringHead, delivered>>
      /\ fresh' = fresh \ {e}
  BY DEF Emit
<1>2. RingFilled' /\ LoopHolds'
  BY <1>1, RingUnchanged DEF LoopHolds
<1>3. CASE EmitAccepted(e)
  <2>1. /\ channel' = Append(channel, e) /\ UNCHANGED dropped
        /\ promised' = IF stopping THEN promised ELSE promised \cup {e}
    BY <1>3 DEF EmitAccepted
  <2>2. /\ channel' \in Seq(Events) /\ Len(channel') = Len(channel) + 1
        /\ Len(channel) \in Nat
        /\ \A i \in 1 .. Len(channel) : channel'[i] = channel[i]
        /\ channel'[Len(channel) + 1] = e
    BY <2>1, AppendProperties, LenProperties DEF AuditTypeOK
  <2>3. AuditTypeOK'
    BY <1>1, <2>1, <2>2 DEF AuditTypeOK
  <2>4. \E i \in 1 .. Len(channel') : channel'[i] = e
    BY <2>2
  <2>5. \A x : (\E i \in 1 .. Len(channel) : channel[i] = x)
                 => \E i \in 1 .. Len(channel') : channel'[i] = x
    BY <2>2
  <2>6. \A x \in promised' : x \in promised \/ (x = e /\ loop # "exited")
    BY <2>1 DEF LoopHolds
  <2>7. PromisesKept'
    BY <1>1, <2>4, <2>5, <2>6 DEF PromisesKept
  <2> QED
    BY <1>2, <2>3, <2>7
<1>4. CASE EmitDropped(e)
  <2>1. AuditTypeOK'
    BY <1>1, <1>4 DEF EmitDropped, AuditTypeOK
  <2>2. PromisesKept'
    BY <1>1, <1>4 DEF EmitDropped, PromisesKept
  <2> QED
    BY <1>2, <2>1, <2>2
<1> QED
  BY <1>3, <1>4 DEF Emit

LEMMA ReceiveInv ==
  ASSUME AuditIInv, Receive
  PROVE  AuditIInv'
<1> USE DEF AuditIInv
<1>1. /\ loop = "receive" /\ channel # <<>> /\ channel' = Tail(channel) /\ inHand' = Head(channel)
      /\ loop' = "write"
      /\ UNCHANGED <<fresh, dropped, stopping, file, fileDay, today, disk, cleaning,
                     ring, ringHead, delivered, promised>>
  BY DEF Receive
<1>2. /\ Head(channel) \in Events /\ Head(channel) = channel[1] /\ Tail(channel) \in Seq(Events)
      /\ Len(Tail(channel)) = Len(channel) - 1 /\ Len(channel) \in Nat
      /\ \A i \in 1 .. Len(Tail(channel)) : Tail(channel)[i] = channel[i + 1]
  BY <1>1, HeadTailProperties, LenProperties DEF AuditTypeOK
<1>3. AuditTypeOK'
  BY <1>1, <1>2 DEF AuditTypeOK
<1>4. LoopHolds'
  BY <1>1, <1>2, AuditAssumption DEF LoopHolds
<1>5. \A i \in 1 .. Len(channel) : channel[i] = inHand' \/ \E j \in 1 .. Len(channel') : channel'[j] = channel[i]
  <2> SUFFICES ASSUME NEW i \in 1 .. Len(channel), i # 1
               PROVE  \E j \in 1 .. Len(channel') : channel'[j] = channel[i]
    BY <1>1, <1>2
  <2>1. i - 1 \in 1 .. Len(channel')
    BY <1>1, <1>2
  <2>2. channel'[i - 1] = channel[i]
    BY <1>1, <1>2, <2>1
  <2> QED
    BY <2>1, <2>2
<1>6. inHand = NoEvent /\ \A e \in promised : e # NoEvent
  BY <1>1, AuditAssumption DEF LoopHolds, AuditTypeOK
<1>7. PromisesKept'
  BY <1>1, <1>5, <1>6 DEF PromisesKept
<1> QED
  BY <1>1, <1>3, <1>4, <1>7, RingUnchanged

LEMMA WriteInv ==
  ASSUME AuditIInv, Write
  PROVE  AuditIInv'
<1> USE DEF AuditIInv
<1>1. /\ loop = "write" /\ loop' = "remember"
      /\ UNCHANGED <<fresh, channel, stopping, inHand, today, ring, ringHead, delivered, promised>>
  BY DEF Write
<1>2. /\ file' \in {"none", "open", "closed"} /\ fileDay' \in Days \cup {0}
      /\ dropped' \in Nat /\ cleaning' \in BOOLEAN
  <2>1. EnsureFile /\ cleaning \in BOOLEAN /\ dropped \in Nat /\ dropped + 1 \in Nat
        /\ file \in {"none", "open", "closed"} /\ fileDay \in Days \cup {0} /\ today \in Days
    BY DEF Write, AuditTypeOK
  <2>2. cleaning' \in BOOLEAN
    BY <2>1, Zenon DEF EnsureFile
  <2>3. dropped' \in Nat
    BY <2>1 DEF EnsureFile
  <2>4. file' \in {"none", "open", "closed"} /\ fileDay' \in Days \cup {0}
    BY <2>1 DEF EnsureFile
  <2> QED
    BY <2>2, <2>3, <2>4
<1>3. disk' \in [Days -> Seq(Events)]
  <2>1. CASE UNCHANGED disk
    BY <2>1 DEF AuditTypeOK
  <2>2. CASE disk' = [disk EXCEPT ![fileDay'] = Append(@, inHand)]
    <3>1. inHand \in Events
      BY <1>1 DEF LoopHolds, AuditTypeOK
    <3>2. \A d \in Days : Append(disk[d], inHand) \in Seq(Events)
      BY <3>1, AppendProperties DEF AuditTypeOK
    <3> QED
      BY <2>2, <3>2 DEF AuditTypeOK
  <2> QED
    BY <2>1, <2>2 DEF Write, WriteEvent
<1>4. AuditTypeOK'
  BY <1>1, <1>2, <1>3 DEF AuditTypeOK
<1>5. LoopHolds' /\ PromisesKept'
  BY <1>1 DEF LoopHolds, PromisesKept
<1> QED
  BY <1>1, <1>4, <1>5, RingUnchanged

LEMMA AppendToRingInv ==
  ASSUME AuditIInv, AppendToRing
  PROVE  AuditIInv'
<1> USE DEF AuditIInv
<1> DEFINE L == Len(delivered)
<1>1. /\ loop = "remember" /\ loop' = "receive" /\ inHand' = NoEvent
      /\ ring' = [ring EXCEPT ![ringHead] = inHand] /\ ringHead' = (ringHead + 1) % RingSize
      /\ delivered' = Append(delivered, inHand)
      /\ UNCHANGED <<fresh, channel, dropped, stopping, file, fileDay, today, disk,
                     cleaning, promised>>
  BY DEF AppendToRing
<1>2. inHand \in Events
  BY <1>1 DEF LoopHolds, AuditTypeOK
<1>3. /\ delivered' \in Seq(Events) /\ Len(delivered') = L + 1 /\ L \in Nat
      /\ \A i \in 1 .. L : delivered'[i] = delivered[i]
      /\ delivered'[L + 1] = inHand
  BY <1>1, <1>2, AppendProperties, LenProperties DEF AuditTypeOK
<1>4. /\ ringHead \in Nat /\ ringHead < RingSize /\ RingSize \in Nat \ {0} /\ ringHead \in Slots
      /\ ringHead' = IF ringHead = RingSize - 1 THEN 0 ELSE ringHead + 1
      /\ ringHead' \in Slots
  BY <1>1, NextSlot, AuditAssumption DEF AuditTypeOK, Slots
<1>5. AuditTypeOK'
  BY <1>1, <1>2, <1>3, <1>4 DEF AuditTypeOK
<1>6. LoopHolds'
  BY <1>1 DEF LoopHolds
<1>7. PromisesKept'
  <2>1. \E i \in 1 .. Len(delivered') : delivered'[i] = inHand
    BY <1>3
  <2>2. \A x : (\E i \in 1 .. L : delivered[i] = x)
                 => \E i \in 1 .. Len(delivered') : delivered'[i] = x
    BY <1>3
  <2> QED
    BY <1>1, <2>1, <2>2 DEF PromisesKept
<1>8. RingFilled'
  <2> DEFINE slot(h, i) == (h + RingSize - i) % RingSize
  <2>1. slot(ringHead', 1) = ringHead
    BY <1>4, SlotBack
  <2>2. \A i \in 1 .. RingSize - 1 :
          slot(ringHead', i + 1) = slot(ringHead, i) /\ slot(ringHead, i) \in Slots \ {ringHead}
    <3> SUFFICES ASSUME NEW i \in 1 .. RingSize - 1
                 PROVE  slot(ringHead', i + 1) = slot(ringHead, i) /\ slot(ringHead, i) \in Slots \ {ringHead}
      OBVIOUS
    <3>3. i \in 1 .. RingSize /\ i + 1 \in 1 .. RingSize
      BY <1>4
    <3>1. slot(ringHead, i) = IF i <= ringHead THEN ringHead - i ELSE ringHead + RingSize - i
      BY <1>4, <3>3, SlotBack
    <3>2. slot(ringHead', i + 1) = IF i + 1 <= ringHead' THEN ringHead' - (i + 1)
                                   ELSE ringHead' + RingSize - (i + 1)
      BY <1>4, <3>3, SlotBack
    <3> QED
      BY <1>4, <3>1, <3>2 DEF Slots
  <2> HIDE DEF slot
  <2>3. \A i \in 1 .. RingSize : Back(i)' = ring'[slot(ringHead', i)] /\ Back(i) = ring[slot(ringHead, i)]
    BY DEF Back, slot
  <2>4. Back(1)' = inHand
    BY <1>1, <1>4, <2>1, <2>3 DEF AuditTypeOK
  <2>5. ASSUME NEW i \in 1 .. RingSize - 1 PROVE Back(i + 1)' = Back(i)
    <3>1. i \in 1 .. RingSize /\ i + 1 \in 1 .. RingSize
      BY <1>4
    <3> QED
      BY <1>1, <2>2, <2>3, <3>1 DEF AuditTypeOK
  <2>6. ASSUME NEW i \in 1 .. RingSize
        PROVE  Back(i)' = IF i <= L + 1 THEN delivered'[L + 2 - i] ELSE NoEvent
    <3>1. CASE i = 1
      BY <1>3, <2>4, <3>1
    <3>2. CASE i # 1
      <4>1. i - 1 \in 1 .. RingSize - 1 /\ i = (i - 1) + 1 /\ i - 1 \in 1 .. RingSize
        BY <1>4, <3>2
      <4>2. Back(i)' = Back(i - 1)
        BY <2>5, <4>1
      <4>3. Back(i - 1) = IF i - 1 <= L THEN delivered[L + 1 - (i - 1)] ELSE NoEvent
        BY <4>1 DEF RingFilled
      <4>4. i - 1 <= L => L + 1 - (i - 1) \in 1 .. L /\ L + 1 - (i - 1) = L + 2 - i
        BY <1>3, <4>1
      <4> QED
        BY <1>3, <4>1, <4>2, <4>3, <4>4
    <3> QED
      BY <3>1, <3>2
  <2>7. Len(delivered') = L + 1 /\ \A i \in 1 .. RingSize : Len(delivered') + 1 - i = L + 2 - i
    BY <1>3
  <2> QED
    BY <2>6, <2>7 DEF RingFilled
<1> QED
  BY <1>5, <1>6, <1>7, <1>8

\* Close, the end of the loop, and what happens to the files.
LEMMA EndStepInv ==
  ASSUME AuditIInv, Close \/ Exit \/ DeleteOldFiles \/ NewDay
  PROVE  AuditIInv'
<1> USE DEF AuditIInv
<1>1. UNCHANGED <<fresh, channel, dropped, inHand, ring, ringHead, delivered, promised>>
  BY DEF Close, Exit, DeleteOldFiles, NewDay
<1>2. CASE Close
  <2>1. AuditTypeOK' /\ LoopHolds' /\ PromisesKept'
    BY <1>1, <1>2 DEF Close, AuditTypeOK, LoopHolds, PromisesKept
  <2> QED
    BY <1>1, <2>1, RingUnchanged
<1>3. CASE Exit
  <2>1. /\ loop = "receive" /\ stopping /\ channel = <<>> /\ loop' = "exited"
        /\ file' \in {"none", "closed"}
        /\ UNCHANGED <<stopping, fileDay, today, disk, cleaning>>
    BY <1>3 DEF Exit
  <2>2. AuditTypeOK' /\ LoopHolds'
    BY <1>1, <2>1 DEF AuditTypeOK, LoopHolds
  <2>3. inHand = NoEvent /\ Len(channel) = 0 /\ \A e \in promised : e # NoEvent
    BY <2>1, EmptySeq, AuditAssumption DEF LoopHolds, AuditTypeOK
  <2>4. PromisesKept'
    BY <1>1, <2>3 DEF PromisesKept
  <2> QED
    BY <1>1, <2>2, <2>4, RingUnchanged
<1>4. CASE DeleteOldFiles
  <2>1. disk' \in [Days -> Seq(Events)]
    <3>1. <<>> \in Seq(Events)
      BY EmptySeq
    <3>2. \A d \in Days : disk[d] \in Seq(Events)
      BY DEF AuditTypeOK
    <3> QED
      BY <1>4, <3>1, <3>2 DEF DeleteOldFiles
  <2>2. AuditTypeOK' /\ LoopHolds' /\ PromisesKept'
    BY <1>1, <1>4, <2>1 DEF DeleteOldFiles, AuditTypeOK, LoopHolds, PromisesKept
  <2> QED
    BY <1>1, <2>2, RingUnchanged
<1>5. CASE NewDay
  <2>1. today' \in Days
    BY <1>5, AuditAssumption DEF NewDay, AuditTypeOK, Days
  <2>2. AuditTypeOK' /\ LoopHolds' /\ PromisesKept'
    BY <1>1, <1>5, <2>1 DEF NewDay, AuditTypeOK, LoopHolds, PromisesKept
  <2> QED
    BY <1>1, <2>2, RingUnchanged
<1> QED
  BY <1>2, <1>3, <1>4, <1>5

LEMMA AuditStepInv == AuditIInv /\ [AuditNext]_auditVars => AuditIInv'
<1> SUFFICES ASSUME AuditIInv, [AuditNext]_auditVars PROVE AuditIInv'
  OBVIOUS
<1>1. ASSUME NEW e \in Events, Emit(e) PROVE AuditIInv'
  BY <1>1, EmitInv
<1>2. CASE UNCHANGED auditVars
  BY <1>2 DEF auditVars, AuditIInv, AuditTypeOK, LoopHolds, PromisesKept, RingFilled, Back
<1> QED
  BY <1>1, <1>2, ReceiveInv, WriteInv, AppendToRingInv, EndStepInv DEF AuditNext

LEMMA AuditInvariance == AuditSpec => []AuditIInv
BY AuditInitInv, AuditStepInv, PTL DEF AuditSpec

\* Channel, files and ring keep their types (Logger).
THEOREM AuditTypeCorrectness == AuditSpec => []AuditTypeOK
<1>1. AuditIInv => AuditTypeOK
  BY DEF AuditIInv
<1> QED
  BY <1>1, AuditInvariance, PTL

\* For every size of the channel and however many goroutines emit: when Close has
\* returned, what was accepted before it was called has been handled (Close, writeLoop).
THEOREM CloseFlushesHolds == AuditSpec => []CloseFlushes
<1>1. AuditIInv => CloseFlushes
  <2> SUFFICES ASSUME AuditIInv, loop = "exited", NEW e \in promised
               PROVE  \E i \in DOMAIN delivered : delivered[i] = e
    BY DEF CloseFlushes
  <2>1. DOMAIN delivered = 1 .. Len(delivered)
    BY LenProperties DEF AuditIInv, AuditTypeOK
  <2> QED
    BY <2>1 DEF AuditIInv, PromisesKept
<1> QED
  BY <1>1, AuditInvariance, PTL

-----------------------------------------------------------------------------

\* The last n events of a sequence, or all of it.
LEMMA NewestProperties ==
  ASSUME NEW s \in Seq(Events), NEW n \in Nat
  PROVE  LET k == IF Len(s) > n THEN n ELSE Len(s) IN
         /\ Newest(s, n) \in Seq(Events)
         /\ Len(Newest(s, n)) = k
         /\ \A i \in 1 .. k : Newest(s, n)[i] = s[Len(s) - k + i]
<1>1. Len(s) \in Nat /\ s \in [1 .. Len(s) -> Events]
  BY LenProperties
<1>2. CASE Len(s) > n
  <2>6. Len(s) - n + 1 \in Nat /\ Len(s) - n + 1 >= 1
    BY <1>1, <1>2
  <2> PICK m \in Nat : m = Len(s) - n + 1 /\ m >= 1
    BY <2>6
  <2>1. \A i \in m .. Len(s) : s[i] \in Events
    BY <1>1
  <2>2. /\ SubSeq(s, m, Len(s)) \in Seq(Events)
        /\ Len(SubSeq(s, m, Len(s))) = IF m <= Len(s) THEN Len(s) - m + 1 ELSE 0
        /\ \A i \in 1 .. Len(s) - m + 1 : SubSeq(s, m, Len(s))[i] = s[m + i - 1]
    BY <1>1, <2>1, SubSeqProperties
  <2>3. Newest(s, n) = SubSeq(s, m, Len(s))
    BY <1>2 DEF Newest
  <2>4. Len(s) - m + 1 = n /\ (~(m <= Len(s)) => n = 0)
    BY <1>1
  <2>5. \A i \in 1 .. n : m + i - 1 = Len(s) - n + i
    BY <1>1
  <2> QED
    BY <1>2, <2>2, <2>3, <2>4, <2>5
<1>3. CASE ~(Len(s) > n)
  <2>1. Newest(s, n) = s /\ \A i \in 1 .. Len(s) : Len(s) - Len(s) + i = i
    BY <1>1, <1>3 DEF Newest
  <2> QED
    BY <1>3, <2>1
<1> QED
  BY <1>2, <1>3

\* How far Recent walks back.
LEMMA RecentCountIs ==
  ASSUME AuditIInv, NEW n \in Nat \ {0}
  PROVE  LET k == IF Len(delivered) > RingSize THEN RingSize ELSE Len(delivered)
         IN  RecentCount(n) = IF k > n THEN n ELSE k
<1> DEFINE L == Len(delivered)
           k == IF L > RingSize THEN RingSize ELSE L
           filled == {i \in 0 .. RingSize : \A j \in 1 .. i : Back(j) # NoEvent}
           wanted == {i \in filled : n = 0 \/ i <= n}
           c == IF k > n THEN n ELSE k
<1>1. L \in Nat /\ RingSize \in Nat /\ k \in 0 .. RingSize /\ delivered \in [1 .. L -> Events]
  BY LenProperties, AuditAssumption DEF AuditIInv, AuditTypeOK
<1>2. \A j \in 1 .. RingSize : Back(j) # NoEvent <=> j <= k
  <2> SUFFICES ASSUME NEW j \in 1 .. RingSize PROVE Back(j) # NoEvent <=> j <= k
    OBVIOUS
  <2>1. j <= L <=> j <= k
    BY <1>1
  <2>2. Back(j) = IF j <= L THEN delivered[L + 1 - j] ELSE NoEvent
    BY DEF AuditIInv, RingFilled
  <2>3. j <= L => L + 1 - j \in 1 .. L
    BY <1>1
  <2> QED
    BY <1>1, <2>1, <2>2, <2>3, AuditAssumption
<1>3. filled = 0 .. k
  <2> HIDE DEF k
  <2>1. \A i \in 0 .. RingSize : (\A j \in 1 .. i : Back(j) # NoEvent) => i <= k
    <3> SUFFICES ASSUME NEW i \in 0 .. RingSize, \A j \in 1 .. i : Back(j) # NoEvent PROVE i <= k
      OBVIOUS
    <3>1. CASE i = 0
      BY <1>1, <3>1
    <3>2. CASE i # 0
      <4>1. i \in 1 .. RingSize /\ i \in 1 .. i
        BY <1>1, <3>2
      <4> QED
        BY <1>2, <4>1
    <3> QED
      BY <3>1, <3>2
  <2>2. \A i \in 0 .. k : i \in 0 .. RingSize /\ \A j \in 1 .. i : Back(j) # NoEvent
    BY <1>1, <1>2
  <2> QED
    BY <1>1, <2>1, <2>2
<1> HIDE DEF filled, k
<1>4. c \in wanted /\ c \in Nat /\ \A j \in wanted : j \in Nat /\ j <= c
  BY <1>1, <1>3
<1>5. RecentCount(n) = CHOOSE i \in wanted : \A j \in wanted : j <= i
  BY DEF RecentCount, filled
<1> HIDE DEF wanted, c
<1>6. \A i \in wanted : (\A j \in wanted : j <= i) => i = c
  BY <1>4
<1>7. RecentCount(n) = c
  BY <1>4, <1>5, <1>6
<1> QED
  BY <1>7 DEF c, k

\* For every size of the ring and however often it has wrapped: Recent and the
\* filtered queries answer with the newest events, oldest first (Recent, the ring).
THEOREM QueriesSeeNewestHolds == AuditSpec => []QueriesSeeNewest
<1>1. ASSUME AuditIInv PROVE QueriesSeeNewest
  <2> DEFINE L == Len(delivered)
             k == IF L > RingSize THEN RingSize ELSE L
             inRing == Newest(delivered, RingSize)
  <2>1. L \in Nat /\ RingSize \in Nat \ {0} /\ delivered \in Seq(Events) /\ k \in 0 .. RingSize /\ k <= L
    BY <1>1, LenProperties, AuditAssumption DEF AuditIInv, AuditTypeOK
  <2>2. /\ inRing \in Seq(Events) /\ Len(inRing) = k
        /\ \A i \in 1 .. k : inRing[i] = delivered[L - k + i]
    BY <2>1, NewestProperties
  <2> HIDE DEF inRing, k
  <2>3. ASSUME NEW n \in Nat \ {0} PROVE Recent(n) = Newest(inRing, n)
    <3> DEFINE c == IF k > n THEN n ELSE k
    <3>1. /\ Newest(inRing, n) \in Seq(Events) /\ Len(Newest(inRing, n)) = c
          /\ \A i \in 1 .. c : Newest(inRing, n)[i] = inRing[k - c + i]
      BY <2>2, NewestProperties
    <3>2. RecentCount(n) = c
      BY <1>1, RecentCountIs DEF k
    <3>3. c \in Nat /\ c <= k /\ c <= L /\ c <= RingSize
      BY <2>1
    <3> HIDE DEF c
    <3>4. Recent(n) = [i \in 1 .. c |-> Back(c + 1 - i)]
      BY <3>2 DEF Recent
    <3>5. ASSUME NEW i \in 1 .. c PROVE Newest(inRing, n)[i] = Back(c + 1 - i)
      <4>1. k - c + i \in 1 .. k /\ c + 1 - i \in 1 .. RingSize /\ c + 1 - i <= L
            /\ L - k + (k - c + i) = L - c + i /\ L + 1 - (c + 1 - i) = L - c + i
        BY <2>1, <3>3
      <4>2. Newest(inRing, n)[i] = delivered[L - c + i]
        BY <2>2, <3>1, <4>1
      <4>3. Back(c + 1 - i) = delivered[L - c + i]
        BY <1>1, <4>1 DEF AuditIInv, RingFilled
      <4> QED
        BY <4>2, <4>3
    <3>6. Newest(inRing, n) \in [1 .. c -> Events]
      BY <3>1, LenProperties
    <3> QED
      BY <3>4, <3>5, <3>6
  <2>4. Newest(inRing, RingSize) = inRing
    BY <2>1, <2>2 DEF Newest
  <2>5. Recent(RingSize) = inRing
    BY <2>1, <2>3, <2>4
  <2>6. ASSUME NEW matching, NEW limit
        PROVE  AuditEvents(matching, limit) = Newest(Matching(inRing, matching), limit)
    BY <2>5 DEF AuditEvents, Newest
  <2>7. \A n \in 1 .. RingSize + 1 : n \in Nat \ {0}
    BY <2>1
  <2> QED
    BY <2>3, <2>6, <2>7 DEF QueriesSeeNewest, inRing
<1> QED
  BY <1>1, AuditInvariance, PTL

-----------------------------------------------------------------------------

\* What the abstract log has taken and not delivered.
Taken == IF inHand = NoEvent THEN channel ELSE <<inHand>> \o channel

LEMMA TakenLog ==
  /\ Abstract!LogInit <=> fresh = Events /\ Taken = <<>> /\ delivered = <<>>
  /\ \A e : Abstract!Take(e) <=> /\ e \in fresh /\ fresh' = fresh \ {e}
                                /\ Taken' = Append(Taken, e) /\ UNCHANGED delivered
  /\ \A e : Abstract!Lose(e) <=> /\ e \in fresh /\ fresh' = fresh \ {e}
                                /\ UNCHANGED <<Taken, delivered>>
  /\ Abstract!Deliver <=> /\ Taken # <<>> /\ Taken' = Tail(Taken)
                          /\ delivered' = Append(delivered, Head(Taken)) /\ UNCHANGED fresh
BY DEF Abstract!LogInit, Abstract!Take, Abstract!Lose, Abstract!Deliver, Taken

\* An event in hand is the first of what is taken.
LEMMA Prepended ==
  ASSUME NEW s \in Seq(Events), NEW h \in Events
  PROVE  /\ <<h>> \o s # <<>> /\ Head(<<h>> \o s) = h /\ Tail(<<h>> \o s) = s
         /\ \A e \in Events : Append(<<h>> \o s, e) = <<h>> \o Append(s, e)
         /\ s # <<>> => <<Head(s)>> \o Tail(s) = s
<1>1. <<h>> \in Seq(Events) /\ Len(<<h>>) = 1
  OBVIOUS
<1> QED
  OBVIOUS

LEMMA LogStep == AuditIInv /\ [AuditNext]_auditVars => [Abstract!LogNext]_Abstract!logVars
<1> SUFFICES ASSUME AuditIInv, [AuditNext]_auditVars PROVE [Abstract!LogNext]_Abstract!logVars
  OBVIOUS
<1>1. channel \in Seq(Events) /\ (inHand # NoEvent => inHand \in Events)
  BY DEF AuditIInv, AuditTypeOK
<1>2. ASSUME NEW e \in Events, Emit(e) PROVE [Abstract!LogNext]_Abstract!logVars
  <2>1. e \in fresh /\ fresh' = fresh \ {e} /\ UNCHANGED <<inHand, delivered>>
    BY <1>2 DEF Emit
  <2>2. CASE EmitAccepted(e)
    <3>1. channel' = Append(channel, e)
      BY <2>2 DEF EmitAccepted
    <3>2. Taken' = Append(Taken, e)
      BY <1>1, <2>1, <3>1, Prepended DEF Taken
    <3>3. Abstract!Take(e)
      BY <2>1, <3>2, TakenLog
    <3> QED
      BY <3>3 DEF Abstract!LogNext
  <2>3. CASE EmitDropped(e)
    <3>1. UNCHANGED Taken
      BY <2>1, <2>3 DEF EmitDropped, Taken
    <3>2. Abstract!Lose(e)
      BY <2>1, <3>1, TakenLog
    <3> QED
      BY <3>2 DEF Abstract!LogNext
  <2> QED
    BY <1>2, <2>2, <2>3 DEF Emit
<1>3. CASE Receive
  <2>1. /\ inHand = NoEvent /\ channel # <<>> /\ channel' = Tail(channel) /\ inHand' = Head(channel)
        /\ UNCHANGED <<fresh, delivered>>
    BY <1>3 DEF Receive, AuditIInv, LoopHolds
  <2>2. Head(channel) \in Events
    BY <1>1, <2>1, HeadTailProperties
  <2>3. Taken = channel /\ Taken' = <<Head(channel)>> \o Tail(channel)
    BY <2>1, <2>2, AuditAssumption DEF Taken
  <2>4. Taken' = Taken
    BY <1>1, <2>1, <2>2, <2>3, Prepended
  <2> QED
    BY <2>1, <2>4 DEF Abstract!logVars, Taken
<1>4. CASE AppendToRing
  <2>1. /\ inHand # NoEvent /\ inHand' = NoEvent /\ delivered' = Append(delivered, inHand)
        /\ UNCHANGED <<fresh, channel>>
    BY <1>4 DEF AppendToRing, AuditIInv, LoopHolds
  <2>2. Taken = <<inHand>> \o channel /\ Taken' = channel
    BY <2>1 DEF Taken
  <2>3. Taken # <<>> /\ Head(Taken) = inHand /\ Tail(Taken) = channel
    BY <1>1, <2>1, <2>2, Prepended
  <2>4. Abstract!Deliver
    BY <2>1, <2>2, <2>3, TakenLog
  <2> QED
    BY <2>4 DEF Abstract!LogNext
<1>5. CASE Write \/ Close \/ Exit \/ DeleteOldFiles \/ NewDay \/ UNCHANGED auditVars
  <2>1. UNCHANGED <<fresh, inHand, channel, delivered>>
    BY <1>5 DEF Write, Close, Exit, DeleteOldFiles, NewDay, auditVars
  <2>2. UNCHANGED <<fresh, Taken, delivered>>
    BY <2>1 DEF Taken
  <2> QED
    BY <2>2 DEF Abstract!logVars, Taken
<1> QED
  BY <1>2, <1>3, <1>4, <1>5 DEF AuditNext

\* Every goroutine's Emit and the write loop, step by step: an event is taken or lost at
\* once, and what is taken comes out in order and once (Emit, writeLoop).
THEOREM AuditImplementsLossyLog == AuditSpec => IsLossyLog
<1>1. AuditInit => Abstract!LogInit
  BY TakenLog DEF AuditInit, Taken
<1> QED
  BY <1>1, LogStep, AuditInvariance, PTL DEF AuditSpec, IsLossyLog, Abstract!LogSpec

-----------------------------------------------------------------------------
(* Sessions *)

\* A new session is in one goroutine's hands until it is in the map.
NewSessions ==
  /\ \A r \in Requests : at[r] = "store" => mine[r] \in issued \ live
  /\ \A r, q \in Requests : at[r] = "store" /\ at[q] = "store" /\ mine[r] = mine[q] => r = q

Reaping == IF reaper = "uncount" THEN 1 ELSE 0
Number(where) == Cardinality(At(where))

\* What the counter is, at any moment: the map, less what is stored and not yet counted
\* up, more what is deleted and not yet counted down, less what was counted down twice.
CountExplained == count = Cardinality(live) - Number("add") + Number("uncount") + Reaping - drift

\* Who is past the test of the cap has passed it with a counter below the cap.
PastTheTest == count + Number("store") + Number("add") <= Cap - 1 + Cardinality(Requests)

\* The sweep is on time, and has dealt with every session that is not on its list.
SweepOnTime ==
  /\ sweptAt <= clock /\ clock <= sweptAt + 1
  /\ reaper # "wait" => clock = sweptAt
  /\ \A s \in live : \/ reaper # "wait" /\ s \in todo
                     \/ reaper = "delete" /\ s = victim
                     \/ sweptAt <= seen[s] + SessionTTL

McpIInv == /\ McpTypeOK /\ NewSessions /\ CountExplained /\ PastTheTest
           /\ SweepOnTime /\ IdleBounded

LEMMA McpFinite ==
  ASSUME McpTypeOK
  PROVE  /\ IsFiniteSet(live) /\ Cardinality(live) \in Nat
         /\ \A w : IsFiniteSet(At(w)) /\ Number(w) \in Nat
         /\ Cardinality(Requests) \in Nat
<1>1. live \subseteq SessionIds /\ \A w : At(w) \subseteq Requests
  BY DEF McpTypeOK, At
<1> QED
  BY <1>1, McpAssumption, FS_Subset, FS_CardinalityType DEF Number

LEMMA McpInitInv == McpInit => McpIInv
<1> SUFFICES ASSUME McpInit PROVE McpIInv
  OBVIOUS
<1>1. McpTypeOK
  BY McpAssumption DEF McpInit, McpTypeOK
<1>2. NewSessions /\ SweepOnTime /\ IdleBounded
  BY DEF McpInit, NewSessions, SweepOnTime, IdleBounded
<1>3. \A w : w # "idle" => At(w) = {}
  BY DEF McpInit, At
<1>4. Number("store") = 0 /\ Number("add") = 0 /\ Number("uncount") = 0 /\ Cardinality(live) = 0
  BY <1>3, FS_EmptySet DEF Number, McpInit
<1>5. CountExplained /\ PastTheTest
  BY <1>1, <1>4, McpFinite, McpAssumption DEF CountExplained, PastTheTest, Reaping, McpInit
<1> QED
  BY <1>1, <1>2, <1>5 DEF McpIInv

\* A request that goes from one place to another leaves the numbers elsewhere alone.
LEMMA NumberMoves ==
  ASSUME McpTypeOK, NEW r \in Requests, NEW to, at' = [at EXCEPT ![r] = to], at[r] # to, NEW w
  PROVE  Number(w)' = IF w = to THEN Number(w) + 1
                      ELSE IF w = at[r] THEN Number(w) - 1 ELSE Number(w)
<1>1. At(w)' = IF w = to THEN At(w) \cup {r} ELSE IF w = at[r] THEN At(w) \ {r} ELSE At(w)
  BY DEF At, McpTypeOK
<1>2. IsFiniteSet(At(w)) /\ Number(w) \in Nat
  BY McpFinite
<1>3. CASE w = to
  <2>1. At(w)' = At(w) \cup {r} /\ r \notin At(w)
    BY <1>1, <1>3 DEF At
  <2> QED
    BY <1>2, <1>3, <2>1, FS_AddElement DEF Number
<1>4. CASE w # to /\ w = at[r]
  <2>1. At(w)' = At(w) \ {r} /\ r \in At(w)
    BY <1>1, <1>4 DEF At
  <2> QED
    BY <1>2, <1>4, <2>1, FS_RemoveElement DEF Number
<1>5. CASE w # to /\ w # at[r]
  BY <1>1, <1>5 DEF Number
<1> QED
  BY <1>3, <1>4, <1>5

\* A request that is not storing a session leaves room for one that is.
LEMMA NumbersBelowRequests ==
  ASSUME McpTypeOK, NEW r \in Requests, at[r] \notin {"store", "add"}
  PROVE  Number("store") + Number("add") + 1 <= Cardinality(Requests)
<1> DEFINE S == At("store")
           A == At("add")
<1>1. S \cap A = {} /\ S \cup A \in SUBSET (Requests \ {r})
  BY DEF At
<1>2. IsFiniteSet(S) /\ IsFiniteSet(A) /\ Cardinality(S) = Number("store") /\ Cardinality(A) = Number("add")
  BY McpFinite DEF Number
<1>3. Cardinality(S \cap A) = 0
  BY <1>1, FS_EmptySet
<1> HIDE DEF S, A
<1>4. Cardinality(S \cup A) = Cardinality(S) + Cardinality(A)
  <2>1. Cardinality(S \cup A) = Cardinality(S) + Cardinality(A) - Cardinality(S \cap A)
    BY <1>2, FS_Union
  <2>2. Cardinality(S) \in Nat /\ Cardinality(A) \in Nat
    BY <1>2, FS_CardinalityType
  <2> QED
    BY <1>3, <2>1, <2>2
<1>5. IsFiniteSet(Requests \ {r}) /\ Cardinality(Requests \ {r}) = Cardinality(Requests) - 1
  BY McpAssumption, FS_RemoveElement
<1>6. Cardinality(S \cup A) <= Cardinality(Requests \ {r})
  BY <1>1, <1>5, FS_Subset
<1> QED
  BY <1>2, <1>4, <1>5, <1>6, McpFinite

\* Arrive, the token check and the calls that open and close no session.
LEMMA CallStepInv ==
  ASSUME McpIInv, NEW r \in Requests,
         \/ \E tok \in Bearers : Arrive(r, tok)
         \/ Unauthorized(r) \/ Authorized(r) \/ Serve(r) \/ TooManySessions(r)
  PROVE  McpIInv'
<1> USE DEF McpIInv
<1>1. /\ UNCHANGED <<clock, live, count, reaper, todo, victim, sweptAt, issued, drift>>
      /\ at[r] \in {"idle", "auth", "route"}
  BY DEF Arrive, Unauthorized, Authorized, Serve, TooManySessions, Touch, reaperVars
<1>2. PICK to \in {"idle", "auth", "route"} : at' = [at EXCEPT ![r] = to] /\ at[r] # to
  BY DEF Arrive, Unauthorized, Authorized, Serve, TooManySessions, Answered, GoTo
<1>3. seen' = seen \/ \E s \in live : seen' = [seen EXCEPT ![s] = clock]
  BY DEF Arrive, Unauthorized, Authorized, Serve, TooManySessions, Touch
<1>4. mine' = mine \/ mine' = [mine EXCEPT ![r] = NoSession]
  BY DEF Arrive, Unauthorized, Authorized, Serve, TooManySessions, Answered
<1>5. token' \in [Requests -> Bearers \cup {NoToken}]
  BY DEF Arrive, Unauthorized, Authorized, Serve, TooManySessions, Answered, McpTypeOK
<1>6. McpTypeOK'
  <2>1. at' \in [Requests -> {"idle", "auth", "route", "store", "add", "uncount"}]
    BY <1>2 DEF McpTypeOK
  <2>2. seen' \in [SessionIds -> 0 .. Horizon]
    BY <1>3 DEF McpTypeOK
  <2>3. mine' \in [Requests -> SessionIds \cup {NoSession}]
    BY <1>4 DEF McpTypeOK
  <2> QED
    BY <1>1, <1>5, <2>1, <2>2, <2>3 DEF McpTypeOK
<1>7. NewSessions'
  BY <1>1, <1>2, <1>4 DEF NewSessions, McpTypeOK
<1>8. Number("store")' = Number("store") /\ Number("add")' = Number("add")
      /\ Number("uncount")' = Number("uncount")
  BY <1>1, <1>2, NumberMoves
<1>9. CountExplained' /\ PastTheTest'
  BY <1>1, <1>8 DEF CountExplained, PastTheTest, Reaping
<1>10. \A s \in live : seen'[s] = seen[s] \/ seen'[s] = clock
  BY <1>3 DEF McpTypeOK
<1>11. sweptAt \in Nat /\ clock \in Nat /\ \A s \in live : seen[s] \in Nat
  BY DEF McpTypeOK
<1>12. SweepOnTime' /\ IdleBounded'
  BY <1>1, <1>10, <1>11 DEF SweepOnTime, IdleBounded, SessionTTL, SweepEvery
<1> QED
  BY <1>6, <1>7, <1>9, <1>12

\* Opening a session.
LEMMA AdmitInv ==
  ASSUME McpIInv, NEW r \in Requests, Admit(r)
  PROVE  McpIInv'
<1> USE DEF McpIInv
<1>1. PICK s \in SessionIds \ issued : issued' = issued \cup {s} /\ mine' = [mine EXCEPT ![r] = s]
  BY DEF Admit
<1>2. /\ at[r] = "route" /\ count < Cap /\ at' = [at EXCEPT ![r] = "store"]
      /\ UNCHANGED <<clock, live, seen, count, token, reaper, todo, victim, sweptAt, drift>>
  BY DEF Admit, GoTo, reaperVars
<1>3. McpTypeOK'
  BY <1>1, <1>2 DEF McpTypeOK
<1>4. NewSessions'
  BY <1>1, <1>2 DEF NewSessions, McpTypeOK
<1>5. Number("add")' = Number("add") /\ Number("uncount")' = Number("uncount")
  BY <1>2, NumberMoves
<1>6. CountExplained'
  BY <1>2, <1>5 DEF CountExplained, Reaping
<1>7. Number("store") + Number("add") + 1 <= Cardinality(Requests)
  BY <1>2, NumbersBelowRequests
<1>8. /\ Number("store") \in Nat /\ Number("add") \in Nat /\ Cardinality(Requests) \in Nat
      /\ Number("store")' = Number("store") + 1
  BY <1>2, McpFinite, NumberMoves
<1>9. PastTheTest'
  BY <1>2, <1>5, <1>7, <1>8, McpAssumption DEF PastTheTest, McpTypeOK
<1>10. SweepOnTime' /\ IdleBounded'
  BY <1>2 DEF SweepOnTime, IdleBounded
<1> QED
  BY <1>3, <1>4, <1>6, <1>9, <1>10

LEMMA StoreSessionInv ==
  ASSUME McpIInv, NEW r \in Requests, StoreSession(r)
  PROVE  McpIInv'
<1> USE DEF McpIInv
<1> DEFINE s == mine[r]
<1>1. /\ at[r] = "store" /\ at' = [at EXCEPT ![r] = "add"] /\ s \in issued \ live
      /\ live' = live \cup {s} /\ seen' = [seen EXCEPT ![s] = clock]
      /\ UNCHANGED <<clock, count, mine, token, reaper, todo, victim, sweptAt, issued, drift>>
  BY DEF StoreSession, GoTo, reaperVars, NewSessions
<1>2. McpTypeOK'
  BY <1>1 DEF McpTypeOK
<1>3. NewSessions'
  BY <1>1 DEF NewSessions, McpTypeOK
<1>4. Cardinality(live') = Cardinality(live) + 1
  BY <1>1, McpFinite, FS_AddElement
<1>5. Number("store")' = Number("store") - 1 /\ Number("add")' = Number("add") + 1
      /\ Number("uncount")' = Number("uncount")
  BY <1>1, NumberMoves
<1>6. Number("store") \in Nat /\ Number("add") \in Nat /\ Number("uncount") \in Nat
      /\ Cardinality(live) \in Nat /\ count \in Int /\ drift \in Nat /\ Reaping \in Nat
  BY McpFinite DEF McpTypeOK, Reaping
<1>7. Reaping' = Reaping
  BY <1>1 DEF Reaping
<1>8. CountExplained'
  BY <1>1, <1>4, <1>5, <1>6, <1>7 DEF CountExplained
<1>9. PastTheTest'
  BY <1>1, <1>5, <1>6 DEF PastTheTest
<1>10. /\ seen'[s] = clock /\ sweptAt \in Nat /\ clock \in Nat
       /\ \A q \in live : seen'[q] = seen[q]
  BY <1>1 DEF McpTypeOK
<1>11. SweepOnTime' /\ IdleBounded'
  BY <1>1, <1>10 DEF SweepOnTime, IdleBounded, SessionTTL, SweepEvery
<1> QED
  BY <1>2, <1>3, <1>8, <1>9, <1>11

LEMMA CountUpInv ==
  ASSUME McpIInv, NEW r \in Requests, CountUp(r) \/ CountDown(r)
  PROVE  McpIInv'
<1> USE DEF McpIInv
<1>1. /\ at[r] \in {"add", "uncount"} /\ at' = [at EXCEPT ![r] = "idle"]
      /\ count' = IF at[r] = "add" THEN count + 1 ELSE count - 1
      /\ mine' = [mine EXCEPT ![r] = NoSession] /\ token' = [token EXCEPT ![r] = NoToken]
      /\ UNCHANGED <<clock, live, seen, reaper, todo, victim, sweptAt, issued, drift>>
  BY DEF CountUp, CountDown, Answered, GoTo, reaperVars
<1>2. McpTypeOK'
  BY <1>1 DEF McpTypeOK
<1>3. NewSessions'
  BY <1>1 DEF NewSessions, McpTypeOK
<1>4. Number("store")' = Number("store")
  BY ZenonT(40), <1>1, NumberMoves
<1>5. Number("add")' = IF at[r] = "add" THEN Number("add") - 1 ELSE Number("add")
  BY ZenonT(40), <1>1, NumberMoves
<1>6. Number("uncount")' = IF at[r] = "uncount" THEN Number("uncount") - 1 ELSE Number("uncount")
  BY ZenonT(40), <1>1, NumberMoves
<1>7. Number("store") \in Nat /\ Number("add") \in Nat /\ Number("uncount") \in Nat
      /\ Cardinality(live) \in Nat /\ count \in Int /\ drift \in Nat /\ Reaping \in Nat
      /\ Cardinality(Requests) \in Nat
  BY McpFinite DEF McpTypeOK, Reaping
<1>8. Reaping' = Reaping
  BY <1>1 DEF Reaping
<1>9. CountExplained'
  BY <1>1, <1>5, <1>6, <1>7, <1>8 DEF CountExplained
<1>10. PastTheTest'
  BY <1>1, <1>4, <1>5, <1>7, McpAssumption DEF PastTheTest
<1>11. SweepOnTime' /\ IdleBounded'
  BY <1>1 DEF SweepOnTime, IdleBounded
<1> QED
  BY <1>2, <1>3, <1>9, <1>10, <1>11

LEMMA TerminateInv ==
  ASSUME McpIInv, NEW r \in Requests, Terminate(r)
  PROVE  McpIInv'
<1> USE DEF McpIInv
<1>1. PICK s \in live : live' = live \ {s}
  BY DEF Terminate
<1>2. /\ at[r] = "idle" /\ at' = [at EXCEPT ![r] = "uncount"]
      /\ UNCHANGED <<clock, seen, count, mine, token, reaper, todo, victim, sweptAt, issued, drift>>
  BY DEF Terminate, GoTo, reaperVars
<1>3. McpTypeOK'
  BY <1>1, <1>2 DEF McpTypeOK
<1>4. NewSessions'
  BY <1>1, <1>2 DEF NewSessions, McpTypeOK
<1>5. Cardinality(live') = Cardinality(live) - 1
  BY <1>1, McpFinite, FS_RemoveElement
<1>6. Number("store")' = Number("store") /\ Number("add")' = Number("add")
      /\ Number("uncount")' = Number("uncount") + 1
  BY ZenonT(40), <1>2, NumberMoves
<1>7. Number("add") \in Nat /\ Number("uncount") \in Nat
      /\ Cardinality(live) \in Nat /\ count \in Int /\ drift \in Nat /\ Reaping \in Nat
  BY McpFinite DEF McpTypeOK, Reaping
<1>8. Reaping' = Reaping
  BY <1>2 DEF Reaping
<1>9. CountExplained'
  BY <1>2, <1>5, <1>6, <1>7, <1>8 DEF CountExplained
<1>10. PastTheTest'
  BY <1>2, <1>6 DEF PastTheTest
<1>11. SweepOnTime' /\ IdleBounded'
  BY <1>1, <1>2 DEF SweepOnTime, IdleBounded
<1> QED
  BY <1>3, <1>4, <1>9, <1>10, <1>11

\* The reaper's steps leave the requests alone.
LEMMA ReaperStepInv ==
  ASSUME McpIInv,
         SweepBegins \/ (\E s \in SessionIds : Look(s)) \/ Reap \/ ReapCount \/ SweepEnds \/ McpTick
  PROVE  McpIInv'
<1> USE DEF McpIInv
<1>1. UNCHANGED <<seen, at, mine, token, issued>> /\ live' \subseteq live
  BY DEF SweepBegins, Look, Reap, ReapCount, SweepEnds, McpTick
<1>2. NewSessions'
  BY <1>1 DEF NewSessions
<1>3. \A w : Number(w)' = Number(w)
  BY <1>1 DEF Number, At
<1>4. Number("store") \in Nat /\ Number("add") \in Nat /\ Number("uncount") \in Nat
      /\ Cardinality(live) \in Nat /\ count \in Int /\ drift \in Nat
      /\ Cardinality(Requests) \in Nat /\ IsFiniteSet(live)
      /\ clock \in Nat /\ sweptAt \in Nat /\ Horizon \in Nat
      /\ \A s \in live : seen[s] \in Nat
  BY McpFinite, McpAssumption DEF McpTypeOK
<1>5. CASE SweepBegins
  <2>1. McpTypeOK'
    BY <1>1, <1>5 DEF SweepBegins, McpTypeOK
  <2>2. CountExplained' /\ PastTheTest'
    BY <1>3, <1>5 DEF SweepBegins, CountExplained, PastTheTest, Reaping
  <2>3. SweepOnTime' /\ IdleBounded'
    BY <1>4, <1>5 DEF SweepBegins, SweepOnTime, IdleBounded
  <2> QED
    BY <1>2, <2>1, <2>2, <2>3
<1>6. ASSUME NEW s \in SessionIds, Look(s) PROVE McpIInv'
  <2>1. McpTypeOK'
    BY <1>1, <1>6 DEF Look, McpTypeOK
  <2>2. CountExplained' /\ PastTheTest'
    BY <1>3, <1>6 DEF Look, CountExplained, PastTheTest, Reaping
  <2>3. SweepOnTime' /\ IdleBounded'
    BY <1>4, <1>6 DEF Look, Idle, SweepOnTime, IdleBounded, SessionTTL, SweepEvery
  <2> QED
    BY <1>2, <2>1, <2>2, <2>3
<1>7. CASE Reap
  <2>1. McpTypeOK'
    BY <1>1, <1>7 DEF Reap, McpTypeOK
  <2>2. Cardinality(live') = IF victim \in live THEN Cardinality(live) - 1 ELSE Cardinality(live)
    BY <1>4, <1>7, FS_RemoveElement DEF Reap
  <2>3. CountExplained' /\ PastTheTest'
    BY <1>3, <1>4, <1>7, <2>2 DEF Reap, CountExplained, PastTheTest, Reaping
  <2>4. SweepOnTime' /\ IdleBounded'
    BY <1>4, <1>7 DEF Reap, SweepOnTime, IdleBounded
  <2> QED
    BY <1>2, <2>1, <2>3, <2>4
<1>8. CASE ReapCount
  <2>1. McpTypeOK'
    BY <1>1, <1>8 DEF ReapCount, McpTypeOK
  <2>2. CountExplained' /\ PastTheTest'
    BY <1>3, <1>4, <1>8, McpAssumption DEF ReapCount, CountExplained, PastTheTest, Reaping
  <2>3. SweepOnTime' /\ IdleBounded'
    BY <1>4, <1>8 DEF ReapCount, SweepOnTime, IdleBounded
  <2> QED
    BY <1>2, <2>1, <2>2, <2>3
<1>9. CASE SweepEnds
  <2>1. McpTypeOK'
    BY <1>1, <1>9 DEF SweepEnds, McpTypeOK
  <2>2. CountExplained' /\ PastTheTest'
    BY <1>3, <1>9 DEF SweepEnds, CountExplained, PastTheTest, Reaping
  <2>3. SweepOnTime' /\ IdleBounded'
    BY <1>4, <1>9 DEF SweepEnds, SweepOnTime, IdleBounded
  <2> QED
    BY <1>2, <2>1, <2>2, <2>3
<1>10. CASE McpTick
  <2>1. McpTypeOK'
    BY <1>1, <1>4, <1>10 DEF McpTick, McpTypeOK, reaperVars
  <2>2. CountExplained' /\ PastTheTest'
    BY <1>3, <1>10 DEF McpTick, CountExplained, PastTheTest, Reaping, reaperVars
  <2>3. clock' = clock + 1 /\ clock <= sweptAt /\ reaper = "wait"
        /\ UNCHANGED <<live, reaper, todo, victim, sweptAt>>
    BY <1>4, <1>10 DEF McpTick, SweepDue, SweepEvery, SessionTTL, reaperVars
  <2>4. SweepOnTime' /\ IdleBounded'
    BY <1>1, <1>4, <2>3 DEF SweepOnTime, IdleBounded, SessionTTL, SweepEvery
  <2> QED
    BY <1>2, <2>1, <2>2, <2>4
<1> QED
  BY <1>5, <1>6, <1>7, <1>8, <1>9, <1>10

LEMMA McpStepInv == McpIInv /\ [McpNext]_mcpVars => McpIInv'
<1> SUFFICES ASSUME McpIInv, [McpNext]_mcpVars PROVE McpIInv'
  OBVIOUS
<1>1. ASSUME NEW r \in Requests,
             \/ \E tok \in Bearers : Arrive(r, tok)
             \/ Unauthorized(r) \/ Authorized(r) \/ Serve(r) \/ TooManySessions(r)
      PROVE  McpIInv'
  BY <1>1, CallStepInv
<1>2. ASSUME NEW r \in Requests,
             Admit(r) \/ StoreSession(r) \/ CountUp(r) \/ Terminate(r) \/ CountDown(r)
      PROVE  McpIInv'
  BY <1>2, AdmitInv, StoreSessionInv, CountUpInv, TerminateInv
<1>3. CASE UNCHANGED mcpVars
  BY <1>3 DEF mcpVars, McpIInv, McpTypeOK, NewSessions, CountExplained, PastTheTest, SweepOnTime,
              IdleBounded, Number, At, Reaping
<1> QED
  BY <1>1, <1>2, <1>3, ReaperStepInv DEF McpNext

LEMMA McpInvariance == McpSpec => []McpIInv
BY McpInitInv, McpStepInv, PTL DEF McpSpec

\* Sessions, counter, requests and reaper keep their types (Handler).
THEOREM McpTypeCorrectness == McpSpec => []McpTypeOK
<1>1. McpIInv => McpTypeOK
  BY DEF McpIInv
<1> QED
  BY <1>1, McpInvariance, PTL

\* For every cap and every number of requests: a refusal for too many sessions is
\* justified, and the map outgrows the cap only by the requests that passed the test
\* together and the sessions counted down twice (handleInitialize, handleDelete, sweep).
THEOREM CapHonouredHolds == McpSpec => []CapHonoured
<1>1. McpIInv => CapHonoured
  <2> SUFFICES ASSUME McpIInv PROVE CapHonoured
    OBVIOUS
  <2>1. Number("store") \in Nat /\ Number("add") \in Nat /\ Number("uncount") \in Nat
        /\ Cardinality(live) \in Nat /\ count \in Int /\ drift \in Nat
        /\ Cardinality(Requests) \in Nat /\ Cap \in Nat /\ Reaping \in {0, 1}
    BY McpFinite, McpAssumption DEF McpIInv, McpTypeOK, Reaping
  <2>2. Leaving = Number("uncount") + Reaping
    BY DEF Leaving, Number, Reaping
  <2>3. CountExplained /\ PastTheTest
    BY DEF McpIInv
  <2> QED
    BY <2>1, <2>2, <2>3 DEF CapHonoured, RefusalsJustified, OvershootBounded, CountExplained, PastTheTest
<1> QED
  BY <1>1, McpInvariance, PTL

\* However sessions are opened, used and closed while a sweep runs: an idle session is
\* gone after one and a half times its time to live (startReaper).
THEOREM IdleBoundedHolds == McpSpec => []IdleBounded
<1>1. McpIInv => IdleBounded
  BY DEF McpIInv
<1> QED
  BY <1>1, McpInvariance, PTL

-----------------------------------------------------------------------------
(* Authorizations *)

Past == {"exchange", "write", "find", "create", "update", "done"}

\* A flow that was begun keeps what it is for.  A reply and a record know that flow, and,
\* for a flow of the browser, the name it was begun for.
FlowsKnown ==
  /\ \A f \in Flows :
       /\ flow[f].kind = "none" => flow[f] = NoFlow /\ spent[f] = 0 /\ states[f] = Expired
       /\ flow[f].kind = "browser" => flow[f].name \in FlowNames
  /\ \A r \in Replies : replyAt[r] # "idle" =>
       /\ reply[r].flow \in Flows /\ reply[r].name \in FlowNames
       /\ flow[reply[r].flow].kind # "none"
       /\ flow[reply[r].flow].kind = "browser" => reply[r].name = flow[reply[r].flow].name
  /\ \A n \in FlowNames : record[n] # Nobody =>
       /\ flow[record[n]].kind # "none"
       /\ flow[record[n]].kind = "browser" => n = flow[record[n]].name

Exchanging(f) == {r \in Replies : replyAt[r] = "exchange" /\ reply[r].flow = f}

\* The token of a browser flow, the callback that it let through and the exchange that
\* was tried are the same permission, in three places.
OnePermission ==
  \A f \in Flows : flow[f].kind = "browser" =>
    /\ spent[f] <= 1
    /\ states[f] # Expired => spent[f] = 0 /\ Exchanging(f) = {}
    /\ spent[f] = 1 => Exchanging(f) = {}
    /\ \A r, s \in Exchanging(f) : r = s

FlowIInv == FlowTypeOK /\ FlowsKnown /\ OnePermission

LEMMA FlowInitInv == FlowInit => FlowIInv
<1> SUFFICES ASSUME FlowInit PROVE FlowIInv
  OBVIOUS
<1>1. Expired \in Nat
  BY FlowAssumption DEF Expired
<1>2. FlowTypeOK
  BY <1>1, FlowAssumption DEF FlowInit, FlowTypeOK, NoFlow
<1>3. FlowsKnown
  BY DEF FlowInit, FlowsKnown, NoFlow
<1>4. OnePermission
  BY DEF FlowInit, OnePermission, NoFlow
<1> QED
  BY <1>2, <1>3, <1>4 DEF FlowIInv

\* Steps that change no flow and no reply's permission.
LEMMA SettingsStepInv ==
  ASSUME FlowIInv,
         \/ \E p \in Providers : SaveOAuthConfig(p) \/ DeleteOAuthConfig(p)
         \/ \E f \in Flows : Agree(f)
         \/ \E n \in FlowNames : AddService(n) \/ DeleteService(n)
         \/ FlowTick
  PROVE  FlowIInv'
<1> USE DEF FlowIInv
<1>1. UNCHANGED <<flow, states, replyAt, reply, result, record, spent, usable>>
  BY DEF SaveOAuthConfig, DeleteOAuthConfig, Agree, AddService, DeleteService, FlowTick,
         replyVars, serviceVars, flowHistory
<1>2. FlowTypeOK'
  <2>1. client' \in SUBSET Providers /\ codes' \in SUBSET Flows /\ registered' \in SUBSET FlowNames
        /\ credential' \in [FlowNames -> Flows \cup {Nobody, Typed}]
    BY DEF SaveOAuthConfig, DeleteOAuthConfig, Agree, AddService, DeleteService, FlowTick,
           serviceVars, FlowTypeOK
  <2>2. flowClock' \in 0 .. FlowHorizon
    BY FlowAssumption
       DEF SaveOAuthConfig, DeleteOAuthConfig, Agree, AddService, DeleteService, FlowTick, FlowTypeOK
  <2> QED
    BY <1>1, <2>1, <2>2 DEF FlowTypeOK
<1>3. FlowsKnown' /\ OnePermission'
  BY <1>1 DEF FlowsKnown, OnePermission, Exchanging
<1> QED
  BY <1>2, <1>3

LEMMA StartStepInv ==
  ASSUME FlowIInv, NEW f \in Flows, NEW p \in Providers,
         StartDeviceFlow(f, p) \/ \E n \in FlowNames : StartOAuth(f, n, p)
  PROVE  FlowIInv'
<1> USE DEF FlowIInv
<1>1. /\ flow[f] = NoFlow
      /\ UNCHANGED <<flowClock, client, codes, replyAt, reply, result, record, registered,
                     credential, spent, usable>>
  BY DEF StartDeviceFlow, StartOAuth, replyVars, serviceVars, flowHistory
<1>2. PICK what \in [kind : {"browser", "device"}, name : FlowNames \cup {Nobody},
                     provider : Providers \cup {Nobody}] :
        flow' = [flow EXCEPT ![f] = what] /\ (what.kind = "browser" => what.name \in FlowNames)
  <2> DEFINE Begun == [kind : {"browser", "device"}, name : FlowNames \cup {Nobody},
                       provider : Providers \cup {Nobody}]
             Begins(what) == /\ flow' = [flow EXCEPT ![f] = what]
                             /\ what.kind = "browser" => what.name \in FlowNames
  <2>1. CASE StartDeviceFlow(f, p)
    <3> DEFINE what == [kind |-> "device", name |-> Nobody, provider |-> p]
    <3>1. what \in Begun
      OBVIOUS
    <3>2. Begins(what)
      BY <2>1 DEF StartDeviceFlow
    <3> QED
      BY <3>1, <3>2
  <2>2. ASSUME NEW n \in FlowNames, StartOAuth(f, n, p)
        PROVE  \E what \in Begun : Begins(what)
    <3> DEFINE what == [kind |-> "browser", name |-> n, provider |-> p]
    <3>1. what \in Begun
      OBVIOUS
    <3>2. Begins(what)
      BY <2>2 DEF StartOAuth
    <3> QED
      BY <3>1, <3>2
  <2> QED
    BY <2>1, <2>2
<1>3. states' = states \/ states' = [states EXCEPT ![f] = flowClock + StateTTL]
  BY DEF StartDeviceFlow, StartOAuth
<1>4. flowClock + StateTTL \in 0 .. Expired
  BY FlowAssumption DEF FlowTypeOK, Expired
<1>5. FlowTypeOK'
  <2>1. flow' \in [Flows -> [kind : {"none", "browser", "device"}, name : FlowNames \cup {Nobody},
                             provider : Providers \cup {Nobody}]]
    BY <1>2 DEF FlowTypeOK
  <2>2. states' \in [Flows -> 0 .. Expired]
    BY <1>3, <1>4 DEF FlowTypeOK
  <2> QED
    BY <1>1, <2>1, <2>2 DEF FlowTypeOK
<1>6. flow[f].kind = "none" /\ flow'[f].kind \in {"browser", "device"} /\ spent[f] = 0
  BY <1>1, <1>2 DEF FlowTypeOK, NoFlow, FlowsKnown
<1>7. \A g \in Flows \ {f} : flow'[g] = flow[g] /\ states'[g] = states[g]
  BY <1>2, <1>3 DEF FlowTypeOK
<1>8. /\ \A r \in Replies : replyAt[r] # "idle" => reply[r].flow # f
      /\ \A n \in FlowNames : record[n] # Nobody => record[n] # f /\ record[n] \in Flows
  BY <1>6 DEF FlowsKnown, FlowTypeOK
<1>9. FlowsKnown'
  BY <1>1, <1>2, <1>6, <1>7, <1>8 DEF FlowsKnown, FlowTypeOK
<1>10. OnePermission'
  <2>1. \A g : Exchanging(g)' = Exchanging(g)
    BY <1>1 DEF Exchanging
  <2>2. Exchanging(f) = {}
    BY <1>8 DEF Exchanging
  <2> QED
    BY <1>1, <1>6, <1>7, <2>1, <2>2 DEF OnePermission
<1> QED
  BY <1>5, <1>9, <1>10

\* A reply goes on; the others stay where they are.
LEMMA ReplyMoves ==
  ASSUME FlowIInv, NEW r \in Replies,
         UNCHANGED flow, FlowTypeOK',
         \A s \in Replies \ {r} : replyAt'[s] = replyAt[s] /\ reply'[s] = reply[s],
         reply'[r].flow \in Flows, reply'[r].name \in FlowNames,
         flow[reply'[r].flow].kind # "none",
         flow[reply'[r].flow].kind = "browser" => reply'[r].name = flow[reply'[r].flow].name,
         \A n \in FlowNames : \/ record'[n] = record[n]
                              \/ record'[n] = reply'[r].flow /\ n = reply'[r].name,
         \A f \in Flows \ {reply'[r].flow} : spent'[f] = spent[f] /\ states'[f] = states[f],
         OnePermission'
  PROVE  FlowIInv'
BY DEF FlowIInv, FlowsKnown

LEMMA CallbackInv ==
  ASSUME FlowIInv, NEW r \in Replies, NEW f \in Flows, Callback(r, f)
  PROVE  FlowIInv'
<1> USE DEF FlowIInv
<1>1. /\ replyAt[r] = "idle" /\ flow[f].kind = "browser"
      /\ reply' = [reply EXCEPT ![r] = [flow |-> f, name |-> flow[f].name]]
      /\ states' = [states EXCEPT ![f] = Expired]
      /\ UNCHANGED <<flowClock, client, flow, codes, record, registered, credential, spent, usable>>
  BY DEF Callback, Consume, serviceVars, flowHistory
<1>2. PICK to \in {"exchange", "done"} :
        /\ replyAt' = [replyAt EXCEPT ![r] = to]
        /\ to = "exchange" => states[f] # Expired
  BY DEF Callback, ReplyGoes, Tells
<1>3. result' \in [Replies -> {"none", "error", "pending", "expired", "success"}]
  BY DEF Callback, Tells, FlowTypeOK
<1>4. Expired \in Nat
  BY FlowAssumption DEF Expired
<1>7. flow[f].name \in FlowNames
  BY <1>1 DEF FlowsKnown
<1>5. FlowTypeOK'
  <2>1. replyAt' \in [Replies -> {"idle"} \cup Past]
    BY <1>2 DEF FlowTypeOK, Past
  <2>2. reply' \in [Replies -> [flow : Flows \cup {Nobody}, name : FlowNames \cup {Nobody}]]
    BY <1>1, <1>7 DEF FlowTypeOK
  <2>3. states' \in [Flows -> 0 .. Expired]
    BY <1>1, <1>4 DEF FlowTypeOK
  <2> QED
    BY <1>1, <1>3, <2>1, <2>2, <2>3 DEF FlowTypeOK, Past
<1>6. /\ reply'[r].flow = f /\ reply'[r].name = flow[f].name
      /\ replyAt'[r] = to /\ states'[f] = Expired
      /\ \A s \in Replies \ {r} : replyAt'[s] = replyAt[s] /\ reply'[s] = reply[s]
      /\ \A g \in Flows \ {f} : states'[g] = states[g]
  BY <1>1, <1>2 DEF FlowTypeOK
<1>8. /\ Exchanging(f)' = IF to = "exchange" THEN Exchanging(f) \cup {r} ELSE Exchanging(f)
      /\ \A g \in Flows \ {f} : Exchanging(g)' = Exchanging(g)
  BY <1>1, <1>6 DEF Exchanging
<1>9. OnePermission'
  BY <1>1, <1>2, <1>6, <1>8 DEF OnePermission
<1> QED
  BY <1>1, <1>5, <1>6, <1>7, <1>9, ReplyMoves

LEMMA PollInv ==
  ASSUME FlowIInv, NEW r \in Replies, NEW f \in Flows, NEW n \in FlowNames, Poll(r, f, n)
  PROVE  FlowIInv'
<1> USE DEF FlowIInv
<1>1. /\ replyAt[r] = "idle" /\ flow[f].kind = "device"
      /\ reply' = [reply EXCEPT ![r] = [flow |-> f, name |-> n]]
      /\ UNCHANGED <<flowClock, client, flow, states, codes, record, registered, credential,
                     spent, usable>>
  BY DEF Poll, serviceVars, flowHistory
<1>2. PICK to \in {"exchange", "done"} : replyAt' = [replyAt EXCEPT ![r] = to]
  BY DEF Poll, ReplyGoes, Tells
<1>3. result' \in [Replies -> {"none", "error", "pending", "expired", "success"}]
  BY DEF Poll, Tells, FlowTypeOK
<1>4. FlowTypeOK'
  <2>1. replyAt' \in [Replies -> {"idle"} \cup Past]
    BY <1>2 DEF FlowTypeOK, Past
  <2>2. reply' \in [Replies -> [flow : Flows \cup {Nobody}, name : FlowNames \cup {Nobody}]]
    BY <1>1 DEF FlowTypeOK
  <2> QED
    BY <1>1, <1>3, <2>1, <2>2 DEF FlowTypeOK, Past
<1>5. /\ reply'[r].flow = f /\ reply'[r].name = n
      /\ \A s \in Replies \ {r} : replyAt'[s] = replyAt[s] /\ reply'[s] = reply[s]
  BY <1>1, <1>2 DEF FlowTypeOK
<1>6. \A g \in Flows : flow[g].kind = "browser" => Exchanging(g)' = Exchanging(g)
  BY <1>1, <1>5 DEF Exchanging
<1>7. OnePermission'
  BY <1>1, <1>6 DEF OnePermission
<1> QED
  BY <1>1, <1>4, <1>5, <1>7, ReplyMoves

LEMMA ExchangeCodeInv ==
  ASSUME FlowIInv, NEW r \in Replies, ExchangeCode(r)
  PROVE  FlowIInv'
<1> USE DEF FlowIInv
<1> PICK f \in Flows : f = reply[r].flow
  BY DEF ExchangeCode, FlowsKnown
<1>1. /\ replyAt[r] = "exchange" /\ flow[f].kind # "none"
      /\ reply[r].name \in FlowNames
      /\ flow[f].kind = "browser" => reply[r].name = flow[f].name
      /\ spent' = [spent EXCEPT ![f] = @ + 1]
      /\ UNCHANGED <<flowClock, client, flow, states, reply, record, registered, credential, usable>>
  BY DEF ExchangeCode, serviceVars, FlowsKnown
<1>2. PICK to \in {"write", "done"} : replyAt' = [replyAt EXCEPT ![r] = to]
  BY DEF ExchangeCode, ReplyGoes, Tells
<1>3. result' \in [Replies -> {"none", "error", "pending", "expired", "success"}]
  BY DEF ExchangeCode, Tells, FlowTypeOK
<1>4. codes' \in SUBSET Flows
  BY DEF ExchangeCode, FlowTypeOK
<1>5. spent[f] \in Nat /\ spent'[f] = spent[f] + 1 /\ spent' \in [Flows -> Nat]
  BY <1>1 DEF FlowTypeOK
<1>6. FlowTypeOK'
  <2>1. replyAt' \in [Replies -> {"idle"} \cup Past]
    BY <1>2 DEF FlowTypeOK, Past
  <2> QED
    BY <1>1, <1>3, <1>4, <1>5, <2>1 DEF FlowTypeOK, Past
<1>7. /\ replyAt'[r] = to
      /\ \A s \in Replies \ {r} : replyAt'[s] = replyAt[s]
      /\ \A g \in Flows \ {f} : spent'[g] = spent[g]
  BY <1>1, <1>2 DEF FlowTypeOK
<1>8. r \in Exchanging(f) /\ \A g \in Flows : Exchanging(g)' = Exchanging(g) \ {r}
  BY <1>1, <1>7 DEF Exchanging
<1>9. \A g \in Flows \ {f} : r \notin Exchanging(g)
  BY DEF Exchanging
<1>10. OnePermission'
  <2>1. ASSUME flow[f].kind = "browser" PROVE spent[f] = 0 /\ Exchanging(f)' = {} /\ states[f] = Expired
    BY <1>1, <1>5, <1>8, <2>1 DEF OnePermission
  <2>2. ASSUME NEW g \in Flows \ {f} PROVE Exchanging(g)' = Exchanging(g)
    BY <1>8, <1>9
  <2> QED
    BY <1>1, <1>5, <1>7, <2>1, <2>2 DEF OnePermission
<1> QED
  BY <1>1, <1>6, <1>7, <1>10, ReplyMoves

\* What a reply does once it has a token.
LEMMA SaveStepInv ==
  ASSUME FlowIInv, NEW r \in Replies,
         WriteTokens(r) \/ FindService(r) \/ CreateService(r) \/ UpdateService(r)
  PROVE  FlowIInv'
<1> USE DEF FlowIInv
<1> DEFINE f == reply[r].flow
           n == reply[r].name
<1>1. /\ replyAt[r] \notin {"idle", "exchange"} /\ f \in Flows /\ flow[f].kind # "none"
      /\ n \in FlowNames /\ (flow[f].kind = "browser" => n = flow[f].name)
      /\ UNCHANGED <<flowClock, client, flow, states, codes, reply, spent>>
  BY DEF WriteTokens, FindService, CreateService, UpdateService, serviceVars, flowHistory, FlowsKnown
<1>2. PICK to \in {"find", "create", "update", "done"} : replyAt' = [replyAt EXCEPT ![r] = to]
  BY DEF WriteTokens, FindService, CreateService, UpdateService, ReplyGoes, Tells
<1>3. record' = record \/ record' = [record EXCEPT ![n] = f]
  BY DEF WriteTokens, FindService, CreateService, UpdateService, serviceVars
<1>4. /\ result' \in [Replies -> {"none", "error", "pending", "expired", "success"}]
      /\ registered' \in SUBSET FlowNames /\ usable' \in SUBSET Replies
      /\ credential' \in [FlowNames -> Flows \cup {Nobody, Typed}]
  BY <1>1 DEF WriteTokens, FindService, CreateService, UpdateService, Tells, serviceVars,
              flowHistory, FlowTypeOK
<1>5. FlowTypeOK'
  <2>1. replyAt' \in [Replies -> {"idle"} \cup Past]
    BY <1>2 DEF FlowTypeOK, Past
  <2>2. record' \in [FlowNames -> Flows \cup {Nobody}]
    BY <1>1, <1>3 DEF FlowTypeOK
  <2> QED
    BY <1>1, <1>4, <2>1, <2>2 DEF FlowTypeOK, Past
<1>6. /\ replyAt'[r] = to
      /\ \A s \in Replies \ {r} : replyAt'[s] = replyAt[s]
      /\ \A m \in FlowNames : record'[m] = record[m] \/ (record'[m] = f /\ m = n)
  BY <1>1, <1>2, <1>3 DEF FlowTypeOK
<1>7. \A g \in Flows : Exchanging(g)' = Exchanging(g)
  BY <1>1, <1>6 DEF Exchanging
<1>8. OnePermission'
  BY <1>1, <1>7 DEF OnePermission
<1> QED
  BY <1>1, <1>5, <1>6, <1>8, ReplyMoves

LEMMA FlowStepInv == FlowIInv /\ [FlowNext]_flowVars => FlowIInv'
<1> SUFFICES ASSUME FlowIInv, [FlowNext]_flowVars PROVE FlowIInv'
  OBVIOUS
<1>1. ASSUME NEW f \in Flows, NEW p \in Providers, StartDeviceFlow(f, p) PROVE FlowIInv'
  BY <1>1, StartStepInv
<1>2. ASSUME NEW f \in Flows, NEW p \in Providers, NEW n \in FlowNames, StartOAuth(f, n, p)
      PROVE  FlowIInv'
  BY <1>2, StartStepInv
<1>3. ASSUME NEW r \in Replies, NEW f \in Flows, Callback(r, f) PROVE FlowIInv'
  BY <1>3, CallbackInv
<1>4. ASSUME NEW r \in Replies, NEW f \in Flows, NEW n \in FlowNames, Poll(r, f, n) PROVE FlowIInv'
  BY <1>4, PollInv
<1>5. ASSUME NEW r \in Replies, ExchangeCode(r) PROVE FlowIInv'
  BY <1>5, ExchangeCodeInv
<1>6. ASSUME NEW r \in Replies,
             WriteTokens(r) \/ FindService(r) \/ CreateService(r) \/ UpdateService(r)
      PROVE  FlowIInv'
  BY <1>6, SaveStepInv
<1>7. CASE UNCHANGED flowVars
  <2>1. UNCHANGED <<flowClock, client, flow, states, codes, replyAt, reply, result, record,
                    registered, credential, spent, usable>>
    BY <1>7 DEF flowVars, replyVars, serviceVars, flowHistory
  <2> QED
    BY <2>1 DEF FlowIInv, FlowTypeOK, FlowsKnown, OnePermission, Exchanging
<1> QED
  BY <1>1, <1>2, <1>3, <1>4, <1>5, <1>6, <1>7, SettingsStepInv DEF FlowNext

LEMMA FlowInvariance == FlowSpec => []FlowIInv
BY FlowInitInv, FlowStepInv, PTL DEF FlowSpec

\* Authorizations, replies and records keep their types (Handler, StateManager).
THEOREM FlowTypeCorrectness == FlowSpec => []FlowTypeOK
<1>1. FlowIInv => FlowTypeOK
  BY DEF FlowIInv
<1> QED
  BY <1>1, FlowInvariance, PTL

\* For any number of authorizations and of repeated callbacks: a state token is good for
\* one exchange, whose tokens are recorded for the service that the user began with.
THEOREM StateUsedOnceHolds == FlowSpec => []StateUsedOnce
<1>1. FlowIInv => StateUsedOnce
  BY FlowAssumption DEF FlowIInv, OnePermission, FlowsKnown, StateUsedOnce
<1> QED
  BY <1>1, FlowInvariance, PTL

=============================================================================
