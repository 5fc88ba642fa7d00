--------------------------- MODULE LifecycleProofs ---------------------------
(***************************************************************************)
(* The life of the program, for any number of faults and of requests: a    *)
(* program that can resume has been set up, one that was stopped in time   *)
(* leaves nothing behind, and in between a database query presents a user  *)
(* of the server it goes to, the client of OpenBao is without a valid      *)
(* token for a bounded time, and the bridge answers in order.              *)
(*                                                                         *)
(* For the start IInv says which steps of the set-up have taken effect by  *)
(* the time the program is at a step (SetupBefore).  For the end it says   *)
(* which deferred calls are left, what each that ran has undone, and that  *)
(* nothing can be done anew: no request is in a handler and no listener is *)
(* open unless the shutdown was disorderly (Quiet).  For the databases it  *)
(* says where everything that is known of one comes from: a configuration  *)
(* that a dashboard sent for that very name (Provenance).  For the token   *)
(* it says that the goroutine keeps its appointments (Appointments).  For  *)
(* the bridge it follows the numbers of the lines through the queue        *)
(* (Queued, UnderWay).  The parts share no variable, and so the program    *)
(* that has them all keeps what each keeps.                                *)
(***************************************************************************)
EXTENDS MCLifecycle, SequenceTheorems, TLAPS

-----------------------------------------------------------------------------
(* The start *)

\* A step that is behind has taken effect, or it is the engine that was not mounted.
Behind(s) == s \in done \/ (s = "database_engine" /\ mountRefused)

\* Every step before the present one is behind.
SetupBefore ==
  phase = "setup" =>
    /\ step \in 1 .. Len(FullInit)
    /\ \A i \in 1 .. step - 1 : FullInit[i] \in StorageSteps => Behind(FullInit[i])

\* Who can resume, logs in or serves has been set up.
SavedAfterwards == file = "complete" \/ phase \in {"login", "ready"} => Configured

SupIInv == SupTypeOK /\ SetupBefore /\ SavedAfterwards

\* When the file is written, and at the login, all of the storage steps are behind.
LEMMA StorageStepsFirst ==
  /\ Len(FullInit) = 12
  /\ \A i \in 1 .. 12 : FullInit[i] = "write_file" => i = 11
  /\ \A i \in 1 .. 12 : FullInit[i] = "login" <=> i = 12
  /\ \A i \in 1 .. 12 : FullInit[i] = "database_engine" => i = 4
  /\ \A s \in StorageSteps : \E i \in 1 .. 9 : FullInit[i] = s
BY DEF FullInit, StorageSteps

LEMMA SupInitInv == SupInit => SupIInv
<1>1. Len(FullInit) = 12
  BY StorageStepsFirst
<1> SUFFICES ASSUME SupInit PROVE SupIInv
  OBVIOUS
<1>2. SupTypeOK
  <2>1. step \in 0 .. Len(FullInit) /\ faults \in 0 .. MaxFaults
    BY <1>1, SupervisorAssumption DEF SupInit
  <2>2. mountRefused \in BOOLEAN
    BY DEF SupInit
  <2> QED
    BY <2>1, <2>2 DEF SupInit, SupTypeOK
<1>3. SetupBefore /\ SavedAfterwards
  BY DEF SupInit, SetupBefore, SavedAfterwards
<1> QED
  BY <1>2, <1>3 DEF SupIInv

LEMMA SetupStepInv == SupIInv /\ SetupStep => SupIInv'
<1> SUFFICES ASSUME SupIInv, SetupStep PROVE SupIInv'
  OBVIOUS
<1> USE DEF SupIInv
<1>1. phase = "setup" /\ step \in 1 .. 12
  BY StorageStepsFirst DEF SetupStep, SetupBefore
<1>2. \A i \in 1 .. step : FullInit[i] \in StorageSteps => Behind(FullInit[i])'
  BY <1>1 DEF SetupStep, SetupBefore, Behind, Effect
<1>3. done \subseteq done' /\ done' \subseteq StorageSteps
  BY <1>1 DEF SetupStep, SupTypeOK, Effect
<1>4. step >= 9 => \A s \in StorageSteps : Behind(s)'
  BY <1>1, <1>2, StorageStepsFirst
<1>5. SupTypeOK'
  BY <1>1, <1>3, StorageStepsFirst DEF SetupStep, SupTypeOK, Effect
<1>6. SetupBefore'
  BY <1>1, <1>2, StorageStepsFirst DEF SetupStep, SetupBefore
<1>7. SavedAfterwards'
  <2>1. (\A s \in StorageSteps : Behind(s)') => Configured'
    BY DEF Behind, Configured, StorageSteps
  <2>2. Configured => Configured'
    BY <1>3 DEF SetupStep, Configured
  <2> QED
    BY <1>1, <1>4, <2>1, <2>2, StorageStepsFirst DEF SetupStep, SavedAfterwards, Effect
<1> QED
  BY <1>5, <1>6, <1>7

LEMMA SupStepInv == SupIInv /\ [SupNext]_supVars => SupIInv'
<1> SUFFICES ASSUME SupIInv, [SupNext]_supVars PROVE SupIInv'
  OBVIOUS
<1> USE SupervisorAssumption, StorageStepsFirst
        DEF SupIInv, SupTypeOK, SetupBefore, Behind, SavedAfterwards, Configured, Fault, Exit, Error
<1>1. CASE Start
  BY <1>1 DEF Start
<1>2. CASE WaitForReady
  BY <1>2 DEF WaitForReady
<1>3. CASE CheckInitialized
  BY <1>3 DEF CheckInitialized
<1>4. CASE SetupStep
  BY <1>4, SetupStepInv
<1>11. CASE MountRefused
  BY <1>11 DEF MountRefused
<1>5. CASE SetupError
  BY <1>5 DEF SetupError
<1>6. CASE Resume
  BY <1>6 DEF Resume
<1>7. CASE ResumeLogin
  BY <1>7 DEF ResumeLogin
<1>8. CASE Crash
  BY <1>8 DEF Crash
<1>9. CASE BaoDies
  BY <1>9 DEF BaoDies
<1>10. CASE UNCHANGED supVars
  BY <1>10 DEF supVars
<1> QED
  BY <1>1, <1>2, <1>3, <1>4, <1>5, <1>6, <1>7, <1>8, <1>9, <1>10, <1>11 DEF SupNext, Program

LEMMA SupInvariance == SupSpec => []SupIInv
BY SupInitInv, SupStepInv, PTL DEF SupSpec

\* The program and OpenBao's storage keep their types (Supervisor).
THEOREM SupTypeCorrectness == SupSpec => []SupTypeOK
<1>1. SupIInv => SupTypeOK
  BY DEF SupIInv
<1> QED
  BY <1>1, SupInvariance, PTL

\* After any number of crashes and failing steps: init.json can be read, and the
\* program serves, only once every step of the set-up has taken effect - but for the
\* database engine, if a 400 was taken for "already mounted" (runFullInit).
THEOREM ResumableIsConfiguredHolds == SupSpec => []ResumableIsConfigured
<1>1. SupIInv => ResumableIsConfigured
  BY DEF SupIInv, SavedAfterwards, ResumableIsConfigured
<1> QED
  BY <1>1, SupInvariance, PTL

-----------------------------------------------------------------------------
(* The end *)

AllDeferred == <<"cancel", "sup.Stop", "RevokeAll", "dbMgr.Close", "cloudMgr.Close">>

\* Deferred calls that may be left: a prefix of them all.
IsStack(d) ==
  /\ d \in Seq(Calls)
  /\ Len(d) <= 5
  /\ \A i \in 1 .. Len(d) : d[i] = AllDeferred[i]

\* What is still to be undone has its call among them, and OpenBao was asked to revoke
\* what was cached.
Undoes ==
  /\ IsStack(deferred)
  /\ "token" \in renewing => Len(deferred) >= 1
  /\ ~disorderly /\ openbao = "running" => Len(deferred) >= 2
  /\ Len(deferred) >= 3 /\ ~disorderly => openbao = "running"
  /\ "leases" \in renewing => Len(deferred) >= 4
  /\ "engine" \in renewing => Len(deferred) >= 5
  /\ ~disorderly => \A c \in Clients : dbUser[c] # "unasked"
  /\ ~disorderly /\ stage \in {"unwind", "gone"} /\ Len(deferred) < 3 => Cached = {}
  /\ stage \in {"run", "serving", "local", "remote"} => Len(deferred) = 5
  /\ stage \in {"vault", "build"} => Len(deferred) = 2 /\ (openbao = "running" \/ disorderly)
  /\ stage = "supervisor" => Len(deferred) = 0 /\ openbao = "off"
  /\ stage = "gone" => Len(deferred) = 0

\* No request, and no listener that could take one, where the program does not serve.
QuietOn(l) == listening[l] = "off" /\ InHandlersOf(l) = {}

Quiet ==
  /\ stage \in {"supervisor", "vault", "build", "run"} =>
       /\ \A c \in Clients : dbUser[c] = "none"
       /\ \A l \in Listeners : QuietOn(l)
  /\ ~Remote => QuietOn("remote")
  /\ stage = "local" => listening["local"] = "off"
  /\ stage = "remote" => QuietOn("local") /\ listening["remote"] = "off"
  /\ stage \in {"unwind", "gone"} /\ ~disorderly => \A l \in Listeners : QuietOn(l)

ServeIInv == ServeTypeOK /\ Undoes /\ Quiet

\* The last call is taken off a stack.
LEMMA StackTop ==
  ASSUME NEW d, IsStack(d), d # <<>>
  PROVE  /\ Len(d) \in 1 .. 5
         /\ IsStack(Front(d))
         /\ Len(Front(d)) = Len(d) - 1
         /\ Last(d) = AllDeferred[Len(d)]
<1>1. Len(d) \in 1 .. 5
  <2>1. d \in Seq(Calls)
    BY DEF IsStack
  <2>2. Len(d) \in Nat \ {0}
    BY <2>1, EmptySeq
  <2>3. Len(d) <= 5
    BY DEF IsStack
  <2>4. \A n \in Nat \ {0} : n <= 5 => n \in 1 .. 5
    OBVIOUS
  <2> QED
    BY <2>2, <2>3, <2>4, Zenon
<1>2. \A i \in 1 .. Len(d) - 1 : d[i] \in Calls
  BY <1>1, ElementOfSeq DEF IsStack
<1>3. /\ Front(d) \in Seq(Calls)
      /\ Len(Front(d)) = Len(d) - 1
      /\ \A i \in 1 .. Len(d) - 1 : Front(d)[i] = d[i]
  <2> DEFINE n == Len(d) - 1
  <2>1. 1 \in Int /\ n \in Int /\ n \in 0 .. 4 /\ \A i \in 1 .. n : d[i] \in Calls
    BY <1>1, <1>2
  <2> HIDE DEF n
  <2>2. /\ SubSeq(d, 1, n) \in Seq(Calls)
        /\ Len(SubSeq(d, 1, n)) = IF 1 <= n THEN n - 1 + 1 ELSE 0
        /\ \A i \in 1 .. n - 1 + 1 : SubSeq(d, 1, n)[i] = d[1 + i - 1]
    BY <2>1, SubSeqProperties
  <2>3. /\ Len(SubSeq(d, 1, n)) = n
        /\ \A i \in 1 .. n : SubSeq(d, 1, n)[i] = d[i]
    BY <2>1, <2>2
  <2> QED
    BY <2>2, <2>3 DEF Front, n
<1> QED
  BY <1>1, <1>3 DEF IsStack, Last

\* serve pushes the calls of the supervisor, and Build puts its own on top of them.
LEMMA StackBuilt ==
  /\ IsStack(<<>>) /\ IsStack(<<"cancel">>) /\ IsStack(<<"cancel", "sup.Stop">>)
  /\ \A d : IsStack(d) /\ Len(d) = 2 =>
       /\ IsStack(d \o <<"RevokeAll", "dbMgr.Close", "cloudMgr.Close">>)
       /\ Len(d \o <<"RevokeAll", "dbMgr.Close", "cloudMgr.Close">>) = 5
<1>1. IsStack(<<>>) /\ IsStack(<<"cancel">>) /\ IsStack(<<"cancel", "sup.Stop">>)
  BY DEF IsStack, AllDeferred, Calls
<1>2. ASSUME NEW d, IsStack(d), Len(d) = 2
      PROVE  /\ IsStack(d \o <<"RevokeAll", "dbMgr.Close", "cloudMgr.Close">>)
             /\ Len(d \o <<"RevokeAll", "dbMgr.Close", "cloudMgr.Close">>) = 5
  <2> DEFINE top == <<"RevokeAll", "dbMgr.Close", "cloudMgr.Close">>
  <2>1. top \in Seq(Calls) /\ Len(top) = 3
    BY DEF Calls
  <2>2. /\ d \o top \in Seq(Calls)
        /\ Len(d \o top) = 5
        /\ \A i \in 1 .. 5 : (d \o top)[i] = IF i <= 2 THEN d[i] ELSE top[i - 2]
    <3>1. d \in Seq(Calls)
      BY <1>2 DEF IsStack
    <3> HIDE DEF top
    <3>2. /\ d \o top \in Seq(Calls)
          /\ Len(d \o top) = Len(d) + Len(top)
          /\ \A i \in 1 .. Len(d) + Len(top) :
               (d \o top)[i] = IF i <= Len(d) THEN d[i] ELSE top[i - Len(d)]
      BY <2>1, <3>1, ConcatProperties
    <3> QED
      BY <1>2, <2>1, <3>2
  <2>3. \A i \in 1 .. 5 : (d \o top)[i] = AllDeferred[i]
    BY <1>2, <2>2 DEF IsStack, AllDeferred
  <2> QED
    BY <2>2, <2>3 DEF IsStack
<1> QED
  BY <1>1, <1>2

LEMMA ServeInitInv == ServeInit => ServeIInv
<1> SUFFICES ASSUME ServeInit PROVE ServeIInv
  OBVIOUS
<1>1. ServeTypeOK
  <2>1. <<>> \in Seq(Calls)
    BY StackBuilt DEF IsStack
  <2>2. bucket \in [Listeners -> 0 .. Burst]
    BY ServingAssumption DEF ServeInit
  <2>3. listening \in [Listeners -> {"off", "opening", "open", "failed"}]
    BY DEF ServeInit
  <2>4. handled \in [Clients -> Listeners \cup {"nowhere"}]
    BY DEF ServeInit
  <2> QED
    BY <2>1, <2>2, <2>3, <2>4 DEF ServeInit, ServeTypeOK
<1>2. IsStack(deferred) /\ Len(deferred) = 0
  BY StackBuilt DEF ServeInit
<1> QED
  BY <1>1, <1>2 DEF ServeInit, ServeIInv, Undoes, Cached, Quiet, QuietOn, InHandlersOf, Listeners

\* While all of the calls are left nothing has to be undone yet.
LEMMA UndoesKept ==
  ASSUME Undoes, UNCHANGED <<deferred, renewing, openbao, dbUser>>, Len(deferred) = 5,
         disorderly => disorderly', stage' \in {"serving", "local", "remote", "unwind"}
  PROVE  Undoes'
BY DEF Undoes

\* RevokeAll leaves nothing in the cache, and asks whenever there is somebody to ask.
LEMMA Revocations ==
  ASSUME ServeTypeOK, RevokeAllLeases
  PROVE  /\ dbUser' \in [Clients -> {"none", "cached", "lost", "asked", "unasked"}]
         /\ \A c \in Clients : dbUser'[c] # "cached"
         /\ OpenBaoUp => \A c \in Clients : dbUser'[c] # "unasked" \/ dbUser'[c] = dbUser[c]
BY DEF RevokeAllLeases, Cached, ServeTypeOK

\* A lease that is taken is in the cache or is lost at once.
LEMMA LeaseTaken ==
  ASSUME ServeTypeOK, NEW c \in Clients, TakeLease(c)
  PROVE  /\ dbUser' \in [Clients -> {"none", "cached", "lost", "asked", "unasked"}]
         /\ \A d \in Clients : dbUser'[d] # "unasked" \/ dbUser'[d] = dbUser[d]
<1>1. CASE dbUser' = [dbUser EXCEPT ![c] = "lost"]
  BY <1>1 DEF ServeTypeOK
<1>2. ASSUME NEW old \in {c} \cup Cached, dbUser' = [dbUser EXCEPT ![old] = "lost", ![c] = "cached"]
      PROVE  /\ dbUser' \in [Clients -> {"none", "cached", "lost", "asked", "unasked"}]
             /\ \A d \in Clients : dbUser'[d] # "unasked" \/ dbUser'[d] = dbUser[d]
  BY <1>2 DEF ServeTypeOK, Cached
<1> QED
  BY <1>1, <1>2 DEF TakeLease

LEMMA ServeStepInv == ServeIInv /\ [ServeNext]_serveVars => ServeIInv'
<1> SUFFICES ASSUME ServeIInv, [ServeNext]_serveVars PROVE ServeIInv'
  OBVIOUS
<1> USE ServingAssumption DEF ServeIInv, netVars
<1>1. CASE StartSupervisor
  <2>0. /\ deferred' \in {<<>>, <<"cancel">>, <<"cancel", "sup.Stop">>}
        /\ IsStack(deferred') /\ deferred' \in Seq(Calls)
    BY <1>1, StackBuilt DEF StartSupervisor, IsStack
  <2>1. ServeTypeOK'
    BY <1>1, <2>0 DEF StartSupervisor, ServeTypeOK
  <2>2. Undoes'
    <3>1. stage = "supervisor" /\ Len(deferred) = 0 /\ Cached = {} /\ openbao = "off" /\ renewing = {}
          /\ \A c \in Clients : dbUser[c] # "unasked"
      BY <1>1 DEF StartSupervisor, Undoes, Quiet, Cached, ServeTypeOK
    <3>2. CASE openbao' = "running" /\ deferred' = <<"cancel", "sup.Stop">> /\ stage' = "vault"
      BY <1>1, <2>0, <3>1, <3>2 DEF StartSupervisor, Undoes
    <3>3. CASE openbao' = "off" /\ deferred' \in {<<>>, <<"cancel">>} /\ stage' = "unwind"
      <4>1. Len(deferred') \in {0, 1}
        BY <3>3
      <4>2. renewing' = {} /\ Cached' = {} /\ \A c \in Clients : dbUser'[c] # "unasked"
        BY <1>1, <3>1 DEF StartSupervisor, Cached
      <4>3. \A n \in {0, 1} : ~ n >= 2 /\ ~ n >= 3 /\ ~ n >= 4 /\ ~ n >= 5
        OBVIOUS
      <4> QED
        BY <2>0, <3>3, <4>1, <4>2, <4>3, Zenon DEF Undoes
    <3> QED
      BY <1>1, <3>1, <3>2, <3>3 DEF StartSupervisor
  <2>3. Quiet'
    BY <1>1 DEF StartSupervisor, ServeTypeOK, Quiet, QuietOn, InHandlersOf, Listeners
  <2> QED
    BY <2>1, <2>2, <2>3
<1>2. CASE BringUpVault
  <2>1. ServeTypeOK'
    BY <1>2, StackBuilt DEF BringUpVault, ServeTypeOK
  <2>2. Undoes'
    BY <1>2, StackBuilt DEF BringUpVault, ServeTypeOK, Undoes, Cached, Quiet
  <2>3. Quiet'
    BY <1>2 DEF BringUpVault, ServeTypeOK, Quiet, QuietOn, InHandlersOf, Listeners
  <2> QED
    BY <2>1, <2>2, <2>3
<1>3. CASE Build
  <2>0. IsStack(deferred') /\ Len(deferred') = 5 /\ deferred' \in Seq(Calls)
    <3>1. IsStack(deferred) /\ Len(deferred) = 2
      BY <1>3 DEF Build, Undoes
    <3>2. deferred' = deferred \o <<"RevokeAll", "dbMgr.Close", "cloudMgr.Close">>
      BY <1>3 DEF Build
    <3>3. IsStack(deferred') /\ Len(deferred') = 5
      BY <3>1, <3>2, StackBuilt, Zenon
    <3> QED
      BY <3>3 DEF IsStack
  <2>1. ServeTypeOK'
    BY <1>3, <2>0 DEF Build, ServeTypeOK
  <2>2. Undoes'
    <3>1. /\ openbao' = "running" \/ disorderly'
          /\ stage' = "run" /\ UNCHANGED <<dbUser, disorderly>>
      BY <1>3 DEF Build, Undoes
    <3> QED
      BY <2>0, <3>1 DEF Undoes
  <2>3. Quiet'
    BY <1>3 DEF Build, ServeTypeOK, Quiet, QuietOn, InHandlersOf, Listeners
  <2> QED
    BY <2>1, <2>2, <2>3
<1>4. CASE StartListeners
  <2>1. ServeTypeOK'
    BY <1>4, StackBuilt DEF StartListeners, ServeTypeOK
  <2>2. Undoes'
    BY <1>4, StackBuilt DEF StartListeners, ServeTypeOK, Undoes, Cached, Quiet
  <2>3. Quiet'
    BY <1>4 DEF StartListeners, ServeTypeOK, Quiet, QuietOn, InHandlersOf, Listeners
  <2> QED
    BY <2>1, <2>2, <2>3
<1>5. CASE ServeFails
  <2>1. ServeTypeOK'
    BY <1>5, StackBuilt DEF ServeFails, ServeTypeOK
  <2>2. Undoes'
    BY <1>5, StackBuilt DEF ServeFails, ServeTypeOK, Undoes, Cached, Quiet
  <2>3. Quiet'
    BY <1>5 DEF ServeFails, ServeTypeOK, Quiet, QuietOn, InHandlersOf, Listeners
  <2> QED
    BY <2>1, <2>2, <2>3
<1>6. CASE BeginShutdown
  <2>1. ServeTypeOK'
    BY <1>6, StackBuilt DEF BeginShutdown, Closes, Listeners, ServeTypeOK
  <2>2. Undoes'
    BY <1>6, StackBuilt DEF BeginShutdown, Closes, ServeTypeOK, Undoes, Cached, Quiet
  <2>3. Quiet'
    BY <1>6 DEF BeginShutdown, Closes, ServeTypeOK, Quiet, QuietOn, InHandlersOf, Listeners
  <2> QED
    BY <2>1, <2>2, <2>3
<1>7. CASE LocalDrained
  <2>1. ServeTypeOK'
    BY <1>7, StackBuilt DEF LocalDrained, Closes, Listeners, ServeTypeOK
  <2>2. Undoes'
    BY <1>7, UndoesKept DEF LocalDrained, Closes, Undoes
  <2>3. Quiet'
    BY <1>7 DEF LocalDrained, Closes, ServeTypeOK, Quiet, QuietOn, InHandlersOf, Listeners
  <2> QED
    BY <2>1, <2>2, <2>3
<1>8. CASE LocalTimesOut
  <2>1. ServeTypeOK'
    BY <1>8, StackBuilt DEF LocalTimesOut, ServeTypeOK
  <2>2. Undoes'
    BY <1>8, StackBuilt DEF LocalTimesOut, ServeTypeOK, Undoes, Cached, Quiet
  <2>3. Quiet'
    BY <1>8 DEF LocalTimesOut, ServeTypeOK, Quiet, QuietOn, InHandlersOf, Listeners
  <2> QED
    BY <2>1, <2>2, <2>3
<1>9. CASE RemoteDrained
  <2>1. ServeTypeOK'
    BY <1>9, StackBuilt DEF RemoteDrained, ServeTypeOK
  <2>2. Undoes'
    BY <1>9, UndoesKept DEF RemoteDrained, Undoes
  <2>3. Quiet'
    BY <1>9 DEF RemoteDrained, ServeTypeOK, Quiet, QuietOn, InHandlersOf, Listeners
  <2> QED
    BY <2>1, <2>2, <2>3
<1>10. CASE RemoteTimesOut
  <2>1. ServeTypeOK'
    BY <1>10, StackBuilt DEF RemoteTimesOut, ServeTypeOK
  <2>2. Undoes'
    BY <1>10, StackBuilt DEF RemoteTimesOut, ServeTypeOK, Undoes, Cached, Quiet
  <2>3. Quiet'
    BY <1>10 DEF RemoteTimesOut, ServeTypeOK, Quiet, QuietOn, InHandlersOf, Listeners
  <2> QED
    BY <2>1, <2>2, <2>3
<1>11. CASE Unwind
  <2>0. /\ stage = "unwind" /\ deferred # <<>> /\ Len(deferred) \in 1 .. 5
        /\ RunDeferred(AllDeferred[Len(deferred)])
        /\ IsStack(deferred') /\ Len(deferred') = Len(deferred) - 1
    BY <1>11, StackTop DEF Unwind, Undoes
  <2>1. ServeTypeOK'
    <3>1. deferred' \in Seq(Calls)
      BY <2>0 DEF IsStack
    <3>2. /\ dbUser' \in [Clients -> {"none", "cached", "lost", "asked", "unasked"}]
          /\ renewing' \in SUBSET {"token", "leases", "engine"}
          /\ openbao' \in {"off", "running", "told", "ended"}
      <4>1. AllDeferred[Len(deferred)] \in Calls
        <5>1. \A i \in 1 .. 5 : AllDeferred[i] \in Calls
          BY DEF AllDeferred, Calls
        <5> QED
          BY <2>0, <5>1
      <4>2. RevokeAllLeases =>
              dbUser' \in [Clients -> {"none", "cached", "lost", "asked", "unasked"}]
        BY Revocations
      <4> QED
        BY <2>0, <4>1, <4>2 DEF RunDeferred, TellOpenBao, ServeTypeOK, Calls
    <3> QED
      BY <1>11, <3>1, <3>2 DEF Unwind, ServeTypeOK
  <2>2. Undoes'
    <3>0. stage' = "unwind" /\ disorderly' = disorderly
      BY <1>11, <2>0 DEF Unwind
    <3>1. CASE Len(deferred) = 5
      <4>1. renewing' = renewing \ {"engine"} /\ UNCHANGED <<openbao, dbUser>>
        BY <2>0, <3>1 DEF RunDeferred, AllDeferred
      <4> QED
        BY <2>0, <3>0, <3>1, <4>1 DEF Undoes
    <3>2. CASE Len(deferred) = 4
      <4>1. renewing' = renewing \ {"leases"} /\ UNCHANGED <<openbao, dbUser>>
        BY <2>0, <3>2 DEF RunDeferred, AllDeferred
      <4> QED
        BY <2>0, <3>0, <3>2, <4>1 DEF Undoes
    <3>3. CASE Len(deferred) = 3
      <4>1. UNCHANGED <<renewing, openbao>> /\ RevokeAllLeases
        BY <2>0, <3>3 DEF RunDeferred, AllDeferred
      <4>2. ~disorderly => OpenBaoUp
        BY <3>3 DEF Undoes, OpenBaoUp
      <4>3. ~disorderly => Cached' = {} /\ \A c \in Clients : dbUser'[c] # "unasked"
        BY <4>1, <4>2, Revocations DEF Undoes, Cached
      <4> QED
        BY <2>0, <3>0, <3>3, <4>1, <4>3 DEF Undoes
    <3>4. CASE Len(deferred) = 2
      <4>1. UNCHANGED <<renewing, dbUser>> /\ openbao' # "running"
        BY <2>0, <3>4 DEF RunDeferred, AllDeferred, TellOpenBao
      <4>2. Cached' = Cached
        BY <4>1 DEF Cached
      <4> QED
        BY <2>0, <3>0, <3>4, <4>1, <4>2 DEF Undoes
    <3>5. CASE Len(deferred) = 1
      <4>1. renewing' = renewing \ {"token"} /\ UNCHANGED dbUser
            /\ (openbao # "running" => openbao' # "running")
        BY <2>0, <3>5 DEF RunDeferred, AllDeferred, TellOpenBao
      <4>2. Cached' = Cached
        BY <4>1 DEF Cached
      <4> QED
        BY <2>0, <3>0, <3>5, <4>1, <4>2 DEF Undoes
    <3> QED
      BY <2>0, <3>1, <3>2, <3>3, <3>4, <3>5
  <2>3. Quiet'
    BY <1>11 DEF Unwind, ServeTypeOK, Quiet, QuietOn, InHandlersOf, Listeners
  <2> QED
    BY <2>1, <2>2, <2>3
<1>12. CASE Return
  <2>1. ServeTypeOK'
    BY <1>12, StackBuilt DEF Return, Ended, ServeTypeOK
  <2>2. Undoes'
    BY <1>12, StackBuilt DEF Return, Ended, ServeTypeOK, Undoes, Cached, Quiet
  <2>3. Quiet'
    BY <1>12 DEF Return, Ended, ServeTypeOK, Quiet, QuietOn, InHandlersOf, Listeners
  <2> QED
    BY <2>1, <2>2, <2>3
<1>13. CASE ShutdownExpires
  <2>1. ServeTypeOK'
    BY <1>13, StackBuilt DEF ShutdownExpires, ServeTypeOK
  <2>2. Undoes'
    BY <1>13, StackBuilt DEF ShutdownExpires, ServeTypeOK, Undoes, Cached, Quiet
  <2>3. Quiet'
    BY <1>13 DEF ShutdownExpires, ServeTypeOK, Quiet, QuietOn, InHandlersOf, Listeners
  <2> QED
    BY <2>1, <2>2, <2>3
<1>14. CASE AskToStop
  <2>1. ServeTypeOK'
    BY <1>14, StackBuilt DEF AskToStop, ServeTypeOK
  <2>2. Undoes'
    BY <1>14, StackBuilt DEF AskToStop, ServeTypeOK, Undoes, Cached, Quiet
  <2>3. Quiet'
    BY <1>14 DEF AskToStop, ServeTypeOK, Quiet, QuietOn, InHandlersOf, Listeners
  <2> QED
    BY <2>1, <2>2, <2>3
<1>15. ASSUME NEW l \in Listeners, Listen(l) PROVE ServeIInv'
  <2>1. ServeTypeOK'
    BY <1>15, StackBuilt DEF Listen, ServeTypeOK
  <2>2. Undoes'
    BY <1>15, StackBuilt DEF Listen, ServeTypeOK, Undoes, Cached, Quiet
  <2>3. Quiet'
    BY <1>15 DEF Listen, ServeTypeOK, Quiet, QuietOn, InHandlersOf, Listeners
  <2> QED
    BY <2>1, <2>2, <2>3
<1>16. ASSUME NEW l \in Listeners, ListenFails(l) PROVE ServeIInv'
  <2>1. ServeTypeOK'
    BY <1>16, StackBuilt DEF ListenFails, Closes, ServeTypeOK
  <2>2. Undoes'
    BY <1>16, StackBuilt DEF ListenFails, Closes, ServeTypeOK, Undoes, Cached, Quiet
  <2>3. Quiet'
    BY <1>16 DEF ListenFails, Closes, ServeTypeOK, Quiet, QuietOn, InHandlersOf, Listeners
  <2> QED
    BY <2>1, <2>2, <2>3
<1>17. ASSUME NEW l \in Listeners, Refill(l) PROVE ServeIInv'
  <2>1. ServeTypeOK'
    BY <1>17, StackBuilt DEF Refill, ServeTypeOK
  <2>2. Undoes'
    BY <1>17, StackBuilt DEF Refill, ServeTypeOK, Undoes, Cached, Quiet
  <2>3. Quiet'
    BY <1>17 DEF Refill, ServeTypeOK, Quiet, QuietOn, InHandlersOf, Listeners
  <2> QED
    BY <2>1, <2>2, <2>3
<1>18. ASSUME NEW l \in Listeners, NEW c \in Clients, NEW kind \in Kinds, Arrive(c, l, kind) PROVE ServeIInv'
  <2>1. ServeTypeOK'
    BY <1>18, StackBuilt DEF Arrive, Allow, BodyTooLarge, ServeTypeOK
  <2>2. Undoes'
    BY <1>18, StackBuilt DEF Arrive, Allow, BodyTooLarge, ServeTypeOK, Undoes, Cached, Quiet
  <2>3. Quiet'
    BY <1>18 DEF Arrive, Allow, BodyTooLarge, ServeTypeOK, Quiet, QuietOn, InHandlersOf, Listeners
  <2> QED
    BY <2>1, <2>2, <2>3
<1>19. ASSUME NEW c \in Clients, TakeLease(c) PROVE ServeIInv'
  <2>0. /\ handled[c] # "nowhere"
        /\ UNCHANGED <<stage, deferred, netVars, asked, timedOut, renewing, openbao, disorderly>>
        /\ dbUser' \in [Clients -> {"none", "cached", "lost", "asked", "unasked"}]
        /\ \A d \in Clients : dbUser'[d] # "unasked" \/ dbUser'[d] = dbUser[d]
    BY <1>19, LeaseTaken DEF TakeLease
  <2>1. ServeTypeOK'
    BY <2>0, StackBuilt DEF ServeTypeOK
  <2>2. handled[c] \in Listeners /\ c \in InHandlersOf(handled[c])
    BY <2>0 DEF ServeTypeOK, InHandlersOf
  <2>3. /\ ~ (stage \in {"unwind", "gone"} /\ ~disorderly)
        /\ stage \notin {"supervisor", "vault", "build", "run"}
    BY <2>2 DEF Quiet, QuietOn
  <2>4. Undoes'
    BY <2>0, <2>3 DEF Undoes
  <2>5. Quiet'
    BY <2>0, <2>3 DEF Quiet, QuietOn, InHandlersOf
  <2> QED
    BY <2>1, <2>4, <2>5
<1>22. ASSUME NEW c \in Clients, DropLease(c) PROVE ServeIInv'
  <2>0. /\ UNCHANGED <<stage, deferred, netVars, asked, timedOut, renewing, openbao, disorderly>>
        /\ dbUser' = [dbUser EXCEPT ![c] = "lost"] /\ dbUser[c] = "cached"
        /\ Cached' \subseteq Cached
    BY <1>22 DEF DropLease, Cached, ServeTypeOK
  <2>1. ServeTypeOK'
    BY <2>0, StackBuilt DEF ServeTypeOK
  <2>2. Undoes'
    BY <2>0 DEF Undoes, ServeTypeOK
  <2>3. Quiet'
    BY <2>0 DEF Quiet, QuietOn, InHandlersOf, ServeTypeOK
  <2> QED
    BY <2>1, <2>2, <2>3
<1>23. CASE OpenBaoEnds
  <2>1. ServeTypeOK'
    BY <1>23, StackBuilt DEF OpenBaoEnds, ServeTypeOK
  <2>2. Undoes'
    BY <1>23, StackBuilt DEF OpenBaoEnds, OpenBaoUp, ServeTypeOK, Undoes, Cached
  <2>3. Quiet'
    BY <1>23 DEF OpenBaoEnds, ServeTypeOK, Quiet, QuietOn, InHandlersOf, Listeners
  <2> QED
    BY <2>1, <2>2, <2>3
<1>24. CASE Killed
  <2>1. ServeTypeOK'
    BY <1>24, StackBuilt DEF Killed, Ended, ServeTypeOK
  <2>2. Undoes'
    BY <1>24, StackBuilt DEF Killed, Ended, Undoes
  <2>3. Quiet'
    BY <1>24 DEF Killed, Ended, ServeTypeOK, Quiet, QuietOn, InHandlersOf, Listeners
  <2> QED
    BY <2>1, <2>2, <2>3
<1>20. ASSUME NEW c \in Clients, Answered(c) PROVE ServeIInv'
  <2>1. ServeTypeOK'
    BY <1>20, StackBuilt DEF Answered, ServeTypeOK
  <2>2. Undoes'
    BY <1>20, StackBuilt DEF Answered, ServeTypeOK, Undoes, Cached, Quiet
  <2>3. Quiet'
    BY <1>20 DEF Answered, ServeTypeOK, Quiet, QuietOn, InHandlersOf, Listeners
  <2> QED
    BY <2>1, <2>2, <2>3
<1>21. CASE UNCHANGED serveVars
  BY <1>21 DEF serveVars, ServeTypeOK, Undoes, Cached, Quiet, QuietOn, InHandlersOf
<1> QED
  BY <1>1, <1>2, <1>3, <1>4, <1>5, <1>6, <1>7, <1>8, <1>9, <1>10, <1>11, <1>12, <1>13, <1>14, <1>15, <1>16, <1>17, <1>18, <1>19, <1>20, <1>21,
     <1>22, <1>23, <1>24 DEF ServeNext, Main

LEMMA ServeInvariance == ServeSpec => []ServeIInv
<1>1. ServeSpec => ServeInit /\ [][ServeNext]_serveVars
  BY DEF ServeSpec
<1> QED
  BY <1>1, ServeInitInv, ServeStepInv, PTL

\* What serve has built, its listeners and its requests keep their types (serve, Run).
THEOREM ServeTypeCorrectness == ServeSpec => []ServeTypeOK
<1>1. ServeIInv => ServeTypeOK
  BY DEF ServeIInv
<1> QED
  BY <1>1, ServeInvariance, PTL

\* For any number of requests: a program that was stopped in time and that nobody killed
\* has told OpenBao to end, has ended its goroutines, and has asked OpenBao, which still
\* ran, to revoke every lease that was cached (serve and its deferred calls).
THEOREM OrderlyStopLeavesNothingHolds == ServeSpec => []OrderlyStopLeavesNothing
<1>1. ServeIInv => OrderlyStopLeavesNothing
  BY DEF ServeIInv, ServeTypeOK, Undoes, Cached, OrderlyStopLeavesNothing
<1> QED
  BY <1>1, ServeInvariance, PTL

-----------------------------------------------------------------------------
(* The databases *)

\* The configurations that dashboards have sent for a database.
Senders(n) == {a \in Admins : admin[a].name = n /\ admin[a].cfg # Nowhere}
Sent(n) == {admin[a].cfg : a \in Senders(n)}
SentServers(n) == {s.host : s \in Sent(n)}

\* Whatever is known of a database comes from a configuration that was sent for it.
Provenance ==
  /\ \A n \in Names :
       /\ dbs[n] # Nowhere => dbs[n] \in Sent(n)
       /\ connection[n] # Nowhere => connection[n] \in SentServers(n)
       /\ lease[n] # Nowhere => lease[n] \in SentServers(n)
  /\ \A q \in Queries : queryAt[q] \notin {"idle", "done"} =>
       /\ query[q].cfg \in Sent(query[q].name)
       /\ queryAt[q] # "credential" => query[q].user \in SentServers(query[q].name)

\* A role is made after the connection, which stays.
RolesConnected ==
  /\ \A n \in role : connection[n] # Nowhere
  /\ \A a \in Admins : adminAt[a] = "role" => connection[admin[a].name] # Nowhere

\* How often a database was configured tells how many have done it, if none or one.
SetupsCounted ==
  \A n \in Names :
    /\ setups[n] = 0 => Senders(n) = {}
    /\ setups[n] = 1 => \A a, b \in Senders(n) : a = b

DbIInv == DbTypeOK /\ Provenance /\ RolesConnected /\ SetupsCounted

LEMMA DbInitInv == DbInit => DbIInv
BY DEF DbInit, DbIInv, DbTypeOK, Provenance, RolesConnected, SetupsCounted, Senders, NoAdmin, NoQuery

LEMMA SentGrows ==
  ASSUME DbIInv, NEW a \in Admins, NEW n \in Names, NEW cfg \in Setups \cup {Nowhere},
         admin[a] = NoAdmin, admin' = [admin EXCEPT ![a] = [name |-> n, cfg |-> cfg]]
  PROVE  \A m : Sent(m) \subseteq Sent(m)' /\ SentServers(m) \subseteq SentServers(m)'
<1>1. \A m : Sent(m) \subseteq Sent(m)'
  BY DEF Sent, Senders, NoAdmin, DbIInv, DbTypeOK
<1> QED
  BY <1>1 DEF SentServers

LEMMA AdminStepInv ==
  ASSUME DbIInv, NEW a \in Admins, AdminStep(a)
  PROVE  DbIInv'
<1> USE DEF DbIInv
<1>1. ASSUME NEW n \in Names, NEW cfg \in Setups, Configure(a, n, cfg) PROVE DbIInv'
  <2>1. /\ adminAt[a] = "idle" /\ admin[a] = NoAdmin
        /\ admin' = [admin EXCEPT ![a] = [name |-> n, cfg |-> cfg]]
        /\ setups' = [setups EXCEPT ![n] = @ + 1]
        /\ adminAt' = [adminAt EXCEPT ![a] = "connection"]
        /\ UNCHANGED <<dbs, connection, role, lease, queryAt, query, pool>>
    BY <1>1 DEF Configure, AdminGoes, queryVars
  <2>2. DbTypeOK'
    BY <2>1 DEF DbTypeOK
  <2>3. Provenance'
    BY <2>1, SentGrows DEF Provenance
  <2>4. RolesConnected'
    BY <2>1 DEF RolesConnected, DbTypeOK
  <2>5. \A m \in Names : Senders(m)' = IF m = n THEN Senders(n) \cup {a} ELSE Senders(m)
    BY <2>1, DatabaseAssumption DEF Senders, DbTypeOK, NoAdmin
  <2>6. setups[n] \in Nat /\ setups'[n] = setups[n] + 1
    BY <2>1 DEF DbTypeOK
  <2>7. setups'[n] # 0 /\ (setups'[n] = 1 => Senders(n)' = {a})
    BY <2>5, <2>6 DEF SetupsCounted
  <2>8. \A m \in Names \ {n} : setups'[m] = setups[m] /\ Senders(m)' = Senders(m)
    BY <2>1, <2>5 DEF DbTypeOK
  <2>9. SetupsCounted'
    BY <2>7, <2>8 DEF SetupsCounted
  <2> QED
    BY <2>2, <2>3, <2>4, <2>9
<1>2. ASSUME NEW n \in Names, RemoveDatabase(a, n) PROVE DbIInv'
  <2>1. /\ adminAt[a] = "idle" /\ admin[a] = NoAdmin
        /\ admin' = [admin EXCEPT ![a] = [name |-> n, cfg |-> Nowhere]]
        /\ dbs' = [dbs EXCEPT ![n] = Nowhere]
        /\ UNCHANGED <<connection, role, lease, adminAt, setups, queryAt, query, pool>>
    BY <1>2 DEF RemoveDatabase, queryVars
  <2>2. DbTypeOK'
    BY <2>1 DEF DbTypeOK
  <2>3. Provenance'
    BY <2>1, SentGrows DEF Provenance, DbTypeOK
  <2>4. RolesConnected'
    BY <2>1 DEF RolesConnected, DbTypeOK
  <2>5. \A m \in Names : Senders(m)' = Senders(m)
    BY <2>1 DEF Senders, DbTypeOK, NoAdmin
  <2>6. SetupsCounted'
    BY <2>1, <2>5 DEF SetupsCounted, DbTypeOK
  <2> QED
    BY <2>2, <2>3, <2>4, <2>6
<1>3. ASSUME WriteConnection(a) \/ WriteRole(a) \/ StoreConfig(a) PROVE DbIInv'
  <2>1. /\ admin[a].name \in Names /\ admin[a].cfg \in Setups /\ admin[a].cfg # Nowhere
        /\ UNCHANGED <<admin, setups, lease, queryAt, query, pool>>
    BY <1>3, DatabaseAssumption DEF WriteConnection, WriteRole, StoreConfig, queryVars, DbTypeOK
  <2>2. \A m : Senders(m)' = Senders(m) /\ Sent(m)' = Sent(m) /\ SentServers(m)' = SentServers(m)
    BY <2>1 DEF Senders, Sent, SentServers
  <2>3. /\ admin[a].cfg \in Sent(admin[a].name)
        /\ admin[a].cfg.host \in SentServers(admin[a].name)
        /\ admin[a].cfg.host \in Servers /\ admin[a].cfg.host # Nowhere
    BY <2>1, DatabaseAssumption DEF Senders, Sent, SentServers, Servers
  <2>4. SetupsCounted'
    BY <2>1, <2>2 DEF SetupsCounted
  <2>5. CASE WriteConnection(a)
    <3>1. DbTypeOK'
      BY <2>1, <2>3, <2>5 DEF WriteConnection, AdminGoes, DbTypeOK
    <3>2. Provenance'
      BY <2>1, <2>2, <2>3, <2>5 DEF WriteConnection, Provenance, DbTypeOK
    <3>3. RolesConnected'
      BY <2>1, <2>3, <2>5 DEF WriteConnection, AdminGoes, RolesConnected, DbTypeOK
    <3> QED
      BY <2>4, <3>1, <3>2, <3>3
  <2>6. CASE WriteRole(a)
    <3>1. DbTypeOK'
      BY <2>1, <2>6 DEF WriteRole, AdminGoes, DbTypeOK
    <3>2. Provenance'
      BY <2>1, <2>2, <2>6 DEF WriteRole, Provenance
    <3>3. RolesConnected'
      BY <2>1, <2>6 DEF WriteRole, AdminGoes, RolesConnected, DbTypeOK
    <3> QED
      BY <2>4, <3>1, <3>2, <3>3
  <2>7. CASE StoreConfig(a)
    <3>1. DbTypeOK'
      BY <2>1, <2>7 DEF StoreConfig, AdminGoes, DbTypeOK
    <3>2. Provenance'
      BY <2>1, <2>2, <2>3, <2>7 DEF StoreConfig, Provenance, DbTypeOK
    <3>3. RolesConnected'
      BY <2>1, <2>7 DEF StoreConfig, AdminGoes, RolesConnected, DbTypeOK
    <3> QED
      BY <2>4, <3>1, <3>2, <3>3
  <2> QED
    BY <1>3, <2>5, <2>6, <2>7
<1> QED
  BY <1>1, <1>2, <1>3 DEF AdminStep

LEMMA LeaseGoneInv ==
  ASSUME DbIInv, NEW n \in Names, LeaseGone(n)
  PROVE  DbIInv'
<1> USE DEF DbIInv
<1>1. lease' = [lease EXCEPT ![n] = Nowhere]
      /\ UNCHANGED <<dbs, connection, role, adminAt, admin, setups, queryAt, query, pool>>
  BY DEF LeaseGone, adminVars, queryVars
<1>2. \A m : Senders(m)' = Senders(m) /\ Sent(m)' = Sent(m) /\ SentServers(m)' = SentServers(m)
  BY <1>1 DEF Senders, Sent, SentServers
<1>3. DbTypeOK' /\ RolesConnected' /\ SetupsCounted'
  BY <1>1, <1>2 DEF DbTypeOK, RolesConnected, SetupsCounted
<1>4. Provenance'
  BY <1>1, <1>2 DEF Provenance, DbTypeOK
<1> QED
  BY <1>3, <1>4

\* A query changes nothing but itself and the lease that it has just obtained.
LEMMA QueryMoves ==
  ASSUME DbIInv, NEW q \in Queries,
         UNCHANGED <<dbs, connection, role, adminAt, admin, setups>>,
         DbTypeOK',
         \A r \in Queries \ {q} : queryAt'[r] = queryAt[r] /\ query'[r] = query[r],
         \A n \in Names : lease'[n] = lease[n] \/ lease'[n] \in SentServers(n),
         queryAt'[q] \notin {"idle", "done"} =>
           /\ query'[q].cfg \in Sent(query'[q].name)
           /\ queryAt'[q] # "credential" => query'[q].user \in SentServers(query'[q].name)
  PROVE  DbIInv'
<1>1. \A m : Senders(m)' = Senders(m) /\ Sent(m)' = Sent(m) /\ SentServers(m)' = SentServers(m)
  BY DEF Senders, Sent, SentServers
<1> QED
  BY <1>1 DEF DbIInv, Provenance, RolesConnected, SetupsCounted

\* A query that returns forgets what it knew.
LEMMA QueryEnds ==
  ASSUME DbIInv, NEW q \in Queries, QueryReturns(q),
         UNCHANGED <<dbs, connection, role, adminAt, admin, setups, lease>>
  PROVE  DbIInv'
<1>1. /\ queryAt' = [queryAt EXCEPT ![q] = "done"]
      /\ query' = [query EXCEPT ![q] = NoQuery]
      /\ pool' = [pool EXCEPT ![q] = FALSE]
  BY DEF QueryReturns, QueryGoes
<1>2. DbTypeOK'
  BY <1>1 DEF DbIInv, DbTypeOK, NoQuery
<1>3. /\ queryAt'[q] = "done"
      /\ \A r \in Queries \ {q} : queryAt'[r] = queryAt[r] /\ query'[r] = query[r]
  BY <1>1 DEF DbIInv, DbTypeOK
<1> QED
  BY <1>2, <1>3, QueryMoves

LEMMA LookUpInv ==
  ASSUME DbIInv, NEW q \in Queries, NEW n \in Names, LookUp(q, n)
  PROVE  DbIInv'
<1> USE DEF DbIInv
<1>0. UNCHANGED <<dbs, connection, role, adminAt, admin, setups, lease>>
  BY DEF LookUp, outsideQuery, adminVars
<1>1. CASE QueryReturns(q)
  BY <1>0, <1>1, QueryEnds
<1>2. CASE ~QueryReturns(q)
  <2>1. /\ query' = [query EXCEPT ![q] = [NoQuery EXCEPT !.name = n, !.cfg = dbs[n]]]
        /\ queryAt' = [queryAt EXCEPT ![q] = "credential"]
        /\ dbs[n] # Nowhere /\ UNCHANGED pool
    BY <1>2 DEF LookUp, QueryGoes
  <2>2. DbTypeOK'
    BY <1>0, <2>1 DEF DbTypeOK, NoQuery
  <2>3. dbs[n] \in Sent(n)
    BY <2>1 DEF Provenance
  <2>4. query'[q].name = n /\ query'[q].cfg = dbs[n] /\ queryAt'[q] = "credential"
    BY <2>1 DEF DbTypeOK, NoQuery
  <2>5. \A r \in Queries \ {q} : queryAt'[r] = queryAt[r] /\ query'[r] = query[r]
    BY <2>1 DEF DbTypeOK
  <2> QED
    BY <1>0, <2>2, <2>3, <2>4, <2>5, QueryMoves
<1> QED
  BY <1>1, <1>2

\* FindLease, Provision and Remember: the query learns its user.
LEMMA CredentialStepInv ==
  ASSUME DbIInv, NEW q \in Queries, FindLease(q) \/ Provision(q) \/ Remember(q)
  PROVE  DbIInv'
<1> USE DEF DbIInv
<1> DEFINE n == query[q].name
<1>1. /\ queryAt[q] \in {"credential", "remember"} /\ n \in Names
      /\ UNCHANGED <<dbs, connection, role, adminAt, admin, setups>>
      /\ query[q].cfg \in Sent(n)
  BY DEF FindLease, Provision, Remember, outsideQuery, adminVars, DbTypeOK, Provenance
<1>2. ASSUME NEW s \in SentServers(n), query' = [query EXCEPT ![q].user = s],
             NEW to \in {"open", "remember"}, queryAt' = [queryAt EXCEPT ![q] = to],
             UNCHANGED <<lease, pool>>
      PROVE  DbIInv'
  <2>1. s \in Servers
    BY DEF SentServers, Sent, Senders, Servers, DbTypeOK
  <2>2. DbTypeOK'
    BY <1>1, <1>2, <2>1 DEF DbTypeOK
  <2>3. \A r \in Queries \ {q} : queryAt'[r] = queryAt[r] /\ query'[r] = query[r]
    BY <1>2 DEF DbTypeOK
  <2>4. query'[q].name = n /\ query'[q].cfg = query[q].cfg /\ query'[q].user = s
    BY <1>2 DEF DbTypeOK
  <2> HIDE DEF n
  <2> QED
    BY <1>1, <1>2, <2>2, <2>3, <2>4, QueryMoves
<1>3. CASE FindLease(q)
  <2>1. lease[n] \in SentServers(n)
    BY <1>1, <1>3 DEF FindLease, Provenance
  <2>2. query' = [query EXCEPT ![q].user = lease[n]]
        /\ queryAt' = [queryAt EXCEPT ![q] = "open"] /\ UNCHANGED <<lease, pool>>
    BY <1>3 DEF FindLease, Learns, QueryGoes
  <2> QED
    BY <1>2, <2>1, <2>2
<1>4. CASE Provision(q)
  <2>1. CASE n \in role /\ Learns(q, "user", connection[n]) /\ QueryGoes(q, "remember") /\ UNCHANGED pool
    <3>1. connection[n] \in SentServers(n)
      BY <1>1, <2>1 DEF Provenance, RolesConnected
    <3>2. query' = [query EXCEPT ![q].user = connection[n]]
          /\ queryAt' = [queryAt EXCEPT ![q] = "remember"] /\ UNCHANGED <<lease, pool>>
      BY <1>4, <2>1 DEF Provision, Learns, QueryGoes
    <3> QED
      BY <1>2, <3>1, <3>2
  <2>2. CASE QueryReturns(q)
    <3>1. UNCHANGED lease
      BY <1>4 DEF Provision
    <3> QED
      BY <1>1, <2>2, <3>1, QueryEnds
  <2> QED
    BY <1>4, <2>1, <2>2 DEF Provision
<1>5. CASE Remember(q)
  <2>1. /\ queryAt[q] = "remember" /\ lease' = [lease EXCEPT ![n] = query[q].user]
        /\ queryAt' = [queryAt EXCEPT ![q] = "open"] /\ UNCHANGED <<query, pool>>
    BY <1>5 DEF Remember, QueryGoes
  <2>2. query[q].user \in SentServers(n)
    BY <2>1 DEF Provenance
  <2>3. query[q].user \in Servers
    BY <2>2 DEF SentServers, Sent, Senders, Servers, DbTypeOK
  <2>4. DbTypeOK'
    BY <1>1, <2>1, <2>3 DEF DbTypeOK
  <2>5. \A m \in Names : lease'[m] = lease[m] \/ lease'[m] \in SentServers(m)
    BY <2>1, <2>2 DEF DbTypeOK
  <2>6. \A r \in Queries \ {q} : queryAt'[r] = queryAt[r] /\ query'[r] = query[r]
    BY <2>1 DEF DbTypeOK
  <2> HIDE DEF n
  <2> QED
    BY <1>1, <2>1, <2>2, <2>4, <2>5, <2>6, QueryMoves DEF n
<1> QED
  BY <1>3, <1>4, <1>5

\* From the opening of the pool on, a query keeps its configuration and its user.
LEMMA ExecuteStepInv ==
  ASSUME DbIInv, NEW q \in Queries,
         \/ Open(q) \/ BeginReadOnly(q) \/ Begin(q) \/ SetReadOnly(q) \/ Rollback(q)
         \/ Direct(q) \/ Run(q) \/ Answer(q)
  PROVE  DbIInv'
<1> USE DEF DbIInv
<1>1. queryAt[q] \notin {"idle", "done", "credential"}
      /\ UNCHANGED <<dbs, connection, role, adminAt, admin, setups, lease>>
  BY DEF Open, BeginReadOnly, Begin, SetReadOnly, Rollback, Direct, Run, Answer, outsideQuery, adminVars
<1>9. CASE QueryReturns(q)
  BY <1>1, <1>9, QueryEnds
<1>10. SUFFICES ASSUME ~QueryReturns(q) PROVE DbIInv'
  BY <1>9
<1>2. PICK to \in {"option", "begin", "statement", "rollback", "direct", "run", "rows"} :
        queryAt' = [queryAt EXCEPT ![q] = to]
  BY <1>10 DEF Open, BeginReadOnly, Begin, SetReadOnly, Rollback, Direct, Run, Answer, QueryGoes
<1>6. query' = query \/ query' = [query EXCEPT ![q].readOnly = TRUE]
  BY <1>10 DEF Open, BeginReadOnly, Begin, SetReadOnly, Rollback, Direct, Run, Answer, Learns
<1>7. pool' \in [Queries -> BOOLEAN]
  BY <1>10 DEF Open, BeginReadOnly, Begin, SetReadOnly, Rollback, Direct, Run, Answer, DbTypeOK
<1>8. DbTypeOK'
  <2>1. query[q].name \in Names
    BY <1>1 DEF DbTypeOK
  <2>2. /\ query' \in [Queries -> [name: Names \cup {Nowhere}, cfg: Setups \cup {Nowhere},
                                  user: Servers \cup {Nowhere}, readOnly: BOOLEAN]]
        /\ \A r \in Queries : query'[r].name = query[r].name
    <3>1. CASE query' = query
      BY <3>1 DEF DbTypeOK
    <3>2. CASE query' = [query EXCEPT ![q].readOnly = TRUE]
      <4>1. query[q] \in [name: Names \cup {Nowhere}, cfg: Setups \cup {Nowhere},
                          user: Servers \cup {Nowhere}, readOnly: BOOLEAN]
        BY DEF DbTypeOK
      <4>2. [query[q] EXCEPT !.readOnly = TRUE] \in
              [name: Names \cup {Nowhere}, cfg: Setups \cup {Nowhere},
               user: Servers \cup {Nowhere}, readOnly: BOOLEAN]
        BY <4>1
      <4>3. [query[q] EXCEPT !.readOnly = TRUE].name = query[q].name
        BY <4>1
      <4>4. query' = [query EXCEPT ![q] = [query[q] EXCEPT !.readOnly = TRUE]]
        BY <3>2
      <4> QED
        BY <4>2, <4>3, <4>4 DEF DbTypeOK
    <3> QED
      BY <1>6, <3>1, <3>2
  <2>3. queryAt' \in [Queries -> {"idle", "credential", "remember", "open", "option", "begin",
                                  "statement", "rollback", "direct", "run", "rows", "done"}]
    BY <1>2 DEF DbTypeOK
  <2>4. \A r \in Queries : queryAt'[r] \notin {"idle", "done"} => query'[r].name \in Names
    BY <1>2, <2>1, <2>2 DEF DbTypeOK
  <2> QED
    BY <1>1, <1>7, <2>2, <2>3, <2>4 DEF DbTypeOK
<1>3. /\ query'[q].name = query[q].name /\ query'[q].cfg = query[q].cfg /\ query'[q].user = query[q].user
      /\ \A r \in Queries \ {q} : queryAt'[r] = queryAt[r] /\ query'[r] = query[r]
  BY <1>2, <1>6 DEF DbTypeOK
<1>4. /\ query[q].cfg \in Sent(query[q].name)
      /\ query[q].user \in SentServers(query[q].name)
  BY <1>1 DEF Provenance
<1> QED
  BY <1>1, <1>3, <1>4, <1>8, QueryMoves

LEMMA DbStepInv == DbIInv /\ [DbNext]_dbVars => DbIInv'
<1> SUFFICES ASSUME DbIInv, [DbNext]_dbVars PROVE DbIInv'
  OBVIOUS
<1>1. ASSUME NEW a \in Admins, AdminStep(a) PROVE DbIInv'
  BY <1>1, AdminStepInv
<1>2. ASSUME NEW n \in Names, LeaseGone(n) PROVE DbIInv'
  BY <1>2, LeaseGoneInv
<1>3. ASSUME NEW q \in Queries, QueryStep(q) PROVE DbIInv'
  BY <1>3, CredentialStepInv, ExecuteStepInv DEF QueryStep
<1>4. ASSUME NEW q \in Queries, NEW n \in Names, LookUp(q, n) PROVE DbIInv'
  BY <1>4, LookUpInv
<1>5. CASE UNCHANGED dbVars
  BY <1>5 DEF dbVars, DbIInv, DbTypeOK, Provenance, RolesConnected, SetupsCounted, Sent, Senders,
              SentServers
<1> QED
  BY <1>1, <1>2, <1>3, <1>4, <1>5 DEF DbNext

LEMMA DbInvariance == DbSpec => []DbIInv
BY DbInitInv, DbStepInv, PTL DEF DbSpec

\* Configurations, leases and queries keep their types (Manager, executeQuery).
THEOREM DbTypeCorrectness == DbSpec => []DbTypeOK
<1>1. DbIInv => DbTypeOK
  BY DEF DbIInv
<1> QED
  BY <1>1, DbInvariance, PTL

LEMMA UserFits == DbIInv => UserFitsServer
<1> SUFFICES ASSUME DbIInv, NEW q \in Queries, Connecting(q), setups[query[q].name] <= 1
             PROVE  query[q].user = query[q].cfg.host
  BY DEF UserFitsServer
<1> DEFINE n == query[q].name
<1>1. n \in Names /\ query[q].cfg \in Sent(n) /\ query[q].user \in SentServers(n)
  BY DEF DbIInv, Provenance, DbTypeOK, Connecting
<1>2. setups[n] \in Nat
  BY <1>1 DEF DbIInv, DbTypeOK
<1>3. \A a, b \in Senders(n) : a = b
  BY <1>1, <1>2 DEF DbIInv, SetupsCounted
<1> HIDE DEF n
<1> QED
  BY <1>1, <1>3 DEF Sent, SentServers

\* Whatever dashboards and queries run at the same time: the user that a query presents
\* was made on the server it goes to, if the database was configured once.
THEOREM UserFitsServerHolds == DbSpec => []UserFitsServer
BY UserFits, DbInvariance, PTL

-----------------------------------------------------------------------------
(* The token of OpenBao *)

USE RenewalAssumption DEF RenewalAssumption

\* How long the last successful call and the failures since then excuse the
\* goroutine.
Credit == expiry + Interval * (missed + 1)

\* The goroutine keeps its appointments: a credit that is not exhausted at the
\* tick before the calls covers the next tick after them.
Appointments ==
  /\ due = 0 => loop = "wait" /\ now <= Latency /\ expiry = TokenTTL /\ missed = 0
  /\ due # 0 /\ loop = "wait" =>
       due <= now + Interval /\ now <= due /\ due < Credit
  /\ due # 0 /\ loop # "wait" =>
       /\ due <= now + Interval /\ now + Interval <= due + Latency
       /\ due < Credit + Interval

RenewalIInv == TypeOK /\ missed <= fails /\ Appointments

\* A further missed period is worth one interval.
LEMMA OneMore == ASSUME NEW m \in Nat
                 PROVE  /\ Interval * (m + 1) \in Nat
                        /\ Interval * ((m + 1) + 1) = Interval * (m + 1) + Interval
                        /\ Interval * (0 + 1) = Interval
                        /\ Interval <= Interval * (m + 1)
  BY SMTT(30)

LEMMA RenewalInitInv == ASSUME Init PROVE RenewalIInv
  BY DEF Init, RenewalIInv, TypeOK, Appointments, Credit

\* One step of the goroutine, the ticker or the clock.
LEMMA RenewalStepInv == ASSUME RenewalIInv, [Next]_vars PROVE RenewalIInv'
<1> USE DEF RenewalIInv, TypeOK, Appointments, Credit
<1>0. /\ Interval * (missed + 1) \in Nat
      /\ Interval * ((missed + 1) + 1) = Interval * (missed + 1) + Interval
      /\ Interval * (0 + 1) = Interval
      /\ Interval <= Interval * (missed + 1)
  <2>1. missed \in Nat
    OBVIOUS
  <2> QED BY <2>1, OneMore
<1>1. CASE StartTokenRenewal
  BY <1>0, <1>1 DEF StartTokenRenewal
<1>2. CASE Tick
  BY <1>0, <1>2 DEF Tick
<1>3. CASE TickerFires
  BY <1>0, <1>3 DEF TickerFires
<1>4. CASE Renew
  <2> USE <1>4 DEF Renew
  <2>1. /\ expiry' \in issued .. issued + MaxTTL
        /\ now < expiry'
    BY DEF Valid, Extended
  <2>2. Interval * (missed' + 1) = Interval
    BY <1>0
  <2>3. loop # "wait" /\ due # 0
    OBVIOUS
  <2>4. due' < Credit'
    BY <2>1, <2>2, <2>3
  <2>5. TypeOK'
    BY <2>1
  <2>6. Appointments'
    BY <2>3, <2>4
  <2> QED
    BY <2>5, <2>6
<1>5. CASE RenewFails
  BY <1>0, <1>5 DEF RenewFails, Fail
<1>6. CASE Relogin
  BY <1>0, <1>6 DEF Relogin
<1>7. CASE ReloginFails
  BY <1>0, <1>7 DEF ReloginFails, Fail
<1>8. CASE UNCHANGED vars
  BY <1>8 DEF vars
<1> QED
  BY <1>1, <1>2, <1>3, <1>4, <1>5, <1>6, <1>7, <1>8 DEF Next

LEMMA RenewalInvariance == Spec => []RenewalIInv
<1>1. Init => RenewalIInv
  BY RenewalInitInv
<1>2. RenewalIInv /\ [Next]_vars => RenewalIInv'
  BY RenewalStepInv
<1> QED
  BY <1>1, <1>2, PTL DEF Spec

\* The variables keep their types and the next tick is never more than an interval
\* away (StartTokenRenewal).
THEOREM RenewalTypeCorrectness == Spec => []TypeOK
<1>1. RenewalIInv => TypeOK
  BY DEF RenewalIInv
<1> QED
  BY <1>1, RenewalInvariance, PTL

LEMMA OutageExcused == RenewalIInv => OutageBounded
<1> SUFFICES ASSUME RenewalIInv PROVE OutageBounded
  OBVIOUS
<1> USE DEF RenewalIInv, TypeOK, Appointments, Credit, OutageBounded
<1>1. missed \in Nat
  OBVIOUS
<1>2. Interval * (missed + 1) \in Nat /\ Interval <= Interval * (missed + 1)
  BY <1>1, OneMore
<1> QED
  BY <1>2

\* For all intervals, times to live and latencies the client is without a valid
\* token for less than an interval and the time of the calls, and an interval more
\* for each period in a row in which every call failed (StartTokenRenewal).
THEOREM OutageIsBounded == Spec => []OutageBounded
BY OutageExcused, RenewalInvariance, PTL

-----------------------------------------------------------------------------
(* The stdio bridge *)

\* The lines that wait are in order, and after the one under way and those answered.
Queued ==
  /\ \A i \in 1 .. Len(inbox) :
       /\ inbox[i].number <= lines
       /\ WantsAnswer(inbox[i]) => inbox[i].number \in awaited
       /\ \A j \in 1 .. i - 1 : inbox[j].number < inbox[i].number
       /\ \A j \in 1 .. Len(replies) : replies[j] < inbox[i].number
  /\ \A j \in 1 .. Len(replies) : replies[j] <= lines

\* The line of a request that the container has not answered yet.
UnderWay ==
  serving = "await" =>
    /\ line \in Line
    /\ line.number <= lines
    /\ line.hasId => line.number \in awaited
    /\ \A i \in 1 .. Len(inbox) : line.number < inbox[i].number
    /\ \A j \in 1 .. Len(replies) : replies[j] < line.number

BridgeIInv == BridgeTypeOK /\ Queued /\ UnderWay /\ AnswersInOrder

LEMMA BridgeInitInv == BridgeInit => BridgeIInv
BY BridgeAssumption, EmptySeq DEF BridgeInit, BridgeIInv, BridgeTypeOK, Queued, UnderWay, AnswersInOrder

LEMMA LinesNumbered ==
  ASSUME NEW s \in Seq(Line), NEW i \in 1 .. Len(s)
  PROVE  s[i].number \in Nat
<1>1. s[i] \in Line
  BY ElementOfSeq
<1>2. s[i].number \in 1 .. LastLine
  BY <1>1 DEF Line, LineNumbers
<1> QED
  BY <1>2, BridgeAssumption

LEMMA AnswersNumbered ==
  ASSUME BridgeTypeOK, NEW j \in 1 .. Len(replies)
  PROVE  replies[j] \in Nat
<1>1. replies[j] \in 0 .. LastLine
  BY ElementOfSeq DEF BridgeTypeOK
<1> QED
  BY <1>1, BridgeAssumption

LEMMA AgentWritesInv ==
  ASSUME BridgeIInv, NEW l \in Line, AgentWrites(l)
  PROVE  BridgeIInv'
<1> USE DEF BridgeIInv
<1>1. lines \in Nat /\ l.number = lines + 1 /\ LastLine \in Nat /\ lines' = lines + 1
      /\ lines' \in 0 .. LastLine /\ awaited \subseteq awaited'
  BY BridgeAssumption DEF AgentWrites, BridgeTypeOK
<1>2. /\ inbox' \in Seq(Line) /\ Len(inbox') = Len(inbox) + 1 /\ Len(inbox) \in Nat
      /\ \A i \in 1 .. Len(inbox) : inbox'[i] = inbox[i]
      /\ inbox'[Len(inbox) + 1] = l
  BY AppendProperties DEF AgentWrites, BridgeTypeOK
<1>3. BridgeTypeOK'
  BY <1>1, <1>2 DEF AgentWrites, BridgeTypeOK, Line
<1>4. Queued'
  <2>1. replies' = replies /\ (WantsAnswer(l) => l.number \in awaited')
    BY DEF AgentWrites
  <2>2. Len(replies) \in Nat /\ \A j \in 1 .. Len(replies) : replies[j] \in Nat
    BY AnswersNumbered, LenProperties DEF BridgeTypeOK
  <2>3. \A i \in 1 .. Len(inbox) : inbox[i].number \in Nat
    BY LinesNumbered DEF BridgeTypeOK
  <2>4. \A i \in 1 .. Len(inbox') : WantsAnswer(inbox'[i]) => inbox'[i].number \in awaited'
    <3> SUFFICES ASSUME NEW i \in 1 .. Len(inbox'), WantsAnswer(inbox'[i])
                 PROVE  inbox'[i].number \in awaited'
      OBVIOUS
    <3>1. CASE i = Len(inbox) + 1
      BY <1>2, <2>1, <3>1
    <3>2. CASE i \in 1 .. Len(inbox)
      BY <1>1, <1>2, <3>2 DEF Queued
    <3> QED
      BY <1>2, <3>1, <3>2
  <2>5. \A i \in 1 .. Len(inbox') :
          /\ inbox'[i].number <= lines'
          /\ \A j \in 1 .. i - 1 : inbox'[j].number < inbox'[i].number
          /\ \A j \in 1 .. Len(replies) : replies[j] < inbox'[i].number
    <3> SUFFICES ASSUME NEW i \in 1 .. Len(inbox')
                 PROVE  /\ inbox'[i].number <= lines'
                        /\ \A j \in 1 .. i - 1 : inbox'[j].number < inbox'[i].number
                        /\ \A j \in 1 .. Len(replies) : replies[j] < inbox'[i].number
      OBVIOUS
    <3>1. CASE i = Len(inbox) + 1
      BY <1>1, <1>2, <2>2, <2>3, <3>1 DEF Queued
    <3>2. CASE i \in 1 .. Len(inbox)
      <4>1. \A j \in 1 .. i - 1 : j \in 1 .. Len(inbox) /\ inbox'[j] = inbox[j]
        BY <1>2, <3>2
      <4>2. inbox'[i].number <= lines'
        BY <1>1, <1>2, <2>3, <3>2 DEF Queued
      <4> QED
        BY <1>2, <3>2, <4>1, <4>2 DEF Queued
    <3> QED
      BY <1>2, <3>1, <3>2
  <2> QED
    BY <1>1, <2>1, <2>2, <2>4, <2>5 DEF Queued
<1>5. UnderWay'
  BY <1>1, <1>2 DEF AgentWrites, UnderWay, Line, LineNumbers
<1>6. AnswersInOrder'
  BY <1>1 DEF AgentWrites, AnswersInOrder
<1> QED
  BY <1>3, <1>4, <1>5, <1>6

\* An answer to n comes after all others.
LEMMA AnswerNext ==
  ASSUME BridgeIInv, awaited' = awaited,
         NEW n \in 0 .. LastLine, replies' = Append(replies, n),
         n # 0 => n \in awaited,
         n # 0 => \A j \in 1 .. Len(replies) : replies[j] < n
  PROVE  /\ replies' \in Seq(0 .. LastLine)
         /\ Len(replies) \in Nat /\ Len(replies') = Len(replies) + 1
         /\ \A j \in 1 .. Len(replies) : replies'[j] = replies[j]
         /\ replies'[Len(replies) + 1] = n
         /\ AnswersInOrder'
<1>1. /\ replies' \in Seq(0 .. LastLine)
      /\ Len(replies) \in Nat /\ Len(replies') = Len(replies) + 1
      /\ \A j \in 1 .. Len(replies) : replies'[j] = replies[j]
      /\ replies'[Len(replies) + 1] = n
      /\ DOMAIN replies = 1 .. Len(replies) /\ DOMAIN replies' = 1 .. Len(replies')
  BY AppendProperties DEF BridgeIInv, BridgeTypeOK
<1>2. ASSUME NEW j \in DOMAIN replies', replies'[j] # 0
      PROVE  replies'[j] \in awaited' /\ \A i \in 1 .. j - 1 : replies'[i] < replies'[j]
  <2>1. CASE j = Len(replies) + 1
    BY <1>1, <1>2, <2>1
  <2>2. CASE j \in 1 .. Len(replies)
    BY <1>1, <1>2, <2>2 DEF BridgeIInv, AnswersInOrder
  <2> QED
    BY <1>1, <2>1, <2>2
<1> QED
  BY <1>1, <1>2 DEF AnswersInOrder

\* What is left of the lines when the first has been read.
LEMMA LinesLeft ==
  ASSUME BridgeIInv, inbox # <<>>, inbox' = Tail(inbox)
  PROVE  /\ Head(inbox) = inbox[1] /\ Head(inbox) \in Line
         /\ inbox' \in Seq(Line)
         /\ Len(inbox) \in Nat \ {0} /\ Len(inbox') = Len(inbox) - 1
         /\ \A i \in 1 .. Len(inbox') : inbox'[i] = inbox[i + 1]
         /\ \A i \in 1 .. Len(inbox') : inbox[1].number < inbox[i + 1].number
<1>1. /\ Head(inbox) = inbox[1] /\ Head(inbox) \in Line
      /\ inbox' \in Seq(Line)
      /\ Len(inbox) \in Nat \ {0} /\ Len(inbox') = Len(inbox) - 1
      /\ \A i \in 1 .. Len(inbox') : inbox'[i] = inbox[i + 1]
  BY HeadTailProperties, EmptySeq DEF BridgeIInv, BridgeTypeOK
<1>2. \A i \in 1 .. Len(inbox') : i + 1 \in 1 .. Len(inbox) /\ 1 \in 1 .. (i + 1) - 1
  BY <1>1
<1> QED
  BY <1>1, <1>2 DEF BridgeIInv, Queued

LEMMA ScanInv ==
  ASSUME BridgeIInv, Scan
  PROVE  BridgeIInv'
<1> DEFINE l == Head(inbox)
<1>1. /\ l = inbox[1] /\ l \in Line
      /\ inbox' \in Seq(Line)
      /\ Len(inbox) \in Nat \ {0} /\ Len(inbox') = Len(inbox) - 1
      /\ \A i \in 1 .. Len(inbox') : inbox'[i] = inbox[i + 1]
      /\ \A i \in 1 .. Len(inbox') : l.number < inbox'[i].number
  BY LinesLeft DEF Scan
<1>2. /\ l.number \in 1 .. LastLine /\ l.number <= lines /\ lines \in Nat
      /\ WantsAnswer(l) => l.number \in awaited
      /\ \A j \in 1 .. Len(replies) : replies[j] < l.number
  BY <1>1 DEF BridgeIInv, BridgeTypeOK, Queued, Line, LineNumbers
<1>3. /\ lines' = lines /\ awaited' = awaited /\ stdin' = stdin
      /\ running' = running /\ bridge' = bridge
  BY DEF Scan
<1>4. \A i \in 1 .. Len(inbox') :
        /\ inbox'[i].number <= lines
        /\ WantsAnswer(inbox'[i]) => inbox'[i].number \in awaited
        /\ \A j \in 1 .. i - 1 : inbox'[j].number < inbox'[i].number
        /\ \A j \in 1 .. Len(replies) : replies[j] < inbox'[i].number
  <2> SUFFICES ASSUME NEW i \in 1 .. Len(inbox')
               PROVE  /\ inbox'[i].number <= lines
                      /\ WantsAnswer(inbox'[i]) => inbox'[i].number \in awaited
                      /\ \A j \in 1 .. i - 1 : inbox'[j].number < inbox'[i].number
                      /\ \A j \in 1 .. Len(replies) : replies[j] < inbox'[i].number
    OBVIOUS
  <2>1. i + 1 \in 1 .. Len(inbox) /\ inbox'[i] = inbox[i + 1]
    BY <1>1
  <2>2. \A j \in 1 .. i - 1 : j + 1 \in 1 .. (i + 1) - 1 /\ inbox'[j] = inbox[j + 1]
    BY <1>1
  <2> QED
    BY <2>1, <2>2 DEF BridgeIInv, Queued
<1>5. CASE UNCHANGED replies
  <2>1. Queued' /\ AnswersInOrder'
    BY <1>3, <1>4, <1>5 DEF BridgeIInv, Queued, AnswersInOrder, WantsAnswer
  <2>2. CASE HandleAtOnce(l)
    BY <1>1, <1>3, <1>5, <2>1, <2>2
    DEF Scan, HandleAtOnce, BridgeIInv, BridgeTypeOK, UnderWay
  <2>3. CASE SendRequest(l)
    <3>1. UnderWay'
      BY <1>1, <1>2, <1>3, <2>3 DEF SendRequest, UnderWay, WantsAnswer
    <3> QED
      BY <1>1, <1>3, <2>1, <2>3, <3>1 DEF SendRequest, BridgeIInv, BridgeTypeOK
  <2>4. CASE StopAtLongLine(l)
    BY <1>1, <1>3, <2>1, <2>4 DEF StopAtLongLine, BridgeIInv, BridgeTypeOK, UnderWay
  <2> QED
    BY <2>2, <2>3, <2>4 DEF Scan
<1>6. ASSUME NEW n \in {0, l.number}, replies' = Append(replies, n),
             n # 0 => n \in awaited, HandleAtOnce(l)
      PROVE  BridgeIInv'
  <2>1. n \in 0 .. LastLine /\ (n # 0 => \A j \in 1 .. Len(replies) : replies[j] < n)
        /\ n <= lines /\ \A i \in 1 .. Len(inbox') : n < inbox'[i].number
    <3>1. l.number \in Nat /\ \A i \in 1 .. Len(inbox') : inbox'[i].number \in Nat
      BY <1>1, <1>2, LinesNumbered
    <3>2. CASE n = l.number
      BY <1>1, <1>2, <3>2, BridgeAssumption
    <3>3. CASE n = 0
      <4>1. \A i \in 1 .. Len(inbox') : 0 < inbox'[i].number
        BY <1>1, <1>2, <3>1
      <4> QED
        BY <1>2, <3>3, <4>1, BridgeAssumption
    <3> QED
      BY <1>6, <3>2, <3>3
  <2>2. /\ replies' \in Seq(0 .. LastLine)
        /\ Len(replies) \in Nat /\ Len(replies') = Len(replies) + 1
        /\ \A j \in 1 .. Len(replies) : replies'[j] = replies[j]
        /\ replies'[Len(replies) + 1] = n
        /\ AnswersInOrder'
    BY <1>3, <1>6, <2>1, AnswerNext
  <2>3. \A j \in 1 .. Len(replies') : j \in 1 .. Len(replies) \/ j = Len(replies) + 1
    BY <2>2
  <2>4. Queued'
    BY <1>3, <1>4, <2>1, <2>2, <2>3 DEF BridgeIInv, Queued, WantsAnswer
  <2> QED
    BY <1>1, <1>3, <1>6, <2>2, <2>4
    DEF Scan, HandleAtOnce, BridgeIInv, BridgeTypeOK, UnderWay
<1>7. CASE HandleAtOnce(l) /\ l.kind = "garbage"
  BY <1>6, <1>7 DEF HandleAtOnce
<1>8. CASE HandleAtOnce(l) /\ l.kind = "atOnce" /\ l.hasId
  <2>1. l.number \in awaited
    BY <1>2, <1>8 DEF WantsAnswer
  <2> QED
    BY <1>6, <1>8, <2>1 DEF HandleAtOnce, Reply
<1>9. HandleAtOnce(l) =>
        UNCHANGED replies \/ l.kind = "garbage" \/ (l.kind = "atOnce" /\ l.hasId)
  <2> SUFFICES ASSUME HandleAtOnce(l), l.kind # "garbage", ~(l.kind = "atOnce" /\ l.hasId)
               PROVE  UNCHANGED replies
    OBVIOUS
  <2>1. CASE l.kind = "atOnce"
    BY <2>1 DEF HandleAtOnce, Reply
  <2>2. CASE l.kind \in {"blank", "initialized"}
    BY <2>2 DEF HandleAtOnce
  <2> QED
    BY <2>1, <2>2 DEF HandleAtOnce
<1> QED
  BY <1>5, <1>7, <1>8, <1>9 DEF Scan, SendRequest, StopAtLongLine

LEMMA RequestEndsInv ==
  ASSUME BridgeIInv, RequestEnds, running' \subseteq running
  PROVE  BridgeIInv'
<1>1. /\ line \in Line /\ line.number \in 1 .. LastLine /\ line.number <= lines
      /\ line.hasId => line.number \in awaited
      /\ \A i \in 1 .. Len(inbox) : line.number < inbox[i].number
      /\ \A j \in 1 .. Len(replies) : replies[j] < line.number
  BY DEF RequestEnds, BridgeIInv, UnderWay, Line, LineNumbers
<1>2. /\ inbox' = inbox /\ lines' = lines /\ stdin' = stdin /\ bridge' = bridge
      /\ awaited' = awaited /\ serving' = "scan" /\ line' = NoLine
  BY DEF RequestEnds
<1>3. CASE ~line.hasId
  BY <1>2, <1>3 DEF RequestEnds, Reply, BridgeIInv, BridgeTypeOK, Queued, UnderWay, AnswersInOrder
<1>4. CASE line.hasId
  <2>1. /\ replies' \in Seq(0 .. LastLine)
        /\ Len(replies) \in Nat /\ Len(replies') = Len(replies) + 1
        /\ \A j \in 1 .. Len(replies) : replies'[j] = replies[j]
        /\ replies'[Len(replies) + 1] = line.number
        /\ AnswersInOrder'
    BY <1>1, <1>2, <1>4, AnswerNext DEF RequestEnds, Reply
  <2>2. \A j \in 1 .. Len(replies') : j \in 1 .. Len(replies) \/ j = Len(replies) + 1
    BY <2>1
  <2>3. Queued'
    BY <1>1, <1>2, <2>1, <2>2 DEF BridgeIInv, Queued
  <2> QED
    BY <1>2, <2>1, <2>3 DEF BridgeIInv, BridgeTypeOK, UnderWay
<1> QED
  BY <1>3, <1>4

LEMMA BridgeStepInv == BridgeIInv /\ [BridgeNext]_bridgeVars => BridgeIInv'
<1> SUFFICES ASSUME BridgeIInv, [BridgeNext]_bridgeVars PROVE BridgeIInv'
  OBVIOUS
<1> USE DEF BridgeIInv, BridgeTypeOK, Queued, UnderWay, AnswersInOrder
<1>1. CASE AgentLeaves
  BY <1>1 DEF AgentLeaves
<1>2. CASE ScanEnds
  BY <1>2 DEF ScanEnds
<1>3. CASE Arrives
  BY <1>3 DEF Arrives, Line
<1>4. CASE ContainerAnswers \/ Unreachable \/ TimesOut
  BY <1>4, RequestEndsInv DEF ContainerAnswers, Unreachable, TimesOut
<1>5. ASSUME NEW n \in LineNumbers, AbandonedEnds(n) PROVE BridgeIInv'
  BY <1>5 DEF AbandonedEnds
<1>6. CASE BridgeEnds
  BY <1>6 DEF BridgeEnds
<1>7. CASE UNCHANGED bridgeVars
  BY <1>7 DEF bridgeVars
<1> QED
  BY <1>1, <1>2, <1>3, <1>4, <1>5, <1>6, <1>7, AgentWritesInv, ScanInv DEF BridgeNext

LEMMA BridgeInvariance == BridgeSpec => []BridgeIInv
BY BridgeInitInv, BridgeStepInv, PTL DEF BridgeSpec

\* Lines, requests and answers keep their types (Server, ContainerClient).
THEOREM BridgeTypeCorrectness == BridgeSpec => []BridgeTypeOK
<1>1. BridgeIInv => BridgeTypeOK
  BY DEF BridgeIInv
<1> QED
  BY <1>1, BridgeInvariance, PTL

\* For any number of lines, whatever the container does and however late: requests are
\* answered once and in the order in which they came (Serve, handleLine).
THEOREM AnswersInOrderHolds == BridgeSpec => []AnswersInOrder
<1>1. BridgeIInv => AnswersInOrder
  BY DEF BridgeIInv
<1> QED
  BY <1>1, BridgeInvariance, PTL

-----------------------------------------------------------------------------
(* The composition *)

\* Whichever component runs, the others stand still.
LEMMA EachPart ==
  LifeSpec => /\ SupInit /\ [][SupNext]_supVars
              /\ Init /\ [][Next]_vars
              /\ ServeInit /\ [][ServeNext]_serveVars
              /\ DbInit /\ [][DbNext]_dbVars
              /\ BridgeInit /\ [][BridgeNext]_bridgeVars
<1>1. LifeInit => SupInit /\ Init /\ ServeInit /\ DbInit /\ BridgeInit
  BY DEF LifeInit
<1> USE DEF LifeNext, lifeVars, InSupervisor, InRenewal, InServing, InDatabases, InBridge
<1>2. [LifeNext]_lifeVars => [SupNext]_supVars
  OBVIOUS
<1>3. [LifeNext]_lifeVars => [Next]_vars
  OBVIOUS
<1>4. [LifeNext]_lifeVars => [ServeNext]_serveVars
  OBVIOUS
<1>5. [LifeNext]_lifeVars => [DbNext]_dbVars
  OBVIOUS
<1>6. [LifeNext]_lifeVars => [BridgeNext]_bridgeVars
  OBVIOUS
<1> QED
  BY <1>1, <1>2, <1>3, <1>4, <1>5, <1>6, PTL DEF LifeSpec

\* The invariants of the components are invariants of the program that has them all, from
\* its first start to the last deferred call.
THEOREM LifecycleHolds ==
  LifeSpec => [](/\ ResumableIsConfigured
                 /\ OutageBounded
                 /\ OrderlyStopLeavesNothing
                 /\ UserFitsServer
                 /\ AnswersInOrder)
<1>1. LifeSpec => []ResumableIsConfigured
  <2>1. SupIInv => ResumableIsConfigured
    BY DEF SupIInv, SavedAfterwards, ResumableIsConfigured
  <2> QED
    BY <2>1, EachPart, SupInitInv, SupStepInv, PTL
<1>2. LifeSpec => []OutageBounded
  BY EachPart, RenewalInitInv, RenewalStepInv, OutageExcused, PTL
<1>3. LifeSpec => []OrderlyStopLeavesNothing
  <2>1. ServeIInv => OrderlyStopLeavesNothing
    BY DEF ServeIInv, ServeTypeOK, Undoes, Cached, OrderlyStopLeavesNothing
  <2> QED
    BY <2>1, EachPart, ServeInitInv, ServeStepInv, PTL
<1>4. LifeSpec => []UserFitsServer
  BY EachPart, DbInitInv, DbStepInv, UserFits, PTL
<1>5. LifeSpec => []AnswersInOrder
  <2>1. BridgeIInv => AnswersInOrder
    BY DEF BridgeIInv
  <2> QED
    BY <2>1, EachPart, BridgeInitInv, BridgeStepInv, PTL
<1> QED
  BY <1>1, <1>2, <1>3, <1>4, <1>5, PTL

=============================================================================
