--------------------------- MODULE VaultSupervisor ---------------------------
(***************************************************************************)
(* vault.Supervisor at start-up: Start, WaitForReady and InitializeVault,  *)
(* with the state that outlives the process (OpenBao's storage, init.json) *)
(* and the failures of either process between any two steps.               *)
(*                                                                         *)
(* A step that fails ends the program (main returns the error) and the     *)
(* container is started again.  OpenBao is a child process: it starts with *)
(* the program, sealed, and ends with it.                                  *)
(***************************************************************************)
EXTENDS Naturals, Sequences

CONSTANT MaxFaults   \* bound on crashes and failing steps

ASSUME SupervisorAssumption == MaxFaults \in Nat

VARIABLES
  phase,   \* what the program does
  step,    \* position in runFullInit
  bao,     \* the OpenBao process
  done,    \* steps whose effect is in OpenBao's storage
  file,    \* init.json
  mountRefused,  \* history: a 400 was taken for a database engine that is mounted
  faults   \* crashes and failing steps so far

supVars == <<phase, step, bao, done, file, mountRefused, faults>>

-----------------------------------------------------------------------------

\* The steps of runFullInit that must have taken place for a resumed program to
\* log in and use its secrets.
StorageSteps == {"init", "kv_mount", "database_engine", "policy", "approle",
                 "approle_role", "secret_id"}

\* Mutation of FullInit: init.json is saved as soon as there is an unseal key.
SaveEarly == <<"init", "open_file", "write_file", "unseal", "kv_mount",
               "database_engine", "policy", "approle", "approle_role", "role_id",
               "secret_id", "login">>

FullInit == <<"init", "unseal", "kv_mount", "database_engine", "policy", "approle",
              "approle_role", "role_id", "secret_id", "open_file", "write_file",
              "login">>

SupTypeOK ==
  /\ phase \in {"down", "waiting", "check", "setup", "resume", "login", "ready"}
  /\ step \in 0 .. Len(FullInit)
  /\ bao \in {"down", "sealed", "unsealed"}
  /\ done \in SUBSET StorageSteps
  /\ file \in {"absent", "partial", "complete"}
  /\ mountRefused \in BOOLEAN
  /\ faults \in 0 .. MaxFaults

SupInit ==
  /\ phase = "down"
  /\ step = 0
  /\ bao = "down"
  /\ done = {}
  /\ file = "absent"
  /\ mountRefused = FALSE
  /\ faults = 0

-----------------------------------------------------------------------------
(* Faults *)

Fault ==
  /\ faults < MaxFaults
  /\ faults' = faults + 1

\* The program ends, and its child with it.
Exit ==
  /\ phase' = "down"
  /\ step' = 0
  /\ bao' = "down"

Crash ==
  /\ phase # "down"
  /\ Fault
  /\ Exit
  /\ UNCHANGED <<done, file, mountRefused>>

\* OpenBao ends.  Nothing waits for it.
BaoDies ==
  /\ bao # "down"
  /\ Fault
  /\ bao' = "down"
  /\ UNCHANGED <<phase, step, done, file, mountRefused>>

\* A step returns an error, of its own or because OpenBao is gone.
Error ==
  /\ phase \notin {"down", "ready"}
  /\ \/ bao = "down" /\ UNCHANGED faults
     \/ Fault
  /\ Exit

-----------------------------------------------------------------------------
(* Start, WaitForReady, InitializeVault *)

\* The container is started, the program starts its child.
Start ==
  /\ phase = "down"
  /\ phase' = "waiting"
  /\ bao' = "sealed"
  /\ UNCHANGED <<step, done, file, mountRefused, faults>>

\* Any answer to the health poll will do; none within 30 seconds is an error.
WaitForReady ==
  /\ phase = "waiting"
  /\ \/ /\ bao # "down"
        /\ phase' = "check"
        /\ UNCHANGED <<step, bao, faults>>
     \/ Error
  /\ UNCHANGED <<done, file, mountRefused>>

CheckInitialized ==
  /\ phase = "check"
  /\ \/ /\ bao # "down"
        /\ IF "init" \in done THEN phase' = "resume" /\ step' = 0
                              ELSE phase' = "setup" /\ step' = 1
        /\ UNCHANGED <<bao, faults>>
     \/ Error
  /\ UNCHANGED <<done, file, mountRefused>>

\* The effect of a step of runFullInit outside the program.
Effect(s) ==
  /\ done' = IF s \in StorageSteps THEN done \cup {s} ELSE done
  /\ bao' = IF s = "unseal" THEN "unsealed" ELSE bao
  /\ file' = CASE s = "open_file" -> "partial"
               [] s = "write_file" -> "complete"
               [] OTHER -> file

\* Steps that do not call OpenBao.
Local == {"open_file", "write_file"}

\* A step of runFullInit; the last one is the login.
SetupStep ==
  /\ phase = "setup"
  /\ bao # "down" \/ FullInit[step] \in Local
  /\ Effect(FullInit[step])
  /\ IF step = Len(FullInit) THEN phase' = "ready" /\ step' = 0
                             ELSE phase' = "setup" /\ step' = step + 1
  /\ UNCHANGED <<mountRefused, faults>>

\* enableDatabaseEngine takes any error with "status 400" for "already mounted" and
\* returns nil: the set-up goes on without the engine.
MountRefused ==
  /\ phase = "setup"
  /\ bao # "down"
  /\ FullInit[step] = "database_engine"
  /\ Fault
  /\ mountRefused' = TRUE
  /\ step' = step + 1
  /\ UNCHANGED <<phase, bao, done, file>>

\* A failing step may have taken effect before the error.
SetupError ==
  /\ phase = "setup"
  /\ Error
  /\ UNCHANGED mountRefused
  /\ \/ UNCHANGED <<done, file>>
     \/ /\ bao # "down"
        /\ FullInit[step] \in StorageSteps
        /\ done' = done \cup {FullInit[step]}
        /\ UNCHANGED file

\* Mutation of Resume: the KV mount is enabled again, which is an error.
ResumeMountsAgain ==
  /\ phase = "resume"
  /\ faults' = faults
  /\ Exit
  /\ UNCHANGED <<done, file, mountRefused>>

\* resumeFromInitFile: read init.json, unseal ...
Resume ==
  /\ phase = "resume"
  /\ \/ /\ file = "complete"
        /\ bao # "down"
        /\ bao' = "unsealed"
        /\ phase' = "login"
        /\ UNCHANGED <<step, faults>>
     \/ /\ file # "complete"
        /\ Exit
        /\ UNCHANGED faults
     \/ Error
  /\ UNCHANGED <<done, file, mountRefused>>

\* ... and log in as the AppRole of init.json.
ResumeLogin ==
  /\ phase = "login"
  /\ \/ /\ bao = "unsealed"
        /\ {"approle", "approle_role", "secret_id"} \subseteq done
        /\ phase' = "ready"
        /\ UNCHANGED <<step, bao, faults>>
     \/ /\ ~ {"approle", "approle_role", "secret_id"} \subseteq done
        /\ Exit
        /\ UNCHANGED faults
     \/ Error
  /\ UNCHANGED <<done, file, mountRefused>>

-----------------------------------------------------------------------------

\* Steps of the program and of the container's restart policy.
Program ==
  \/ Start
  \/ WaitForReady
  \/ CheckInitialized
  \/ SetupStep
  \/ MountRefused
  \/ SetupError
  \/ Resume
  \/ ResumeLogin

SupNext == Program \/ Crash \/ BaoDies

SupSpec == SupInit /\ [][SupNext]_supVars

\* A running program goes on and a container that ended is started again
\* (restart: unless-stopped).
SupFairSpec == SupSpec /\ WF_supVars(Program)

-----------------------------------------------------------------------------
(* Properties *)

\* All that a resumed program relies on is in OpenBao's storage, except that the
\* database engine is missing if a 400 was taken for "already mounted".
Configured ==
  /\ StorageSteps \ {"database_engine"} \subseteq done
  /\ "database_engine" \in done \/ mountRefused

\* A resumed program sets nothing up: whenever init.json can be read, and whenever
\* the program serves, every step of the set-up has taken effect, whatever failed
\* before - but for the database engine, which the set-up goes on without when
\* OpenBao refuses the mount with a 400 (runFullInit, resumeFromInitFile).
ResumableIsConfigured == file = "complete" \/ phase = "ready" => Configured

\* Once init.json is saved no failure is for ever: if the program ends it comes
\* back and serves ("so we can recover if login fails").
SavedComesBack == (file = "complete" /\ phase = "down") ~> (phase = "ready")

=============================================================================
