---------------------------- MODULE RehearsalProofs ----------------------------
(***************************************************************************)
(* The safety properties of the systemd rehearsal, for any number of runs, *)
(* failing cleanup steps, crashes and service processes.                   *)
(***************************************************************************)
EXTENDS Rehearsal, TLAPS

\* The order in which things are installed.
LEMMA ItemsInOrder ==
  /\ Len(Items) = 10
  /\ Items[1] = "group" /\ Items[2] = "user" /\ Items[3] = "pveDir" /\ Items[4] = "configDir"
  /\ Items[5] = "fixtures" /\ Items[6] = "backups" /\ Items[7] = "fixture"
  /\ Items[8] = "pvesh" /\ Items[9] = "zpool" /\ Items[10] = "unit"
  BY DEF Items

LEMMA ItemsAreThings == \A i \in 1..Len(Items) : Items[i] \in Things
  <1>1. \A i \in 1..10 : i = 1 \/ i = 2 \/ i = 3 \/ i = 4 \/ i = 5 \/ i = 6 \/ i = 7
                         \/ i = 8 \/ i = 9 \/ i = 10
    OBVIOUS
  <1> QED
    BY <1>1, ItemsInOrder DEF Things

-----------------------------------------------------------------------------
(* Types.                                                                  *)

Flags == completed \in BOOLEAN /\ cleanupFailed \in BOOLEAN

Control ==
  /\ stage \in Stages /\ step \in Steps /\ at \in 1..Len(Items)
  /\ runs \in Nat /\ faults \in Nat

Host ==
  /\ present \subseteq Things /\ binary \in Contents /\ config \in Contents
  /\ temps \subseteq Written
  /\ parent \in {"original", "normalized"} /\ captured \in {"original", "normalized"}
  /\ foreign \subseteq Things

Service ==
  /\ svc \in {"inactive", "starting", "active", "restarting", "failed"}
  /\ proc \in 0..born /\ born \in 0..MaxBorn
  /\ ranBinary \in [Pids -> Contents] /\ ranConfig \in [Pids -> Contents]
  /\ fresh \subseteq Pids /\ late \subseteq Pids
  /\ pidOf \in [Stages -> 0..MaxBorn] /\ sampledFrom \in [Stages -> SUBSET Pids]

LEMMA TypeParts == TypeOK <=> Flags /\ Control /\ Host /\ Service
  BY DEF TypeOK, Flags, Control, Host, Service

\* Every step keeps the flags Booleans.
LEMMA FlagsKept ==
  ASSUME Flags, [Next]_vars
  PROVE  Flags'
  <1> USE DEF Flags, control, bounds, host, memory, service, journal, report
  <1>1. CASE Preflight
    BY <1>1 DEF Preflight, CapturesParent, NoReport, Goto, Fail
  <1>2. CASE NormalizeBinaryParent
    BY <1>2 DEF NormalizeBinaryParent, Goto, Fail
  <1>3. CASE InstallRuntime
    BY <1>3 DEF InstallRuntime, NextItem, TempsAfterFailure, Goto, Fail
  <1>4. CASE WriteBinary
    BY <1>4 DEF WriteBinary, Wanted, HasBackup, TempsAfterFailure, Goto, Fail
  <1>5. CASE WriteConfig
    BY <1>5 DEF WriteConfig, Wanted, HasBackup, TempsAfterFailure, Goto, Fail
  <1>6. CASE WriteBackup
    BY <1>6 DEF WriteBackup, TempsAfterFailure, Goto, Fail
  <1>7. CASE Reload
    BY <1>7 DEF Reload, Goto, Fail
  <1>8. CASE VerifyDigests
    BY <1>8 DEF VerifyDigests, Goto, Fail
  <1>9. CASE Start
    BY <1>9 DEF Start, Goto, Fail
  <1>10. CASE WaitActive
    BY <1>10 DEF WaitActive, Goto, Fail
  <1>11. CASE WaitNewObservations
    BY <1>11 DEF WaitNewObservations, FoundIn, Goto, Fail
  <1>12. CASE Kill
    BY <1>12 DEF Kill, Goto, Fail
  <1>13. CASE AssertStopped
    BY <1>13 DEF AssertStopped, AfterStop, Goto, Fail
  <1>14. CASE Report
    BY <1>14 DEF Report, Fail
  <1>15. CASE CleanupStop
    BY <1>15 DEF CleanupStop, Fault, NoFault, Then, NoReport
  <1>16. CASE CleanupUnlink
    BY <1>16 DEF CleanupUnlink, Fault, NoFault, Then
  <1>17. CASE CleanupDirectories
    BY <1>17 DEF CleanupDirectories, Fault, NoFault, Then, FilesIn
  <1>18. CASE CleanupReload
    BY <1>18 DEF CleanupReload, Fault, NoFault, Then
  <1>19. CASE CleanupUser
    BY <1>19 DEF CleanupUser, Fault, NoFault, Then
  <1>20. CASE CleanupGroup
    BY <1>20 DEF CleanupGroup, Fault, NoFault, Then
  <1>21. CASE RestoreBinaryParent
    BY <1>21 DEF RestoreBinaryParent, Fault, NoFault, Then
  <1>22. CASE VerifyCleanup
    BY <1>22 DEF VerifyCleanup, Fault, NoFault, Then
  <1>23. CASE Begin
    BY <1>23 DEF Begin
  <1>24. CASE Killed
    BY <1>24 DEF Killed, TempsAfterFailure
  <1>25. CASE Launch
    BY <1>25 DEF Launch, Launchable
  <1>26. CASE LaunchFails
    BY <1>26 DEF LaunchFails
  <1>27. CASE ProcessDies
    BY <1>27 DEF ProcessDies
  <1>28. CASE Emit
    BY <1>28 DEF Emit
  <1>29. CASE Appears
    BY <1>29 DEF Appears
  <1>30. CASE UNCHANGED vars
    BY <1>30 DEF vars
  <1> QED
    BY <1>1, <1>2, <1>3, <1>4, <1>5, <1>6, <1>7, <1>8, <1>9, <1>10, <1>11,
       <1>12, <1>13, <1>14, <1>15, <1>16, <1>17, <1>18, <1>19, <1>20, <1>21,
       <1>22, <1>23, <1>24, <1>25, <1>26, <1>27, <1>28, <1>29, <1>30 DEF
       Next, Script, World

\* Every step leads to a step of a stage.
LEMMA ControlKept ==
  ASSUME Control, [Next]_vars
  PROVE  Control'
  <1> USE DEF Control, Stages, Steps, Lifecycle, Cleanup, Resting, Verdicts, control, bounds, host, memory, service, journal, report
  <1>1. CASE Preflight
    BY ItemsInOrder, <1>1 DEF Preflight, CapturesParent, NoReport, Goto, Fail
  <1>2. CASE NormalizeBinaryParent
    BY ItemsInOrder, <1>2 DEF NormalizeBinaryParent, Goto, Fail
  <1>3. CASE InstallRuntime
    BY ItemsInOrder, <1>3 DEF InstallRuntime, NextItem, TempsAfterFailure, Goto, Fail
  <1>4. CASE WriteBinary
    BY ItemsInOrder, <1>4 DEF WriteBinary, Wanted, HasBackup, TempsAfterFailure, Goto, Fail
  <1>5. CASE WriteConfig
    BY ItemsInOrder, <1>5 DEF WriteConfig, Wanted, HasBackup, TempsAfterFailure, Goto, Fail
  <1>6. CASE WriteBackup
    BY ItemsInOrder, <1>6 DEF WriteBackup, TempsAfterFailure, Goto, Fail
  <1>7. CASE Reload
    BY ItemsInOrder, <1>7 DEF Reload, Goto, Fail
  <1>8. CASE VerifyDigests
    BY ItemsInOrder, <1>8 DEF VerifyDigests, Goto, Fail
  <1>9. CASE Start
    BY ItemsInOrder, <1>9 DEF Start, Goto, Fail
  <1>10. CASE WaitActive
    BY ItemsInOrder, <1>10 DEF WaitActive, Goto, Fail
  <1>11. CASE WaitNewObservations
    BY ItemsInOrder, <1>11 DEF WaitNewObservations, FoundIn, Goto, Fail
  <1>12. CASE Kill
    BY ItemsInOrder, <1>12 DEF Kill, Goto, Fail
  <1>13. CASE AssertStopped
    BY ItemsInOrder, <1>13 DEF AssertStopped, AfterStop, Goto, Fail
  <1>14. CASE Report
    BY ItemsInOrder, <1>14 DEF Report, Fail
  <1>15. CASE CleanupStop
    BY ItemsInOrder, <1>15 DEF CleanupStop, Fault, NoFault, Then, NoReport
  <1>16. CASE CleanupUnlink
    BY ItemsInOrder, <1>16 DEF CleanupUnlink, Fault, NoFault, Then
  <1>17. CASE CleanupDirectories
    BY ItemsInOrder, <1>17 DEF CleanupDirectories, Fault, NoFault, Then, FilesIn
  <1>18. CASE CleanupReload
    BY ItemsInOrder, <1>18 DEF CleanupReload, Fault, NoFault, Then
  <1>19. CASE CleanupUser
    BY ItemsInOrder, <1>19 DEF CleanupUser, Fault, NoFault, Then
  <1>20. CASE CleanupGroup
    BY ItemsInOrder, <1>20 DEF CleanupGroup, Fault, NoFault, Then
  <1>21. CASE RestoreBinaryParent
    BY ItemsInOrder, <1>21 DEF RestoreBinaryParent, Fault, NoFault, Then
  <1>22. CASE VerifyCleanup
    BY ItemsInOrder, <1>22 DEF VerifyCleanup, Fault, NoFault, Then
  <1>23. CASE Begin
    BY ItemsInOrder, <1>23 DEF Begin
  <1>24. CASE Killed
    BY ItemsInOrder, <1>24 DEF Killed, TempsAfterFailure
  <1>25. CASE Launch
    BY ItemsInOrder, <1>25 DEF Launch, Launchable
  <1>26. CASE LaunchFails
    BY ItemsInOrder, <1>26 DEF LaunchFails
  <1>27. CASE ProcessDies
    BY ItemsInOrder, <1>27 DEF ProcessDies
  <1>28. CASE Emit
    BY ItemsInOrder, <1>28 DEF Emit
  <1>29. CASE Appears
    BY ItemsInOrder, <1>29 DEF Appears
  <1>30. CASE UNCHANGED vars
    BY ItemsInOrder, <1>30 DEF vars
  <1> QED
    BY <1>1, <1>2, <1>3, <1>4, <1>5, <1>6, <1>7, <1>8, <1>9, <1>10, <1>11,
       <1>12, <1>13, <1>14, <1>15, <1>16, <1>17, <1>18, <1>19, <1>20, <1>21,
       <1>22, <1>23, <1>24, <1>25, <1>26, <1>27, <1>28, <1>29, <1>30 DEF
       Next, Script, World

\* Nothing comes to the host but what the script knows of.
LEMMA HostKept ==
  ASSUME Control, Host, [Next]_vars
  PROVE  Host'
  <1> USE DEF Host, Contents, Things, Written, SystemFiles, OwnFiles, control, bounds, host, memory, service, journal, report
  <1>1. CASE Preflight
    BY <1>1 DEF Preflight, CapturesParent, NoReport, Goto, Fail
  <1>2. CASE NormalizeBinaryParent
    BY <1>2 DEF NormalizeBinaryParent, Goto, Fail
  <1>3. CASE InstallRuntime
    <2>1. Items[at] \in Things
      BY ItemsAreThings DEF Control
    <2>2. temps' \subseteq Written
      BY <1>3 DEF InstallRuntime, TempsAfterFailure
    <2>3. present' \subseteq Things
      BY <2>1, <1>3 DEF InstallRuntime
    <2> QED
      BY <2>2, <2>3, <1>3 DEF InstallRuntime
  <1>4. CASE WriteBinary
    BY <1>4 DEF WriteBinary, Wanted, HasBackup, TempsAfterFailure, Goto, Fail
  <1>5. CASE WriteConfig
    BY <1>5 DEF WriteConfig, Wanted, HasBackup, TempsAfterFailure, Goto, Fail
  <1>6. CASE WriteBackup
    BY <1>6 DEF WriteBackup, TempsAfterFailure, Goto, Fail
  <1>7. CASE Reload
    BY <1>7 DEF Reload, Goto, Fail
  <1>8. CASE VerifyDigests
    BY <1>8 DEF VerifyDigests, Goto, Fail
  <1>9. CASE Start
    BY <1>9 DEF Start, Goto, Fail
  <1>10. CASE WaitActive
    BY <1>10 DEF WaitActive, Goto, Fail
  <1>11. CASE WaitNewObservations
    BY <1>11 DEF WaitNewObservations, FoundIn, Goto, Fail
  <1>12. CASE Kill
    BY <1>12 DEF Kill, Goto, Fail
  <1>13. CASE AssertStopped
    BY <1>13 DEF AssertStopped, AfterStop, Goto, Fail
  <1>14. CASE Report
    BY <1>14 DEF Report, Fail
  <1>15. CASE CleanupStop
    BY <1>15 DEF CleanupStop, Fault, NoFault, Then, NoReport
  <1>16. CASE CleanupUnlink
    BY <1>16 DEF CleanupUnlink, Fault, NoFault, Then
  <1>17. CASE CleanupDirectories
    BY <1>17 DEF CleanupDirectories, Fault, NoFault, Then, FilesIn
  <1>18. CASE CleanupReload
    BY <1>18 DEF CleanupReload, Fault, NoFault, Then
  <1>19. CASE CleanupUser
    BY <1>19 DEF CleanupUser, Fault, NoFault, Then
  <1>20. CASE CleanupGroup
    BY <1>20 DEF CleanupGroup, Fault, NoFault, Then
  <1>21. CASE RestoreBinaryParent
    BY <1>21 DEF RestoreBinaryParent, Fault, NoFault, Then
  <1>22. CASE VerifyCleanup
    BY <1>22 DEF VerifyCleanup, Fault, NoFault, Then
  <1>23. CASE Begin
    BY <1>23 DEF Begin
  <1>24. CASE Killed
    BY <1>24 DEF Killed, TempsAfterFailure
  <1>25. CASE Launch
    BY <1>25 DEF Launch, Launchable
  <1>26. CASE LaunchFails
    BY <1>26 DEF LaunchFails
  <1>27. CASE ProcessDies
    BY <1>27 DEF ProcessDies
  <1>28. CASE Emit
    BY <1>28 DEF Emit
  <1>29. CASE Appears
    BY <1>29 DEF Appears
  <1>30. CASE UNCHANGED vars
    BY <1>30 DEF vars
  <1> QED
    BY <1>1, <1>2, <1>3, <1>4, <1>5, <1>6, <1>7, <1>8, <1>9, <1>10, <1>11,
       <1>12, <1>13, <1>14, <1>15, <1>16, <1>17, <1>18, <1>19, <1>20, <1>21,
       <1>22, <1>23, <1>24, <1>25, <1>26, <1>27, <1>28, <1>29, <1>30 DEF
       Next, Script, World

-----------------------------------------------------------------------------
(* What each step leaves behind.                                           *)

\* What was there before the first run keeps every run from passing its preflight.
ForeignKept ==
  foreign # {} =>
    /\ step \in Resting \cup {"preflight"}
    /\ present = foreign /\ binary = "none" /\ parent = "original"

\* The stages each step belongs to.
Placed ==
  /\ step \in {"normalize", "install", "backupBinary", "backupConfig", "reload"} =>
       stage = "initial"
  /\ step = "kill" => stage = "restart"
  /\ step \in {"binary", "config", "start"} => stage # "restart"
  /\ step = "verify" => stage \in {"candidate", "rollback"}
  /\ step = "stop" => stage # "initial"
  /\ step = "report" => stage = "rollback"

\* What a stage has to run, and what lay there when it began.
Due(s) == IF s = "candidate" THEN "candidate" ELSE "baseline"
Before(s) == IF s = "initial" THEN "none" ELSE IF s = "candidate" THEN "baseline" ELSE "candidate"

\* What lies at the targets at each step of the lifecycle.
Contained ==
  step \in Lifecycle =>
    /\ binary = IF step \in {"normalize", "install", "binary"} THEN Before(stage) ELSE Due(stage)
    /\ config = IF step \in {"normalize", "install", "binary", "config"}
                THEN Before(stage) ELSE Due(stage)

\* Between the end of a stage and the next start there is no process, and none
\* that systemd is about to start.
Stopped ==
  (stage \in {"candidate", "rollback"} /\ step \in {"binary", "config", "verify", "start"})
     \/ step = "report"
    => proc = 0 /\ svc = "inactive"

\* The directories that are there once they have been installed.
Homes ==
  /\ step = "normalize" => at = 1
  /\ step = "install" =>
       /\ at > 4 => "configDir" \in present
       /\ at > 5 => "fixtures" \in present
       /\ at > 6 => "backups" \in present
  /\ step \in Lifecycle \ {"normalize", "install"} => {"configDir", "fixtures", "backups"} \subseteq present

\* What cannot be there without the directory or the account it needs.
Housed ==
  /\ "fixture" \in temps => "fixtures" \in present
  /\ ("config" \in temps \/ config # "none") => "configDir" \in present
  /\ ("backupBinary" \in temps \/ "backupConfig" \in temps) => "backups" \in present
  /\ proc # 0 => "user" \in present

\* A temporary file in the way stops a write, and a write that failed the
\* lifecycle: those of an earlier run are gone by the time it is complete.
TempsCleared ==
  /\ step \in Lifecycle =>
       /\ completed = FALSE
       /\ temps \subseteq SystemFiles
       /\ step = "install" =>
            /\ at > 8 => "pvesh" \notin temps
            /\ at > 9 => "zpool" \notin temps
       /\ step = "binary" /\ stage = "initial" => temps \subseteq {"binary"}
       /\ step \notin {"normalize", "install"} /\ ~(step = "binary" /\ stage = "initial") => temps = {}
  /\ completed = TRUE /\ step \in Cleanup \cup {"success"} => temps = {}

\* What each step of a cleanup without a failure leaves to the next.
Cleaned ==
  cleanupFailed = FALSE =>
    /\ step \in Cleanup \ {"c_stop"} => proc = 0 /\ svc \in {"inactive", "failed"}
    /\ step \in Cleanup \ {"c_stop", "c_unlink"} =>
         present \cap SystemFiles = {} /\ binary = "none" /\ config = "none"
    /\ step \in {"c_reload", "c_user", "c_group", "c_parent", "c_verify"} =>
         present \subseteq {"user", "group"}
    /\ step = "c_group" => present \subseteq {"group"}
    /\ step \in {"c_parent", "c_verify"} => present = {}
    /\ step = "c_verify" => parent = captured
    /\ step # "dirty"

\* What a verdict without a complaint rests on.
Settled ==
  /\ step \in {"success", "failed"} => present = {} /\ binary = "none" /\ parent = captured
  /\ step = "success" => completed = TRUE

\* The report of this run is being made, or is complete.
Telling == step \in Lifecycle \/ (completed = TRUE /\ step \in Cleanup \cup {"success"})

\* The stages whose process and samples it holds.
Done ==
  IF step \in Lifecycle
  THEN IF stage = "initial" THEN {}
       ELSE IF stage = "restart" THEN {"initial"} \cup (IF step = "stop" THEN {"restart"} ELSE {})
       ELSE IF stage = "candidate" THEN {"initial", "restart"} \cup (IF step = "stop" THEN {"candidate"} ELSE {})
       ELSE {"initial", "restart", "candidate"} \cup (IF step \in {"stop", "report"} THEN {"rollback"} ELSE {})
  ELSE Stages

\* Processes of this run, and the samples of them, are known by number; each was
\* started from a binary and a configuration that belong together.
Traced ==
  /\ svc = "active" => proc # 0
  /\ Telling =>
    /\ \A p \in 1..born : ranBinary[p] = ranConfig[p]
    /\ fresh \cup late \subseteq 1..born
    /\ step \in Lifecycle /\ proc # 0 => ranConfig[proc] = Due(stage)
    /\ step \notin Lifecycle => proc = 0 /\ svc = "inactive"

\* The report names a process for the stage that ran what the stage is about.
Identified(s) ==
  /\ pidOf[s] \in 1..born
  /\ ranBinary[pidOf[s]] = Due(s) /\ ranConfig[pidOf[s]] = Due(s)

\* It counts samples for the stage, all of such processes.
Sampled(s) ==
  /\ sampledFrom[s] # {} /\ sampledFrom[s] \subseteq 1..born
  /\ \A p \in sampledFrom[s] : ranConfig[p] = Due(s)

\* Every stage done has both, from a process of its own.
Evidenced ==
  Telling =>
    /\ \A s \in Done : Identified(s) /\ Sampled(s)
    /\ \A s, t \in Done : s # t => pidOf[s] # pidOf[t]
    /\ step = "samples" => Identified(stage) /\ (stage = "restart" => pidOf["restart"] # pidOf["initial"])

\* A host with something of its own is refused, again and again.
LEMMA StaysForeign ==
  ASSUME Control, ForeignKept, [Next]_vars
  PROVE  ForeignKept'
  <1> USE DEF ForeignKept, Control, Lifecycle, Cleanup, Resting, Verdicts, Leftover, control, bounds, host, memory, service, journal, report
  <1>1. CASE Preflight
    BY <1>1 DEF Preflight, CapturesParent, NoReport, Goto, Fail
  <1>2. CASE NormalizeBinaryParent
    BY <1>2 DEF NormalizeBinaryParent, Goto, Fail
  <1>3. CASE InstallRuntime
    BY <1>3 DEF InstallRuntime, NextItem, TempsAfterFailure, Goto, Fail
  <1>4. CASE WriteBinary
    BY <1>4 DEF WriteBinary, Wanted, HasBackup, TempsAfterFailure, Goto, Fail
  <1>5. CASE WriteConfig
    BY <1>5 DEF WriteConfig, Wanted, HasBackup, TempsAfterFailure, Goto, Fail
  <1>6. CASE WriteBackup
    BY <1>6 DEF WriteBackup, TempsAfterFailure, Goto, Fail
  <1>7. CASE Reload
    BY <1>7 DEF Reload, Goto, Fail
  <1>8. CASE VerifyDigests
    BY <1>8 DEF VerifyDigests, Goto, Fail
  <1>9. CASE Start
    BY <1>9 DEF Start, Goto, Fail
  <1>10. CASE WaitActive
    BY <1>10 DEF WaitActive, Goto, Fail
  <1>11. CASE WaitNewObservations
    BY <1>11 DEF WaitNewObservations, FoundIn, Goto, Fail
  <1>12. CASE Kill
    BY <1>12 DEF Kill, Goto, Fail
  <1>13. CASE AssertStopped
    BY <1>13 DEF AssertStopped, AfterStop, Goto, Fail
  <1>14. CASE Report
    BY <1>14 DEF Report, Fail
  <1>15. CASE CleanupStop
    BY <1>15 DEF CleanupStop, Fault, NoFault, Then, NoReport
  <1>16. CASE CleanupUnlink
    BY <1>16 DEF CleanupUnlink, Fault, NoFault, Then
  <1>17. CASE CleanupDirectories
    BY <1>17 DEF CleanupDirectories, Fault, NoFault, Then, FilesIn
  <1>18. CASE CleanupReload
    BY <1>18 DEF CleanupReload, Fault, NoFault, Then
  <1>19. CASE CleanupUser
    BY <1>19 DEF CleanupUser, Fault, NoFault, Then
  <1>20. CASE CleanupGroup
    BY <1>20 DEF CleanupGroup, Fault, NoFault, Then
  <1>21. CASE RestoreBinaryParent
    BY <1>21 DEF RestoreBinaryParent, Fault, NoFault, Then
  <1>22. CASE VerifyCleanup
    BY <1>22 DEF VerifyCleanup, Fault, NoFault, Then
  <1>23. CASE Begin
    BY <1>23 DEF Begin
  <1>24. CASE Killed
    BY <1>24 DEF Killed, TempsAfterFailure
  <1>25. CASE Launch
    BY <1>25 DEF Launch, Launchable
  <1>26. CASE LaunchFails
    BY <1>26 DEF LaunchFails
  <1>27. CASE ProcessDies
    BY <1>27 DEF ProcessDies
  <1>28. CASE Emit
    BY <1>28 DEF Emit
  <1>29. CASE Appears
    BY <1>29 DEF Appears
  <1>30. CASE UNCHANGED vars
    BY <1>30 DEF vars
  <1> QED
    BY <1>1, <1>2, <1>3, <1>4, <1>5, <1>6, <1>7, <1>8, <1>9, <1>10, <1>11,
       <1>12, <1>13, <1>14, <1>15, <1>16, <1>17, <1>18, <1>19, <1>20, <1>21,
       <1>22, <1>23, <1>24, <1>25, <1>26, <1>27, <1>28, <1>29, <1>30 DEF
       Next, Script, World

\* Every step stays in its stages.
LEMMA StaysPlaced ==
  ASSUME Control, Placed, [Next]_vars
  PROVE  Placed'
  <1> USE DEF Placed, Control, Stages, Steps, Lifecycle, Cleanup, Resting, Verdicts, Stages, control, bounds, host, memory, service, journal, report
  <1>1. CASE Preflight
    BY ItemsInOrder, <1>1 DEF Preflight, CapturesParent, NoReport, Goto, Fail
  <1>2. CASE NormalizeBinaryParent
    BY ItemsInOrder, <1>2 DEF NormalizeBinaryParent, Goto, Fail
  <1>3. CASE InstallRuntime
    BY ItemsInOrder, <1>3 DEF InstallRuntime, NextItem, TempsAfterFailure, Goto, Fail
  <1>4. CASE WriteBinary
    BY ItemsInOrder, <1>4 DEF WriteBinary, Wanted, HasBackup, TempsAfterFailure, Goto, Fail
  <1>5. CASE WriteConfig
    BY ItemsInOrder, <1>5 DEF WriteConfig, Wanted, HasBackup, TempsAfterFailure, Goto, Fail
  <1>6. CASE WriteBackup
    BY ItemsInOrder, <1>6 DEF WriteBackup, TempsAfterFailure, Goto, Fail
  <1>7. CASE Reload
    BY ItemsInOrder, <1>7 DEF Reload, Goto, Fail
  <1>8. CASE VerifyDigests
    BY ItemsInOrder, <1>8 DEF VerifyDigests, Goto, Fail
  <1>9. CASE Start
    BY ItemsInOrder, <1>9 DEF Start, Goto, Fail
  <1>10. CASE WaitActive
    BY ItemsInOrder, <1>10 DEF WaitActive, Goto, Fail
  <1>11. CASE WaitNewObservations
    BY ItemsInOrder, <1>11 DEF WaitNewObservations, FoundIn, Goto, Fail
  <1>12. CASE Kill
    BY ItemsInOrder, <1>12 DEF Kill, Goto, Fail
  <1>13. CASE AssertStopped
    BY ItemsInOrder, <1>13 DEF AssertStopped, AfterStop, Goto, Fail
  <1>14. CASE Report
    BY ItemsInOrder, <1>14 DEF Report, Fail
  <1>15. CASE CleanupStop
    BY ItemsInOrder, <1>15 DEF CleanupStop, Fault, NoFault, Then, NoReport
  <1>16. CASE CleanupUnlink
    BY ItemsInOrder, <1>16 DEF CleanupUnlink, Fault, NoFault, Then
  <1>17. CASE CleanupDirectories
    BY ItemsInOrder, <1>17 DEF CleanupDirectories, Fault, NoFault, Then, FilesIn
  <1>18. CASE CleanupReload
    BY ItemsInOrder, <1>18 DEF CleanupReload, Fault, NoFault, Then
  <1>19. CASE CleanupUser
    BY ItemsInOrder, <1>19 DEF CleanupUser, Fault, NoFault, Then
  <1>20. CASE CleanupGroup
    BY ItemsInOrder, <1>20 DEF CleanupGroup, Fault, NoFault, Then
  <1>21. CASE RestoreBinaryParent
    BY ItemsInOrder, <1>21 DEF RestoreBinaryParent, Fault, NoFault, Then
  <1>22. CASE VerifyCleanup
    BY ItemsInOrder, <1>22 DEF VerifyCleanup, Fault, NoFault, Then
  <1>23. CASE Begin
    BY ItemsInOrder, <1>23 DEF Begin
  <1>24. CASE Killed
    BY ItemsInOrder, <1>24 DEF Killed, TempsAfterFailure
  <1>25. CASE Launch
    BY ItemsInOrder, <1>25 DEF Launch, Launchable
  <1>26. CASE LaunchFails
    BY ItemsInOrder, <1>26 DEF LaunchFails
  <1>27. CASE ProcessDies
    BY ItemsInOrder, <1>27 DEF ProcessDies
  <1>28. CASE Emit
    BY ItemsInOrder, <1>28 DEF Emit
  <1>29. CASE Appears
    BY ItemsInOrder, <1>29 DEF Appears
  <1>30. CASE UNCHANGED vars
    BY ItemsInOrder, <1>30 DEF vars
  <1> QED
    BY <1>1, <1>2, <1>3, <1>4, <1>5, <1>6, <1>7, <1>8, <1>9, <1>10, <1>11,
       <1>12, <1>13, <1>14, <1>15, <1>16, <1>17, <1>18, <1>19, <1>20, <1>21,
       <1>22, <1>23, <1>24, <1>25, <1>26, <1>27, <1>28, <1>29, <1>30 DEF
       Next, Script, World

\* A write puts in place what its stage is about, and nothing else writes.
LEMMA StaysContained ==
  ASSUME Control, Placed, Contained, [Next]_vars
  PROVE  Contained'
  <1> USE DEF Contained, Due, Before, Placed, Leftover, Control, Stages, Steps, Lifecycle, Cleanup, Resting, Verdicts, Stages, control, bounds, host, memory, service, journal, report
  <1>1. CASE Preflight
    BY ItemsInOrder, <1>1 DEF Preflight, CapturesParent, NoReport, Goto, Fail
  <1>2. CASE NormalizeBinaryParent
    BY ItemsInOrder, <1>2 DEF NormalizeBinaryParent, Goto, Fail
  <1>3. CASE InstallRuntime
    BY ItemsInOrder, <1>3 DEF InstallRuntime, NextItem, TempsAfterFailure, Goto, Fail
  <1>4. CASE WriteBinary
    BY ItemsInOrder, <1>4 DEF WriteBinary, Wanted, HasBackup, TempsAfterFailure, Goto, Fail
  <1>5. CASE WriteConfig
    BY ItemsInOrder, <1>5 DEF WriteConfig, Wanted, HasBackup, TempsAfterFailure, Goto, Fail
  <1>6. CASE WriteBackup
    BY ItemsInOrder, <1>6 DEF WriteBackup, TempsAfterFailure, Goto, Fail
  <1>7. CASE Reload
    BY ItemsInOrder, <1>7 DEF Reload, Goto, Fail
  <1>8. CASE VerifyDigests
    BY ItemsInOrder, <1>8 DEF VerifyDigests, Goto, Fail
  <1>9. CASE Start
    BY ItemsInOrder, <1>9 DEF Start, Goto, Fail
  <1>10. CASE WaitActive
    BY ItemsInOrder, <1>10 DEF WaitActive, Goto, Fail
  <1>11. CASE WaitNewObservations
    BY ItemsInOrder, <1>11 DEF WaitNewObservations, FoundIn, Goto, Fail
  <1>12. CASE Kill
    BY ItemsInOrder, <1>12 DEF Kill, Goto, Fail
  <1>13. CASE AssertStopped
    BY ItemsInOrder, <1>13 DEF AssertStopped, AfterStop, Goto, Fail
  <1>14. CASE Report
    BY ItemsInOrder, <1>14 DEF Report, Fail
  <1>15. CASE CleanupStop
    BY ItemsInOrder, <1>15 DEF CleanupStop, Fault, NoFault, Then, NoReport
  <1>16. CASE CleanupUnlink
    BY ItemsInOrder, <1>16 DEF CleanupUnlink, Fault, NoFault, Then
  <1>17. CASE CleanupDirectories
    BY ItemsInOrder, <1>17 DEF CleanupDirectories, Fault, NoFault, Then, FilesIn
  <1>18. CASE CleanupReload
    BY ItemsInOrder, <1>18 DEF CleanupReload, Fault, NoFault, Then
  <1>19. CASE CleanupUser
    BY ItemsInOrder, <1>19 DEF CleanupUser, Fault, NoFault, Then
  <1>20. CASE CleanupGroup
    BY ItemsInOrder, <1>20 DEF CleanupGroup, Fault, NoFault, Then
  <1>21. CASE RestoreBinaryParent
    BY ItemsInOrder, <1>21 DEF RestoreBinaryParent, Fault, NoFault, Then
  <1>22. CASE VerifyCleanup
    BY ItemsInOrder, <1>22 DEF VerifyCleanup, Fault, NoFault, Then
  <1>23. CASE Begin
    BY ItemsInOrder, <1>23 DEF Begin
  <1>24. CASE Killed
    BY ItemsInOrder, <1>24 DEF Killed, TempsAfterFailure
  <1>25. CASE Launch
    BY ItemsInOrder, <1>25 DEF Launch, Launchable
  <1>26. CASE LaunchFails
    BY ItemsInOrder, <1>26 DEF LaunchFails
  <1>27. CASE ProcessDies
    BY ItemsInOrder, <1>27 DEF ProcessDies
  <1>28. CASE Emit
    BY ItemsInOrder, <1>28 DEF Emit
  <1>29. CASE Appears
    BY ItemsInOrder, <1>29 DEF Appears
  <1>30. CASE UNCHANGED vars
    BY ItemsInOrder, <1>30 DEF vars
  <1> QED
    BY <1>1, <1>2, <1>3, <1>4, <1>5, <1>6, <1>7, <1>8, <1>9, <1>10, <1>11,
       <1>12, <1>13, <1>14, <1>15, <1>16, <1>17, <1>18, <1>19, <1>20, <1>21,
       <1>22, <1>23, <1>24, <1>25, <1>26, <1>27, <1>28, <1>29, <1>30 DEF
       Next, Script, World

\* systemctl stop, once checked, leaves nothing that systemd would start again.
LEMMA StaysStopped ==
  ASSUME Control, Placed, Stopped, [Next]_vars
  PROVE  Stopped'
  <1> USE DEF Stopped, Placed, Control, Stages, Steps, Lifecycle, Cleanup, Resting, Verdicts, Stages, control, bounds, host, memory, service, journal, report
  <1>1. CASE Preflight
    BY ItemsInOrder, <1>1 DEF Preflight, CapturesParent, NoReport, Goto, Fail
  <1>2. CASE NormalizeBinaryParent
    BY ItemsInOrder, <1>2 DEF NormalizeBinaryParent, Goto, Fail
  <1>3. CASE InstallRuntime
    BY ItemsInOrder, <1>3 DEF InstallRuntime, NextItem, TempsAfterFailure, Goto, Fail
  <1>4. CASE WriteBinary
    BY ItemsInOrder, <1>4 DEF WriteBinary, Wanted, HasBackup, TempsAfterFailure, Goto, Fail
  <1>5. CASE WriteConfig
    BY ItemsInOrder, <1>5 DEF WriteConfig, Wanted, HasBackup, TempsAfterFailure, Goto, Fail
  <1>6. CASE WriteBackup
    BY ItemsInOrder, <1>6 DEF WriteBackup, TempsAfterFailure, Goto, Fail
  <1>7. CASE Reload
    BY ItemsInOrder, <1>7 DEF Reload, Goto, Fail
  <1>8. CASE VerifyDigests
    BY ItemsInOrder, <1>8 DEF VerifyDigests, Goto, Fail
  <1>9. CASE Start
    BY ItemsInOrder, <1>9 DEF Start, Goto, Fail
  <1>10. CASE WaitActive
    BY ItemsInOrder, <1>10 DEF WaitActive, Goto, Fail
  <1>11. CASE WaitNewObservations
    BY ItemsInOrder, <1>11 DEF WaitNewObservations, FoundIn, Goto, Fail
  <1>12. CASE Kill
    BY ItemsInOrder, <1>12 DEF Kill, Goto, Fail
  <1>13. CASE AssertStopped
    BY ItemsInOrder, <1>13 DEF AssertStopped, AfterStop, Goto, Fail
  <1>14. CASE Report
    BY ItemsInOrder, <1>14 DEF Report, Fail
  <1>15. CASE CleanupStop
    BY ItemsInOrder, <1>15 DEF CleanupStop, Fault, NoFault, Then, NoReport
  <1>16. CASE CleanupUnlink
    BY ItemsInOrder, <1>16 DEF CleanupUnlink, Fault, NoFault, Then
  <1>17. CASE CleanupDirectories
    BY ItemsInOrder, <1>17 DEF CleanupDirectories, Fault, NoFault, Then, FilesIn
  <1>18. CASE CleanupReload
    BY ItemsInOrder, <1>18 DEF CleanupReload, Fault, NoFault, Then
  <1>19. CASE CleanupUser
    BY ItemsInOrder, <1>19 DEF CleanupUser, Fault, NoFault, Then
  <1>20. CASE CleanupGroup
    BY ItemsInOrder, <1>20 DEF CleanupGroup, Fault, NoFault, Then
  <1>21. CASE RestoreBinaryParent
    BY ItemsInOrder, <1>21 DEF RestoreBinaryParent, Fault, NoFault, Then
  <1>22. CASE VerifyCleanup
    BY ItemsInOrder, <1>22 DEF VerifyCleanup, Fault, NoFault, Then
  <1>23. CASE Begin
    BY ItemsInOrder, <1>23 DEF Begin
  <1>24. CASE Killed
    BY ItemsInOrder, <1>24 DEF Killed, TempsAfterFailure
  <1>25. CASE Launch
    BY ItemsInOrder, <1>25 DEF Launch, Launchable
  <1>26. CASE LaunchFails
    BY ItemsInOrder, <1>26 DEF LaunchFails
  <1>27. CASE ProcessDies
    BY ItemsInOrder, <1>27 DEF ProcessDies
  <1>28. CASE Emit
    BY ItemsInOrder, <1>28 DEF Emit
  <1>29. CASE Appears
    BY ItemsInOrder, <1>29 DEF Appears
  <1>30. CASE UNCHANGED vars
    BY ItemsInOrder, <1>30 DEF vars
  <1> QED
    BY <1>1, <1>2, <1>3, <1>4, <1>5, <1>6, <1>7, <1>8, <1>9, <1>10, <1>11,
       <1>12, <1>13, <1>14, <1>15, <1>16, <1>17, <1>18, <1>19, <1>20, <1>21,
       <1>22, <1>23, <1>24, <1>25, <1>26, <1>27, <1>28, <1>29, <1>30 DEF
       Next, Script, World

\* Every directory is made before what lies in it, and no step of the lifecycle
\* takes one away.
LEMMA StaysHomes ==
  ASSUME Control, Placed, Homes, [Next]_vars
  PROVE  Homes'
  <1> USE DEF Homes, Placed, Control, Stages, Steps, Lifecycle, Cleanup, Resting, Verdicts, Stages, control, bounds, host, memory, service, journal, report
  <1>1. CASE Preflight
    BY ItemsInOrder, <1>1 DEF Preflight, CapturesParent, NoReport, Goto, Fail
  <1>2. CASE NormalizeBinaryParent
    BY ItemsInOrder, <1>2 DEF NormalizeBinaryParent, Goto, Fail
  <1>3. CASE InstallRuntime
    BY ItemsInOrder, <1>3 DEF InstallRuntime, NextItem, TempsAfterFailure, Goto, Fail
  <1>4. CASE WriteBinary
    BY ItemsInOrder, <1>4 DEF WriteBinary, Wanted, HasBackup, TempsAfterFailure, Goto, Fail
  <1>5. CASE WriteConfig
    BY ItemsInOrder, <1>5 DEF WriteConfig, Wanted, HasBackup, TempsAfterFailure, Goto, Fail
  <1>6. CASE WriteBackup
    BY ItemsInOrder, <1>6 DEF WriteBackup, TempsAfterFailure, Goto, Fail
  <1>7. CASE Reload
    BY ItemsInOrder, <1>7 DEF Reload, Goto, Fail
  <1>8. CASE VerifyDigests
    BY ItemsInOrder, <1>8 DEF VerifyDigests, Goto, Fail
  <1>9. CASE Start
    BY ItemsInOrder, <1>9 DEF Start, Goto, Fail
  <1>10. CASE WaitActive
    BY ItemsInOrder, <1>10 DEF WaitActive, Goto, Fail
  <1>11. CASE WaitNewObservations
    BY ItemsInOrder, <1>11 DEF WaitNewObservations, FoundIn, Goto, Fail
  <1>12. CASE Kill
    BY ItemsInOrder, <1>12 DEF Kill, Goto, Fail
  <1>13. CASE AssertStopped
    BY ItemsInOrder, <1>13 DEF AssertStopped, AfterStop, Goto, Fail
  <1>14. CASE Report
    BY ItemsInOrder, <1>14 DEF Report, Fail
  <1>15. CASE CleanupStop
    BY ItemsInOrder, <1>15 DEF CleanupStop, Fault, NoFault, Then, NoReport
  <1>16. CASE CleanupUnlink
    BY ItemsInOrder, <1>16 DEF CleanupUnlink, Fault, NoFault, Then
  <1>17. CASE CleanupDirectories
    BY ItemsInOrder, <1>17 DEF CleanupDirectories, Fault, NoFault, Then, FilesIn
  <1>18. CASE CleanupReload
    BY ItemsInOrder, <1>18 DEF CleanupReload, Fault, NoFault, Then
  <1>19. CASE CleanupUser
    BY ItemsInOrder, <1>19 DEF CleanupUser, Fault, NoFault, Then
  <1>20. CASE CleanupGroup
    BY ItemsInOrder, <1>20 DEF CleanupGroup, Fault, NoFault, Then
  <1>21. CASE RestoreBinaryParent
    BY ItemsInOrder, <1>21 DEF RestoreBinaryParent, Fault, NoFault, Then
  <1>22. CASE VerifyCleanup
    BY ItemsInOrder, <1>22 DEF VerifyCleanup, Fault, NoFault, Then
  <1>23. CASE Begin
    BY ItemsInOrder, <1>23 DEF Begin
  <1>24. CASE Killed
    BY ItemsInOrder, <1>24 DEF Killed, TempsAfterFailure
  <1>25. CASE Launch
    BY ItemsInOrder, <1>25 DEF Launch, Launchable
  <1>26. CASE LaunchFails
    BY ItemsInOrder, <1>26 DEF LaunchFails
  <1>27. CASE ProcessDies
    BY ItemsInOrder, <1>27 DEF ProcessDies
  <1>28. CASE Emit
    BY ItemsInOrder, <1>28 DEF Emit
  <1>29. CASE Appears
    BY ItemsInOrder, <1>29 DEF Appears
  <1>30. CASE UNCHANGED vars
    BY ItemsInOrder, <1>30 DEF vars
  <1> QED
    BY <1>1, <1>2, <1>3, <1>4, <1>5, <1>6, <1>7, <1>8, <1>9, <1>10, <1>11,
       <1>12, <1>13, <1>14, <1>15, <1>16, <1>17, <1>18, <1>19, <1>20, <1>21,
       <1>22, <1>23, <1>24, <1>25, <1>26, <1>27, <1>28, <1>29, <1>30 DEF
       Next, Script, World

\* A directory goes with what lies in it, the account when no process is left.
LEMMA StaysHoused ==
  ASSUME Control, Placed, Host, Homes, Housed, [Next]_vars
  PROVE  Housed'
  <1> USE DEF Housed, Homes, Placed, Written, SystemFiles, OwnFiles, Control, Stages, Steps, Lifecycle, Cleanup, Resting, Verdicts, Stages, control, bounds, host, memory, service, journal, report
  <1>1. CASE Preflight
    BY ItemsInOrder, <1>1 DEF Preflight, CapturesParent, NoReport, Goto, Fail
  <1>2. CASE NormalizeBinaryParent
    BY ItemsInOrder, <1>2 DEF NormalizeBinaryParent, Goto, Fail
  <1>3. CASE InstallRuntime
    BY ItemsInOrder, <1>3 DEF InstallRuntime, NextItem, TempsAfterFailure, Goto, Fail
  <1>4. CASE WriteBinary
    BY ItemsInOrder, <1>4 DEF WriteBinary, Wanted, HasBackup, TempsAfterFailure, Goto, Fail
  <1>5. CASE WriteConfig
    BY ItemsInOrder, <1>5 DEF WriteConfig, Wanted, HasBackup, TempsAfterFailure, Goto, Fail
  <1>6. CASE WriteBackup
    BY ItemsInOrder, <1>6 DEF WriteBackup, TempsAfterFailure, Goto, Fail
  <1>7. CASE Reload
    BY ItemsInOrder, <1>7 DEF Reload, Goto, Fail
  <1>8. CASE VerifyDigests
    BY ItemsInOrder, <1>8 DEF VerifyDigests, Goto, Fail
  <1>9. CASE Start
    BY ItemsInOrder, <1>9 DEF Start, Goto, Fail
  <1>10. CASE WaitActive
    BY ItemsInOrder, <1>10 DEF WaitActive, Goto, Fail
  <1>11. CASE WaitNewObservations
    BY ItemsInOrder, <1>11 DEF WaitNewObservations, FoundIn, Goto, Fail
  <1>12. CASE Kill
    BY ItemsInOrder, <1>12 DEF Kill, Goto, Fail
  <1>13. CASE AssertStopped
    BY ItemsInOrder, <1>13 DEF AssertStopped, AfterStop, Goto, Fail
  <1>14. CASE Report
    BY ItemsInOrder, <1>14 DEF Report, Fail
  <1>15. CASE CleanupStop
    BY ItemsInOrder, <1>15 DEF CleanupStop, Fault, NoFault, Then, NoReport
  <1>16. CASE CleanupUnlink
    BY ItemsInOrder, <1>16 DEF CleanupUnlink, Fault, NoFault, Then
  <1>17. CASE CleanupDirectories
    BY ItemsInOrder, <1>17 DEF CleanupDirectories, Fault, NoFault, Then, FilesIn
  <1>18. CASE CleanupReload
    BY ItemsInOrder, <1>18 DEF CleanupReload, Fault, NoFault, Then
  <1>19. CASE CleanupUser
    BY ItemsInOrder, <1>19 DEF CleanupUser, Fault, NoFault, Then
  <1>20. CASE CleanupGroup
    BY ItemsInOrder, <1>20 DEF CleanupGroup, Fault, NoFault, Then
  <1>21. CASE RestoreBinaryParent
    BY ItemsInOrder, <1>21 DEF RestoreBinaryParent, Fault, NoFault, Then
  <1>22. CASE VerifyCleanup
    BY ItemsInOrder, <1>22 DEF VerifyCleanup, Fault, NoFault, Then
  <1>23. CASE Begin
    BY ItemsInOrder, <1>23 DEF Begin
  <1>24. CASE Killed
    BY ItemsInOrder, <1>24 DEF Killed, TempsAfterFailure
  <1>25. CASE Launch
    BY ItemsInOrder, <1>25 DEF Launch, Launchable
  <1>26. CASE LaunchFails
    BY ItemsInOrder, <1>26 DEF LaunchFails
  <1>27. CASE ProcessDies
    BY ItemsInOrder, <1>27 DEF ProcessDies
  <1>28. CASE Emit
    BY ItemsInOrder, <1>28 DEF Emit
  <1>29. CASE Appears
    BY ItemsInOrder, <1>29 DEF Appears
  <1>30. CASE UNCHANGED vars
    BY ItemsInOrder, <1>30 DEF vars
  <1> QED
    BY <1>1, <1>2, <1>3, <1>4, <1>5, <1>6, <1>7, <1>8, <1>9, <1>10, <1>11,
       <1>12, <1>13, <1>14, <1>15, <1>16, <1>17, <1>18, <1>19, <1>20, <1>21,
       <1>22, <1>23, <1>24, <1>25, <1>26, <1>27, <1>28, <1>29, <1>30 DEF
       Next, Script, World

\* A write goes on only if its temporary file is gone.
LEMMA StaysCleared ==
  ASSUME Control, Placed, Host, Homes, Housed, TempsCleared, [Next]_vars
  PROVE  TempsCleared'
  <1> USE DEF TempsCleared, Homes, Housed, Host, Leftover, Written, SystemFiles, OwnFiles, Placed, Control, Stages, Steps, Lifecycle, Cleanup, Resting, Verdicts, Stages, control, bounds, host, memory, service, journal, report
  <1>1. CASE Preflight
    BY ItemsInOrder, <1>1 DEF Preflight, CapturesParent, NoReport, Goto, Fail
  <1>2. CASE NormalizeBinaryParent
    BY ItemsInOrder, <1>2 DEF NormalizeBinaryParent, Goto, Fail
  <1>3. CASE InstallRuntime
    <2>1. CASE Items[at] \notin temps /\ temps' = temps /\ NextItem
      <3>1. CASE at < Len(Items) /\ at' = at + 1 /\ UNCHANGED <<stage, step>>
        BY <2>1, <3>1, <1>3, ItemsInOrder DEF InstallRuntime
      <3>2. CASE at = Len(Items) /\ Goto("initial", "binary") /\ UNCHANGED at
        BY <2>1, <3>2, <1>3, ItemsInOrder DEF InstallRuntime, Goto
      <3> QED
        BY <2>1, <3>1, <3>2 DEF NextItem
    <2>2. CASE Fail
      BY <2>2, <1>3 DEF InstallRuntime, Fail
    <2> QED
      BY <2>1, <2>2, <1>3 DEF InstallRuntime
  <1>4. CASE WriteBinary
    BY ItemsInOrder, <1>4 DEF WriteBinary, Wanted, HasBackup, TempsAfterFailure, Goto, Fail
  <1>5. CASE WriteConfig
    BY ItemsInOrder, <1>5 DEF WriteConfig, Wanted, HasBackup, TempsAfterFailure, Goto, Fail
  <1>6. CASE WriteBackup
    BY ItemsInOrder, <1>6 DEF WriteBackup, TempsAfterFailure, Goto, Fail
  <1>7. CASE Reload
    BY ItemsInOrder, <1>7 DEF Reload, Goto, Fail
  <1>8. CASE VerifyDigests
    BY ItemsInOrder, <1>8 DEF VerifyDigests, Goto, Fail
  <1>9. CASE Start
    BY ItemsInOrder, <1>9 DEF Start, Goto, Fail
  <1>10. CASE WaitActive
    BY ItemsInOrder, <1>10 DEF WaitActive, Goto, Fail
  <1>11. CASE WaitNewObservations
    BY ItemsInOrder, <1>11 DEF WaitNewObservations, FoundIn, Goto, Fail
  <1>12. CASE Kill
    BY ItemsInOrder, <1>12 DEF Kill, Goto, Fail
  <1>13. CASE AssertStopped
    BY ItemsInOrder, <1>13 DEF AssertStopped, AfterStop, Goto, Fail
  <1>14. CASE Report
    BY ItemsInOrder, <1>14 DEF Report, Fail
  <1>15. CASE CleanupStop
    BY ItemsInOrder, <1>15 DEF CleanupStop, Fault, NoFault, Then, NoReport
  <1>16. CASE CleanupUnlink
    BY ItemsInOrder, <1>16 DEF CleanupUnlink, Fault, NoFault, Then
  <1>17. CASE CleanupDirectories
    BY ItemsInOrder, <1>17 DEF CleanupDirectories, Fault, NoFault, Then, FilesIn
  <1>18. CASE CleanupReload
    BY ItemsInOrder, <1>18 DEF CleanupReload, Fault, NoFault, Then
  <1>19. CASE CleanupUser
    BY ItemsInOrder, <1>19 DEF CleanupUser, Fault, NoFault, Then
  <1>20. CASE CleanupGroup
    BY ItemsInOrder, <1>20 DEF CleanupGroup, Fault, NoFault, Then
  <1>21. CASE RestoreBinaryParent
    BY ItemsInOrder, <1>21 DEF RestoreBinaryParent, Fault, NoFault, Then
  <1>22. CASE VerifyCleanup
    BY ItemsInOrder, <1>22 DEF VerifyCleanup, Fault, NoFault, Then
  <1>23. CASE Begin
    BY ItemsInOrder, <1>23 DEF Begin
  <1>24. CASE Killed
    BY ItemsInOrder, <1>24 DEF Killed, TempsAfterFailure
  <1>25. CASE Launch
    BY ItemsInOrder, <1>25 DEF Launch, Launchable
  <1>26. CASE LaunchFails
    BY ItemsInOrder, <1>26 DEF LaunchFails
  <1>27. CASE ProcessDies
    BY ItemsInOrder, <1>27 DEF ProcessDies
  <1>28. CASE Emit
    BY ItemsInOrder, <1>28 DEF Emit
  <1>29. CASE Appears
    BY ItemsInOrder, <1>29 DEF Appears
  <1>30. CASE UNCHANGED vars
    BY ItemsInOrder, <1>30 DEF vars
  <1> QED
    BY <1>1, <1>2, <1>3, <1>4, <1>5, <1>6, <1>7, <1>8, <1>9, <1>10, <1>11,
       <1>12, <1>13, <1>14, <1>15, <1>16, <1>17, <1>18, <1>19, <1>20, <1>21,
       <1>22, <1>23, <1>24, <1>25, <1>26, <1>27, <1>28, <1>29, <1>30 DEF
       Next, Script, World

\* After a verdict nothing changes what it has seen.
LEMMA StaysSettled ==
  ASSUME Flags, Control, Settled, [Next]_vars
  PROVE  Settled'
  <1> USE DEF Settled, Lifecycle, Cleanup, Resting, Verdicts, control, bounds, host, memory, service, journal, report
  <1>1. CASE Preflight
    BY ItemsInOrder, <1>1 DEF Preflight, CapturesParent, NoReport, Goto, Fail
  <1>2. CASE NormalizeBinaryParent
    BY ItemsInOrder, <1>2 DEF NormalizeBinaryParent, Goto, Fail
  <1>3. CASE InstallRuntime
    BY ItemsInOrder, <1>3 DEF InstallRuntime, NextItem, TempsAfterFailure, Goto, Fail
  <1>4. CASE WriteBinary
    BY ItemsInOrder, <1>4 DEF WriteBinary, Wanted, HasBackup, TempsAfterFailure, Goto, Fail
  <1>5. CASE WriteConfig
    BY ItemsInOrder, <1>5 DEF WriteConfig, Wanted, HasBackup, TempsAfterFailure, Goto, Fail
  <1>6. CASE WriteBackup
    BY ItemsInOrder, <1>6 DEF WriteBackup, TempsAfterFailure, Goto, Fail
  <1>7. CASE Reload
    BY ItemsInOrder, <1>7 DEF Reload, Goto, Fail
  <1>8. CASE VerifyDigests
    BY ItemsInOrder, <1>8 DEF VerifyDigests, Goto, Fail
  <1>9. CASE Start
    BY ItemsInOrder, <1>9 DEF Start, Goto, Fail
  <1>10. CASE WaitActive
    BY ItemsInOrder, <1>10 DEF WaitActive, Goto, Fail
  <1>11. CASE WaitNewObservations
    BY ItemsInOrder, <1>11 DEF WaitNewObservations, FoundIn, Goto, Fail
  <1>12. CASE Kill
    BY ItemsInOrder, <1>12 DEF Kill, Goto, Fail
  <1>13. CASE AssertStopped
    BY ItemsInOrder, <1>13 DEF AssertStopped, AfterStop, Goto, Fail
  <1>14. CASE Report
    BY ItemsInOrder, <1>14 DEF Report, Fail
  <1>15. CASE CleanupStop
    BY ItemsInOrder, <1>15 DEF CleanupStop, Fault, NoFault, Then, NoReport
  <1>16. CASE CleanupUnlink
    BY ItemsInOrder, <1>16 DEF CleanupUnlink, Fault, NoFault, Then
  <1>17. CASE CleanupDirectories
    BY ItemsInOrder, <1>17 DEF CleanupDirectories, Fault, NoFault, Then, FilesIn
  <1>18. CASE CleanupReload
    BY ItemsInOrder, <1>18 DEF CleanupReload, Fault, NoFault, Then
  <1>19. CASE CleanupUser
    BY ItemsInOrder, <1>19 DEF CleanupUser, Fault, NoFault, Then
  <1>20. CASE CleanupGroup
    BY ItemsInOrder, <1>20 DEF CleanupGroup, Fault, NoFault, Then
  <1>21. CASE RestoreBinaryParent
    BY ItemsInOrder, <1>21 DEF RestoreBinaryParent, Fault, NoFault, Then
  <1>22. CASE VerifyCleanup
    <2>1. step' = "success" => completed' = TRUE
      <3>1. CASE completed = TRUE
        BY <3>1, <1>22 DEF VerifyCleanup, Then
      <3>2. CASE completed = FALSE
        <4>1. ~completed
          BY <3>2
        <4> QED
          BY <4>1, <1>22 DEF VerifyCleanup, Then
      <3> QED
        BY <3>1, <3>2 DEF Flags
    <2> QED
      BY <2>1, <1>22 DEF VerifyCleanup, Then
  <1>23. CASE Begin
    BY ItemsInOrder, <1>23 DEF Begin
  <1>24. CASE Killed
    BY ItemsInOrder, <1>24 DEF Killed, TempsAfterFailure
  <1>25. CASE Launch
    BY ItemsInOrder, <1>25 DEF Launch, Launchable
  <1>26. CASE LaunchFails
    BY ItemsInOrder, <1>26 DEF LaunchFails
  <1>27. CASE ProcessDies
    BY ItemsInOrder, <1>27 DEF ProcessDies
  <1>28. CASE Emit
    BY ItemsInOrder, <1>28 DEF Emit
  <1>29. CASE Appears
    BY ItemsInOrder, <1>29 DEF Appears
  <1>30. CASE UNCHANGED vars
    BY ItemsInOrder, <1>30 DEF vars
  <1> QED
    BY <1>1, <1>2, <1>3, <1>4, <1>5, <1>6, <1>7, <1>8, <1>9, <1>10, <1>11,
       <1>12, <1>13, <1>14, <1>15, <1>16, <1>17, <1>18, <1>19, <1>20, <1>21,
       <1>22, <1>23, <1>24, <1>25, <1>26, <1>27, <1>28, <1>29, <1>30 DEF
       Next, Script, World

\* Each step of the cleanup adds its part, unless one failed.
LEMMA StaysCleaned ==
  ASSUME Flags, Control, Host, Service, Cleaned, [Next]_vars
  PROVE  Cleaned'
  <1> USE DEF Cleaned, Host, Service, Leftover, Things, SystemFiles, Control, Stages, Steps, Lifecycle, Cleanup, Resting, Verdicts, Stages, control, bounds, host, memory, service, journal, report
  <1>1. CASE Preflight
    BY ItemsInOrder, <1>1 DEF Preflight, CapturesParent, NoReport, Goto, Fail
  <1>2. CASE NormalizeBinaryParent
    BY ItemsInOrder, <1>2 DEF NormalizeBinaryParent, Goto, Fail
  <1>3. CASE InstallRuntime
    BY ItemsInOrder, <1>3 DEF InstallRuntime, NextItem, TempsAfterFailure, Goto, Fail
  <1>4. CASE WriteBinary
    BY ItemsInOrder, <1>4 DEF WriteBinary, Wanted, HasBackup, TempsAfterFailure, Goto, Fail
  <1>5. CASE WriteConfig
    BY ItemsInOrder, <1>5 DEF WriteConfig, Wanted, HasBackup, TempsAfterFailure, Goto, Fail
  <1>6. CASE WriteBackup
    BY ItemsInOrder, <1>6 DEF WriteBackup, TempsAfterFailure, Goto, Fail
  <1>7. CASE Reload
    BY ItemsInOrder, <1>7 DEF Reload, Goto, Fail
  <1>8. CASE VerifyDigests
    BY ItemsInOrder, <1>8 DEF VerifyDigests, Goto, Fail
  <1>9. CASE Start
    BY ItemsInOrder, <1>9 DEF Start, Goto, Fail
  <1>10. CASE WaitActive
    BY ItemsInOrder, <1>10 DEF WaitActive, Goto, Fail
  <1>11. CASE WaitNewObservations
    BY ItemsInOrder, <1>11 DEF WaitNewObservations, FoundIn, Goto, Fail
  <1>12. CASE Kill
    BY ItemsInOrder, <1>12 DEF Kill, Goto, Fail
  <1>13. CASE AssertStopped
    BY ItemsInOrder, <1>13 DEF AssertStopped, AfterStop, Goto, Fail
  <1>14. CASE Report
    BY ItemsInOrder, <1>14 DEF Report, Fail
  <1>15. CASE CleanupStop
    BY ItemsInOrder, <1>15 DEF CleanupStop, Fault, NoFault, Then, NoReport
  <1>16. CASE CleanupUnlink
    BY ItemsInOrder, <1>16 DEF CleanupUnlink, Fault, NoFault, Then
  <1>17. CASE CleanupDirectories
    <2> SUFFICES ASSUME cleanupFailed' = FALSE
                 PROVE  Cleaned'
      BY <1>17 DEF CleanupDirectories, Then
    <2>1. PICK kept \in SUBSET {"fixtures", "backups", "configDir", "pveDir"} :
            LET gone == {"fixtures", "backups", "pveDir"}
                          \cup (IF config = "none" THEN {"configDir"} ELSE {})
                files == UNION {FilesIn(d) : d \in gone \ kept}
            IN /\ IF kept = {} THEN NoFault ELSE Fault
               /\ present' = present \ ((gone \ kept) \cup files)
      BY <1>17 DEF CleanupDirectories
    <2>2. kept = {} /\ cleanupFailed = FALSE
      BY <2>1 DEF Fault, NoFault
    <2>3. config = "none" /\ present \cap SystemFiles = {}
      BY <2>2, <1>17 DEF CleanupDirectories
    <2>4. present' = present \ ({"fixtures", "backups", "pveDir", "configDir"}
              \cup UNION {FilesIn(d) : d \in {"fixtures", "backups", "pveDir", "configDir"}})
      BY <2>1, <2>2, <2>3
    <2>5. UNION {FilesIn(d) : d \in {"fixtures", "backups", "pveDir", "configDir"}}
            = {"fixture", "backupBinary", "backupConfig", "config"}
      BY DEF FilesIn
    <2>6. present' \subseteq {"user", "group"}
      BY <2>3, <2>4, <2>5
    <2> QED
      BY <2>2, <2>3, <2>6, <1>17 DEF CleanupDirectories, Then
  <1>18. CASE CleanupReload
    BY ItemsInOrder, <1>18 DEF CleanupReload, Fault, NoFault, Then
  <1>19. CASE CleanupUser
    BY ItemsInOrder, <1>19 DEF CleanupUser, Fault, NoFault, Then
  <1>20. CASE CleanupGroup
    BY ItemsInOrder, <1>20 DEF CleanupGroup, Fault, NoFault, Then
  <1>21. CASE RestoreBinaryParent
    BY ItemsInOrder, <1>21 DEF RestoreBinaryParent, Fault, NoFault, Then
  <1>22. CASE VerifyCleanup
    <2>1. CASE cleanupFailed = FALSE
      <3>1. ~cleanupFailed
        BY <2>1
      <3> QED
        BY <2>1, <3>1, <1>22 DEF VerifyCleanup, Fault, NoFault, Then
    <2>2. CASE cleanupFailed = TRUE
      BY <2>2, <1>22 DEF VerifyCleanup, Fault, NoFault
    <2> QED
      BY <2>1, <2>2 DEF Flags
  <1>23. CASE Begin
    BY ItemsInOrder, <1>23 DEF Begin
  <1>24. CASE Killed
    BY ItemsInOrder, <1>24 DEF Killed, TempsAfterFailure
  <1>25. CASE Launch
    BY ItemsInOrder, <1>25 DEF Launch, Launchable
  <1>26. CASE LaunchFails
    BY ItemsInOrder, <1>26 DEF LaunchFails
  <1>27. CASE ProcessDies
    BY ItemsInOrder, <1>27 DEF ProcessDies
  <1>28. CASE Emit
    BY ItemsInOrder, <1>28 DEF Emit
  <1>29. CASE Appears
    BY ItemsInOrder, <1>29 DEF Appears
  <1>30. CASE UNCHANGED vars
    BY ItemsInOrder, <1>30 DEF vars
  <1> QED
    BY <1>1, <1>2, <1>3, <1>4, <1>5, <1>6, <1>7, <1>8, <1>9, <1>10, <1>11,
       <1>12, <1>13, <1>14, <1>15, <1>16, <1>17, <1>18, <1>19, <1>20, <1>21,
       <1>22, <1>23, <1>24, <1>25, <1>26, <1>27, <1>28, <1>29, <1>30 DEF
       Next, Script, World

-----------------------------------------------------------------------------
(* Processes and evidence.                                                 *)

\* An empty report is well typed.
LEMMA EmptyReport ==
  ASSUME NoReport
  PROVE  /\ ranBinary' \in [Pids -> Contents] /\ ranConfig' \in [Pids -> Contents]
         /\ pidOf' \in [Stages -> 0..MaxBorn] /\ sampledFrom' \in [Stages -> SUBSET Pids]
  BY RehearsalAssumption DEF NoReport, Contents

\* Processes are numbered in the order they start, anew for every run; a run that
\* begins has none of an earlier one, whose account would have stopped it.
LEMMA ServiceKept ==
  ASSUME Control, Host, Service, Housed, [Next]_vars
  PROVE  Service'
  <1> USE DEF Service, control, bounds, host, memory, service, journal, report
  <1>1. CASE Preflight
    <2>1. CASE step' = "refused"
      BY <2>1, <1>1 DEF Preflight, Goto
    <2>2. CASE step' # "refused"
      <3>1. NoReport /\ born' = 0 /\ fresh' = {} /\ late' = {} /\ UNCHANGED <<svc, proc>>
        BY <2>2, <1>1 DEF Preflight, Goto
      <3>2. proc = 0
        BY <2>2, <1>1 DEF Preflight, Leftover, Housed
      <3> QED
        BY <3>1, <3>2, EmptyReport, RehearsalAssumption
    <2> QED
      BY <2>1, <2>2
  <1>2. CASE NormalizeBinaryParent
    BY <1>2 DEF NormalizeBinaryParent, Goto, Fail
  <1>3. CASE InstallRuntime
    BY <1>3 DEF InstallRuntime, NextItem, TempsAfterFailure, Goto, Fail
  <1>4. CASE WriteBinary
    BY <1>4 DEF WriteBinary, Wanted, HasBackup, TempsAfterFailure, Goto, Fail
  <1>5. CASE WriteConfig
    BY <1>5 DEF WriteConfig, Wanted, HasBackup, TempsAfterFailure, Goto, Fail
  <1>6. CASE WriteBackup
    BY <1>6 DEF WriteBackup, TempsAfterFailure, Goto, Fail
  <1>7. CASE Reload
    BY <1>7 DEF Reload, Goto, Fail
  <1>8. CASE VerifyDigests
    BY <1>8 DEF VerifyDigests, Goto, Fail
  <1>9. CASE Start
    BY <1>9 DEF Start, Goto, Fail
  <1>10. CASE WaitActive
    <2>1. proc \in 0..MaxBorn /\ stage \in Stages
      BY RehearsalAssumption DEF Control
    <2>2. pidOf' \in [Stages -> 0..MaxBorn]
      BY <2>1, <1>10 DEF WaitActive
    <2> QED
      BY <2>2, <1>10 DEF WaitActive
  <1>11. CASE WaitNewObservations
    <2>1. FoundIn \in SUBSET Pids
      BY DEF FoundIn
    <2>2. sampledFrom' \in [Stages -> SUBSET Pids] /\ fresh' \subseteq Pids
      BY <2>1, <1>11 DEF WaitNewObservations
    <2> QED
      BY <2>2, <1>11 DEF WaitNewObservations
  <1>12. CASE Kill
    BY <1>12 DEF Kill, Goto, Fail
  <1>13. CASE AssertStopped
    BY <1>13 DEF AssertStopped, AfterStop, Goto, Fail
  <1>14. CASE Report
    BY <1>14 DEF Report, Fail
  <1>15. CASE CleanupStop
    <2>1. /\ ranBinary' \in [Pids -> Contents] /\ ranConfig' \in [Pids -> Contents]
          /\ pidOf' \in [Stages -> 0..MaxBorn] /\ sampledFrom' \in [Stages -> SUBSET Pids]
      BY EmptyReport, <1>15 DEF CleanupStop
    <2>2. /\ svc' \in {svc, "inactive"} /\ proc' \in {0, proc} /\ born' = born
          /\ fresh' = {} /\ late' = {}
      BY <1>15 DEF CleanupStop
    <2> QED
      BY <2>1, <2>2, RehearsalAssumption
  <1>16. CASE CleanupUnlink
    BY <1>16 DEF CleanupUnlink, Fault, NoFault, Then
  <1>17. CASE CleanupDirectories
    BY <1>17 DEF CleanupDirectories, Fault, NoFault, Then, FilesIn
  <1>18. CASE CleanupReload
    BY <1>18 DEF CleanupReload, Fault, NoFault, Then
  <1>19. CASE CleanupUser
    BY <1>19 DEF CleanupUser, Fault, NoFault, Then
  <1>20. CASE CleanupGroup
    BY <1>20 DEF CleanupGroup, Fault, NoFault, Then
  <1>21. CASE RestoreBinaryParent
    BY <1>21 DEF RestoreBinaryParent, Fault, NoFault, Then
  <1>22. CASE VerifyCleanup
    BY <1>22 DEF VerifyCleanup, Fault, NoFault, Then
  <1>23. CASE Begin
    BY <1>23 DEF Begin
  <1>24. CASE Killed
    BY <1>24 DEF Killed, TempsAfterFailure
  <1>25. CASE Launch
    <2>1. born + 1 \in Pids /\ born + 1 \in 0..MaxBorn
      BY RehearsalAssumption, <1>25 DEF Launch, Pids
    <2>2. ranBinary' \in [Pids -> Contents] /\ ranConfig' \in [Pids -> Contents]
      BY <2>1, <1>25 DEF Launch, Host
    <2>3. proc' \in 0..born' /\ born' \in 0..MaxBorn
      BY <2>1, <1>25 DEF Launch
    <2> QED
      BY <2>2, <2>3, <1>25 DEF Launch
  <1>26. CASE LaunchFails
    BY <1>26 DEF LaunchFails
  <1>27. CASE ProcessDies
    BY <1>27 DEF ProcessDies
  <1>28. CASE Emit
    <2>1. late' \subseteq Pids
      BY RehearsalAssumption, <1>28 DEF Emit, Pids
    <2> QED
      BY <2>1, <1>28 DEF Emit
  <1>29. CASE Appears
    BY <1>29 DEF Appears
  <1>30. CASE UNCHANGED vars
    BY <1>30 DEF vars
  <1> QED
    BY <1>1, <1>2, <1>3, <1>4, <1>5, <1>6, <1>7, <1>8, <1>9, <1>10, <1>11,
       <1>12, <1>13, <1>14, <1>15, <1>16, <1>17, <1>18, <1>19, <1>20, <1>21,
       <1>22, <1>23, <1>24, <1>25, <1>26, <1>27, <1>28, <1>29, <1>30 DEF
       Next, Script, World

\* A process that starts runs what its stage is about, or belongs to no report.
LEMMA StaysTraced ==
  ASSUME Control, Placed, Host, Service, Housed, Contained, Stopped, TempsCleared, Traced, [Next]_vars
  PROVE  Traced'
  <1> USE DEF Traced, Telling, Due, Lifecycle, Cleanup, Resting, Verdicts, control, bounds, host, memory, service, journal, report
  <1>1. CASE Preflight
    <2>1. CASE step' = "refused"
      BY <2>1, <1>1 DEF Preflight, Goto
    <2>2. CASE step' # "refused"
      <3>1. born' = 0 /\ fresh' = {} /\ late' = {} /\ UNCHANGED <<svc, proc>> /\ step' = "normalize"
        BY <2>2, <1>1 DEF Preflight, Goto
      <3>2. proc = 0
        BY <2>2, <1>1 DEF Preflight, Leftover, Housed
      <3> QED
        BY <3>1, <3>2, RehearsalAssumption
    <2> QED
      BY <2>1, <2>2
  <1>2. CASE NormalizeBinaryParent
    BY ItemsInOrder, RehearsalAssumption, <1>2 DEF NormalizeBinaryParent, Goto, Fail, Leftover, Control, Placed, Service, Stopped, TempsCleared, Contained, Before, Wanted, Pids
  <1>3. CASE InstallRuntime
    BY ItemsInOrder, RehearsalAssumption, <1>3 DEF InstallRuntime, NextItem, TempsAfterFailure, Goto, Fail, Leftover, Control, Placed, Service, Stopped, TempsCleared, Contained, Before, Wanted, Pids
  <1>4. CASE WriteBinary
    BY ItemsInOrder, RehearsalAssumption, <1>4 DEF WriteBinary, Wanted, HasBackup, TempsAfterFailure, Goto, Fail, Leftover, Control, Placed, Service, Stopped, TempsCleared, Contained, Before, Wanted, Pids
  <1>5. CASE WriteConfig
    BY ItemsInOrder, RehearsalAssumption, <1>5 DEF WriteConfig, Wanted, HasBackup, TempsAfterFailure, Goto, Fail, Leftover, Control, Placed, Service, Stopped, TempsCleared, Contained, Before, Wanted, Pids
  <1>6. CASE WriteBackup
    BY ItemsInOrder, RehearsalAssumption, <1>6 DEF WriteBackup, TempsAfterFailure, Goto, Fail, Leftover, Control, Placed, Service, Stopped, TempsCleared, Contained, Before, Wanted, Pids
  <1>7. CASE Reload
    BY ItemsInOrder, RehearsalAssumption, <1>7 DEF Reload, Goto, Fail, Leftover, Control, Placed, Service, Stopped, TempsCleared, Contained, Before, Wanted, Pids
  <1>8. CASE VerifyDigests
    BY ItemsInOrder, RehearsalAssumption, <1>8 DEF VerifyDigests, Goto, Fail, Leftover, Control, Placed, Service, Stopped, TempsCleared, Contained, Before, Wanted, Pids
  <1>9. CASE Start
    BY ItemsInOrder, RehearsalAssumption, <1>9 DEF Start, Goto, Fail, Leftover, Control, Placed, Service, Stopped, TempsCleared, Contained, Before, Wanted, Pids
  <1>10. CASE WaitActive
    BY ItemsInOrder, RehearsalAssumption, <1>10 DEF WaitActive, Goto, Fail, Leftover, Control, Placed, Service, Stopped, TempsCleared, Contained, Before, Wanted, Pids
  <1>11. CASE WaitNewObservations
    BY ItemsInOrder, RehearsalAssumption, <1>11 DEF WaitNewObservations, FoundIn, Goto, Fail, Leftover, Control, Placed, Service, Stopped, TempsCleared, Contained, Before, Wanted, Pids
  <1>12. CASE Kill
    BY ItemsInOrder, RehearsalAssumption, <1>12 DEF Kill, Goto, Fail, Leftover, Control, Placed, Service, Stopped, TempsCleared, Contained, Before, Wanted, Pids
  <1>13. CASE AssertStopped
    BY ItemsInOrder, RehearsalAssumption, <1>13 DEF AssertStopped, AfterStop, Goto, Fail, Leftover, Control, Placed, Service, Stopped, TempsCleared, Contained, Before, Wanted, Pids
  <1>14. CASE Report
    BY ItemsInOrder, RehearsalAssumption, <1>14 DEF Report, Fail, Leftover, Control, Placed, Service, Stopped, TempsCleared, Contained, Before, Wanted, Pids
  <1>15. CASE CleanupStop
    BY ItemsInOrder, RehearsalAssumption, <1>15 DEF CleanupStop, Fault, NoFault, Then, NoReport, Leftover, Control, Placed, Service, Stopped, TempsCleared, Contained, Before, Wanted, Pids
  <1>16. CASE CleanupUnlink
    BY ItemsInOrder, RehearsalAssumption, <1>16 DEF CleanupUnlink, Fault, NoFault, Then, Leftover, Control, Placed, Service, Stopped, TempsCleared, Contained, Before, Wanted, Pids
  <1>17. CASE CleanupDirectories
    BY ItemsInOrder, RehearsalAssumption, <1>17 DEF CleanupDirectories, Fault, NoFault, Then, FilesIn, Leftover, Control, Placed, Service, Stopped, TempsCleared, Contained, Before, Wanted, Pids
  <1>18. CASE CleanupReload
    BY ItemsInOrder, RehearsalAssumption, <1>18 DEF CleanupReload, Fault, NoFault, Then, Leftover, Control, Placed, Service, Stopped, TempsCleared, Contained, Before, Wanted, Pids
  <1>19. CASE CleanupUser
    BY ItemsInOrder, RehearsalAssumption, <1>19 DEF CleanupUser, Fault, NoFault, Then, Leftover, Control, Placed, Service, Stopped, TempsCleared, Contained, Before, Wanted, Pids
  <1>20. CASE CleanupGroup
    BY ItemsInOrder, RehearsalAssumption, <1>20 DEF CleanupGroup, Fault, NoFault, Then, Leftover, Control, Placed, Service, Stopped, TempsCleared, Contained, Before, Wanted, Pids
  <1>21. CASE RestoreBinaryParent
    BY ItemsInOrder, RehearsalAssumption, <1>21 DEF RestoreBinaryParent, Fault, NoFault, Then, Leftover, Control, Placed, Service, Stopped, TempsCleared, Contained, Before, Wanted, Pids
  <1>22. CASE VerifyCleanup
    BY ItemsInOrder, RehearsalAssumption, <1>22 DEF VerifyCleanup, Fault, NoFault, Then, Leftover, Control, Placed, Service, Stopped, TempsCleared, Contained, Before, Wanted, Pids
  <1>23. CASE Begin
    BY ItemsInOrder, RehearsalAssumption, <1>23 DEF Begin, Leftover, Control, Placed, Service, Stopped, TempsCleared, Contained, Before, Wanted, Pids
  <1>24. CASE Killed
    BY ItemsInOrder, RehearsalAssumption, <1>24 DEF Killed, TempsAfterFailure, Leftover, Control, Placed, Service, Stopped, TempsCleared, Contained, Before, Wanted, Pids
  <1>25. CASE Launch
    <2>1. Telling' => /\ Telling /\ step \in Lifecycle
                      /\ binary = Due(stage) /\ config = Due(stage)
      BY <1>25 DEF Launch, Launchable, Contained, Before, Stopped, Placed, Control, Stages
    <2>2. born + 1 \in Pids /\ born \in Nat
      BY RehearsalAssumption, <1>25 DEF Launch, Service, Pids
    <2>3. /\ ranBinary'[born + 1] = binary /\ ranConfig'[born + 1] = config
          /\ \A p \in 1..born : ranBinary'[p] = ranBinary[p] /\ ranConfig'[p] = ranConfig[p]
      BY <2>2, <1>25 DEF Launch, Service, Pids
    <2>4. /\ proc' = born + 1 /\ born' = born + 1 /\ fresh' = fresh /\ late' = late
          /\ stage' = stage /\ step' = step /\ completed' = completed
      BY <1>25 DEF Launch
    <2>5. Telling' => \A p \in 1..born' : ranBinary'[p] = ranConfig'[p]
      <3> SUFFICES ASSUME Telling', NEW p \in 1..born'
                   PROVE  ranBinary'[p] = ranConfig'[p]
        OBVIOUS
      <3>1. CASE p = born + 1
        BY <3>1, <2>1, <2>3
      <3>2. CASE p \in 1..born
        BY <3>2, <2>1, <2>3
      <3> QED
        BY <2>2, <2>4, <3>1, <3>2
    <2>6. Telling' => fresh' \cup late' \subseteq 1..born'
      BY <2>1, <2>2, <2>4
    <2>7. proc' # 0
      BY <2>2, <2>4
    <2>8. Telling' => step' \in Lifecycle /\ ranConfig'[proc'] = Due(stage')
      BY <2>1, <2>3, <2>4
    <2> QED
      BY <2>5, <2>6, <2>7, <2>8
  <1>26. CASE LaunchFails
    BY ItemsInOrder, RehearsalAssumption, <1>26 DEF LaunchFails, Leftover, Control, Placed, Service, Stopped, TempsCleared, Contained, Before, Wanted, Pids
  <1>27. CASE ProcessDies
    BY ItemsInOrder, RehearsalAssumption, <1>27 DEF ProcessDies, Leftover, Control, Placed, Service, Stopped, TempsCleared, Contained, Before, Wanted, Pids
  <1>28. CASE Emit
    BY ItemsInOrder, RehearsalAssumption, <1>28 DEF Emit, Leftover, Control, Placed, Service, Stopped, TempsCleared, Contained, Before, Wanted, Pids
  <1>29. CASE Appears
    BY ItemsInOrder, RehearsalAssumption, <1>29 DEF Appears, Leftover, Control, Placed, Service, Stopped, TempsCleared, Contained, Before, Wanted, Pids
  <1>30. CASE UNCHANGED vars
    BY ItemsInOrder, RehearsalAssumption, <1>30 DEF vars, Leftover, Control, Placed, Service, Stopped, TempsCleared, Contained, Before, Wanted, Pids
  <1> QED
    BY <1>1, <1>2, <1>3, <1>4, <1>5, <1>6, <1>7, <1>8, <1>9, <1>10, <1>11,
       <1>12, <1>13, <1>14, <1>15, <1>16, <1>17, <1>18, <1>19, <1>20, <1>21,
       <1>22, <1>23, <1>24, <1>25, <1>26, <1>27, <1>28, <1>29, <1>30 DEF
       Next, Script, World

\* Where the script may go without a new line in the report.
Onward ==
  Telling' => /\ Telling /\ Done' \subseteq Done
              /\ step' = "samples" => step = "samples" /\ stage' = stage

\* A report of processes that have been started is not disturbed by others.
LEMMA ReportKept ==
  ASSUME Service, Evidenced, Onward,
         Telling' => /\ UNCHANGED report
                     /\ born' \in Nat /\ born' >= born
                     /\ \A p \in 1..born : ranBinary'[p] = ranBinary[p] /\ ranConfig'[p] = ranConfig[p]
  PROVE  Evidenced'
  <1> SUFFICES ASSUME Telling'
               PROVE  Evidenced'
    BY DEF Evidenced
  <1>1. /\ Telling /\ Done' \subseteq Done
        /\ step' = "samples" => step = "samples" /\ stage' = stage
        /\ pidOf' = pidOf /\ sampledFrom' = sampledFrom
    BY DEF Onward, report
  <1>2. 1..born \subseteq 1..born'
    BY DEF Service
  <1>3. ASSUME NEW s, Identified(s)
        PROVE  Identified(s)'
    BY <1>1, <1>2, <1>3 DEF Identified, Due
  <1>4. ASSUME NEW s, Sampled(s)
        PROVE  Sampled(s)'
    BY <1>1, <1>2, <1>4 DEF Sampled, Due
  <1>5. \A s \in Done' : Identified(s)' /\ Sampled(s)'
    BY <1>1, <1>3, <1>4 DEF Evidenced
  <1>6. \A s, t \in Done' : s # t => pidOf'[s] # pidOf'[t]
    BY <1>1 DEF Evidenced
  <1>7. step' = "samples" => Identified(stage)'
    <2> SUFFICES ASSUME step' = "samples" PROVE Identified(stage)'
      OBVIOUS
    <2>1. Identified(stage) /\ stage' = stage
      BY <1>1 DEF Evidenced
    <2> QED
      BY <2>1, <1>1, <1>2 DEF Identified, Due
  <1>8. step' = "samples" /\ stage' = "restart" => pidOf'["restart"] # pidOf'["initial"]
    BY <1>1 DEF Evidenced
  <1> QED
    BY <1>5, <1>6, <1>7, <1>8 DEF Evidenced

\* What the report says stays true, and each stage adds its own.
LEMMA StaysEvidenced ==
  ASSUME Flags, Control, Placed, Service, Contained, Stopped, TempsCleared, Traced, Evidenced, [Next]_vars
  PROVE  Evidenced'
  <1> USE DEF control, bounds, host, memory, service, journal, report
  <1>1. CASE Preflight
    <2>1. ~Telling' \/ (step' = "normalize" /\ stage' = "initial")
      BY <1>1 DEF Preflight, Goto, Telling, Lifecycle, Cleanup
    <2> QED
      BY <2>1 DEF Evidenced, Done, Lifecycle
  <1>2. CASE NormalizeBinaryParent
    <2>1. Onward
      BY <1>2, ItemsInOrder DEF NormalizeBinaryParent, Goto, Fail, Onward, Telling, Done, Stages, Steps, Lifecycle, Cleanup, Resting, Verdicts, Control, Placed, TempsCleared
    <2>2. Telling' => UNCHANGED report /\ UNCHANGED <<born, ranBinary, ranConfig>>
      BY <1>2 DEF NormalizeBinaryParent, Goto, Fail
    <2> QED
      BY <2>1, <2>2, ReportKept DEF Service
  <1>3. CASE InstallRuntime
    <2>1. Onward
      BY <1>3, ItemsInOrder DEF InstallRuntime, NextItem, TempsAfterFailure, Goto, Fail, Onward, Telling, Done, Stages, Steps, Lifecycle, Cleanup, Resting, Verdicts, Control, Placed, TempsCleared
    <2>2. Telling' => UNCHANGED report /\ UNCHANGED <<born, ranBinary, ranConfig>>
      BY <1>3 DEF InstallRuntime, NextItem, TempsAfterFailure, Goto, Fail
    <2> QED
      BY <2>1, <2>2, ReportKept DEF Service
  <1>4. CASE WriteBinary
    <2>1. Onward
      BY <1>4, ItemsInOrder DEF WriteBinary, Wanted, HasBackup, TempsAfterFailure, Goto, Fail, Onward, Telling, Done, Stages, Steps, Lifecycle, Cleanup, Resting, Verdicts, Control, Placed, TempsCleared
    <2>2. Telling' => UNCHANGED report /\ UNCHANGED <<born, ranBinary, ranConfig>>
      BY <1>4 DEF WriteBinary, Wanted, HasBackup, TempsAfterFailure, Goto, Fail
    <2> QED
      BY <2>1, <2>2, ReportKept DEF Service
  <1>5. CASE WriteConfig
    <2>1. Onward
      BY <1>5, ItemsInOrder DEF WriteConfig, Wanted, HasBackup, TempsAfterFailure, Goto, Fail, Onward, Telling, Done, Stages, Steps, Lifecycle, Cleanup, Resting, Verdicts, Control, Placed, TempsCleared
    <2>2. Telling' => UNCHANGED report /\ UNCHANGED <<born, ranBinary, ranConfig>>
      BY <1>5 DEF WriteConfig, Wanted, HasBackup, TempsAfterFailure, Goto, Fail
    <2> QED
      BY <2>1, <2>2, ReportKept DEF Service
  <1>6. CASE WriteBackup
    <2>1. Onward
      BY <1>6, ItemsInOrder DEF WriteBackup, TempsAfterFailure, Goto, Fail, Onward, Telling, Done, Stages, Steps, Lifecycle, Cleanup, Resting, Verdicts, Control, Placed, TempsCleared
    <2>2. Telling' => UNCHANGED report /\ UNCHANGED <<born, ranBinary, ranConfig>>
      BY <1>6 DEF WriteBackup, TempsAfterFailure, Goto, Fail
    <2> QED
      BY <2>1, <2>2, ReportKept DEF Service
  <1>7. CASE Reload
    <2>1. Onward
      BY <1>7, ItemsInOrder DEF Reload, Goto, Fail, Onward, Telling, Done, Stages, Steps, Lifecycle, Cleanup, Resting, Verdicts, Control, Placed, TempsCleared
    <2>2. Telling' => UNCHANGED report /\ UNCHANGED <<born, ranBinary, ranConfig>>
      BY <1>7 DEF Reload, Goto, Fail
    <2> QED
      BY <2>1, <2>2, ReportKept DEF Service
  <1>8. CASE VerifyDigests
    <2>1. Onward
      BY <1>8, ItemsInOrder DEF VerifyDigests, Goto, Fail, Onward, Telling, Done, Stages, Steps, Lifecycle, Cleanup, Resting, Verdicts, Control, Placed, TempsCleared
    <2>2. Telling' => UNCHANGED report /\ UNCHANGED <<born, ranBinary, ranConfig>>
      BY <1>8 DEF VerifyDigests, Goto, Fail
    <2> QED
      BY <2>1, <2>2, ReportKept DEF Service
  <1>9. CASE Start
    <2>1. Onward
      BY <1>9, ItemsInOrder DEF Start, Goto, Fail, Onward, Telling, Done, Stages, Steps, Lifecycle, Cleanup, Resting, Verdicts, Control, Placed, TempsCleared
    <2>2. Telling' => UNCHANGED report /\ UNCHANGED <<born, ranBinary, ranConfig>>
      BY <1>9 DEF Start, Goto, Fail
    <2> QED
      BY <2>1, <2>2, ReportKept DEF Service
  <1>10. CASE WaitActive
    <2> SUFFICES ASSUME Telling'
                 PROVE  Evidenced'
      BY DEF Evidenced
    <2>1. /\ svc = "active" /\ proc # Previous
          /\ pidOf' = [pidOf EXCEPT ![stage] = proc]
          /\ step' = "samples" /\ stage' = stage
      BY <1>10 DEF WaitActive, Goto, Fail, Telling, Lifecycle, Cleanup, TempsCleared
    <2>2. /\ step = "active" /\ sampledFrom' = sampledFrom /\ born' = born
          /\ ranBinary' = ranBinary /\ ranConfig' = ranConfig
      BY <1>10 DEF WaitActive
    <2>3. Telling /\ step \in Lifecycle /\ stage \in Stages
      BY <2>2 DEF Telling, Lifecycle, Control
    <2>4. Done' = Done /\ stage \notin Done
      BY <2>1, <2>2, <2>3 DEF Done, Lifecycle, Stages
    <2>5. proc \in 1..born /\ ranBinary[proc] = Due(stage) /\ ranConfig[proc] = Due(stage)
      BY <2>1, <2>3, RehearsalAssumption DEF Traced, Service
    <2>6. pidOf'[stage] = proc /\ \A s \in Done : pidOf'[s] = pidOf[s]
      BY <2>1, <2>3, <2>4 DEF Service, Done, Stages
    <2>7. Identified(stage)'
      BY <2>1, <2>2, <2>5, <2>6 DEF Identified, Due
    <2>8. \A s \in Done' : Identified(s)' /\ Sampled(s)'
      <3> SUFFICES ASSUME NEW s \in Done
                   PROVE  Identified(s)' /\ Sampled(s)'
        BY <2>4
      <3>1. Identified(s) /\ Sampled(s) /\ pidOf'[s] = pidOf[s]
        BY <2>3, <2>6 DEF Evidenced
      <3> QED
        BY <3>1, <2>2 DEF Identified, Sampled, Due
    <2>9. \A s, t \in Done' : s # t => pidOf'[s] # pidOf'[t]
      BY <2>3, <2>4, <2>6 DEF Evidenced
    <2>10. stage' = "restart" => pidOf'["restart"] # pidOf'["initial"]
      BY <2>1, <2>2, <2>6 DEF Previous, Done, Lifecycle
    <2> QED
      BY <2>1, <2>7, <2>8, <2>9, <2>10 DEF Evidenced
  <1>11. CASE WaitNewObservations
    <2> SUFFICES ASSUME Telling'
                 PROVE  Evidenced'
      BY DEF Evidenced
    <2>1. /\ FoundIn # {} /\ NotReused
          /\ sampledFrom' = [sampledFrom EXCEPT ![stage] = FoundIn]
          /\ IF stage = "initial" THEN Goto("restart", "kill") ELSE Goto(stage, "stop")
      BY <1>11 DEF WaitNewObservations, Goto, Fail, Telling, Lifecycle, Cleanup, TempsCleared
    <2>2. /\ step = "samples" /\ pidOf' = pidOf /\ born' = born
          /\ ranBinary' = ranBinary /\ ranConfig' = ranConfig
      BY <1>11 DEF WaitNewObservations
    <2>3. Telling /\ step \in Lifecycle /\ stage \in Stages
      BY <2>2 DEF Telling, Lifecycle, Control
    <2>4. Identified(stage) /\ (stage = "restart" => pidOf["restart"] # pidOf["initial"])
      BY <2>2, <2>3 DEF Evidenced
    <2>5. Done' = Done \cup {stage} /\ stage \notin Done /\ Done \subseteq Stages
      BY <2>1, <2>2, <2>3 DEF Done, Goto, Lifecycle, Stages
    <2>6. sampledFrom'[stage] = FoundIn /\ \A s \in Done : sampledFrom'[s] = sampledFrom[s]
      BY <2>1, <2>3, <2>5 DEF Service
    <2>7. FoundIn \subseteq 1..born /\ \A p \in FoundIn : ranConfig[p] = Due(stage)
      BY <2>3 DEF FoundIn, Wanted, Due, Traced
    <2>8. ASSUME NEW s \in Done
          PROVE  Identified(s)' /\ Sampled(s)'
      <3>1. Identified(s) /\ Sampled(s)
        BY <2>3, <2>8 DEF Evidenced
      <3>2. sampledFrom'[s] = sampledFrom[s]
        BY <2>6, <2>8
      <3> QED
        BY <3>1, <3>2, <2>2 DEF Identified, Sampled, Due
    <2>9. ASSUME NEW q \in Stages, Identified(q)
           PROVE  Identified(q)'
      BY <2>2, <2>9 DEF Identified, Due
    <2>10. \A s \in Done' : Identified(s)' /\ Sampled(s)'
      <3> SUFFICES ASSUME NEW s \in Done'
                   PROVE  Identified(s)' /\ Sampled(s)'
        OBVIOUS
      <3>1. CASE s \in Done
        BY <3>1, <2>8
      <3>2. CASE s = stage
        <4>1. Identified(s)'
          BY <2>3, <2>4, <2>9, <3>2
        <4>2. Sampled(s)'
          <5>1. sampledFrom'[s] # {} /\ sampledFrom'[s] \subseteq 1..born'
            BY <2>1, <2>2, <2>6, <2>7, <3>2
          <5>2. \A p \in sampledFrom'[s] : ranConfig'[p] = Due(s)
            BY <2>2, <2>6, <2>7, <3>2
          <5> QED
            BY <5>1, <5>2 DEF Sampled, Due
        <4> QED
          BY <4>1, <4>2
      <3> QED
        BY <2>5, <3>1, <3>2
    <2>11. \A s \in Done : pidOf[s] # pidOf[stage]
      <3>1. CASE stage = "initial"
        BY <3>1, <2>2 DEF Done, Lifecycle
      <3>2. CASE stage = "restart"
        BY <3>2, <2>2, <2>4 DEF Done, Lifecycle
      <3>3. CASE stage \in {"candidate", "rollback"}
        BY <3>3, <2>1, <2>5 DEF NotReused
      <3> QED
        BY <2>3, <3>1, <3>2, <3>3 DEF Stages
    <2>12. \A s, t \in Done' : s # t => pidOf'[s] # pidOf'[t]
      BY <2>2, <2>3, <2>5, <2>11 DEF Evidenced
    <2>13. step' # "samples"
      BY <2>1 DEF Goto
    <2> QED
      BY <2>10, <2>12, <2>13 DEF Evidenced
  <1>12. CASE Kill
    <2>1. Onward
      BY <1>12, ItemsInOrder DEF Kill, Goto, Fail, Onward, Telling, Done, Stages, Steps, Lifecycle, Cleanup, Resting, Verdicts, Control, Placed, TempsCleared
    <2>2. Telling' => UNCHANGED report /\ UNCHANGED <<born, ranBinary, ranConfig>>
      BY <1>12 DEF Kill, Goto, Fail
    <2> QED
      BY <2>1, <2>2, ReportKept DEF Service
  <1>13. CASE AssertStopped
    <2>1. Onward
      BY <1>13, ItemsInOrder DEF AssertStopped, AfterStop, Goto, Fail, Onward, Telling, Done, Stages, Steps, Lifecycle, Cleanup, Resting, Verdicts, Control, Placed, TempsCleared
    <2>2. Telling' => UNCHANGED report /\ UNCHANGED <<born, ranBinary, ranConfig>>
      BY <1>13 DEF AssertStopped, AfterStop, Goto, Fail
    <2> QED
      BY <2>1, <2>2, ReportKept DEF Service
  <1>14. CASE Report
    <2>1. Onward
      BY <1>14, ItemsInOrder DEF Report, Fail, Onward, Telling, Done, Stages, Steps, Lifecycle, Cleanup, Resting, Verdicts, Control, Placed, TempsCleared
    <2>2. Telling' => UNCHANGED report /\ UNCHANGED <<born, ranBinary, ranConfig>>
      BY <1>14 DEF Report, Fail
    <2> QED
      BY <2>1, <2>2, ReportKept DEF Service
  <1>15. CASE CleanupStop
    <2>1. Onward
      BY <1>15, ItemsInOrder DEF CleanupStop, Fault, NoFault, Then, NoReport, Onward, Telling, Done, Stages, Steps, Lifecycle, Cleanup, Resting, Verdicts, Control, Placed, TempsCleared
    <2>2. Telling' => UNCHANGED report /\ UNCHANGED <<born, ranBinary, ranConfig>>
      BY <1>15 DEF CleanupStop, Fault, NoFault, Then, NoReport, Telling, Lifecycle, Cleanup
    <2> QED
      BY <2>1, <2>2, ReportKept DEF Service
  <1>16. CASE CleanupUnlink
    <2>1. Onward
      BY <1>16, ItemsInOrder DEF CleanupUnlink, Fault, NoFault, Then, Onward, Telling, Done, Stages, Steps, Lifecycle, Cleanup, Resting, Verdicts, Control, Placed, TempsCleared
    <2>2. Telling' => UNCHANGED report /\ UNCHANGED <<born, ranBinary, ranConfig>>
      BY <1>16 DEF CleanupUnlink, Fault, NoFault, Then
    <2> QED
      BY <2>1, <2>2, ReportKept DEF Service
  <1>17. CASE CleanupDirectories
    <2>1. Onward
      BY <1>17, ItemsInOrder DEF CleanupDirectories, Fault, NoFault, Then, FilesIn, Onward, Telling, Done, Stages, Steps, Lifecycle, Cleanup, Resting, Verdicts, Control, Placed, TempsCleared
    <2>2. Telling' => UNCHANGED report /\ UNCHANGED <<born, ranBinary, ranConfig>>
      BY <1>17 DEF CleanupDirectories, Fault, NoFault, Then, FilesIn
    <2> QED
      BY <2>1, <2>2, ReportKept DEF Service
  <1>18. CASE CleanupReload
    <2>1. Onward
      BY <1>18, ItemsInOrder DEF CleanupReload, Fault, NoFault, Then, Onward, Telling, Done, Stages, Steps, Lifecycle, Cleanup, Resting, Verdicts, Control, Placed, TempsCleared
    <2>2. Telling' => UNCHANGED report /\ UNCHANGED <<born, ranBinary, ranConfig>>
      BY <1>18 DEF CleanupReload, Fault, NoFault, Then
    <2> QED
      BY <2>1, <2>2, ReportKept DEF Service
  <1>19. CASE CleanupUser
    <2>1. Onward
      BY <1>19, ItemsInOrder DEF CleanupUser, Fault, NoFault, Then, Onward, Telling, Done, Stages, Steps, Lifecycle, Cleanup, Resting, Verdicts, Control, Placed, TempsCleared
    <2>2. Telling' => UNCHANGED report /\ UNCHANGED <<born, ranBinary, ranConfig>>
      BY <1>19 DEF CleanupUser, Fault, NoFault, Then
    <2> QED
      BY <2>1, <2>2, ReportKept DEF Service
  <1>20. CASE CleanupGroup
    <2>1. Onward
      BY <1>20, ItemsInOrder DEF CleanupGroup, Fault, NoFault, Then, Onward, Telling, Done, Stages, Steps, Lifecycle, Cleanup, Resting, Verdicts, Control, Placed, TempsCleared
    <2>2. Telling' => UNCHANGED report /\ UNCHANGED <<born, ranBinary, ranConfig>>
      BY <1>20 DEF CleanupGroup, Fault, NoFault, Then
    <2> QED
      BY <2>1, <2>2, ReportKept DEF Service
  <1>21. CASE RestoreBinaryParent
    <2>1. Onward
      BY <1>21, ItemsInOrder DEF RestoreBinaryParent, Fault, NoFault, Then, Onward, Telling, Done, Stages, Steps, Lifecycle, Cleanup, Resting, Verdicts, Control, Placed, TempsCleared
    <2>2. Telling' => UNCHANGED report /\ UNCHANGED <<born, ranBinary, ranConfig>>
      BY <1>21 DEF RestoreBinaryParent, Fault, NoFault, Then
    <2> QED
      BY <2>1, <2>2, ReportKept DEF Service
  <1>22. CASE VerifyCleanup
    <2>1. Onward
      BY <1>22, ItemsInOrder DEF VerifyCleanup, Fault, NoFault, Then, Onward, Telling, Done, Stages, Steps, Lifecycle, Cleanup, Resting, Verdicts, Control, Placed, TempsCleared
    <2>2. Telling' => UNCHANGED report /\ UNCHANGED <<born, ranBinary, ranConfig>>
      BY <1>22 DEF VerifyCleanup, Fault, NoFault, Then
    <2> QED
      BY <2>1, <2>2, ReportKept DEF Service
  <1>23. CASE Begin
    <2>1. Onward
      BY <1>23, ItemsInOrder DEF Begin, Onward, Telling, Done, Stages, Steps, Lifecycle, Cleanup, Resting, Verdicts, Control, Placed, TempsCleared
    <2>2. Telling' => UNCHANGED report /\ UNCHANGED <<born, ranBinary, ranConfig>>
      BY <1>23 DEF Begin
    <2> QED
      BY <2>1, <2>2, ReportKept DEF Service
  <1>24. CASE Killed
    <2>1. Onward
      BY <1>24, ItemsInOrder DEF Killed, TempsAfterFailure, Onward, Telling, Done, Stages, Steps, Lifecycle, Cleanup, Resting, Verdicts, Control, Placed, TempsCleared
    <2>2. Telling' => UNCHANGED report /\ UNCHANGED <<born, ranBinary, ranConfig>>
      BY <1>24 DEF Killed, TempsAfterFailure
    <2> QED
      BY <2>1, <2>2, ReportKept DEF Service
  <1>25. CASE Launch
    <2>1. Onward
      BY <1>25 DEF Launch, Onward, Telling, Done, Stages, Lifecycle, Cleanup
    <2>2. born + 1 \in Pids /\ born \in Nat
      BY RehearsalAssumption, <1>25 DEF Launch, Service, Pids
    <2>3. \A p \in 1..born : ranBinary'[p] = ranBinary[p] /\ ranConfig'[p] = ranConfig[p]
      BY <2>2, <1>25 DEF Launch, Service, Pids
    <2>4. UNCHANGED report /\ born' \in Nat /\ born' >= born
      BY <2>2, <1>25 DEF Launch
    <2> QED
      BY <2>1, <2>3, <2>4, ReportKept
  <1>26. CASE LaunchFails
    <2>1. Onward
      BY <1>26, ItemsInOrder DEF LaunchFails, Onward, Telling, Done, Stages, Steps, Lifecycle, Cleanup, Resting, Verdicts, Control, Placed, TempsCleared
    <2>2. Telling' => UNCHANGED report /\ UNCHANGED <<born, ranBinary, ranConfig>>
      BY <1>26 DEF LaunchFails
    <2> QED
      BY <2>1, <2>2, ReportKept DEF Service
  <1>27. CASE ProcessDies
    <2>1. Onward
      BY <1>27, ItemsInOrder DEF ProcessDies, Onward, Telling, Done, Stages, Steps, Lifecycle, Cleanup, Resting, Verdicts, Control, Placed, TempsCleared
    <2>2. Telling' => UNCHANGED report /\ UNCHANGED <<born, ranBinary, ranConfig>>
      BY <1>27 DEF ProcessDies
    <2> QED
      BY <2>1, <2>2, ReportKept DEF Service
  <1>28. CASE Emit
    <2>1. Onward
      BY <1>28, ItemsInOrder DEF Emit, Onward, Telling, Done, Stages, Steps, Lifecycle, Cleanup, Resting, Verdicts, Control, Placed, TempsCleared
    <2>2. Telling' => UNCHANGED report /\ UNCHANGED <<born, ranBinary, ranConfig>>
      BY <1>28 DEF Emit
    <2> QED
      BY <2>1, <2>2, ReportKept DEF Service
  <1>29. CASE Appears
    <2>1. Onward
      BY <1>29, ItemsInOrder DEF Appears, Onward, Telling, Done, Stages, Steps, Lifecycle, Cleanup, Resting, Verdicts, Control, Placed, TempsCleared
    <2>2. Telling' => UNCHANGED report /\ UNCHANGED <<born, ranBinary, ranConfig>>
      BY <1>29 DEF Appears
    <2> QED
      BY <2>1, <2>2, ReportKept DEF Service
  <1>30. CASE UNCHANGED vars
    <2>1. Onward
      BY <1>30, ItemsInOrder DEF vars, Onward, Telling, Done, Stages, Steps, Lifecycle, Cleanup, Resting, Verdicts, Control, Placed, TempsCleared
    <2>2. Telling' => UNCHANGED report /\ UNCHANGED <<born, ranBinary, ranConfig>>
      BY <1>30 DEF vars
    <2> QED
      BY <2>1, <2>2, ReportKept DEF Service
  <1> QED
    BY <1>1, <1>2, <1>3, <1>4, <1>5, <1>6, <1>7, <1>8, <1>9, <1>10, <1>11,
       <1>12, <1>13, <1>14, <1>15, <1>16, <1>17, <1>18, <1>19, <1>20, <1>21,
       <1>22, <1>23, <1>24, <1>25, <1>26, <1>27, <1>28, <1>29, <1>30 DEF
       Next, Script, World

\* Only the script's writes put something else in a file's place.
LEMMA OnlyWrites ==
  ASSUME [Next]_vars
  PROVE  /\ binary' = binary \/ binary' = "none" \/ WriteBinary
         /\ config' = config \/ config' = "none" \/ WriteConfig
  <1> USE DEF control, bounds, host, memory, service, journal, report
  <1>1. CASE Preflight
    BY <1>1 DEF Preflight, CapturesParent, NoReport, Goto, Fail
  <1>2. CASE NormalizeBinaryParent
    BY <1>2 DEF NormalizeBinaryParent, Goto, Fail
  <1>3. CASE InstallRuntime
    BY <1>3 DEF InstallRuntime, NextItem, TempsAfterFailure, Goto, Fail
  <1>4. CASE WriteBinary
    BY <1>4 DEF WriteBinary, Wanted, HasBackup, TempsAfterFailure, Goto, Fail
  <1>5. CASE WriteConfig
    BY <1>5 DEF WriteConfig, Wanted, HasBackup, TempsAfterFailure, Goto, Fail
  <1>6. CASE WriteBackup
    BY <1>6 DEF WriteBackup, TempsAfterFailure, Goto, Fail
  <1>7. CASE Reload
    BY <1>7 DEF Reload, Goto, Fail
  <1>8. CASE VerifyDigests
    BY <1>8 DEF VerifyDigests, Goto, Fail
  <1>9. CASE Start
    BY <1>9 DEF Start, Goto, Fail
  <1>10. CASE WaitActive
    BY <1>10 DEF WaitActive, Goto, Fail
  <1>11. CASE WaitNewObservations
    BY <1>11 DEF WaitNewObservations, FoundIn, Goto, Fail
  <1>12. CASE Kill
    BY <1>12 DEF Kill, Goto, Fail
  <1>13. CASE AssertStopped
    BY <1>13 DEF AssertStopped, AfterStop, Goto, Fail
  <1>14. CASE Report
    BY <1>14 DEF Report, Fail
  <1>15. CASE CleanupStop
    BY <1>15 DEF CleanupStop, Fault, NoFault, Then, NoReport
  <1>16. CASE CleanupUnlink
    BY <1>16 DEF CleanupUnlink, Fault, NoFault, Then
  <1>17. CASE CleanupDirectories
    BY <1>17 DEF CleanupDirectories, Fault, NoFault, Then, FilesIn
  <1>18. CASE CleanupReload
    BY <1>18 DEF CleanupReload, Fault, NoFault, Then
  <1>19. CASE CleanupUser
    BY <1>19 DEF CleanupUser, Fault, NoFault, Then
  <1>20. CASE CleanupGroup
    BY <1>20 DEF CleanupGroup, Fault, NoFault, Then
  <1>21. CASE RestoreBinaryParent
    BY <1>21 DEF RestoreBinaryParent, Fault, NoFault, Then
  <1>22. CASE VerifyCleanup
    BY <1>22 DEF VerifyCleanup, Fault, NoFault, Then
  <1>23. CASE Begin
    BY <1>23 DEF Begin
  <1>24. CASE Killed
    BY <1>24 DEF Killed, TempsAfterFailure
  <1>25. CASE Launch
    BY <1>25 DEF Launch, Launchable
  <1>26. CASE LaunchFails
    BY <1>26 DEF LaunchFails
  <1>27. CASE ProcessDies
    BY <1>27 DEF ProcessDies
  <1>28. CASE Emit
    BY <1>28 DEF Emit
  <1>29. CASE Appears
    BY <1>29 DEF Appears
  <1>30. CASE UNCHANGED vars
    BY <1>30 DEF vars
  <1> QED
    BY <1>1, <1>2, <1>3, <1>4, <1>5, <1>6, <1>7, <1>8, <1>9, <1>10, <1>11,
       <1>12, <1>13, <1>14, <1>15, <1>16, <1>17, <1>18, <1>19, <1>20, <1>21,
       <1>22, <1>23, <1>24, <1>25, <1>26, <1>27, <1>28, <1>29, <1>30 DEF
       Next, Script, World

-----------------------------------------------------------------------------
(* The inductive invariant, and the properties it implies.                 *)

IInv ==
  /\ Flags /\ Control /\ Host /\ Service
  /\ ForeignKept /\ Placed /\ Contained /\ Stopped
  /\ Homes /\ Housed /\ TempsCleared /\ Cleaned /\ Settled
  /\ Traced /\ Evidenced

\* In the beginning there is nothing of the script.
LEMMA InitIInv == Init => IInv
  <1> SUFFICES ASSUME Init
               PROVE  IInv
    OBVIOUS
  <1>1. Flags
    BY DEF Init, Flags
  <1>2. Control
    BY ItemsInOrder DEF Init, Control, Stages, Steps, Resting
  <1>3. Host
    BY DEF Init, Host, Things, Contents
  <1>4. Service
    BY RehearsalAssumption DEF Init, Service, Contents, Pids
  <1>5. ForeignKept /\ Placed /\ Contained /\ Stopped
    BY DEF Init, ForeignKept, Placed, Contained, Stopped, Resting, Lifecycle
  <1>6. Homes /\ Housed /\ TempsCleared
    BY DEF Init, Homes, Housed, TempsCleared, Lifecycle, Cleanup
  <1>7. Cleaned /\ Settled /\ Traced /\ Evidenced
    BY DEF Init, Cleaned, Settled, Traced, Evidenced, Telling, Lifecycle, Cleanup
  <1> QED
    BY <1>1, <1>2, <1>3, <1>4, <1>5, <1>6, <1>7 DEF IInv

\* Every step keeps it.
LEMMA NextIInv == IInv /\ [Next]_vars => IInv'
  BY FlagsKept, ControlKept, HostKept, ServiceKept, StaysForeign, StaysPlaced,
     StaysContained, StaysStopped, StaysHomes, StaysHoused, StaysCleared,
     StaysCleaned, StaysSettled, StaysTraced, StaysEvidenced DEF IInv

\* What holds between any two steps of the script, systemd and the journal.
THEOREM InductiveInvariant == Spec => []IInv
  BY InitIInv, NextIInv, PTL DEF Spec

\* Every variable of the rehearsal (scripts/rehearse_systemd_lifecycle.py) holds
\* a value of its type; a process number is never one of an earlier run.
THEOREM TypeCorrect == Spec => []TypeOK
  <1>1. IInv => TypeOK
    BY TypeParts DEF IInv
  <1> QED
    BY <1>1, InductiveInvariant, PTL

\* A host that already has an account or a target of the rehearsal is refused by
\* _preflight before the first change, and so never cleaned up either.
THEOREM ForeignStays == Spec => []ForeignUntouched
  <1>1. IInv => ForeignUntouched
    BY DEF IInv, ForeignKept, ForeignUntouched
  <1> QED
    BY <1>1, InductiveInvariant, PTL

\* A verdict that _verify_cleanup did not refuse is true of the host.
THEOREM VerdictsTrue == Spec => []VerdictTrue
  <1>1. IInv /\ step \in {"success", "failed"} =>
          ~Leftover /\ proc = 0 /\ parent = captured
    BY DEF IInv, Settled, Housed, Leftover, Verdicts
  <1>2. IInv /\ step \in {"success", "failed"} =>
          temps \subseteq IF step = "success" THEN {} ELSE SystemFiles
    BY DEF IInv, Settled, Host, Housed, Written, OwnFiles, TempsCleared, Cleanup
  <1>3. IInv => VerdictTrue
    BY <1>1, <1>2 DEF VerdictTrue
  <1> QED
    BY <1>3, InductiveInvariant, PTL

\* _cleanup is found wanting only when one of its steps failed.
THEOREM CleanupIsEnough == Spec => []CleanupSuffices
  <1>1. IInv => CleanupSuffices
    BY DEF IInv, Flags, Cleaned, CleanupSuffices
  <1> QED
    BY <1>1, InductiveInvariant, PTL

\* No file of a running service is replaced: _assert_stopped comes first.
THEOREM SwapsAreCold == Spec => NeverSwappedLive
  <1>1. IInv /\ [Next]_vars =>
          (Replaces(binary, binary') \/ Replaces(config, config') =>
             proc = 0 /\ svc \notin {"starting", "restarting"})
    <2> SUFFICES ASSUME IInv, [Next]_vars,
                        Replaces(binary, binary') \/ Replaces(config, config')
                 PROVE  proc = 0 /\ svc \notin {"starting", "restarting"}
      OBVIOUS
    <2>1. CASE Replaces(binary, binary')
      <3>1. WriteBinary /\ binary # "none"
        BY <2>1, OnlyWrites DEF Replaces
      <3> QED
        BY <3>1 DEF WriteBinary, IInv, Placed, Contained, Before, Stopped, Control, Stages, Lifecycle
    <2>2. CASE Replaces(config, config')
      <3>1. WriteConfig /\ config # "none"
        BY <2>2, OnlyWrites DEF Replaces
      <3> QED
        BY <3>1 DEF WriteConfig, IInv, Placed, Contained, Before, Stopped, Control, Stages, Lifecycle
    <2> QED
      BY <2>1, <2>2
  <1> QED
    BY <1>1, InductiveInvariant, PTL DEF Spec, NeverSwappedLive

\* What the report of a success says of the four processes is true.
THEOREM EvidenceIsTrue == Spec => []EvidenceTrue
  <1>1. IInv => EvidenceTrue
    <2> SUFFICES ASSUME IInv, step = "success", NEW s \in Stages
                 PROVE  /\ pidOf[s] # 0
                        /\ ranBinary[pidOf[s]] = Due(s) /\ ranConfig[pidOf[s]] = Due(s)
                        /\ sampledFrom[s] # {}
                        /\ \A p \in sampledFrom[s] : ranBinary[p] = Due(s)
                        /\ \A t \in Stages \ {s} : pidOf[t] # pidOf[s]
      BY DEF EvidenceTrue, Due
    <2>1. Telling /\ Done = Stages
      BY DEF IInv, Settled, Telling, Done, Lifecycle
    <2>2. Identified(s) /\ Sampled(s) /\ \A t \in Stages \ {s} : pidOf[t] # pidOf[s]
      BY <2>1 DEF IInv, Evidenced
    <2>3. \A p \in 1..born : ranBinary[p] = ranConfig[p]
      BY <2>1 DEF IInv, Traced
    <2> QED
      BY <2>2, <2>3, RehearsalAssumption DEF Identified, Sampled, IInv, Service
  <1> QED
    BY <1>1, InductiveInvariant, PTL

=============================================================================
