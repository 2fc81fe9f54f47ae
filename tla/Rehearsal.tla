----------------------------- MODULE Rehearsal -----------------------------
(***************************************************************************)
(* The systemd lifecycle rehearsal (scripts/rehearse_systemd_lifecycle.py): *)
(* a script that installs a service on a disposable host, starts it, kills *)
(* it, swaps its binary and configuration, restores them, and must leave   *)
(* the host as it found it whatever fails on the way.  systemd restarts    *)
(* the service on its own, the journal is read with a delay, and the       *)
(* script may be killed at any point and run again on the same host.       *)
(*                                                                         *)
(* "stage" is the part of the lifecycle, "step" where the script is in it; *)
(* steps whose names begin with c_ are _cleanup, the finally clause.       *)
(***************************************************************************)
EXTENDS Integers, Sequences

CONSTANTS
  MaxRuns,     \* bound: runs of the script on one host
  MaxFaults,   \* bound: failures of cleanup steps and crashes of the service
  MaxBorn      \* bound: service processes in one run

ASSUME RehearsalAssumption ==
  MaxRuns \in Nat /\ MaxFaults \in Nat /\ MaxBorn \in Nat

VARIABLES
  stage, step,   \* where the script is
  at,            \* index into Items while installing
  completed,     \* the lifecycle ran to its report
  runs,          \* runs begun
  faults,        \* failures that cost one of MaxFaults
  cleanupFailed, \* history: a step of this run's _cleanup failed
  present,       \* accounts, directories and files at their targets
  binary,        \* content of BINARY_TARGET
  config,        \* content of CONFIG_TARGET
  temps,         \* targets whose .rehearsal-next file exists
  parent,        \* metadata of the binary's directory
  captured,      \* what the preflight saw of it
  foreign,       \* history: what was present before the first run
  svc,           \* the unit's state
  proc,          \* its main process, 0 for none
  born,          \* service processes so far
  ranBinary,     \* binary each process was started from
  ranConfig,     \* configuration, hence domain key, of each process
  fresh,         \* processes with samples in the journal that are not known
  late,          \* processes with samples on their way to the journal
  pidOf,         \* process the report names for each stage
  sampledFrom    \* processes whose samples it counts for each stage

control == <<stage, step, at, completed>>
bounds == <<runs, faults>>
host == <<present, binary, config, temps, parent>>
memory == <<captured, foreign>>
service == <<svc, proc, born, ranBinary, ranConfig>>
journal == <<fresh, late>>
report == <<pidOf, sampledFrom>>
vars == <<control, bounds, cleanupFailed, host, memory, service, journal, report>>

Stages == {"initial", "restart", "candidate", "rollback"}
Pids == 1..MaxBorn
Contents == {"none", "baseline", "candidate"}

\* _install_runtime's groupadd, useradd, directories and files, in its order.
Items == <<"group", "user", "pveDir", "configDir", "fixtures", "backups",
           "fixture", "pvesh", "zpool", "unit">>
\* Written by _atomic_write; those in a directory of their own go with it.
SystemFiles == {"pvesh", "zpool", "unit", "binary"}
OwnFiles == {"fixture", "config", "backupBinary", "backupConfig"}
Written == SystemFiles \cup OwnFiles
Things == {"group", "user", "pveDir", "configDir", "fixtures", "backups", "fixture",
           "pvesh", "zpool", "unit", "backupBinary", "backupConfig"}

Verdicts == {"success", "failed", "dirty"}
Resting == Verdicts \cup {"off", "refused", "killed"}
Lifecycle == {"normalize", "install", "binary", "config", "backupBinary",
              "backupConfig", "reload", "verify", "start", "active", "samples",
              "kill", "stop", "report"}
Cleanup == {"c_stop", "c_unlink", "c_dirs", "c_reload", "c_user", "c_group",
            "c_parent", "c_verify"}
Steps == Resting \cup {"preflight"} \cup Lifecycle \cup Cleanup

Init ==
  /\ stage = "initial" /\ step = "off" /\ at = 1 /\ completed = FALSE
  /\ runs = 0 /\ faults = 0 /\ cleanupFailed = FALSE
  /\ present \in {{}, {"pveDir"}, {"user", "group"}}
  /\ binary = "none" /\ config = "none" /\ temps = {}
  /\ parent = "original" /\ captured = "original" /\ foreign = present
  /\ svc = "inactive" /\ proc = 0 /\ born = 0
  /\ ranBinary = [p \in Pids |-> "none"] /\ ranConfig = [p \in Pids |-> "none"]
  /\ fresh = {} /\ late = {}
  /\ pidOf = [s \in Stages |-> 0] /\ sampledFrom = [s \in Stages |-> {}]

NoReport ==
  /\ ranBinary' = [p \in Pids |-> "none"] /\ ranConfig' = [p \in Pids |-> "none"]
  /\ pidOf' = [s \in Stages |-> 0] /\ sampledFrom' = [s \in Stages |-> {}]

Goto(s, t) == stage' = s /\ step' = t
\* Any exception of the try block.
Fail == step' = "c_stop" /\ UNCHANGED stage

-----------------------------------------------------------------------------
(* Preparation and installation.                                           *)

Begin ==
  /\ step \in Resting /\ runs < MaxRuns
  /\ runs' = runs + 1
  /\ step' = "preflight"
  /\ UNCHANGED <<stage, at, completed, faults, cleanupFailed, host, memory,
                 service, journal, report>>

\* Something lies at a target, or a service identity exists.
Leftover == present # {} \/ binary # "none" \/ config # "none"

\* As a mutant: the preflight's refusal runs the finally clause as well.
PreflightInTry ==
  /\ step = "preflight"
  /\ at' = 1 /\ completed' = FALSE /\ cleanupFailed' = FALSE
  /\ captured' = parent
  /\ born' = 0
  /\ fresh' = {} /\ late' = {} /\ NoReport
  /\ UNCHANGED <<bounds, host, foreign, svc, proc>>
  /\ (~Leftover /\ Goto("initial", "normalize")) \/ Fail

\* _normalizable_binary_parent: the metadata that is put back in the end.
CapturesParent == captured' = parent

\* Refused without a change, or the directory's metadata is noted and the
\* lifecycle begins.  The journal has caught up with any earlier run.
Preflight ==
  /\ step = "preflight"
  /\ UNCHANGED <<bounds, host, foreign, svc, proc>>
  /\ \/ /\ step' = "refused"
        /\ UNCHANGED <<stage, at, completed, cleanupFailed, captured, born,
                       ranBinary, ranConfig, journal, report>>
     \/ /\ ~Leftover
        /\ Goto("initial", "normalize")
        /\ at' = 1 /\ completed' = FALSE /\ cleanupFailed' = FALSE
        /\ CapturesParent
        /\ born' = 0
        /\ fresh' = {} /\ late' = {} /\ NoReport

NormalizeBinaryParent ==
  /\ step = "normalize"
  /\ \/ parent' = "normalized" /\ Goto(stage, "install")
     \/ parent' \in {parent, "normalized"} /\ Fail
  /\ UNCHANGED <<at, completed, bounds, cleanupFailed, present, binary, config,
                 temps, memory, service, journal, report>>

\* A write that fails leaves nothing, or its temporary file, if its removal
\* failed too or the rename did; a temporary file in the way stops it.
TempsAfterFailure(f) == IF f \in Written THEN {temps, temps \cup {f}} ELSE {temps}

\* As a mutant: one item too many.
NextItemOrMore ==
  \/ at <= Len(Items) /\ at' = at + 1 /\ UNCHANGED <<stage, step>>

NextItem ==
  \/ at < Len(Items) /\ at' = at + 1 /\ UNCHANGED <<stage, step>>
  \/ at = Len(Items) /\ Goto("initial", "binary") /\ UNCHANGED at

InstallRuntime ==
  /\ step = "install"
  /\ LET item == Items[at] IN
     \/ /\ item \notin temps
        /\ present' = present \cup {item}
        /\ UNCHANGED temps
        /\ NextItem \/ (Fail /\ UNCHANGED at)
     \/ /\ temps' \in TempsAfterFailure(item)
        /\ Fail
        /\ UNCHANGED <<present, at>>
  /\ UNCHANGED <<completed, bounds, cleanupFailed, binary, config, parent,
                 memory, service, journal, report>>

\* What this stage is to run.
Wanted == IF stage = "candidate" THEN "candidate" ELSE "baseline"
\* The rollback writes what it reads from the backups.
HasBackup(f) == stage = "rollback" => f \in present

WriteBinary ==
  /\ step = "binary"
  /\ \/ /\ "binary" \notin temps /\ HasBackup("backupBinary")
        /\ binary' = Wanted
        /\ Goto(stage, "config") \/ Fail
        /\ UNCHANGED temps
     \/ /\ temps' \in TempsAfterFailure("binary")
        /\ Fail
        /\ UNCHANGED binary
  /\ UNCHANGED <<at, completed, bounds, cleanupFailed, present, config, parent,
                 memory, service, journal, report>>

WriteConfig ==
  /\ step = "config"
  /\ \/ /\ "config" \notin temps /\ HasBackup("backupConfig")
        /\ config' = Wanted
        /\ Goto(stage, IF stage = "initial" THEN "backupBinary" ELSE "verify") \/ Fail
        /\ UNCHANGED temps
     \/ /\ temps' \in TempsAfterFailure("config")
        /\ Fail
        /\ UNCHANGED config
  /\ UNCHANGED <<at, completed, bounds, cleanupFailed, present, binary, parent,
                 memory, service, journal, report>>

WriteBackup ==
  /\ step \in {"backupBinary", "backupConfig"}
  /\ \/ /\ step \notin temps
        /\ present' = present \cup {step}
        /\ Goto(stage, IF step = "backupBinary" THEN "backupConfig" ELSE "reload") \/ Fail
        /\ UNCHANGED temps
     \/ /\ temps' \in TempsAfterFailure(step)
        /\ Fail
        /\ UNCHANGED present
  /\ UNCHANGED <<at, completed, bounds, cleanupFailed, binary, config, parent,
                 memory, service, journal, report>>

\* daemon-reload, is-enabled, and every sample the journal holds becomes known.
Reload ==
  /\ step = "reload"
  /\ \/ Goto(stage, "start") /\ fresh' = {}
     \/ Fail /\ UNCHANGED fresh
  /\ UNCHANGED <<at, completed, bounds, cleanupFailed, host, memory, service,
                 late, report>>

\* The candidate's digest is checked for the binary, the rollback's for both.
VerifyDigests ==
  /\ step = "verify"
  /\ \/ /\ binary = Wanted
        /\ stage = "rollback" => config = Wanted
        /\ Goto(stage, "start")
     \/ Fail
  /\ UNCHANGED <<at, completed, bounds, cleanupFailed, host, memory, service,
                 journal, report>>

-----------------------------------------------------------------------------
(* The lifecycle.                                                          *)

\* systemctl start --no-block queues the job, which changes nothing for a unit
\* that is active; it may time out having done so.
Start ==
  /\ step = "start"
  /\ LET queued == IF svc = "active" THEN svc ELSE "starting" IN
     \/ svc' = queued /\ Goto(stage, "active")
     \/ svc' \in {svc, queued} /\ Fail
  /\ UNCHANGED <<at, completed, bounds, cleanupFailed, host, memory, proc, born,
                 ranBinary, ranConfig, journal, report>>

Previous == IF stage = "restart" THEN pidOf["initial"] ELSE 0

\* As a mutant: the polling has no deadline.
WaitActiveForEver ==
  /\ step = "active"
  /\ svc = "active" /\ proc # Previous
  /\ pidOf' = [pidOf EXCEPT ![stage] = proc]
  /\ Goto(stage, "samples")
  /\ UNCHANGED <<at, completed, bounds, cleanupFailed, host, memory, service,
                 journal, sampledFrom>>

\* Polls until the unit is active with another main process, or times out.
WaitActive ==
  /\ step = "active"
  /\ \/ /\ svc = "active" /\ proc # Previous
        /\ pidOf' = [pidOf EXCEPT ![stage] = proc]
        /\ Goto(stage, "samples")
     \/ Fail /\ UNCHANGED pidOf
  /\ UNCHANGED <<at, completed, bounds, cleanupFailed, host, memory, service,
                 journal, sampledFrom>>

\* As a mutant: the domain key of a sample is not compared.
FoundInAnyDomain == fresh

\* The processes of the unknown samples that bear this stage's domain key.
FoundIn == {p \in fresh : ranConfig[p] = Wanted}

NotReused == stage \in {"candidate", "rollback"} =>
  \A s \in Stages \ {stage} : pidOf[s] # pidOf[stage]

\* Polls the journal for samples of the domain that are not known, until there
\* are enough of them (one, or two of the first process: not told apart here)
\* or time is up; what was found becomes known.
WaitNewObservations ==
  /\ step = "samples"
  /\ \/ /\ FoundIn # {}
        /\ sampledFrom' = [sampledFrom EXCEPT ![stage] = FoundIn]
        /\ fresh' = fresh \ FoundIn
        /\ \/ NotReused
              /\ IF stage = "initial" THEN Goto("restart", "kill") ELSE Goto(stage, "stop")
           \/ ~NotReused /\ Fail
     \/ Fail /\ UNCHANGED <<sampledFrom, fresh>>
  /\ UNCHANGED <<at, completed, bounds, cleanupFailed, host, memory, service,
                 late, pidOf>>

\* os.kill fails if the process is gone.
Kill ==
  /\ step = "kill"
  /\ \/ /\ proc = pidOf["initial"]
        /\ svc' = "restarting" /\ proc' = 0
        /\ Goto(stage, "active")
     \/ Fail /\ UNCHANGED <<svc, proc>>
  /\ UNCHANGED <<at, completed, bounds, cleanupFailed, host, memory, born,
                 ranBinary, ranConfig, journal, report>>

AfterStop ==
  \/ stage = "restart" /\ Goto("candidate", "binary")
  \/ stage = "candidate" /\ Goto("rollback", "binary")
  \/ stage = "rollback" /\ Goto(stage, "report")

\* As a mutant: systemctl stop is not checked, nor the state it led to.
StopUnchecked ==
  /\ step = "stop"
  /\ AfterStop
  /\ \/ svc' = (IF svc = "failed" THEN svc ELSE "inactive") /\ proc' = 0
     \/ UNCHANGED <<svc, proc>>
  /\ UNCHANGED <<at, completed, bounds, cleanupFailed, host, memory, born,
                 ranBinary, ranConfig, journal, report>>

\* systemctl stop, and then nothing of the service may be left; a unit that
\* has failed stays so.
AssertStopped ==
  /\ step = "stop"
  /\ \/ svc # "failed" /\ AfterStop /\ svc' = "inactive" /\ proc' = 0
     \/ Fail /\ svc' = "inactive" /\ proc' = 0
     \/ Fail /\ UNCHANGED <<svc, proc>>
  /\ UNCHANGED <<at, completed, bounds, cleanupFailed, host, memory, born,
                 ranBinary, ranConfig, journal, report>>

\* is-enabled, and the result is put together; _cleanup follows all the same.
Report ==
  /\ step = "report"
  /\ Fail
  /\ completed' \in BOOLEAN
  /\ UNCHANGED <<at, bounds, cleanupFailed, host, memory, service, journal, report>>

-----------------------------------------------------------------------------
(* _cleanup: each step may fail, and the next is taken all the same.       *)

Fault ==
  /\ faults < MaxFaults
  /\ faults' = faults + 1
  /\ cleanupFailed' = TRUE
NoFault == UNCHANGED <<faults, cleanupFailed>>
Then(t) == step' = t /\ UNCHANGED <<stage, at, completed, runs>>

\* The journal is not read any more, and a result that was not completed is
\* not printed: both are forgotten here.
CleanupStop ==
  /\ step = "c_stop"
  /\ \/ svc' = (IF svc = "failed" THEN svc ELSE "inactive") /\ proc' = 0 /\ NoFault
     \/ UNCHANGED <<svc, proc>> /\ Fault
  /\ fresh' = {} /\ late' = {}
  /\ IF completed THEN UNCHANGED <<ranBinary, ranConfig, report>> ELSE NoReport
  /\ Then("c_unlink")
  /\ UNCHANGED <<host, memory, born>>

CleanupUnlink ==
  /\ step = "c_unlink"
  /\ \E kept \in SUBSET (SystemFiles \cup {"config"}) :
       /\ IF kept = {} THEN NoFault ELSE Fault
       /\ present' = present \ (SystemFiles \ kept)
       /\ binary' = IF "binary" \in kept THEN binary ELSE "none"
       /\ config' = IF "config" \in kept THEN config ELSE "none"
  /\ Then("c_dirs")
  /\ UNCHANGED <<temps, parent, memory, service, journal, report>>

FilesIn(d) ==
  IF d = "fixtures" THEN {"fixture"}
  ELSE IF d = "backups" THEN {"backupBinary", "backupConfig"}
  ELSE IF d = "configDir" THEN {"config"}
  ELSE {}

\* As a mutant: a temporary file is not among the names a directory may hold.
CleanupExactNames ==
  /\ step = "c_dirs"
  /\ \E kept \in SUBSET {"fixtures", "backups", "configDir", "pveDir"} :
       LET gone == {d \in {"fixtures", "backups", "pveDir", "configDir"} :
                      temps \cap FilesIn(d) = {} /\ (d = "configDir" => config = "none")}
           files == UNION {FilesIn(d) : d \in gone \ kept}
       IN /\ IF kept = {} THEN NoFault ELSE Fault
          /\ present' = present \ ((gone \ kept) \cup files)
          /\ temps' = temps \ files
  /\ Then("c_reload")
  /\ UNCHANGED <<binary, config, parent, memory, service, journal, report>>

\* Directories are removed with the names they may hold; the configuration
\* itself is not one of them, so its directory stays if it does.
CleanupDirectories ==
  /\ step = "c_dirs"
  /\ \E kept \in SUBSET {"fixtures", "backups", "configDir", "pveDir"} :
       LET gone == {"fixtures", "backups", "pveDir"}
                     \cup (IF config = "none" THEN {"configDir"} ELSE {})
           files == UNION {FilesIn(d) : d \in gone \ kept}
       IN /\ IF kept = {} THEN NoFault ELSE Fault
          /\ present' = present \ ((gone \ kept) \cup files)
          /\ temps' = temps \ files
  /\ Then("c_reload")
  /\ UNCHANGED <<binary, config, parent, memory, service, journal, report>>

\* A unit whose file is gone can no longer be started, on its own or otherwise.
CleanupReload ==
  /\ step = "c_reload"
  /\ \/ /\ NoFault
        /\ svc' = IF svc \in {"starting", "restarting"} /\ "unit" \notin present
                  THEN "failed" ELSE svc
     \/ Fault /\ UNCHANGED svc
  /\ Then("c_user")
  /\ UNCHANGED <<host, memory, proc, born, ranBinary, ranConfig, journal, report>>

\* userdel refuses while a process of the account runs, groupdel while the
\* account is there.
CleanupUser ==
  /\ step = "c_user"
  /\ \/ NoFault /\ present' = IF proc = 0 THEN present \ {"user"} ELSE present
     \/ Fault /\ UNCHANGED present
  /\ Then("c_group")
  /\ UNCHANGED <<binary, config, temps, parent, memory, service, journal, report>>

CleanupGroup ==
  /\ step = "c_group"
  /\ \/ NoFault /\ present' = IF "user" \in present THEN present ELSE present \ {"group"}
     \/ Fault /\ UNCHANGED present
  /\ Then("c_parent")
  /\ UNCHANGED <<binary, config, temps, parent, memory, service, journal, report>>

RestoreBinaryParent ==
  /\ step = "c_parent"
  /\ \/ NoFault /\ parent' = captured
     \/ Fault /\ UNCHANGED parent
  /\ Then("c_verify")
  /\ UNCHANGED <<present, binary, config, temps, memory, service, journal, report>>

\* As a mutant: only the files are looked for.
VerifyFilesOnly ==
  /\ step = "c_verify"
  /\ \/ /\ present \subseteq {"user", "group"} /\ binary = "none" /\ parent = captured
        /\ NoFault
        /\ Then(IF completed THEN "success" ELSE "failed")
     \/ Leftover /\ NoFault /\ Then("dirty")
  /\ UNCHANGED <<host, memory, service, journal, report>>

\* Every target and the identity are gone, systemd has forgotten the unit -
\* it may not have, when a step failed - and the directory is as it was.
VerifyCleanup ==
  /\ step = "c_verify"
  /\ \/ /\ present = {} /\ binary = "none" /\ parent = captured
        /\ NoFault
        /\ Then(IF completed THEN "success" ELSE "failed")
     \/ /\ present # {} \/ binary # "none" \/ parent # captured \/ cleanupFailed
        /\ NoFault
        /\ Then("dirty")
     \/ Fault /\ Then("dirty")
  /\ UNCHANGED <<host, memory, service, journal, report>>

\* A signal nothing catches; a write may leave its temporary file.  An
\* interrupt during _cleanup ends it the same way.
Killed ==
  /\ step \notin Resting
  /\ step' = "killed"
  /\ LET f == IF step = "install" THEN Items[at] ELSE step
     IN temps' \in TempsAfterFailure(f)
  /\ UNCHANGED <<stage, at, completed, bounds, cleanupFailed, present, binary, config,
                 parent, memory, service, journal, report>>

Script ==
  \/ Preflight \/ NormalizeBinaryParent \/ InstallRuntime
  \/ WriteBinary \/ WriteConfig \/ WriteBackup \/ Reload \/ VerifyDigests
  \/ Start \/ WaitActive \/ WaitNewObservations \/ Kill \/ AssertStopped \/ Report
  \/ CleanupStop \/ CleanupUnlink \/ CleanupDirectories \/ CleanupReload
  \/ CleanupUser \/ CleanupGroup \/ RestoreBinaryParent \/ VerifyCleanup

-----------------------------------------------------------------------------
(* systemd and the journal.                                                *)

Launchable == "user" \in present /\ binary # "none" /\ config # "none"

\* ExecStartPre and ExecStart, of whatever lies at the paths by now.
Launch ==
  /\ svc \in {"starting", "restarting"} /\ Launchable /\ born < MaxBorn
  /\ svc' = "active"
  /\ born' = born + 1 /\ proc' = born + 1
  /\ ranBinary' = [ranBinary EXCEPT ![born + 1] = binary]
  /\ ranConfig' = [ranConfig EXCEPT ![born + 1] = config]
  /\ UNCHANGED <<control, bounds, cleanupFailed, host, memory, journal, report>>

\* It cannot be started, or was too often.
LaunchFails ==
  /\ svc \in {"starting", "restarting"}
  /\ svc' = "failed"
  /\ UNCHANGED <<control, bounds, cleanupFailed, host, memory, proc, born,
                 ranBinary, ranConfig, journal, report>>

\* Restart=on-failure.
ProcessDies ==
  /\ proc # 0 /\ faults < MaxFaults
  /\ faults' = faults + 1
  /\ svc' = "restarting" /\ proc' = 0
  /\ UNCHANGED <<control, runs, cleanupFailed, host, memory, born, ranBinary,
                 ranConfig, journal, report>>

\* A sample is written; the journal shows it some time later.  Bound: one
\* sample on its way at a time.
Emit ==
  /\ step \in Lifecycle
  /\ proc # 0 /\ late = {}
  /\ late' = {proc}
  /\ UNCHANGED <<control, bounds, cleanupFailed, host, memory, service, fresh, report>>

Appears ==
  \E p \in late :
    /\ late' = late \ {p}
    /\ fresh' = fresh \cup {p}
    /\ UNCHANGED <<control, bounds, cleanupFailed, host, memory, service, report>>

World == Begin \/ Killed \/ Launch \/ LaunchFails \/ ProcessDies \/ Emit \/ Appears

Next == Script \/ World

\* The script runs on: its commands have timeouts and its loops deadlines.
Spec == Init /\ [][Next]_vars /\ WF_vars(Script)

-----------------------------------------------------------------------------
(* Properties.                                                             *)

\* Every variable holds a value of its type.
TypeOK ==
  /\ stage \in Stages /\ step \in Steps /\ at \in 1..Len(Items) /\ completed \in BOOLEAN
  /\ runs \in Nat /\ faults \in Nat /\ cleanupFailed \in BOOLEAN
  /\ present \subseteq Things /\ binary \in Contents /\ config \in Contents
  /\ temps \subseteq Written
  /\ parent \in {"original", "normalized"} /\ captured \in {"original", "normalized"}
  /\ foreign \subseteq Things
  /\ svc \in {"inactive", "starting", "active", "restarting", "failed"}
  /\ proc \in 0..born /\ born \in 0..MaxBorn
  /\ ranBinary \in [Pids -> Contents] /\ ranConfig \in [Pids -> Contents]
  /\ fresh \subseteq Pids /\ late \subseteq Pids
  /\ pidOf \in [Stages -> 0..MaxBorn] /\ sampledFrom \in [Stages -> SUBSET Pids]

\* A verdict without a complaint about the cleanup is true of the host: no
\* target, account, configuration or process is left and the directory has the
\* metadata the preflight saw.  A success leaves no temporary file either; an
\* error may, next to the files in system directories (_verify_cleanup does
\* not look for them).
VerdictTrue ==
  step \in {"success", "failed"} =>
    /\ ~Leftover /\ proc = 0 /\ parent = captured
    /\ temps \subseteq IF step = "success" THEN {} ELSE SystemFiles

\* However far the lifecycle had come, and in whichever of its writes and
\* commands it failed, _cleanup takes everything away: it is found wanting
\* only when a step of it failed.
CleanupSuffices == step = "dirty" => cleanupFailed

\* What was on the host before the first run is there for ever, and nothing is
\* put beside it: a run that meets it does not touch it, not even in its cleanup.
ForeignUntouched ==
  foreign # {} => present = foreign /\ binary = "none" /\ parent = "original"

\* The binary and the configuration are never replaced under a running
\* service: whatever the restarts, timeouts and crashes before it, a swap
\* happens with no process alive and none about to be started.
Replaces(old, new) == new # old /\ old # "none" /\ new # "none"
NeverSwappedLive ==
  [][Replaces(binary, binary') \/ Replaces(config, config') =>
       proc = 0 /\ svc \notin {"starting", "restarting"}]_vars

\* What a success claims: the processes it names ran what their stage is about,
\* the rollback's the baseline again, all four differ, and no sample of the
\* candidate was counted for a baseline stage or the other way round.  (A
\* sample counted for the restart or the rollback may come from an earlier
\* process of the same domain.)
EvidenceTrue ==
  step = "success" =>
    \A s \in Stages :
      LET content == IF s = "candidate" THEN "candidate" ELSE "baseline"
      IN /\ pidOf[s] # 0
         /\ ranBinary[pidOf[s]] = content /\ ranConfig[pidOf[s]] = content
         /\ sampledFrom[s] # {}
         /\ \A p \in sampledFrom[s] : ranBinary[p] = content
         /\ \A t \in Stages \ {s} : pidOf[t] # pidOf[s]

\* Once it has begun to change the host the script comes to a verdict, however
\* the service behaves, unless it is killed.
Ends == step = "normalize" ~> step \in Verdicts \cup {"killed"}

=============================================================================
