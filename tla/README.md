# TLA+ models and proofs of pve-storage-guard

pve-storage-guard watches the write latency of a Proxmox VE storage domain,
derives a write budget for it with an AIMD policy, divides the budget over the
enrolled disks, records every decision in a private journal before it emits the
proposal, and has an offline core that could apply an approved limit to one
disk. Beside it stand the scripts that decide whether it may be trusted on a
host - the observer validators and the systemd rehearsal - and the simulator that
compares its policy with others. This directory holds the TLA+ specifications of its core logic, the TLC
configurations that model-check them, and proofs that TLAPS checks. Paths below
are relative to the repository's root (`src/` in `PROJECT.json`).

## Inventory

| Component | State it keeps | Operations | What makes it correct |
|---|---|---|---|
| AIMD policy (`internal/policy/aimd.go`) | budget, healthy and breach counters, time of the last change | `NewController`, `RestoreController`, `State`, `Observe` | a budget rises only after a full window of calm samples and the cooldown, falls only for a reason, never leaves its bounds; its saved state always restores; pressure that lasts wins |
| Allocator (`internal/allocator/allocator.go`) | none between calls; a loop over disks with room | `Allocate` | envelopes hold, the budget is used exactly, shares follow the weights, the loop ends |
| Shadow controller (`internal/controller/shadow.go`) | the policy controller | `NewShadow`, `Process` | every accepted observation gives one proposal that never allows actuation |
| Decision journal (`internal/telemetry/journal.go`) | an open, locked file | `OpenJournal`, `Append`, `Close` | durable before emitted, one writer, complete lines |
| Sealed reader (`internal/telemetry/verify.go`) | none | `VerifyJournal`, `ReadVerifiedJournalBatch` | what it reports is the file as sealed; pages belong to the approved content |
| Decision events (`internal/telemetry/decision.go`) | none | `NewShadowDecisionEvent`, validation | derived data agrees with the proposal |
| Safety gate (`internal/safety/gate.go`) | mutex, frozen resources | `NewGate`, `Apply` | no write without lease, approval and continuity; ambiguity freezes; every call returns |
| PVE actuator (`internal/actuator/pve`) | none; the VM configuration is outside | `ReadEffective`, `ApplyApproved`, the local `pvesh` backend | only `bps_wr` changes, under the configuration's digest, with a read-back |
| Observation adapter (`internal/adapter/pve`) | none | `Observe`, `Inventory`, parsers, the bounded runner | a partial failure is never reported as a healthy sample |
| Canary preflight (`internal/adapter/pve/canary_preflight.go`) | none | `Assess` | mutation-free; eligible only when every check passed |
| Configuration (`internal/config/documents.go`) | none | strict readers and validators | what is accepted satisfies what the core assumes |
| Command line (`cmd/pve-storage-guard/main.go`) | the open journal | `shadow`, `journal verify`, `journal batch`, `agent observe/watch`, preflight | first error ends the process; order of append and emit |
| systemd unit (`deploy/systemd`) | restart counters of systemd | restart on failure, with a start limit | an outage does not restart for ever |
| Lifecycle rehearsal (`scripts/rehearse_systemd_lifecycle.py`) | files, accounts and a unit on a host; the samples it knows | preflight, install, start, kill and restart, swap to a candidate, roll back, report, cleanup | the host is as before, whatever step failed; a foreign host is not touched; the evidence it prints is true |
| Observer validators (`scripts/validate_nonprod_observer.py`, `scripts/validate_prod_observer_compatibility.py`) | a child, its two pipes, what was read of them | check the binary, launch it four times, read under a deadline, judge, terminate | no child left behind; nothing that was written escapes judgement; only the approved binary runs; a verdict is given |
| Simulator (`poc/simulate.py`, `poc/storage_control.py`) | a controller and a window of waits | one simulated second; a controller's `observe` | overload ends; a counterfactual is never worse than the captured incident |
| Converters, contracts and evidence tools (`poc/`, rest) | none | offline files | reproducible results |

How they interact. `runShadow` reads an observation from stdin, calls
`Shadow.Process` (which calls `Controller.Observe` and then `Allocate`), builds
the decision event, appends it to the journal and writes the proposal to stdout;
any error ends the process. `journal verify` and `journal batch` are other
processes that meet the writer through advisory locks on the file and through
the directory entries an operator renames. `Gate.Apply` serialises its callers
with a mutex, asks a lease authority and an approval store it does not own, and
calls the actuator, which shares the VM's configuration with every other tool
that edits it. The agent's collections reach the shadow process as lines. The
validators launch the agent's binary as a child and talk to it through two pipes
and signals; the rehearsal talks to systemd, which restarts the service on its
own, and reads its samples from the system's journal, which is late. The
simulator passes the pool's waits to the controllers, and the controllers' budgets
to the pool.

Hard behaviours: goroutines queued on the gate's mutex; authority and disk that
change between two remote calls; updates that land although they failed; crash
and restart with state that is, or is not, persisted; torn writes and power
failures; renames between open, lock and read; a cooldown that holds triggers
back; rounding after clamping; children that fork, flood, hang or close their
pipes; a binary replaced between its check and its launch; a cleanup that runs
after a failure anywhere, fails itself, or is killed and run again. `PROJECT.json` lists each hazard at its line with
the properties that cover it, or why none does yet.

## Modules

| Module | Models | Run by |
|---|---|---|
| `AIMD` | the policy controller, its owner's saves, crashes and restarts | `MCAIMD` |
| `AIMDProofs` | theorems about `AIMD` | TLAPS |
| `PVEActuator` | `ReadEffective`, `ApplyApproved` and the backend, over one disk | (in `SafetyGate`) |
| `SafetyGate` | gates, callers, lease authority, approval store; EXTENDS `PVEActuator` | `MCSafetyGate` |
| `SafetyGateProofs` | theorems about the composition | TLAPS |
| `Allocator` | `Allocate`, one action per round | `MCAllocator` |
| `FiniteSums` | no code: lemmas about sums over finite sets, and induction over sets | TLAPS |
| `AllocatorProofs` | theorems about `Allocator` | TLAPS |
| `DecisionLog` | abstract: durable before emitted, durable for ever | (in `Journal`) |
| `Journal` | shadow processes, the sealed reader, the operator, power failures; implements `DecisionLog` | `MCJournal` |
| `JournalProofs` | theorems about `Journal`, its refinement of `DecisionLog` among them | TLAPS |
| `Observer` | the validators, the launched program, the pipes, the deadline | (itself) |
| `ObserverProofs` | theorems about `Observer` | TLAPS |
| `Rehearsal` | the rehearsal script, systemd, the service, the journal's delay, kills and reruns | (itself) |
| `RehearsalProofs` | theorems about `Rehearsal` | TLAPS |
| `Pool` | the simulator's closed loop with its three controllers and pool model | `MCPool` |
| `PoolProofs` | theorems about `Pool` | TLAPS |

### AIMD

`state` is the code's `State`; `LastChangeAt` is kept as `age`, the ticks since
the change, capped at `Cooldown` (a zero time counts as elapsed, as in
`decide`). `ObserveAny` takes any sample; its disjuncts `HoldUnusable`,
`DropToMinimum`, `ManagementDecrease`, `ObserveBreach`, `ObserveCalm` and
`HoldBetween` are the returns of `Observe` in their order, each ending in
`Decide`. Budgets are integers; `Grain` units are 0.000001 MiB/s, so that
rounding after clamping is visible. A product with the decrease factor stays a
numerator over `DecDen` until it is rounded. `Save`, `Crash` and `Restart` are
the owner's: the copy may be older than the state, and a controller that was never
saved starts from `FreshState`. decide clamps first and rounds then, so with a bound
off the grid the budgets it settles on end at `Lowest` and `Highest`, the rounded
bounds, and not at the bounds themselves; `Budgets` is these and the initial budget,
which is held unrounded until the first sample.

`streak`, `quiet`, `savedStreak` and `savedQuiet` are history: they count calm and
breaching samples and the real time since a change without reading the code's
counters. A restart goes back to the copy, and the history with it: a change made
after the last copy was taken is forgotten with its cooldown, because
`LastChangeAt` is read from the copy (`aimd.go:168`). `IncreaseIsEarned` and
`DecreaseIsEarned` speak of the changes that led to the budget in force, in this run
or in the one the copy came from.

`State()` and `RestoreController` have no caller in the repository besides tests;
the model takes them as the API they offer. `runShadow` uses neither, so a
restart of it is `FreshState`.

### SafetyGate and PVEActuator

One action per access `Apply` makes to something shared. `Enter` is the lock, the
single reading of the clock and `validateRequest`; `VerifyLease` and
`VerifyApproval` are the two lookups (with the frozen check under the same mutex
after the second); `ReadEffective` is the first read of the disk;
`ApplyApproved` runs the actuator's own steps (`ReadBefore`, `UpdateSucceeds`,
`UpdateLandsUnreported`, `UpdateFails`, `ReadBack`, ...); `ReportApplied`,
`FreezeMismatched` and `FreezeFailed` end the call. Between any two of them the
clock ticks, the lease is renewed, expires or changes hands, an approval is
revoked, the disk is edited, or the process restarts with an empty frozen map.
The VM's configuration has three parts: the disk's limit, its `device` (the volume and
the unmanaged options of the disk's own value) and the `rest` (tags, boot order,
lock, every other key). The digest of a configuration is compared by comparing
configurations, all three parts; the update replaces the disk's value and so the
first two; and the read-back compares the device alone (`actuator.go:136`) - an edit
of the rest after the update does not stop the call from being reported as
applied, unless `parseQEMUState` refuses what it finds. Limits are in units of half a byte per
second, so that the gate's tolerance of 1e-6 MiB/s (about one byte per second),
the actuator's exact bounds and its whole-byte rule are three different
things, as in the code. Identity fields are one flag, `wellFormed`.

### Allocator

`Round` is one pass of the loop. All amounts are numerators over a common
denominator that grows by the round's total weight, so the model is exact where
the code uses floats; the thresholds `1e-9` and `1e-12`, there to absorb float
error, become comparisons with zero. `Finish` rounds disk by disk.

### Journal

A file is the sequence of writes made to it: whole lines, lines that lack only
the newline, and fragments. `path` maps three names to inodes - the live
journal, the sealed one, and the one kept after it was read - so a rename
leaves open descriptors behind. Renaming is the site's own procedure
(`docs/ITOPS-INTEGRATION.md:119`), taken not to write over a journal: a rename that did
would take durable events away, and `RefinesLog` counts only files that have a name. A writer opens (`Create`, `OpenExisting`), then
locks, then appends, syncs and emits; the checks between `Lstat` and `open` that
only compare what was inspected with what was opened are one step, because a
success implies both at once. `Stop` is any error, the end of the input, or a
signal. The reader opens, locks and scans, then compares and reports. A power
failure keeps what was synced and any prefix of the rest, with a possible
fragment. A batch asks for between one and `PageLimit` events. The size limit counts writes, an event is an ID and a domain, digests
do not collide, and directory entries survive power failures.

A writer's `clean` is history: whether its file ended with a whole line when it
took the lock. A process that started clean keeps writing lines of its own
(`CleanSessionRecords`, which is what the exclusive lock is for); one that did
not is the violation of `journal_torn`.

`Journal` implements `DecisionLog` (`RefinesLog`): what is `recorded` is the set
of events in the synced part of the files that have a name, and an `Emit` is possible only for a
recorded event.

### Observer

`pc` is where the script is and `phase` which of its four launches; the three
one-shot commands go through `_bounded_pipes` (`read`), the watch through
`_read_watch_records` (`watch`) and its draining loop (`drain`). One action is one
call: a `select` that times out, reports streams or reports none; one `os.read`
of one ready stream; the consumption of the first buffered line; the signal; the
wait. `os.read` blocks, so a read is enabled only when its pipe has data or no
writer. The child may print, write to stderr, fork a helper into its group, close
its pipes and exit with either status at any moment; `DeadlinePasses` is the
monotonic clock. A line is `good` or `bad` - decoding, the privacy search and the
phase's validation are one judgement together; of the version's output only the form
is asked, and it is not searched for private names - and `MAX_OUTPUT_BYTES` counts lines.
`file` is what the binary's path names; it is checked and later executed by name.
SIGKILL to the group is assumed to end the child within the two seconds
`_kill_group` waits for it, and a helper does not leave the process group.

`Popen` and the clause that kills its child are two steps: `Spawn` ends with the child
running and the script at `spawned`, where the selector is made and the deadline
set; `Guard` is the end of that window, and Ctrl-C or an error inside it leaves the
child, also the watch, to itself. Ctrl-C in `_bounded_pipes` does so as well.
`NoChildLeft` excepts these two and nothing else.

`Root`, `Production` and `AllowRoot` select the variant: the production one differs
in `RootPolicy` alone. `raced`, `wroteBad` and `endedEarly` are history.

### Rehearsal

`stage` and `step` are the script's place, one action per command, write or poll
with its success and its failures; every failure of the `try` block leads to
`c_stop`, the first step of `_cleanup`. The host is a set of things `present`, the
contents of the binary's and the configuration's targets, the temporary files of
`_atomic_write` that were left, and the metadata of the binary's directory.
systemd is `svc` and `proc`: a queued start is carried out, fails or waits; a
service process dies and is restarted; its samples are written and appear in the
journal later. `Killed` is a signal no handler catches (and an interrupt during
the cleanup); `Begin` runs the script again on what is left.

What the code does and a reader may not expect, kept in the model:
`_verify_cleanup` looks for targets and accounts and not for temporary files, so
those in system directories survive a failed run and stop the next one; systemd's
view of the unit is only asked for its load state, never for a running process;
samples counted for the restart or the rollback may come from an earlier process
of the same domain, because they are told apart by domain key and by not being
known; a run killed between the normalization of the binary's directory and the
first write leaves a host whose original metadata nobody knows. Between
`_preflight` and the first write nothing else changes the host in the model.

### Pool

One action is one simulated second, by the three ways it can end: severe (the
controllers hear of it at once and the window is dropped), last of its control
interval (they hear the p95 of the window), or neither. `WaitOf` is the pool
model, in exact fractions; the captured wait scales a second of the incident only
where the incident has a cost (`IncidentCosts`: an overload and a slope); `P95` is `statistics.quantiles` with its inclusive
interpolation, over `Ranked`, which names the k-th sorted value without sorting;
`RoundHalfEven` is the rounding of `storage_control.py`. The trace
is any sequence of `Samples`, chosen second by second. `severeRun`, `unsafeRun`
and `sinceSevere` are history.

## Runs

| Run | Question | Bounds |
|---|---|---|
| `aimd` | windows, cooldown, restore, and both liveness properties | thresholds 2 < 4 < 6, bounds 5..16 around an initial 9 on a grid of 3 (both bounds off it, rounding inward to 6 and 15), windows 3 and 2, cooldown 2 ticks, samples on and beside every threshold with every flag |
| `gate_mutex` | two callers of one gate: freezes, ambiguity, read-back, every call returns | three requests, two resources of which the actuator serves one, two devices, a rest that the parser refuses; time stands still (126,592 states) |
| `gate_lease` | two gates: expiry, takeover, revocation, edits | two generations, one tick, seven requests (one that only the tolerance admits, one beyond it, one that is no whole byte rate), two devices (1,623,192 states) |
| `gate_fencing` | violated: no older generation writes after a newer | as `gate_lease` |
| `gate_drift` | violated: a write replaces only the expected limit | as `gate_lease`, three limits |
| `allocator` | envelopes, total, fairness, rounds | three disks, six envelopes each (fixed, empty, off the grid, three weights), budgets 0..20 |
| `journal` | locks, durability, import | two writers of two domains, two usable files and one unsafe, two events, two writes per file, pages of one or two events, three names, two interferences of the world (956,643 states) |
| `journal_torn` | violated: every emitted event is a line | one writer, two events, no interference at all |
| `observer` | children, judgement, the approved binary, a verdict | three lines per launch, of which two fit, two replacements, run as root in the production variant, every behaviour of the child (847,343 states) |
| `observer_sigterm` | violated: the watch was running when SIGTERM was sent | as `observer` |
| `rehearsal` | cleanup, verdicts, foreign hosts, evidence, cold swaps, an end | two runs of the script, one failing cleanup step or crash of the service, five service processes, three kinds of host |
| `pool` | overload ends, no counterfactual beats the capture, raises are earned | four pools (one without a slope), three controllers, eight sorts of seconds, intervals of three seconds, windows of two, a cooldown of seven seconds |

The bounds are small and chosen so that the interesting case happens: windows of
three and two with a cooldown of two ticks make a trigger fall inside and outside
the cooldown; one tick is enough for a lease of length one to expire under a
call that has verified it, and two generations for the old holder to meet the
new; three disks with different weights saturate in different rounds; two
interferences of the world are a rotation and something else; three lines are the
two records of the watch and one that follows them, and one line more than may
be buffered; two replacements are another binary and the approved one put back;
two runs of the rehearsal are one that leaves something and one that meets it; a
cooldown of seven seconds is no multiple of a control interval of three, so
windows end inside and outside it. The safety properties of `rehearsal` were also
checked with two faults (2.7 million states). Every passing property has a mutant
in `PROJECT.json`: a plausible bug in one mapped definition that makes TLC report
it.

`CHECK_DEADLOCK FALSE` is set where the system may stop: `allocator`, whose call
ends; the journal, whose processes can stop for good (the path names an unsafe
file, or the journal is full); the validators, which end with their verdict; the
rehearsal, when the last run has ended. `journal` uses the symmetry of the two
usable files; its properties are all safety properties.

### Fairness

`AIMD!FairSpec` assumes that samples keep coming while the process is up (the
agent samples on a period) and that time passes. `Save`, `Crash` and `Restart`
get no fairness. Both liveness properties have a premise of their own: from some
time on the process is up and samples are pressured (or calm).
`SafetyGate!FairSpec` assumes that a caller inside `Apply` proceeds, because
every backend call runs under `commandTimeout`, and strong fairness of getting
the lock, because `sync.Mutex` hands a free mutex to a starving waiter. The lease
authority and the approval store are assumed to answer.

`Observer!Spec` assumes that the script runs on and that its deadline passes. Nothing is
assumed of the child, which may hang, nor of what it leaves behind: the loops read
with a blocking `os.read`, and once the leader has gone they read every registered
pipe, ready or not, so a helper that holds the pipes for ever holds the validator
past any deadline. `Finishes` says that this is the only way not to end: either the
script ends, or from some time on it is `Blocked` in that read. `Rehearsal!Spec` assumes
only that the script runs on, because each of its commands has a timeout and each
of its polling loops a deadline, and that is how `Ends` survives a service that
never comes up.

## What disagrees with the documentation

Four runs end in a violation, each of a sentence the repository says about itself;
`PROJECT.json` quotes them under `findings`. In short: the lease generation reaches
the actuator but fences nothing; a limit changed between the gate's read and the
actuator's is overwritten; after a torn write the journal accepts an event it does
not hold as a line; a watch that ends by itself with status 0 after its second
record is reported as stopped by SIGTERM.

Others have no run of their own. `docs/POLICY-DESIGN.md:113` exempts only the
emergency from the cooldown, but an unhealthy management plane also decreases the
budget inside it (`aimd.go:137`; `DecreaseIsEarned` allows for it). The comment at
`aimd.go:121` says that untrusted input never increases the budget; a configured
budget off the rounding grid is rounded, possibly up, by the first sample of any
kind (`aimd.go:167`). `UntrustedInputNeverIncreases` is therefore a theorem for
an initial budget on the grid only. With a minimum that rounds down or a maximum that
rounds up, decide settles half a grain outside the policy, and the copy `State`
returns - "suitable for durable persistence", `aimd.go:118` - is one
`RestoreController` refuses; `DurableStateRestorable` holds where the bounds round
inward (`BoundsRoundInward`). The allocator rounds each result by itself
(`allocator.go:91`), so a disk saturated at a maximum off the grid may get half a
grain more than it, although `allocator.go:26` says "never exceeds maxima" and
`docs/POLICY-DESIGN.md:133` that no proposal exceeds hard bounds;
`EnvelopesRespected` is exact for bounds on the grid and allows that half otherwise.
`docs/PVE-AGENT.md:117-118` promises "bounded output and time"; a helper that outlives
its launch and keeps a pipe open makes the validator wait for as long as it does
(`validate_nonprod_observer.py:334`, the exception of `Finishes`).

## Proofs

`tlapm` checks every theorem of the seven proof modules and of `FiniteSums` for all
values of the constants that satisfy the named assumptions. Between them they
state every safety property of the passing runs, and one that no run checks
(`UntrustedInputNeverIncreases`).

**AIMD.** Assumptions: `PolicyAssumption` (what `PoolPolicy.Validate` accepts) and
`ModelAssumption`. The invariant and `TypeOK` need no more: for every policy the
budget is the initial one or lies between the rounded bounds. `AlwaysRestorable`
has the hypothesis `BoundsRoundInward`, which bounds on the grid satisfy
(`GridBoundsRoundInward`) and without which it is false; the three theorems about steps
have `InitialOnGrid`, because an initial budget off the grid moves on the first hold.
The inductive invariant `IInv` adds to the type invariant that both counters pass
what `RestoreController` asks of them (`CountersAlwaysRestorable`), that every budget
but the initial one is on the grid (`BudgetsSettled`, so that rounding a held budget
changes nothing), that the code's counters never run ahead of the samples really seen
in a row (`CountersBackedBySamples`, also for the saved copy, which is what makes a
restart harmless), and that the code never believes more of the cooldown has passed
than has (`CooldownNotOverstated`, for the state and for the copy). The lemmas about
rounding and clamping come first - rounding is monotone, which puts every decision
between `Lowest` and `Highest` - then one step per branch of `Observe`. From `IInv`
follow `TypeOK`, `DurableStateRestorable`, `IncreaseIsEarned`, `DecreaseIsEarned` and
`UntrustedInputNeverIncreases`.

**SafetyGate.** Assumptions: `ActuatorAssumption`, `GateAssumption`; any sets of
gates, callers, resources, requests and approvals. `IInv` adds: a caller is
inside `Apply` exactly when it holds its gate's mutex (`MutexHeldInside`); a write
that is neither confirmed nor frozen belongs to the caller holding the mutex
(`UnconfirmedIsHeld`); leases move forward, and what was out of force when a
caller entered still is when it is looked up (`AuthorityTracked`); the actuator
works on the request the gate approved, and what it has seen (`CallFollowsRequest`).
From it: `FrozenExcluded`, `AmbiguousWriteFreezes`, `OutdatedNeverWrites`,
`WritesAreApproved`, `OperatorEditSurvives`, `AppliedWasObserved`.

**Observer.** Assumption: `ObserverAssumption`; any `MaxLines`, `MaxOutput` and
`MaxSwaps`, either variant. `IInv` adds: a child exists exactly while it is
supervised, and has its pipes open only while it is alive (`ChildKept`); a binary
other than the approved one came after the check (`Checked`); a stream that is no
longer registered has no data and no writer (`Drained`); every line written since
the launch is a record, in the buffer or in the pipe (`Accounted`); and whatever
was objectionable is still in one of the last two, where it will be judged
(`Pending`). From it: `TypeOK`, `AllOutputJudged`, `LaunchedAsApproved`, and the action
property `NoChildLeft`, one action at a time: the only interrupts that leave a child
are those of `Guard` and of Ctrl-C at `spawned` and `read` (`InterruptedHow`).

**Rehearsal.** Assumption: `RehearsalAssumption`; any number of runs, failing
cleanup steps, crashes and service processes. `IInv` is a conjunction of small
facts, each kept by every action: the stage a step belongs to (`Placed`); what lies
at the targets there (`Contained`); that nothing runs or is about to between a
checked stop and the next start (`Stopped`); that directories precede and outlive
what lies in them (`Homes`, `Housed`), which is what makes an absence of
directories and accounts, all `_verify_cleanup` looks at, an absence of
configuration, files and processes too; which temporary files may be left
(`TempsCleared`); what each cleanup step that did not fail leaves to the next
(`Cleaned`); and for the report, that a process runs what its stage is about
(`Traced`) and that each stage done has a process and samples of its own
(`Evidenced`, whose frame is the lemma `ReportKept`). The type invariant itself
needs `Housed`: process numbers start anew with each run, and only a run whose
preflight met no account has no process of an earlier one. From it: `TypeOK`,
`ForeignUntouched`, `VerdictTrue`, `CleanupSuffices`, `NeverSwappedLive`,
`EvidenceTrue`.

**Allocator.** Assumption: `AllocatorAssumption`; any finite set of disks, any
envelopes with `min <= max`, any budgets, any rounding step. `IInv` adds to the
type invariant and `EnvelopesRespected`: what was given and what is left add up to
the budget (`Conserved`); a disk only leaves the rounds when it is full
(`LeftOutIsFull`); the loop never owes anything (`NotOverdrawn`); the fairness of
`SharesByWeight` holds from the start of the call (`FairSoFar`); and while anything is
left, the rounds taken and the disks still open are together no more than the
disks (`RoundsPaidFor`), because a round that fills nobody hands out all it has. The
sums are the community modules' `SumFunction`, which is a fold and so recursive.
The prover cannot use the library's induction theorems, which take a predicate;
`FiniteSums` restates induction for a *set* of numbers (`Induction`) or a *family* of
sets (`SubsetInduction`), proves that a sum exists and is unique, and from that what
a sum does when an element, a constant, a factor or another function is added.
`BudgetUsedExactly` is then the conservation law and the bound on each disk's
rounding, summed. From `IInv`: `TypeOK`, `EnvelopesRespected`, `BudgetUsedExactly`,
`SharesByWeight`, `RoundsBounded`.

**Journal.** Assumption: `JournalAssumption`; any writers, files and events, any page
length and size limit, any number of interferences. `IInv` adds: the locks exclude a
second writer, and a writer while the file is read (`Exclusive`); between its write
and the end of its round a process holds an event that lies in its file, and within
the synced part once it has synced (`EventsHeld`, `WrittenIsThere`); and what a
process that found its file clean knows of the file's end at each step
(`CleanFiles`). It is kept although the path may name another file by then, since
locks go with the inode a descriptor holds. The lemmas named `...Effect` say once
what a helper changes (`Becomes`, a lock, an append, a power failure, a program that
takes no lock); those named `Others...` say that a writer's step disturbs no other
writer, which is where `Exclusive` is used. From it: `TypeOK`, `CleanSessionRecords`,
`ImportedIsApproved` and the action property `SealedWhileRead`.

*The refinement.* `JournalRefinesLog` proves `Spec => RefinesLog`: `recorded` of
`DecisionLog` is `Recorded`, the events in the synced part of the files with a name. Initially
nothing is. A step that syncs is a `Record`, possibly of several events; an `Emit` is
one because `WrittenIsThere` puts the event in the synced part
(`EmittedWasRecorded`); everything else must leave `Recorded` as it is or add to it,
and `DurableStays` shows for a power failure and for a foreign write that what was
synced survives both (`RecordedGrows`). A second invariant, `Found`, keeps the names:
every file that was ever used has one, because `openJournal` creates only where the
path is free and no rename writes over a journal, and only such files hold anything
or are open.

**Pool.** Assumption: `PoolAssumption`; any policy its validation accepts with
its budgets on the rounding grid and a rational factor, any pools (of any slope) with a
base wait no higher than the healthy threshold, any trace. `IInv` adds to the type invariant and `NeverWorseThanCaptured`: after a severe second the minimum could
have avoided, an adaptive controller's budget is the minimum (`SevereIsCut`, from
`UnsafeNeedsMore`: at the minimum such a second is not even unsafe); and the healthy
windows counted have passed since the last severe second (`CalmSince`). From it:
`TypeOK`, `NeverWorseThanCaptured` and `RaiseIsEarned`.

`OverloadEnds` needs two more. `WindowRemembers` says that the last seconds of the
window are those of the unsafe run, so that a window inside the run has a p95 above
the target (`RankedIsAValue`, `P95Above`). `Progress` is the measure: above the
minimum, the run has lasted no longer than a cut interval, the decreases already
made, and the series of breach windows the cooldown has held back since
(`Underway`). `Decreases`, the number of decreases from a budget to the minimum,
is a recursive function; that it exists, and grows with the budget, is proved by
induction over a set (`CountExists`, `DecreasesMonotone`). The theorem has a
hypothesis, `EveryDecreaseLowers`: a decrease above the minimum is not undone by
rounding. The policy's validation does not ask for it: a factor of 0.9 and a budget of
four rounding steps give the same budget again, and it would never fall. The
step is 0.000001 MiB/s, so any policy in use satisfies it; TLC evaluates it for the
instance (`InstanceAssumption` in `MCPool`).

TLC checked every inductive invariant on the instance of its run before it was proved.

Only model-checked: the liveness properties (`OverloadReachesMinimum`,
`CalmReachesMaximum`, `EveryApplyReturns`, `Finishes`, `Ends`), which are beyond the
prover; and the four violations, which are facts about one behaviour each.

## Not modelled, and the plan

Not modelled at all: the grammar of a QEMU disk value, JSON decoding and field
validation (their outcome is a guard), hashing, identity fields, the sandboxing
options of the unit, the website, the publication privacy scan, and of `poc/` the
parameter search, the ranking, the reports, the Python allocator and the converters
and contracts of traces, which read one file and write another without state to
interleave.

Hazards seen and left without a property: a wall clock that steps back makes the
age of the last change negative and every change but the bypassing ones wait
(`aimd.go:168`); `runShadow` never persists `State`, so its restart begins again at
the initial budget (`main.go:317`); an observation marked invalid with a
negative wait is a hold to the controller, but `NewShadowDecisionEvent` refuses it,
so with a journal the process ends (`decision.go:31`); a `pvesh` killed with its context may complete
as an orphan (`local_backend.go:106`, in the model an update that lands
unreported); the directory entry of a new journal is not synced (`journal.go:53`);
the watch loop ends on the first failed collection and systemd restarts it a
limited number of times (`main.go:202`); a collection that outlives its deadline
holds its pipe until `WaitDelay` (`runner.go:69`); and the metadata lost by a kill
right after its normalization (`rehearse_systemd_lifecycle.py:212`).

Next, in this order:

1. `Shadow`: `Process` as the composition of `AIMD`, the allocation and the
   journal, with staleness by age and repeated observations. Abstract
   specification: one proposal per accepted observation, in order, each matching
   its event.
2. `Agent`: `Observe` with its bounded commands and partial failures, the watch
   loop, the unit's restart limit. A failed part is never a healthy sample.
3. `Preflight`: the canary assessment against what the actuator later accepts.
