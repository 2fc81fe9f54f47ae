---------------------------- MODULE SafetyGate -----------------------------
(***************************************************************************)
(* The privileged boundary (internal/safety/gate.go) composed with the     *)
(* actuator of PVEActuator: gates of several controller processes, each    *)
(* serving several concurrent Apply calls, against a lease authority, an   *)
(* approval store and a disk that change between any two steps.            *)
(*                                                                         *)
(* One action per access Apply makes to something shared: the mutex, the   *)
(* lease authority, the approval store, the effective state, the actuator. *)
(***************************************************************************)
EXTENDS PVEActuator

CONSTANTS
  Gates,                \* gates of one storage domain; a gate is its holderID
  GateOf,               \* the gate each caller calls
  FirstHolder,          \* the gate that holds the lease at the start
  Resources,            \* resources enrolled in the gates' envelopes
  EnvelopeOf,           \* [Resources -> [min, max]]
  Approvals,            \* IDs in the approval store
  ApprovalOf,           \* [Approvals -> [resource, min, max, expires]]
  Requests,             \* requests with the expected limit of their Attempt
  Epsilon,              \* limitEpsilon in units
  LeaseTime,            \* the lease's duration in ticks
  MaxTime, MaxGeneration,  \* bounds of the clock and of the takeovers
  Nobody,               \* the holder of a free mutex
  NoAttempt             \* the attempt of a caller outside Apply

Bounds == [min : Nat \ {0}, max : Nat]
Request == [wellFormed : BOOLEAN, resource : Resources, limit : Nat, expected : Nat,
            approval : Approvals, expires : Nat]
Lease == [holder : Gates, generation : Nat, expires : Nat]
Attempt == [request : Request, lease : Lease]

ASSUME GateAssumption ==
  /\ GateOf \in [Callers -> Gates]
  /\ FirstHolder \in Gates
  /\ EnvelopeOf \in [Resources -> Bounds]
  /\ ApprovalOf \in [Approvals -> [resource : Resources, min : Nat, max : Nat, expires : Nat]]
  /\ Requests \subseteq Request
  /\ Epsilon \in Nat /\ LeaseTime \in Nat \ {0} /\ MaxTime \in Nat /\ MaxGeneration \in Nat \ {0}
  /\ Nobody \notin Callers
  /\ NoAttempt \notin Attempt

VARIABLES
  now,         \* the clock
  lease,       \* the authoritative lease
  granted,     \* each gate's own copy of the last lease it was granted
  approved,    \* approvals the store still returns
  mu,          \* each gate's mutex: the caller inside Apply
  frozen,      \* each gate's frozen resources
  pc,          \* where each caller is
  attempt,     \* each caller's Attempt
  clock,       \* the time each caller read under the mutex
  result,      \* the code of each caller's last Result
  \* History, read by no action's guard:
  outdated,    \* the caller entered with a lease or approval that was not in force
  observed,    \* the disk carried the caller's limit when the actuator finished
  unconfirmed, \* resources each gate wrote to without a confirming result yet
  fence        \* the highest lease generation that has written to the disk

gateVars == <<mu, frozen, pc, attempt, clock, result>>
worldVars == <<now, lease, granted, approved>>
history == <<outdated, observed, unconfirmed, fence>>
vars == <<disk, call, gateVars, worldVars, history>>

Steps == {"idle", "waiting", "lease", "approval", "read", "apply"}
InSection == {"lease", "approval", "read", "apply"}
Codes == {"none", "applied", "invalid_request", "lease_unavailable", "lease_conflict",
          "lease_expired", "approval_unavailable", "approval_mismatch", "approval_expired",
          "resource_frozen", "effective_read_failed", "effective_state_drift",
          "apply_failed", "readback_mismatch"}

RequestOf(c) == attempt[c].request
ResourceOf(c) == RequestOf(c).resource

-----------------------------------------------------------------------------
(* The gate's comparisons, which tolerate Epsilon.                         *)

Within(limit, bounds) ==
  limit > 0 /\ limit >= bounds.min - Epsilon /\ limit <= bounds.max + Epsilon

SameLimit(a, b) == a - b <= Epsilon /\ b - a <= Epsilon

\* validateRequest, with the identity fields summarised by wellFormed.
RequestValid(request, at) ==
  /\ request.wellFormed
  /\ request.expires > at
  /\ Within(request.limit, EnvelopeOf[request.resource])
  /\ Within(request.expected, EnvelopeOf[request.resource])

\* Mutant: only the holder is compared, not the generation and the deadline.
LeaseMatches_OwnerOnly(g, presented) ==
  lease.holder = g /\ presented.holder = g /\ lease.generation # 0

\* verifyLease, against the authority's answer.
LeaseMatches(g, presented) ==
  /\ lease.holder = g /\ lease.generation # 0
  /\ presented = lease

\* Mutant: the approval's maximum is not compared.
ApprovalCovers_NoMaximum(a, request) ==
  /\ a.resource = request.resource
  /\ 0 < a.min /\ 0 < a.max /\ a.min <= a.max
  /\ request.limit >= a.min - Epsilon

\* verifyApproval, against the store's answer.
ApprovalCovers(a, request) ==
  /\ a.resource = request.resource
  /\ 0 < a.min /\ 0 < a.max /\ a.min <= a.max
  /\ request.limit >= a.min - Epsilon /\ request.limit <= a.max + Epsilon

-----------------------------------------------------------------------------
(* History.                                                                *)

\* The attempt was already without authority when the caller got the mutex.
OutdatedOnEntry(c) ==
  \/ attempt[c].lease # lease
  \/ lease.expires <= now
  \/ RequestOf(c).approval \notin approved
  \/ ApprovalOf[RequestOf(c).approval].expires <= now

\* The disk is as the caller's result will claim: its limit, on the same device.
Carries(c, d) ==
  /\ ResourceOf(c) = BoundResource
  /\ SameLimit(d.limit, RequestOf(c).limit)
  /\ call[c].seen # NotRead => d.device = call[c].seen.device

Landed(c) ==
  /\ unconfirmed' = [unconfirmed EXCEPT ![GateOf[c]] = @ \cup {ResourceOf(c)}]
  /\ fence' = IF attempt[c].lease.generation > fence THEN attempt[c].lease.generation ELSE fence

-----------------------------------------------------------------------------
(* Leaving Apply: the deferred unlock, and the fields of Result.           *)

\* Mutant: an early return that does not unlock.
Leave_KeepsMutex(c, code) ==
  /\ pc' = [pc EXCEPT ![c] = "idle"]
  /\ result' = [result EXCEPT ![c] = code]
  /\ mu' = IF code = "resource_frozen" THEN mu ELSE [mu EXCEPT ![GateOf[c]] = Nobody]
  /\ call' = [call EXCEPT ![c] = NoCall]
  /\ attempt' = [attempt EXCEPT ![c] = NoAttempt]
  /\ clock' = [clock EXCEPT ![c] = 0]
  /\ outdated' = [outdated EXCEPT ![c] = FALSE]
  /\ observed' = [observed EXCEPT ![c] = FALSE]
  /\ UNCHANGED <<disk, worldVars, fence>>

Leave(c, code) ==
  /\ pc' = [pc EXCEPT ![c] = "idle"]
  /\ result' = [result EXCEPT ![c] = code]
  /\ mu' = [mu EXCEPT ![GateOf[c]] = Nobody]
  /\ call' = [call EXCEPT ![c] = NoCall]
  /\ attempt' = [attempt EXCEPT ![c] = NoAttempt]
  /\ clock' = [clock EXCEPT ![c] = 0]
  /\ outdated' = [outdated EXCEPT ![c] = FALSE]
  /\ observed' = [observed EXCEPT ![c] = FALSE]
  /\ UNCHANGED <<disk, worldVars, fence>>

Reject(c, code) ==
  /\ Leave(c, code)
  /\ UNCHANGED <<frozen, unconfirmed>>

\* Mutant: a failed apply is reported but the resource is not frozen.
Freeze_ForgetsApplyFailure(c, code) ==
  /\ Leave(c, code)
  /\ frozen' = IF code = "apply_failed" THEN frozen
               ELSE [frozen EXCEPT ![GateOf[c]] = @ \cup {ResourceOf(c)}]
  /\ UNCHANGED unconfirmed

Freeze(c, code) ==
  /\ Leave(c, code)
  /\ frozen' = [frozen EXCEPT ![GateOf[c]] = @ \cup {ResourceOf(c)}]
  /\ UNCHANGED unconfirmed

GoTo(c, step) ==
  /\ pc' = [pc EXCEPT ![c] = step]
  /\ UNCHANGED <<disk, worldVars, mu, frozen, attempt, clock, result, history>>

-----------------------------------------------------------------------------
(* Apply.                                                                  *)

\* A caller presents its gate's copy of the lease, which may be stale by now.
Submit(c) ==
  /\ pc[c] = "idle"
  /\ \E request \in Requests :
       attempt' = [attempt EXCEPT ![c] = [request |-> request, lease |-> granted[GateOf[c]]]]
  /\ pc' = [pc EXCEPT ![c] = "waiting"]
  /\ result' = [result EXCEPT ![c] = "none"]
  /\ UNCHANGED <<disk, call, worldVars, mu, frozen, clock, history>>

\* Mutant: the mutex is not taken.
Enter_WithoutMutex(c) ==
  /\ pc[c] = "waiting"
  /\ RequestValid(RequestOf(c), now)
  /\ mu' = [mu EXCEPT ![GateOf[c]] = c]
  /\ clock' = [clock EXCEPT ![c] = now]
  /\ pc' = [pc EXCEPT ![c] = "lease"]
  /\ outdated' = [outdated EXCEPT ![c] = OutdatedOnEntry(c)]
  /\ UNCHANGED <<disk, call, worldVars, frozen, attempt, result, observed, unconfirmed, fence>>

Enter(c) ==
  /\ pc[c] = "waiting" /\ mu[GateOf[c]] = Nobody
  /\ RequestValid(RequestOf(c), now)
  /\ mu' = [mu EXCEPT ![GateOf[c]] = c]
  /\ clock' = [clock EXCEPT ![c] = now]
  /\ pc' = [pc EXCEPT ![c] = "lease"]
  /\ outdated' = [outdated EXCEPT ![c] = OutdatedOnEntry(c)]
  /\ UNCHANGED <<disk, call, worldVars, frozen, attempt, result, observed, unconfirmed, fence>>

RejectInvalid(c) ==
  /\ pc[c] = "waiting" /\ mu[GateOf[c]] = Nobody
  /\ ~RequestValid(RequestOf(c), now)
  /\ Reject(c, "invalid_request")

RejectLease(c) ==
  /\ pc[c] = "lease"
  /\ \/ Reject(c, "lease_unavailable")
     \/ ~LeaseMatches(GateOf[c], attempt[c].lease) /\ Reject(c, "lease_conflict")
     \/ /\ LeaseMatches(GateOf[c], attempt[c].lease) /\ lease.expires <= clock[c]
        /\ Reject(c, "lease_expired")

VerifyLease(c) ==
  /\ pc[c] = "lease"
  /\ LeaseMatches(GateOf[c], attempt[c].lease)
  /\ lease.expires > clock[c]
  /\ GoTo(c, "approval")
  /\ UNCHANGED call

RejectApproval(c) ==
  LET request == RequestOf(c)
      approval == ApprovalOf[request.approval]
  IN  /\ pc[c] = "approval"
      /\ \/ Reject(c, "approval_unavailable")
         \/ /\ request.approval \in approved
            /\ \/ ~ApprovalCovers(approval, request) /\ Reject(c, "approval_mismatch")
               \/ /\ ApprovalCovers(approval, request)
                  /\ IF approval.expires <= clock[c]
                       THEN Reject(c, "approval_expired")
                       ELSE request.expires > approval.expires /\ Reject(c, "approval_mismatch")

ApprovalAccepted(c) ==
  LET request == RequestOf(c)
      approval == ApprovalOf[request.approval]
  IN  /\ request.approval \in approved
      /\ ApprovalCovers(approval, request)
      /\ approval.expires > clock[c]
      /\ request.expires <= approval.expires

\* The frozen map is read under the mutex, after the approval.
VerifyApproval(c) ==
  /\ pc[c] = "approval"
  /\ ApprovalAccepted(c)
  /\ IF ResourceOf(c) \in frozen[GateOf[c]]
       THEN Reject(c, "resource_frozen")
       ELSE GoTo(c, "read") /\ UNCHANGED call

\* Mutant: the freeze loses its code.
FreezeUnread_NoCode(c) ==
  /\ pc[c] = "read"
  /\ Freeze(c, "")

FreezeUnread(c) ==
  /\ pc[c] = "read"
  /\ Freeze(c, "effective_read_failed")

\* The effective state continues from what the caller expected.
Continues(c) ==
  /\ CanReadEffective(ResourceOf(c))
  /\ Within(disk.limit, EnvelopeOf[ResourceOf(c)])
  /\ SameLimit(disk.limit, RequestOf(c).expected)

FreezeDrifted(c) ==
  /\ pc[c] = "read"
  /\ CanReadEffective(ResourceOf(c)) /\ Within(disk.limit, EnvelopeOf[ResourceOf(c)])
  /\ ~SameLimit(disk.limit, RequestOf(c).expected)
  /\ Freeze(c, "effective_state_drift")

ReadEffective(c) ==
  /\ pc[c] = "read"
  /\ Continues(c)
  /\ GoTo(c, "apply")
  /\ BeginApply(c, RequestOf(c))

\* The actuator's own steps; one of them may write the disk.
ApplyApproved(c) ==
  /\ pc[c] = "apply"
  /\ ActuatorStep(c)
  /\ IF disk' # disk THEN Landed(c) ELSE UNCHANGED <<unconfirmed, fence>>
  /\ observed' = [observed EXCEPT ![c] = call'[c].step = "done" /\ Carries(c, disk)]
  /\ UNCHANGED <<gateVars, worldVars, outdated>>

FreezeFailed(c) ==
  /\ pc[c] = "apply" /\ call[c].step = "failed"
  /\ Freeze(c, "apply_failed")

\* Mutant: the read-back is not compared with the request.
ReadBackMatches_Anything(c) == Within(call[c].value, EnvelopeOf[ResourceOf(c)])

ReadBackMatches(c) ==
  /\ Within(call[c].value, EnvelopeOf[ResourceOf(c)])
  /\ SameLimit(call[c].value, RequestOf(c).limit)

FreezeMismatched(c) ==
  /\ pc[c] = "apply" /\ call[c].step = "done"
  /\ ~ReadBackMatches(c)
  /\ Freeze(c, "readback_mismatch")

ReportApplied(c) ==
  /\ pc[c] = "apply" /\ call[c].step = "done"
  /\ ReadBackMatches(c)
  /\ Leave(c, "applied")
  /\ unconfirmed' = [unconfirmed EXCEPT ![GateOf[c]] = @ \ {ResourceOf(c)}]
  /\ UNCHANGED frozen
-----------------------------------------------------------------------------
(* The world around the gates: code outside this repository, known only    *)
(* through LeaseVerifier, ApprovalVerifier and the comments on them.       *)

Tick ==
  /\ now < MaxTime
  /\ now' = now + 1
  /\ UNCHANGED <<disk, call, gateVars, lease, granted, approved, history>>

Grant(g, generation) ==
  /\ lease' = [holder |-> g, generation |-> generation, expires |-> now + LeaseTime]
  /\ granted' = [granted EXCEPT ![g] = lease']
  /\ UNCHANGED <<disk, call, gateVars, now, approved, history>>

Renew == lease.expires < now + LeaseTime /\ Grant(lease.holder, lease.generation)

\* A lease changes hands only after it has expired, under a new generation.
TakeOver(g) ==
  /\ lease.expires <= now /\ lease.generation < MaxGeneration
  /\ Grant(g, lease.generation + 1)

Revoke(a) ==
  /\ a \in approved
  /\ approved' = approved \ {a}
  /\ UNCHANGED <<disk, call, gateVars, now, lease, granted, history>>

EditDisk ==
  /\ ExternalChange
  /\ UNCHANGED <<gateVars, worldVars, history>>

\* The process of a gate dies and starts again: NewGate makes an empty frozen
\* map, and nothing of the calls in progress survives.
Restart(g) ==
  LET mine(c) == GateOf[c] = g
  IN  /\ mu' = [mu EXCEPT ![g] = Nobody]
      /\ frozen' = [frozen EXCEPT ![g] = {}]
      /\ unconfirmed' = [unconfirmed EXCEPT ![g] = {}]
      /\ pc' = [c \in Callers |-> IF mine(c) THEN "idle" ELSE pc[c]]
      /\ attempt' = [c \in Callers |-> IF mine(c) THEN NoAttempt ELSE attempt[c]]
      /\ clock' = [c \in Callers |-> IF mine(c) THEN 0 ELSE clock[c]]
      /\ result' = [c \in Callers |-> IF mine(c) THEN "none" ELSE result[c]]
      /\ call' = [c \in Callers |-> IF mine(c) THEN NoCall ELSE call[c]]
      /\ outdated' = [c \in Callers |-> ~mine(c) /\ outdated[c]]
      /\ observed' = [c \in Callers |-> ~mine(c) /\ observed[c]]
      /\ UNCHANGED <<disk, worldVars, fence>>
    
-----------------------------------------------------------------------------

Init ==
  /\ ActuatorInit
  /\ now = 0
  /\ lease = [holder |-> FirstHolder, generation |-> 1, expires |-> LeaseTime]
  /\ granted = [g \in Gates |-> IF g = FirstHolder THEN lease
                                ELSE [holder |-> g, generation |-> 0, expires |-> 0]]
  /\ approved = Approvals
  /\ mu = [g \in Gates |-> Nobody]
  /\ frozen = [g \in Gates |-> {}]
  /\ pc = [c \in Callers |-> "idle"]
  /\ attempt = [c \in Callers |-> NoAttempt]
  /\ clock = [c \in Callers |-> 0]
  /\ result = [c \in Callers |-> "none"]
  /\ outdated = [c \in Callers |-> FALSE]
  /\ observed = [c \in Callers |-> FALSE]
  /\ unconfirmed = [g \in Gates |-> {}]
  /\ fence = 0

\* What a caller does once it holds the mutex.
Proceed(c) ==
  \/ RejectLease(c)
  \/ VerifyLease(c)
  \/ RejectApproval(c)
  \/ VerifyApproval(c)
  \/ FreezeUnread(c)
  \/ FreezeDrifted(c)
  \/ ReadEffective(c)
  \/ ApplyApproved(c)
  \/ FreezeFailed(c)
  \/ FreezeMismatched(c)
  \/ ReportApplied(c)

Lock(c) == Enter(c) \/ RejectInvalid(c)

World ==
  \/ Tick
  \/ Renew
  \/ EditDisk
  \/ \E g \in Gates : TakeOver(g)
  \/ \E a \in Approvals : Revoke(a)
  \/ \E g \in Gates : Restart(g)

Next == World \/ \E c \in Callers : Submit(c) \/ Lock(c) \/ Proceed(c)

Spec == Init /\ [][Next]_vars

\* Every backend call is bounded by commandTimeout, so a caller inside Apply
\* proceeds; sync.Mutex hands a free lock to a waiter in the end.
FairSpec ==
  Spec /\ \A c \in Callers : WF_vars(Proceed(c)) /\ SF_vars(Lock(c))

-----------------------------------------------------------------------------
(* Properties.                                                             *)

\* Every variable holds a value of its type; a caller inside Apply has an
\* attempt.
TypeOK ==
  /\ ActuatorTypeOK
  /\ now \in 0..MaxTime
  /\ lease \in Lease
  /\ granted \in [Gates -> Lease]
  /\ approved \subseteq Approvals
  /\ mu \in [Gates -> Callers \cup {Nobody}]
  /\ frozen \in [Gates -> SUBSET Resources]
  /\ pc \in [Callers -> Steps]
  /\ attempt \in [Callers -> Attempt \cup {NoAttempt}]
  /\ \A c \in Callers : pc[c] # "idle" => attempt[c] \in Attempt
  /\ clock \in [Callers -> 0..MaxTime]
  /\ result \in [Callers -> Codes]
  /\ outdated \in [Callers -> BOOLEAN]
  /\ observed \in [Callers -> BOOLEAN]
  /\ unconfirmed \in [Gates -> SUBSET Resources]
  /\ fence \in Nat

\* Once a resource is frozen no other call of the same process is already past
\* the frozen check, and none gets past it: the freeze stops every write, also
\* of the calls that were queued before it.
FrozenExcluded ==
  \A c \in Callers : pc[c] \in {"read", "apply"} => ResourceOf(c) \notin frozen[GateOf[c]]

\* A write that reached the disk without a confirming read-back, whatever went
\* wrong after it, leaves the resource frozen by the time the mutex is free.
AmbiguousWriteFreezes ==
  \A g \in Gates : mu[g] = Nobody => unconfirmed[g] \subseteq frozen[g]

\* The step in which caller c's update changes the disk.
Writes(c) == call'[c] # call[c] /\ disk' # disk

\* A call that got the mutex with a lease that was not the authority's current
\* one, or expired, or with an approval revoked or expired, never writes.
OutdatedNeverWrites ==
  [][\A c \in Callers : Writes(c) => ~outdated[c]]_vars

\* Whatever is written is a whole byte rate, inside the binding's envelope and
\* (up to limitEpsilon) the approval's, on the resource the approval names.
WritesAreApproved ==
  [][\A c \in Callers : Writes(c) =>
       LET approval == ApprovalOf[RequestOf(c).approval]
       IN  /\ disk'.limit % Byte = 0
           /\ MinimumLimit <= disk'.limit /\ disk'.limit <= MaximumLimit
           /\ approval.resource = BoundResource
           /\ Within(disk'.limit, [min |-> approval.min, max |-> approval.max])]_vars

\* ADR 0012:36: only bps_wr changes.  An operator's concurrent edit of anything
\* else in the configuration is never undone by a write of the actuator.
OperatorEditSurvives ==
  [][disk'.device # disk.device \/ disk'.rest # disk.rest => UNCHANGED call]_vars

\* "applied" is reported only if the live disk carried the requested limit on the
\* volume and options it had before when the actuator last looked: never on the
\* word of the update alone, when somebody changed one of them right after it.
AppliedWasObserved ==
  [][\A c \in Callers : result'[c] = "applied" /\ result[c] # "applied" => observed[c]]_vars

\* Every call that waits for the mutex returns.
EveryApplyReturns ==
  \A c \in Callers : pc[c] = "waiting" ~> pc[c] = "idle"

\* ARCHITECTURE.md:219: "One authoritative lease owner and generation per storage
\* domain may apply changes; the generation is carried to the actuator as a
\* fencing token": no write of an older generation follows one of a newer.
GenerationsFenced ==
  [][\A c \in Callers : Writes(c) => attempt[c].lease.generation >= fence]_vars

\* gate.go:88: "Attempt contains the durable state that must match immediately
\* before an approved request can cross the privileged boundary": a write never
\* replaces a limit other than the one the attempt expected.
DriftNeverOverwritten ==
  [][\A c \in Callers : Writes(c) => SameLimit(disk.limit, RequestOf(c).expected)]_vars

-----------------------------------------------------------------------------
(* The inductive invariant behind the safety properties.                   *)

\* A caller is inside Apply exactly when it holds its gate's mutex.
MutexHeldInside ==
  \A c \in Callers : pc[c] \in InSection <=> mu[GateOf[c]] = c

\* A write that is not confirmed and not yet frozen belongs to the call that
\* holds the mutex.
UnconfirmedIsHeld ==
  \A g \in Gates : \A r \in unconfirmed[g] \ frozen[g] :
    \E c \in Callers :
      GateOf[c] = g /\ mu[g] = c /\ pc[c] = "apply" /\ ResourceOf(c) = r

\* Leases only move forward, and every copy is the current one or an older one.
OlderThan(a, b) ==
  a.generation < b.generation \/ (a.generation = b.generation /\ a.expires < b.expires)

CurrentOrOlder(l) == l = lease \/ OlderThan(l, lease)

ApprovalOver(c) ==
  \/ RequestOf(c).approval \notin approved
  \/ ApprovalOf[RequestOf(c).approval].expires <= clock[c]

\* What was out of force on entry still is when it is looked up.
AuthorityTracked ==
  /\ \A g \in Gates : CurrentOrOlder(granted[g])
  /\ \A c \in Callers :
       /\ pc[c] # "idle" => CurrentOrOlder(attempt[c].lease)
       /\ pc[c] = "lease" /\ outdated[c] =>
            \/ OlderThan(attempt[c].lease, lease)
            \/ attempt[c].lease.expires <= clock[c]
            \/ ApprovalOver(c)
       /\ pc[c] = "approval" /\ outdated[c] => ApprovalOver(c)
       /\ pc[c] \in {"read", "apply"} => ~outdated[c]

\* The actuator works on the request the gate approved.
CallFollowsRequest ==
  \A c \in Callers :
    /\ pc[c] # "apply" => call[c] = NoCall
    /\ pc[c] \in {"read", "apply"} =>
         ApprovalCovers(ApprovalOf[RequestOf(c).approval], RequestOf(c))
    /\ call[c].step \in {"before", "update", "readback"} =>
         Accepts(RequestOf(c)) /\ call[c].limit = RequestOf(c).limit
    /\ call[c].step = "before" => call[c].seen = NotRead
    /\ call[c].step = "done" /\ SameLimit(call[c].value, RequestOf(c).limit) => observed[c]

IInv ==
  /\ TypeOK
  /\ MutexHeldInside
  /\ FrozenExcluded
  /\ UnconfirmedIsHeld
  /\ AuthorityTracked
  /\ CallFollowsRequest

=============================================================================
