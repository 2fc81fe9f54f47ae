-------------------------- MODULE SafetyGateProofs --------------------------
(***************************************************************************)
(* Proofs about SafetyGate, for any number of gates, callers, resources,   *)
(* requests and generations.  Each conjunct of IInv is shown inductive in  *)
(* a lemma of its own, relative to the conjuncts before it.                *)
(***************************************************************************)
EXTENDS SafetyGate, TLAPS

-----------------------------------------------------------------------------
(* Types.                                                                  *)

\* The parts of an attempt that the actions read.
LEMMA AttemptParts ==
  ASSUME TypeOK, NEW c \in Callers, pc[c] # "idle"
  PROVE  /\ attempt[c] \in Attempt /\ RequestOf(c) \in Request
         /\ attempt[c].lease \in Lease /\ attempt[c].lease.generation \in Nat
         /\ ResourceOf(c) \in Resources /\ RequestOf(c).approval \in Approvals
         /\ RequestOf(c).limit \in Nat /\ GateOf[c] \in Gates
<1>1. attempt[c] \in Attempt
  BY DEF TypeOK
<1>2. RequestOf(c) \in Request /\ attempt[c].lease \in Lease
  BY <1>1 DEF Attempt, RequestOf
<1>3. RequestOf(c).resource \in Resources /\ RequestOf(c).approval \in Approvals
      /\ RequestOf(c).limit \in Nat
  BY <1>2 DEF Request
<1>4. attempt[c].lease.generation \in Nat
  BY <1>2 DEF Lease
<1> QED
  BY <1>1, <1>2, <1>3, <1>4, GateAssumption DEF ResourceOf

LEMMA CallRecord ==
  ASSUME NEW step \in CallSteps, NEW limit \in Nat, NEW seen \in Disk \cup {NotRead}, NEW value \in Nat
  PROVE  At(step, limit, seen, value) \in Call
BY DEF At, Call

\* Leaving Apply keeps the types of all it touches.
LEMMA LeaveTypes ==
  ASSUME TypeOK, NEW c \in Callers, NEW code \in Codes, Leave(c, code)
  PROVE  /\ ActuatorTypeOK'
         /\ (now \in 0..MaxTime)' /\ (lease \in Lease)' /\ (granted \in [Gates -> Lease])'
         /\ (approved \subseteq Approvals)'
         /\ (mu \in [Gates -> Callers \cup {Nobody}])'
         /\ (pc \in [Callers -> Steps])'
         /\ (attempt \in [Callers -> Attempt \cup {NoAttempt}])'
         /\ (\A d \in Callers : pc[d] # "idle" => attempt[d] \in Attempt)'
         /\ (clock \in [Callers -> 0..MaxTime])' /\ (result \in [Callers -> Codes])'
         /\ (outdated \in [Callers -> BOOLEAN])' /\ (observed \in [Callers -> BOOLEAN])'
         /\ (fence \in Nat)'
<1>1. NoCall \in Call
  BY CallRecord DEF NoCall, CallSteps
<1>2. "idle" \in Steps /\ 0 \in 0..MaxTime /\ GateOf[c] \in Gates
  BY GateAssumption DEF Steps
<1>3. ActuatorTypeOK'
  BY <1>1 DEF TypeOK, ActuatorTypeOK, Leave
<1>4. /\ (now \in 0..MaxTime)' /\ (lease \in Lease)' /\ (granted \in [Gates -> Lease])'
      /\ (approved \subseteq Approvals)' /\ (fence \in Nat)'
  BY DEF TypeOK, Leave, worldVars
<1>5. /\ (mu \in [Gates -> Callers \cup {Nobody}])'
      /\ (pc \in [Callers -> Steps])'
      /\ (attempt \in [Callers -> Attempt \cup {NoAttempt}])'
      /\ (clock \in [Callers -> 0..MaxTime])' /\ (result \in [Callers -> Codes])'
      /\ (outdated \in [Callers -> BOOLEAN])' /\ (observed \in [Callers -> BOOLEAN])'
  BY <1>2 DEF TypeOK, Leave
<1>6. (\A d \in Callers : pc[d] # "idle" => attempt[d] \in Attempt)'
  BY DEF TypeOK, Leave
<1> QED
  BY <1>3, <1>4, <1>5, <1>6

LEMMA RejectTypes ==
  ASSUME TypeOK, NEW c \in Callers, NEW code \in Codes, Reject(c, code)
  PROVE  TypeOK'
<1>1. Leave(c, code) /\ UNCHANGED <<frozen, unconfirmed>>
  BY DEF Reject
<1> QED
  BY <1>1, LeaveTypes DEF TypeOK

LEMMA FreezeTypes ==
  ASSUME TypeOK, NEW c \in Callers, pc[c] # "idle", NEW code \in Codes, Freeze(c, code)
  PROVE  TypeOK'
<1>1. /\ Leave(c, code) /\ UNCHANGED unconfirmed
      /\ frozen' = [frozen EXCEPT ![GateOf[c]] = @ \cup {ResourceOf(c)}]
  BY DEF Freeze
<1>2. frozen' \in [Gates -> SUBSET Resources]
  BY <1>1, AttemptParts DEF TypeOK
<1> QED
  BY <1>1, <1>2, LeaveTypes DEF TypeOK

LEMMA GoToTypes ==
  ASSUME TypeOK, NEW c \in Callers, pc[c] # "idle", NEW step \in Steps, GoTo(c, step),
         call' \in [Callers -> Call]
  PROVE  TypeOK'
BY DEF TypeOK, ActuatorTypeOK, GoTo, worldVars, history

\* An update that lands replaces the limit and nothing else.
LEMMA UpdateReplacesLimit ==
  ASSUME TypeOK, NEW c \in Callers, UpdateLands(c)
  PROVE  /\ disk' = [limit |-> call[c].limit, device |-> disk.device, rest |-> disk.rest]
         /\ disk' \in Disk
<1>1. disk \in Disk /\ call \in [Callers -> Call]
  BY DEF TypeOK, ActuatorTypeOK
<1>2. call[c] \in Call
  BY <1>1
<1>3. call[c].limit \in Nat
  BY <1>2 DEF Call
<1>4. /\ disk = [limit |-> disk.limit, device |-> disk.device, rest |-> disk.rest]
      /\ disk.device \in Devices /\ disk.rest \in Rests
  BY <1>1 DEF Disk
<1>5. disk' = [disk EXCEPT !.limit = call[c].limit, !.device = disk.device]
  BY DEF UpdateLands
<1>6. disk' = [limit |-> call[c].limit, device |-> disk.device, rest |-> disk.rest]
  BY <1>4, <1>5
<1> QED
  BY <1>3, <1>4, <1>6 DEF Disk

\* The actuator's steps keep the configuration and the calls well typed.
LEMMA ActuatorTypes ==
  ASSUME TypeOK, NEW c \in Callers, ActuatorStep(c)
  PROVE  ActuatorTypeOK'
<1>1. disk \in Disk /\ call \in [Callers -> Call]
  BY DEF TypeOK, ActuatorTypeOK
<1>2. call[c] \in Call
  BY <1>1
<1>3. call[c].limit \in Nat /\ call[c].seen \in Disk \cup {NotRead} /\ disk.limit \in Nat
  BY <1>1, <1>2 DEF Call, Disk
<1>4. FailedCall \in Call
  BY CallRecord DEF FailedCall, CallSteps
<1>5. ASSUME UpdateLands(c) PROVE disk' \in Disk
  BY <1>5, UpdateReplacesLimit
<1>6. /\ At("done", call[c].limit, NotRead, call[c].limit) \in Call
      /\ At("update", call[c].limit, disk, 0) \in Call
      /\ At("readback", call[c].limit, call[c].seen, 0) \in Call
      /\ At("done", call[c].limit, call[c].seen, disk.limit) \in Call
  BY <1>1, <1>3, CallRecord DEF CallSteps
<1> QED
  BY <1>1, <1>4, <1>5, <1>6 DEF ActuatorStep, ReadBeforeFails, NothingToWrite, ReadBefore,
     UpdateSucceeds, UpdateLandsUnreported, UpdateFails, ReadBackFails, ReadBack, ActuatorTypeOK

LEMMA BeginTypes ==
  ASSUME TypeOK, NEW c \in Callers, NEW request \in Request, BeginApply(c, request)
  PROVE  call' \in [Callers -> Call]
<1>1. FailedCall \in Call
  BY CallRecord DEF FailedCall, CallSteps
<1>2. request.limit \in Nat
  BY DEF Request
<1>3. At("before", request.limit, NotRead, 0) \in Call
  BY <1>2, CallRecord DEF CallSteps
<1> QED
  BY <1>1, <1>3 DEF BeginApply, TypeOK, ActuatorTypeOK

\* Every step of a caller that holds the mutex keeps the types.
LEMMA ProceedTypes ==
  ASSUME TypeOK, NEW c \in Callers, Proceed(c)
  PROVE  TypeOK'
<1>1. pc[c] \in InSection
  BY DEF Proceed, RejectLease, VerifyLease, RejectApproval, VerifyApproval, FreezeUnread,
         FreezeDrifted, ReadEffective, ApplyApproved, FreezeFailed, FreezeMismatched,
         ReportApplied, InSection
<1>2. pc[c] # "idle"
  BY <1>1 DEF InSection
<1>3. CASE RejectLease(c)
  BY <1>3, RejectTypes DEF RejectLease, Codes
<1>4. CASE VerifyLease(c)
  BY <1>2, <1>4, GoToTypes DEF VerifyLease, Steps, TypeOK, ActuatorTypeOK
<1>5. CASE RejectApproval(c)
  BY <1>5, RejectTypes DEF RejectApproval, Codes
<1>6. CASE VerifyApproval(c)
  <2>1. CASE Reject(c, "resource_frozen")
    BY <2>1, RejectTypes DEF Codes
  <2>2. CASE GoTo(c, "read") /\ UNCHANGED call
    BY <1>2, <2>2, GoToTypes DEF Steps, TypeOK, ActuatorTypeOK
  <2> QED
    BY <1>6, <2>1, <2>2 DEF VerifyApproval
<1>7. CASE FreezeUnread(c)
  BY <1>2, <1>7, FreezeTypes DEF FreezeUnread, Codes
<1>8. CASE FreezeDrifted(c)
  BY <1>2, <1>8, FreezeTypes DEF FreezeDrifted, Codes
<1>9. CASE ReadEffective(c)
  <2>1. GoTo(c, "apply") /\ BeginApply(c, RequestOf(c))
    BY <1>9 DEF ReadEffective
  <2> QED
    BY <1>2, <2>1, AttemptParts, BeginTypes, GoToTypes DEF Steps
<1>10. CASE ApplyApproved(c)
  <2>1. /\ UNCHANGED <<gateVars, worldVars, outdated>>
        /\ observed' = [observed EXCEPT ![c] = call'[c].step = "done" /\ Carries(c, disk)]
        /\ IF disk' # disk THEN Landed(c) ELSE UNCHANGED <<unconfirmed, fence>>
    BY <1>10 DEF ApplyApproved
  <2>2. ActuatorTypeOK'
    BY <1>10, ActuatorTypes DEF ApplyApproved
  <2>3. observed' \in [Callers -> BOOLEAN]
    BY <2>1 DEF TypeOK, Carries
  <2>4. unconfirmed' \in [Gates -> SUBSET Resources] /\ fence' \in Nat
    BY <1>2, <2>1, AttemptParts DEF TypeOK, Landed
  <2> QED
    BY <2>1, <2>2, <2>3, <2>4 DEF TypeOK, gateVars, worldVars
<1>11. CASE FreezeFailed(c)
  BY <1>2, <1>11, FreezeTypes DEF FreezeFailed, Codes
<1>12. CASE FreezeMismatched(c)
  BY <1>2, <1>12, FreezeTypes DEF FreezeMismatched, Codes
<1>13. CASE ReportApplied(c)
  <2>1. /\ Leave(c, "applied") /\ UNCHANGED frozen
        /\ unconfirmed' = [unconfirmed EXCEPT ![GateOf[c]] = @ \ {ResourceOf(c)}]
    BY <1>13 DEF ReportApplied
  <2>2. unconfirmed' \in [Gates -> SUBSET Resources]
    BY <2>1 DEF TypeOK
  <2> QED
    BY <2>1, <2>2, LeaveTypes DEF TypeOK, Codes
<1> QED
  BY <1>3, <1>4, <1>5, <1>6, <1>7, <1>8, <1>9, <1>10, <1>11, <1>12, <1>13 DEF Proceed

\* A caller joins the queue, gets the mutex or is turned away at once.
LEMMA CallerTypes ==
  ASSUME TypeOK, NEW c \in Callers, Submit(c) \/ Lock(c)
  PROVE  TypeOK'
<1>1. CASE Submit(c)
  <2>1. PICK request \in Requests :
          attempt' = [attempt EXCEPT ![c] = [request |-> request, lease |-> granted[GateOf[c]]]]
    BY <1>1 DEF Submit
  <2>2. [request |-> request, lease |-> granted[GateOf[c]]] \in Attempt
    BY GateAssumption DEF TypeOK, Attempt
  <2>3. /\ pc' = [pc EXCEPT ![c] = "waiting"]
        /\ result' = [result EXCEPT ![c] = "none"]
        /\ UNCHANGED <<disk, call, worldVars, mu, frozen, clock, history>>
    BY <1>1 DEF Submit
  <2>4. pc' \in [Callers -> Steps] /\ result' \in [Callers -> Codes]
    BY <2>3 DEF TypeOK, Steps, Codes
  <2>5. attempt' \in [Callers -> Attempt \cup {NoAttempt}]
    BY <2>1, <2>2 DEF TypeOK
  <2>6. \A d \in Callers : pc'[d] # "idle" => attempt'[d] \in Attempt
    BY <2>1, <2>2, <2>3 DEF TypeOK
  <2> QED
    BY <2>3, <2>4, <2>5, <2>6 DEF TypeOK, ActuatorTypeOK, worldVars, history
<1>2. CASE Enter(c)
  <2>1. /\ pc[c] = "waiting"
        /\ mu' = [mu EXCEPT ![GateOf[c]] = c]
        /\ clock' = [clock EXCEPT ![c] = now]
        /\ pc' = [pc EXCEPT ![c] = "lease"]
        /\ outdated' = [outdated EXCEPT ![c] = OutdatedOnEntry(c)]
        /\ UNCHANGED <<disk, call, worldVars, frozen, attempt, result, observed, unconfirmed, fence>>
    BY <1>2 DEF Enter
  <2>2. /\ mu' \in [Gates -> Callers \cup {Nobody}]
        /\ clock' \in [Callers -> 0..MaxTime]
        /\ pc' \in [Callers -> Steps]
        /\ \A d \in Callers : pc'[d] # "idle" => attempt'[d] \in Attempt
    BY <2>1 DEF TypeOK, Steps
  <2>3. outdated' \in [Callers -> BOOLEAN]
    BY <2>1 DEF TypeOK, OutdatedOnEntry
  <2> QED
    BY <2>1, <2>2, <2>3 DEF TypeOK, ActuatorTypeOK, worldVars
<1>3. CASE RejectInvalid(c)
  BY <1>3, RejectTypes DEF RejectInvalid, Codes
<1> QED
  BY <1>1, <1>2, <1>3 DEF Lock

\* The clock, the authority, the store and the operator.
LEMMA WorldTypes ==
  ASSUME TypeOK, World
  PROVE  TypeOK'
<1>1. CASE Tick
  <2>1. now' \in 0..MaxTime
    BY <1>1, GateAssumption DEF Tick, TypeOK
  <2> QED
    BY <1>1, <2>1 DEF Tick, TypeOK, ActuatorTypeOK, gateVars, history
<1>2. ASSUME NEW g \in Gates, NEW generation \in Nat, Grant(g, generation)
      PROVE  TypeOK'
  <2>1. [holder |-> g, generation |-> generation, expires |-> now + LeaseTime] \in Lease
    BY GateAssumption DEF TypeOK, Lease
  <2>2. lease' \in Lease /\ granted' \in [Gates -> Lease]
    BY <1>2, <2>1 DEF Grant, TypeOK
  <2> QED
    BY <1>2, <2>2 DEF Grant, TypeOK, ActuatorTypeOK, gateVars, history
<1>3. lease.holder \in Gates /\ lease.generation \in Nat
  BY DEF TypeOK, Lease
<1>4. CASE Renew
  BY <1>2, <1>3, <1>4 DEF Renew
<1>5. CASE \E g \in Gates : TakeOver(g)
  BY <1>2, <1>3, <1>5 DEF TakeOver
<1>6. CASE EditDisk
  <2>1. disk' \in Disk
    BY <1>6, ActuatorAssumption DEF EditDisk, ExternalChange, StorableDisks, Disk
  <2> QED
    BY <1>6, <2>1 DEF EditDisk, ExternalChange, TypeOK, ActuatorTypeOK, gateVars, worldVars, history
<1>7. CASE \E a \in Approvals : Revoke(a)
  BY <1>7 DEF Revoke, TypeOK, ActuatorTypeOK, gateVars, history
<1>8. ASSUME NEW g \in Gates, Restart(g) PROVE TypeOK'
  <2>1. NoCall \in Call /\ "idle" \in Steps /\ "none" \in Codes /\ 0 \in 0..MaxTime
    <3>1. NoCall \in Call
      BY CallRecord DEF NoCall, CallSteps
    <3>2. 0 \in 0..MaxTime
      BY GateAssumption
    <3> QED
      BY <3>1, <3>2 DEF Steps, Codes
  <2>2. ActuatorTypeOK'
    BY <1>8, <2>1 DEF Restart, TypeOK, ActuatorTypeOK
  <2>3. /\ mu' \in [Gates -> Callers \cup {Nobody}]
        /\ frozen' \in [Gates -> SUBSET Resources]
        /\ unconfirmed' \in [Gates -> SUBSET Resources]
    BY <1>8 DEF Restart, TypeOK
  <2>4. /\ pc' \in [Callers -> Steps] /\ attempt' \in [Callers -> Attempt \cup {NoAttempt}]
        /\ clock' \in [Callers -> 0..MaxTime] /\ result' \in [Callers -> Codes]
        /\ outdated' \in [Callers -> BOOLEAN] /\ observed' \in [Callers -> BOOLEAN]
        /\ \A d \in Callers : pc'[d] # "idle" => attempt'[d] \in Attempt
    BY <1>8, <2>1 DEF Restart, TypeOK
  <2> QED
    BY <1>8, <2>2, <2>3, <2>4 DEF Restart, TypeOK, worldVars
<1> QED
  BY <1>1, <1>4, <1>5, <1>6, <1>7, <1>8 DEF World

LEMMA NextTypes ==
  ASSUME TypeOK, [Next]_vars
  PROVE  TypeOK'
<1>1. CASE UNCHANGED vars
  BY <1>1 DEF vars, gateVars, worldVars, history, TypeOK, ActuatorTypeOK
<1> QED
  BY <1>1, ProceedTypes, CallerTypes, WorldTypes DEF Next

LEMMA InitTypes == Init => TypeOK
<1> SUFFICES ASSUME Init PROVE TypeOK
  OBVIOUS
<1>1. ActuatorTypeOK
  <2>1. NoCall \in Call
    BY CallRecord DEF NoCall, CallSteps
  <2> QED
    BY <2>1, ActuatorAssumption DEF Init, ActuatorInit, ActuatorTypeOK, StorableDisks, Disk
<1>2. lease \in Lease /\ granted \in [Gates -> Lease]
  <2>1. \A g \in Gates : [holder |-> g, generation |-> 0, expires |-> 0] \in Lease
    BY DEF Lease
  <2>2. lease \in Lease
    BY GateAssumption DEF Init, Lease
  <2> QED
    BY <2>1, <2>2 DEF Init
<1>3. now \in 0..MaxTime /\ 0 \in 0..MaxTime /\ fence \in Nat
  BY GateAssumption DEF Init
<1> QED
  BY <1>1, <1>2, <1>3 DEF Init, TypeOK, Steps, Codes

\* Every value stays of its type, for any number of gates and callers.
THEOREM TypeCorrect == Spec => []TypeOK
<1>1. Init => TypeOK
  BY InitTypes
<1>2. TypeOK /\ [Next]_vars => TypeOK'
  BY NextTypes
<1> QED
  BY <1>1, <1>2, PTL DEF Spec

-----------------------------------------------------------------------------
(* The mutex and the frozen map.                                           *)

\* A caller that holds the mutex either leaves Apply or moves to its next step
\* with its attempt, the mutex and the frozen map untouched.
LEMMA ProceedShape ==
  ASSUME NEW c \in Callers, Proceed(c)
  PROVE  /\ pc[c] \in InSection
         /\ \/ \E code \in Codes : Leave(c, code)
            \/ /\ UNCHANGED <<mu, frozen, attempt>>
               /\ \/ pc[c] = "lease" /\ pc' = [pc EXCEPT ![c] = "approval"]
                  \/ /\ pc[c] = "approval" /\ pc' = [pc EXCEPT ![c] = "read"]
                     /\ ResourceOf(c) \notin frozen[GateOf[c]]
                  \/ pc[c] = "read" /\ pc' = [pc EXCEPT ![c] = "apply"]
                  \/ pc[c] = "apply" /\ pc' = pc
<1>1. pc[c] \in InSection
  BY DEF Proceed, RejectLease, VerifyLease, RejectApproval, VerifyApproval, FreezeUnread,
         FreezeDrifted, ReadEffective, ApplyApproved, FreezeFailed, FreezeMismatched,
         ReportApplied, InSection
<1>2. CASE RejectLease(c)
  BY <1>1, <1>2 DEF RejectLease, Reject, Codes
<1>3. CASE VerifyLease(c)
  BY <1>1, <1>3 DEF VerifyLease, GoTo
<1>4. CASE RejectApproval(c)
  BY <1>1, <1>4 DEF RejectApproval, Reject, Codes
<1>5. CASE VerifyApproval(c)
  <2>1. CASE Reject(c, "resource_frozen")
    BY <1>1, <2>1 DEF Reject, Codes
  <2>2. CASE ResourceOf(c) \notin frozen[GateOf[c]] /\ GoTo(c, "read")
    BY <1>1, <1>5, <2>2 DEF VerifyApproval, GoTo
  <2> QED
    BY <1>5, <2>1, <2>2 DEF VerifyApproval
<1>6. CASE FreezeUnread(c) \/ FreezeDrifted(c) \/ FreezeFailed(c) \/ FreezeMismatched(c)
  BY <1>1, <1>6 DEF FreezeUnread, FreezeDrifted, FreezeFailed, FreezeMismatched, Freeze, Codes
<1>7. CASE ReadEffective(c)
  BY <1>1, <1>7 DEF ReadEffective, GoTo
<1>8. CASE ApplyApproved(c)
  BY <1>1, <1>8 DEF ApplyApproved, gateVars
<1>9. CASE ReportApplied(c)
  BY <1>1, <1>9 DEF ReportApplied, Codes
<1> QED
  BY <1>2, <1>3, <1>4, <1>5, <1>6, <1>7, <1>8, <1>9 DEF Proceed

\* Whoever leaves Apply was alone inside it, and leaves the gate empty.
LEMMA LeaveMutex ==
  ASSUME TypeOK, MutexHeldInside, NEW c \in Callers, NEW code, Leave(c, code),
         mu[GateOf[c]] \in {c, Nobody}
  PROVE  MutexHeldInside'
<1>1. /\ pc' = [pc EXCEPT ![c] = "idle"] /\ mu' = [mu EXCEPT ![GateOf[c]] = Nobody]
      /\ pc \in [Callers -> Steps] /\ mu \in [Gates -> Callers \cup {Nobody}]
      /\ GateOf \in [Callers -> Gates] /\ Nobody \notin Callers
  BY GateAssumption DEF Leave, TypeOK
<1> SUFFICES ASSUME NEW d \in Callers
             PROVE  pc'[d] \in InSection <=> mu'[GateOf[d]] = d
  BY DEF MutexHeldInside
<1>2. pc[d] \in InSection <=> mu[GateOf[d]] = d
  BY DEF MutexHeldInside
<1>3. CASE d = c
  BY <1>1, <1>3 DEF InSection
<1>4. CASE d # c /\ GateOf[d] = GateOf[c]
  BY <1>1, <1>2, <1>4
<1>5. CASE d # c /\ GateOf[d] # GateOf[c]
  BY <1>1, <1>2, <1>5
<1> QED
  BY <1>3, <1>4, <1>5

LEMMA MutexPreserved ==
  ASSUME TypeOK, MutexHeldInside, [Next]_vars
  PROVE  MutexHeldInside'
<1>1. /\ pc \in [Callers -> Steps] /\ mu \in [Gates -> Callers \cup {Nobody}]
      /\ GateOf \in [Callers -> Gates] /\ Nobody \notin Callers
  BY GateAssumption DEF TypeOK
<1>2. ASSUME NEW c \in Callers, Submit(c) PROVE MutexHeldInside'
  BY <1>1, <1>2 DEF Submit, MutexHeldInside, InSection
<1>3. ASSUME NEW c \in Callers, Enter(c) PROVE MutexHeldInside'
  <2>1. /\ pc[c] = "waiting" /\ mu[GateOf[c]] = Nobody
        /\ mu' = [mu EXCEPT ![GateOf[c]] = c] /\ pc' = [pc EXCEPT ![c] = "lease"]
    BY <1>3 DEF Enter
  <2> SUFFICES ASSUME NEW d \in Callers
               PROVE  pc'[d] \in InSection <=> mu'[GateOf[d]] = d
    BY DEF MutexHeldInside
  <2>2. pc[d] \in InSection <=> mu[GateOf[d]] = d
    BY DEF MutexHeldInside
  <2>3. CASE d = c
    BY <1>1, <2>1, <2>3 DEF InSection
  <2>4. CASE d # c /\ GateOf[d] = GateOf[c]
    BY <1>1, <2>1, <2>2, <2>4
  <2>5. CASE d # c /\ GateOf[d] # GateOf[c]
    BY <1>1, <2>1, <2>2, <2>5
  <2> QED
    BY <2>3, <2>4, <2>5
<1>4. ASSUME NEW c \in Callers, RejectInvalid(c) PROVE MutexHeldInside'
  BY <1>4, LeaveMutex DEF RejectInvalid, Reject
<1>5. ASSUME NEW c \in Callers, Proceed(c) PROVE MutexHeldInside'
  <2>1. mu[GateOf[c]] = c
    BY <1>5, ProceedShape DEF MutexHeldInside
  <2>2. CASE \E code \in Codes : Leave(c, code)
    BY <2>1, <2>2, LeaveMutex
  <2>3. CASE mu' = mu /\ \E step \in InSection : pc' = [pc EXCEPT ![c] = step]
    BY <1>1, <2>1, <2>3 DEF MutexHeldInside
  <2>4. CASE mu' = mu /\ pc' = pc
    BY <2>4 DEF MutexHeldInside
  <2> QED
    BY <1>5, <2>2, <2>3, <2>4, ProceedShape DEF InSection
<1>6. CASE World
  <2>1. CASE UNCHANGED <<pc, mu>>
    BY <2>1 DEF MutexHeldInside
  <2>2. ASSUME NEW g \in Gates, Restart(g) PROVE MutexHeldInside'
    <3>1. /\ mu' = [mu EXCEPT ![g] = Nobody]
          /\ pc' = [c \in Callers |-> IF GateOf[c] = g THEN "idle" ELSE pc[c]]
      BY <2>2 DEF Restart
    <3> QED
      BY <1>1, <3>1 DEF MutexHeldInside, InSection
  <2> QED
    BY <1>6, <2>1, <2>2 DEF World, Tick, Renew, TakeOver, Grant, Revoke, EditDisk, gateVars
<1>7. CASE UNCHANGED vars
  BY <1>7 DEF vars, gateVars, MutexHeldInside
<1> QED
  BY <1>2, <1>3, <1>4, <1>5, <1>6, <1>7 DEF Next, Lock


\* What a step does to the frozen map: only its own caller's resource is added,
\* by a caller that leaves, and only a restart of the gate removes any.
LEMMA ProceedFreezes ==
  ASSUME TypeOK, NEW c \in Callers, Proceed(c)
  PROVE  \/ UNCHANGED frozen
         \/ /\ frozen' = [frozen EXCEPT ![GateOf[c]] = @ \cup {ResourceOf(c)}]
            /\ UNCHANGED unconfirmed
            /\ \E code \in Codes : Leave(c, code)
<1>1. CASE UNCHANGED frozen
  BY <1>1
<1>2. CASE FreezeUnread(c) \/ FreezeDrifted(c) \/ FreezeFailed(c) \/ FreezeMismatched(c)
  BY <1>2 DEF FreezeUnread, FreezeDrifted, FreezeFailed, FreezeMismatched, Freeze, Codes
<1> QED
  BY <1>1, <1>2 DEF Proceed, RejectLease, VerifyLease, RejectApproval, VerifyApproval,
     ReadEffective, ApplyApproved, ReportApplied, Reject, GoTo, gateVars

LEMMA FrozenPreserved ==
  ASSUME TypeOK, MutexHeldInside, FrozenExcluded, [Next]_vars
  PROVE  FrozenExcluded'
<1>1. /\ pc \in [Callers -> Steps] /\ frozen \in [Gates -> SUBSET Resources]
      /\ attempt \in [Callers -> Attempt \cup {NoAttempt}] /\ GateOf \in [Callers -> Gates]
  BY GateAssumption DEF TypeOK
<1>2. ASSUME NEW c \in Callers, Submit(c) PROVE FrozenExcluded'
  BY <1>1, <1>2 DEF Submit, FrozenExcluded, ResourceOf, RequestOf
<1>3. ASSUME NEW c \in Callers, Enter(c) PROVE FrozenExcluded'
  BY <1>1, <1>3 DEF Enter, FrozenExcluded, ResourceOf, RequestOf
<1>4. ASSUME NEW c \in Callers, RejectInvalid(c) PROVE FrozenExcluded'
  BY <1>1, <1>4 DEF RejectInvalid, Reject, Leave, FrozenExcluded, ResourceOf, RequestOf
<1>5. ASSUME NEW c \in Callers, Proceed(c) PROVE FrozenExcluded'
  <2>1. pc[c] \in InSection /\ mu[GateOf[c]] = c
    BY <1>5, ProceedShape DEF MutexHeldInside
  <2>2. ASSUME NEW d \in Callers, d # c, GateOf[d] = GateOf[c]
        PROVE  pc[d] \notin {"read", "apply"}
    BY <2>1, <2>2 DEF MutexHeldInside, InSection
  <2>3. CASE \E code \in Codes : Leave(c, code)
    <3>1. /\ pc' = [pc EXCEPT ![c] = "idle"]
          /\ attempt' = [attempt EXCEPT ![c] = NoAttempt]
      BY <2>3 DEF Leave
    <3>2. \/ frozen' = frozen
          \/ frozen' = [frozen EXCEPT ![GateOf[c]] = @ \cup {ResourceOf(c)}]
      BY <1>5, ProceedFreezes
    <3> SUFFICES ASSUME NEW d \in Callers, pc'[d] \in {"read", "apply"}
                 PROVE  attempt'[d].request.resource \notin frozen'[GateOf[d]]
      BY DEF FrozenExcluded, ResourceOf, RequestOf
    <3>3. d # c /\ pc[d] = pc'[d] /\ attempt'[d] = attempt[d]
      BY <1>1, <3>1
    <3>4. attempt[d].request.resource \notin frozen[GateOf[d]]
      BY <3>3 DEF FrozenExcluded, ResourceOf, RequestOf
    <3>5. GateOf[d] # GateOf[c]
      BY <2>2, <3>3
    <3>6. frozen'[GateOf[d]] = frozen[GateOf[d]]
      BY <1>1, <3>2, <3>5
    <3> QED
      BY <3>3, <3>4, <3>6
  <2>4. CASE UNCHANGED <<mu, frozen, attempt>>
    <3> SUFFICES ASSUME NEW d \in Callers, pc'[d] \in {"read", "apply"}
                 PROVE  ResourceOf(d) \notin frozen[GateOf[d]]
      BY <2>4 DEF FrozenExcluded, ResourceOf, RequestOf
    <3>1. CASE pc[d] \in {"read", "apply"}
      BY <3>1 DEF FrozenExcluded
    <3>2. CASE pc[d] \notin {"read", "apply"}
      <4>2. CASE \E code \in Codes : Leave(c, code)
        BY <1>1, <3>2, <4>2 DEF Leave
      <4>3. CASE d = c
        BY <1>1, <1>5, <3>2, <4>2, <4>3, ProceedShape
      <4>4. CASE d # c
        BY <1>1, <1>5, <3>2, <4>2, <4>4, ProceedShape
      <4> QED
        BY <4>3, <4>4
    <3> QED
      BY <3>1, <3>2
  <2> QED
    BY <1>5, <2>3, <2>4, ProceedShape
<1>6. CASE World
  <2>1. CASE UNCHANGED <<pc, frozen, attempt>>
    BY <2>1 DEF FrozenExcluded, ResourceOf, RequestOf
  <2>2. ASSUME NEW g \in Gates, Restart(g) PROVE FrozenExcluded'
    BY <1>1, <2>2 DEF Restart, FrozenExcluded, ResourceOf, RequestOf
  <2> QED
    BY <1>6, <2>1, <2>2 DEF World, Tick, Renew, TakeOver, Grant, Revoke, EditDisk, gateVars
<1>7. CASE UNCHANGED vars
  BY <1>7 DEF vars, gateVars, FrozenExcluded, ResourceOf, RequestOf
<1> QED
  BY <1>2, <1>3, <1>4, <1>5, <1>6, <1>7 DEF Next, Lock

-----------------------------------------------------------------------------
(* Writes that are not confirmed.                                          *)

\* What a caller inside Apply does to the unconfirmed writes of its gate.
LEMMA ProceedWrites ==
  ASSUME NEW c \in Callers, Proceed(c)
  PROVE  \/ /\ pc[c] # "apply" /\ UNCHANGED <<frozen, unconfirmed>>
         \/ /\ frozen' = [frozen EXCEPT ![GateOf[c]] = @ \cup {ResourceOf(c)}]
            /\ UNCHANGED unconfirmed
         \/ /\ unconfirmed' = [unconfirmed EXCEPT ![GateOf[c]] = @ \ {ResourceOf(c)}]
            /\ UNCHANGED frozen
         \/ /\ pc[c] = "apply" /\ UNCHANGED <<pc, mu, attempt, frozen>>
            /\ \/ UNCHANGED unconfirmed
               \/ unconfirmed' = [unconfirmed EXCEPT ![GateOf[c]] = @ \cup {ResourceOf(c)}]
<1>1. CASE RejectLease(c) \/ VerifyLease(c) \/ RejectApproval(c) \/ VerifyApproval(c) \/ ReadEffective(c)
  BY <1>1 DEF RejectLease, VerifyLease, RejectApproval, VerifyApproval, ReadEffective, Reject, GoTo,
     history
<1>2. CASE FreezeUnread(c) \/ FreezeDrifted(c) \/ FreezeFailed(c) \/ FreezeMismatched(c)
  BY <1>2 DEF FreezeUnread, FreezeDrifted, FreezeFailed, FreezeMismatched, Freeze
<1>3. CASE ReportApplied(c)
  BY <1>3 DEF ReportApplied
<1>4. CASE ApplyApproved(c)
  BY <1>4 DEF ApplyApproved, gateVars, Landed
<1> QED
  BY <1>1, <1>2, <1>3, <1>4 DEF Proceed

LEMMA UnconfirmedPreserved ==
  ASSUME TypeOK, MutexHeldInside, UnconfirmedIsHeld, [Next]_vars
  PROVE  UnconfirmedIsHeld'
<1>1. /\ pc \in [Callers -> Steps] /\ frozen \in [Gates -> SUBSET Resources]
      /\ unconfirmed \in [Gates -> SUBSET Resources] /\ mu \in [Gates -> Callers \cup {Nobody}]
      /\ attempt \in [Callers -> Attempt \cup {NoAttempt}] /\ GateOf \in [Callers -> Gates]
      /\ Nobody \notin Callers
  BY GateAssumption DEF TypeOK
<1>2. ASSUME NEW c \in Callers, pc[c] \notin InSection, UNCHANGED <<frozen, unconfirmed>>,
             \A d \in Callers : d # c => pc'[d] = pc[d] /\ attempt'[d] = attempt[d],
             \A g \in Gates : mu[g] # Nobody => mu'[g] = mu[g]
      PROVE  UnconfirmedIsHeld'
  <2> SUFFICES ASSUME NEW g \in Gates, NEW r \in unconfirmed[g] \ frozen[g]
               PROVE  \E d \in Callers : /\ GateOf[d] = g /\ mu'[g] = d
                                         /\ pc'[d] = "apply" /\ attempt'[d].request.resource = r
    BY <1>2 DEF UnconfirmedIsHeld, ResourceOf, RequestOf
  <2>1. PICK d \in Callers : GateOf[d] = g /\ mu[g] = d /\ pc[d] = "apply" /\ ResourceOf(d) = r
    BY DEF UnconfirmedIsHeld
  <2>2. d # c /\ mu[g] # Nobody
    BY <1>1, <1>2, <2>1 DEF InSection
  <2> QED
    BY <1>2, <2>1, <2>2 DEF ResourceOf, RequestOf
<1>3. ASSUME NEW c \in Callers, Submit(c) PROVE UnconfirmedIsHeld'
  <2>1. pc[c] = "idle"
    BY <1>3 DEF Submit
  <2> QED
    BY <1>1, <1>2, <1>3, <2>1 DEF Submit, InSection, history
<1>4. ASSUME NEW c \in Callers, Enter(c) PROVE UnconfirmedIsHeld'
  <2>1. pc[c] = "waiting" /\ mu[GateOf[c]] = Nobody
    BY <1>4 DEF Enter
  <2> QED
    BY <1>1, <1>2, <1>4, <2>1 DEF Enter, InSection
<1>5. ASSUME NEW c \in Callers, RejectInvalid(c) PROVE UnconfirmedIsHeld'
  <2>1. pc[c] = "waiting" /\ mu[GateOf[c]] = Nobody
    BY <1>5 DEF RejectInvalid
  <2> QED
    BY <1>1, <1>2, <1>5, <2>1 DEF RejectInvalid, Reject, Leave, InSection
<1>6. ASSUME NEW c \in Callers, Proceed(c) PROVE UnconfirmedIsHeld'
  <2>1. mu[GateOf[c]] = c
    BY <1>6, ProceedShape DEF MutexHeldInside
  <2>2. /\ \A d \in Callers : d # c => pc'[d] = pc[d] /\ attempt'[d] = attempt[d]
        /\ \A g \in Gates : g # GateOf[c] => mu'[g] = mu[g]
    BY <1>1, <1>6, ProceedShape DEF Leave
  <2>3. \A r \in unconfirmed[GateOf[c]] \ frozen[GateOf[c]] : pc[c] = "apply" /\ ResourceOf(c) = r
    BY <1>1, <2>1 DEF UnconfirmedIsHeld
  <2> SUFFICES ASSUME NEW g \in Gates, NEW r \in unconfirmed'[g] \ frozen'[g]
               PROVE  \E d \in Callers : /\ GateOf[d] = g /\ mu'[g] = d
                                         /\ pc'[d] = "apply" /\ attempt'[d].request.resource = r
    BY DEF UnconfirmedIsHeld, ResourceOf, RequestOf
  <2>4. CASE g # GateOf[c]
    <3>1. r \in unconfirmed[g] \ frozen[g]
      BY <1>1, <1>6, <2>4, ProceedWrites
    <3>2. PICK d \in Callers : GateOf[d] = g /\ mu[g] = d /\ pc[d] = "apply" /\ ResourceOf(d) = r
      BY <3>1 DEF UnconfirmedIsHeld
    <3> QED
      BY <2>2, <2>4, <3>2 DEF ResourceOf, RequestOf
  <2>5. CASE g = GateOf[c]
    <3>1. CASE /\ pc[c] = "apply" /\ UNCHANGED <<pc, mu, attempt, frozen>>
               /\ \/ UNCHANGED unconfirmed
                  \/ unconfirmed' = [unconfirmed EXCEPT ![GateOf[c]] = @ \cup {ResourceOf(c)}]
      <4>1. r = ResourceOf(c)
        BY <1>1, <2>3, <2>5, <3>1
      <4> QED
        BY <2>1, <2>5, <3>1, <4>1 DEF ResourceOf, RequestOf
    <3>2. CASE pc[c] # "apply" /\ UNCHANGED <<frozen, unconfirmed>>
      BY <2>3, <2>5, <3>2
    <3>3. CASE /\ frozen' = [frozen EXCEPT ![GateOf[c]] = @ \cup {ResourceOf(c)}]
               /\ UNCHANGED unconfirmed
      <4>1. r \in unconfirmed[g] \ frozen[g] /\ r # ResourceOf(c)
        BY <1>1, <2>5, <3>3
      <4> QED
        BY <2>3, <2>5, <4>1
    <3>4. CASE /\ unconfirmed' = [unconfirmed EXCEPT ![GateOf[c]] = @ \ {ResourceOf(c)}]
               /\ UNCHANGED frozen
      <4>1. r \in unconfirmed[g] \ frozen[g] /\ r # ResourceOf(c)
        BY <1>1, <2>5, <3>4
      <4> QED
        BY <2>3, <2>5, <4>1
    <3> QED
      BY <1>6, <3>1, <3>2, <3>3, <3>4, ProceedWrites
  <2> QED
    BY <2>4, <2>5
<1>7. CASE World
  <2>1. CASE UNCHANGED <<pc, mu, frozen, unconfirmed, attempt>>
    BY <2>1 DEF UnconfirmedIsHeld, ResourceOf, RequestOf
  <2>2. ASSUME NEW g \in Gates, Restart(g) PROVE UnconfirmedIsHeld'
    <3>1. /\ \A h \in Gates : h # g => /\ unconfirmed'[h] = unconfirmed[h]
                                       /\ frozen'[h] = frozen[h] /\ mu'[h] = mu[h]
          /\ unconfirmed'[g] = {}
          /\ \A d \in Callers : GateOf[d] # g => pc'[d] = pc[d] /\ attempt'[d] = attempt[d]
      BY <1>1, <2>2 DEF Restart
    <3> SUFFICES ASSUME NEW h \in Gates, NEW r \in unconfirmed'[h] \ frozen'[h]
                 PROVE  \E d \in Callers : /\ GateOf[d] = h /\ mu'[h] = d
                                           /\ pc'[d] = "apply" /\ attempt'[d].request.resource = r
      BY DEF UnconfirmedIsHeld, ResourceOf, RequestOf
    <3>2. h # g /\ r \in unconfirmed[h] \ frozen[h]
      BY <3>1
    <3>3. PICK d \in Callers : GateOf[d] = h /\ mu[h] = d /\ pc[d] = "apply" /\ ResourceOf(d) = r
      BY <3>2 DEF UnconfirmedIsHeld
    <3> QED
      BY <3>1, <3>2, <3>3 DEF ResourceOf, RequestOf
  <2> QED
    BY <1>7, <2>1, <2>2 DEF World, Tick, Renew, TakeOver, Grant, Revoke, EditDisk, gateVars, history
<1>8. CASE UNCHANGED vars
  BY <1>8 DEF vars, gateVars, history, UnconfirmedIsHeld, ResourceOf, RequestOf
<1> QED
  BY <1>3, <1>4, <1>5, <1>6, <1>7, <1>8 DEF Next, Lock

-----------------------------------------------------------------------------
(* Leases, approvals and what a caller knew of them on entry.              *)

\* The part of AuthorityTracked that speaks of one caller.
AuthorityOf(c) ==
  /\ pc[c] # "idle" => CurrentOrOlder(attempt[c].lease)
  /\ pc[c] = "lease" /\ outdated[c] =>
       \/ OlderThan(attempt[c].lease, lease)
       \/ attempt[c].lease.expires <= clock[c]
       \/ ApprovalOver(c)
  /\ pc[c] = "approval" /\ outdated[c] => ApprovalOver(c)
  /\ pc[c] \in {"read", "apply"} => ~outdated[c]

\* Nothing that a caller's authority depends on has changed.
LEMMA AuthorityKept ==
  ASSUME NEW c \in Callers, AuthorityOf(c),
         pc'[c] = pc[c], attempt'[c] = attempt[c], clock'[c] = clock[c],
         outdated'[c] = outdated[c], UNCHANGED <<lease, approved>>
  PROVE  AuthorityOf(c)'
BY DEF AuthorityOf, CurrentOrOlder, OlderThan, ApprovalOver, RequestOf

\* A new grant is later than every lease known before it.
LEMMA GrantAdvances ==
  ASSUME TypeOK, NEW l \in Lease, Renew \/ \E g \in Gates : TakeOver(g)
  PROVE  /\ CurrentOrOlder(l) => OlderThan(l, lease')
         /\ OlderThan(l, lease) => OlderThan(l, lease')
<1>1. lease \in Lease /\ now \in Nat /\ LeaseTime \in Nat
  BY GateAssumption DEF TypeOK
<1>2. /\ lease.generation \in Nat /\ lease.expires \in Nat
      /\ l.generation \in Nat /\ l.expires \in Nat
  BY <1>1 DEF Lease
<1>3. CASE Renew
  <2>1. lease.expires < now + LeaseTime
        /\ lease'.generation = lease.generation /\ lease'.expires = now + LeaseTime
    BY <1>3 DEF Renew, Grant
  <2> QED
    BY <1>1, <1>2, <2>1 DEF CurrentOrOlder, OlderThan
<1>4. CASE \E g \in Gates : TakeOver(g)
  <2>1. lease'.generation = lease.generation + 1 /\ lease'.expires = now + LeaseTime
    BY <1>4 DEF TakeOver, Grant
  <2> QED
    BY <1>1, <1>2, <2>1 DEF CurrentOrOlder, OlderThan
<1> QED
  BY <1>3, <1>4

LEMMA AuthorityPreserved ==
  ASSUME TypeOK, AuthorityTracked, [Next]_vars
  PROVE  AuthorityTracked'
<1>1. /\ pc \in [Callers -> Steps] /\ GateOf \in [Callers -> Gates]
      /\ attempt \in [Callers -> Attempt \cup {NoAttempt}]
      /\ clock \in [Callers -> 0..MaxTime] /\ outdated \in [Callers -> BOOLEAN]
      /\ granted \in [Gates -> Lease] /\ lease \in Lease
      /\ lease.generation \in Nat /\ lease.expires \in Nat
  BY GateAssumption DEF TypeOK, Lease
<1>2. /\ \A g \in Gates : CurrentOrOlder(granted[g])
      /\ \A c \in Callers : AuthorityOf(c)
  BY DEF AuthorityTracked, AuthorityOf
<1>3. SUFFICES /\ \A g \in Gates : CurrentOrOlder(granted[g])'
               /\ \A c \in Callers : AuthorityOf(c)'
  BY DEF AuthorityTracked, AuthorityOf
\* A caller's own step leaves the leases and the other callers alone.
<1>4. ASSUME NEW c \in Callers, UNCHANGED <<lease, granted, approved>>,
             \A d \in Callers : d # c => /\ pc'[d] = pc[d] /\ attempt'[d] = attempt[d]
                                         /\ clock'[d] = clock[d] /\ outdated'[d] = outdated[d],
             AuthorityOf(c)'
      PROVE  /\ \A g \in Gates : CurrentOrOlder(granted[g])'
             /\ \A d \in Callers : AuthorityOf(d)'
  <2>1. ASSUME NEW d \in Callers PROVE AuthorityOf(d)'
    <3>1. CASE d = c
      BY <1>4, <3>1
    <3>2. CASE d # c
      BY <1>2, <1>4, <3>2, AuthorityKept
    <3> QED
      BY <3>1, <3>2
  <2> QED
    BY <1>2, <1>4, <2>1 DEF CurrentOrOlder, OlderThan
<1>5. ASSUME NEW c \in Callers, Submit(c)
      PROVE  /\ \A g \in Gates : CurrentOrOlder(granted[g])'
             /\ \A d \in Callers : AuthorityOf(d)'
  <2>1. PICK request \in Requests :
          attempt' = [attempt EXCEPT ![c] = [request |-> request, lease |-> granted[GateOf[c]]]]
    BY <1>5 DEF Submit
  <2>2. /\ pc' = [pc EXCEPT ![c] = "waiting"]
        /\ UNCHANGED <<lease, granted, approved, clock, outdated>>
    BY <1>5 DEF Submit, worldVars, history
  <2>3. attempt'[c].lease = granted[GateOf[c]] /\ pc'[c] = "waiting"
    BY <1>1, <2>1, <2>2
  <2>4. AuthorityOf(c)'
    BY <1>1, <1>2, <2>2, <2>3 DEF AuthorityOf, CurrentOrOlder, OlderThan
  <2> QED
    BY <1>1, <1>4, <2>1, <2>2, <2>4
<1>6. ASSUME NEW c \in Callers, Enter(c)
      PROVE  /\ \A g \in Gates : CurrentOrOlder(granted[g])'
             /\ \A d \in Callers : AuthorityOf(d)'
  <2>1. /\ pc[c] = "waiting" /\ pc' = [pc EXCEPT ![c] = "lease"]
        /\ clock' = [clock EXCEPT ![c] = now]
        /\ outdated' = [outdated EXCEPT ![c] = OutdatedOnEntry(c)]
        /\ UNCHANGED <<lease, granted, approved, attempt>>
    BY <1>6 DEF Enter, worldVars
  <2>2. pc'[c] = "lease" /\ clock'[c] = now /\ outdated'[c] = OutdatedOnEntry(c)
    BY <1>1, <2>1
  <2>3. CurrentOrOlder(attempt[c].lease)
    BY <1>2, <2>1 DEF AuthorityOf
  <2>4. OutdatedOnEntry(c) => \/ OlderThan(attempt[c].lease, lease)
                              \/ attempt[c].lease.expires <= now
                              \/ RequestOf(c).approval \notin approved
                              \/ ApprovalOf[RequestOf(c).approval].expires <= now
    BY <2>3 DEF OutdatedOnEntry, CurrentOrOlder
  <2>5. AuthorityOf(c)'
    BY <2>1, <2>2, <2>3, <2>4 DEF AuthorityOf, CurrentOrOlder, OlderThan, ApprovalOver, RequestOf
  <2> QED
    BY <1>1, <1>4, <2>1, <2>5
<1>7. ASSUME NEW c \in Callers, NEW code, Leave(c, code)
      PROVE  /\ \A g \in Gates : CurrentOrOlder(granted[g])'
             /\ \A d \in Callers : AuthorityOf(d)'
  <2>1. /\ pc' = [pc EXCEPT ![c] = "idle"] /\ attempt' = [attempt EXCEPT ![c] = NoAttempt]
        /\ clock' = [clock EXCEPT ![c] = 0] /\ outdated' = [outdated EXCEPT ![c] = FALSE]
        /\ UNCHANGED <<lease, granted, approved>>
    BY <1>7 DEF Leave, worldVars
  <2>2. AuthorityOf(c)'
    BY <1>1, <2>1 DEF AuthorityOf
  <2> QED
    BY <1>1, <1>4, <2>1, <2>2
<1>8. ASSUME NEW c \in Callers, NEW step \in InSection, GoTo(c, step), AuthorityOf(c)'
      PROVE  /\ \A g \in Gates : CurrentOrOlder(granted[g])'
             /\ \A d \in Callers : AuthorityOf(d)'
  BY <1>1, <1>4, <1>8 DEF GoTo, worldVars, history
<1>9. ASSUME NEW c \in Callers, VerifyLease(c)
      PROVE  /\ \A g \in Gates : CurrentOrOlder(granted[g])'
             /\ \A d \in Callers : AuthorityOf(d)'
  <2>1. /\ pc[c] = "lease" /\ attempt[c].lease = lease /\ lease.expires > clock[c]
        /\ GoTo(c, "approval")
    BY <1>9 DEF VerifyLease, LeaseMatches
  <2>2. ~OlderThan(lease, lease) /\ clock[c] \in Nat
    BY <1>1, GateAssumption DEF OlderThan
  <2>3. outdated[c] => ApprovalOver(c)
    BY <1>1, <1>2, <2>1, <2>2 DEF AuthorityOf
  <2>4. /\ pc'[c] = "approval" /\ UNCHANGED <<attempt, outdated, clock, approved, lease>>
    BY <1>1, <2>1 DEF GoTo, worldVars, history
  <2>5. AuthorityOf(c)'
    BY <2>1, <2>3, <2>4 DEF AuthorityOf, ApprovalOver, RequestOf, CurrentOrOlder
  <2> QED
    BY <1>8, <2>1, <2>5 DEF InSection
<1>10. ASSUME NEW c \in Callers, VerifyApproval(c)
       PROVE  /\ \A g \in Gates : CurrentOrOlder(granted[g])'
              /\ \A d \in Callers : AuthorityOf(d)'
  <2>1. CASE Reject(c, "resource_frozen")
    BY <1>7, <2>1 DEF Reject
  <2>2. CASE GoTo(c, "read")
    <3>1. pc[c] = "approval" /\ ApprovalAccepted(c)
      BY <1>10 DEF VerifyApproval
    <3>2. ~ApprovalOver(c)
      <4>1. ApprovalOf[RequestOf(c).approval].expires > clock[c] /\ RequestOf(c).approval \in approved
        BY <3>1 DEF ApprovalAccepted
      <4>2. ApprovalOf[RequestOf(c).approval].expires \in Nat /\ clock[c] \in Nat
        BY <1>1, <3>1, AttemptParts, GateAssumption
      <4> QED
        BY <4>1, <4>2 DEF ApprovalOver
    <3>3. ~outdated[c]
      BY <1>2, <3>1, <3>2 DEF AuthorityOf
    <3>4. pc'[c] = "read" /\ UNCHANGED <<attempt, outdated, clock, approved, lease>>
      BY <1>1, <2>2 DEF GoTo, worldVars, history
    <3>5. AuthorityOf(c)'
      BY <1>2, <3>1, <3>3, <3>4 DEF AuthorityOf, CurrentOrOlder, OlderThan
    <3> QED
      BY <1>8, <2>2, <3>5 DEF InSection
  <2> QED
    BY <1>10, <2>1, <2>2 DEF VerifyApproval
<1>11. ASSUME NEW c \in Callers, ReadEffective(c)
       PROVE  /\ \A g \in Gates : CurrentOrOlder(granted[g])'
              /\ \A d \in Callers : AuthorityOf(d)'
  <2>1. pc[c] = "read" /\ GoTo(c, "apply")
    BY <1>11 DEF ReadEffective
  <2>2. pc'[c] = "apply" /\ UNCHANGED <<attempt, outdated, clock, approved, lease>>
    BY <1>1, <2>1 DEF GoTo, worldVars, history
  <2>3. AuthorityOf(c)'
    BY <1>2, <2>1, <2>2 DEF AuthorityOf, CurrentOrOlder, OlderThan
  <2> QED
    BY <1>8, <2>1, <2>3 DEF InSection
<1>12. CASE UNCHANGED <<pc, attempt, clock, outdated, lease, granted, approved>>
  BY <1>2, <1>12, AuthorityKept DEF CurrentOrOlder, OlderThan
<1>13. CASE Renew \/ \E g \in Gates : TakeOver(g)
  <2>1. UNCHANGED <<pc, attempt, clock, outdated, approved>>
    BY <1>13 DEF Renew, TakeOver, Grant, gateVars, history
  <2>2. ASSUME NEW g \in Gates PROVE CurrentOrOlder(granted[g])'
    <3>1. \/ granted'[g] = lease'
          \/ granted'[g] = granted[g] /\ granted[g] \in Lease
      BY <1>1, <1>13 DEF Renew, TakeOver, Grant
    <3> QED
      BY <1>2, <1>13, <3>1, GrantAdvances DEF CurrentOrOlder, OlderThan
  <2>3. ASSUME NEW c \in Callers PROVE AuthorityOf(c)'
    <3>1. CASE pc[c] = "idle"
      BY <2>1, <3>1 DEF AuthorityOf
    <3>2. CASE pc[c] # "idle"
      <4>1. attempt[c].lease \in Lease
        BY <3>2, AttemptParts
      <4>2. /\ CurrentOrOlder(attempt[c].lease) => OlderThan(attempt[c].lease, lease')
            /\ OlderThan(attempt[c].lease, lease) => OlderThan(attempt[c].lease, lease')
        BY <1>13, <4>1, GrantAdvances
      <4>3. ApprovalOver(c)' <=> ApprovalOver(c)
        BY <2>1 DEF ApprovalOver, RequestOf
      <4>4. AuthorityOf(c)
        BY <1>2
      <4> QED
        BY <2>1, <4>2, <4>3, <4>4 DEF AuthorityOf, CurrentOrOlder, OlderThan
    <3> QED
      BY <3>1, <3>2
  <2> QED
    BY <2>2, <2>3
<1>14. ASSUME NEW a \in Approvals, Revoke(a)
       PROVE  /\ \A g \in Gates : CurrentOrOlder(granted[g])'
              /\ \A d \in Callers : AuthorityOf(d)'
  <2>1. UNCHANGED <<pc, attempt, clock, outdated, lease, granted>> /\ approved' \subseteq approved
    BY <1>14 DEF Revoke, gateVars, history
  <2>2. ASSUME NEW d \in Callers PROVE AuthorityOf(d)'
    <3>1. AuthorityOf(d)
      BY <1>2
    <3>2. ApprovalOver(d) => ApprovalOver(d)'
      BY <2>1 DEF ApprovalOver, RequestOf
    <3> QED
      BY <2>1, <3>1, <3>2 DEF AuthorityOf, CurrentOrOlder, OlderThan
  <2> QED
    BY <1>2, <2>1, <2>2 DEF CurrentOrOlder, OlderThan
<1>15. ASSUME NEW g \in Gates, Restart(g)
       PROVE  /\ \A h \in Gates : CurrentOrOlder(granted[h])'
              /\ \A d \in Callers : AuthorityOf(d)'
  <2>1. UNCHANGED <<lease, granted, approved>>
    BY <1>15 DEF Restart, worldVars
  <2>2. ASSUME NEW d \in Callers PROVE AuthorityOf(d)'
    <3>1. CASE GateOf[d] = g
      <4>1. pc'[d] = "idle"
        BY <1>15, <3>1 DEF Restart
      <4> QED
        BY <4>1 DEF AuthorityOf
    <3>2. CASE GateOf[d] # g
      <4>1. pc'[d] = pc[d] /\ attempt'[d] = attempt[d] /\ clock'[d] = clock[d]
        BY <1>15, <3>2 DEF Restart
      <4>2. outdated'[d] = outdated[d]
        BY <1>1, <1>15, <3>2 DEF Restart
      <4> QED
        BY <1>2, <2>1, <4>1, <4>2, AuthorityKept
    <3> QED
      BY <3>1, <3>2
  <2> QED
    BY <1>2, <2>1, <2>2 DEF CurrentOrOlder, OlderThan
<1>16. CASE Tick \/ EditDisk \/ UNCHANGED vars
  BY <1>12, <1>16 DEF Tick, EditDisk, vars, gateVars, worldVars, history
<1>17. ASSUME NEW c \in Callers, Proceed(c)
       PROVE  /\ \A g \in Gates : CurrentOrOlder(granted[g])'
              /\ \A d \in Callers : AuthorityOf(d)'
  <2>1. CASE RejectLease(c) \/ RejectApproval(c)
    BY <1>7, <2>1 DEF RejectLease, RejectApproval, Reject
  <2>2. CASE FreezeUnread(c) \/ FreezeDrifted(c) \/ FreezeFailed(c) \/ FreezeMismatched(c)
    BY <1>7, <2>2 DEF FreezeUnread, FreezeDrifted, FreezeFailed, FreezeMismatched, Freeze
  <2>3. CASE ReportApplied(c)
    BY <1>7, <2>3 DEF ReportApplied
  <2>4. CASE ApplyApproved(c)
    BY <1>12, <2>4 DEF ApplyApproved, gateVars, worldVars
  <2> QED
    BY <1>9, <1>10, <1>11, <1>17, <2>1, <2>2, <2>3, <2>4 DEF Proceed
<1>18. ASSUME NEW c \in Callers, RejectInvalid(c)
       PROVE  /\ \A g \in Gates : CurrentOrOlder(granted[g])'
              /\ \A d \in Callers : AuthorityOf(d)'
  BY <1>7, <1>18 DEF RejectInvalid, Reject
<1> QED
  BY <1>5, <1>6, <1>13, <1>14, <1>15, <1>16, <1>17, <1>18 DEF Next, World, Lock

-----------------------------------------------------------------------------
(* The actuator's calls.                                                   *)

\* The part of CallFollowsRequest that speaks of one caller.
FollowsRequest(c) ==
  /\ pc[c] # "apply" => call[c] = NoCall
  /\ pc[c] \in {"read", "apply"} =>
       ApprovalCovers(ApprovalOf[RequestOf(c).approval], RequestOf(c))
  /\ call[c].step \in {"before", "update", "readback"} =>
       Accepts(RequestOf(c)) /\ call[c].limit = RequestOf(c).limit
  /\ call[c].step = "before" => call[c].seen = NotRead
  /\ call[c].step = "done" /\ SameLimit(call[c].value, RequestOf(c).limit) => observed[c]

LEMMA FollowsKept ==
  ASSUME NEW c \in Callers, FollowsRequest(c),
         pc'[c] = pc[c], attempt'[c] = attempt[c], call'[c] = call[c], observed'[c] = observed[c]
  PROVE  FollowsRequest(c)'
BY DEF FollowsRequest, RequestOf, ApprovalCovers, Accepts, SameLimit

LEMMA CallFields ==
  ASSUME NEW step, NEW limit, NEW seen, NEW value
  PROVE  /\ At(step, limit, seen, value).step = step
         /\ At(step, limit, seen, value).limit = limit
         /\ At(step, limit, seen, value).seen = seen
         /\ At(step, limit, seen, value).value = value
BY DEF At

\* Outside the actuator there is no call to follow.
LEMMA NoCallFollows ==
  ASSUME NEW c \in Callers, call'[c] = NoCall, pc'[c] \notin {"read", "apply"}
  PROVE  FollowsRequest(c)'
BY CallFields DEF FollowsRequest, NoCall

\* The actuator finishes with a value only if the disk carried it.
LEMMA ActuatorFollows ==
  ASSUME TypeOK, NEW c \in Callers, FollowsRequest(c), ApplyApproved(c)
  PROVE  FollowsRequest(c)'
<1>1. /\ pc[c] = "apply" /\ ActuatorStep(c) /\ UNCHANGED <<pc, attempt>>
      /\ observed' = [observed EXCEPT ![c] = call'[c].step = "done" /\ Carries(c, disk)]
  BY DEF ApplyApproved, gateVars
<1>2. /\ call \in [Callers -> Call] /\ observed \in [Callers -> BOOLEAN]
      /\ RequestOf(c).limit \in Nat /\ disk.limit \in Nat /\ Epsilon \in Nat
  BY <1>1, AttemptParts, GateAssumption DEF TypeOK, ActuatorTypeOK, Disk
<1>3. observed'[c] = (call'[c].step = "done" /\ Carries(c, disk))
  BY <1>1, <1>2
<1>4. ApprovalCovers(ApprovalOf[RequestOf(c).approval], RequestOf(c))
  BY <1>1 DEF FollowsRequest
<1>5. CASE call' = [call EXCEPT ![c] = FailedCall]
  <2>1. call'[c].step = "failed"
    BY <1>2, <1>5, CallFields DEF FailedCall
  <2> QED
    BY <1>1, <1>4, <2>1 DEF FollowsRequest, RequestOf, ApprovalCovers
<1>6. CASE NothingToWrite(c)
  <2>1. call'[c] = At("done", call[c].limit, NotRead, call[c].limit)
    BY <1>2, <1>6 DEF NothingToWrite
  <2>2. call'[c].step = "done"
    BY <2>1, CallFields
  <2>3. /\ Accepts(RequestOf(c)) /\ call[c].limit = RequestOf(c).limit
        /\ call[c].seen = NotRead /\ disk.limit = call[c].limit
    BY <1>6 DEF NothingToWrite, FollowsRequest
  <2>4. Carries(c, disk)
    BY <1>2, <2>3 DEF Carries, Accepts, ResourceOf, SameLimit
  <2> QED
    BY <1>1, <1>3, <1>4, <2>2, <2>4 DEF FollowsRequest, RequestOf, ApprovalCovers
<1>7. CASE ReadBefore(c)
  <2>1. call'[c] = At("update", call[c].limit, disk, 0)
    BY <1>2, <1>7 DEF ReadBefore
  <2>2. call'[c].step = "update" /\ call'[c].limit = call[c].limit
    BY <2>1, CallFields
  <2>3. Accepts(RequestOf(c)) /\ call[c].limit = RequestOf(c).limit
    BY <1>7 DEF ReadBefore, FollowsRequest
  <2> QED
    BY <1>1, <1>4, <2>2, <2>3 DEF FollowsRequest, RequestOf, ApprovalCovers, Accepts
<1>8. CASE UpdateSucceeds(c)
  <2>1. call'[c] = At("readback", call[c].limit, call[c].seen, 0)
    BY <1>2, <1>8 DEF UpdateSucceeds
  <2>2. call'[c].step = "readback" /\ call'[c].limit = call[c].limit
    BY <2>1, CallFields
  <2>3. Accepts(RequestOf(c)) /\ call[c].limit = RequestOf(c).limit
    BY <1>8 DEF UpdateSucceeds, UpdateLands, FollowsRequest
  <2> QED
    BY <1>1, <1>4, <2>2, <2>3 DEF FollowsRequest, RequestOf, ApprovalCovers, Accepts
<1>9. CASE ReadBack(c)
  <2>1. call'[c] = At("done", call[c].limit, call[c].seen, disk.limit)
    BY <1>2, <1>9 DEF ReadBack
  <2>2. call'[c].step = "done" /\ call'[c].value = disk.limit
    BY <2>1, CallFields
  <2>3. Accepts(RequestOf(c)) /\ disk.device = call[c].seen.device
    BY <1>9 DEF ReadBack, FollowsRequest
  <2>4. SameLimit(disk.limit, RequestOf(c).limit) => Carries(c, disk)
    BY <2>3 DEF Carries, Accepts, ResourceOf
  <2> QED
    BY <1>1, <1>3, <1>4, <2>2, <2>4 DEF FollowsRequest, RequestOf, ApprovalCovers, SameLimit
<1> QED
  BY <1>1, <1>5, <1>6, <1>7, <1>8, <1>9 DEF ActuatorStep, ReadBeforeFails, UpdateLandsUnreported,
     UpdateFails, ReadBackFails

LEMMA CallPreserved ==
  ASSUME TypeOK, CallFollowsRequest, [Next]_vars
  PROVE  CallFollowsRequest'
<1>1. /\ pc \in [Callers -> Steps] /\ call \in [Callers -> Call]
      /\ attempt \in [Callers -> Attempt \cup {NoAttempt}] /\ observed \in [Callers -> BOOLEAN]
  BY DEF TypeOK, ActuatorTypeOK
<1>2. \A c \in Callers : FollowsRequest(c)
  BY DEF CallFollowsRequest, FollowsRequest
<1>3. SUFFICES \A c \in Callers : FollowsRequest(c)'
  BY DEF CallFollowsRequest, FollowsRequest
<1>4. ASSUME NEW c \in Callers, FollowsRequest(c)',
             \A d \in Callers : d # c => /\ pc'[d] = pc[d] /\ attempt'[d] = attempt[d]
                                         /\ call'[d] = call[d] /\ observed'[d] = observed[d]
      PROVE  \A d \in Callers : FollowsRequest(d)'
  BY <1>2, <1>4, FollowsKept
<1>5. ASSUME NEW c \in Callers, NEW code, Leave(c, code)
      PROVE  \A d \in Callers : FollowsRequest(d)'
  <2>1. /\ pc' = [pc EXCEPT ![c] = "idle"] /\ attempt' = [attempt EXCEPT ![c] = NoAttempt]
        /\ call' = [call EXCEPT ![c] = NoCall] /\ observed' = [observed EXCEPT ![c] = FALSE]
    BY <1>5 DEF Leave
  <2>2. FollowsRequest(c)'
    BY <1>1, <2>1, NoCallFollows
  <2> QED
    BY <1>1, <1>4, <2>1, <2>2
<1>6. ASSUME NEW c \in Callers, Submit(c) \/ Enter(c)
      PROVE  \A d \in Callers : FollowsRequest(d)'
  <2>1. /\ pc[c] \in {"idle", "waiting"} /\ pc'[c] \in {"waiting", "lease"}
        /\ UNCHANGED <<call, observed>>
        /\ \A d \in Callers : d # c => pc'[d] = pc[d] /\ attempt'[d] = attempt[d]
    BY <1>1, <1>6 DEF Submit, Enter, history
  <2>2. call'[c] = NoCall
    BY <1>2, <2>1 DEF FollowsRequest
  <2>3. FollowsRequest(c)'
    BY <2>1, <2>2, NoCallFollows
  <2> QED
    BY <1>4, <2>1, <2>3
<1>7. ASSUME NEW c \in Callers, VerifyLease(c)
      PROVE  \A d \in Callers : FollowsRequest(d)'
  <2>1. /\ pc[c] = "lease" /\ pc' = [pc EXCEPT ![c] = "approval"] /\ UNCHANGED <<attempt, call, observed>>
    BY <1>7 DEF VerifyLease, GoTo, history
  <2>2. call'[c] = NoCall /\ pc'[c] = "approval"
    BY <1>1, <1>2, <2>1 DEF FollowsRequest
  <2>3. FollowsRequest(c)'
    BY <2>2, NoCallFollows
  <2> QED
    BY <1>1, <1>4, <2>1, <2>3
<1>8. ASSUME NEW c \in Callers, VerifyApproval(c)
      PROVE  \A d \in Callers : FollowsRequest(d)'
  <2>1. CASE Reject(c, "resource_frozen")
    BY <1>5, <2>1 DEF Reject
  <2>2. CASE GoTo(c, "read") /\ UNCHANGED call
    <3>1. /\ pc[c] = "approval" /\ pc' = [pc EXCEPT ![c] = "read"]
          /\ UNCHANGED <<attempt, call, observed>>
          /\ ApprovalCovers(ApprovalOf[RequestOf(c).approval], RequestOf(c))
      BY <1>8, <2>2 DEF VerifyApproval, ApprovalAccepted, GoTo, history
    <3>2. call[c] = NoCall /\ pc'[c] = "read"
      BY <1>1, <1>2, <3>1 DEF FollowsRequest
    <3>3. FollowsRequest(c)'
      BY <3>1, <3>2, CallFields DEF FollowsRequest, NoCall, RequestOf, ApprovalCovers
    <3> QED
      BY <1>1, <1>4, <3>1, <3>3
  <2> QED
    BY <1>8, <2>1, <2>2 DEF VerifyApproval
<1>9. ASSUME NEW c \in Callers, ReadEffective(c)
      PROVE  \A d \in Callers : FollowsRequest(d)'
  <2>1. /\ pc[c] = "read" /\ pc' = [pc EXCEPT ![c] = "apply"]
        /\ UNCHANGED <<attempt, observed>> /\ BeginApply(c, RequestOf(c))
    BY <1>9 DEF ReadEffective, GoTo, history
  <2>2. ApprovalCovers(ApprovalOf[RequestOf(c).approval], RequestOf(c)) /\ pc'[c] = "apply"
    BY <1>1, <1>2, <2>1 DEF FollowsRequest
  <2>3. call'[c] = IF Accepts(RequestOf(c)) THEN At("before", RequestOf(c).limit, NotRead, 0)
                   ELSE FailedCall
    BY <1>1, <2>1 DEF BeginApply
  <2>4. CASE Accepts(RequestOf(c))
    <3>1. /\ call'[c].step = "before" /\ call'[c].limit = RequestOf(c).limit
          /\ call'[c].seen = NotRead
      BY <2>3, <2>4, CallFields
    <3>2. FollowsRequest(c)'
      BY <2>1, <2>2, <2>4, <3>1 DEF FollowsRequest, RequestOf, ApprovalCovers, Accepts
    <3> QED
      BY <1>1, <1>4, <2>1, <3>2 DEF BeginApply
  <2>5. CASE ~Accepts(RequestOf(c))
    <3>1. call'[c].step = "failed"
      BY <2>3, <2>5, CallFields DEF FailedCall
    <3>2. FollowsRequest(c)'
      BY <2>1, <2>2, <3>1 DEF FollowsRequest, RequestOf, ApprovalCovers
    <3> QED
      BY <1>1, <1>4, <2>1, <3>2 DEF BeginApply
  <2> QED
    BY <2>4, <2>5
<1>10. ASSUME NEW c \in Callers, ApplyApproved(c)
       PROVE  \A d \in Callers : FollowsRequest(d)'
  <2>1. FollowsRequest(c)'
    BY <1>2, <1>10, ActuatorFollows
  <2>2. \A d \in Callers : d # c => call'[d] = call[d]
    BY <1>1, <1>10 DEF ApplyApproved, ActuatorStep, ReadBeforeFails, NothingToWrite, ReadBefore,
       UpdateSucceeds, UpdateLandsUnreported, UpdateFails, ReadBackFails, ReadBack
  <2>3. /\ UNCHANGED <<pc, attempt>>
        /\ observed' = [observed EXCEPT ![c] = call'[c].step = "done" /\ Carries(c, disk)]
    BY <1>10 DEF ApplyApproved, gateVars
  <2> QED
    BY <1>1, <1>4, <2>1, <2>2, <2>3
<1>11. CASE UNCHANGED <<pc, attempt, call, observed>>
  BY <1>2, <1>11, FollowsKept
<1>12. ASSUME NEW g \in Gates, Restart(g)
       PROVE  \A d \in Callers : FollowsRequest(d)'
  <2> SUFFICES ASSUME NEW d \in Callers PROVE FollowsRequest(d)'
    OBVIOUS
  <2>1. CASE GateOf[d] = g
    BY <1>12, <2>1, NoCallFollows DEF Restart
  <2>2. CASE GateOf[d] # g
    <3>1. observed'[d] = observed[d]
      BY <1>1, <1>12, <2>2 DEF Restart
    <3>2. pc'[d] = pc[d] /\ attempt'[d] = attempt[d] /\ call'[d] = call[d]
      BY <1>12, <2>2 DEF Restart
    <3> QED
      BY <1>2, <3>1, <3>2, FollowsKept
  <2> QED
    BY <2>1, <2>2
<1>13. CASE Tick \/ Renew \/ EditDisk \/ (\E g \in Gates : TakeOver(g))
            \/ (\E a \in Approvals : Revoke(a)) \/ UNCHANGED vars
  BY <1>11, <1>13 DEF Tick, Renew, EditDisk, ExternalChange, TakeOver, Revoke, Grant, vars,
     gateVars, history
<1>14. ASSUME NEW c \in Callers, RejectLease(c) \/ RejectApproval(c) \/ RejectInvalid(c)
       PROVE  \A d \in Callers : FollowsRequest(d)'
  BY <1>5, <1>14 DEF RejectLease, RejectApproval, RejectInvalid, Reject
<1>15. ASSUME NEW c \in Callers, FreezeUnread(c) \/ FreezeDrifted(c) \/ FreezeFailed(c)
                                   \/ FreezeMismatched(c) \/ ReportApplied(c)
       PROVE  \A d \in Callers : FollowsRequest(d)'
  BY <1>5, <1>15 DEF FreezeUnread, FreezeDrifted, FreezeFailed, FreezeMismatched, Freeze, ReportApplied
<1> QED
  BY <1>6, <1>7, <1>8, <1>9, <1>10, <1>12, <1>13, <1>14, <1>15 DEF Next, World, Lock, Proceed

-----------------------------------------------------------------------------
(* The invariant and what follows from it.                                 *)

LEMMA InitEstablishes == Init => IInv
<1> SUFFICES ASSUME Init PROVE IInv
  OBVIOUS
<1>1. TypeOK
  BY InitTypes
<1>2. /\ \A c \in Callers : pc[c] = "idle" /\ call[c] = NoCall
      /\ \A g \in Gates : mu[g] = Nobody /\ frozen[g] = {} /\ unconfirmed[g] = {}
  BY DEF Init, ActuatorInit
<1>3. MutexHeldInside /\ FrozenExcluded /\ UnconfirmedIsHeld
  BY <1>2, GateAssumption DEF MutexHeldInside, FrozenExcluded, UnconfirmedIsHeld, InSection
<1>4. AuthorityTracked
  <2>1. \A g \in Gates : granted[g] = lease \/ granted[g].generation = 0
    BY DEF Init
  <2>2. lease.generation = 1
    BY DEF Init
  <2>3. \A g \in Gates : CurrentOrOlder(granted[g])
    BY <2>1, <2>2 DEF CurrentOrOlder, OlderThan
  <2> QED
    BY <1>2, <2>3 DEF AuthorityTracked
<1>5. CallFollowsRequest
  <2>1. NoCall.step = "none"
    BY CallFields DEF NoCall
  <2> QED
    BY <1>2, <2>1 DEF CallFollowsRequest
<1> QED
  BY <1>1, <1>3, <1>4, <1>5 DEF IInv

\* IInv holds in every reachable state.
THEOREM InductiveInvariant == Spec => []IInv
<1>1. Init => IInv
  BY InitEstablishes
<1>2. IInv /\ [Next]_vars => IInv'
  BY NextTypes, MutexPreserved, FrozenPreserved, UnconfirmedPreserved, AuthorityPreserved,
     CallPreserved DEF IInv
<1> QED
  BY <1>1, <1>2, PTL DEF Spec

\* A frozen resource is behind a closed door: no call that passed the frozen
\* check before the freeze is still on its way to the disk.
THEOREM FreezeExcludes == Spec => []FrozenExcluded
<1>1. IInv => FrozenExcluded
  BY DEF IInv
<1> QED
  BY <1>1, InductiveInvariant, PTL

\* No ambiguous write outlives its call unfrozen, whichever step failed.
THEOREM AmbiguityFreezes == Spec => []AmbiguousWriteFreezes
<1>1. ASSUME IInv PROVE AmbiguousWriteFreezes
  BY <1>1, GateAssumption DEF IInv, UnconfirmedIsHeld, AmbiguousWriteFreezes
<1> QED
  BY <1>1, InductiveInvariant, PTL

\* Only an update that lands changes the disk in a step that changes a call.
LEMMA OnlyUpdatesWrite ==
  ASSUME Next, NEW c \in Callers, IInv, Writes(c)
  PROVE  pc[c] = "apply" /\ UpdateLands(c)
<1>1. call \in [Callers -> Call]
  BY DEF IInv, TypeOK, ActuatorTypeOK
<1>2. ASSUME World PROVE FALSE
  BY <1>2 DEF Writes, World, Tick, Renew, EditDisk, ExternalChange, TakeOver, Grant, Revoke, Restart
<1>3. ASSUME NEW d \in Callers, Submit(d) \/ Lock(d) PROVE FALSE
  BY <1>3 DEF Writes, Submit, Lock, Enter, RejectInvalid, Reject, Leave
<1>4. ASSUME NEW d \in Callers, Proceed(d) PROVE ApplyApproved(d)
  BY <1>4 DEF Writes, Proceed, RejectLease, VerifyLease, RejectApproval, VerifyApproval, FreezeUnread,
     FreezeDrifted, ReadEffective, FreezeFailed, FreezeMismatched, ReportApplied, Reject, Freeze,
     Leave, GoTo
<1>5. PICK d \in Callers : ApplyApproved(d)
  BY <1>2, <1>3, <1>4 DEF Next
<1>6. UpdateLands(d) /\ pc[d] = "apply" /\ \E k : call' = [call EXCEPT ![d] = k]
  BY <1>5 DEF Writes, ApplyApproved, ActuatorStep, ReadBeforeFails, NothingToWrite, ReadBefore,
     UpdateSucceeds, UpdateLandsUnreported, UpdateFails, ReadBackFails, ReadBack
<1>7. d = c
  BY <1>1, <1>6 DEF Writes
<1> QED
  BY <1>6, <1>7

\* A call that got the mutex without a current lease or approval never writes,
\* whatever is renewed, granted or revoked while it is inside.
THEOREM AuthorityGuardsWrites == Spec => OutdatedNeverWrites
<1>1. ASSUME IInv, Next, NEW c \in Callers, Writes(c)
      PROVE  ~outdated[c]
  BY <1>1, OnlyUpdatesWrite DEF IInv, AuthorityTracked
<1>2. IInv /\ [Next]_vars => [\A c \in Callers : Writes(c) => ~outdated[c]]_vars
  BY <1>1
<1> QED
  BY <1>2, InductiveInvariant, PTL DEF Spec, OutdatedNeverWrites

\* Every write is within the binding's envelope and the approval of its request.
THEOREM ApprovalGuardsWrites == Spec => WritesAreApproved
<1>1. ASSUME IInv, Next, NEW c \in Callers, Writes(c)
      PROVE  LET approval == ApprovalOf[RequestOf(c).approval]
             IN  /\ disk'.limit % Byte = 0
                 /\ MinimumLimit <= disk'.limit /\ disk'.limit <= MaximumLimit
                 /\ approval.resource = BoundResource
                 /\ Within(disk'.limit, [min |-> approval.min, max |-> approval.max])
  <2>1. pc[c] = "apply" /\ UpdateLands(c)
    BY <1>1, OnlyUpdatesWrite
  <2>2. call[c].step = "update" /\ disk'.limit = call[c].limit
    BY <1>1, <2>1, UpdateReplacesLimit DEF IInv, UpdateLands
  <2>3. /\ Accepts(RequestOf(c)) /\ call[c].limit = RequestOf(c).limit
        /\ ApprovalCovers(ApprovalOf[RequestOf(c).approval], RequestOf(c))
    BY <1>1, <2>1, <2>2 DEF IInv, CallFollowsRequest
  <2>4. disk'.limit = RequestOf(c).limit
    BY <2>2, <2>3
  <2>5. RequestOf(c).limit \in Nat /\ MinimumLimit \in Nat \ {0}
    BY <1>1, <2>1, AttemptParts, ActuatorAssumption DEF IInv
  <2>6. RequestOf(c).limit > 0
    BY <2>3, <2>5 DEF Accepts
  <2> QED
    BY <2>3, <2>4, <2>6 DEF Accepts, ApprovalCovers, Within
<1>2. IInv /\ [Next]_vars =>
        [\A c \in Callers : Writes(c) =>
           LET approval == ApprovalOf[RequestOf(c).approval]
           IN  /\ disk'.limit % Byte = 0
               /\ MinimumLimit <= disk'.limit /\ disk'.limit <= MaximumLimit
               /\ approval.resource = BoundResource
               /\ Within(disk'.limit, [min |-> approval.min, max |-> approval.max])]_vars
  BY <1>1
<1> QED
  BY <1>2, InductiveInvariant, PTL DEF Spec, WritesAreApproved

\* The digest makes the actuator's write an update of bps_wr alone.
THEOREM DigestProtectsEdits == Spec => OperatorEditSurvives
<1>1. ASSUME IInv, Next, disk'.device # disk.device \/ disk'.rest # disk.rest
      PROVE  UNCHANGED call
  <2>1. ASSUME NEW c \in Callers, Writes(c) PROVE FALSE
    <3>1. UpdateLands(c)
      BY <1>1, <2>1, OnlyUpdatesWrite
    <3> QED
      BY <1>1, <3>1, UpdateReplacesLimit DEF IInv
  <2>2. \A c \in Callers : call'[c] = call[c]
    BY <1>1, <2>1 DEF Writes
  <2>3. call \in [Callers -> Call] /\ call' \in [Callers -> Call]
    BY <1>1, NextTypes DEF IInv, TypeOK, ActuatorTypeOK
  <2> QED
    BY <2>2, <2>3
<1>2. IInv /\ [Next]_vars => [disk'.device # disk.device \/ disk'.rest # disk.rest => UNCHANGED call]_vars
  BY <1>1
<1> QED
  BY <1>2, InductiveInvariant, PTL DEF Spec, OperatorEditSurvives

\* "applied" rests on an observation of the disk, made by the actuator's last read.
THEOREM AppliedRestsOnObservation == Spec => AppliedWasObserved
<1>1. ASSUME IInv, Next, NEW c \in Callers, result'[c] = "applied", result[c] # "applied"
      PROVE  observed[c]
  <2>1. result \in [Callers -> Codes]
    BY <1>1 DEF IInv, TypeOK
  <2>2. ASSUME NEW d \in Callers, NEW code, Leave(d, code), code # "applied" PROVE FALSE
    BY <1>1, <2>1, <2>2 DEF Leave
  <2>3. ASSUME World PROVE FALSE
    BY <1>1, <2>3 DEF World, Tick, Renew, EditDisk, TakeOver, Grant, Revoke, Restart, gateVars
  <2>4. ASSUME NEW d \in Callers, Submit(d) \/ Enter(d) PROVE FALSE
    BY <1>1, <2>1, <2>4 DEF Submit, Enter
  <2>5. ASSUME NEW d \in Callers, RejectInvalid(d) \/ RejectLease(d) \/ RejectApproval(d) PROVE FALSE
    BY <2>2, <2>5 DEF RejectInvalid, RejectLease, RejectApproval, Reject
  <2>6. ASSUME NEW d \in Callers, VerifyLease(d) \/ ReadEffective(d) \/ ApplyApproved(d) PROVE FALSE
    BY <1>1, <2>6 DEF VerifyLease, ReadEffective, ApplyApproved, GoTo, gateVars
  <2>7. ASSUME NEW d \in Callers, VerifyApproval(d) PROVE FALSE
    BY <1>1, <2>2, <2>7 DEF VerifyApproval, Reject, GoTo
  <2>8. ASSUME NEW d \in Callers,
               FreezeUnread(d) \/ FreezeDrifted(d) \/ FreezeFailed(d) \/ FreezeMismatched(d)
        PROVE  FALSE
    BY <2>2, <2>8 DEF FreezeUnread, FreezeDrifted, FreezeFailed, FreezeMismatched, Freeze
  <2>9. PICK d \in Callers : ReportApplied(d)
    BY <1>1, <2>3, <2>4, <2>5, <2>6, <2>7, <2>8 DEF Next, Lock, Proceed
  <2>10. d = c
    BY <1>1, <2>1, <2>9 DEF ReportApplied, Leave
  <2> QED
    BY <1>1, <2>9, <2>10 DEF ReportApplied, ReadBackMatches, IInv, CallFollowsRequest
<1>2. IInv /\ [Next]_vars =>
        [\A c \in Callers : result'[c] = "applied" /\ result[c] # "applied" => observed[c]]_vars
  BY <1>1
<1> QED
  BY <1>2, InductiveInvariant, PTL DEF Spec, AppliedWasObserved

=============================================================================
