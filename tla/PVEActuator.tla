---------------------------- MODULE PVEActuator ----------------------------
(***************************************************************************)
(* The bounded PVE actuator (internal/actuator/pve): ReadEffective and     *)
(* ApplyApproved on the one enrolled QEMU disk, as steps that interleave   *)
(* with each other and with whoever else edits the VM's configuration.     *)
(*                                                                         *)
(* The configuration is reduced to three parts: the disk's write limit,    *)
(* its device (the volume and the other options of the disk's own value)   *)
(* and the rest (tags, boot order, lock and every other key).  Its digest  *)
(* is a hash of all of it, so comparing digests is comparing whole         *)
(* configurations.  Limits are integers in a unit of the model's choice,   *)
(* Byte units being one byte per second, the only rates PVE can store.     *)
(***************************************************************************)
EXTENDS Integers

CONSTANTS
  Callers,                 \* goroutines inside ApplyApproved at the same time
  BoundResource,           \* the resource key of the private binding
  MinimumLimit, MaximumLimit,  \* the binding's envelope, compared exactly
  Byte,                    \* units per byte per second
  Limits,                  \* limits the disk may carry; 0 is "no bps_wr"
  Devices,                 \* the disk's volume and the options nobody manages
  Rests,                   \* everything outside the disk's value
  Rejected,                \* the ones of both that parseQEMUState refuses
  NotRead                  \* stands for a configuration that was not read yet

ASSUME ActuatorAssumption ==
  /\ Byte \in Nat \ {0}
  /\ MinimumLimit \in Nat \ {0} /\ MaximumLimit \in Nat /\ MinimumLimit <= MaximumLimit
  /\ Limits \subseteq Nat
  /\ \A limit \in Limits : limit % Byte = 0
  /\ Rejected \subseteq Devices \cup Rests

VARIABLES
  disk,   \* the live configuration, outside the program
  call    \* each caller's ApplyApproved: its step and locals

Disk == [limit : Nat, device : Devices, rest : Rests]
StorableDisks == [limit : Limits, device : Devices, rest : Rests]
CallSteps == {"none", "before", "update", "readback", "done", "failed"}
Call == [step : CallSteps, limit : Nat, seen : Disk \cup {NotRead}, value : Nat]

At(step, limit, seen, value) ==
  [step |-> step, limit |-> limit, seen |-> seen, value |-> value]

NoCall == At("none", 0, NotRead, 0)
FailedCall == At("failed", 0, NotRead, 0)

\* parseQEMUState accepts the configuration it was given.
Readable(d) ==
  /\ d.device \notin Rejected /\ d.rest \notin Rejected
  /\ MinimumLimit <= d.limit /\ d.limit <= MaximumLimit

\* validateRequest: identity fields present, envelope compared without any
\* tolerance, and a limit that is a whole number of bytes per second.
Accepts(request) ==
  /\ request.wellFormed
  /\ request.resource = BoundResource
  /\ MinimumLimit <= request.limit /\ request.limit <= MaximumLimit
  /\ request.limit % Byte = 0

\* ReadEffective returned a limit rather than an error.
CanReadEffective(resource) == resource = BoundResource /\ Readable(disk)

-----------------------------------------------------------------------------
(* ApplyApproved, one action per access to the configuration.              *)

BeginApply(c, request) ==
  call' = [call EXCEPT ![c] = IF Accepts(request)
                                THEN At("before", request.limit, NotRead, 0)
                                ELSE FailedCall]

\* The read that fetches the digest; it fails when pvesh does, or on a
\* configuration the binding refuses.
ReadBeforeFails(c) ==
  /\ call[c].step = "before"
  /\ call' = [call EXCEPT ![c] = FailedCall]
  /\ UNCHANGED disk

\* The disk already carries the limit: report the request and write nothing.
NothingToWrite(c) ==
  /\ call[c].step = "before"
  /\ Readable(disk) /\ disk.limit = call[c].limit
  /\ call' = [call EXCEPT ![c] = At("done", @.limit, NotRead, @.limit)]
  /\ UNCHANGED disk

ReadBefore(c) ==
  /\ call[c].step = "before"
  /\ Readable(disk) /\ disk.limit # call[c].limit
  /\ call' = [call EXCEPT ![c] = At("update", @.limit, disk, 0)]
  /\ UNCHANGED disk

\* Mutant: pvesh set without --digest.
UpdateLands_WithoutDigest(c) ==
  /\ call[c].step = "update"
  /\ disk' = [disk EXCEPT !.limit = call[c].limit, !.device = call[c].seen.device]

\* pvesh set --digest: PVE replaces the whole value of the disk, and no other
\* key, if the configuration is still the one that was read.
UpdateLands(c) ==
  /\ call[c].step = "update"
  /\ disk = call[c].seen
  /\ disk' = [disk EXCEPT !.limit = call[c].limit, !.device = call[c].seen.device]

UpdateSucceeds(c) ==
  /\ UpdateLands(c)
  /\ call' = [call EXCEPT ![c] = At("readback", @.limit, @.seen, 0)]

\* The command timed out, was cancelled or lost its output after PVE had
\* already stored the change.
UpdateLandsUnreported(c) ==
  /\ UpdateLands(c)
  /\ call' = [call EXCEPT ![c] = FailedCall]

UpdateFails(c) ==
  /\ call[c].step = "update"
  /\ call' = [call EXCEPT ![c] = FailedCall]
  /\ UNCHANGED disk

ReadBackFails(c) ==
  /\ call[c].step = "readback"
  /\ call' = [call EXCEPT ![c] = FailedCall]
  /\ UNCHANGED disk

\* The device must be as it was before the update; of the rest of the
\* configuration only that it is still acceptable is asked.  The limit is
\* returned for the gate to compare.
ReadBack(c) ==
  /\ call[c].step = "readback"
  /\ Readable(disk) /\ disk.device = call[c].seen.device
  /\ call' = [call EXCEPT ![c] = At("done", @.limit, @.seen, disk.limit)]
  /\ UNCHANGED disk

ActuatorStep(c) ==
  \/ ReadBeforeFails(c)
  \/ NothingToWrite(c)
  \/ ReadBefore(c)
  \/ UpdateSucceeds(c)
  \/ UpdateLandsUnreported(c)
  \/ UpdateFails(c)
  \/ ReadBackFails(c)
  \/ ReadBack(c)

\* The operator, or another tool, edits the configuration.
ExternalChange ==
  /\ disk' \in {d \in StorableDisks : d # disk}
  /\ UNCHANGED call

-----------------------------------------------------------------------------

ActuatorInit ==
  /\ disk \in {d \in StorableDisks : Readable(d)}
  /\ call = [c \in Callers |-> NoCall]

ActuatorTypeOK ==
  /\ disk \in Disk
  /\ call \in [Callers -> Call]

=============================================================================
