------------------------------ MODULE Observer ------------------------------
(***************************************************************************)
(* The observer validators (scripts/validate_nonprod_observer.py and its   *)
(* production variant): a script that launches an approved binary four     *)
(* times - version, inventory, observe, watch - reads its two pipes under  *)
(* a deadline, and reports evidence only when everything it read was in    *)
(* order.  The launched program may do anything a process can do: write,   *)
(* fork a helper that keeps the pipes, close them, hang, exit.             *)
(*                                                                         *)
(* A pipe's content is counted in lines: "good" ones pass what their phase *)
(* asks of them, "bad" ones fail it.  That is decoding, a search for       *)
(* private names and validation; for the version only its decoding and its *)
(* form.  os.read on a pipe blocks, so a read is an action that is enabled *)
(* only when there is data or the end of file.                             *)
(***************************************************************************)
EXTENDS Naturals, Sequences

CONSTANTS
  Root,        \* effective_uid = 0
  Production,  \* the compatibility variant, which may run as root
  AllowRoot,   \* its --allow-root flag
  MaxLines,    \* bound: lines a child and its helper write to stdout
  MaxOutput,   \* MAX_OUTPUT_BYTES, in lines
  MaxSwaps     \* bound: how often the file at the binary's path is replaced

ASSUME ObserverAssumption ==
  /\ Root \in BOOLEAN /\ Production \in BOOLEAN /\ AllowRoot \in BOOLEAN
  /\ MaxLines \in Nat /\ MaxSwaps \in Nat
  /\ MaxOutput \in Nat /\ MaxOutput >= 1

VARIABLES
  pc,          \* where the script is
  phase,       \* 1..3 the one-shot commands, 4 the watch
  file,        \* what the binary's path names
  swaps,       \* replacements so far
  leader,      \* the child that was launched
  image,       \* what it runs
  code,        \* its exit code
  holds,       \* it has the write ends of its pipes open
  helper,      \* so has a descendant in its process group
  lines,       \* lines written since the launch
  pipeOut,     \* unread lines of stdout
  pipeErr,     \* stderr has unread bytes
  open,        \* streams registered with the selector
  todo,        \* streams the last select asked to read
  bufferOut,   \* lines read and not yet consumed
  bufferErr,   \* something was read from stderr
  records,     \* watch records accepted
  expired,     \* the deadline in force has passed
  wroteBad,    \* history: some child wrote a bad line, or to stderr
  raced,       \* history: the file was replaced after the last check, before its launch
  endedEarly   \* history: the watch had ended when SIGTERM was to be sent

disk == <<file, swaps>>
child == <<leader, image, code, holds, helper, lines>>
pipes == <<pipeOut, pipeErr>>
reading == <<open, todo, bufferOut, bufferErr, records>>
history == <<wroteBad, raced, endedEarly>>
vars == <<pc, phase, disk, child, pipes, reading, expired, history>>

Watch == 4
\* What the checks of its phase make of a line.
Lines == {"good", "bad"}
Streams == {"out", "err"}
Images == {"approved", "other"}
Ended == {"done", "failed", "interrupted"}
Waiting == {"read", "watch", "drain"}
PCs == {"start", "config", "identity", "check", "launch", "spawned", "judge"} \cup Waiting \cup Ended

Init ==
  /\ pc = "start" /\ phase = 1
  /\ file \in Images /\ swaps = 0
  /\ leader = "none" /\ image = "approved" /\ code = 0
  /\ holds = FALSE /\ helper = FALSE /\ lines = 0
  /\ pipeOut = <<>> /\ pipeErr = FALSE
  /\ open = {} /\ todo = {} /\ bufferOut = <<>> /\ bufferErr = FALSE /\ records = 0
  /\ expired = FALSE
  /\ wroteBad = FALSE /\ raced = FALSE /\ endedEarly = FALSE

-----------------------------------------------------------------------------
(* Preparation: nothing has been launched yet.                             *)

Fail == pc' = "failed"

\* Root only as the production variant, and there only when acknowledged.
RootPolicy == Root => (Production /\ AllowRoot)

\* The root policy, the platform, and the host probe.
Probe ==
  /\ pc = "start"
  /\ \/ /\ RootPolicy
        /\ pc' = "config"
     \/ Fail
  /\ UNCHANGED <<phase, disk, child, pipes, reading, expired, history>>

\* The configuration is owner-only, unchanged while it is read, and well formed.
ReadPrivateConfig ==
  /\ pc = "config"
  /\ pc' = "identity" \/ Fail
  /\ UNCHANGED <<phase, disk, child, pipes, reading, expired, history>>

\* Ownership, mode and digest of the binary; the identity later checks compare with.
BinaryIdentity ==
  /\ pc = "identity"
  /\ \/ file = "approved" /\ pc' = "check"
     \/ Fail
  /\ UNCHANGED <<phase, disk, child, pipes, reading, expired, history>>

-----------------------------------------------------------------------------
(* Launching.                                                              *)

\* As a mutant: the binary is looked at before the first launch only.
AssertBinaryOnce ==
  /\ pc = "check"
  /\ IF file = "approved" \/ phase > 1 THEN pc' = "launch" ELSE Fail
  /\ raced' = FALSE
  /\ UNCHANGED <<phase, disk, child, pipes, reading, expired, wroteBad, endedEarly>>

\* Path, identity and digest again, before every launch.
AssertBinaryUnchanged ==
  /\ pc = "check"
  /\ IF file = "approved" THEN pc' = "launch" ELSE Fail
  /\ raced' = FALSE
  /\ UNCHANGED <<phase, disk, child, pipes, reading, expired, wroteBad, endedEarly>>

\* Popen by path: it runs whatever the path names by now.
Spawn ==
  /\ pc = "launch"
  /\ UNCHANGED <<phase, disk, history>>
  /\ \/ /\ leader' = "alive" /\ image' = file /\ code' = 0
        /\ holds' = TRUE /\ helper' = FALSE /\ lines' = 0
        /\ pipeOut' = <<>> /\ pipeErr' = FALSE
        /\ open' = Streams /\ todo' = {}
        /\ bufferOut' = <<>> /\ bufferErr' = FALSE /\ records' = 0
        /\ expired' = FALSE
        /\ pc' = "spawned"
     \/ /\ Fail
        /\ UNCHANGED <<child, pipes, reading, expired>>

\* The child runs before the clause that guards it is entered: the selector is
\* made, both pipes are registered and the deadline is set.  An error in this is no
\* validation error: like Ctrl-C, it ends the script where it is.
Guard ==
  /\ pc = "spawned"
  /\ pc' = (IF phase = Watch THEN "watch" ELSE "read") \/ pc' = "interrupted"
  /\ UNCHANGED <<phase, disk, child, pipes, reading, expired, history>>

-----------------------------------------------------------------------------
(* The process and its pipes, seen from the script.                        *)

HasWriter == holds \/ helper
HasData(s) == IF s = "out" THEN pipeOut # <<>> ELSE pipeErr
Ready(s) == HasData(s) \/ ~HasWriter

\* poll() and wait() collect a child that has exited.
Reap == leader' = IF leader = "dead" THEN "reaped" ELSE leader

\* _kill_group: the group is signalled only while its leader is alive, and SIGKILL
\* ends that within the two seconds it is waited for.
KillGroup ==
  IF leader = "alive"
  THEN leader' = "reaped" /\ code' = 1 /\ holds' = FALSE /\ helper' = FALSE
  ELSE Reap /\ UNCHANGED <<code, holds, helper>>

\* As a mutant: an error path that forgets the child.
AbortAndForget ==
  /\ Reap /\ Fail
  /\ UNCHANGED <<image, code, holds, helper, lines, pipes, reading>>

\* Every error after a launch: the child is killed if it still runs.
Abort ==
  /\ KillGroup /\ Fail
  /\ UNCHANGED <<image, lines, pipes, reading>>

-----------------------------------------------------------------------------
(* The selector loops of _bounded_pipes (pc = "read") and                  *)
(* _read_watch_records (pc = "watch", then "drain" after SIGTERM).         *)

\* The loop turns: nothing is left to read of the last select.
Turns ==
  /\ pc \in Waiting /\ todo = {}
  /\ pc = "watch" => records < 2
  /\ pc # "watch" => open # {}
  /\ UNCHANGED <<phase, disk, expired, history>>

TimesOut == Turns /\ expired /\ Abort

SelectReady ==
  /\ Turns /\ ~expired
  /\ \E s \in open : Ready(s)
  /\ todo' = {s \in open : Ready(s)}
  /\ UNCHANGED <<pc, child, pipes, open, bufferOut, bufferErr, records>>

\* A select of at most 0.1 s without an event, and the child is gone.
NoEvent ==
  /\ Turns /\ ~expired
  /\ \A s \in open : ~Ready(s)
  /\ leader # "alive"

\* The draining loops then go on to read every registered pipe.
SelectAll ==
  /\ NoEvent /\ pc # "watch"
  /\ todo' = open
  /\ Reap
  /\ UNCHANGED <<pc, image, code, holds, helper, lines, pipes, open,
                 bufferOut, bufferErr, records>>

\* The watch loop gives up.
WatchEnded == NoEvent /\ pc = "watch" /\ Abort

\* As a mutant: one stream's end is taken for that of both.
EndBoth(s) ==
  /\ pc \in Waiting /\ s \in todo
  /\ ~HasData(s) /\ ~HasWriter
  /\ open' = {}
  /\ todo' = todo \ {s}
  /\ UNCHANGED <<pc, phase, disk, child, pipes, bufferOut, bufferErr,
                 records, expired, history>>

\* End of file: the stream is unregistered.
ReadEnd(s) ==
  /\ pc \in Waiting /\ s \in todo
  /\ ~HasData(s) /\ ~HasWriter
  /\ open' = open \ {s}
  /\ todo' = todo \ {s}
  /\ UNCHANGED <<pc, phase, disk, child, pipes, bufferOut, bufferErr,
                 records, expired, history>>

\* The lines of the watch that this chunk completes are taken one by one
\* until there are two records; the rest stays in the buffer.
Needed == 2 - records
Arrived == bufferOut \o pipeOut
Taken == SubSeq(Arrived, 1, IF Len(Arrived) < Needed THEN Len(Arrived) ELSE Needed)
Left == SubSeq(Arrived, Len(Taken) + 1, Len(Arrived))
Invalid(seq) == \E i \in 1..Len(seq) : seq[i] = "bad"

\* A chunk of stdout: refused when too much has piled up, and in the watch
\* when a line it completes is not a valid record.
ReadOut ==
  /\ pc \in Waiting /\ "out" \in todo /\ pipeOut # <<>>
  /\ UNCHANGED <<phase, disk, expired, history>>
  /\ IF \/ Len(Arrived) > MaxOutput
        \/ pc = "watch" /\ Invalid(Taken)
     THEN Abort
     ELSE /\ pipeOut' = <<>>
          /\ todo' = todo \ {"out"}
          /\ IF pc = "watch"
             THEN bufferOut' = Left /\ records' = records + Len(Taken)
             ELSE bufferOut' = Arrived /\ UNCHANGED records
          /\ UNCHANGED <<pc, child, pipeErr, open, bufferErr>>

\* The watch refuses stderr at once; the others judge it at the end.
ReadErr ==
  /\ pc \in Waiting /\ "err" \in todo /\ pipeErr
  /\ UNCHANGED <<phase, disk, expired, history>>
  /\ IF pc = "watch"
     THEN Abort
     ELSE /\ pipeErr' = FALSE
          /\ bufferErr' = TRUE
          /\ todo' = todo \ {"err"}
          /\ UNCHANGED <<pc, child, pipeOut, open, bufferOut, records>>

\* Two records are in: SIGTERM, and a new deadline for the rest.  send_signal
\* polls first and sends nothing to a child that has exited, without an error.
Terminate ==
  /\ pc = "watch" /\ records = 2 /\ todo = {}
  /\ Reap
  /\ endedEarly' = (leader # "alive")
  /\ expired' = FALSE
  /\ pc' = "drain"
  /\ UNCHANGED <<phase, disk, image, code, holds, helper, lines, pipes,
                 reading, wroteBad, raced>>

\* As a mutant: the exit code is waited for without a deadline.
WaitForExit ==
  /\ pc \in {"read", "drain"} /\ open = {} /\ todo = {}
  /\ leader # "alive"
  /\ Reap
  /\ pc' = "judge"
  /\ UNCHANGED <<image, code, holds, helper, lines, pipes, reading>>
  /\ UNCHANGED <<phase, disk, expired, history>>

\* Both streams have ended: wait for the exit code until the deadline.
Wait ==
  /\ pc \in {"read", "drain"} /\ open = {} /\ todo = {}
  /\ \/ /\ leader # "alive"
        /\ Reap
        /\ pc' = "judge"
        /\ UNCHANGED <<image, code, holds, helper, lines, pipes, reading>>
     \/ leader = "alive" /\ expired /\ Abort
  /\ UNCHANGED <<phase, disk, expired, history>>

\* As a mutant: what follows the second record is not looked at.
ValidBeginning ==
  /\ ~bufferErr
  /\ code = 0
  /\ phase < Watch => bufferOut = <<"good">>

\* stderr, the exit code, and what was printed: one valid line.
ValidOneShot == ~bufferErr /\ code = 0 /\ bufferOut = <<"good">>
\* Nothing may follow the two records of the watch.
ValidWatch == ~bufferErr /\ code = 0 /\ bufferOut = <<>>
Valid == IF phase = Watch THEN ValidWatch ELSE ValidOneShot

Judge ==
  /\ pc = "judge"
  /\ \/ /\ Valid /\ phase < Watch
        /\ phase' = phase + 1 /\ pc' = "check"
     \/ /\ Valid /\ phase = Watch
        /\ pc' = "done" /\ UNCHANGED phase
     \/ ~Valid /\ Fail /\ UNCHANGED phase
  /\ UNCHANGED <<disk, child, pipes, reading, expired, history>>

\* Ctrl-C.  The watch's finally clause kills its child, once it is entered;
\* _bounded_pipes only closes its ends of the pipes, and the child is in a session
\* of its own.
Interrupt ==
  /\ pc \notin Ended
  /\ pc' = "interrupted"
  /\ IF phase = Watch /\ pc \in Waiting
     THEN KillGroup
     ELSE UNCHANGED <<leader, code, holds, helper>>
  /\ UNCHANGED <<phase, disk, image, lines, pipes, reading, expired, history>>

Script ==
  \/ Probe \/ ReadPrivateConfig \/ BinaryIdentity \/ AssertBinaryUnchanged \/ Spawn \/ Guard
  \/ TimesOut \/ SelectReady \/ SelectAll \/ WatchEnded
  \/ ReadOut \/ ReadErr \/ (\E s \in Streams : ReadEnd(s))
  \/ Terminate \/ Wait \/ Judge

-----------------------------------------------------------------------------
(* The child, its helper, the clock, and whoever installs binaries.        *)

Running == pc \notin Ended

\* A line on stdout, from the child or its helper.
Prints(line) ==
  /\ Running /\ HasWriter /\ lines < MaxLines
  /\ lines' = lines + 1
  /\ pipeOut' = Append(pipeOut, line)
  /\ wroteBad' = (wroteBad \/ line = "bad")
  /\ UNCHANGED <<pc, phase, disk, leader, image, code, holds, helper, pipeErr,
                 reading, expired, raced, endedEarly>>

Complains ==
  /\ Running /\ HasWriter /\ ~pipeErr
  /\ pipeErr' = TRUE
  /\ wroteBad' = TRUE
  /\ UNCHANGED <<pc, phase, disk, child, pipeOut, reading, expired,
                 raced, endedEarly>>

Forks ==
  /\ Running /\ leader = "alive" /\ holds /\ ~helper
  /\ helper' = TRUE
  /\ UNCHANGED <<pc, phase, disk, leader, image, code, holds, lines, pipes,
                 reading, expired, history>>

ClosesPipes ==
  /\ Running /\ leader = "alive" /\ holds
  /\ holds' = FALSE
  /\ UNCHANGED <<pc, phase, disk, leader, image, code, helper, lines, pipes,
                 reading, expired, history>>

Exits(status) ==
  /\ Running /\ leader = "alive"
  /\ leader' = "dead" /\ code' = status /\ holds' = FALSE
  /\ UNCHANGED <<pc, phase, disk, image, helper, lines, pipes,
                 reading, expired, history>>

HelperExits ==
  /\ Running /\ helper
  /\ helper' = FALSE
  /\ UNCHANGED <<pc, phase, disk, leader, image, code, holds, lines, pipes,
                 reading, expired, history>>

DeadlinePasses ==
  /\ pc \in Waiting /\ ~expired
  /\ expired' = TRUE
  /\ UNCHANGED <<pc, phase, disk, child, pipes, reading, history>>

\* The file at the path is replaced, or the approved one is put back.
Replaced ==
  /\ Running /\ swaps < MaxSwaps
  /\ file' \in Images \ {file}
  /\ swaps' = swaps + 1
  /\ raced' = (raced \/ pc = "launch")
  /\ UNCHANGED <<pc, phase, child, pipes, reading, expired, wroteBad, endedEarly>>

World ==
  \/ \E line \in Lines : Prints(line)
  \/ Complains \/ Forks \/ ClosesPipes \/ HelperExits
  \/ \E status \in {0, 1} : Exits(status)
  \/ Interrupt \/ DeadlinePasses \/ Replaced

Next == Script \/ World

\* The script runs on and time passes; nothing is assumed of the child or of what
\* it leaves behind.
Fairness == WF_vars(Script) /\ WF_vars(DeadlinePasses)

Spec == Init /\ [][Next]_vars /\ Fairness

-----------------------------------------------------------------------------
(* Properties.                                                             *)

\* Every variable holds a value of its type.
TypeOK ==
  /\ pc \in PCs /\ phase \in 1..Watch
  /\ file \in Images /\ swaps \in Nat
  /\ leader \in {"none", "alive", "dead", "reaped"} /\ image \in Images /\ code \in {0, 1}
  /\ holds \in BOOLEAN /\ helper \in BOOLEAN /\ lines \in Nat
  /\ pipeOut \in Seq(Lines) /\ pipeErr \in BOOLEAN
  /\ open \subseteq Streams /\ todo \subseteq open
  /\ bufferOut \in Seq(Lines) /\ bufferErr \in BOOLEAN /\ records \in 0..2
  /\ expired \in BOOLEAN
  /\ wroteBad \in BOOLEAN /\ raced \in BOOLEAN /\ endedEarly \in BOOLEAN

\* Whatever goes wrong in whichever loop, no child is left running or uncollected
\* when the validator reports (_kill_group, wait), nor when Ctrl-C ends the watch or
\* its judgement (the finally clause of _read_watch_records).  Ctrl-C does leave one
\* behind in two places: from Popen until that clause is entered, and in
\* _bounded_pipes, whose finally clause only closes the pipes.
NoChildLeft ==
  [][/\ pc' \in Ended
     /\ pc' = "interrupted" => pc \notin {"spawned", "read"}
     => leader' \in {"none", "reaped"}]_vars

\* Evidence is given only if nothing objectionable was ever written by any of
\* the four children or their helpers, and nobody is left who could write:
\* no output escapes its phase's checks by coming late, in the chunk of another
\* line, or on a pipe that was not read to its end.
AllOutputJudged ==
  pc = "done" => ~wroteBad /\ ~HasWriter /\ pipeOut = <<>> /\ lines = 2

\* Another binary than the approved one runs only if it was put in place after
\* the check that precedes its launch; a replacement made at any earlier time,
\* during whichever phase, is found.
LaunchedAsApproved == leader = "alive" /\ image # "approved" => raced

\* A blocking read, past any deadline: the child is gone, what it left behind
\* keeps the pipe open and writes nothing.
Blocked == leader # "alive" /\ helper /\ \E s \in todo : ~HasData(s)

\* The verdict is given at last, whether a child hangs, floods, closes its pipes or
\* outlives them, and also when a helper does while the child is there to be killed;
\* only a helper that has outlived its child and keeps the pipes open for ever can
\* keep the validator waiting with it (os.read after a select without events).
Finishes == <>(pc \in Ended) \/ <>[]Blocked

\* What sigtermExitZero claims: the watch was running when SIGTERM was sent,
\* so its exit is an answer to the signal.
SigtermStoppedIt == pc = "done" => ~endedEarly

=============================================================================
