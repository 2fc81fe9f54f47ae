---------------------------- MODULE ObserverProofs ----------------------------
(***************************************************************************)
(* The safety properties of the observer validators, for every bound on    *)
(* output and on replacements, every policy on root, and whatever the      *)
(* launched programs do.                                                   *)
(***************************************************************************)
EXTENDS Observer, TLAPS

Preparing == {"start", "config", "identity", "check", "launch"}
Supervising == Waiting \cup {"spawned", "judge"}

\* A child exists for the script while it is supervised, and no longer, unless
\* Ctrl-C left it behind; it has its pipes open only while it is alive.
ChildKept ==
  /\ pc \notin Waiting \cup {"spawned", "interrupted"} => leader \in {"none", "reaped"}
  /\ holds => leader = "alive"
  /\ pc \in {"watch", "drain"} => phase = Watch
  /\ pc = "read" => phase # Watch

\* A binary other than the approved one came after the check.
Checked ==
  /\ pc = "launch" /\ file # "approved" => raced
  /\ LaunchedAsApproved

\* A stream that is no longer registered has ended for good.
Drained ==
  /\ pc \in Supervising =>
       \A s \in Streams \ open : ~HasData(s) /\ ~HasWriter
  /\ pc = "judge" => open = {}
  /\ pc \in Preparing => ~HasWriter

\* Every line written since the launch is a record, in the buffer or in the pipe.
Accounted ==
  /\ pc \in Supervising => lines = records + Len(bufferOut) + Len(pipeOut)
  /\ pc \in {"spawned", "read"} \/ (pc = "judge" /\ phase # Watch) => records = 0
  /\ pc = "drain" \/ (pc = "judge" /\ phase = Watch) => records = 2

\* What was objectionable is still there to be judged.
Pending ==
  /\ pc \in Preparing => ~wroteBad
  /\ pc \in Supervising /\ wroteBad =>
       Invalid(bufferOut) \/ Invalid(pipeOut) \/ pipeErr \/ bufferErr

IInv == TypeOK /\ ChildKept /\ Checked /\ Drained /\ Accounted /\ Pending /\ AllOutputJudged

-----------------------------------------------------------------------------
(* Lines and sequences of lines.                                           *)

\* Appending a line.
LEMMA AppendLine ==
  ASSUME NEW s \in Seq(Lines), NEW line \in Lines
  PROVE  /\ Append(s, line) \in Seq(Lines)
         /\ Len(Append(s, line)) = Len(s) + 1
         /\ Invalid(Append(s, line)) <=> Invalid(s) \/ line = "bad"
  <1>1. Append(s, line) \in Seq(Lines) /\ Len(Append(s, line)) = Len(s) + 1 /\ Len(s) \in Nat
    OBVIOUS
  <1>2. \A i \in 1..Len(s) : Append(s, line)[i] = s[i]
    OBVIOUS
  <1>3. Append(s, line)[Len(s) + 1] = line
    OBVIOUS
  <1>4. 1..(Len(s) + 1) = 1..Len(s) \cup {Len(s) + 1}
    BY <1>1
  <1> QED
    BY <1>1, <1>2, <1>3, <1>4 DEF Invalid

\* What piles up when a chunk is read.
LEMMA ArrivedLines ==
  ASSUME bufferOut \in Seq(Lines), pipeOut \in Seq(Lines)
  PROVE  /\ Arrived \in Seq(Lines)
         /\ Len(Arrived) = Len(bufferOut) + Len(pipeOut)
         /\ Invalid(Arrived) <=> Invalid(bufferOut) \/ Invalid(pipeOut)
  <1>1. /\ Arrived \in Seq(Lines)
        /\ Len(Arrived) = Len(bufferOut) + Len(pipeOut)
        /\ Len(bufferOut) \in Nat /\ Len(pipeOut) \in Nat
    BY DEF Arrived
  <1>2. \A i \in 1..Len(bufferOut) : Arrived[i] = bufferOut[i]
    BY DEF Arrived
  <1>3. \A i \in 1..Len(pipeOut) : Arrived[Len(bufferOut) + i] = pipeOut[i]
    BY DEF Arrived
  <1>4. ASSUME Invalid(bufferOut) PROVE Invalid(Arrived)
    BY <1>1, <1>2, <1>4 DEF Invalid
  <1>5. ASSUME Invalid(pipeOut) PROVE Invalid(Arrived)
    <2>1. PICK i \in 1..Len(pipeOut) : pipeOut[i] = "bad"
      BY <1>5 DEF Invalid
    <2>2. Len(bufferOut) + i \in 1..Len(Arrived)
      BY <1>1
    <2> QED
      BY <2>1, <2>2, <1>3 DEF Invalid
  <1>6. ASSUME Invalid(Arrived) PROVE Invalid(bufferOut) \/ Invalid(pipeOut)
    <2>1. PICK i \in 1..Len(Arrived) : Arrived[i] = "bad"
      BY <1>6 DEF Invalid
    <2>2. CASE i <= Len(bufferOut)
      BY <2>1, <2>2, <1>1, <1>2 DEF Invalid
    <2>3. CASE i > Len(bufferOut)
      <3>1. i - Len(bufferOut) \in 1..Len(pipeOut) /\ Len(bufferOut) + (i - Len(bufferOut)) = i
        BY <2>1, <2>3, <1>1
      <3> QED
        BY <3>1, <2>1, <1>3 DEF Invalid
    <2> QED
      BY <2>2, <2>3, <1>1
  <1> QED
    BY <1>1, <1>4, <1>5, <1>6

\* The records taken from it and what is left over make it up.
LEMMA TakenAndLeft ==
  ASSUME bufferOut \in Seq(Lines), pipeOut \in Seq(Lines), records \in 0..2
  PROVE  /\ Taken \in Seq(Lines) /\ Left \in Seq(Lines)
         /\ Len(Taken) + Len(Left) = Len(Arrived)
         /\ records + Len(Taken) \in 0..2
         /\ Invalid(Arrived) => Invalid(Taken) \/ Invalid(Left)
  <1> DEFINE n == IF Len(Arrived) < Needed THEN Len(Arrived) ELSE Needed
  <1>1. Arrived \in Seq(Lines) /\ Len(Arrived) \in Nat
    BY ArrivedLines
  <1>2. n \in 0..Len(Arrived) /\ records + n \in 0..2
    BY <1>1 DEF Needed
  <1>3. /\ Taken \in Seq(Lines) /\ Len(Taken) = n
        /\ \A i \in 1..n : Taken[i] = Arrived[i]
    BY <1>1, <1>2 DEF Taken
  <1>4. /\ Left \in Seq(Lines) /\ Len(Left) = Len(Arrived) - n
        /\ \A i \in 1..(Len(Arrived) - n) : Left[i] = Arrived[n + i]
    <2> HIDE DEF n
    <2> QED
      BY <1>1, <1>2, <1>3 DEF Left
  <1>5. ASSUME Invalid(Arrived) PROVE Invalid(Taken) \/ Invalid(Left)
    <2> HIDE DEF n
    <2>1. PICK i \in 1..Len(Arrived) : Arrived[i] = "bad"
      BY <1>5 DEF Invalid
    <2>2. CASE i <= n
      BY <2>1, <2>2, <1>2, <1>3 DEF Invalid
    <2>3. CASE i > n
      <3>1. i - n \in 1..(Len(Arrived) - n) /\ n + (i - n) = i
        BY <2>1, <2>3, <1>1, <1>2
      <3> QED
        BY <3>1, <2>1, <1>4 DEF Invalid
    <2> QED
      BY <2>2, <2>3, <1>1, <1>2
  <1> HIDE DEF n
  <1> QED
    BY <1>1, <1>2, <1>3, <1>4, <1>5

-----------------------------------------------------------------------------
(* Every step keeps the invariant, part by part.                           *)

\* The Boolean part of TypeOK, and the rest.
Flags ==
  /\ holds \in BOOLEAN /\ helper \in BOOLEAN /\ pipeErr \in BOOLEAN /\ bufferErr \in BOOLEAN
  /\ expired \in BOOLEAN /\ wroteBad \in BOOLEAN /\ raced \in BOOLEAN
  /\ endedEarly \in BOOLEAN

Values ==
  /\ pc \in PCs /\ phase \in 1..Watch
  /\ file \in Images /\ swaps \in Nat
  /\ leader \in {"none", "alive", "dead", "reaped"} /\ image \in Images /\ code \in {0, 1}
  /\ lines \in Nat
  /\ pipeOut \in Seq(Lines)
  /\ open \subseteq Streams /\ todo \subseteq open
  /\ bufferOut \in Seq(Lines) /\ records \in 0..2

LEMMA TypeParts == TypeOK <=> Flags /\ Values
  BY DEF TypeOK, Flags, Values

\* Flags.
LEMMA FlagsKept ==
  ASSUME Flags, [Next]_vars
  PROVE  Flags'
  <1> USE DEF Flags, disk, child, pipes, reading, history
  <1>1. CASE Probe
    BY <1>1 DEF Probe, Fail
  <1>2. CASE ReadPrivateConfig
    BY <1>2 DEF ReadPrivateConfig, Fail
  <1>3. CASE BinaryIdentity
    BY <1>3 DEF BinaryIdentity, Fail
  <1>4. CASE AssertBinaryUnchanged
    BY <1>4 DEF AssertBinaryUnchanged, Fail
  <1>5. CASE Spawn
    BY <1>5 DEF Spawn, Fail
  <1>6. CASE TimesOut
    BY <1>6 DEF TimesOut, Turns, Abort, KillGroup, Reap, Fail
  <1>7. CASE SelectReady
    BY <1>7 DEF SelectReady, Turns
  <1>8. CASE SelectAll
    BY <1>8 DEF SelectAll, NoEvent, Turns, Reap
  <1>9. CASE WatchEnded
    BY <1>9 DEF WatchEnded, NoEvent, Turns, Abort, KillGroup, Reap, Fail
  <1>10. CASE ReadOut
    BY <1>10 DEF ReadOut, Abort, KillGroup, Reap, Fail
  <1>11. CASE ReadErr
    BY <1>11 DEF ReadErr, Abort, KillGroup, Reap, Fail
  <1>12. ASSUME NEW s \in Streams, ReadEnd(s) PROVE Flags'
    BY <1>12 DEF ReadEnd
  <1>13. CASE Terminate
    BY <1>13 DEF Terminate, Reap
  <1>14. CASE Wait
    BY <1>14 DEF Wait, Abort, KillGroup, Reap, Fail
  <1>15. CASE Judge
    BY <1>15 DEF Judge, Fail
  <1>16. ASSUME NEW line \in Lines, Prints(line) PROVE Flags'
    BY <1>16 DEF Prints
  <1>17. CASE Complains
    BY <1>17 DEF Complains
  <1>18. CASE Forks
    BY <1>18 DEF Forks
  <1>19. CASE ClosesPipes
    BY <1>19 DEF ClosesPipes
  <1>20. ASSUME NEW status \in {0, 1}, Exits(status) PROVE Flags'
    BY <1>20 DEF Exits
  <1>21. CASE HelperExits
    BY <1>21 DEF HelperExits
  <1>22. CASE Interrupt
    BY <1>22 DEF Interrupt, KillGroup, Reap
  <1>23. CASE DeadlinePasses
    BY <1>23 DEF DeadlinePasses
  <1>24. CASE Replaced
    BY <1>24 DEF Replaced
  <1>25. CASE UNCHANGED vars
    BY <1>25 DEF vars
  <1>26. CASE Guard
    BY <1>26 DEF Guard
  <1> QED
    BY <1>1, <1>2, <1>3, <1>4, <1>5, <1>6, <1>7, <1>8, <1>9, <1>10, <1>11, <1>12, <1>13, <1>14, <1>15, <1>16, <1>17, <1>18, <1>19, <1>20, <1>21, <1>22, <1>23, <1>24, <1>25, <1>26 DEF Next, Script, World

\* Types of the other variables.
LEMMA ValuesKept ==
  ASSUME Values, [Next]_vars
  PROVE  Values'
  <1> USE DEF Values, PCs, Waiting, Ended, Images, Watch, Running, disk, child, pipes, reading, history
  <1>1. CASE Probe
    BY <1>1 DEF Probe, Fail
  <1>2. CASE ReadPrivateConfig
    BY <1>2 DEF ReadPrivateConfig, Fail
  <1>3. CASE BinaryIdentity
    BY <1>3 DEF BinaryIdentity, Fail
  <1>4. CASE AssertBinaryUnchanged
    BY <1>4 DEF AssertBinaryUnchanged, Fail
  <1>5. CASE Spawn
    <2>1. CASE pc' = "failed" /\ UNCHANGED <<child, pipes, reading, expired>>
      BY <1>5, <2>1 DEF Spawn
    <2>2. CASE ~(pc' = "failed" /\ UNCHANGED <<child, pipes, reading, expired>>)
      <3>1. pipeOut' = <<>> /\ bufferOut' = <<>> /\ open' = Streams /\ todo' = {}
        BY <1>5, <2>2 DEF Spawn, Fail
      <3>2. (pipeOut \in Seq(Lines))' /\ (bufferOut \in Seq(Lines))'
        BY <3>1
      <3>3. /\ leader' = "alive" /\ image' = file /\ code' = 0 /\ lines' = 0 /\ records' = 0
            /\ pc' \in {"spawned"} /\ UNCHANGED <<phase, file, swaps>>
        BY <1>5, <2>2 DEF Spawn, Fail
      <3> QED
        BY <3>1, <3>2, <3>3
    <2> QED
      BY <2>1, <2>2
  <1>6. CASE TimesOut
    BY <1>6 DEF TimesOut, Turns, Abort, KillGroup, Reap, Fail
  <1>7. CASE SelectReady
    BY <1>7 DEF SelectReady, Turns
  <1>8. CASE SelectAll
    BY <1>8 DEF SelectAll, NoEvent, Turns, Reap
  <1>9. CASE WatchEnded
    BY <1>9 DEF WatchEnded, NoEvent, Turns, Abort, KillGroup, Reap, Fail
  <1>10. CASE ReadOut
    <2>1. /\ Arrived \in Seq(Lines) /\ Left \in Seq(Lines) /\ <<>> \in Seq(Lines)
          /\ records + Len(Taken) \in 0..2
      BY ArrivedLines, TakenAndLeft
    <2>2. CASE Len(Arrived) > MaxOutput \/ (pc = "watch" /\ Invalid(Taken))
      BY <1>10, <2>2 DEF ReadOut, Abort, KillGroup, Reap, Fail
    <2>3. CASE ~(Len(Arrived) > MaxOutput \/ (pc = "watch" /\ Invalid(Taken)))
      BY <1>10, <2>1, <2>3 DEF ReadOut
    <2> QED
      BY <2>2, <2>3
  <1>11. CASE ReadErr
    BY <1>11 DEF ReadErr, Abort, KillGroup, Reap, Fail
  <1>12. ASSUME NEW s \in Streams, ReadEnd(s) PROVE Values'
    BY <1>12 DEF ReadEnd
  <1>13. CASE Terminate
    BY <1>13 DEF Terminate, Reap
  <1>14. CASE Wait
    BY <1>14 DEF Wait, Abort, KillGroup, Reap, Fail
  <1>15. CASE Judge
    BY <1>15 DEF Judge, Fail
  <1>16. ASSUME NEW line \in Lines, Prints(line) PROVE Values'
    BY <1>16, AppendLine DEF Prints
  <1>17. CASE Complains
    BY <1>17 DEF Complains
  <1>18. CASE Forks
    BY <1>18 DEF Forks
  <1>19. CASE ClosesPipes
    BY <1>19 DEF ClosesPipes
  <1>20. ASSUME NEW status \in {0, 1}, Exits(status) PROVE Values'
    BY <1>20 DEF Exits
  <1>21. CASE HelperExits
    BY <1>21 DEF HelperExits
  <1>22. CASE Interrupt
    BY <1>22 DEF Interrupt, KillGroup, Reap
  <1>23. CASE DeadlinePasses
    BY <1>23 DEF DeadlinePasses
  <1>24. CASE Replaced
    BY <1>24 DEF Replaced
  <1>25. CASE UNCHANGED vars
    BY <1>25 DEF vars
  <1>26. CASE Guard
    BY <1>26 DEF Guard
  <1> QED
    BY <1>1, <1>2, <1>3, <1>4, <1>5, <1>6, <1>7, <1>8, <1>9, <1>10, <1>11, <1>12, <1>13, <1>14, <1>15, <1>16, <1>17, <1>18, <1>19, <1>20, <1>21, <1>22, <1>23, <1>24, <1>25, <1>26 DEF Next, Script, World

\* Whose child it is.
LEMMA ChildStaysKept ==
  ASSUME TypeOK, ChildKept, [Next]_vars
  PROVE  ChildKept'
  <1> USE DEF ChildKept, PCs, Waiting, Ended, Watch, Running, disk, child, pipes, reading, history
  <1>0. leader \in {"none", "alive", "dead", "reaped"}
    BY DEF TypeOK
  <1>1. CASE Probe
    BY <1>0, <1>1 DEF Probe, Fail
  <1>2. CASE ReadPrivateConfig
    BY <1>0, <1>2 DEF ReadPrivateConfig, Fail
  <1>3. CASE BinaryIdentity
    BY <1>0, <1>3 DEF BinaryIdentity, Fail
  <1>4. CASE AssertBinaryUnchanged
    BY <1>0, <1>4 DEF AssertBinaryUnchanged, Fail
  <1>5. CASE Spawn
    BY <1>0, <1>5 DEF Spawn, Fail
  <1>6. CASE TimesOut
    BY <1>0, <1>6 DEF TimesOut, Turns, Abort, KillGroup, Reap, Fail
  <1>7. CASE SelectReady
    BY <1>0, <1>7 DEF SelectReady, Turns
  <1>8. CASE SelectAll
    BY <1>0, <1>8 DEF SelectAll, NoEvent, Turns, Reap
  <1>9. CASE WatchEnded
    BY <1>0, <1>9 DEF WatchEnded, NoEvent, Turns, Abort, KillGroup, Reap, Fail
  <1>10. CASE ReadOut
    BY <1>0, <1>10 DEF ReadOut, Abort, KillGroup, Reap, Fail
  <1>11. CASE ReadErr
    BY <1>0, <1>11 DEF ReadErr, Abort, KillGroup, Reap, Fail
  <1>12. ASSUME NEW s \in Streams, ReadEnd(s) PROVE ChildKept'
    BY <1>12 DEF ReadEnd
  <1>13. CASE Terminate
    BY <1>0, <1>13 DEF Terminate, Reap
  <1>14. CASE Wait
    BY <1>0, <1>14 DEF Wait, Abort, KillGroup, Reap, Fail
  <1>15. CASE Judge
    BY <1>0, <1>15 DEF Judge, Fail
  <1>16. ASSUME NEW line \in Lines, Prints(line) PROVE ChildKept'
    BY <1>16 DEF Prints
  <1>17. CASE Complains
    BY <1>17 DEF Complains
  <1>18. CASE Forks
    BY <1>18 DEF Forks
  <1>19. CASE ClosesPipes
    BY <1>19 DEF ClosesPipes
  <1>20. ASSUME NEW status \in {0, 1}, Exits(status) PROVE ChildKept'
    BY <1>20 DEF Exits
  <1>21. CASE HelperExits
    BY <1>21 DEF HelperExits
  <1>22. CASE Interrupt
    BY <1>0, <1>22 DEF Interrupt, KillGroup, Reap
  <1>23. CASE DeadlinePasses
    BY <1>23 DEF DeadlinePasses
  <1>24. CASE Replaced
    BY <1>24 DEF Replaced
  <1>25. CASE UNCHANGED vars
    BY <1>25 DEF vars
  <1>26. CASE Guard
    BY <1>0, <1>26 DEF Guard
  <1> QED
    BY <1>1, <1>2, <1>3, <1>4, <1>5, <1>6, <1>7, <1>8, <1>9, <1>10, <1>11, <1>12, <1>13, <1>14, <1>15, <1>16, <1>17, <1>18, <1>19, <1>20, <1>21, <1>22, <1>23, <1>24, <1>25, <1>26 DEF Next, Script, World

\* The check before each launch.
LEMMA StaysChecked ==
  ASSUME TypeOK, ChildKept, Checked, [Next]_vars
  PROVE  Checked'
  <1> USE DEF Checked, LaunchedAsApproved, Images, PCs, Waiting, Ended, Watch, Running, disk, child, pipes, reading, history
  <1>1. CASE Probe
    BY <1>1 DEF Probe, Fail, ChildKept
  <1>2. CASE ReadPrivateConfig
    BY <1>2 DEF ReadPrivateConfig, Fail, ChildKept
  <1>3. CASE BinaryIdentity
    BY <1>3 DEF BinaryIdentity, Fail, ChildKept
  <1>4. CASE AssertBinaryUnchanged
    BY <1>4 DEF AssertBinaryUnchanged, Fail, ChildKept
  <1>5. CASE Spawn
    BY <1>5 DEF Spawn, Fail, ChildKept
  <1>6. CASE TimesOut
    BY <1>6 DEF TimesOut, Turns, Abort, KillGroup, Reap, Fail, ChildKept
  <1>7. CASE SelectReady
    BY <1>7 DEF SelectReady, Turns, ChildKept
  <1>8. CASE SelectAll
    BY <1>8 DEF SelectAll, NoEvent, Turns, Reap, ChildKept
  <1>9. CASE WatchEnded
    BY <1>9 DEF WatchEnded, NoEvent, Turns, Abort, KillGroup, Reap, Fail, ChildKept
  <1>10. CASE ReadOut
    BY <1>10 DEF ReadOut, Abort, KillGroup, Reap, Fail, ChildKept
  <1>11. CASE ReadErr
    BY <1>11 DEF ReadErr, Abort, KillGroup, Reap, Fail, ChildKept
  <1>12. ASSUME NEW s \in Streams, ReadEnd(s) PROVE Checked'
    BY <1>12 DEF ReadEnd, ChildKept
  <1>13. CASE Terminate
    BY <1>13 DEF Terminate, Reap, ChildKept
  <1>14. CASE Wait
    BY <1>14 DEF Wait, Abort, KillGroup, Reap, Fail, ChildKept
  <1>15. CASE Judge
    BY <1>15 DEF Judge, Fail, ChildKept
  <1>16. ASSUME NEW line \in Lines, Prints(line) PROVE Checked'
    BY <1>16 DEF Prints, ChildKept
  <1>17. CASE Complains
    BY <1>17 DEF Complains, ChildKept
  <1>18. CASE Forks
    BY <1>18 DEF Forks, ChildKept
  <1>19. CASE ClosesPipes
    BY <1>19 DEF ClosesPipes, ChildKept
  <1>20. ASSUME NEW status \in {0, 1}, Exits(status) PROVE Checked'
    BY <1>20 DEF Exits, ChildKept
  <1>21. CASE HelperExits
    BY <1>21 DEF HelperExits, ChildKept
  <1>22. CASE Interrupt
    BY <1>22 DEF Interrupt, KillGroup, Reap, ChildKept
  <1>23. CASE DeadlinePasses
    BY <1>23 DEF DeadlinePasses, ChildKept
  <1>24. CASE Replaced
    BY <1>24 DEF Replaced, ChildKept
  <1>25. CASE UNCHANGED vars
    BY <1>25 DEF vars, ChildKept
  <1>26. CASE Guard
    BY <1>26 DEF Guard, ChildKept
  <1> QED
    BY <1>1, <1>2, <1>3, <1>4, <1>5, <1>6, <1>7, <1>8, <1>9, <1>10, <1>11, <1>12, <1>13, <1>14, <1>15, <1>16, <1>17, <1>18, <1>19, <1>20, <1>21, <1>22, <1>23, <1>24, <1>25, <1>26 DEF Next, Script, World

\* Streams that have ended.
LEMMA StaysDrained ==
  ASSUME TypeOK, ChildKept, Drained, [Next]_vars
  PROVE  Drained'
  <1> USE DEF Drained, Preparing, Supervising, Streams, HasData, HasWriter, PCs, Waiting, Ended, Watch, Running, disk, child, pipes, reading, history
  <1>0. open \subseteq Streams /\ todo \subseteq open /\ leader \in {"none", "alive", "dead", "reaped"}
    BY DEF TypeOK
  <1>1. CASE Probe
    BY <1>0, <1>1 DEF Probe, Fail, ChildKept
  <1>2. CASE ReadPrivateConfig
    BY <1>0, <1>2 DEF ReadPrivateConfig, Fail, ChildKept
  <1>3. CASE BinaryIdentity
    BY <1>0, <1>3 DEF BinaryIdentity, Fail, ChildKept
  <1>4. CASE AssertBinaryUnchanged
    BY <1>0, <1>4 DEF AssertBinaryUnchanged, Fail, ChildKept
  <1>5. CASE Spawn
    BY <1>0, <1>5 DEF Spawn, Fail, ChildKept
  <1>6. CASE TimesOut
    BY <1>0, <1>6 DEF TimesOut, Turns, Abort, KillGroup, Reap, Fail, ChildKept
  <1>7. CASE SelectReady
    BY <1>0, <1>7 DEF SelectReady, Turns, ChildKept
  <1>8. CASE SelectAll
    BY <1>0, <1>8 DEF SelectAll, NoEvent, Turns, Reap, ChildKept
  <1>9. CASE WatchEnded
    BY <1>0, <1>9 DEF WatchEnded, NoEvent, Turns, Abort, KillGroup, Reap, Fail, ChildKept
  <1>10. CASE ReadOut
    BY <1>0, <1>10 DEF ReadOut, Abort, KillGroup, Reap, Fail, ChildKept
  <1>11. CASE ReadErr
    BY <1>0, <1>11 DEF ReadErr, Abort, KillGroup, Reap, Fail, ChildKept
  <1>12. ASSUME NEW s \in Streams, ReadEnd(s) PROVE Drained'
    BY <1>12 DEF ReadEnd, ChildKept
  <1>13. CASE Terminate
    BY <1>0, <1>13 DEF Terminate, Reap, ChildKept
  <1>14. CASE Wait
    BY <1>0, <1>14 DEF Wait, Abort, KillGroup, Reap, Fail, ChildKept
  <1>15. CASE Judge
    BY <1>0, <1>15 DEF Judge, Fail, ChildKept
  <1>16. ASSUME NEW line \in Lines, Prints(line) PROVE Drained'
    BY <1>16 DEF Prints, ChildKept
  <1>17. CASE Complains
    BY <1>17 DEF Complains, ChildKept
  <1>18. CASE Forks
    BY <1>18 DEF Forks, ChildKept
  <1>19. CASE ClosesPipes
    BY <1>19 DEF ClosesPipes, ChildKept
  <1>20. ASSUME NEW status \in {0, 1}, Exits(status) PROVE Drained'
    BY <1>20 DEF Exits, ChildKept
  <1>21. CASE HelperExits
    BY <1>21 DEF HelperExits, ChildKept
  <1>22. CASE Interrupt
    BY <1>0, <1>22 DEF Interrupt, KillGroup, Reap, ChildKept
  <1>23. CASE DeadlinePasses
    BY <1>23 DEF DeadlinePasses, ChildKept
  <1>24. CASE Replaced
    BY <1>24 DEF Replaced, ChildKept
  <1>25. CASE UNCHANGED vars
    BY <1>25 DEF vars, ChildKept
  <1>26. CASE Guard
    BY <1>0, <1>26 DEF Guard, ChildKept
  <1> QED
    BY <1>1, <1>2, <1>3, <1>4, <1>5, <1>6, <1>7, <1>8, <1>9, <1>10, <1>11, <1>12, <1>13, <1>14, <1>15, <1>16, <1>17, <1>18, <1>19, <1>20, <1>21, <1>22, <1>23, <1>24, <1>25, <1>26 DEF Next, Script, World

\* Every line is accounted for.
LEMMA StaysAccounted ==
  ASSUME TypeOK, ChildKept, Drained, Accounted, [Next]_vars
  PROVE  Accounted'
  <1> USE DEF Accounted, Supervising, PCs, Waiting, Ended, Watch, Running, disk, child, pipes, reading, history
  <1>0. /\ Len(bufferOut) \in Nat /\ Len(pipeOut) \in Nat /\ records \in 0..2 /\ lines \in Nat
        /\ pc \in PCs /\ phase \in 1..Watch
    BY DEF TypeOK
  <1>1. CASE Probe
    BY <1>0, <1>1 DEF Probe, Fail, ChildKept
  <1>2. CASE ReadPrivateConfig
    BY <1>0, <1>2 DEF ReadPrivateConfig, Fail, ChildKept
  <1>3. CASE BinaryIdentity
    BY <1>0, <1>3 DEF BinaryIdentity, Fail, ChildKept
  <1>4. CASE AssertBinaryUnchanged
    BY <1>0, <1>4 DEF AssertBinaryUnchanged, Fail, ChildKept
  <1>5. CASE Spawn
    <2>1. CASE pc' = "failed"
      BY <2>1
    <2>2. CASE pc' # "failed"
      <3>1. /\ pipeOut' = <<>> /\ bufferOut' = <<>> /\ lines' = 0 /\ records' = 0
            /\ pc' \in {"spawned"} /\ phase' = phase
        BY <1>5, <2>2 DEF Spawn, Fail
      <3>2. Len(pipeOut') = 0 /\ Len(bufferOut') = 0
        BY <3>1
      <3> QED
        BY <3>1, <3>2
    <2> QED
      BY <2>1, <2>2
  <1>6. CASE TimesOut
    BY <1>0, <1>6 DEF TimesOut, Turns, Abort, KillGroup, Reap, Fail, ChildKept
  <1>7. CASE SelectReady
    BY <1>0, <1>7 DEF SelectReady, Turns, ChildKept
  <1>8. CASE SelectAll
    BY <1>0, <1>8 DEF SelectAll, NoEvent, Turns, Reap, ChildKept
  <1>9. CASE WatchEnded
    BY <1>0, <1>9 DEF WatchEnded, NoEvent, Turns, Abort, KillGroup, Reap, Fail, ChildKept
  <1>10. CASE ReadOut
    <2>1. /\ Len(Arrived) = Len(bufferOut) + Len(pipeOut)
          /\ Len(Taken) + Len(Left) = Len(Arrived)
          /\ Len(Taken) \in Nat /\ Len(Left) \in Nat /\ records + Len(Taken) \in 0..2
      BY ArrivedLines, TakenAndLeft DEF TypeOK
    <2>2. CASE Len(Arrived) > MaxOutput \/ (pc = "watch" /\ Invalid(Taken))
      BY <1>10, <2>2 DEF ReadOut, Abort, Fail
    <2>3. CASE ~(Len(Arrived) > MaxOutput \/ (pc = "watch" /\ Invalid(Taken)))
      <3>1. pipeOut' = <<>> /\ Len(pipeOut') = 0 /\ lines' = lines /\ pc' = pc
        BY <1>10, <2>3 DEF ReadOut
      <3>2. CASE pc = "watch"
        <4>1. bufferOut' = Left /\ records' = records + Len(Taken)
          BY <1>10, <2>3, <3>2 DEF ReadOut
        <4>2. lines' = records' + Len(bufferOut') + Len(pipeOut')
          BY <1>0, <2>1, <3>1, <3>2, <4>1
        <4> QED
          BY <3>1, <3>2, <4>2
      <3>3. CASE pc # "watch"
        BY <1>10, <2>1, <2>3, <3>1, <3>3 DEF ReadOut
      <3> QED
        BY <3>2, <3>3
    <2> QED
      BY <2>2, <2>3
  <1>11. CASE ReadErr
    BY <1>0, <1>11 DEF ReadErr, Abort, KillGroup, Reap, Fail, ChildKept
  <1>12. ASSUME NEW s \in Streams, ReadEnd(s) PROVE Accounted'
    BY <1>12 DEF ReadEnd, ChildKept
  <1>13. CASE Terminate
    BY <1>0, <1>13 DEF Terminate, Reap, ChildKept
  <1>14. CASE Wait
    BY <1>0, <1>14 DEF Wait, Abort, KillGroup, Reap, Fail, ChildKept
  <1>15. CASE Judge
    BY <1>0, <1>15 DEF Judge, Fail, ChildKept
  <1>16. ASSUME NEW line \in Lines, Prints(line) PROVE Accounted'
    <2>1. Len(pipeOut') = Len(pipeOut) + 1 /\ lines' = lines + 1
      BY <1>16, AppendLine DEF Prints, TypeOK
    <2> QED
      BY <1>16, <2>1, <1>0 DEF Prints
  <1>17. CASE Complains
    BY <1>17 DEF Complains, ChildKept
  <1>18. CASE Forks
    BY <1>18 DEF Forks, ChildKept
  <1>19. CASE ClosesPipes
    BY <1>19 DEF ClosesPipes, ChildKept
  <1>20. ASSUME NEW status \in {0, 1}, Exits(status) PROVE Accounted'
    BY <1>20 DEF Exits, ChildKept
  <1>21. CASE HelperExits
    BY <1>21 DEF HelperExits, ChildKept
  <1>22. CASE Interrupt
    BY <1>0, <1>22 DEF Interrupt, KillGroup, Reap, ChildKept
  <1>23. CASE DeadlinePasses
    BY <1>23 DEF DeadlinePasses, ChildKept
  <1>24. CASE Replaced
    BY <1>24 DEF Replaced, ChildKept
  <1>25. CASE UNCHANGED vars
    BY <1>25 DEF vars, ChildKept
  <1>26. CASE Guard
    BY <1>0, <1>26 DEF Guard, ChildKept
  <1> QED
    BY <1>1, <1>2, <1>3, <1>4, <1>5, <1>6, <1>7, <1>8, <1>9, <1>10, <1>11, <1>12, <1>13, <1>14, <1>15, <1>16, <1>17, <1>18, <1>19, <1>20, <1>21, <1>22, <1>23, <1>24, <1>25, <1>26 DEF Next, Script, World

\* A sequence without lines, or with one good line, is valid.
LEMMA GoodLines == ~Invalid(<<>>) /\ ~Invalid(<<"good">>)
  BY DEF Invalid

\* What is objectionable stays to be judged.
LEMMA StaysPending ==
  ASSUME TypeOK, ChildKept, Drained, Pending, [Next]_vars
  PROVE  Pending'
  <1> USE DEF Pending, Preparing, Supervising, PCs, Waiting, Ended, Watch, Running, disk, child, pipes, reading, history
  <1>1. CASE Probe
    BY <1>1 DEF Probe, Fail
  <1>2. CASE ReadPrivateConfig
    BY <1>2 DEF ReadPrivateConfig, Fail
  <1>3. CASE BinaryIdentity
    BY <1>3 DEF BinaryIdentity, Fail
  <1>4. CASE AssertBinaryUnchanged
    BY <1>4 DEF AssertBinaryUnchanged, Fail
  <1>5. CASE Spawn
    BY <1>5 DEF Spawn, Fail
  <1>6. CASE TimesOut
    BY <1>6 DEF TimesOut, Turns, Abort, KillGroup, Reap, Fail
  <1>7. CASE SelectReady
    BY <1>7 DEF SelectReady, Turns
  <1>8. CASE SelectAll
    BY <1>8 DEF SelectAll, NoEvent, Turns, Reap
  <1>9. CASE WatchEnded
    BY <1>9 DEF WatchEnded, NoEvent, Turns, Abort, KillGroup, Reap, Fail
  <1>10. CASE ReadOut
    <2>1. /\ Invalid(Arrived) <=> Invalid(bufferOut) \/ Invalid(pipeOut)
          /\ Invalid(Arrived) => Invalid(Taken) \/ Invalid(Left)
      BY ArrivedLines, TakenAndLeft DEF TypeOK
    <2>2. CASE Len(Arrived) > MaxOutput \/ (pc = "watch" /\ Invalid(Taken))
      BY <1>10, <2>2 DEF ReadOut, Abort, Fail
    <2>3. CASE ~(Len(Arrived) > MaxOutput \/ (pc = "watch" /\ Invalid(Taken)))
      BY <1>10, <2>1, <2>3 DEF ReadOut
    <2> QED
      BY <2>2, <2>3
  <1>11. CASE ReadErr
    BY <1>11 DEF ReadErr, Abort, KillGroup, Reap, Fail
  <1>12. ASSUME NEW s \in Streams, ReadEnd(s) PROVE Pending'
    BY <1>12 DEF ReadEnd
  <1>13. CASE Terminate
    BY <1>13 DEF Terminate, Reap
  <1>14. CASE Wait
    BY <1>14 DEF Wait, Abort, KillGroup, Reap, Fail
  <1>15. CASE Judge
    <2>1. pipeOut = <<>> /\ ~pipeErr
      BY <1>15 DEF Judge, Drained, Streams, HasData
    <2>2. Valid => ~wroteBad
      BY <1>15, <2>1, GoodLines DEF Judge, Valid, ValidWatch, ValidOneShot
    <2> QED
      BY <1>15, <2>2 DEF Judge, Fail
  <1>16. ASSUME NEW line \in Lines, Prints(line) PROVE Pending'
    <2>1. Invalid(pipeOut') <=> Invalid(pipeOut) \/ line = "bad"
      BY <1>16, AppendLine DEF Prints, TypeOK
    <2> QED
      BY <1>16, <2>1 DEF Prints, Drained
  <1>17. CASE Complains
    BY <1>17 DEF Complains, Drained
  <1>18. CASE Forks
    BY <1>18 DEF Forks
  <1>19. CASE ClosesPipes
    BY <1>19 DEF ClosesPipes
  <1>20. ASSUME NEW status \in {0, 1}, Exits(status) PROVE Pending'
    BY <1>20 DEF Exits
  <1>21. CASE HelperExits
    BY <1>21 DEF HelperExits
  <1>22. CASE Interrupt
    BY <1>22 DEF Interrupt, KillGroup, Reap
  <1>23. CASE DeadlinePasses
    BY <1>23 DEF DeadlinePasses
  <1>24. CASE Replaced
    BY <1>24 DEF Replaced
  <1>25. CASE UNCHANGED vars
    BY <1>25 DEF vars
  <1>26. CASE Guard
    BY <1>26 DEF Guard
  <1> QED
    BY <1>1, <1>2, <1>3, <1>4, <1>5, <1>6, <1>7, <1>8, <1>9, <1>10, <1>11, <1>12, <1>13, <1>14, <1>15, <1>16, <1>17, <1>18, <1>19, <1>20, <1>21, <1>22, <1>23, <1>24, <1>25, <1>26 DEF Next, Script, World

\* The claim of the evidence.
LEMMA StaysJudged ==
  ASSUME TypeOK, Drained, Accounted, Pending, AllOutputJudged, [Next]_vars
  PROVE  AllOutputJudged'
  <1> USE DEF AllOutputJudged, HasWriter, PCs, Waiting, Ended, Watch, Running, disk, child, pipes, reading, history
  <1>1. CASE Probe
    BY <1>1 DEF Probe, Fail
  <1>2. CASE ReadPrivateConfig
    BY <1>2 DEF ReadPrivateConfig, Fail
  <1>3. CASE BinaryIdentity
    BY <1>3 DEF BinaryIdentity, Fail
  <1>4. CASE AssertBinaryUnchanged
    BY <1>4 DEF AssertBinaryUnchanged, Fail
  <1>5. CASE Spawn
    BY <1>5 DEF Spawn, Fail
  <1>6. CASE TimesOut
    BY <1>6 DEF TimesOut, Turns, Abort, KillGroup, Reap, Fail
  <1>7. CASE SelectReady
    BY <1>7 DEF SelectReady, Turns
  <1>8. CASE SelectAll
    BY <1>8 DEF SelectAll, NoEvent, Turns, Reap
  <1>9. CASE WatchEnded
    BY <1>9 DEF WatchEnded, NoEvent, Turns, Abort, KillGroup, Reap, Fail
  <1>10. CASE ReadOut
    BY <1>10 DEF ReadOut, Abort, KillGroup, Reap, Fail
  <1>11. CASE ReadErr
    BY <1>11 DEF ReadErr, Abort, KillGroup, Reap, Fail
  <1>12. ASSUME NEW s \in Streams, ReadEnd(s) PROVE AllOutputJudged'
    BY <1>12 DEF ReadEnd
  <1>13. CASE Terminate
    BY <1>13 DEF Terminate, Reap
  <1>14. CASE Wait
    BY <1>14 DEF Wait, Abort, KillGroup, Reap, Fail
  <1>15. CASE Judge
    <2>1. pipeOut = <<>> /\ ~pipeErr /\ ~HasWriter
      BY <1>15 DEF Judge, Drained, Supervising, Streams, HasData
    <2>2. CASE pc' = "done"
      <3>1. Valid /\ phase = Watch /\ bufferOut = <<>> /\ ~bufferErr
        BY <1>15, <2>2 DEF Judge, Fail, Valid, ValidWatch
      <3>2. lines = 2 /\ ~wroteBad
        BY <1>15, <2>1, <3>1, GoodLines DEF Judge, Accounted, Pending, Supervising
      <3> QED
        BY <1>15, <2>1, <3>2 DEF Judge, HasWriter
    <2>3. CASE pc' # "done"
      BY <2>3
    <2> QED
      BY <2>2, <2>3
  <1>16. ASSUME NEW line \in Lines, Prints(line) PROVE AllOutputJudged'
    BY <1>16 DEF Prints
  <1>17. CASE Complains
    BY <1>17 DEF Complains
  <1>18. CASE Forks
    BY <1>18 DEF Forks
  <1>19. CASE ClosesPipes
    BY <1>19 DEF ClosesPipes
  <1>20. ASSUME NEW status \in {0, 1}, Exits(status) PROVE AllOutputJudged'
    BY <1>20 DEF Exits
  <1>21. CASE HelperExits
    BY <1>21 DEF HelperExits
  <1>22. CASE Interrupt
    BY <1>22 DEF Interrupt, KillGroup, Reap
  <1>23. CASE DeadlinePasses
    BY <1>23 DEF DeadlinePasses
  <1>24. CASE Replaced
    BY <1>24 DEF Replaced
  <1>25. CASE UNCHANGED vars
    BY <1>25 DEF vars
  <1>26. CASE Guard
    BY <1>26 DEF Guard
  <1> QED
    BY <1>1, <1>2, <1>3, <1>4, <1>5, <1>6, <1>7, <1>8, <1>9, <1>10, <1>11, <1>12, <1>13, <1>14, <1>15, <1>16, <1>17, <1>18, <1>19, <1>20, <1>21, <1>22, <1>23, <1>24, <1>25, <1>26 DEF Next, Script, World

-----------------------------------------------------------------------------
(* The theorems.                                                           *)

\* The inductive invariant of the validator: types; a child exists exactly
\* while it is supervised; a changed binary came after the check; closed streams
\* have ended; every line written is accounted for, and a bad one still pending.
THEOREM InductiveInvariant == Spec => []IInv
<1>1. Init => IInv
  <2> SUFFICES ASSUME Init PROVE IInv
    OBVIOUS
  <2>1. Flags
    BY DEF Init, Flags
  <2>2. Values
    BY DEF Init, Values, PCs, Images, Watch
  <2>3. ChildKept /\ Checked /\ Drained /\ Accounted /\ Pending /\ AllOutputJudged
    BY DEF Init, ChildKept, Checked, LaunchedAsApproved, Drained, Accounted, Pending,
       AllOutputJudged, Preparing, Supervising, Waiting, HasWriter
  <2> QED
    BY <2>1, <2>2, <2>3, TypeParts DEF IInv
<1>2. IInv /\ [Next]_vars => IInv'
  <2> SUFFICES ASSUME IInv, [Next]_vars PROVE IInv'
    OBVIOUS
  <2> USE DEF IInv
  <2>1. TypeOK'
    BY TypeParts, FlagsKept, ValuesKept DEF TypeOK, Flags, Values
  <2>2. ChildKept' /\ Checked'
    BY ChildStaysKept, StaysChecked
  <2>3. Drained' /\ Accounted' /\ Pending' /\ AllOutputJudged'
    BY StaysDrained, StaysAccounted, StaysPending, StaysJudged
  <2> QED
    BY <2>1, <2>2, <2>3
<1> QED
  BY <1>1, <1>2, PTL DEF Spec

\* Type correctness of the validator's state.
THEOREM TypeCorrect == Spec => []TypeOK
<1>1. IInv => TypeOK
  BY DEF IInv
<1> QED
  BY <1>1, InductiveInvariant, PTL

\* Only Ctrl-C, or an error before the guarded clause, interrupts the script.
LEMMA InterruptedHow ==
  ASSUME Next, pc' = "interrupted"
  PROVE  Interrupt \/ Guard
  <1> USE DEF Waiting, Ended, Running
  <1>1. CASE Probe \/ ReadPrivateConfig \/ BinaryIdentity \/ AssertBinaryUnchanged \/ Spawn
    BY <1>1 DEF Probe, ReadPrivateConfig, BinaryIdentity, AssertBinaryUnchanged, Spawn, Fail
  <1>2. CASE TimesOut \/ WatchEnded
    BY <1>2 DEF TimesOut, WatchEnded, NoEvent, Turns, Abort, Fail
  <1>3. CASE SelectReady \/ SelectAll
    BY <1>3 DEF SelectReady, SelectAll, NoEvent, Turns
  <1>4. CASE ReadOut \/ ReadErr
    BY <1>4 DEF ReadOut, ReadErr, Abort, Fail
  <1>5. ASSUME NEW s \in Streams, ReadEnd(s) PROVE Interrupt \/ Guard
    BY <1>5 DEF ReadEnd
  <1>6. CASE Terminate \/ Wait \/ Judge
    BY <1>6 DEF Terminate, Wait, Judge, Abort, Fail
  <1>7. ASSUME NEW line \in Lines, Prints(line) PROVE Interrupt \/ Guard
    BY <1>7 DEF Prints
  <1>8. ASSUME NEW status \in {0, 1}, Exits(status) PROVE Interrupt \/ Guard
    BY <1>8 DEF Exits
  <1>9. CASE Complains \/ Forks \/ ClosesPipes \/ HelperExits \/ DeadlinePasses \/ Replaced
    BY <1>9 DEF Complains, Forks, ClosesPipes, HelperExits, DeadlinePasses, Replaced
  <1> QED
    BY <1>1, <1>2, <1>3, <1>4, <1>5, <1>6, <1>7, <1>8, <1>9 DEF Next, Script, World

\* No child is left when the validator reports, or when Ctrl-C ends it outside
\* _bounded_pipes and the moments before the watch is guarded, whatever the child
\* and its descendants do (_kill_group and the finally clause).
THEOREM LeavesNoChild == Spec => NoChildLeft
<1>1. IInv /\ IInv' /\ [Next]_vars =>
        [/\ pc' \in Ended
         /\ pc' = "interrupted" => pc \notin {"spawned", "read"}
         => leader' \in {"none", "reaped"}]_vars
  <2> SUFFICES ASSUME IInv, IInv', Next, pc' \in Ended,
                      pc' = "interrupted" => pc \notin {"spawned", "read"}
               PROVE  leader' \in {"none", "reaped"}
    OBVIOUS
  <2>1. CASE pc' # "interrupted"
    BY <2>1 DEF IInv, ChildKept, Waiting, Ended
  <2>2. CASE pc' = "interrupted"
    <3>1. Interrupt /\ pc \notin {"spawned", "read"}
      BY <2>2, InterruptedHow DEF Guard
    <3>2. CASE phase = Watch /\ pc \in Waiting
      BY <3>1, <3>2 DEF Interrupt, KillGroup, Reap, IInv, TypeOK
    <3>3. CASE ~(phase = Watch /\ pc \in Waiting)
      BY <3>1, <3>3 DEF Interrupt, IInv, ChildKept, Waiting, Ended
    <3> QED
      BY <3>2, <3>3
  <2> QED
    BY <2>1, <2>2
<1> QED
  BY <1>1, InductiveInvariant, PTL DEF Spec, NoChildLeft

\* No output of any child or descendant escapes the checks of
\* _bounded_pipes and _read_watch_records.
THEOREM JudgesAllOutput == Spec => []AllOutputJudged
<1>1. IInv => AllOutputJudged
  BY DEF IInv
<1> QED
  BY <1>1, InductiveInvariant, PTL

\* Another binary runs only if it came after the check of
\* _assert_binary_unchanged that precedes its launch.
THEOREM LaunchesApproved == Spec => []LaunchedAsApproved
<1>1. IInv => LaunchedAsApproved
  BY DEF IInv, Checked
<1> QED
  BY <1>1, InductiveInvariant, PTL

=============================================================================
