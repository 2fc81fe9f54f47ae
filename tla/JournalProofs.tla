---------------------------- MODULE JournalProofs ---------------------------
(***************************************************************************)
(* Proofs about the decision journal, for any number of shadow processes,  *)
(* files and events, any page length and any interference.                 *)
(***************************************************************************)
EXTENDS Journal, TLAPS

-----------------------------------------------------------------------------
(* The inductive invariant.                                                *)

\* What is written is an event, or a fragment that is none.
Piece == {x \in Write : x.kind # "torn" => x.event \in Event}

FilesTyped ==
  /\ used \subseteq Files
  /\ path \in [Paths -> used \cup {None}]
  /\ content \in [Files -> Seq(Piece)]
  /\ synced \in [Files -> Nat]
  /\ \A f \in Files : synced[f] <= Len(content[f])

WritersTyped ==
  /\ writer \in [Writers -> Writer]
  /\ \A w \in Writers : writer[w].fd = None <=> writer[w].step = "down"

\* Between its write and the end of the round a process holds the event.
EventsHeld ==
  \A w \in Writers : writer[w].step \in {"written", "synced"} => writer[w].event \in Event

ReaderTyped ==
  /\ reader \in [step : ReaderSteps, batch : BOOLEAN, fd : Files \cup {None},
                 read : Seq(Piece) \cup {None}]
  /\ reader.step # "off" => reader.fd \in Files
  /\ reader.step = "locked" => reader.read \in Seq(Piece) /\ Verifiable(reader.read)

CountsTyped ==
  /\ evaluated \in 0..MaxEvents
  /\ emitted \subseteq Event
  /\ happened \in 0..MaxHappened

\* Advisory locks exclude: one writer of a file, and none while it is read.
Exclusive ==
  /\ \A v, w \in Writers : \A f \in Files : Writes(v, f) /\ Writes(w, f) => v = w
  /\ \A w \in Writers : \A f \in Files : ~(Writes(w, f) /\ Reads(f))

\* The event a process is about to emit is in its file as it was written, and
\* within the durable part once it is synced.
HasWritten(w, n) ==
  \E i \in 1..n : content[writer[w].fd][i] = [kind |-> "whole", event |-> writer[w].event]

Wrote(w) ==
  /\ writer[w].step = "written" => HasWritten(w, Len(content[writer[w].fd]))
  /\ writer[w].step = "synced" => HasWritten(w, synced[writer[w].fd])

WrittenIsThere == \A w \in Writers : Wrote(w)

\* What a process that has found and kept its file clean knows of the file's end.
EndsClean(c) == c = <<>> \/ c[Len(c)].kind = "whole"

EndsWith(c, e) == Len(c) > 0 /\ IsLine(c, Len(c)) /\ c[Len(c)].event = e

KeptClean(w) ==
  writer[w].clean =>
    LET c == content[writer[w].fd]
    IN  /\ writer[w].step \in {"ready", "written", "synced"}
        /\ writer[w].step = "ready" => EndsClean(c)
        /\ writer[w].step \in {"written", "synced"} => EndsWith(c, writer[w].event)
        /\ writer[w].step = "synced" => synced[writer[w].fd] = Len(c)

CleanFiles == \A w \in Writers : KeptClean(w)

HandoffTyped ==
  /\ reported \in Seq(Piece) \cup {None}
  /\ approved \in Seq(Piece) \cup {None}
  /\ imported \in Seq(Event)
  /\ complete \in BOOLEAN

IInv ==
  /\ FilesTyped
  /\ WritersTyped
  /\ EventsHeld
  /\ ReaderTyped
  /\ CountsTyped
  /\ Exclusive
  /\ WrittenIsThere
  /\ CleanFiles
  /\ HandoffTyped
  /\ ImportedIsApproved

-----------------------------------------------------------------------------
(* Records and sequences.                                                  *)

\* An event in hand is one, and its number is free.
LEMMA EventNowTyped ==
  ASSUME CountsTyped, evaluated < MaxEvents, NEW w \in Writers
  PROVE  EventNow(w) \in Event /\ EventNow(w).id = evaluated + 1
<1>1. evaluated + 1 \in 1..MaxEvents
  BY JournalAssumption DEF CountsTyped
<1> QED
  BY <1>1 DEF EventNow, Event

\* What the three ways of writing to a file leave are pieces.
LEMMA PiecesTyped ==
  ASSUME NEW e \in Event
  PROVE  /\ [kind |-> "whole", event |-> e] \in Piece
         /\ [kind |-> "unended", event |-> e] \in Piece
         /\ Torn \in Piece
BY DEF Piece, Write, Torn, NoEvent

\* The step of a process changes that process only.
LEMMA BecomesEffect ==
  ASSUME WritersTyped, NEW w \in Writers, NEW s \in WriterSteps, NEW f \in Files \cup {None},
         NEW e \in Event \cup {NoEvent}, Becomes(w, s, f, e)
  PROVE  /\ writer' \in [Writers -> Writer]
         /\ \A v \in Writers \ {w} : writer'[v] = writer[v]
         /\ writer'[w].step = s /\ writer'[w].fd = f /\ writer'[w].event = e
         /\ writer'[w].clean = writer[w].clean
<1>1. writer[w] \in Writer
  BY DEF WritersTyped
<1>2. writer' = [writer EXCEPT ![w] = [writer[w] EXCEPT !.step = s, !.fd = f, !.event = e]]
  BY DEF Becomes
<1> DEFINE r == [writer[w] EXCEPT !.step = s, !.fd = f, !.event = e]
<1>3. r.step = s /\ r.fd = f /\ r.event = e /\ r.clean = writer[w].clean
  BY <1>1 DEF Writer
<1>5. r \in Writer
  BY <1>1 DEF Writer
<1> HIDE DEF r
<1>6. writer' = [writer EXCEPT ![w] = r]
  BY <1>2 DEF r
<1>7. writer \in [Writers -> Writer]
  BY DEF WritersTyped
<1> QED
  BY <1>3, <1>5, <1>6, <1>7

\* A process that ends gives everything back.
LEMMA DownEffect ==
  ASSUME WritersTyped, NEW w \in Writers, writer' = [writer EXCEPT ![w] = Down]
  PROVE  /\ writer' \in [Writers -> Writer]
         /\ \A v \in Writers \ {w} : writer'[v] = writer[v]
         /\ writer'[w] = Down
<1>1. Down \in Writer
  BY DEF Down, Writer, WriterSteps
<1> QED
  BY <1>1 DEF WritersTyped

\* Taking the lock changes a process's step and what it knows of the file.
LEMMA LockEffect ==
  ASSUME WritersTyped, NEW w \in Writers, Lock(w)
  PROVE  /\ writer' \in [Writers -> Writer]
         /\ \A v \in Writers \ {w} : writer'[v] = writer[v]
         /\ writer'[w].step = "ready" /\ writer'[w].fd = writer[w].fd
         /\ writer'[w].event = writer[w].event
         /\ writer'[w].clean => EndsClean(content[writer[w].fd])
<1> DEFINE c == content[writer[w].fd]
           k == (c = <<>> \/ Last(c).kind = "whole")
           r == [writer[w] EXCEPT !.step = "ready", !.clean = k]
<1>1. writer[w] \in Writer /\ writer \in [Writers -> Writer]
  BY DEF WritersTyped
<1>2. writer' = [writer EXCEPT ![w] = r]
  BY <1>1 DEF Lock
<1>3. r.step = "ready" /\ r.fd = writer[w].fd /\ r.event = writer[w].event /\ r.clean = k
  BY <1>1 DEF Writer
<1>4. k \in BOOLEAN
  OBVIOUS
<1>5. k => EndsClean(c)
  BY DEF EndsClean, Last
<1> HIDE DEF k, c
<1>6. r \in Writer
  BY <1>1, <1>4 DEF Writer, WriterSteps
<1> HIDE DEF r
<1>7. writer'[w] = r /\ writer' \in [Writers -> Writer]
      /\ \A v \in Writers \ {w} : writer'[v] = writer[v]
  BY <1>1, <1>2, <1>6
<1>8. writer'[w].clean = k
  BY <1>3, <1>7
<1>9. writer'[w].clean => EndsClean(c)
  BY <1>5, <1>8, Zenon
<1> QED
  BY <1>3, <1>7, <1>9 DEF c

\* A stray write to a file takes that file's writers their knowledge of its end,
\* and nothing else.
LEMMA ScribbleEffect ==
  ASSUME WritersTyped, NEW f \in Files, Scribble(f)
  PROVE  /\ writer' \in [Writers -> Writer]
         /\ \A w \in Writers :
              /\ writer'[w].step = writer[w].step /\ writer'[w].fd = writer[w].fd
              /\ writer'[w].event = writer[w].event
              /\ writer'[w].clean => writer[w].clean /\ writer[w].fd # f
<1> DEFINE r(w) == [writer[w] EXCEPT !.clean = @ /\ writer[w].fd # f]
<1>1. writer' = [w \in Writers |-> r(w)]
  BY DEF Scribble
<1>2. ASSUME NEW w \in Writers
      PROVE  /\ r(w) \in Writer
             /\ r(w).step = writer[w].step /\ r(w).fd = writer[w].fd
             /\ r(w).event = writer[w].event
             /\ r(w).clean => writer[w].clean /\ writer[w].fd # f
  <2> DEFINE k == writer[w].clean /\ writer[w].fd # f
  <2>1. writer[w] \in Writer
    BY DEF WritersTyped
  <2>2. r(w) = [step |-> writer[w].step, fd |-> writer[w].fd, event |-> writer[w].event,
                clean |-> k]
    BY <2>1 DEF Writer
  <2>3. k \in BOOLEAN /\ (k => writer[w].clean /\ writer[w].fd # f)
    OBVIOUS
  <2> HIDE DEF k, r
  <2>4. r(w) \in Writer
    BY <2>1, <2>2, <2>3 DEF Writer
  <2>5. r(w).clean = k
    BY <2>2
  <2>6. r(w).clean => writer[w].clean /\ writer[w].fd # f
    BY <2>3, <2>5, Zenon
  <2> QED
    BY <2>2, <2>4, <2>6
<1> HIDE DEF r
<1>3. \A w \in Writers : writer'[w] = r(w)
  BY <1>1
<1>4. writer' \in [Writers -> Writer]
  BY <1>1, <1>2
<1>5. ASSUME NEW w \in Writers
      PROVE  writer'[w].clean => writer[w].clean /\ writer[w].fd # f
  BY <1>2, <1>3, Zenon
<1> QED
  BY <1>2, <1>3, <1>4, <1>5

\* What survives a power failure begins with what was synced.
LEMMA SurvivorsKeep ==
  ASSUME FilesTyped, NEW f \in Files, NEW c \in Survivors(f)
  PROVE  /\ c \in Seq(Piece)
         /\ synced[f] <= Len(c)
         /\ \A i \in 1..synced[f] : c[i] = content[f][i]
<1>1. content[f] \in Seq(Piece) /\ synced[f] \in Nat /\ synced[f] <= Len(content[f])
      /\ Len(content[f]) \in Nat
  BY DEF FilesTyped
<1>2. \A k \in 0..Len(content[f]) :
        /\ SubSeq(content[f], 1, k) \in Seq(Piece)
        /\ Len(SubSeq(content[f], 1, k)) = k
        /\ \A i \in 1..k : SubSeq(content[f], 1, k)[i] = content[f][i]
  BY <1>1
<1>3. CASE \E k \in synced[f]..Len(content[f]) : c = SubSeq(content[f], 1, k)
  <2>1. PICK k \in synced[f]..Len(content[f]) : c = SubSeq(content[f], 1, k)
    BY <1>3
  <2>2. k \in 0..Len(content[f]) /\ synced[f] <= k
    BY <1>1
  <2> QED
    BY <1>1, <1>2, <2>1, <2>2
<1>4. CASE \E k \in (synced[f]..Len(content[f])) \ {synced[f]} :
             c = Append(SubSeq(content[f], 1, k - 1), Torn)
  <2>1. PICK k \in (synced[f]..Len(content[f])) \ {synced[f]} :
               c = Append(SubSeq(content[f], 1, k - 1), Torn)
    BY <1>4
  <2> DEFINE b == SubSeq(content[f], 1, k - 1)
  <2>2. k - 1 \in 0..Len(content[f]) /\ synced[f] <= k - 1 /\ k - 1 \in Nat
    BY <1>1
  <2>3. b \in Seq(Piece) /\ Len(b) = k - 1 /\ \A i \in 1..(k - 1) : b[i] = content[f][i]
    BY <1>2, <2>2
  <2>4. Torn \in Piece
    BY DEF Piece, Write, Torn, NoEvent
  <2> HIDE DEF b
  <2>5. c = Append(b, Torn)
    BY <2>1 DEF b
  <2>6. c \in Seq(Piece) /\ Len(c) = k /\ \A i \in 1..(k - 1) : c[i] = b[i]
    BY <2>2, <2>3, <2>4, <2>5
  <2> QED
    BY <1>1, <2>2, <2>3, <2>6
<1> QED
  BY <1>3, <1>4 DEF Survivors

-----------------------------------------------------------------------------
(* What a step leaves alone stays as it was.                               *)

\* Parts of the invariant whose variables do not change.
LEMMA Frames ==
  ASSUME IInv
  PROVE  /\ UNCHANGED files => FilesTyped'
         /\ UNCHANGED writer => WritersTyped' /\ EventsHeld'
         /\ UNCHANGED reader => ReaderTyped'
         /\ UNCHANGED <<evaluated, emitted, happened>> => CountsTyped'
         /\ UNCHANGED handoff => HandoffTyped' /\ ImportedIsApproved'
         /\ UNCHANGED <<writer, reader>> => Exclusive'
         /\ UNCHANGED <<files, writer>> => WrittenIsThere' /\ CleanFiles'
<1> USE DEF IInv, files, handoff
<1>1. UNCHANGED files => FilesTyped'
  BY DEF FilesTyped
<1>2. UNCHANGED writer => WritersTyped' /\ EventsHeld'
  BY DEF WritersTyped, EventsHeld
<1>3. UNCHANGED reader => ReaderTyped'
  BY DEF ReaderTyped
<1>4. UNCHANGED <<evaluated, emitted, happened>> => CountsTyped'
  BY DEF CountsTyped
<1>5. UNCHANGED handoff => HandoffTyped' /\ ImportedIsApproved'
  <2> SUFFICES ASSUME UNCHANGED handoff PROVE HandoffTyped' /\ ImportedIsApproved'
    OBVIOUS
  <2>1. HandoffTyped'
    BY Zenon DEF HandoffTyped
  <2>2. ImportedIsApproved'
    BY Zenon DEF ImportedIsApproved
  <2> QED
    BY <2>1, <2>2
<1>6. UNCHANGED <<writer, reader>> => Exclusive'
  BY DEF Exclusive, Writes, Reads
<1>7. UNCHANGED <<files, writer>> => WrittenIsThere' /\ CleanFiles'
  <2> SUFFICES ASSUME UNCHANGED <<files, writer>> PROVE WrittenIsThere' /\ CleanFiles'
    OBVIOUS
  <2>1. content' = content /\ synced' = synced /\ writer' = writer
    OBVIOUS
  <2>2. WrittenIsThere'
    BY <2>1 DEF WrittenIsThere, Wrote, HasWritten
  <2>3. CleanFiles'
    BY <2>1, Zenon DEF CleanFiles, KeptClean
  <2> QED
    BY <2>2, <2>3
<1> QED
  BY <1>1, <1>2, <1>3, <1>4, <1>5, <1>6, <1>7

\* Locks stay exclusive when no process gains one.
LEMMA NoNewLock ==
  ASSUME IInv, UNCHANGED reader,
         \A v \in Writers : writer'[v].step \in {"ready", "written", "synced"} =>
             writer[v].step \in {"ready", "written", "synced"} /\ writer'[v].fd = writer[v].fd
  PROVE  Exclusive'
<1>1. \A v \in Writers : \A f \in Files : Writes(v, f)' => Writes(v, f)
  BY DEF Writes
<1>2. \A f \in Files : Reads(f)' <=> Reads(f)
  BY DEF Reads
<1> QED
  BY <1>1, <1>2 DEF IInv, Exclusive

\* A write to a file.
LEMMA AppendEffect ==
  ASSUME FilesTyped, NEW f \in Files, NEW x \in Piece,
         content' = [content EXCEPT ![f] = Append(@, x)]
  PROVE  /\ content' \in [Files -> Seq(Piece)]
         /\ \A g \in Files : g # f => content'[g] = content[g]
         /\ Len(content[f]) \in Nat
         /\ Len(content'[f]) = Len(content[f]) + 1
         /\ content'[f][Len(content[f]) + 1] = x
         /\ \A i \in 1..Len(content[f]) : content'[f][i] = content[f][i]
<1>1. content \in [Files -> Seq(Piece)] /\ content[f] \in Seq(Piece)
  BY DEF FilesTyped
<1>2. content'[f] = Append(content[f], x)
  BY <1>1
<1>3. content'[f] \in Seq(Piece) /\ Len(content'[f]) = Len(content[f]) + 1
      /\ content'[f][Len(content[f]) + 1] = x
      /\ \A i \in 1..Len(content[f]) : content'[f][i] = content[f][i]
      /\ Len(content[f]) \in Nat
  BY <1>1, <1>2
<1>4. \A g \in Files : g # f => content'[g] = content[g]
  BY <1>1
<1>5. content' \in [Files -> Seq(Piece)]
  BY <1>1, <1>3
<1> QED
  BY <1>3, <1>4, <1>5

\* A write leaves every file typed and what was durable durable.
LEMMA AppendKeepsFiles ==
  ASSUME FilesTyped, NEW f \in Files, NEW x \in Piece,
         content' = [content EXCEPT ![f] = Append(@, x)], UNCHANGED <<path, synced, used>>
  PROVE  FilesTyped'
<1>1. \A g \in Files : synced[g] \in Nat /\ Len(content[g]) \in Nat /\ synced[g] <= Len(content[g])
  BY DEF FilesTyped
<1>2. \A g \in Files : Len(content'[g]) >= Len(content[g]) /\ Len(content'[g]) \in Nat
  BY <1>1, AppendEffect
<1> QED
  BY <1>1, <1>2, AppendEffect DEF FilesTyped

\* A file's other contents and the processes that write them are out of reach of
\* the process that holds its lock.
LEMMA OthersElsewhere ==
  ASSUME IInv, NEW w \in Writers, writer[w].step \in {"ready", "written", "synced"},
         NEW v \in Writers \ {w}, writer[v].step \in {"ready", "written", "synced"}
  PROVE  writer[v].fd # writer[w].fd /\ writer[v].fd \in Files /\ writer[w].fd \in Files
<1>1. writer[v].fd \in Files /\ writer[w].fd \in Files
  BY DEF IInv, WritersTyped, Writer
<1> QED
  BY <1>1 DEF IInv, Exclusive, Writes

\* Processes that are not touched, in files that only grow, keep what they have
\* written.
LEMMA OthersKeepWritten ==
  ASSUME IInv, NEW v \in Writers, writer'[v] = writer[v],
         \A f \in Files : /\ Len(content[f]) <= Len(content'[f]) /\ Len(content'[f]) \in Nat
                          /\ synced[f] <= synced'[f] /\ synced'[f] \in Nat
                          /\ \A i \in 1..Len(content[f]) : content'[f][i] = content[f][i]
  PROVE  Wrote(v)'
<1> DEFINE f == writer[v].fd
<1> SUFFICES ASSUME writer[v].step \in {"written", "synced"}
             PROVE  /\ writer'[v].step = "written" => HasWritten(v, Len(content[f]))'
                    /\ writer'[v].step = "synced" => HasWritten(v, synced[f])'
  BY DEF Wrote
<1>1. f \in Files
  BY DEF IInv, WritersTyped, Writer
<1>2. Len(content[f]) \in Nat /\ synced[f] \in Nat /\ synced[f] <= Len(content[f])
  BY <1>1 DEF IInv, FilesTyped
<1>3. f' = f /\ f' \in Files
  BY <1>1
<1>4. Len(content[f]) <= Len(content'[f]) /\ Len(content'[f]) \in Nat
      /\ synced[f] <= synced'[f] /\ synced'[f] \in Nat
      /\ \A i \in 1..Len(content[f]) : content'[f][i] = content[f][i]
  BY <1>1
<1>5. CASE writer[v].step = "written"
  <2>1. PICK i \in 1..Len(content[f]) : content[f][i] = [kind |-> "whole", event |-> writer[v].event]
    BY <1>5 DEF IInv, WrittenIsThere, Wrote, HasWritten
  <2>2. i \in 1..Len(content'[f]) /\ content'[f][i] = [kind |-> "whole", event |-> writer'[v].event]
    BY <1>2, <1>4, <2>1
  <2> QED
    BY <1>3, <1>5, <2>2 DEF HasWritten
<1>6. CASE writer[v].step = "synced"
  <2>1. PICK i \in 1..synced[f] : content[f][i] = [kind |-> "whole", event |-> writer[v].event]
    BY <1>6 DEF IInv, WrittenIsThere, Wrote, HasWritten
  <2>2. i \in 1..synced'[f] /\ content'[f][i] = [kind |-> "whole", event |-> writer'[v].event]
    BY <1>2, <1>4, <2>1
  <2> QED
    BY <1>3, <1>6, <2>2 DEF HasWritten
<1> QED
  BY <1>5, <1>6

\* Processes that are not touched, whose files are not either, know the same of
\* their ends.
LEMMA OthersKeepClean ==
  ASSUME IInv, NEW v \in Writers, writer'[v] = writer[v],
         writer[v].clean => /\ content'[writer[v].fd] = content[writer[v].fd]
                            /\ synced'[writer[v].fd] = synced[writer[v].fd]
  PROVE  KeptClean(v)'
BY Zenon DEF IInv, CleanFiles, KeptClean

-----------------------------------------------------------------------------
(* Each step of a shadow process keeps the invariant.                      *)

\* A process that opens a file holds no lock and knows nothing of its end.
LEMMA OpeningKeeps ==
  ASSUME IInv, NEW w \in Writers, writer[w].step = "down", NEW f \in Files,
         Becomes(w, "opened", f, NoEvent), UNCHANGED <<content, synced, reader>>
  PROVE  WritersTyped' /\ EventsHeld' /\ Exclusive' /\ WrittenIsThere' /\ CleanFiles'
<1>1. /\ writer' \in [Writers -> Writer]
      /\ \A v \in Writers \ {w} : writer'[v] = writer[v]
      /\ writer'[w].step = "opened" /\ writer'[w].fd = f /\ writer'[w].clean = writer[w].clean
  BY BecomesEffect DEF IInv, WriterSteps
<1>2. WritersTyped'
  BY <1>1, JournalAssumption DEF IInv, WritersTyped
<1>3. EventsHeld'
  BY <1>1 DEF IInv, EventsHeld
<1>4. Exclusive'
  BY <1>1, NoNewLock
<1>5. WrittenIsThere'
  <2> SUFFICES ASSUME NEW v \in Writers PROVE Wrote(v)'
    BY DEF WrittenIsThere
  <2>1. CASE v = w
    BY <1>1, <2>1 DEF Wrote
  <2>2. CASE v # w
    <3>1. \A g \in Files : Len(content[g]) \in Nat /\ synced[g] \in Nat
      BY DEF IInv, FilesTyped
    <3> QED
      BY <1>1, <2>2, <3>1, OthersKeepWritten
  <2> QED
    BY <2>1, <2>2
<1>6. CleanFiles'
  <2> SUFFICES ASSUME NEW v \in Writers PROVE KeptClean(v)'
    BY DEF CleanFiles
  <2>1. CASE v = w
    <3>1. ~writer[w].clean
      BY Zenon DEF IInv, CleanFiles, KeptClean
    <3> QED
      BY <1>1, <2>1, <3>1, Zenon DEF KeptClean
  <2>2. CASE v # w
    BY <1>1, <2>2, OthersKeepClean
  <2> QED
    BY <2>1, <2>2
<1> QED
  BY <1>2, <1>3, <1>4, <1>5, <1>6

\* Creating the journal.
LEMMA CreateStep ==
  ASSUME IInv, NEW w \in Writers, Create(w)
  PROVE  IInv'
<1>1. PICK f \in Files \ (used \cup UnsafeFiles) :
        /\ path' = [path EXCEPT !["live"] = f]
        /\ used' = used \cup {f}
        /\ Becomes(w, "opened", f, NoEvent)
  BY DEF Create
<1>2. writer[w].step = "down" /\ UNCHANGED <<content, synced, evaluated, emitted, reader, handoff, happened>>
  BY DEF Create
<1>3. FilesTyped'
  BY <1>1, <1>2 DEF IInv, FilesTyped, Paths
<1>4. WritersTyped' /\ EventsHeld' /\ Exclusive' /\ WrittenIsThere' /\ CleanFiles'
  BY <1>1, <1>2, OpeningKeeps
<1> QED
  BY <1>2, <1>3, <1>4, Frames DEF IInv

\* Opening a journal that is there.
LEMMA OpenExistingStep ==
  ASSUME IInv, NEW w \in Writers, OpenExisting(w)
  PROVE  IInv'
<1>1. /\ writer[w].step = "down" /\ path["live"] \in Files
      /\ Becomes(w, "opened", path["live"], NoEvent)
      /\ UNCHANGED <<files, evaluated, emitted, reader, handoff, happened>>
  BY DEF OpenExisting
<1>2. UNCHANGED <<content, synced, reader>>
  BY <1>1 DEF files
<1>3. WritersTyped' /\ EventsHeld' /\ Exclusive' /\ WrittenIsThere' /\ CleanFiles'
  BY <1>1, <1>2, OpeningKeeps
<1> QED
  BY <1>1, <1>3, Frames DEF IInv

\* A process that ends lets go of its lock.
LEMMA EndingKeeps ==
  ASSUME IInv, NEW w \in Writers, writer' = [writer EXCEPT ![w] = Down], UNCHANGED reader
  PROVE  WritersTyped' /\ EventsHeld' /\ Exclusive' /\ Wrote(w)' /\ KeptClean(w)'
<1>1. /\ writer' \in [Writers -> Writer]
      /\ \A v \in Writers \ {w} : writer'[v] = writer[v]
      /\ writer'[w] = Down
  BY DownEffect DEF IInv
<1>2. writer'[w].step = "down" /\ writer'[w].fd = None /\ ~writer'[w].clean
  BY <1>1 DEF Down
<1>3. WritersTyped'
  BY <1>1, <1>2 DEF IInv, WritersTyped
<1>4. EventsHeld'
  BY <1>1, <1>2 DEF IInv, EventsHeld
<1>5. Exclusive'
  BY <1>1, <1>2, NoNewLock
<1>6. Wrote(w)'
  BY <1>2 DEF Wrote
<1>7. KeptClean(w)'
  BY <1>2, Zenon DEF KeptClean
<1> QED
  BY <1>3, <1>4, <1>5, <1>6, <1>7

\* A process stops.
LEMMA StopStep ==
  ASSUME IInv, NEW w \in Writers, Stop(w)
  PROVE  IInv'
<1>1. writer' = [writer EXCEPT ![w] = Down]
      /\ UNCHANGED <<files, evaluated, emitted, reader, handoff, happened>>
  BY DEF Stop
<1>2. WritersTyped' /\ EventsHeld' /\ Exclusive' /\ Wrote(w)' /\ KeptClean(w)'
  BY <1>1, EndingKeeps
<1>3. ASSUME NEW v \in Writers \ {w} PROVE Wrote(v)' /\ KeptClean(v)'
  <2>1. writer'[v] = writer[v]
    BY <1>1, DownEffect DEF IInv
  <2>2. content' = content /\ synced' = synced
    BY <1>1 DEF files
  <2>3. \A g \in Files : Len(content[g]) \in Nat /\ synced[g] \in Nat
    BY DEF IInv, FilesTyped
  <2>4. Wrote(v)'
    BY <2>1, <2>2, <2>3, OthersKeepWritten
  <2>5. KeptClean(v)'
    BY <2>1, <2>2, OthersKeepClean
  <2> QED
    BY <2>4, <2>5
<1>4. WrittenIsThere' /\ CleanFiles'
  BY <1>2, <1>3 DEF WrittenIsThere, CleanFiles
<1> QED
  BY <1>1, <1>2, <1>4, Frames DEF IInv

\* Taking the lock of a file that nobody has locked.
LEMMA LockStep ==
  ASSUME IInv, NEW w \in Writers, Lock(w)
  PROVE  IInv'
<1>1. writer[w].step = "opened" /\ CanLockExclusive(writer[w].fd)
      /\ UNCHANGED <<files, evaluated, emitted, reader, handoff, happened>>
  BY DEF Lock
<1>2. /\ writer' \in [Writers -> Writer]
      /\ \A v \in Writers \ {w} : writer'[v] = writer[v]
      /\ writer'[w].step = "ready" /\ writer'[w].fd = writer[w].fd
      /\ writer'[w].event = writer[w].event
      /\ writer'[w].clean => EndsClean(content[writer[w].fd])
  BY LockEffect DEF IInv
<1>3. WritersTyped'
  BY <1>1, <1>2 DEF IInv, WritersTyped
<1>4. EventsHeld'
  BY <1>2 DEF IInv, EventsHeld
<1>5. Exclusive'
  <2>1. \A v \in Writers \ {w} : \A f \in Files : Writes(v, f)' <=> Writes(v, f)
    BY <1>2 DEF Writes
  <2>2. \A f \in Files : Writes(w, f)' => f = writer[w].fd
    BY <1>2 DEF Writes
  <2>3. \A f \in Files : Reads(f)' <=> Reads(f)
    BY <1>1 DEF Reads
  <2> QED
    BY <1>1, <2>1, <2>2, <2>3 DEF IInv, Exclusive, CanLockExclusive
<1>6. ASSUME NEW v \in Writers PROVE Wrote(v)' /\ KeptClean(v)'
  <2>1. content' = content /\ synced' = synced
    BY <1>1 DEF files
  <2>2. CASE v = w
    <3>1. Wrote(w)'
      BY <1>2 DEF Wrote
    <3>2. EndsClean(content'[writer'[w].fd])
          <=> EndsClean(content[writer[w].fd])
      BY <1>2, <2>1, Zenon
    <3>3. writer'[w].step \notin {"written", "synced"} /\ writer'[w].step \in {"ready", "written", "synced"}
          /\ writer'[w].step # "synced"
      BY <1>2
    <3>4. KeptClean(w)'
      BY <1>2, <3>2, <3>3, Zenon DEF KeptClean
    <3> QED
      BY <2>2, <3>1, <3>4
  <2>3. CASE v # w
    <3>1. writer'[v] = writer[v]
      BY <1>2, <2>3
    <3>2. \A g \in Files : Len(content[g]) \in Nat /\ synced[g] \in Nat
      BY DEF IInv, FilesTyped
    <3>3. Wrote(v)'
      BY <2>1, <3>1, <3>2, OthersKeepWritten
    <3>4. KeptClean(v)'
      BY <2>1, <3>1, OthersKeepClean
    <3> QED
      BY <3>3, <3>4
  <2> QED
    BY <2>2, <2>3
<1>7. WrittenIsThere' /\ CleanFiles'
  BY <1>6 DEF WrittenIsThere, CleanFiles
<1> QED
  BY <1>1, <1>3, <1>4, <1>5, <1>7, Frames DEF IInv

\* A process that is about to write has its file for itself.
LEMMA EvaluateFacts ==
  ASSUME IInv, NEW w \in Writers, Evaluate(w), UNCHANGED <<emitted, happened>>
  PROVE  /\ writer[w].step = "ready" /\ writer[w].fd \in Files
         /\ EventNow(w) \in Event
         /\ CountsTyped'
<1>1. writer[w].step = "ready" /\ evaluated < MaxEvents /\ evaluated' = evaluated + 1
  BY DEF Evaluate
<1>2. writer[w].fd \in Files
  BY <1>1 DEF IInv, WritersTyped, Writer
<1>3. EventNow(w) \in Event
  BY <1>1, EventNowTyped DEF IInv
<1>4. CountsTyped'
  BY <1>1, JournalAssumption DEF IInv, CountsTyped
<1> QED
  BY <1>1, <1>2, <1>3, <1>4

\* A write by a process that holds the lock disturbs no other process.
LEMMA WriteSparesOthers ==
  ASSUME IInv, NEW w \in Writers, writer[w].step = "ready", NEW x \in Piece,
         content' = [content EXCEPT ![writer[w].fd] = Append(@, x)], UNCHANGED synced,
         NEW v \in Writers \ {w}, writer'[v] = writer[v]
  PROVE  Wrote(v)' /\ KeptClean(v)'
<1>1. writer[w].fd \in Files /\ FilesTyped
  BY DEF IInv, WritersTyped, Writer
<1>2. \A f \in Files : f # writer[w].fd => content'[f] = content[f]
  BY <1>1, AppendEffect
<1>3. \A f \in Files : /\ Len(content[f]) <= Len(content'[f]) /\ Len(content'[f]) \in Nat
                       /\ synced[f] <= synced'[f] /\ synced'[f] \in Nat
                       /\ \A i \in 1..Len(content[f]) : content'[f][i] = content[f][i]
  <2>1. \A f \in Files : Len(content[f]) \in Nat /\ synced[f] \in Nat
    BY <1>1 DEF FilesTyped
  <2> QED
    BY <1>1, <2>1, AppendEffect
<1>4. Wrote(v)'
  BY <1>3, OthersKeepWritten
<1>5. writer[v].clean => /\ content'[writer[v].fd] = content[writer[v].fd]
                         /\ synced'[writer[v].fd] = synced[writer[v].fd]
  <2> SUFFICES ASSUME writer[v].clean PROVE content'[writer[v].fd] = content[writer[v].fd]
    OBVIOUS
  <2>1. writer[v].step \in {"ready", "written", "synced"}
    BY Zenon DEF IInv, CleanFiles, KeptClean
  <2>2. writer[v].fd # writer[w].fd /\ writer[v].fd \in Files
    BY <2>1, OthersElsewhere
  <2> QED
    BY <1>2, <2>2
<1>6. KeptClean(v)'
  BY <1>5, OthersKeepClean
<1> QED
  BY <1>4, <1>6

\* A whole line is written.
LEMMA AppendWholeStep ==
  ASSUME IInv, NEW w \in Writers, AppendWhole(w)
  PROVE  IInv'
<1> DEFINE x == [kind |-> "whole", event |-> EventNow(w)]
           f == writer[w].fd
<1>1. /\ Evaluate(w)
      /\ content' = [content EXCEPT ![f] = Append(@, x)]
      /\ Becomes(w, "written", f, EventNow(w))
      /\ UNCHANGED <<path, synced, used, emitted, reader, handoff, happened>>
  BY DEF AppendWhole
<1>2. writer[w].step = "ready" /\ f \in Files /\ EventNow(w) \in Event /\ CountsTyped'
  BY <1>1, EvaluateFacts
<1>3. x \in Piece
  BY <1>2, PiecesTyped
<1>4. /\ writer' \in [Writers -> Writer]
      /\ \A v \in Writers \ {w} : writer'[v] = writer[v]
      /\ writer'[w].step = "written" /\ writer'[w].fd = f /\ writer'[w].event = EventNow(w)
      /\ writer'[w].clean = writer[w].clean
  BY <1>1, <1>2, BecomesEffect DEF IInv, WriterSteps
<1> HIDE DEF x
<1>5. /\ Len(content[f]) \in Nat
      /\ Len(content'[f]) = Len(content[f]) + 1
      /\ content'[f][Len(content[f]) + 1] = x
      /\ \A i \in 1..Len(content[f]) : content'[f][i] = content[f][i]
  BY <1>1, <1>2, <1>3, AppendEffect DEF IInv
<1> HIDE DEF f
<1>6. FilesTyped'
  BY <1>1, <1>2, <1>3, AppendKeepsFiles DEF IInv
<1>7. WritersTyped'
  BY <1>2, <1>4, JournalAssumption DEF IInv, WritersTyped
<1>8. EventsHeld'
  BY <1>2, <1>4 DEF IInv, EventsHeld
<1>9. Exclusive'
  BY <1>1, <1>2, <1>4, NoNewLock DEF f
<1>10. Wrote(w)'
  <2>1. x = [kind |-> "whole", event |-> writer'[w].event]
    BY <1>4 DEF x
  <2>2. Len(content'[f]) \in 1..Len(content'[f]) /\ content'[f][Len(content'[f])] = x
    BY <1>5
  <2>3. HasWritten(w, Len(content[f]))'
    BY <1>4, <2>1, <2>2 DEF HasWritten, f
  <2> QED
    BY <1>4, <2>3 DEF Wrote, f
<1>11. KeptClean(w)'
  <2>1. ASSUME writer[w].clean PROVE EndsWith(content'[f], EventNow(w))
    <3>1. EndsClean(content[f])
      BY <1>2, <2>1, Zenon DEF IInv, CleanFiles, KeptClean, f
    <3>2. content[f] = <<>> => Len(content[f]) = 0
      OBVIOUS
    <3>3. content'[f][Len(content'[f])].kind = "whole" /\ content'[f][Len(content'[f])].event = EventNow(w)
      BY <1>5 DEF x
    <3>4. Len(content'[f]) > 1 => content'[f][Len(content'[f]) - 1].kind = "whole"
      BY <1>5, <3>1, <3>2 DEF EndsClean
    <3> QED
      BY <1>5, <3>3, <3>4 DEF EndsWith, IsLine
  <2>2. writer'[w].step \in {"written", "synced"} /\ writer'[w].step \in {"ready", "written", "synced"}
        /\ writer'[w].step # "ready" /\ writer'[w].step # "synced"
    BY <1>4
  <2>3. writer'[w].clean => EndsWith(content'[writer'[w].fd], writer'[w].event)
    BY <1>4, <2>1, Zenon
  <2> QED
    BY <2>2, <2>3, Zenon DEF KeptClean
<1>12. \A v \in Writers \ {w} : Wrote(v)' /\ KeptClean(v)'
  BY <1>1, <1>2, <1>3, <1>4, WriteSparesOthers DEF f
<1>13. WrittenIsThere' /\ CleanFiles'
  BY <1>10, <1>11, <1>12 DEF WrittenIsThere, CleanFiles
<1> QED
  BY <1>1, <1>2, <1>6, <1>7, <1>8, <1>9, <1>13, Frames DEF IInv

\* Only a part of the line is written, and the process ends.
LEMMA AppendShortStep ==
  ASSUME IInv, NEW w \in Writers, AppendShort(w)
  PROVE  IInv'
<1>1. PICK x \in {Torn, [kind |-> "unended", event |-> EventNow(w)]} :
        content' = [content EXCEPT ![writer[w].fd] = Append(@, x)]
  BY DEF AppendShort
<1>2. /\ Evaluate(w)
      /\ writer' = [writer EXCEPT ![w] = Down]
      /\ UNCHANGED <<path, synced, used, emitted, reader, handoff, happened>>
  BY DEF AppendShort
<1>3. writer[w].step = "ready" /\ writer[w].fd \in Files /\ EventNow(w) \in Event /\ CountsTyped'
  BY <1>2, EvaluateFacts
<1>4. x \in Piece
  BY <1>3, PiecesTyped
<1>5. FilesTyped'
  BY <1>1, <1>2, <1>3, <1>4, AppendKeepsFiles DEF IInv
<1>6. WritersTyped' /\ EventsHeld' /\ Exclusive' /\ Wrote(w)' /\ KeptClean(w)'
  BY <1>2, EndingKeeps
<1>7. \A v \in Writers \ {w} : writer'[v] = writer[v]
  BY <1>2, DownEffect DEF IInv
<1>8. \A v \in Writers \ {w} : Wrote(v)' /\ KeptClean(v)'
  BY <1>1, <1>2, <1>3, <1>4, <1>7, WriteSparesOthers
<1>9. WrittenIsThere' /\ CleanFiles'
  BY <1>6, <1>8 DEF WrittenIsThere, CleanFiles
<1> QED
  BY <1>2, <1>3, <1>5, <1>6, <1>9, Frames DEF IInv

\* The file is synced: what was written is durable.
LEMMA SyncStep ==
  ASSUME IInv, NEW w \in Writers, Sync(w)
  PROVE  IInv'
<1> DEFINE f == writer[w].fd
<1>1. /\ writer[w].step = "written"
      /\ synced' = [synced EXCEPT ![f] = Len(content[f])]
      /\ Becomes(w, "synced", f, writer[w].event)
      /\ UNCHANGED <<path, content, used, evaluated, emitted, reader, handoff, happened>>
  BY DEF Sync
<1>2. f \in Files /\ writer[w].event \in Event /\ Len(content[f]) \in Nat
  <2>1. f \in Files
    BY <1>1 DEF IInv, WritersTyped, Writer
  <2> QED
    BY <1>1, <2>1 DEF IInv, EventsHeld, FilesTyped
<1>3. /\ writer' \in [Writers -> Writer]
      /\ \A v \in Writers \ {w} : writer'[v] = writer[v]
      /\ writer'[w].step = "synced" /\ writer'[w].fd = f /\ writer'[w].event = writer[w].event
      /\ writer'[w].clean = writer[w].clean
  BY <1>1, <1>2, BecomesEffect DEF IInv, WriterSteps
<1>4. /\ synced' \in [Files -> Nat] /\ synced'[f] = Len(content[f])
      /\ \A g \in Files : /\ g # f => synced'[g] = synced[g]
                          /\ synced[g] <= synced'[g] /\ synced'[g] <= Len(content[g])
                          /\ synced'[g] \in Nat /\ Len(content[g]) \in Nat
  BY <1>1, <1>2 DEF IInv, FilesTyped
<1> HIDE DEF f
<1>5. FilesTyped'
  BY <1>1, <1>4 DEF IInv, FilesTyped
<1>6. WritersTyped'
  BY <1>2, <1>3, JournalAssumption DEF IInv, WritersTyped
<1>7. EventsHeld'
  BY <1>2, <1>3 DEF IInv, EventsHeld
<1>8. Exclusive'
  BY <1>1, <1>3, NoNewLock DEF f
<1>9. Wrote(w)'
  <2>1. PICK i \in 1..Len(content[f]) : content[f][i] = [kind |-> "whole", event |-> writer[w].event]
    BY <1>1 DEF IInv, WrittenIsThere, Wrote, HasWritten, f
  <2>2. HasWritten(w, synced[f])'
    BY <1>1, <1>3, <1>4, <2>1 DEF HasWritten, f
  <2> QED
    BY <1>3, <2>2 DEF Wrote, f
<1>10. KeptClean(w)'
  <2>1. writer[w].clean => EndsWith(content[f], writer[w].event)
    BY <1>1, Zenon DEF IInv, CleanFiles, KeptClean, f
  <2>2. writer'[w].clean => EndsWith(content'[writer'[w].fd], writer'[w].event)
    BY <1>1, <1>3, <2>1, Zenon
  <2>3. writer'[w].step \in {"ready", "written", "synced"} /\ writer'[w].step # "ready"
    BY <1>3
  <2>4. synced'[writer'[w].fd] = Len(content'[writer'[w].fd])
    BY <1>1, <1>3, <1>4
  <2> QED
    BY <2>2, <2>3, <2>4, Zenon DEF KeptClean
<1>11. ASSUME NEW v \in Writers \ {w} PROVE Wrote(v)' /\ KeptClean(v)'
  <2>1. Wrote(v)'
    BY <1>1, <1>3, <1>4, OthersKeepWritten
  <2>2. writer[v].clean => /\ content'[writer[v].fd] = content[writer[v].fd]
                           /\ synced'[writer[v].fd] = synced[writer[v].fd]
    <3> SUFFICES ASSUME writer[v].clean PROVE synced'[writer[v].fd] = synced[writer[v].fd]
      BY <1>1
    <3>1. writer[v].step \in {"ready", "written", "synced"}
      BY Zenon DEF IInv, CleanFiles, KeptClean
    <3>2. writer[v].fd # f /\ writer[v].fd \in Files
      BY <1>1, <3>1, OthersElsewhere DEF f
    <3> QED
      BY <1>4, <3>2
  <2>3. KeptClean(v)'
    BY <1>3, <2>2, OthersKeepClean
  <2> QED
    BY <2>1, <2>3
<1>12. WrittenIsThere' /\ CleanFiles'
  BY <1>9, <1>10, <1>11 DEF WrittenIsThere, CleanFiles
<1> QED
  BY <1>1, <1>5, <1>6, <1>7, <1>8, <1>12, Frames DEF IInv

\* The proposal is emitted.
LEMMA EmitStep ==
  ASSUME IInv, NEW w \in Writers, Emit(w)
  PROVE  IInv'
<1> DEFINE f == writer[w].fd
<1>1. /\ writer[w].step = "synced"
      /\ emitted' = emitted \cup {writer[w].event}
      /\ Becomes(w, "ready", f, NoEvent)
      /\ UNCHANGED <<files, evaluated, reader, handoff, happened>>
  BY DEF Emit
<1>2. f \in Files /\ writer[w].event \in Event
  BY <1>1 DEF IInv, WritersTyped, Writer, EventsHeld
<1>3. /\ writer' \in [Writers -> Writer]
      /\ \A v \in Writers \ {w} : writer'[v] = writer[v]
      /\ writer'[w].step = "ready" /\ writer'[w].fd = f
      /\ writer'[w].clean = writer[w].clean
  BY <1>1, <1>2, BecomesEffect DEF IInv, WriterSteps
<1> HIDE DEF f
<1>4. content' = content /\ synced' = synced
  BY <1>1 DEF files
<1>5. CountsTyped'
  BY <1>1, <1>2 DEF IInv, CountsTyped
<1>6. WritersTyped'
  BY <1>2, <1>3, JournalAssumption DEF IInv, WritersTyped
<1>7. EventsHeld'
  BY <1>3 DEF IInv, EventsHeld
<1>8. Exclusive'
  BY <1>1, <1>3, NoNewLock DEF f
<1>9. Wrote(w)'
  BY <1>3 DEF Wrote
<1>10. KeptClean(w)'
  <2>1. writer[w].clean => EndsWith(content[f], writer[w].event)
    BY <1>1, Zenon DEF IInv, CleanFiles, KeptClean, f
  <2>2. EndsWith(content[f], writer[w].event) => EndsClean(content[f])
    BY DEF EndsWith, EndsClean, IsLine
  <2>3. writer'[w].clean => EndsClean(content'[writer'[w].fd])
    BY <1>3, <1>4, <2>1, <2>2, Zenon
  <2>4. writer'[w].step \in {"ready", "written", "synced"}
        /\ writer'[w].step \notin {"written", "synced"} /\ writer'[w].step # "synced"
    BY <1>3
  <2> QED
    BY <2>3, <2>4, Zenon DEF KeptClean
<1>11. ASSUME NEW v \in Writers \ {w} PROVE Wrote(v)' /\ KeptClean(v)'
  <2>1. \A g \in Files : Len(content[g]) \in Nat /\ synced[g] \in Nat
    BY DEF IInv, FilesTyped
  <2>2. Wrote(v)'
    BY <1>3, <1>4, <2>1, OthersKeepWritten
  <2>3. KeptClean(v)'
    BY <1>3, <1>4, OthersKeepClean
  <2> QED
    BY <2>2, <2>3
<1>12. WrittenIsThere' /\ CleanFiles'
  BY <1>9, <1>10, <1>11 DEF WrittenIsThere, CleanFiles
<1> QED
  BY <1>1, <1>5, <1>6, <1>7, <1>8, <1>12, Frames DEF IInv

\* A shadow process's step keeps the invariant.
LEMMA ShadowStep ==
  ASSUME IInv, NEW w \in Writers, Shadow(w)
  PROVE  IInv'
BY CreateStep, OpenExistingStep, LockStep, AppendWholeStep, AppendShortStep, SyncStep,
   EmitStep, StopStep DEF Shadow

-----------------------------------------------------------------------------
(* Pages of a verified journal.                                            *)

\* The smaller of two numbers.
LEMMA MinOfTwo ==
  ASSUME NEW a \in Nat, NEW b \in Nat
  PROVE  Min({a, b}) = IF a <= b THEN a ELSE b
<1> DEFINE m == IF a <= b THEN a ELSE b
<1>1. m \in {a, b} /\ \A y \in {a, b} : m <= y
  OBVIOUS
<1>2. \A x \in {a, b} : (\A y \in {a, b} : x <= y) => x = m
  OBVIOUS
<1> HIDE DEF m
<1>3. Min({a, b}) = m
  BY <1>1, <1>2 DEF Min
<1> QED
  BY <1>3 DEF m

\* A prefix agrees with the whole, element by element.
LEMMA PrefixPointwise ==
  ASSUME NEW X, NEW s \in Seq(X), NEW t \in Seq(X)
  PROVE  IsPrefix(s, t) <=> Len(s) <= Len(t) /\ \A i \in 1..Len(s) : s[i] = t[i]
<1>1. Len(s) \in Nat /\ Len(t) \in Nat
  OBVIOUS
<1>2. SubSeq(s, 1, Len(s)) \in Seq(X) /\ Len(SubSeq(s, 1, Len(s))) = Len(s)
      /\ \A i \in 1..Len(s) : SubSeq(s, 1, Len(s))[i] = s[i]
  BY <1>1
<1>3. ASSUME Len(s) <= Len(t)
      PROVE  /\ SubSeq(t, 1, Len(s)) \in Seq(X) /\ Len(SubSeq(t, 1, Len(s))) = Len(s)
             /\ \A i \in 1..Len(s) : SubSeq(t, 1, Len(s))[i] = t[i]
  BY <1>1, <1>3
<1>4. ASSUME IsPrefix(s, t)
      PROVE  Len(s) <= Len(t) /\ \A i \in 1..Len(s) : s[i] = t[i]
  <2>1. Len(s) <= Len(t) /\ SubSeq(s, 1, Len(s)) = SubSeq(t, 1, Len(s))
    BY <1>4 DEF IsPrefix
  <2>2. \A i \in 1..Len(s) : SubSeq(s, 1, Len(s))[i] = SubSeq(t, 1, Len(s))[i]
    BY <2>1, Zenon
  <2> QED
    BY <1>2, <1>3, <2>1, <2>2
<1>5. ASSUME Len(s) <= Len(t), \A i \in 1..Len(s) : s[i] = t[i]
      PROVE  IsPrefix(s, t)
  <2>1. SubSeq(s, 1, Len(s)) = SubSeq(t, 1, Len(s))
    BY <1>2, <1>3, <1>5
  <2> QED
    BY <1>5, <2>1 DEF IsPrefix
<1> QED
  BY <1>4, <1>5

\* Nothing is the beginning of every sequence.
LEMMA EmptyIsPrefix ==
  ASSUME NEW X, NEW t \in Seq(X)
  PROVE  IsPrefix(<<>>, t)
<1>1. <<>> \in Seq(X) /\ Len(<<>>) = 0 /\ Len(t) \in Nat
  OBVIOUS
<1>2. Len(<<>>) <= Len(t) /\ \A i \in 1..Len(<<>>) : <<>>[i] = t[i]
  BY <1>1
<1> QED
  BY <1>1, <1>2, PrefixPointwise

\* The events of a verified journal are all events.
LEMMA EventsTyped ==
  ASSUME NEW c \in Seq(Piece), Verifiable(c)
  PROVE  EventsOf(c) \in Seq(Event) /\ Len(EventsOf(c)) = Len(c) /\ Len(c) \in Nat
<1>1. Len(c) \in Nat /\ \A i \in 1..Len(c) : c[i] \in Piece
  OBVIOUS
<1>2. \A i \in 1..Len(c) : c[i].event \in Event
  BY <1>1 DEF Verifiable, Piece
<1> QED
  BY <1>1, <1>2 DEF EventsOf

\* A page continues the events from its offset on, up to its limit.
LEMMA PageContinues ==
  ASSUME NEW c \in Seq(Piece), Verifiable(c), NEW offset \in Nat, offset <= Len(c),
         NEW limit \in Nat
  PROVE  /\ Page(c, offset, limit) \in Seq(Event)
         /\ offset + Len(Page(c, offset, limit)) <= Len(c)
         /\ \A i \in 1..Len(Page(c, offset, limit)) :
              Page(c, offset, limit)[i] = EventsOf(c)[offset + i]
<1> DEFINE E == EventsOf(c)
           m == Min({offset + limit, Len(c)})
<1>1. E \in Seq(Event) /\ Len(E) = Len(c) /\ Len(c) \in Nat
  BY EventsTyped
<1>2. m \in Nat /\ offset <= m /\ m <= Len(c)
  BY <1>1, MinOfTwo
<1> HIDE DEF E, m
<1>3. Page(c, offset, limit) = SubSeq(E, offset + 1, m)
  BY DEF Page, E, m
<1>4. /\ SubSeq(E, offset + 1, m) \in Seq(Event)
      /\ Len(SubSeq(E, offset + 1, m)) = m - offset
      /\ \A i \in 1..(m - offset) : SubSeq(E, offset + 1, m)[i] = E[offset + i]
  BY <1>1, <1>2
<1> QED
  BY <1>2, <1>3, <1>4 DEF E

-----------------------------------------------------------------------------
(* Each step of the reader keeps the invariant.                            *)

\* A reader that holds no lock excludes nobody.
LEMMA ReaderUnlocked ==
  ASSUME IInv, UNCHANGED writer, reader'.step # "locked"
  PROVE  Exclusive'
BY DEF IInv, Exclusive, Writes, Reads

\* A command that ends.
LEMMA OffKeeps ==
  ASSUME IInv, UNCHANGED writer, reader' = Off
  PROVE  ReaderTyped' /\ Exclusive'
<1>1. reader'.step = "off"
  BY DEF Off
<1>2. reader' \in [step : ReaderSteps, batch : BOOLEAN, fd : Files \cup {None},
                   read : Seq(Piece) \cup {None}]
  BY DEF Off, ReaderSteps
<1>3. ReaderTyped'
  BY <1>1, <1>2 DEF ReaderTyped
<1> QED
  BY <1>1, <1>3, ReaderUnlocked

\* The command gives up.
LEMMA GiveUpStep ==
  ASSUME IInv, GiveUp
  PROVE  IInv'
<1>1. reader' = Off /\ UNCHANGED <<files, writer, evaluated, emitted, handoff, happened>>
  BY DEF GiveUp
<1> QED
  BY <1>1, OffKeeps, Frames DEF IInv

\* The command opens the sealed file.
LEMMA OpenSealedStep ==
  ASSUME IInv, OpenSealed
  PROVE  IInv'
<1>1. PICK batch \in BOOLEAN :
        reader' = [step |-> "opened", batch |-> batch, fd |-> path["sealed"], read |-> None]
  BY DEF OpenSealed
<1>2. path["sealed"] \in Files
      /\ UNCHANGED <<files, writer, evaluated, emitted, handoff, happened>>
  BY DEF OpenSealed
<1>3. reader'.step = "opened" /\ reader'.fd = path["sealed"]
  BY <1>1
<1>4. reader' \in [step : ReaderSteps, batch : BOOLEAN, fd : Files \cup {None},
                   read : Seq(Piece) \cup {None}]
  BY <1>1, <1>2 DEF ReaderSteps
<1>5. ReaderTyped'
  BY <1>2, <1>3, <1>4 DEF ReaderTyped
<1>6. Exclusive'
  BY <1>2, <1>3, ReaderUnlocked
<1> QED
  BY <1>2, <1>5, <1>6, Frames DEF IInv

\* The command locks the file and reads it.
LEMMA LockAndScanStep ==
  ASSUME IInv, LockAndScan
  PROVE  IInv'
<1>1. /\ reader.step = "opened" /\ CanLockShared(reader.fd)
      /\ Verifiable(content[reader.fd])
      /\ reader' = [reader EXCEPT !.step = "locked", !.read = content[reader.fd]]
      /\ UNCHANGED <<files, writer, evaluated, emitted, handoff, happened>>
  BY DEF LockAndScan
<1>2. reader.fd \in Files /\ content[reader.fd] \in Seq(Piece)
  BY <1>1 DEF IInv, ReaderTyped, FilesTyped
<1>3. reader \in [step : ReaderSteps, batch : BOOLEAN, fd : Files \cup {None},
                  read : Seq(Piece) \cup {None}]
  BY DEF IInv, ReaderTyped
<1>4. reader'.step = "locked" /\ reader'.fd = reader.fd /\ reader'.read = content[reader.fd]
  BY <1>1, <1>3
<1>5. reader' \in [step : ReaderSteps, batch : BOOLEAN, fd : Files \cup {None},
                   read : Seq(Piece) \cup {None}]
  BY <1>1, <1>2, <1>3 DEF ReaderSteps
<1>6. ReaderTyped'
  BY <1>1, <1>2, <1>4, <1>5 DEF ReaderTyped
<1>7. Exclusive'
  <2>1. \A f \in Files : Reads(f)' => f = reader.fd
    BY <1>4 DEF Reads
  <2>2. \A v \in Writers : \A f \in Files : Writes(v, f)' <=> Writes(v, f)
    BY <1>1 DEF Writes
  <2> QED
    BY <1>1, <2>1, <2>2 DEF IInv, Exclusive, CanLockShared
<1> QED
  BY <1>1, <1>6, <1>7, Frames DEF IInv

\* A verification reports what it has read.
LEMMA VerifyStep ==
  ASSUME IInv, Verify
  PROVE  IInv'
<1>1. /\ reader.step = "locked" /\ reported' = reader.read /\ reader' = Off
      /\ UNCHANGED <<files, writer, evaluated, emitted, approved, imported, complete, happened>>
  BY DEF Verify
<1>2. reader.read \in Seq(Piece)
  BY <1>1 DEF IInv, ReaderTyped
<1>3. HandoffTyped'
  <2>1. complete' \in BOOLEAN
    BY <1>1, Zenon DEF IInv, HandoffTyped
  <2> QED
    BY <1>1, <1>2, <2>1 DEF IInv, HandoffTyped
<1>4. ImportedIsApproved'
  BY <1>1, Zenon DEF IInv, ImportedIsApproved
<1> QED
  BY <1>1, <1>3, <1>4, OffKeeps, Frames DEF IInv

\* A page of the approved journal is imported.
LEMMA BatchStep ==
  ASSUME IInv, Batch
  PROVE  IInv'
<1> DEFINE offset == Len(imported)
           c == reader.read
<1>0. PICK limit \in 1..PageLimit : imported' = imported \o Page(c, offset, limit)
  BY DEF Batch
<1> DEFINE page == Page(c, offset, limit)
<1>1. /\ reader.step = "locked" /\ c = approved /\ offset <= Len(c)
      /\ imported' = imported \o page
      /\ complete' = (Len(imported') >= Len(c))
      /\ reader' = Off
      /\ UNCHANGED <<files, writer, evaluated, emitted, reported, approved, happened>>
  BY <1>0 DEF Batch, DigestMatches, IsLastPage
<1>2. c \in Seq(Piece) /\ Verifiable(c) /\ imported \in Seq(Event) /\ offset \in Nat
      /\ Len(c) \in Nat
  <2>1. c \in Seq(Piece) /\ Verifiable(c) /\ imported \in Seq(Event)
    BY <1>1 DEF IInv, ReaderTyped, HandoffTyped
  <2> QED
    BY <2>1
<1>3. EventsOf(c) \in Seq(Event) /\ Len(EventsOf(c)) = Len(c)
  BY <1>2, EventsTyped
<1>4. /\ page \in Seq(Event) /\ offset + Len(page) <= Len(c)
      /\ \A i \in 1..Len(page) : page[i] = EventsOf(c)[offset + i]
  <2>1. limit \in Nat
    BY JournalAssumption
  <2> QED
    BY <1>1, <1>2, <2>1, PageContinues
<1> HIDE DEF page, offset, c
<1>5. /\ imported' \in Seq(Event) /\ Len(imported') = offset + Len(page)
      /\ \A i \in 1..offset : imported'[i] = imported[i]
      /\ \A i \in 1..Len(page) : imported'[offset + i] = page[i]
  BY <1>1, <1>2, <1>4 DEF offset
<1>6. HandoffTyped'
  <2>1. complete' \in BOOLEAN
    <3>1. (Len(imported') >= Len(c)) \in BOOLEAN
      BY <1>2, <1>5
    <3> QED
      BY <1>1, <3>1, Zenon
  <2> QED
    BY <1>1, <1>5, <2>1 DEF IInv, HandoffTyped
<1>7. ImportedIsApproved'
  <2>1. SUFFICES ASSUME approved # None
                 PROVE  /\ IsPrefix(imported', EventsOf(approved))
                        /\ complete' => Len(imported') = Len(approved)
                        /\ Len(imported') = Len(approved) => complete'
    BY <1>1 DEF ImportedIsApproved
  <2>2. IsPrefix(imported, EventsOf(c))
    BY <1>1, <2>1, Zenon DEF IInv, ImportedIsApproved
  <2>3. \A i \in 1..offset : imported[i] = EventsOf(c)[i]
    BY <1>2, <1>3, <2>2, PrefixPointwise DEF offset
  <2>4. \A i \in 1..Len(imported') : imported'[i] = EventsOf(c)[i]
    <3> SUFFICES ASSUME NEW i \in 1..Len(imported') PROVE imported'[i] = EventsOf(c)[i]
      OBVIOUS
    <3>1. CASE i <= offset
      BY <1>2, <1>5, <2>3, <3>1
    <3>2. CASE i > offset
      <4>1. i - offset \in 1..Len(page) /\ offset + (i - offset) = i
        BY <1>2, <1>4, <1>5, <3>2
      <4> QED
        BY <1>4, <1>5, <4>1
    <3> QED
      BY <1>2, <3>1, <3>2
  <2>5. IsPrefix(imported', EventsOf(c))
    BY <1>3, <1>4, <1>5, <2>4, PrefixPointwise
  <2>6. (Len(imported') >= Len(c)) <=> Len(imported') = Len(c)
    BY <1>2, <1>4, <1>5
  <2>7. complete' <=> Len(imported') = Len(c)
    BY <1>1, <2>6, Zenon
  <2> QED
    BY <1>1, <2>5, <2>7, Zenon
<1> QED
  BY <1>1, <1>6, <1>7, OffKeeps, Frames DEF IInv

\* A step of the command that reads keeps the invariant.
LEMMA ReaderStep ==
  ASSUME IInv, Reader
  PROVE  IInv'
BY OpenSealedStep, LockAndScanStep, VerifyStep, BatchStep, GiveUpStep DEF Reader

-----------------------------------------------------------------------------
(* Each step of the world keeps the invariant.                             *)

\* A file is renamed: the locks and descriptors stay with it.
LEMMA RenameStep ==
  ASSUME IInv, NEW from \in Paths, NEW to \in Paths, Rename(from, to)
  PROVE  IInv'
<1>1. /\ path' = [path EXCEPT ![from] = None, ![to] = path[from]]
      /\ happened < MaxHappened /\ happened' = happened + 1
      /\ UNCHANGED <<content, synced, used, writer, evaluated, emitted, reader, handoff>>
  BY DEF Rename, Happens
<1>2. FilesTyped'
  BY <1>1 DEF IInv, FilesTyped
<1>3. CountsTyped'
  BY <1>1, JournalAssumption DEF IInv, CountsTyped
<1>4. WrittenIsThere'
  BY <1>1 DEF IInv, WrittenIsThere, Wrote, HasWritten
<1>5. CleanFiles'
  <2>1. content' = content /\ synced' = synced /\ writer' = writer
    BY <1>1
  <2> QED
    BY <2>1, Zenon DEF IInv, CleanFiles, KeptClean
<1> QED
  BY <1>1, <1>2, <1>3, <1>4, <1>5, Frames DEF IInv

\* The operator approves: the import starts over.
LEMMA ApproveStep ==
  ASSUME IInv, Approve
  PROVE  IInv'
<1>1. /\ approved' = reported /\ reported # None /\ imported' = <<>> /\ complete' = FALSE
      /\ UNCHANGED <<files, writer, evaluated, emitted, reader, reported, happened>>
  BY DEF Approve
<1>2. HandoffTyped'
  <2>1. reported' \in Seq(Piece) \cup {None} /\ approved' \in Seq(Piece) \cup {None}
    BY <1>1 DEF IInv, HandoffTyped
  <2>2. imported' \in Seq(Event)
    BY <1>1
  <2>3. complete' \in BOOLEAN
    BY <1>1, Zenon
  <2> QED
    BY <2>1, <2>2, <2>3, Zenon DEF HandoffTyped
<1>3. ImportedIsApproved'
  <2>1. IsPrefix(<<>>, EventsOf(reported))
    <3> DEFINE X == {reported[i].event : i \in 1..Len(reported)}
    <3>1. reported \in Seq(Piece)
      BY <1>1 DEF IInv, HandoffTyped
    <3>2. EventsOf(reported) \in Seq(X)
      BY <3>1 DEF EventsOf
    <3> HIDE DEF X
    <3> QED
      BY <3>2, EmptyIsPrefix
  <2>2. ~complete' /\ imported' = <<>>
    BY <1>1
  <2> QED
    BY <1>1, <2>1, <2>2, Zenon DEF ImportedIsApproved
<1> QED
  BY <1>1, <1>2, <1>3, Frames DEF IInv

\* Something that takes no lock writes to a file.
LEMMA ScribbleStep ==
  ASSUME IInv, NEW f \in Files, Scribble(f)
  PROVE  IInv'
<1>1. /\ happened < MaxHappened /\ happened' = happened + 1
      /\ content' = [content EXCEPT ![f] = Append(@, Torn)]
      /\ UNCHANGED <<path, synced, used, evaluated, emitted, reader, handoff>>
  BY DEF Scribble, Happens
<1>2. Torn \in Piece
  BY DEF Piece, Write, Torn, NoEvent
<1>3. /\ writer' \in [Writers -> Writer]
      /\ \A w \in Writers :
           /\ writer'[w].step = writer[w].step /\ writer'[w].fd = writer[w].fd
           /\ writer'[w].event = writer[w].event
           /\ writer'[w].clean => writer[w].clean /\ writer[w].fd # f
  BY ScribbleEffect DEF IInv
<1>4. /\ \A g \in Files : g # f => content'[g] = content[g]
      /\ \A g \in Files : /\ Len(content[g]) <= Len(content'[g]) /\ Len(content'[g]) \in Nat
                          /\ Len(content[g]) \in Nat
                          /\ \A i \in 1..Len(content[g]) : content'[g][i] = content[g][i]
  <2>1. \A g \in Files : Len(content[g]) \in Nat
    BY DEF IInv, FilesTyped
  <2> QED
    BY <1>1, <1>2, <2>1, AppendEffect DEF IInv
<1>5. FilesTyped'
  BY <1>1, <1>2, AppendKeepsFiles DEF IInv
<1>6. WritersTyped'
  BY <1>3 DEF IInv, WritersTyped
<1>7. EventsHeld'
  BY <1>3 DEF IInv, EventsHeld
<1>8. CountsTyped'
  BY <1>1, JournalAssumption DEF IInv, CountsTyped
<1>9. Exclusive'
  BY <1>1, <1>3, NoNewLock
<1>10. WrittenIsThere'
  <2> SUFFICES ASSUME NEW w \in Writers PROVE Wrote(w)'
    BY DEF WrittenIsThere
  <2> DEFINE g == writer[w].fd
  <2>1. /\ writer'[w].fd = g /\ writer'[w].event = writer[w].event
        /\ writer'[w].step = writer[w].step /\ synced' = synced
    BY <1>1, <1>3
  <2>2. ASSUME writer[w].step \in {"written", "synced"}
        PROVE  g \in Files /\ synced[g] \in Nat /\ synced[g] <= Len(content[g])
    BY <2>2 DEF IInv, WritersTyped, Writer, FilesTyped
  <2>3. ASSUME writer[w].step = "written" PROVE HasWritten(w, Len(content[g]))'
    <3>1. PICK i \in 1..Len(content[g]) : content[g][i] = [kind |-> "whole", event |-> writer[w].event]
      BY <2>3 DEF IInv, WrittenIsThere, Wrote, HasWritten
    <3>2. i \in 1..Len(content'[g]) /\ content'[g][i] = [kind |-> "whole", event |-> writer'[w].event]
      BY <1>4, <2>1, <2>2, <2>3, <3>1
    <3> QED
      BY <2>1, <3>2 DEF HasWritten
  <2>4. ASSUME writer[w].step = "synced" PROVE HasWritten(w, synced[g])'
    <3>1. PICK i \in 1..synced[g] : content[g][i] = [kind |-> "whole", event |-> writer[w].event]
      BY <2>4 DEF IInv, WrittenIsThere, Wrote, HasWritten
    <3>2. i \in 1..synced'[g] /\ content'[g][i] = [kind |-> "whole", event |-> writer'[w].event]
      BY <1>4, <2>1, <2>2, <2>4, <3>1
    <3> QED
      BY <2>1, <3>2 DEF HasWritten
  <2> QED
    BY <2>1, <2>3, <2>4 DEF Wrote
<1>11. CleanFiles'
  <2> SUFFICES ASSUME NEW w \in Writers, writer'[w].clean PROVE KeptClean(w)'
    BY DEF CleanFiles, KeptClean
  <2>1. writer[w].clean /\ writer[w].fd # f
    BY <1>3, Zenon
  <2>2. writer[w].step \in {"ready", "written", "synced"}
    BY <2>1, Zenon DEF IInv, CleanFiles, KeptClean
  <2>3. writer[w].fd \in Files
    BY <2>2 DEF IInv, WritersTyped, Writer
  <2>4. content'[writer'[w].fd] = content[writer[w].fd] /\ synced'[writer'[w].fd] = synced[writer[w].fd]
        /\ writer'[w].step = writer[w].step /\ writer'[w].event = writer[w].event
    BY <1>1, <1>3, <1>4, <2>1, <2>3
  <2> QED
    BY <2>1, <2>4, Zenon DEF IInv, CleanFiles, KeptClean
<1> QED
  BY <1>1, <1>5, <1>6, <1>7, <1>8, <1>9, <1>10, <1>11, Frames DEF IInv

\* What a power failure leaves of each file.
LEMMA PowerLossEffect ==
  ASSUME FilesTyped, PowerLoss
  PROVE  /\ content' \in [Files -> Seq(Piece)]
         /\ synced' = [f \in Files |-> Len(content'[f])]
         /\ \A f \in Files : /\ content'[f] \in Survivors(f)
                             /\ synced[f] <= Len(content'[f])
                             /\ \A i \in 1..synced[f] : content'[f][i] = content[f][i]
<1>1. /\ content' \in [Files -> UNION {Survivors(f) : f \in Files}]
      /\ \A f \in Files : content'[f] \in Survivors(f)
      /\ synced' = [f \in Files |-> Len(content'[f])]
  BY DEF PowerLoss
<1>2. \A f \in Files : /\ content'[f] \in Seq(Piece) /\ synced[f] <= Len(content'[f])
                       /\ \A i \in 1..synced[f] : content'[f][i] = content[f][i]
  BY <1>1, SurvivorsKeep
<1>3. content' \in [Files -> Seq(Piece)]
  BY <1>1, <1>2
<1> QED
  BY <1>1, <1>2, <1>3

\* The power fails.
LEMMA PowerLossStep ==
  ASSUME IInv, PowerLoss
  PROVE  IInv'
<1>1. /\ happened < MaxHappened /\ happened' = happened + 1
      /\ writer' = [w \in Writers |-> Down] /\ reader' = Off
      /\ UNCHANGED <<path, used, evaluated, emitted, handoff>>
  BY DEF PowerLoss, Happens
<1>2. FilesTyped'
  <2>1. content' \in [Files -> Seq(Piece)] /\ synced' = [f \in Files |-> Len(content'[f])]
    BY PowerLossEffect DEF IInv
  <2>2. \A f \in Files : Len(content'[f]) \in Nat
    BY <2>1
  <2> QED
    BY <1>1, <2>1, <2>2 DEF IInv, FilesTyped
<1>3. \A w \in Writers : writer'[w] = Down
  BY <1>1
<1>4. \A w \in Writers : writer'[w].step = "down" /\ writer'[w].fd = None /\ ~writer'[w].clean
  BY <1>3 DEF Down
<1>5. WritersTyped' /\ EventsHeld'
  <2>1. Down \in Writer
    BY DEF Down, Writer, WriterSteps
  <2>2. writer' \in [Writers -> Writer]
    BY <1>1, <2>1
  <2> QED
    BY <1>4, <2>2 DEF WritersTyped, EventsHeld
<1>6. ReaderTyped'
  <2>1. reader'.step = "off"
    BY <1>1 DEF Off
  <2>2. reader' \in [step : ReaderSteps, batch : BOOLEAN, fd : Files \cup {None},
                     read : Seq(Piece) \cup {None}]
    BY <1>1 DEF Off, ReaderSteps
  <2> QED
    BY <2>1, <2>2 DEF ReaderTyped
<1>7. CountsTyped'
  BY <1>1, JournalAssumption DEF IInv, CountsTyped
<1>8. Exclusive'
  BY <1>4 DEF Exclusive, Writes
<1>9. WrittenIsThere'
  BY <1>4 DEF WrittenIsThere, Wrote
<1>10. CleanFiles'
  BY <1>4, Zenon DEF CleanFiles, KeptClean
<1> QED
  BY <1>1, <1>2, <1>5, <1>6, <1>7, <1>8, <1>9, <1>10, Frames DEF IInv

-----------------------------------------------------------------------------
(* The invariant holds.                                                    *)

\* It holds at first.
LEMMA InitStep == Init => IInv
<1> SUFFICES ASSUME Init PROVE IInv
  OBVIOUS
<1> USE DEF Init
<1>1. PICK found \in UnsafeFiles \cup {None} :
        path = [live |-> found, sealed |-> None, kept |-> None] /\ used = {found} \ {None}
  OBVIOUS
<1>2. used \subseteq Files /\ found \in used \cup {None}
  BY <1>1, JournalAssumption
<1>3. path \in [Paths -> used \cup {None}]
  BY <1>1, <1>2 DEF Paths
<1>4. FilesTyped
  <2>1. \A f \in Files : content[f] = <<>> /\ synced[f] = 0
    OBVIOUS
  <2>2. Len(<<>>) = 0 /\ <<>> \in Seq(Piece)
    OBVIOUS
  <2>3. content \in [Files -> Seq(Piece)] /\ synced \in [Files -> Nat]
    BY <2>2
  <2> QED
    BY <1>2, <1>3, <2>1, <2>2, <2>3 DEF FilesTyped
<1>5. \A w \in Writers : writer[w].step = "down" /\ writer[w].fd = None /\ ~writer[w].clean
  BY DEF Down
<1>6. WritersTyped /\ EventsHeld
  <2>1. Down \in Writer
    BY DEF Down, Writer, WriterSteps
  <2>2. writer \in [Writers -> Writer]
    BY <2>1
  <2> QED
    BY <1>5, <2>2 DEF WritersTyped, EventsHeld
<1>7. ReaderTyped
  <2>1. reader.step = "off"
    BY DEF Off
  <2>2. reader \in [step : ReaderSteps, batch : BOOLEAN, fd : Files \cup {None},
                    read : Seq(Piece) \cup {None}]
    BY DEF Off, ReaderSteps
  <2> QED
    BY <2>1, <2>2 DEF ReaderTyped
<1>8. CountsTyped
  BY JournalAssumption DEF CountsTyped
<1>9. Exclusive
  BY <1>5 DEF Exclusive, Writes
<1>10. WrittenIsThere
  BY <1>5 DEF WrittenIsThere, Wrote
<1>11. CleanFiles
  BY <1>5, Zenon DEF CleanFiles, KeptClean
<1>12. HandoffTyped
  <2>1. reported = None /\ approved = None /\ imported \in Seq(Event)
    OBVIOUS
  <2>2. complete \in BOOLEAN
    BY Zenon
  <2> QED
    BY <2>1, <2>2, Zenon DEF HandoffTyped
<1>13. ImportedIsApproved
  BY DEF ImportedIsApproved
<1> QED
  BY <1>4, <1>6, <1>7, <1>8, <1>9, <1>10, <1>11, <1>12, <1>13 DEF IInv

\* Every step keeps it.
LEMMA NextStep == IInv /\ [Next]_vars => IInv'
<1> SUFFICES ASSUME IInv, [Next]_vars PROVE IInv'
  OBVIOUS
<1>1. CASE \E w \in Writers : Shadow(w)
  BY <1>1, ShadowStep
<1>2. CASE Reader
  BY <1>2, ReaderStep
<1>3. CASE World
  BY <1>3, RenameStep, ApproveStep, ScribbleStep, PowerLossStep DEF World
<1>4. CASE UNCHANGED vars
  <2>1. UNCHANGED <<files, writer, evaluated, emitted, reader, handoff, happened>>
    BY <1>4 DEF vars
  <2> QED
    BY <2>1, Frames DEF IInv
<1> QED
  BY <1>1, <1>2, <1>3, <1>4 DEF Next

\* The invariant holds in every state.
THEOREM InductiveInvariant == Spec => []IInv
<1> QED
  BY InitStep, NextStep, PTL DEF Spec

\* Every variable keeps its type, whatever the processes, the operator and the
\* machine do.
THEOREM TypeCorrect == Spec => []TypeOK
<1>1. IInv => TypeOK
  <2> SUFFICES ASSUME IInv PROVE TypeOK
    OBVIOUS
  <2> USE DEF IInv
  <2>1. Piece \subseteq Write /\ Seq(Piece) \subseteq Seq(Write)
    <3>1. Piece \subseteq Write
      BY DEF Piece
    <3> QED
      BY <3>1
  <2>2. /\ used \subseteq Files
        /\ path \in [Paths -> used \cup {None}]
        /\ \A f \in Files : content[f] \in Seq(Write) /\ synced[f] \in 0..Len(content[f])
    <3>1. \A f \in Files : content[f] \in Seq(Piece) /\ synced[f] \in Nat /\ synced[f] <= Len(content[f])
                             /\ Len(content[f]) \in Nat
      BY DEF FilesTyped
    <3>2. \A f \in Files : content[f] \in Seq(Write)
      BY <2>1, <3>1
    <3> QED
      BY <3>1, <3>2 DEF FilesTyped
  <2>3. /\ writer \in [Writers -> Writer]
        /\ \A w \in Writers : writer[w].fd = None <=> writer[w].step = "down"
    BY DEF WritersTyped
  <2>4. evaluated \in 0..MaxEvents /\ emitted \subseteq Event /\ happened \in 0..MaxHappened
    BY DEF CountsTyped
  <2>5. reader.step \in ReaderSteps /\ reader.fd \in Files \cup {None}
    BY DEF ReaderTyped
  <2>6. \A c \in {reported, approved, reader.read} \ {None} : c \in Seq(Write)
    <3>1. reader.read \in Seq(Piece) \cup {None}
      BY DEF ReaderTyped
    <3>2. reported \in Seq(Piece) \cup {None} /\ approved \in Seq(Piece) \cup {None}
      BY DEF HandoffTyped
    <3> QED
      BY <2>1, <3>1, <3>2
  <2>7. imported \in Seq(Event)
    BY DEF HandoffTyped
  <2>8. complete \in BOOLEAN
    BY Zenon DEF HandoffTyped
  <2> QED
    BY <2>2, <2>3, <2>4, <2>5, <2>6, <2>7, <2>8 DEF TypeOK
<1> QED
  BY <1>1, InductiveInvariant, PTL

-----------------------------------------------------------------------------
(* The safety properties.                                                  *)

\* A process that has kept its file clean finds its own event at the end of the
\* file, on a line of its own, when it has synced it.
THEOREM CleanSessionsAlwaysRecord == Spec => []CleanSessionRecords
<1>1. IInv => CleanSessionRecords
  <2> SUFFICES ASSUME IInv, NEW w \in Writers, writer[w].step = "synced", writer[w].clean
               PROVE  LET f == writer[w].fd
                          last == synced[f]
                      IN  /\ last = Len(content[f])
                          /\ IsLine(content[f], last)
                          /\ content[f][last].event = writer[w].event
    BY DEF CleanSessionRecords
  <2>1. KeptClean(w)
    BY DEF IInv, CleanFiles
  <2>2. /\ synced[writer[w].fd] = Len(content[writer[w].fd])
        /\ EndsWith(content[writer[w].fd], writer[w].event)
    BY <2>1, Zenon DEF KeptClean
  <2> QED
    BY <2>2, Zenon DEF EndsWith
<1> QED
  BY <1>1, InductiveInvariant, PTL

\* The consumer's pages are the beginning of the approved content, and all of it
\* when the last one says so.
THEOREM ImportedIsAlwaysApproved == Spec => []ImportedIsApproved
<1>1. IInv => ImportedIsApproved
  BY DEF IInv
<1> QED
  BY <1>1, InductiveInvariant, PTL

\* Only a program that takes no lock changes a file that a reader has locked:
\* the one process that could write to it would hold the file's lock.
THEOREM SealedAlwaysWhileRead == Spec => SealedWhileRead
<1>1. ASSUME IInv, [Next]_vars, NEW f \in Files, Reads(f), content'[f] # content[f]
      PROVE  happened' # happened
  <2>1. happened \in Nat
    BY <1>1, JournalAssumption DEF IInv, CountsTyped
  <2>2. content' # content
    BY <1>1
  <2>3. CASE \E w \in Writers : Shadow(w)
    <3>1. PICK w \in Writers : Shadow(w)
      BY <2>3
    <3>2. AppendWhole(w) \/ AppendShort(w)
      BY <2>2, <3>1 DEF Shadow, Create, OpenExisting, Lock, Sync, Emit, Stop, files
    <3>3. PICK x : content' = [content EXCEPT ![writer[w].fd] = Append(@, x)]
      BY <3>2 DEF AppendWhole, AppendShort
    <3>4. writer[w].step = "ready"
      BY <3>2 DEF AppendWhole, AppendShort, Evaluate
    <3>5. writer[w].fd = f
      BY <1>1, <3>3 DEF IInv, FilesTyped
    <3>6. Writes(w, f)
      BY <3>4, <3>5 DEF Writes
    <3> QED
      BY <1>1, <3>6 DEF IInv, Exclusive
  <2>4. CASE Reader
    BY <2>2, <2>4 DEF Reader, OpenSealed, LockAndScan, Verify, Batch, GiveUp, files
  <2>5. CASE World
    <3>1. CASE \E g \in Files : Scribble(g)
      BY <2>1, <3>1 DEF Scribble, Happens
    <3>2. CASE PowerLoss
      BY <2>1, <3>2 DEF PowerLoss, Happens
    <3>3. CASE Approve \/ \E from, to \in Paths : Rename(from, to)
      BY <2>2, <3>3 DEF Approve, Rename, files
    <3> QED
      BY <2>5, <3>1, <3>2, <3>3 DEF World
  <2>6. CASE UNCHANGED vars
    BY <2>2, <2>6 DEF vars, files
  <2> QED
    BY <1>1, <2>3, <2>4, <2>5, <2>6 DEF Next
<1>2. IInv /\ [Next]_vars =>
        [\A f \in Files : Reads(f) /\ content'[f] # content[f] => happened' # happened]_vars
  BY <1>1
<1> QED
  BY <1>2, InductiveInvariant, PTL DEF Spec, SealedWhileRead

-----------------------------------------------------------------------------
(* The journal implements the log of DecisionLog.                          *)

\* Every file that has existed has a name, only such files hold anything, and a
\* process has only such a file open: nobody writes over a name.
Found ==
  /\ \A f \in used : \E p \in Paths : path[p] = f
  /\ \A f \in Files \ used : Len(content[f]) = 0
  /\ \A w \in Writers : writer[w].fd \in used \cup {None}

\* It holds at first.
LEMMA FoundInit == Init => Found
<1> SUFFICES ASSUME Init PROVE Found
  OBVIOUS
<1>1. PICK found \in UnsafeFiles \cup {None} :
        path = [live |-> found, sealed |-> None, kept |-> None] /\ used = {found} \ {None}
  BY DEF Init
<1>2. \A f \in used : path["live"] = f
  BY <1>1
<1>3. \A f \in Files : Len(content[f]) = 0
  BY DEF Init
<1>4. \A w \in Writers : writer[w].fd = None
  BY DEF Init, Down
<1> QED
  BY <1>2, <1>3, <1>4 DEF Found, Paths

\* A shadow process keeps it: it creates a file only where there is none, and
\* writes to the file it opened.
LEMMA FoundShadow ==
  ASSUME IInv, Found, NEW w \in Writers, Shadow(w)
  PROVE  Found'
<1>1. WritersTyped /\ used \subseteq Files
  BY DEF IInv, FilesTyped
<1>2. CASE Create(w)
  <2>1. PICK f \in Files \ (used \cup UnsafeFiles) :
          /\ path' = [path EXCEPT !["live"] = f]
          /\ used' = used \cup {f}
          /\ Becomes(w, "opened", f, NoEvent)
    BY <1>2 DEF Create
  <2>2. path["live"] = None /\ content' = content /\ None \notin Files
    BY <1>2, JournalAssumption DEF Create
  <2>3. path' = [path EXCEPT !["live"] = f] /\ path \in [Paths -> used \cup {None}]
    BY <2>1 DEF IInv, FilesTyped
  <2>4. \A g \in used' : \E p \in Paths : path'[p] = g
    <3>1. "live" \in Paths
      BY DEF Paths
    <3>2. path'["live"] = f
      BY <2>3, <3>1
    <3>3. ASSUME NEW g \in used PROVE \E p \in Paths : path'[p] = g
      <4>1. PICK p \in Paths : path[p] = g
        BY DEF Found
      <4>2. p # "live"
        BY <1>1, <2>2, <4>1
      <4> QED
        BY <2>3, <4>1, <4>2
    <3> QED
      BY <2>1, <3>1, <3>2, <3>3
  <2>5. \A v \in Writers \ {w} : writer'[v] = writer[v]
    BY <1>1, <2>1, BecomesEffect DEF WriterSteps
  <2>6. writer'[w].fd = f
    BY <1>1, <2>1, BecomesEffect DEF WriterSteps
  <2> QED
    BY <2>1, <2>2, <2>4, <2>5, <2>6 DEF Found
<1>3. CASE OpenExisting(w)
  <2>1. /\ path["live"] \in Files /\ UNCHANGED <<path, content, used>>
        /\ Becomes(w, "opened", path["live"], NoEvent)
    BY <1>3 DEF OpenExisting, files
  <2>2. path["live"] \in used
    BY <2>1, JournalAssumption DEF IInv, FilesTyped, Paths
  <2>3. writer'[w].fd = path["live"] /\ \A v \in Writers \ {w} : writer'[v] = writer[v]
    BY <1>1, <2>1, BecomesEffect DEF WriterSteps
  <2> QED
    BY <2>1, <2>2, <2>3 DEF Found
<1>4. CASE Lock(w)
  <2>1. writer'[w].fd = writer[w].fd /\ \A v \in Writers \ {w} : writer'[v] = writer[v]
    BY <1>1, <1>4, LockEffect
  <2> QED
    BY <1>4, <2>1 DEF Found, Lock, files
<1>5. CASE AppendWhole(w) \/ AppendShort(w)
  <2>1. Evaluate(w) /\ UNCHANGED <<path, used>> /\ writer[w].step = "ready"
    BY <1>5 DEF AppendWhole, AppendShort, Evaluate
  <2>2. writer[w].fd \in Files /\ EventNow(w) \in Event
    BY <2>1, EventNowTyped DEF IInv, WritersTyped, Writer, Evaluate
  <2>3. PICK x : content' = [content EXCEPT ![writer[w].fd] = Append(@, x)]
    BY <1>5 DEF AppendWhole, AppendShort
  <2>4. writer[w].fd \in used
    BY <2>2, JournalAssumption DEF Found
  <2>5. \A f \in Files \ used : content'[f] = content[f]
    BY <2>3, <2>4 DEF IInv, FilesTyped
  <2>6. \A v \in Writers : writer'[v].fd \in {writer[v].fd, None}
    <3>1. CASE AppendWhole(w)
      <4>1. Becomes(w, "written", writer[w].fd, EventNow(w))
        BY <3>1 DEF AppendWhole
      <4> QED
        BY <1>1, <2>2, <4>1, BecomesEffect DEF WriterSteps
    <3>2. CASE AppendShort(w)
      BY <1>1, <3>2, DownEffect DEF AppendShort, Down
    <3> QED
      BY <1>5, <3>1, <3>2
  <2> QED
    BY <2>1, <2>5, <2>6 DEF Found
<1>6. CASE Sync(w) \/ Emit(w)
  <2>1. writer[w].step \in {"written", "synced"} /\ UNCHANGED <<path, content, used>>
    BY <1>6 DEF Sync, Emit, files
  <2>2. writer[w].fd \in Files /\ writer[w].event \in Event
    BY <2>1 DEF IInv, WritersTyped, Writer, EventsHeld
  <2>3. \E s \in WriterSteps, e \in Event \cup {NoEvent} : Becomes(w, s, writer[w].fd, e)
    BY <1>6, <2>2 DEF Sync, Emit, WriterSteps
  <2>4. writer'[w].fd = writer[w].fd /\ \A v \in Writers \ {w} : writer'[v] = writer[v]
    BY <1>1, <2>2, <2>3, BecomesEffect
  <2> QED
    BY <2>1, <2>4 DEF Found
<1>7. CASE Stop(w)
  <2>1. UNCHANGED <<path, content, used>> /\ writer' = [writer EXCEPT ![w] = Down]
    BY <1>7 DEF Stop, files
  <2>2. \A v \in Writers : writer'[v].fd \in {writer[v].fd, None}
    BY <1>1, <2>1, DownEffect DEF Down
  <2> QED
    BY <2>1, <2>2 DEF Found
<1> QED
  BY <1>2, <1>3, <1>4, <1>5, <1>6, <1>7 DEF Shadow

\* So does the world: a rename takes its file's name along, to a path that is free.
LEMMA FoundWorld ==
  ASSUME IInv, Found, World
  PROVE  Found'
<1>1. ASSUME NEW from \in Paths, NEW to \in Paths, Rename(from, to)
      PROVE  Found'
  <2>1. /\ from # to /\ path[to] = None
        /\ path' = [path EXCEPT ![from] = None, ![to] = path[from]]
        /\ UNCHANGED <<content, used, writer>>
    BY <1>1 DEF Rename
  <2>2. path \in [Paths -> used \cup {None}] /\ None \notin used
    BY JournalAssumption DEF IInv, FilesTyped
  <2>3. /\ path'[to] = path[from]
        /\ \A p \in Paths \ {from, to} : path'[p] = path[p]
    BY <2>1, <2>2
  <2>4. ASSUME NEW f \in used PROVE \E p \in Paths : path'[p] = f
    <3>1. PICK p \in Paths : path[p] = f
      BY DEF Found
    <3>2. p # to
      BY <2>1, <2>2, <3>1
    <3> QED
      BY <2>3, <3>1, <3>2
  <2> QED
    BY <2>1, <2>4 DEF Found
<1>2. CASE Approve
  BY <1>2 DEF Approve, Found, files
<1>3. ASSUME NEW f \in Files, Scribble(f)
      PROVE  Found'
  <2>1. f \in used /\ content' = [content EXCEPT ![f] = Append(@, Torn)] /\ UNCHANGED <<path, used>>
    BY <1>3 DEF Scribble
  <2>2. \A g \in Files \ used : content'[g] = content[g]
    BY <2>1 DEF IInv, FilesTyped
  <2>3. \A w \in Writers : writer'[w].fd = writer[w].fd
    BY <1>3, ScribbleEffect DEF IInv
  <2> QED
    BY <2>1, <2>2, <2>3 DEF Found
<1>4. CASE PowerLoss
  <2>1. UNCHANGED <<path, used>> /\ \A w \in Writers : writer'[w].fd = None
    BY <1>4 DEF PowerLoss, Down
  <2>2. ASSUME NEW f \in Files \ used PROVE Len(content'[f]) = 0
    <3>1. content[f] \in Seq(Piece) /\ Len(content[f]) = 0 /\ synced[f] = 0
      BY DEF IInv, FilesTyped, Found
    <3>2. synced[f]..Len(content[f]) = {0} /\ {0} \ {synced[f]} = {}
      BY <3>1
    <3>3. content'[f] \in Survivors(f)
      BY <1>4, PowerLossEffect DEF IInv
    <3>4. content'[f] = SubSeq(content[f], 1, 0)
      BY <3>1, <3>2, <3>3 DEF Survivors
    <3> QED
      BY <3>1, <3>4
  <2> QED
    BY <2>1, <2>2 DEF Found
<1> QED
  BY <1>1, <1>2, <1>3, <1>4 DEF World

\* So does every step.
LEMMA FoundNext == IInv /\ Found /\ [Next]_vars => Found'
<1> SUFFICES ASSUME IInv, Found, [Next]_vars PROVE Found'
  OBVIOUS
<1>1. CASE Reader
  BY <1>1 DEF Found, Reader, OpenSealed, LockAndScan, Verify, Batch, GiveUp, files
<1>2. CASE UNCHANGED vars
  BY <1>2 DEF Found, vars, files
<1> QED
  BY <1>1, <1>2, FoundShadow, FoundWorld DEF Next

\* The events on the durable part of contents c, of which s writes are synced.
DurableEvents(c, s) ==
  UNION {{c[f][i].event : i \in {j \in 1..s[f] : c[f][j].kind = "whole"}} : f \in Files}

\* The durable events that can be found are all that are durable.
AllFound == Recorded = DurableEvents(content, synced)

\* What is durable, event by event.
LEMMA DurableMember ==
  ASSUME NEW c, NEW s, NEW e
  PROVE  e \in DurableEvents(c, s) <=>
           \E f \in Files : \E i \in 1..s[f] : c[f][i].kind = "whole" /\ c[f][i].event = e
<1> DEFINE P(f) == {j \in 1..s[f] : c[f][j].kind = "whole"}
           E(f) == {c[f][i].event : i \in P(f)}
<1>1. e \in DurableEvents(c, s) <=> \E f \in Files : e \in E(f)
  BY DEF DurableEvents
<1>2. \A f : e \in E(f) <=> \E i \in P(f) : c[f][i].event = e
  OBVIOUS
<1>3. \A f : \A i : i \in P(f) <=> i \in 1..s[f] /\ c[f][i].kind = "whole"
  OBVIOUS
<1> HIDE DEF P, E
<1> QED
  BY <1>1, <1>2, <1>3, Zenon

\* A file without a name holds nothing.
LEMMA FoundIsAll == IInv /\ Found => AllFound
<1> SUFFICES ASSUME IInv, Found PROVE Recorded = DurableEvents(content, synced)
  BY DEF AllFound
<1> DEFINE D(f) == {content[f][i].event : i \in {j \in 1..synced[f] : content[f][j].kind = "whole"}}
           N == {path[p] : p \in Paths} \ {None}
<1>1. Recorded = UNION {D(f) : f \in N} /\ DurableEvents(content, synced) = UNION {D(f) : f \in Files}
  BY DEF Recorded, DurableEvents
<1>2. N \subseteq Files
  BY DEF IInv, FilesTyped
<1>3. ASSUME NEW f \in Files, f \notin N PROVE D(f) = {}
  <2>1. f \notin used
    <3>1. f # None /\ f \notin {path[p] : p \in Paths}
      BY <1>3, JournalAssumption
    <3> QED
      BY <3>1 DEF Found
  <2>2. synced[f] = 0
    BY <2>1 DEF Found, IInv, FilesTyped
  <2>3. 1..synced[f] = {}
    BY <2>2
  <2> QED
    BY <2>3
<1> HIDE DEF D, N
<1> QED
  BY <1>1, <1>2, <1>3

\* What is recorded, event by event.
LEMMA RecordedMember ==
  ASSUME AllFound, NEW e
  PROVE  e \in Recorded <=>
           \E f \in Files : \E i \in 1..synced[f] :
             content[f][i].kind = "whole" /\ content[f][i].event = e
BY DurableMember DEF AllFound

\* And after a step.
LEMMA RecordedMemberNext ==
  ASSUME AllFound', NEW e
  PROVE  e \in Recorded' <=>
           \E f \in Files : \E i \in 1..synced'[f] :
             content'[f][i].kind = "whole" /\ content'[f][i].event = e
<1>1. Recorded' = DurableEvents(content', synced')
  BY Zenon DEF AllFound, DurableEvents
<1> QED
  BY <1>1, DurableMember

\* Only events are recorded.
LEMMA RecordedAreEvents == FilesTyped /\ AllFound => Recorded \subseteq Event
<1> SUFFICES ASSUME FilesTyped, AllFound, NEW e \in Recorded PROVE e \in Event
  OBVIOUS
<1>1. PICK f \in Files : \E i \in 1..synced[f] :
             content[f][i].kind = "whole" /\ content[f][i].event = e
  BY RecordedMember
<1>2. PICK i \in 1..synced[f] : content[f][i].kind = "whole" /\ content[f][i].event = e
  BY <1>1
<1>3. content[f] \in Seq(Piece) /\ i \in 1..Len(content[f])
  BY DEF FilesTyped
<1>4. content[f][i] \in Piece
  BY <1>3
<1> QED
  BY <1>2, <1>4 DEF Piece

\* No step takes a durable write away or changes it, a power failure included.
LEMMA DurableStays ==
  ASSUME IInv, [Next]_vars, NEW f \in Files
  PROVE  /\ synced[f] \in Nat /\ synced'[f] \in Nat /\ synced[f] <= synced'[f]
         /\ \A i \in 1..synced[f] : content'[f][i] = content[f][i]
<1>1. synced[f] \in Nat /\ Len(content[f]) \in Nat /\ synced[f] <= Len(content[f])
  BY DEF IInv, FilesTyped
<1>2. CASE content' = content /\ synced' = synced
  BY <1>1, <1>2
<1>3. ASSUME NEW g \in Files, NEW x \in Piece,
             content' = [content EXCEPT ![g] = Append(@, x)], synced' = synced
      PROVE  content'[f] = content[f] \/ \A i \in 1..Len(content[f]) : content'[f][i] = content[f][i]
  BY <1>3, AppendEffect DEF IInv
<1>4. CASE \E w \in Writers : Shadow(w)
  <2>1. PICK w \in Writers : Shadow(w)
    BY <1>4
  <2>2. CASE AppendWhole(w) \/ AppendShort(w)
    <3>1. Evaluate(w) /\ writer[w].step = "ready"
      BY <2>2 DEF AppendWhole, AppendShort, Evaluate
    <3>2. writer[w].fd \in Files
      BY <3>1 DEF IInv, WritersTyped, Writer
    <3>3. EventNow(w) \in Event
      BY <3>1, EventNowTyped DEF IInv, Evaluate
    <3>4. synced' = synced
      BY <2>2 DEF AppendWhole, AppendShort
    <3>5. PICK x \in Piece : content' = [content EXCEPT ![writer[w].fd] = Append(@, x)]
      BY <2>2, <3>3, PiecesTyped DEF AppendWhole, AppendShort
    <3> QED
      BY <1>1, <1>3, <3>2, <3>4, <3>5
  <2>3. CASE Sync(w)
    <3>1. content' = content /\ synced' = [synced EXCEPT ![writer[w].fd] = Len(content[writer[w].fd])]
      BY <2>3 DEF Sync
    <3>2. synced'[f] \in {synced[f], Len(content[f])}
      BY <3>1 DEF IInv, FilesTyped
    <3> QED
      BY <1>1, <3>1, <3>2
  <2>4. CASE Create(w) \/ OpenExisting(w) \/ Lock(w) \/ Emit(w) \/ Stop(w)
    BY <1>2, <2>4 DEF Create, OpenExisting, Lock, Emit, Stop, files
  <2> QED
    BY <2>1, <2>2, <2>3, <2>4 DEF Shadow
<1>5. CASE Reader
  BY <1>2, <1>5 DEF Reader, OpenSealed, LockAndScan, Verify, Batch, GiveUp, files
<1>6. CASE World
  <2>1. CASE \E g \in Files : Scribble(g)
    <3>1. PICK g \in Files : Scribble(g)
      BY <2>1
    <3>2. Torn \in Piece
      BY DEF Piece, Write, Torn, NoEvent
    <3>3. content' = [content EXCEPT ![g] = Append(@, Torn)] /\ synced' = synced
      BY <3>1 DEF Scribble
    <3> QED
      BY <1>1, <1>3, <3>2, <3>3
  <2>2. CASE PowerLoss
    <3>1. /\ content' \in [Files -> Seq(Piece)]
          /\ synced' = [g \in Files |-> Len(content'[g])]
          /\ synced[f] <= Len(content'[f])
          /\ \A i \in 1..synced[f] : content'[f][i] = content[f][i]
      BY <2>2, PowerLossEffect DEF IInv
    <3>2. synced'[f] = Len(content'[f]) /\ Len(content'[f]) \in Nat
      BY <3>1
    <3> QED
      BY <1>1, <3>1, <3>2
  <2>3. CASE Approve \/ \E from, to \in Paths : Rename(from, to)
    BY <1>2, <2>3 DEF Approve, Rename, files
  <2> QED
    BY <1>6, <2>1, <2>2, <2>3 DEF World
<1>7. CASE UNCHANGED vars
  BY <1>2, <1>7 DEF vars, files
<1> QED
  BY <1>4, <1>5, <1>6, <1>7 DEF Next

\* So what is recorded stays recorded.
LEMMA RecordedGrows ==
  ASSUME IInv, [Next]_vars, AllFound, AllFound'
  PROVE  Recorded \subseteq Recorded'
<1> SUFFICES ASSUME NEW e \in Recorded PROVE e \in Recorded'
  OBVIOUS
<1>1. PICK f \in Files : \E i \in 1..synced[f] :
             content[f][i].kind = "whole" /\ content[f][i].event = e
  BY RecordedMember
<1>2. PICK i \in 1..synced[f] : content[f][i].kind = "whole" /\ content[f][i].event = e
  BY <1>1
<1>3. i \in 1..synced'[f] /\ content'[f][i] = content[f][i]
  BY DurableStays
<1>4. content'[f][i].kind = "whole" /\ content'[f][i].event = e
  BY <1>2, <1>3
<1> QED
  BY <1>3, <1>4, RecordedMemberNext

\* A proposal is emitted only when its event is recorded; nothing else is emitted.
LEMMA EmittedWasRecorded ==
  ASSUME IInv, [Next]_vars, AllFound, AllFound'
  PROVE  \/ emitted' = emitted
         \/ Recorded' = Recorded /\ \E e \in Recorded : emitted' = emitted \cup {e}
<1>1. CASE \E w \in Writers : Emit(w)
  <2>1. PICK w \in Writers : Emit(w)
    BY <1>1
  <2>2. /\ writer[w].step = "synced" /\ emitted' = emitted \cup {writer[w].event}
        /\ content' = content /\ synced' = synced
    BY <2>1 DEF Emit, files
  <2>3. writer[w].fd \in Files
    BY <2>2 DEF IInv, WritersTyped, Writer
  <2>4. PICK i \in 1..synced[writer[w].fd] :
               content[writer[w].fd][i] = [kind |-> "whole", event |-> writer[w].event]
    BY <2>2 DEF IInv, WrittenIsThere, Wrote, HasWritten
  <2>5. writer[w].event \in Recorded
    BY <2>3, <2>4, RecordedMember
  <2>6. Recorded' = Recorded
    <3>1. Recorded = DurableEvents(content, synced)
      BY DEF AllFound
    <3>2. Recorded' = DurableEvents(content', synced')
      BY Zenon DEF AllFound, DurableEvents
    <3> QED
      BY <2>2, <3>1, <3>2
  <2> QED
    BY <2>2, <2>5, <2>6
<1>2. CASE \E w \in Writers : Shadow(w) /\ ~Emit(w)
  BY <1>2 DEF Shadow, Create, OpenExisting, Lock, AppendWhole, AppendShort, Sync, Stop
<1>3. CASE Reader
  BY <1>3 DEF Reader, OpenSealed, LockAndScan, Verify, Batch, GiveUp
<1>4. CASE World
  BY <1>4 DEF World, Rename, Approve, Scribble, PowerLoss
<1>5. CASE UNCHANGED vars
  BY <1>5 DEF vars
<1> QED
  BY <1>1, <1>2, <1>3, <1>4, <1>5 DEF Next

\* The journal keeps the promise of DecisionLog: it starts empty, each step makes
\* some events durable, emits a proposal whose event is durable, or does nothing
\* that shows.
THEOREM JournalRefinesLog == Spec => RefinesLog
<1>1. Init => Log!LogInit
  <2> SUFFICES ASSUME Init PROVE Recorded = {} /\ emitted = {}
    BY DEF Log!LogInit
  <2>1. \A f \in Files : synced[f] = 0
    BY DEF Init
  <2>2. AllFound
    BY InitStep, FoundInit, FoundIsAll
  <2>3. \A e : e \notin Recorded
    BY <2>1, <2>2, RecordedMember
  <2> QED
    BY <2>3 DEF Init
<1>2. IInv /\ Found => AllFound /\ Recorded \subseteq Event
  BY RecordedAreEvents, FoundIsAll DEF IInv
<1>3. IInv /\ [Next]_vars /\ AllFound /\ AllFound'
        /\ Recorded \subseteq Event /\ (Recorded \subseteq Event)'
        => [Log!LogNext]_(Log!logVars)
  <2> SUFFICES ASSUME IInv, [Next]_vars, AllFound, AllFound',
                      Recorded \subseteq Event, Recorded' \subseteq Event
               PROVE  Log!LogNext
    OBVIOUS
  <2>1. Recorded \subseteq Recorded'
    BY RecordedGrows
  <2>2. CASE emitted' = emitted
    <3>1. Recorded' = Recorded \cup Recorded' /\ Recorded' \in SUBSET Event
      BY <2>1
    <3>2. Recorded' \in {Recorded \cup new : new \in SUBSET Event}
      BY <3>1, Zenon
    <3> QED
      BY <2>2, <3>2 DEF Log!LogNext, Log!Record
  <2>3. CASE Recorded' = Recorded /\ \E e \in Recorded : emitted' = emitted \cup {e}
    BY <2>1, <2>3 DEF Log!LogNext, Log!Emit
  <2> QED
    BY <2>2, <2>3, EmittedWasRecorded
<1> QED
  BY <1>1, <1>2, <1>3, InductiveInvariant, FoundInit, FoundNext, PTL DEF Spec, RefinesLog, Log!LogSpec

=============================================================================
