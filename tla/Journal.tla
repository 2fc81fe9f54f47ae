------------------------------- MODULE Journal ------------------------------
(***************************************************************************)
(* The decision journal (internal/telemetry): shadow processes that open,  *)
(* lock and append to it (journal.go, runShadow of main.go), the sealed    *)
(* reader behind "journal verify" and "journal batch" (verify.go), the     *)
(* operator who rotates files between them, and power failures.            *)
(*                                                                         *)
(* A file is the sequence of writes made to it.  One that is not whole     *)
(* lacks its newline, so the next write continues its line.                *)
(***************************************************************************)
EXTENDS Integers, Sequences, FiniteSets, SequencesExt

CONSTANTS
  Writers,        \* shadow processes given the same journal path
  DomainOf,       \* the storage domain of each
  Files,          \* inodes
  UnsafeFiles,    \* not regular, or accessible by group or other
  MaxSize,        \* the journal's size limit, in writes
  MaxEvents,      \* bound: events evaluated in a behaviour
  Interferences,  \* what the world does: some of "rename", "scribble", "power"
  MaxHappened,    \* bound: how often it does
  PageLimit,      \* the most events a batch may ask for
  None            \* no file, no content

\* Where a journal is written, where a sealed one is read, and the private place
\* it is kept at afterwards.
Paths == {"live", "sealed", "kept"}
Event == [id : 1..MaxEvents, domain : {DomainOf[w] : w \in Writers}]
NoEvent == [id |-> 0, domain |-> "none"]

ASSUME JournalAssumption ==
  /\ DomainOf \in [Writers -> STRING]
  /\ UnsafeFiles \subseteq Files
  /\ MaxSize \in Nat /\ MaxEvents \in Nat /\ MaxHappened \in Nat /\ PageLimit \in Nat \ {0}
  /\ None \notin Files

\* A whole line, a line that lacks only its newline, or anything else.
Write == [kind : {"whole", "unended", "torn"}, event : Event \cup {NoEvent}]

VARIABLES
  path,       \* the directory: the file each path names
  content,    \* the writes made to each file
  synced,     \* how many of them survive a power failure
  used,       \* inodes that have existed
  writer,     \* each shadow process
  evaluated,  \* events evaluated so far
  emitted,    \* events whose proposals reached stdout
  reader,     \* the command reading a sealed journal
  reported,   \* content whose digest a verification reported last
  approved,   \* content whose digest the operator approved for import
  imported,   \* events of the pages the consumer has taken, in order
  complete,   \* the last page said that it was the last
  happened    \* how often the world interfered

files == <<path, content, synced, used>>
handoff == <<reported, approved, imported, complete>>
vars == <<files, writer, evaluated, emitted, reader, handoff, happened>>

WriterSteps == {"down", "opened", "ready", "written", "synced"}
\* clean is history: the file ended with a whole line, if any, when the process
\* locked it, and nothing that takes no lock has written to it since.
Writer == [step : WriterSteps, fd : Files \cup {None}, event : Event \cup {NoEvent},
           clean : BOOLEAN]
Down == [step |-> "down", fd |-> None, event |-> NoEvent, clean |-> FALSE]

ReaderSteps == {"off", "opened", "locked"}
Off == [step |-> "off", batch |-> FALSE, fd |-> None, read |-> None]

-----------------------------------------------------------------------------
(* Content.                                                                *)

\* Every line decodes and validates, and they are of one storage domain.
Verifiable(c) ==
  /\ \A i \in 1..Len(c) : c[i].kind = "whole" \/ (c[i].kind = "unended" /\ i = Len(c))
  /\ Cardinality({c[i].event.domain : i \in 1..Len(c)}) <= 1

EventsOf(c) == [i \in 1..Len(c) |-> c[i].event]

Torn == [kind |-> "torn", event |-> NoEvent]

\* What a power failure may leave of a file: at least what was synced, and
\* possibly the beginning of one more write.
Survivors(f) ==
  LET kept == synced[f]..Len(content[f])
  IN  {SubSeq(content[f], 1, k) : k \in kept}
        \cup {Append(SubSeq(content[f], 1, k - 1), Torn) : k \in kept \ {synced[f]}}

\* Events on stable storage in a file that can still be found, the ones on a
\* damaged line included.
Recorded ==
  UNION {{content[f][i].event : i \in {j \in 1..synced[f] : content[f][j].kind = "whole"}} :
           f \in {path[p] : p \in Paths} \ {None}}

-----------------------------------------------------------------------------
(* Advisory locks: they end with the process that holds them.              *)

Writes(w, f) == writer[w].fd = f /\ writer[w].step \in {"ready", "written", "synced"}
Reads(f) == reader.fd = f /\ reader.step = "locked"

\* Mutant: writers do not exclude each other.
CanLockExclusive_ManyWriters(f) == ~Reads(f)

CanLockExclusive(f) == ~Reads(f) /\ \A w \in Writers : ~Writes(w, f)

\* Mutant: LOCK_SH is not taken.
CanLockShared_Anyway(f) == TRUE

CanLockShared(f) == \A w \in Writers : ~Writes(w, f)

-----------------------------------------------------------------------------
(* runShadow.                                                              *)

Becomes(w, step, fd, event) ==
  writer' = [writer EXCEPT ![w] = [@ EXCEPT !.step = step, !.fd = fd, !.event = event]]

\* Mutant: a process that ended keeps its descriptor.
Stop_KeepsDescriptor(w) ==
  /\ writer[w].step # "down"
  /\ writer' = [writer EXCEPT ![w].step = "down"]
  /\ UNCHANGED <<files, evaluated, emitted, reader, handoff, happened>>

\* Any error, a full journal, the end of the input or a signal ends the process.
Stop(w) ==
  /\ writer[w].step # "down"
  /\ writer' = [writer EXCEPT ![w] = Down]
  /\ UNCHANGED <<files, evaluated, emitted, reader, handoff, happened>>

\* Mutant: O_EXCL is not given, and the path now names a new file.
Create_Replaces(w) ==
  /\ writer[w].step = "down"
  /\ \E f \in Files \ (used \cup UnsafeFiles) :
       /\ path' = [path EXCEPT !["live"] = f]
       /\ used' = used \cup {f}
       /\ Becomes(w, "opened", f, NoEvent)
  /\ UNCHANGED <<content, synced, evaluated, emitted, reader, handoff, happened>>

\* Lstat and open are one step: the opened file must be the inspected one, so an
\* open that succeeds is one that did both at that moment.  O_CREATE|O_EXCL.
Create(w) ==
  /\ writer[w].step = "down"
  /\ path["live"] = None
  /\ \E f \in Files \ (used \cup UnsafeFiles) :
       /\ path' = [path EXCEPT !["live"] = f]
       /\ used' = used \cup {f}
       /\ Becomes(w, "opened", f, NoEvent)
  /\ UNCHANGED <<content, synced, evaluated, emitted, reader, handoff, happened>>

OpenExisting(w) ==
  /\ writer[w].step = "down"
  /\ path["live"] \in Files \ UnsafeFiles
  /\ Len(content[path["live"]]) <= MaxSize
  /\ Becomes(w, "opened", path["live"], NoEvent)
  /\ UNCHANGED <<files, evaluated, emitted, reader, handoff, happened>>

\* The lock is taken on the file; the path is not looked at again.
Lock(w) ==
  /\ writer[w].step = "opened"
  /\ CanLockExclusive(writer[w].fd)
  /\ LET c == content[writer[w].fd]
     IN  writer' = [writer EXCEPT ![w].step = "ready",
                                  ![w].clean = c = <<>> \/ Last(c).kind = "whole"]
  /\ UNCHANGED <<files, evaluated, emitted, reader, handoff, happened>>

\* An observation is evaluated; its event must fit in the size limit.
Evaluate(w) ==
  /\ writer[w].step = "ready"
  /\ Len(content[writer[w].fd]) < MaxSize
  /\ evaluated < MaxEvents
  /\ evaluated' = evaluated + 1

EventNow(w) == [id |-> evaluated + 1, domain |-> DomainOf[w]]

AppendWhole(w) ==
  /\ Evaluate(w)
  /\ content' = [content EXCEPT ![writer[w].fd] =
                   Append(@, [kind |-> "whole", event |-> EventNow(w)])]
  /\ Becomes(w, "written", writer[w].fd, EventNow(w))
  /\ UNCHANGED <<path, synced, used, emitted, reader, handoff, happened>>

\* The filesystem takes a part of the line: Append fails and the process ends,
\* leaving what was written.
AppendShort(w) ==
  /\ Evaluate(w)
  /\ \E piece \in {Torn, [kind |-> "unended", event |-> EventNow(w)]} :
       content' = [content EXCEPT ![writer[w].fd] = Append(@, piece)]
  /\ writer' = [writer EXCEPT ![w] = Down]
  /\ UNCHANGED <<path, synced, used, emitted, reader, handoff, happened>>

\* Mutant: the proposal is written out before the event is synced.
Sync_Skipped(w) ==
  /\ writer[w].step = "written"
  /\ Becomes(w, "synced", writer[w].fd, writer[w].event)
  /\ UNCHANGED <<files, evaluated, emitted, reader, handoff, happened>>

Sync(w) ==
  /\ writer[w].step = "written"
  /\ synced' = [synced EXCEPT ![writer[w].fd] = Len(content[writer[w].fd])]
  /\ Becomes(w, "synced", writer[w].fd, writer[w].event)
  /\ UNCHANGED <<path, content, used, evaluated, emitted, reader, handoff, happened>>

Emit(w) ==
  /\ writer[w].step = "synced"
  /\ emitted' = emitted \cup {writer[w].event}
  /\ Becomes(w, "ready", writer[w].fd, NoEvent)
  /\ UNCHANGED <<files, evaluated, reader, handoff, happened>>

Shadow(w) ==
  \/ Create(w)
  \/ OpenExisting(w)
  \/ Lock(w)
  \/ AppendWhole(w)
  \/ AppendShort(w)
  \/ Sync(w)
  \/ Emit(w)
  \/ Stop(w)

-----------------------------------------------------------------------------
(* scanSealedJournal, for "journal verify" and "journal batch".            *)

\* Any failed check or error ends the command without output.
GiveUp ==
  /\ reader.step # "off"
  /\ reader' = Off
  /\ UNCHANGED <<files, writer, evaluated, emitted, handoff, happened>>

OpenSealed ==
  /\ reader.step = "off"
  /\ path["sealed"] \in Files \ UnsafeFiles
  /\ Len(content[path["sealed"]]) <= MaxSize
  /\ \E batch \in BOOLEAN :
       /\ batch => approved # None /\ ~complete
       /\ reader' = [step |-> "opened", batch |-> batch, fd |-> path["sealed"], read |-> None]
  /\ UNCHANGED <<files, writer, evaluated, emitted, handoff, happened>>

\* The path still names the file that is now locked, and every line of it is
\* good.  Reading is part of this step: a write that comes while the file is
\* read changes it after it was locked, and the command fails below.
LockAndScan ==
  /\ reader.step = "opened"
  /\ CanLockShared(reader.fd)
  /\ path["sealed"] = reader.fd
  /\ Verifiable(content[reader.fd])
  /\ reader' = [reader EXCEPT !.step = "locked", !.read = content[reader.fd]]
  /\ UNCHANGED <<files, writer, evaluated, emitted, handoff, happened>>

\* The file is as it was when it was locked, and the path still names it.
Unchanged ==
  /\ content[reader.fd] = reader.read
  /\ path["sealed"] = reader.fd

Verify ==
  /\ reader.step = "locked" /\ ~reader.batch
  /\ Unchanged
  /\ reported' = reader.read
  /\ reader' = Off
  /\ UNCHANGED <<files, writer, evaluated, emitted, approved, imported, complete, happened>>

\* Mutant: the digest is not compared with the approved one.
DigestMatches_Any == TRUE

DigestMatches == reader.read = approved

Page(c, offset, limit) == SubSeq(EventsOf(c), offset + 1, Min({offset + limit, Len(c)}))

\* Mutant: the page that reaches the end is not the last.
IsLastPage_Beyond(c, next) == next > Len(c)

IsLastPage(c, next) == next >= Len(c)

\* ReadVerifiedJournalBatch from the consumer's cursor, for as many events as this
\* command asks for; the page may be lost on the way to the consumer, who then asks
\* again from the same offset.
Batch ==
  /\ reader.step = "locked" /\ reader.batch
  /\ Unchanged
  /\ DigestMatches
  /\ Len(imported) <= Len(reader.read)
  /\ \E limit \in 1..PageLimit :
       imported' = imported \o Page(reader.read, Len(imported), limit)
  /\ complete' = IsLastPage(reader.read, Len(imported'))
  /\ reader' = Off
  /\ UNCHANGED <<files, writer, evaluated, emitted, reported, approved, happened>>

Reader ==
  \/ OpenSealed
  \/ LockAndScan
  \/ Verify
  \/ Batch
  \/ GiveUp

-----------------------------------------------------------------------------
(* The operator, the machine, and programs that ignore the lock.           *)

Happens(kind) ==
  /\ kind \in Interferences
  /\ happened < MaxHappened
  /\ happened' = happened + 1

\* mv between paths: rotation, keeping a file that was read, or putting one back.
\* The procedure is the site's own (ITOPS-INTEGRATION.md:119); it is taken not to
\* write over a journal.
Rename(from, to) ==
  /\ Happens("rename")
  /\ from # to
  /\ path[from] # None /\ path[to] = None
  /\ path' = [path EXCEPT ![from] = None, ![to] = path[from]]
  /\ UNCHANGED <<content, synced, used, writer, evaluated, emitted, reader, handoff>>

\* The digest last reported is the one that will be imported, from the start.
Approve ==
  /\ reported # None /\ reported # approved
  /\ approved' = reported
  /\ imported' = <<>>
  /\ complete' = FALSE
  /\ UNCHANGED <<files, writer, evaluated, emitted, reader, reported, happened>>

\* Something that takes no lock appends to a file.
Scribble(f) ==
  /\ Happens("scribble")
  /\ f \in used
  /\ content' = [content EXCEPT ![f] = Append(@, Torn)]
  /\ writer' = [w \in Writers |-> [writer[w] EXCEPT !.clean = @ /\ writer[w].fd # f]]
  /\ UNCHANGED <<path, synced, used, evaluated, emitted, reader, handoff>>

\* The page cache is lost; every process ends.  Directory entries survive.
PowerLoss ==
  /\ Happens("power")
  /\ content' \in {c \in [Files -> UNION {Survivors(f) : f \in Files}] :
                     \A f \in Files : c[f] \in Survivors(f)}
  /\ synced' = [f \in Files |-> Len(content'[f])]
  /\ writer' = [w \in Writers |-> Down]
  /\ reader' = Off
  /\ UNCHANGED <<path, used, evaluated, emitted, handoff>>

World ==
  \/ \E from, to \in Paths : Rename(from, to)
  \/ Approve
  \/ \E f \in Files : Scribble(f)
  \/ PowerLoss

-----------------------------------------------------------------------------
\* The path is free, or names a file that is no private regular file.
Init ==
  /\ \E found \in UnsafeFiles \cup {None} :
       /\ path = [live |-> found, sealed |-> None, kept |-> None]
       /\ used = {found} \ {None}
  /\ content = [f \in Files |-> <<>>]
  /\ synced = [f \in Files |-> 0]
  /\ writer = [w \in Writers |-> Down]
  /\ evaluated = 0
  /\ emitted = {}
  /\ reader = Off
  /\ reported = None /\ approved = None
  /\ imported = <<>> /\ complete = FALSE
  /\ happened = 0

Next ==
  \/ \E w \in Writers : Shadow(w)
  \/ Reader
  \/ World

Spec == Init /\ [][Next]_vars

-----------------------------------------------------------------------------
(* Properties.                                                             *)

\* Every variable has its type; a process that is down holds no descriptor, and
\* no more of a file is durable than was written to it.
TypeOK ==
  /\ used \subseteq Files
  /\ path \in [Paths -> used \cup {None}]
  /\ \A f \in Files : content[f] \in Seq(Write) /\ synced[f] \in 0..Len(content[f])
  /\ writer \in [Writers -> Writer]
  /\ \A w \in Writers : writer[w].fd = None <=> writer[w].step = "down"
  /\ evaluated \in 0..MaxEvents
  /\ emitted \subseteq Event
  /\ reader.step \in ReaderSteps /\ reader.fd \in Files \cup {None}
  /\ \A c \in {reported, approved, reader.read} \ {None} : c \in Seq(Write)
  /\ imported \in Seq(Event)
  /\ complete \in BOOLEAN
  /\ happened \in 0..MaxHappened

\* What is durable and what was emitted, as the promise of DecisionLog: no
\* proposal leaves the process before its event is durable, whichever writer, and
\* no crash, rotation, reopening or power failure takes a durable event away, nor
\* the last name of the file that holds it: a process writes to an inode it opened
\* by a name that may since have become another's (Append, openJournal and the
\* order of runShadow's loop).
Log == INSTANCE DecisionLog WITH recorded <- Recorded
RefinesLog == Log!LogSpec

\* While a reader has a file locked only a program that takes no lock changes it,
\* whatever was renamed since the writers and the reader opened it; so what a
\* verification reports is the file as it was sealed (lockJournal, and LOCK_SH in
\* scanSealedJournal).
SealedWhileRead ==
  [][\A f \in Files : Reads(f) /\ content'[f] # content[f] => happened' # happened]_vars

\* The i-th write of a file is a line of its own.
IsLine(c, i) == c[i].kind = "whole" /\ (i > 1 => c[i - 1].kind = "whole")

\* A process that found its journal ending with a whole line writes durable lines
\* that are records of their own: no other process leaves a fragment in between,
\* also not one that opened the file before it was renamed (lockJournal, Append).
CleanSessionRecords ==
  \A w \in Writers : writer[w].step = "synced" /\ writer[w].clean =>
    LET f == writer[w].fd
        last == synced[f]
    IN  /\ last = Len(content[f])
        /\ IsLine(content[f], last)
        /\ content[f][last].event = writer[w].event

\* The consumer's pages, of any lengths and asked for one command at a time while
\* files are renamed, reopened and appended to, are together the beginning of the
\* content the operator approved; the last page taken says that it is the last
\* exactly when they are all of it (ReadVerifiedJournalBatch).  Of an empty
\* journal nothing says so until it is asked.
ImportedIsApproved ==
  approved # None =>
    /\ IsPrefix(imported, EventsOf(approved))
    /\ complete => Len(imported) = Len(approved)
    /\ imported # <<>> /\ Len(imported) = Len(approved) => complete

\* Violated: the event of every emitted proposal is a complete line of its own
\* in some journal file ("Append validates, writes, and syncs one complete
\* event", journal.go:115): a process that reopens a file whose last line was
\* cut off continues that line.
EmittedIsRecord ==
  \A e \in emitted :
    \E f \in Files : \E i \in 1..Len(content[f]) :
      content[f][i].event = e /\ IsLine(content[f], i)

=============================================================================
