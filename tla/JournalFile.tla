------------------------------- MODULE JournalFile -------------------------------
(***************************************************************************)
(* The journal as a file (src/journal.cpp over src/platform.cpp), from the *)
(* stream's buffer over the file system to the medium, under the daemon    *)
(* that scans it, opens it, appends to it and compacts it.                 *)
(*                                                                         *)
(* A file is a sequence of pieces: its header, complete records, and torn  *)
(* ones, which are what a write that was cut short leaves.  A record has a *)
(* size, which is known only once it is written; the header and a record   *)
(* of counters are of one unit, and a torn piece, which no count ever      *)
(* includes, of none.  A checksum tells a torn piece from a complete one;  *)
(* the chain of a record is the payloads of its log up to and including    *)
(* its own.  The payload of a record is the transitions it stands for: one,*)
(* none (CountersSync), or all that the engine has made (Snapshot).        *)
(*                                                                         *)
(* The medium keeps the first `safe` pieces of the file, and may still     *)
(* know the path under an image in `former` until the next sync, because   *)
(* neither a truncation nor a rename is synced by itself.                  *)
(***************************************************************************)
EXTENDS Naturals, Sequences, SequencesExt, FiniteSetsExt

CONSTANTS
  MaxBytes,        \* kMaxJournalBytes
  MaxRecordBytes,  \* kMaxJournalRecordBytes, and the framing of a record
  MaxRecords,      \* kMaxJournalRecords
  MaxIssued        \* how many transitions the engine attempts

\* A log with its header and one record has room for another.
ASSUME JournalAssumption ==
  /\ MaxRecordBytes \in Nat /\ MaxRecordBytes > 0
  /\ MaxBytes \in Nat /\ MaxBytes > 1 + MaxRecordBytes
  /\ MaxRecords \in Nat /\ MaxRecords > 1
  /\ MaxIssued \in Nat

VARIABLES
  file,     \* the journal as the operating system has it; <<>>: missing or empty
  safe,     \* how much of it a loss of power leaves
  former,   \* the images a loss of power may bring back in its place
  up,       \* whether the daemon runs
  log,      \* its Journal object
  history,  \* the transitions its engine has made, and of a stopped one had made
  issued,   \* the transitions attempted so far, which gives each its number
  sure,     \* history: how many of them are promised to survive
  doubt     \* history: "failed" from a failed append to the next open or compaction,
            \* then "rewritten" until the log is synced again, and else "none"

storage == <<file, safe, former>>
promises == <<sure, doubt>>
vars == <<storage, up, log, history, issued, promises>>

Kinds == {"Header", "Torn", "Transition", "CountersSync", "Snapshot"}

Piece ==
  [kind : Kinds, size : Nat, sequence : Nat, chain : Seq(Seq(Nat)), payload : Seq(Nat)]

Header ==
  [kind |-> "Header", size |-> 1, sequence |-> 0, chain |-> <<>>, payload |-> <<>>]

Torn == [Header EXCEPT !.kind = "Torn", !.size = 0]

TypeOK ==
  /\ file \in Seq(Piece)
  /\ safe \in 0..Len(file)
  /\ former \in SUBSET Seq(Piece)
  /\ up \in BOOLEAN
  /\ log \in [open : BOOLEAN, buffer : Seq(Piece), byte_count : Nat, record_count : Nat,
              last_sequence : Nat, chain : Seq(Seq(Nat))]
  /\ log.open => up
  /\ history \in Seq(1..MaxIssued)
  /\ issued \in 0..MaxIssued
  /\ sure \in 0..Len(history)
  /\ doubt \in {"none", "failed", "rewritten"}
-------------------------------------------------------------------------------
(* Reading a log *)

\* The chain after the first n pieces, the header among them.
ChainOf(f, n) == [i \in 1..(n - 1) |-> f[i + 1].payload]

\* The checks of one piece: framing, checksums, chain, continuity.
Sound(f, i) ==
  IF i = 1 THEN f[i].kind = "Header"
  ELSE /\ f[i].kind \notin {"Header", "Torn"}
       /\ f[i].chain = ChainOf(f, i)
       /\ f[i].sequence = i - 2

\* valid_bytes, in pieces: up to the first one that fails a check.
ValidPieces(f) == Max({n \in 0..Len(f) : \A i \in 1..n : Sound(f, i)})

\* The size of the first n pieces of f.
BytesOf(f) ==
  LET total[n \in 0..Len(f)] == IF n = 0 THEN 0 ELSE total[n - 1] + f[n].size
  IN  total

\* scan succeeds: no file, an empty one, or one with a header.
Readable(f) == f = <<>> \/ f[1].kind = "Header"

ReplayEntry(transitions, entry) ==
  IF entry.kind = "Snapshot" THEN entry.payload ELSE transitions \o entry.payload

\* The transitions that the first n pieces of f stand for.
Replayed(f) ==
  LET read[n \in 0..Len(f)] == IF n <= 1 THEN <<>> ELSE ReplayEntry(read[n - 1], f[n])
  IN  read

\* The transitions that a start finds in the file f.
Recovered(f) == Replayed(f)[ValidPieces(f)]
-------------------------------------------------------------------------------
(* The Journal object *)

ClosedLog ==
  [open |-> FALSE, buffer |-> <<>>, byte_count |-> 0, record_count |-> 0,
   last_sequence |-> 0, chain |-> <<>>]

\* Mutant of OpenedLog: the chain starts over.
OpenedUnchained(f, n) ==
  [ClosedLog EXCEPT !.open = TRUE, !.byte_count = BytesOf(f)[n],
                    !.last_sequence = n - 1]

\* Mutant of OpenedLog: the bytes found are counted no more than the records.
OpenedUncounted(f, n) ==
  [ClosedLog EXCEPT !.open = TRUE, !.byte_count = 1, !.last_sequence = n - 1,
                    !.chain = ChainOf(f, n)]

\* What open leaves after a header of its own or after the n sound pieces of f.
OpenedLog(f, n) ==
  [ClosedLog EXCEPT !.open = TRUE, !.byte_count = BytesOf(f)[n],
                    !.last_sequence = n - 1, !.chain = ChainOf(f, n)]

ShouldCompact == log.byte_count >= MaxBytes \/ log.record_count >= MaxRecords

\* The next record of the log l.
Stamped(l, kind, payload, size) ==
  [kind |-> kind, size |-> size, sequence |-> l.last_sequence,
   chain |-> Append(l.chain, payload), payload |-> payload]

\* The counters of the log l after it has taken the record.
Counted(l, record) ==
  [l EXCEPT !.byte_count = @ + record.size, !.record_count = @ + 1,
            !.last_sequence = record.sequence + 1, !.chain = record.chain]

\* sync_file: what was buffered and then `more` is on the medium.
Synced(more) ==
  /\ file' = file \o log.buffer \o more
  /\ safe' = Len(file')
  /\ former' = {}

\* A write or a sync that fails has let through a part of what was pending: some
\* pieces, and perhaps a torn one.  The stream drops the rest.
CutShort(more) ==
  LET pending == log.buffer \o more
  IN  /\ \E n \in 0..Len(pending), torn \in {<<>>, <<Torn>>} :
           /\ torn # <<>> => n < Len(pending)
           /\ file' = file \o SubSeq(pending, 1, n) \o torn
      /\ UNCHANGED <<safe, former>>
-------------------------------------------------------------------------------
(* Promises *)

\* A sync covers the whole log, unless records lie behind one that failed.
Settles(made) ==
  /\ sure' = IF doubt = "failed" THEN sure ELSE Len(made)
  /\ doubt' = IF doubt = "failed" THEN doubt ELSE "none"

\* The log has been read again, or written anew.
Rewrites == doubt' = IF doubt = "none" THEN "none" ELSE "rewritten"
-------------------------------------------------------------------------------
(* The daemon *)

Init ==
  /\ file = <<>> /\ safe = 0 /\ former = {}
  /\ up = FALSE /\ log = ClosedLog
  /\ history = <<>> /\ issued = 0
  /\ sure = 0 /\ doubt = "none"

\* No log: the header of a new one is written and synced, or the daemon gives up
\* with a part of it written.
StartsFresh ==
  /\ ~up /\ file = <<>>
  /\ \/ /\ Synced(<<Header>>)
        /\ up' = TRUE
        /\ log' = OpenedLog(file', 1)
     \/ /\ CutShort(<<Header>>)
        /\ UNCHANGED <<up, log>>
  /\ history' = <<>>
  /\ sure' = 0
  /\ Rewrites
  /\ UNCHANGED issued

\* Mutant of StartsAgain: the torn tail stays.
StartsUncut ==
  /\ ~up /\ file # <<>> /\ Readable(file)
  /\ log' = OpenedLog(file, ValidPieces(file))
  /\ up' = TRUE
  /\ history' = Recovered(file)
  /\ sure' = Min({sure, Len(history')})
  /\ Rewrites
  /\ UNCHANGED <<storage, issued>>

\* A log that can be read is cut after its last sound piece and continued there.
StartsAgain ==
  /\ ~up /\ file # <<>> /\ Readable(file)
  /\ LET n == ValidPieces(file)
     IN  /\ file' = SubSeq(file, 1, n)
         /\ safe' = Min({safe, n})
         /\ former' = IF n < Len(file) THEN former \cup {file} ELSE former
         /\ log' = OpenedLog(file, n)
  /\ up' = TRUE
  /\ history' = Recovered(file)
  /\ sure' = Min({sure, Len(history')})
  /\ Rewrites
  /\ UNCHANGED issued

\* Mutant of Appends: a record is counted before it is synced.
AppendsCounted ==
  /\ up /\ log.open /\ ~ShouldCompact
  /\ issued < MaxIssued
  /\ issued' = issued + 1
  /\ \E size \in 1..MaxRecordBytes :
     LET record == Stamped(log, "Transition", <<issued'>>, size)
     IN  /\ log' = [Counted(log, record) EXCEPT !.buffer = <<>>]
         /\ \/ Synced(<<record>>) /\ history' = Append(history, issued') /\ Settles(history')
            \/ CutShort(<<record>>) /\ doubt' = "failed" /\ UNCHANGED <<history, sure>>
  /\ UNCHANGED up

\* The engine logs its next transition, and makes it if the log took it.
Appends ==
  /\ up /\ log.open /\ ~ShouldCompact
  /\ issued < MaxIssued
  /\ issued' = issued + 1
  /\ \E size \in 1..MaxRecordBytes :
     LET record == Stamped(log, "Transition", <<issued'>>, size)
     IN  \/ /\ Synced(<<record>>)
            /\ log' = [Counted(log, record) EXCEPT !.buffer = <<>>]
            /\ history' = Append(history, issued')
            /\ Settles(history')
         \/ /\ CutShort(<<record>>)
            /\ log' = [log EXCEPT !.buffer = <<>>]
            /\ doubt' = "failed"
            /\ UNCHANGED <<history, sure>>
  /\ UNCHANGED up

\* The record of a snapshot, the first of the log that compact writes.
Snapshot(size) == Stamped(OpenedLog(<<Header>>, 1), "Snapshot", history, size)

\* Mutant of CompactedLog: a record that is not synced is not counted.
CompactedUncounted(size) ==
  LET image == Counted(OpenedLog(<<Header>>, 1), Snapshot(size))
  IN  [image EXCEPT !.buffer = <<Stamped(image, "CountersSync", <<>>, 1)>>]

\* The log that compact writes beside the old one, and what maybe_compact then adds to
\* it: a record that is not worth a sync and stays in the buffer.
CompactedLog(size) ==
  LET image == Counted(OpenedLog(<<Header>>, 1), Snapshot(size))
      counters == Stamped(image, "CountersSync", <<>>, 1)
  IN  [Counted(image, counters) EXCEPT !.buffer = <<counters>>]

\* maybe_compact of a log at its bound.  It closes the log first, and whatever fails
\* after that leaves it closed, with the old log or with the new one at the path.
Compacts ==
  /\ up /\ log.open /\ ShouldCompact
  /\ \/ /\ CutShort(<<>>)
        /\ log' = ClosedLog
        /\ doubt' = "failed"
        /\ UNCHANGED sure
     \/ /\ Synced(<<>>)
        /\ log' = ClosedLog
        /\ Settles(history)
     \/ /\ \E size \in 1..MaxRecordBytes :
             /\ file' = <<Header, Snapshot(size)>>
             /\ log' \in {CompactedLog(size), ClosedLog}
        /\ safe' = Len(file')
        /\ former' = {file \o log.buffer}
        /\ sure' = IF doubt = "failed" THEN sure ELSE Len(history)
        /\ doubt' = IF doubt = "failed" THEN "rewritten" ELSE "none"
  /\ UNCHANGED <<up, history, issued>>

\* Mutant of Stops: the log is synced but not closed.
StopsOpen ==
  /\ up
  /\ up' = FALSE
  /\ UNCHANGED <<log, history, issued>>
  /\ \/ log.open /\ Synced(<<>>) /\ Settles(history)
     \/ ~log.open /\ UNCHANGED <<storage, sure, doubt>>

\* The daemon stops, and closes what is open.
Stops ==
  /\ up
  /\ up' = FALSE
  /\ log' = ClosedLog
  /\ \/ log.open /\ Synced(<<>>) /\ Settles(history)
     \/ log.open /\ CutShort(<<>>) /\ doubt' = "failed" /\ UNCHANGED sure
     \/ ~log.open /\ UNCHANGED <<storage, sure, doubt>>
  /\ UNCHANGED <<history, issued>>

\* The process dies, and the buffer with it.
Crashes ==
  /\ up
  /\ up' = FALSE
  /\ log' = ClosedLog
  /\ UNCHANGED <<storage, history, issued, promises>>

\* The power fails, and what was not synced may be gone, in part or torn.
LosesPower ==
  /\ up' = FALSE
  /\ log' = ClosedLog
  /\ \/ file' \in former
     \/ \E n \in safe..Len(file), torn \in {<<>>, <<Torn>>} :
          /\ torn # <<>> => n < Len(file)
          /\ file' = SubSeq(file, 1, n) \o torn
  /\ safe' = Len(file')
  /\ former' = {}
  /\ doubt' = "none"
  /\ UNCHANGED <<history, issued, sure>>

Next ==
  \/ StartsFresh \/ StartsAgain \/ Stops
  \/ Appends \/ Compacts
  \/ Crashes \/ LosesPower

Spec == Init /\ [][Next]_vars
-------------------------------------------------------------------------------
(* What the journal is for *)

\* Whatever an append or a sync reported durable, on a log of which no append has failed
\* since it was opened or compacted, is read by the next start, in its place: across
\* short writes, torn tails, a crash within compact, and a rename that was undone.
PromisesSurvive == ~up => IsPrefix(SubSeq(history, 1, sure), Recovered(file))

\* A start reads what the engine did, up to some point, and after it at most the one
\* transition whose append was reported as failed.  Nothing is skipped, made up,
\* reordered or read twice, though failed records stay in the file.
OnlyHistoryReplays ==
  ~up => LET read == Recovered(file)
         IN  \/ IsPrefix(read, history)
             \/ /\ read # <<>>
                /\ IsPrefix(Front(read), history)
                /\ Last(read) \notin Range(history)

\* Where appends go on, a scan gets there: position and chain of an open log are those
\* a scan ends with, after a torn tail was cut or the log compacted, and the log as
\* it is being written replays to the engine writing it.
AppendsLandInReach ==
  log.open /\ doubt # "failed" =>
    LET written == file \o log.buffer
    IN  /\ ValidPieces(written) = Len(written)
        /\ log.last_sequence = Len(written) - 1
        /\ log.chain = ChainOf(written, Len(written))
        /\ Recovered(written) = history

\* The count of bytes is kept in memory, apart from the file, and taken up again by each
\* open and each compaction.  It is compared with the bound before a record is written,
\* so the log may pass the bound by a record, but never by more: a scan, which reads
\* that much (kMaxScanBytes), reads all of it.
BytesAreBounded ==
  log.open /\ doubt # "failed" =>
    LET written == file \o log.buffer
    IN  /\ log.byte_count = BytesOf(written)[Len(written)]
        /\ log.byte_count < MaxBytes + MaxRecordBytes

\* The file implements the log the engine relies on.
Abstract ==
  INSTANCE RecordLog WITH
    Entries <- 1..MaxIssued,
    entries <- Recovered(file \o log.buffer),
    doubted <- (doubt # "none")

ImplementsRecordLog == Abstract!RecordLogSpec
===============================================================================
