-------------------------------- MODULE RecordLog --------------------------------
(***************************************************************************)
(* What a write-ahead log promises to the engine above it: entries are     *)
(* taken in order, what was acknowledged is never lost, and of the rest    *)
(* only a tail can go.  The promise is suspended from the moment an append *)
(* fails until the log has been read or rewritten and an append succeeds   *)
(* again.  JournalFile is shown to implement it.                           *)
(***************************************************************************)
EXTENDS Naturals, Sequences, SequencesExt

CONSTANT Entries   \* what can be logged

VARIABLES
  entries,  \* what the next start would read
  sure,     \* how many of them no crash can take away
  doubted   \* whether an append has failed and not been made good

recordLog == <<entries, sure, doubted>>

RecordLogInit == entries = <<>> /\ sure = 0 /\ doubted = FALSE

Accept(e) ==
  /\ ~doubted
  /\ entries' = Append(entries, e)
  /\ sure' = Len(entries')
  /\ UNCHANGED doubted

\* Everything in the log has been synced.
Settle ==
  /\ ~doubted
  /\ sure' = Len(entries)
  /\ UNCHANGED <<entries, doubted>>

\* A crash: of what was not yet sure, a tail is lost.
Lose(n) ==
  /\ ~doubted
  /\ n \in sure..Len(entries)
  /\ entries' = SubSeq(entries, 1, n)
  /\ UNCHANGED <<sure, doubted>>

\* While the log is doubted, only what was sure before is promised.
Doubt ==
  /\ doubted \/ doubted'
  /\ doubted' \in BOOLEAN
  /\ IsPrefix(SubSeq(entries, 1, sure), entries')
  /\ sure' \in sure..Len(entries')

RecordLogNext ==
  \/ \E e \in Entries : Accept(e)
  \/ Settle
  \/ \E n \in sure..Len(entries) : Lose(n)
  \/ Doubt

RecordLogSpec == RecordLogInit /\ [][RecordLogNext]_recordLog
===============================================================================
