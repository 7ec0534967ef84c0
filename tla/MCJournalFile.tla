----------------------------- MODULE MCJournalFile -----------------------------
(* A small instance of JournalFile. *)
EXTENDS JournalFile
===============================================================================
