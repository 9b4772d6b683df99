--------------------------- MODULE MCJournalLock ---------------------------
(* Small instances of the lock protocol for TLC. *)
EXTENDS JournalLock, TLC

\* Processes and files are interchangeable.
Symmetry == Permutations(Procs) \cup Permutations(Inodes)
=============================================================================
