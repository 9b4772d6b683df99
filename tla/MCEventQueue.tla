---------------------------- MODULE MCEventQueue ----------------------------
(* Small instances of the event queue for TLC. *)
EXTENDS EventQueue

\* Retained filters its argument, whatever the tombstones in it.
Small == {[shape |-> StatusShape, serial |-> n] : n \in 1 .. 2} \cup {Tombstone}
ASSUME RetainedFilters ==
  \A n \in 0 .. 4 : \A s \in [1 .. n -> Small] : Retained(s) = SelectSeq(s, IsRetained)

=============================================================================
