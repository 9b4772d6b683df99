------------------------------- MODULE MCEngine -------------------------------
(* Small instances of the engine for TLC: driven by batches, and live. *)
EXTENDS Engine

\* A live provider publishes events; a driving one hands over batches instead.
EventsPerLoop == [loop \in {TRUE, FALSE} |-> IF loop THEN 0 ELSE 2]
=============================================================================
