--------------------------- MODULE MCFileJournal ----------------------------
(* Small instances for TLC: the journal, with the policy of live accounts and that of
   replays; and the catalogue of playbooks, with what each setup tells apart: versions and
   modes that open and close forward tests; guardrails over several trades and a reset; and
   stages, sent or dismissed. *)
EXTENDS Outliving

MCSetup == [
  tests  |-> [perDay |-> 2, cooldown |-> 1, modes |-> {"off", "auto"}, outcomes |-> {FALSE},
              strikes |-> 1, orders |-> 2, versions |-> 2, windows |-> 3, resets |-> 0],
  guards |-> [perDay |-> 2, cooldown |-> 2, modes |-> {"auto"}, outcomes |-> {TRUE, FALSE},
              strikes |-> 2, orders |-> 3, versions |-> 1, windows |-> 1, resets |-> 1],
  stages |-> [perDay |-> 2, cooldown |-> 1, modes |-> {"stage", "auto"}, outcomes |-> {TRUE},
              strikes |-> 1, orders |-> 2, versions |-> 2, windows |-> 1, resets |-> 0]]
=============================================================================
