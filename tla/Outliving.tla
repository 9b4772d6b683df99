------------------------------ MODULE Outliving ------------------------------
(* What outlives the server beside its accounts' state, one part moving in a behaviour: the
   journal, or the catalogue of playbooks under one of several setups. *)
EXTENDS FileJournal

CONSTANTS
  Setup,              \* for each name, the guardrails, the choices left open and the bounds
  DayTicks, MaxTime   \* see Playbooks

ASSUME SetupAssumption ==
  /\ DayTicks \in Nat \ {0} /\ MaxTime \in Nat
  /\ \A name \in DOMAIN Setup :
       /\ Setup[name].perDay \in Nat /\ Setup[name].cooldown \in Nat
       /\ Setup[name].modes \subseteq {"off", "stage", "auto"} /\ Setup[name].outcomes \subseteq BOOLEAN
       /\ {Setup[name].strikes, Setup[name].orders, Setup[name].versions,
           Setup[name].windows, Setup[name].resets} \subseteq Nat

VARIABLES part, catalogue, orders, attempts, suppressed, staged, market, feed, priced, todo, wanted
playbookVars == <<catalogue, orders, attempts, suppressed, staged, market, feed, priced, todo, wanted>>

P(name) == INSTANCE Playbooks WITH
  MaxPerDay <- Setup[name].perDay, Cooldown <- Setup[name].cooldown,
  Modes <- Setup[name].modes, Outcomes <- Setup[name].outcomes, Strikes <- Setup[name].strikes,
  MaxOrders <- Setup[name].orders, MaxVersions <- Setup[name].versions,
  MaxWindows <- Setup[name].windows, MaxResets <- Setup[name].resets

OutlivingInit ==
  /\ Init
  /\ \E name \in DOMAIN Setup :
       part \in {"journal", name} /\ P(name)!Init /\ (part = name => perRecord)
OutlivingNext ==
  /\ UNCHANGED part
  /\ \/ part = "journal" /\ Next /\ UNCHANGED playbookVars
     \/ \E name \in DOMAIN Setup : part = name /\ P(name)!Next /\ UNCHANGED vars
OutlivingSpec == OutlivingInit /\ [][OutlivingNext]_<<part, vars, playbookVars>>

(* Automatic entries are counted once and were allowed; see Playbooks. *)
EntriesAccountedFor == \A name \in DOMAIN Setup : part = name => P(name)!EntriesAccountedFor

(* Strengthening, for the proof. *)
CatalogueInvariant == \A name \in DOMAIN Setup : part = name => P(name)!Consistent
=============================================================================
