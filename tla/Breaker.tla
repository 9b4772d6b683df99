------------------------------- MODULE Breaker -------------------------------
(***************************************************************************)
(* The market-wide circuit breaker of the desk (src/server/desk.cpp): a    *)
(* print that falls far enough below the previous close halts every        *)
(* account, each level once a trading day; a scenario may author halts.    *)
(* The state is saved with each publication, before the accounts act, in   *)
(* market-halts.json; a failed write stays dirty and is tried again.       *)
(***************************************************************************)
EXTENDS Integers, Sequences, FiniteSets

CONSTANTS DayTicks,    \* length of a trading day; its last tick is after the close
          HaltTicks,   \* how long a level 1 or 2 halt lasts
          Falls,       \* how far the index may fall, in levels; 0 for no trip
          MaxLate,     \* how far behind the market a print may arrive
          MaxMarket,   \* bound: the market's clock
          MaxBreaks    \* bound: restarts and failed writes

VARIABLES
  market,    \* market_time_
  breaker,   \* breaker_: day, level, halts, whether the previous close is known
  dirty,     \* breaker_dirty_
  halting,   \* breaker_.error: "" or why the file was not read or written
  halted,    \* market-halts.json: <<>> or the breaker it holds, with its market time
  told,      \* history: today's halts the accounts have been held to
  lost,      \* history: a restart came while a write had failed
  breaks

breakerVars == <<market, breaker, dirty, halting, halted, told, lost, breaks>>

Day(t) == t \div DayTicks
Close(t) == Day(t) * DayTicks + DayTicks - 1
InHours(t) == t < Close(t)
Halt(level, start, end) == [level |-> level, start |-> start, end |-> end]
Covers(h, t) == h.start <= t /\ t < h.end
Fresh(day) == [day |-> day, level |-> 0, halts |-> <<>>, reference |-> FALSE]

(* circuit_breaker: the halt a print `fall` levels down trips, if it trips one. *)
Trips(b, fall, t) ==
  /\ b.reference /\ InHours(t) /\ fall > b.level
  /\ fall = 3 \/ t < Close(t) - 1 \* levels 1 and 2 only until 35 minutes before the close
Tripped(fall, t) == Halt(fall, t, IF fall = 3 THEN Close(t) ELSE t + HaltTicks)

(* advance_circuit_breaker: a new day starts at level 0 and looks up its own previous close. *)
Advanced(b, t, known) ==
  IF Day(t) < b.day THEN b
  ELSE [b EXCEPT !.day = Day(t), !.level = IF Day(t) = b.day THEN @ ELSE 0,
                 !.reference = IF Day(t) = b.day THEN @ \/ known ELSE known]

(* The halts of an earlier day are dropped when another day's first halt comes. *)
WithHalt(b, h) ==
  [b EXCEPT !.halts = Append(IF @ # <<>> /\ Day(@[Len(@)].start) # b.day THEN <<>> ELSE @, h)]

(* check_circuit_breaker, for one print. *)
Checked(b, fall, t) ==
  IF Day(t) < b.day THEN b
  ELSE IF Trips(b, fall, t) THEN [WithHalt(b, Tripped(fall, t)) EXCEPT !.level = fall] ELSE b

(* save_circuit_breaker replaces the file atomically and syncs it. *)
Save(b, t) == /\ halted' = <<[breaker |-> b, time |-> t]>> /\ dirty' = FALSE
              /\ halting' = IF halting = "cannot write" THEN "" ELSE halting
\* Mutation: a failed write is not tried again.
SaveForgets(b) ==
  /\ breaks < MaxBreaks /\ breaks' = breaks + 1 /\ dirty' = FALSE /\ halting' = "" /\ UNCHANGED halted

SaveFails(b) == /\ breaks < MaxBreaks /\ breaks' = breaks + 1
                /\ dirty' = TRUE /\ halting' = "cannot write" /\ UNCHANGED halted

(* publish_circuit_breaker: what changed is saved before the accounts act on it. *)
Active(b, t) == \E i \in 1..Len(b.halts) : Covers(b.halts[i], t)
Publish(b, t) ==
  /\ breaker' = b /\ market' = t
  /\ IF dirty \/ b # breaker \/ Active(b, t) # Active(breaker, market)
       THEN (Save(b, t) /\ UNCHANGED breaks) \/ SaveFails(b)
       ELSE UNCHANGED <<dirty, halting, halted, breaks>>
  /\ told' = {h \in told : Day(h.start) = Day(t)} \cup {b.halts[i] : i \in 1..Len(b.halts)}

Max(a, b) == IF a < b THEN b ELSE a
Up == halting # "stopped"

(* A batch with one print of the index, perhaps behind the market's time ... *)
IndexPrint == \E t \in (market - MaxLate)..(market + 1), fall \in Falls, known \in BOOLEAN :
  /\ Up /\ t \in 0..(MaxMarket - 1)
  /\ LET b == Checked(Advanced(breaker, t, known), fall, t) IN
     Publish(Advanced(b, Max(market, t), known), Max(market, t))
  /\ UNCHANGED lost
(* ... or with a halt the scenario authored, inside the regular session. *)
AuthoredHalt == \E length \in 1..HaltTicks, known \in BOOLEAN :
  /\ Up /\ InHours(market) /\ market + length <= Close(market)
  /\ \A h \in told : h.level = 0 => ~Covers(h, market)
  /\ Publish(WithHalt(Advanced(breaker, market, known), Halt(0, market, market + length)), market)
  /\ UNCHANGED lost

(* The process ends; what a failed write left unsaved is lost with it. *)
Stop == /\ Up /\ breaks < MaxBreaks /\ breaks' = breaks + 1
        /\ halting' = "stopped" /\ lost' = (lost \/ dirty)
        /\ breaker' = Fresh(0) /\ dirty' = FALSE /\ market' = 0
        /\ UNCHANGED <<halted, told>>

(* load_circuit_breaker: the file is taken whole if it is consistent, else not at all. *)
PriceHalts(b) == {i \in 1..Len(b.halts) : b.halts[i].level > 0}
Consistent(b, time) ==
  /\ b.day = Day(time) /\ \A i \in 1..Len(b.halts) : b.halts[i].start <= time
  /\ \A i \in PriceHalts(b) \ {1} :
       b.halts[i - 1].start <= b.halts[i].start /\ Day(b.halts[i - 1].start) = Day(b.halts[i].start)
  /\ \A i, j \in PriceHalts(b) : i < j => b.halts[i].level < b.halts[j].level
  /\ IF b.halts # <<>> /\ Day(b.halts[Len(b.halts)].start) = b.day
       THEN /\ \A i \in PriceHalts(b) : b.halts[i].level <= b.level
            /\ b.level = 0 \/ \E i \in PriceHalts(b) : b.halts[i].level = b.level
       ELSE b.level = 0
Loaded == halted # <<>> /\ Consistent(halted[1].breaker, halted[1].time)
Load == /\ ~Up
        /\ IF Loaded THEN breaker' = halted[1].breaker /\ market' = halted[1].time /\ halting' = ""
           ELSE breaker' = Fresh(0) /\ market' = 0 /\ halting' = IF halted = <<>> THEN "" ELSE "cannot read"
        /\ UNCHANGED <<dirty, halted, told, lost, breaks>>

Init == /\ market = 0 /\ breaker = Fresh(0) /\ dirty = FALSE /\ halting = "" /\ halted = <<>>
        /\ told = {} /\ lost = FALSE /\ breaks = 0
Next == IndexPrint \/ AuthoredHalt \/ Stop \/ Load

(* While nothing failed to be written, a restart during a halt keeps it, and no
   level trips twice in a day: every halt the accounts were held to that still
   covers the market's time is in force. *)
HaltsSurviveRestart == (Up /\ ~lost) =>
  /\ \A h \in told : Covers(h, market) => \E i \in 1..Len(breaker.halts) : breaker.halts[i] = h
  /\ \A g, h \in told : (g # h /\ g.level = h.level /\ Day(g.start) = Day(h.start)) => g.level = 0
=============================================================================
