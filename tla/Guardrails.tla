----------------------------- MODULE Guardrails -----------------------------
(***************************************************************************)
(* The kill latch of a trading session and the personal guardrails that    *)
(* share it (src/src/trading/session.cpp, src/src/trading/guardrails.cpp). *)
(*                                                                         *)
(* One latch has three owners: the trader, who trips and resets it; the    *)
(* daily loss; and the guardrails (soft floor, trade limit, profit lock,   *)
(* cooldown), each of which lets go at a time of its own: rollover, an     *)
(* account reset, the end of the cooldown.  Whoever holds it, it cancels   *)
(* the orders that can open, except the one that reached the trade limit.  *)
(*                                                                         *)
(* As in Orders, `state' is the session's State as far as the latch is     *)
(* concerned, an operator takes a state to the next one, and an action is  *)
(* one whole transaction: advance, the command, the loss monitor, the      *)
(* rules monitor.                                                          *)
(*                                                                         *)
(* Abstractions.  The account is a practice account with one position:     *)
(* flat or held, closed whole, worth `equity' at the marks.  Its orders    *)
(* are good till cancelled and only open; a close is a step of a           *)
(* transaction, which the market says was a winner or a loser.  An order   *)
(* fills in part or whole.                                                 *)
(***************************************************************************)
EXTENDS Integers, SequencesExt

CONSTANTS
  Ids,            \* identities of working orders
  Settings,       \* guardrail settings the account may have or ask for
  Traders,        \* traders and markets explored: commands, reasons for a kill, batches
  StartEquity,    \* equity of a new attempt
  MaxLoss,        \* the daily loss that latches (limits.max_daily_loss)
  DayLength,      \* time units of a trading date
  MaxTime,        \* bound: last market time
  MaxCommands     \* bound: transactions of a behaviour

ASSUME GuardrailsAssumption ==
  /\ StartEquity \in Int /\ MaxLoss \in Nat
  /\ DayLength \in Nat \ {0} /\ MaxTime \in Nat /\ MaxCommands \in Nat
  /\ Settings \subseteq [floor : Int, trades : Nat, profit : Nat, minutes : Nat, streak : Nat]
  /\ "NONE" \notin UNION {trader.reasons : trader \in Traders}

VARIABLES
  trader,    \* the trader, and the batches its market brings
  state,     \* the session's State, as far as the latch is concerned
  commands   \* transactions so far

vars == <<trader, state, commands>>

NoId == "NoId"
ASSUME IdsAssumption == NoId \notin Ids

Daily == {"TRADE_LIMIT", "PROFIT_LOCK"}
Personal == Daily \cup {"SOFT_FLOOR", "COOLDOWN"}

Least(a, b) == IF a < b THEN a ELSE b
Most(a, b) == IF a < b THEN b ELSE a
Date(time) == time \div DayLength

-----------------------------------------------------------------------------
(* The latch *)

GuardrailReason(s) ==
  IF s.latched # <<>> THEN Head(s.latched)
  ELSE IF s.time < s.cooldown THEN "COOLDOWN" ELSE "NONE"

\* Keeps one change of the latch in its history.
RecordKill(s, action, reason, previous) ==
  [s EXCEPT !.kept = Append(@, [action |-> action, reason |-> reason, previous |-> previous])]

\* Mutation: the order that reached the limit finishes whatever else latched.
FinishesAnyway(s, id) == id = s.finishing /\ s.owns

\* Only the order that reached the trade limit may finish, and no other latch yields.
CompletingTrade(s, id) ==
  /\ id = s.finishing /\ s.owns /\ s.kill = "TRADE_LIMIT"
  /\ s.latched = <<"TRADE_LIMIT">> /\ s.time >= s.cooldown

CancelOpenings(s) == [s EXCEPT !.working = {id \in s.working : CompletingTrade(s, id)}]

\* Sets the latch, or replaces a guardrail's reason; then the openings go.
Trip(s, why) ==
  CancelOpenings(IF s.kill = "NONE" \/ (s.owns /\ s.kill # why)
                 THEN RecordKill([s EXCEPT !.kill = why, !.owns = why \in Personal], "trip", why, s.kill)
                 ELSE s)

LossExceeded(s) == s.start - s.equity > MaxLoss
MonitorLoss(s) == IF LossExceeded(s) THEN Trip(s, "DAILY_LOSS") ELSE s

AddLatched(s, why) ==
  IF why = "COOLDOWN" \/ why \in Range(s.latched) THEN s
  ELSE [s EXCEPT !.latched = Append(@, why)]

TripReason(s) == Trip(s, GuardrailReason(s))
LatchGuardrail(s, why) == TripReason(AddLatched(s, why))

Release(s) ==
  RecordKill([s EXCEPT !.kill = "NONE", !.owns = FALSE], "release", "NONE", s.kill)

\* Mutation: a cooldown that ended leaves the latch it set.
RefreshActive(s) == IF GuardrailReason(s) # "NONE" THEN TripReason(s) ELSE s

RefreshLatch(s) ==
  IF GuardrailReason(s) # "NONE" THEN TripReason(s)
  ELSE IF s.kill # "NONE" /\ s.owns THEN Release(s)
  ELSE s

BeginCooldown(s) ==
  IF s.guards.minutes = 0 THEN s
  ELSE LatchGuardrail([s EXCEPT !.cooldown = Most(@, s.time + s.guards.minutes)], "COOLDOWN")

-----------------------------------------------------------------------------
(* Fills, and the rules that watch them *)

LimitReached(s) == s.guards.trades > 0 /\ s.openings >= s.guards.trades

LatchLimit(s) == IF LimitReached(s) THEN LatchGuardrail(s, "TRADE_LIMIT") ELSE s
LatchFloor(s) ==
  IF s.guards.floor > 0 /\ s.equity <= s.guards.floor THEN LatchGuardrail(s, "SOFT_FLOOR") ELSE s
LatchProfit(s) ==
  IF s.guards.profit > 0 /\ s.equity - s.start >= s.guards.profit
  THEN LatchGuardrail(s, "PROFIT_LOCK") ELSE s

\* Rules act on marked equity: `marks' are fresh, stale (as last seen) or missing.
ObserveEquity(s) == IF s.marks # "none" THEN LatchLimit(LatchProfit(LatchFloor(s))) ELSE s

\* A winning close ends the streak; the streak's last loss starts the cooldown.
CountClose(s, won) ==
  IF s.guards.streak = 0 THEN s
  ELSE IF won THEN [s EXCEPT !.losing = 0]
  ELSE IF s.losing + 1 < s.guards.streak THEN [s EXCEPT !.losing = @ + 1]
  ELSE BeginCooldown([s EXCEPT !.losing = 0])

\* An order counts once, on its first opening fill.
CountOpening(s, id, whole) ==
  [s EXCEPT !.openings = IF id \in s.counted THEN @ ELSE @ + 1,
            !.counted = IF whole THEN @ \ {id} ELSE @ \cup {id}]

\* The order whose first fill reached the limit, while it is not filled yet.
TakeLimit(s, id, first, whole) ==
  [s EXCEPT !.finishing =
      IF whole /\ @ = id THEN NoId
      ELSE IF first /\ ~whole /\ s.guards.trades > 0 /\ s.openings = s.guards.trades THEN id
      ELSE @]

OpenPosition(s, id, whole) ==
  [s EXCEPT !.held = TRUE, !.working = IF whole THEN @ \ {id} ELSE @]

OpeningFill(s, id, whole) ==
  ObserveEquity(LatchLimit(TakeLimit(CountOpening(OpenPosition(s, id, whole), id, whole),
                                     id, id \notin s.counted, whole)))

\* A stop's fill starts the cooldown even at a profit.
CloseFill(s, stopped, won) ==
  LET closed == LatchLimit([s EXCEPT !.held = FALSE])
  IN  ObserveEquity(CountClose(IF stopped THEN BeginCooldown(closed) ELSE closed, won))

\* The account-level checks an opening order meets on entry and on every fill;
\* its risk is known only while everything held is marked.
OpeningAllowed(s, id) ==
  /\ s.marks = "fresh"
  /\ s.kill = "NONE" \/ CompletingTrade(s, id)

\* `fill' names an order and whether it fills whole; <<>> is no fill.
Match(s, fill) ==
  IF fill = <<>> THEN s
  ELSE IF fill[1] \notin s.working \/ s.marks # "fresh" THEN s
  ELSE IF OpeningAllowed(s, fill[1]) /\ ~LossExceeded(s) THEN OpeningFill(s, fill[1], fill[2])
  ELSE [s EXCEPT !.working = @ \ {fill[1]}]

\* Under a soft floor the account closes what it holds, when the market is there
\* to take it: `exit' is what the market then makes of the close.
Liquidate(s, exit) ==
  IF "SOFT_FLOOR" \in Range(s.latched) /\ s.held /\ s.marks = "fresh" /\ exit # "none"
  THEN CloseFill(s, FALSE, exit = "won") ELSE s

MonitorRules(s, exit) == Liquidate(ObserveEquity(s), exit)

-----------------------------------------------------------------------------
(* The commands *)

Earlier(a, b) == IF a = 0 THEN b ELSE IF b = 0 THEN a ELSE Least(a, b)

Tightened(current, asked) ==
  [floor |-> Most(current.floor, asked.floor), trades |-> Earlier(current.trades, asked.trades),
   profit |-> Earlier(current.profit, asked.profit), minutes |-> Most(current.minutes, asked.minutes),
   streak |-> Earlier(current.streak, asked.streak)]

\* What tightens applies now, the request waits for rollover unless it is that;
\* a longer cooldown extends the one in progress.
SetGuardrails(s, asked) ==
  LET next == Tightened(s.guards, asked)
      longer == next.minutes - s.guards.minutes
  IN  [s EXCEPT !.guards = next,
                !.pending = IF next = asked THEN <<>> ELSE <<asked>>,
                !.cooldown = IF @ > s.time /\ longer > 0 THEN @ + longer ELSE @]

ApplyPending(s) ==
  IF s.pending = <<>> THEN s ELSE [s EXCEPT !.guards = s.pending[1], !.pending = <<>>]

\* A trader's trip replaces whatever holds the latch, and takes it over.
TripKill(s, why) ==
  LET replaces == s.kill # "NONE" /\ ~s.owns /\ s.kill # why
      tripped == Trip(s, why)
      told == IF replaces THEN RecordKill(tripped, "trip", why, s.kill) ELSE tripped
  IN  [told EXCEPT !.kill = why, !.owns = FALSE]

ClearKill(s) ==
  IF s.kill = "NONE" THEN s
  ELSE RecordKill([s EXCEPT !.kill = "NONE"], "reset", "NONE", s.kill)

ResetKill(s) == IF GuardrailReason(s) # "NONE" THEN s ELSE MonitorLoss(ClearKill(s))

\* Mutation: rollover forgets the cooldown with the day's other guardrails.
NewDayAfresh(s) ==
  [s EXCEPT !.latched = <<>>, !.openings = 0, !.losing = 0,
            !.finishing = NoId, !.cooldown = 0]

\* The day's guardrail state ends; a cooldown runs to its own end.
NewDay(s) ==
  [s EXCEPT !.latched = <<>>, !.openings = 0, !.losing = 0,
            !.finishing = NoId, !.cooldown = IF @ > s.time THEN @ ELSE 0]

\* `closed' is the state the finished day last published.
RollDay(s, closed) ==
  IF Date(s.time) <= s.day THEN s
  ELSE LET monitored == MonitorLoss(s)
       IN  IF closed.marks # "fresh" THEN monitored
           ELSE [RefreshLatch(NewDay(ApplyPending(monitored)))
                   EXCEPT !.start = closed.equity, !.day = Date(s.time)]

\* What latched is a list without duplicates.
Without(latched, why) ==
  IF why \in Range(latched) THEN RemoveAt(latched, CHOOSE i \in DOMAIN latched : latched[i] = why) ELSE latched

\* The new ledger clears only the equity-based latch: daily discipline survives.
NewAttempt(s) ==
  [s EXCEPT !.working = {}, !.counted = {}, !.held = FALSE, !.marks = "fresh",
            !.equity = StartEquity, !.start = StartEquity, !.attempt = @ + 1,
            !.latched = Without(@, "SOFT_FLOOR"),
            !.day = Date(s.time)]

UnlatchAccount(s) ==
  IF s.owns /\ GuardrailReason(s) # "NONE" THEN s ELSE [ClearKill(s) EXCEPT !.owns = FALSE]

ResetAccount(s) ==
  RefreshLatch([ApplyPending(UnlatchAccount(NewAttempt(s))) EXCEPT !.finishing = NoId])

\* A batch: its marks, the loss, the rules, then the orders that fill and a stop.
OnQuotes(s, b) ==
  LET marked == [s EXCEPT !.equity = IF s.held THEN b.equity ELSE @,
                          !.marks = IF s.held THEN b.marks ELSE "fresh"]
      matched == Match(Match(MonitorRules(MonitorLoss(marked), b.exit), b.fills[1]), b.fills[2])
  IN  IF b.stop # "none" /\ matched.held /\ matched.marks = "fresh"
      THEN CloseFill(matched, TRUE, b.stop = "won") ELSE matched

Submit(s, id, fill) ==
  LET checked == MonitorLoss(s)
  IN  IF OpeningAllowed(checked, id) /\ ~LossExceeded(checked)
      THEN Match([checked EXCEPT !.working = @ \cup {id}], fill) ELSE checked

Close(s, won) == IF s.held /\ s.marks = "fresh" THEN CloseFill(s, FALSE, won) ELSE s
CancelOrder(s, id) == [s EXCEPT !.working = @ \ {id}, !.counted = @ \ {id}]

-----------------------------------------------------------------------------
(* Transactions *)

\* advance: the clock, then the guardrails it ends.
Advance(s, time) == RefreshLatch([s EXCEPT !.time = time, !.kept = <<>>])

\* transact after the command acted.  An order that is no longer open has no fills left.
Finish(s, exit) ==
  LET done == MonitorRules(MonitorLoss(s), exit)
  IN  [done EXCEPT !.counted = @ \cap done.working]

Init ==
  /\ trader \in Traders
  /\ commands = 0
  /\ \E guards \in Settings :
       state = [time |-> 0, day |-> 0, attempt |-> 1, guards |-> guards, pending |-> <<>>,
                latched |-> <<>>, cooldown |-> 0, openings |-> 0,
                losing |-> 0, finishing |-> NoId, kill |-> "NONE", owns |-> FALSE, kept |-> <<>>,
                working |-> {}, counted |-> {}, held |-> FALSE, marks |-> "fresh",
                equity |-> StartEquity, start |-> StartEquity]

Times == state.time..Least(MaxTime, state.time + 1)

\* The desk rolls a session over before anything else reaches it on a new date,
\* unless its marks are not complete.
OwnTimes == {time \in Times : Date(time) > state.day => state.marks # "fresh"}
Begun == {Advance(state, time) : time \in OwnTimes}
Exits == {"none", "lost"}

Transact(name, outcomes) ==
  /\ name \in trader.commands
  /\ commands < MaxCommands /\ commands' = commands + 1
  /\ \E acted \in outcomes, exit \in IF state.held THEN Exits ELSE {"none"} : state' = Finish(acted, exit)
  /\ UNCHANGED trader

NewIds == Ids \ (state.working \cup {state.finishing})

SubmitOrder ==
  \E id \in NewIds : \E fill \in {<<>>} \cup {<<id, whole>> : whole \in BOOLEAN} :
    Transact("submit", {Submit(s, id, fill) : s \in Begun})
ClosePosition == \E won \in BOOLEAN : Transact("close", {Close(s, won) : s \in Begun})
Cancel == \E id \in state.working : Transact("cancel", {CancelOrder(s, id) : s \in Begun})
ChangeGuardrails == \E asked \in Settings : Transact("set", {SetGuardrails(s, asked) : s \in Begun})
Kill == \E why \in trader.reasons : Transact("kill", {TripKill(s, why) : s \in Begun})
Reset == Transact("reset", {ResetKill(s) : s \in Begun})
Roll == Transact("roll", {RollDay(Advance(state, time), state) : time \in Times})
NewAccount == Transact("account", {ResetAccount(s) : s \in Begun})
Quotes == \E b \in trader.market : Transact("quotes", {OnQuotes(s, b) : s \in Begun})

Next ==
  \/ SubmitOrder \/ ClosePosition \/ Cancel \/ ChangeGuardrails
  \/ Kill \/ Reset \/ Roll \/ NewAccount \/ Quotes
Spec == Init /\ [][Next]_vars

-----------------------------------------------------------------------------
(* Properties *)

Latched == Range(state.latched)

\* The latch agrees with the guardrails after every transaction: while one is
\* active the account is latched, and a latch a guardrail owns names the guardrail
\* that is first in force, so none outlives the rule that set it.
LatchMatchesGuardrail ==
  /\ GuardrailReason(state) # "NONE" => state.kill # "NONE"
  /\ state.owns => state.kill = GuardrailReason(state) /\ state.kill \in Personal

\* No opening order works under the latch but the one that reached the trade
\* limit, and that one only while nothing else has latched.
OpeningsStop ==
  state.kill # "NONE"
  => \A id \in state.working :
       id = state.finishing /\ state.kill = "TRADE_LIMIT" /\ state.latched = <<"TRADE_LIMIT">>

\* Within a trading day nothing gives the day's discipline back: a reset keeps the
\* daily latches and the count, and a cooldown never ends early, rollover or not.
DisciplineHolds ==
  [][/\ state'.day = state.day
        => Latched \cap Daily \subseteq Range(state'.latched) /\ state'.openings >= state.openings
     /\ state.cooldown > state'.time => state'.cooldown >= state.cooldown]_vars

=============================================================================
