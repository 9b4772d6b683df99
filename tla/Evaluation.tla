----------------------------- MODULE Evaluation -----------------------------
(***************************************************************************)
(* The plan rules of one account (trading/evaluation.cpp) with the         *)
(* transactions of trading/session.cpp that move money or the day under    *)
(* them: a trade, a mark, the date change, the rollover with its account   *)
(* size review, a payout, a practice transfer and a reset.                 *)
(*                                                                         *)
(* Money is in whole cents.  The account holds at most one position, at    *)
(* open profit `open'.  Every action is a whole transaction: the handler,  *)
(* then the observation of marked equity, then the liquidation of a        *)
(* decided attempt or a locked day (monitor_rules).                        *)
(***************************************************************************)
EXTENDS Integers, Sequences, FiniteSets, FiniteSetsExt

CONSTANTS
    Plans,      \* the plans an account may be created with
    Start,      \* the starting balance
    Moves,      \* what one mark may change of the open profit
    Costs,      \* what a liquidation at the far side, or a night's financing, may cost
    MaxOpen,    \* bound: the open profit stays in -MaxOpen .. MaxOpen
    MaxCash,    \* bound: no trade once the balance is this far from Start
    MaxFills,   \* bound: no opening once the day has this many fills
    MaxDate,    \* bound: no date change from this date on
    MaxNet,     \* bound: net transfers of an attempt
    MaxPayouts, \* bound: payouts of one attempt
    MaxAttempts \* bound: attempts

None == 0          \* an amount or a count of a plan that is off
Whole(m) == IF m > 0 THEN m ELSE 0
Percent(m, p) == (m * p) \div 100

\* trading::AccountRules, with the amounts it had before any account size review.
AccountRules ==
    [target : Nat, dd : Nat, mode : {"intraday", "eod", "static"}, basis : {"equity", "balance"},
     lockStart : BOOLEAN, lockAt : Nat, daily : Nat, dailyBasis : {"equity", "balance", "higher", "peak"},
     dailyFails : BOOLEAN, profitBasis : {"equity", "balance"}, minDays : Nat, consistency : Nat,
     timeLimit : Nat, noOvernight : BOOLEAN, holdRule : BOOLEAN, lossCap : Nat,
     lossAction : {"none", "fail", "flatten"}, funded : BOOLEAN, qualifyDays : Nat, qualifyProfit : Nat,
     withdraw : Nat, cap : Nat, buffer : Nat, after : {"keep", "start", "reset"}, resetPercent : Nat,
     sizing : Nat, increase : Nat, maxSize : Nat, reviewProfit : Nat, reviewPayouts : Nat,
     original : Nat \ {0}, originalDd : Nat, originalDaily : Nat, originalLock : Nat]

\* What validate_rules asks of a plan; an account starts with its plan's original amounts.
Valid(r) ==
    /\ r \in AccountRules
    /\ r.originalDd = r.dd /\ r.originalDaily = r.daily /\ r.originalLock = r.lockAt
    /\ r.after # "keep" => r.funded /\ r.dd > 0
    /\ r.after = "start" => r.mode # "static"
    /\ r.mode = "static" => ~r.lockStart /\ r.lockAt = 0
    /\ r.lockStart => r.lockAt = 0
    /\ r.sizing # None => r.funded
    /\ r.funded => r.target = 0 /\ r.qualifyDays > 0

VARIABLES
    rules,    \* the plan in force: account size reviews scale its amounts
    balance,  \* the closed balance: cash plus what the position cost
    realised, \* net realised profit of the attempt's ledger
    held,     \* whether a position is held
    open,     \* its open profit at the last mark
    marked,   \* whether it is fully marked (its quote is fresh)
    today,    \* the trading date of the session clock
    e,        \* trading::Evaluation
    dayPnl    \* history: what trading alone made since the day opened

vars == <<rules, balance, realised, held, open, marked, today, e, dayPnl>>

Equity == balance + open

(***************************************************************************)
(* The floor.                                                              *)
(***************************************************************************)
LockLevel(r, start) == IF r.lockStart THEN start ELSE r.lockAt

\* peak - max drawdown up to the lock level, which is kept once it is reached.
FloorOf(r, peak, locked, start) ==
    LET lock == LockLevel(r, start) IN
    CASE r.dd = None -> [floor |-> 0, locked |-> locked]
      [] r.dd # None /\ r.mode = "static" -> [floor |-> start - r.dd, locked |-> TRUE]
      [] r.dd # None /\ r.mode # "static" /\ lock > 0 /\ (locked \/ peak - r.dd >= lock) ->
           [floor |-> lock, locked |-> TRUE]
      [] OTHER -> [floor |-> peak - r.dd, locked |-> locked]

\* The peak moves to `high'; an account under size reviews never lowers its floor.
WithPeak(ev, r, high) ==
    LET f == FloorOf(r, high, ev.locked, ev.start) IN
    [ev EXCEPT !.peak = high, !.locked = f.locked,
               !.floor = IF r.sizing # None THEN Max({ev.floor, f.floor}) ELSE f.floor]

Ratchet(ev, r, measured) ==
    IF r.mode # "eod" /\ measured > ev.peak THEN WithPeak(ev, r, measured) ELSE ev

\* evaluation_rollover: an end-of-day peak moves only here.
DayClose(ev, r) == IF r.basis = "balance" THEN ev.dayCloseBalance ELSE ev.dayClose

\* Mutation: the rollover ratchets from the day's high.
RolledOnHigh(ev, r) ==
    IF ev.status = "active" /\ r.mode = "eod" /\ ev.dayHigh > ev.peak
    THEN WithPeak(ev, r, ev.dayHigh) ELSE ev

Rolled(ev, r) ==
    IF ev.status = "active" /\ r.mode = "eod" /\ DayClose(ev, r) > ev.peak
    THEN WithPeak(ev, r, DayClose(ev, r)) ELSE ev

\* The floor the desk shows for tomorrow if the day closed at `equity'.
TomorrowFloor(ev, r, equity) ==
    IF ev.status # "active" \/ r.mode # "eod" \/ equity <= ev.peak THEN ev.floor
    ELSE WithPeak(ev, r, equity).floor

(***************************************************************************)
(* What the rules read, and their verdict.  `in' is trading::PlanInputs    *)
(* with the date.                                                          *)
(***************************************************************************)
Inputs(bal, opn, flat, real, date) ==
    [equity |-> bal + opn, balance |-> bal, open |-> opn, flat |-> flat, realised |-> real, date |-> date]

Paid(ev) == MapThenSumSet(LAMBDA i : ev.payouts[i], DOMAIN ev.payouts)

AttemptProfit(ev, r, in) ==
    (IF r.profitBasis = "balance" THEN in.balance ELSE in.equity) + Paid(ev) - ev.start

DayOpenBalance(ev, in) == in.balance - (in.realised - ev.dayOpenRealised)

DailyReference(ev, r, in) ==
    CASE r.dailyBasis = "equity"  -> ev.dayOpen
      [] r.dailyBasis = "balance" -> DayOpenBalance(ev, in)
      [] r.dailyBasis = "higher"  -> Max({ev.dayOpen, DayOpenBalance(ev, in)})
      [] r.dailyBasis = "peak"    -> Max({ev.dayOpen, ev.dayHigh})

TodayProfit(ev, r, in) ==
    IF r.profitBasis = "balance" THEN in.realised - ev.dayOpenRealised ELSE in.equity - ev.dayOpen

DayStats(ev, r, in) ==
    Append(ev.days, [profit |-> TodayProfit(ev, r, in), executions |-> ev.dayExecutions])

ObjectivesMet(ev, r, in) ==
    LET profit == AttemptProfit(ev, r, in)
        days   == DayStats(ev, r, in)
        traded == {i \in DOMAIN days : days[i].executions > 0}
    IN  /\ profit >= r.target
        /\ r.profitBasis = "balance" => in.flat
        /\ Cardinality(traded) >= r.minDays
        /\ r.consistency # None =>
             \A i \in DOMAIN days : days[i].profit > 0 => days[i].profit * 100 <= r.consistency * profit

IsEvaluation(r) == r.target > 0 \/ r.dd > 0 \/ r.daily > 0 \/ r.timeLimit > 0 \/ r.noOvernight
                   \/ r.holdRule \/ r.lossCap > 0

Go == [status |-> "active", lock |-> FALSE, code |-> "none"]
Fail(code) == [status |-> "failed", lock |-> FALSE, code |-> code]

Measured(r, in) == IF r.basis = "balance" THEN in.balance ELSE in.equity

\* evaluate_with, after its ratchet: the floor, the daily loss limit, then the target.
Verdict(ev, r, in) ==
    CASE ~IsEvaluation(r) -> Go
      [] IsEvaluation(r) /\ r.dd > 0 /\ Measured(r, in) <= ev.floor -> Fail("floor")
      [] IsEvaluation(r) /\ ~(r.dd > 0 /\ Measured(r, in) <= ev.floor) /\ ev.lock = "none" /\ r.daily > 0
         /\ in.equity <= DailyReference(ev, r, in) - r.daily ->
           IF r.dailyFails THEN Fail("daily") ELSE [Go EXCEPT !.lock = TRUE, !.code = "daily"]
      [] OTHER -> IF r.target > 0 /\ ObjectivesMet(ev, r, in)
                  THEN [Go EXCEPT !.status = "passed", !.code = "target"] ELSE Go

\* decide: the attempt ends with what it was decided on.
Decide(ev, verdict, in) ==
    [ev EXCEPT !.status = verdict.status, !.code = verdict.code, !.decidedEquity = in.equity]

\* evaluate_time_rules: the last day of the window has passed.
TimeIsUp(ev, r, date) == ev.status = "active" /\ r.timeLimit > 0 /\ date > ev.started + r.timeLimit

(***************************************************************************)
(* observe_equity: runs after every transaction, on fully marked equity.   *)
(***************************************************************************)
Closing(ev, r, in) ==
    IF in.date # ev.day THEN ev
    ELSE [ev EXCEPT !.dayClose = in.equity, !.dayHigh = Max({ev.dayHigh, in.equity}),
                    !.dayCloseBalance = in.balance]

\* A decided attempt stays decided, and a crossed holding boundary is decided at the rollover.
\* Mutation: the verdict goes on after a boundary was crossed.
HeldBackDecided(ev) == ev.status # "active"
HeldBack(ev) == ev.status # "active" \/ ev.crossed

Observe(ev0, r, in) ==
    LET ev == Closing(ev0, r, in)
        up == Ratchet(ev, r, Measured(r, in))
        v  == Verdict(up, r, in)
    IN  IF HeldBack(ev) THEN ev
        ELSE IF v.status # "active" THEN Decide(up, v, in)
        ELSE IF v.lock THEN [up EXCEPT !.lock = v.code]
        ELSE IF r.lossCap > 0 /\ ~in.flat /\ -in.open >= r.lossCap /\ r.lossAction = "fail"
             THEN Decide(up, Fail("open_loss"), in)
        ELSE up

\* monitor_rules closes what a decided attempt, a locked day or the open-loss cap must not hold.
MustClose(ev, r, in) ==
    \/ IsEvaluation(r) /\ ev.status # "active"
    \/ ev.lock # "none"
    \/ /\ ev.status = "active" /\ ~ev.crossed
       /\ r.lossCap > 0 /\ -in.open >= r.lossCap /\ r.lossAction = "flatten"

\* A transaction's end.  `in' is the account the handler leaves and `pnl' the day's trading
\* profit; a position that must close is sold when its quote is fresh, at some cost.
Settle(ev, r, in, isMarked, pnl) ==
    LET seen == IF isMarked THEN Observe(ev, r, in) ELSE ev IN
    /\ e' = seen /\ rules' = r /\ today' = in.date /\ marked' = isMarked
    /\ IF ~in.flat /\ isMarked /\ MustClose(seen, r, in)
       THEN \E c \in Costs :
              /\ held' = FALSE /\ open' = 0 /\ dayPnl' = pnl - c
              /\ balance' = in.equity - c
              /\ realised' = in.realised + in.open - c
       ELSE /\ held' = ~in.flat /\ open' = in.open /\ dayPnl' = pnl
            /\ balance' = in.balance /\ realised' = in.realised

Now == Inputs(balance, open, ~held, realised, today)

(***************************************************************************)
(* Trading.                                                                *)
(***************************************************************************)
\* An opening fill of an active, unlocked account.
Open ==
    /\ ~held /\ e.status = "active" /\ e.lock = "none" /\ e.dayExecutions < MaxFills
    /\ balance \in Start - MaxCash .. Start + MaxCash
    /\ Settle([e EXCEPT !.dayExecutions = @ + 1], rules, [Now EXCEPT !.flat = FALSE], TRUE, dayPnl)

\* A quote marks the position.
Mark(d) ==
    /\ held /\ open + d \in -MaxOpen .. MaxOpen
    /\ Settle(e, rules, [Now EXCEPT !.open = open + d, !.equity = balance + open + d], TRUE, dayPnl + d)

\* The quote goes stale: nothing is observed until it is fresh again.
GoStale == held /\ marked /\ Settle(e, rules, Now, FALSE, dayPnl)

\* The trader closes at the mark.
Close ==
    /\ held /\ marked
    /\ Settle([e EXCEPT !.dayExecutions = @ + 1], rules,
              Inputs(balance + open, 0, TRUE, realised + open, today), TRUE, dayPnl)

\* A holding boundary passes with the position held (record_holding_boundaries).
CrossBoundary ==
    /\ rules.holdRule /\ held /\ ~e.crossed /\ e.status = "active"
    /\ Settle([e EXCEPT !.crossed = TRUE], rules, Now, marked, dayPnl)

(***************************************************************************)
(* The date and the rollover.                                              *)
(***************************************************************************)
\* advance across a trading date: overnight holds and crossed boundaries decide, then the time rules.
PastDate(ev, r, in, changed) ==
    CASE ev.status # "active" -> ev
      [] ev.status = "active" /\ changed /\ r.noOvernight /\ ~in.flat -> Decide(ev, Fail("overnight"), in)
      [] ev.status = "active" /\ ~(changed /\ r.noOvernight /\ ~in.flat) /\ ev.crossed ->
           Decide(ev, Fail("boundary"), in)
      [] OTHER -> IF changed /\ TimeIsUp(ev, r, in.date) THEN Decide(ev, Fail("time"), in) ELSE ev

\* The clock crosses one date, or more after a gap.
NextDate(gap) ==
    /\ today < MaxDate /\ today = e.day
    /\ LET in == [Now EXCEPT !.date = today + gap] IN
       Settle(PastDate(e, rules, in, TRUE), rules, in, marked, dayPnl)

\* One period's review is due every r.sizing finished days; the profit is what the period made,
\* its payouts added back (size_scaling_profit).
ReviewDue(ev, r) == r.sizing # None /\ Len(ev.days) % r.sizing = 0

PeriodProfit(ev, bal) ==
    bal - ev.period.balance + MapThenSumSet(LAMBDA i : ev.payouts[i], ev.period.payouts + 1 .. Len(ev.payouts))

\* size_scaling_increase, granted to an active account that made its profit and took its payouts.
Increase(ev, r, bal) ==
    LET step == Min({Percent(r.original, r.increase), r.maxSize - ev.start}) IN
    IF /\ ReviewDue(ev, r) /\ ev.status = "active" /\ step > 0
       /\ PeriodProfit(ev, bal) * 100 >= ev.period.size * r.reviewProfit
       /\ Len(ev.payouts) - ev.period.payouts >= r.reviewPayouts
    THEN step ELSE 0

\* review_size_scaling: the credit moves every baseline and scales the plan's limits.
Credited(ev, r, step) ==
    [ev EXCEPT !.start = @ + step, !.peak = @ + step, !.floor = IF r.dd > 0 THEN @ + step ELSE @]

Scaled(r, size, step) ==
    [r EXCEPT !.lockAt = IF @ > 0 THEN @ + step ELSE @,
              !.dd = (r.originalDd * size) \div r.original,
              !.daily = (r.originalDaily * size) \div r.original]

Reviewed(ev, r, bal) ==
    LET step  == Increase(ev, r, bal)
        grown == IF step > 0 THEN Credited(ev, r, step) ELSE ev
    IN  [ev |-> IF ~ReviewDue(ev, r) THEN ev
                ELSE [grown EXCEPT !.period = [balance |-> bal + step, size |-> grown.start,
                                               payouts |-> Len(ev.payouts)]],
         rules |-> IF step > 0 THEN Scaled(r, ev.start + step, step) ELSE r,
         capital |-> step]

\* roll_day: closes the finished day on its last full marks and opens the next.
RollDay ==
    /\ today > e.day /\ marked
    /\ \E c \in IF held THEN Costs ELSE {0} :
       LET e1   == PastDate(e, rules, Now, FALSE)
           e2   == Rolled(e1, rules)
           real == realised - e2.dayOpenRealised
           good == rules.funded /\ e2.status = "active" /\ real >= rules.qualifyProfit /\ real > 0
           e3   == [e2 EXCEPT !.qualifying = IF good THEN @ + 1 ELSE @,
                              !.days = Append(@, [profit |-> IF rules.profitBasis = "balance" THEN real
                                                             ELSE e2.dayClose - e2.dayOpen,
                                                  executions |-> e2.dayExecutions])]
           rev  == Reviewed(e3, rules, balance)
           eq   == Equity + rev.capital
           e4   == [rev.ev EXCEPT !.lock = "none", !.dayExecutions = 0, !.day = today, !.dayOpen = eq,
                                  !.dayHigh = eq, !.dayClose = eq, !.dayCloseBalance = balance,
                                  !.dayOpenRealised = realised]
       IN  Settle(e4, rev.rules, Inputs(balance + rev.capital - c, open, ~held, realised - c, today), TRUE, -c)

(***************************************************************************)
(* Money in and out.                                                       *)
(***************************************************************************)
ResetBalance(ev, r) == Percent(ev.start, r.resetPercent)

\* payout_quote: the most the next payout may take.
MaxPayout(ev, r, equity) ==
    LET withdrawable == Percent(Whole(equity - ev.start), r.withdraw) IN
    Min({withdrawable}
        \cup (IF r.cap # None THEN {r.cap} ELSE {})
        \cup (IF r.dd > 0 /\ ev.locked THEN {Whole(equity - ev.floor - 1)} ELSE {})
        \cup (IF r.after = "start" THEN {Whole(equity - Max({ev.floor, ev.start}) - 1)} ELSE {})
        \cup (IF r.after = "reset" THEN {Whole(equity - ResetBalance(ev, r))} ELSE {})
        \cup (IF r.buffer # None THEN {Whole(equity - ev.start - r.buffer)} ELSE {}))

Withdrawable(ev, r, in) ==
    /\ r.funded /\ ev.status = "active" /\ in.flat
    /\ ev.qualifying >= r.qualifyDays
    /\ MaxPayout(ev, r, in.equity) > 0

\* The day in progress takes the withdrawal: its open, close and high move with the money.
Moved(ev, out) ==
    [ev EXCEPT !.dayOpen = @ - out, !.dayClose = @ - out, !.dayCloseBalance = @ - out, !.dayHigh = @ - out]

\* The evaluation once `out' has left the account with a payout of `amount'.
AfterPayout(ev, r, amount, out) ==
    LET moved == [Moved(ev, out) EXCEPT !.payouts = Append(@, amount), !.qualifying = 0]
        base  == FloorOf(r, ResetBalance(ev, r), FALSE, ev.start)
        down  == FloorOf(r, ev.peak - out, FALSE, ev.start)
        kept  == CASE r.after = "reset" -> [moved EXCEPT !.peak = ResetBalance(ev, r), !.floor = base.floor,
                                                         !.locked = base.locked]
                   [] r.after # "reset" /\ ~ev.locked ->
                        [moved EXCEPT !.peak = @ - out, !.locked = down.locked,
                                      !.floor = IF r.sizing # None THEN Max({@ - out, down.floor}) ELSE down.floor]
                   [] OTHER -> moved
    IN  IF r.after = "start" THEN [kept EXCEPT !.floor = Max({@, ev.start}), !.locked = TRUE] ELSE kept

\* A funded account's payout: under "reset" the rest above the reset balance leaves with it.
Payout(amount) ==
    /\ Len(e.payouts) < MaxPayouts
    /\ marked /\ Withdrawable(e, rules, Now)
    /\ amount \in 1 .. MaxPayout(e, rules, Equity)
    /\ LET out == IF rules.after = "reset" THEN Equity - ResetBalance(e, rules) ELSE amount IN
       Settle(AfterPayout(e, rules, amount, out), rules,
              Inputs(balance - out, open, TRUE, realised, today), TRUE, dayPnl)

\* transfer_cash: only a practice account, which no rule decides.
Practice(r) == ~IsEvaluation(r) /\ ~r.funded /\ r.minDays = 0 /\ r.consistency = None

\* Mutation: a transfer leaves the day's opening equity where it was.
TransferredTotal(ev, amount) ==
    [ev EXCEPT !.start = @ + amount, !.dayClose = @ + amount, !.peak = @ + amount, !.dayHigh = @ + amount]

Transferred(ev, amount) ==
    [ev EXCEPT !.start = @ + amount, !.dayOpen = @ + amount, !.dayClose = @ + amount,
               !.peak = @ + amount, !.dayHigh = @ + amount]

Transfer(amount) ==
    /\ Practice(rules) /\ e.start + amount \in Start - MaxNet .. Start + MaxNet
    /\ amount < 0 => marked /\ Equity + amount > 0 /\ -amount <= balance
    /\ Settle(Transferred(e, amount), rules,
              [Now EXCEPT !.balance = @ + amount, !.equity = @ + amount], marked, dayPnl)

(***************************************************************************)
(* An attempt's start.                                                     *)
(***************************************************************************)
Fresh(r, date, attempt) ==
    LET f == FloorOf(r, Start, FALSE, Start) IN
    [attempt |-> attempt, status |-> "active", code |-> "none", decidedEquity |-> 0,
     started |-> date, start |-> Start, peak |-> Start, floor |-> f.floor, locked |-> f.locked,
     day |-> date, dayOpen |-> Start, dayClose |-> Start, dayCloseBalance |-> Start, dayHigh |-> Start,
     dayOpenRealised |-> 0, dayExecutions |-> 0, lock |-> "none", crossed |-> FALSE,
     days |-> <<>>, payouts |-> <<>>, qualifying |-> 0, 
     period |-> [balance |-> Start, size |-> Start, payouts |-> 0]]

\* original_program_rules: a reset gives a scaled plan its own amounts back.
Original(r) == [r EXCEPT !.dd = r.originalDd, !.daily = r.originalDaily, !.lockAt = r.originalLock]

Reset ==
    /\ e.attempt < MaxAttempts
    /\ Settle(Fresh(Original(rules), today, e.attempt + 1), Original(rules),
              Inputs(Start, 0, TRUE, 0, today), TRUE, 0)

Init ==
    /\ rules \in Plans
    /\ balance = Start /\ realised = 0 /\ held = FALSE /\ open = 0 /\ marked = TRUE
    /\ today = 1 /\ e = Fresh(rules, 1, 1) /\ dayPnl = 0

Next ==
    \/ Open \/ GoStale \/ Close \/ CrossBoundary \/ RollDay \/ Reset
    \/ \E gap \in 1 .. 2 : NextDate(gap)
    \/ \E d \in Moves : Mark(d)
    \/ \E a \in 1 .. MaxCash : Payout(a)
    \/ \E a \in {-1, 1} : Transfer(a)

Spec == Init /\ [][Next]_vars

-----------------------------------------------------------------------------
(***************************************************************************)
(* Properties                                                              *)
(***************************************************************************)

\* Capital is not profit: whatever payouts, transfers, account size credits and resets have moved,
\* equity less the day's opening equity is what trading made since the day opened (the base of
\* every daily loss limit).
CapitalIsNotProfit == Equity - e.dayOpen = dayPnl

\* A position held across a restricted boundary fails at the rollover, and nothing the account
\* does until then turns the pending failure into a pass (observe_equity).
CrossedNeverPasses == e.crossed => e.status # "passed"

\* When the plan's floor follows equity and the day closes at the shown equity.  Where it
\* follows the balance the program shows a floor computed from equity all the same.
ShownFloor ==
    /\ rules.basis = "equity" /\ marked /\ e.dayClose = Equity
    /\ e'.attempt = e.attempt /\ e'.day # e.day /\ e'.start = e.start /\ e'.status = "active"
\* The floor (evaluation_floor, evaluation_rollover, request_payout) never falls within an attempt,
\* except with a payout that takes an unlocked floor along or restarts it; and on a plan whose floor
\* follows equity the floor shown for tomorrow (evaluation_tomorrow_floor) is the one the rollover
\* leaves, unless it resizes the account.
FloorStands ==
    /\ [][ (e'.attempt = e.attempt /\ e'.floor < e.floor) =>
             Len(e'.payouts) > Len(e.payouts) /\ (~e.locked \/ rules.after = "reset") ]_vars
    /\ [][ ShownFloor => e'.floor = TomorrowFloor(e, rules, Equity) ]_vars

\* "`starting_balance` raises the floor to the starting balance after the payout and locks it there".
StartingBalanceLocks == rules.after = "start" /\ e.payouts # <<>> => e.floor >= e.start
=============================================================================
