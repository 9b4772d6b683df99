--------------------------- MODULE EvaluationPlans ---------------------------
(***************************************************************************)
(* The plans the runs of Evaluation explore, each with other rules on, a   *)
(* dollar standing for a cent.                                             *)
(***************************************************************************)
EXTENDS Integers

PlanStart == 8

\* No rule at all: a practice account.
NoRules == [target |-> 0, dd |-> 0, mode |-> "intraday", basis |-> "equity", lockStart |-> FALSE, lockAt |-> 0,
        daily |-> 0, dailyBasis |-> "equity", dailyFails |-> FALSE, profitBasis |-> "equity", minDays |-> 0,
        consistency |-> 0, timeLimit |-> 0, noOvernight |-> FALSE, holdRule |-> FALSE, lossCap |-> 0,
        lossAction |-> "none", funded |-> FALSE, qualifyDays |-> 0, qualifyProfit |-> 0, withdraw |-> 0,
        cap |-> 0, buffer |-> 0, after |-> "keep", resetPercent |-> 100, sizing |-> 0, increase |-> 0,
        maxSize |-> 0, reviewProfit |-> 0, reviewPayouts |-> 0, original |-> PlanStart,
        originalDd |-> 0, originalDaily |-> 0, originalLock |-> 0]

\* A plan as created: its original amounts are the ones it starts with.
Plan(r) == [r EXCEPT !.originalDd = r.dd, !.originalDaily = r.daily, !.originalLock = r.lockAt]

FundedOff == [NoRules EXCEPT !.funded = TRUE, !.qualifyDays = 1, !.withdraw = 100, !.dd = 2]

Trailing == [NoRules EXCEPT !.dd = 2, !.target = 3]
MCPlans == { Plan(r) : r \in {
    NoRules,
    [Trailing EXCEPT !.lockStart = TRUE, !.holdRule = TRUE],
    [Trailing EXCEPT !.mode = "eod", !.lockAt = 9, !.minDays = 2],
    [Trailing EXCEPT !.mode = "eod", !.profitBasis = "balance", !.timeLimit = 1],
    [Trailing EXCEPT !.mode = "static", !.consistency = 60, !.noOvernight = TRUE],
    [Trailing EXCEPT !.basis = "balance", !.lossCap = 2, !.lossAction = "fail"],
    [Trailing EXCEPT !.basis = "balance", !.lossCap = 2, !.lossAction = "flatten", !.mode = "eod"],
    [Trailing EXCEPT !.daily = 1, !.dailyBasis = "higher", !.dailyFails = TRUE],
    [FundedOff EXCEPT !.daily = 1, !.dailyBasis = "peak"],
    [FundedOff EXCEPT !.daily = 2, !.dailyBasis = "balance", !.mode = "eod", !.lockStart = TRUE, !.after = "start"],
    [FundedOff EXCEPT !.after = "reset", !.buffer = 1, !.resetPercent = 90],
    [FundedOff EXCEPT !.cap = 1, !.sizing = 1, !.increase = 50, !.maxSize = 16, !.reviewProfit = 10,
                      !.daily = 1, !.mode = "eod"] } }

MCMoves == {-1, 2}
MCCosts == {0, 1}

\* A funded plan whose floor trails and locks nowhere until a payout locks it.
MCStartPlans == { Plan([FundedOff EXCEPT !.dd = 4, !.after = "start"]) }
=============================================================================
