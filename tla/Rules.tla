-------------------------------- MODULE Rules --------------------------------
(***************************************************************************)
(* What an account's days are made of beside its orders: the plan that     *)
(* evaluates it, and what ends a trading day for it.  This module names    *)
(* their state, their specifications and what each promises, for any       *)
(* plans, markets and sizes, so that they can be checked together with the *)
(* other rules of an account and proved apart from them.                   *)
(***************************************************************************)
EXTENDS Integers, FiniteSets

CONSTANTS
  Plans, StartBalance, Moves, Costs,                            \* Evaluation
  MaxOpen, MaxCash, MaxFills, MaxDate, MaxNet, MaxPayouts, MaxAttempts,
  Contracts, Terms, Markets, DayPrices, ExDates,                \* Settlement
  MaxEvents, MaxTrades, MaxRestarts

VARIABLES
  rules, balance, realised, held, open, marked, today, e, dayPnl,
  venue, now, desk, account, log, dealt, restarts

planVars == <<rules, balance, realised, held, open, marked, today, e, dayPnl>>
dayVars == <<venue, now, desk, account, log, dealt, restarts>>

V == INSTANCE Evaluation WITH Start <- StartBalance
T == INSTANCE Settlement WITH Prices <- DayPrices, market <- venue, trades <- dealt

ASSUME EvaluationAssumption ==
  /\ StartBalance \in Nat \ {0} /\ Moves \subseteq Int /\ Costs \subseteq Nat
  /\ \A r \in Plans : V!Valid(r)

ASSUME SettlementAssumption ==
  /\ IsFiniteSet(Contracts) /\ ExDates \subseteq Nat \ {0}
  /\ \A c \in Contracts : Terms[c].date \in Nat /\ (Terms[c].am => ~Terms[c].delivers)
  /\ IsFiniteSet(Markets) /\ DayPrices \subseteq Nat \ {0}
  /\ \A m \in Markets : m.listed \subseteq Contracts /\ m.last \in Nat

PlanSpec == V!Spec
DaySpec == T!Spec

(* Capital is never taken for profit; see Evaluation. *)
CapitalIsNotProfit == V!CapitalIsNotProfit
(* A boundary crossed with a position is never passed over; see Evaluation. *)
CrossedNeverPasses == V!CrossedNeverPasses
(* The floor falls with a payout only, and tomorrow's is the one shown; see Evaluation. *)
FloorStands == V!FloorStands
(* Positions settle on the close the documents name; see Settlement. *)
SettlesAsPromised == T!SettlesAsPromised
(* A PM position settles in its expiry's day or earlier; see Settlement. *)
SettledInTime == T!SettledInTime
(* A day ends settled, and its dividends are paid; see Settlement. *)
DaysEndSettled == T!DaysEndSettled
=============================================================================
