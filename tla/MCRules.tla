------------------------------- MODULE MCRules -------------------------------
(* The rules an account trades under: its personal guardrails, the plan that
   evaluates it, what its orders promise each other, and what ends its days.  They share no state
   the modules model; a run chooses one at the start and lets only that one move. *)
EXTENDS Guardrails, Rules, EvaluationPlans, MCOrders

VARIABLE part

(* An ETF option that expires on the first date and a stock's on the third, which
   deliver, and an index option that settles on an opening. *)
MCTerms == [etf |-> [date |-> 0, am |-> FALSE, late |-> TRUE, delivers |-> TRUE, strike |-> 1],
             far |-> [date |-> 2, am |-> FALSE, late |-> FALSE, delivers |-> TRUE, strike |-> 1],
             am |-> [date |-> 1, am |-> TRUE, late |-> FALSE, delivers |-> FALSE, strike |-> 1]]
MCMarkets == {
  [feed |-> "soq", listed |-> {"am"}, sides |-> {1}, kinds |-> {"quotes", "quotation"}, last |-> 1],
  [feed |-> "demo", listed |-> {"am"}, sides |-> {1}, kinds |-> {"quotes", "print"}, last |-> 1],
  [feed |-> "none", listed |-> {"etf"}, sides |-> {-1}, kinds |-> {"quotes", "print", "official"}, last |-> 1],
  [feed |-> "none", listed |-> {"etf", "far"}, sides |-> {1}, kinds |-> {"quotes", "official"}, last |-> 2]}
Guards(floor, trades, profit, minutes, streak) ==
  [floor |-> floor, trades |-> trades, profit |-> profit, minutes |-> minutes, streak |-> streak]
Off == Guards(0, 0, 0, 0, 0)

MCSettings == {Off, Guards(1, 0, 0, 0, 0), Guards(0, 1, 0, 1, 0), Guards(1, 2, 1, 2, 1)}
Batch(equity, marks, exit, stop, fills) ==
  [equity |-> equity, marks |-> marks, exit |-> exit, stop |-> stop, fills |-> fills]
Both(whole) == << <<"a", whole>>, <<"b", whole>> >>
Neither == << <<>>, <<>> >>
First(whole) == << <<"a", whole>>, <<>> >>

MCTraders == {
  \* One that trades against its own limits and asks for others.
  [commands |-> {"submit", "close", "quotes", "set", "account", "roll"}, reasons |-> {},
   market |-> {Batch(3, "fresh", "none", "none", Both(FALSE)), Batch(3, "fresh", "none", "none", Both(TRUE)),
               Batch(4, "fresh", "none", "won", First(TRUE)), Batch(1, "fresh", "lost", "none", Neither),
               Batch(3, "stale", "none", "none", Neither)}],
  \* One that uses the kill switch, under reasons that look like the rules' own.
  [commands |-> {"submit", "cancel", "kill", "reset", "account", "roll", "quotes"},
   reasons |-> {"MANUAL", "TRADE_LIMIT"},
   market |-> {Batch(3, "fresh", "none", "none", First(FALSE)), Batch(4, "fresh", "none", "lost", Neither),
               Batch(1, "fresh", "none", "none", Neither), Batch(3, "none", "none", "none", Neither)}]}

(* What does not move stands in one of its initial states. *)
SomePlan == V!Init /\ rules = NoRules
SomeTrader == CHOOSE one \in MCTraders : TRUE
Stands == Init /\ trader = SomeTrader /\ state.guards = Off
SomeAccount == OrdersInit /\ config = CHOOSE one \in OrderTraders : TRUE
SomeDay == T!Init /\ venue = CHOOSE one \in MCMarkets : TRUE
RulesInit ==
  /\ part \in {"guardrails", "plan", "orders", "days"}
  /\ IF part = "guardrails" THEN Init ELSE Stands
  /\ IF part = "plan" THEN V!Init ELSE SomePlan
  /\ IF part = "orders" THEN OrdersInit ELSE SomeAccount
  /\ IF part = "days" THEN T!Init ELSE SomeDay
RulesNext == \/ part = "guardrails" /\ Next /\ UNCHANGED <<part, planVars, orderVars, dayVars>>
             \/ part = "plan" /\ V!Next /\ UNCHANGED <<part, vars, orderVars, dayVars>>
             \/ part = "orders" /\ OrdersNext /\ UNCHANGED <<part, vars, planVars, dayVars>>
             \/ part = "days" /\ T!Next /\ UNCHANGED <<part, vars, planVars, orderVars>>
RulesSpec == RulesInit /\ [][RulesNext]_<<part, planVars, orderVars, dayVars, vars>>

=============================================================================
