------------------------------ MODULE MCOrders ------------------------------
(* The traders and the markets that the runs of Orders explore. *)
EXTENDS Orders

Trigger(below, level) == <<[below |-> below, level |-> level]>>
StopAt(level) == <<[limit |-> 0, trigger |-> Trigger(TRUE, level)]>>
TargetAt(level) == <<[limit |-> level, trigger |-> None]>>
Bracketed(r) == [r EXCEPT !.bracket = <<[stop |-> StopAt(8), target |-> TargetAt(12)]>>]
Stopped(r) == [r EXCEPT !.bracket = <<[stop |-> StopAt(8), target |-> None]>>]

Buy(qty, limit) == Request("Buy", qty, limit, limit = 0)
Sell(qty, limit) == Request("Sell", qty, limit, limit = 0)

Conditional(r, below, level) == [r EXCEPT !.trigger = Trigger(below, level), !.ioc = TRUE]

\* Entries that a plan requiring stops accepts: one that fills in parts, and a
\* conditional one whose own stop is already reached as it fills; and a sale by hand,
\* which may close what an entry filled before it fills again.
BracketRequests == {Bracketed(Buy(2, 10)), Conditional(Stopped(Buy(1, 0)), TRUE, 8), Sell(1, 0)}
BracketChanges == {[field |-> "qty", value |-> 1], [field |-> "level", value |-> 10]}

\* A breakout entry above the market paired with a dip entry below it, either
\* way round, and pairs whose first order fills at once or is refused.
Breakout == Conditional(Buy(1, 0), FALSE, 12)
Dip == Buy(2, 8)
PairRequests ==
  {[Breakout EXCEPT !.oco = <<Dip>>], [Dip EXCEPT !.oco = <<Breakout>>],
   [Buy(1, 0) EXCEPT !.oco = <<Dip>>], Sell(1, 0)}

\* A staged entry whose target is placed once it has filled, an entry that
\* places a pair, and a chain whose parts may fill at once.
Then(r, next) == [r EXCEPT !.then = <<next>>]
ChainRequests ==
  {Then(Buy(2, 10), Sell(2, 12)),
   Then(Buy(1, 0), [Breakout EXCEPT !.oco = <<Dip>>]),
   Then(Buy(1, 0), Then(Sell(1, 10), Bracketed(Buy(1, 8))))}

\* Traders whose closes compete with each other and with exits under the latch.
HeldExits == [Request("Sell", 2, 12, FALSE) EXCEPT !.exitsOnly = TRUE,
                !.bracket = <<[stop |-> StopAt(8), target |-> TargetAt(12)]>>]
KillRequests == {Bracketed(Buy(2, 10)), Sell(1, 12), Sell(2, 0), HeldExits}

\* A limit that walks up to the market and places an order once it has filled.
WalkRequests == {Then([Buy(1, 8) EXCEPT !.walk = <<10>>], Sell(1, 12))}

\* The accounts: each trader with the market and the bounds its cases need.
Market(sizes) == [price : {8, 10, 12}, size : sizes]
Account(requests, granted, market, loss, most, quotes) ==
  [requests |-> requests, changes |-> {}, commands |-> granted, market |-> market,
   requireStopLoss |-> FALSE, maxLoss |-> loss, maxCommands |-> most, maxBatches |-> quotes]
WithStops(account) == [account EXCEPT !.requireStopLoss = TRUE]

OrderTraders ==
  {WithStops([Account(BracketRequests, {"cancel", "cancel_all", "modify", "close"}, Market({1, 2}), 100, 3, 3)
                EXCEPT !.changes = BracketChanges]),
   Account(PairRequests, {"cancel", "close"}, Market({1}), 100, 3, 3),
   Account(ChainRequests, {"cancel"}, Market({1}), 100, 2, 3),
   Account(KillRequests, {"kill", "reset", "close"}, Market({1, 2}), 2, 3, 2)}

\* Every request of the accounts, with those that requests pair and chain: a chain
\* is at most four orders.
WithNext(requests) ==
  requests \cup {r.oco[1] : r \in {one \in requests : one.oco # None}}
           \cup {r.then[1] : r \in {one \in requests : one.then # None}}
AllRequests(accounts) == WithNext(WithNext(WithNext(UNION {a.requests : a \in accounts})))

Walkers == {Account(WalkRequests, {"cancel"}, Market({1}), 100, 3, 2)}
TraderRequests == AllRequests(OrderTraders)
WalkerRequests == AllRequests(Walkers)
=============================================================================
