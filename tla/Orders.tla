------------------------------- MODULE Orders -------------------------------
(***************************************************************************)
(* The order reducer of a trading session (src/src/trading/session.cpp):   *)
(* one account, one option contract, and every way an order begins, rests, *)
(* fills, protects, replaces or cancels another.                           *)
(*                                                                         *)
(* The program runs a command as a function of its whole state: transact   *)
(* copies the state, advances the copy, applies the command, places what   *)
(* filled orders were chained to, checks the loss, and only then publishes *)
(* the copy.  The module is written the same way: `book' is that record,   *)
(* each operator below takes a state to the next one, and each action is   *)
(* one whole transaction.                                                  *)
(*                                                                         *)
(* Abstractions.  The contract quotes one price for both sides, never      *)
(* stale, with a displayed size on each side that fills use up; a fill     *)
(* trades at that price without fees, so the account's equity is cash plus *)
(* position at the price.  The exposure, buying-power and price-band       *)
(* checks always pass, the daily-loss check does not.  Multi-leg orders,   *)
(* queue and latency models, sessions and expiry are left out.  A command  *)
(* comes later than the last quote, so an order it places can rest but     *)
(* meets that quote only while it is the incoming one.                     *)
(***************************************************************************)
EXTENDS Integers, SequencesExt, TLC

CONSTANTS
  OrderRequests,  \* every request, those a request pairs or chains included
  Accounts,    \* the accounts explored: each one's rules, trader and market
  StartPrice,  \* the price when an account starts
  MaxOrders    \* bound: no command adds an order past this many

(***************************************************************************)
(* An account's configuration: the requests its trader may submit, the     *)
(* changes it may ask, the commands it may give besides submit, the quotes *)
(* its market may bring, the plan's rule that entries need a stop, the     *)
(* daily loss that latches the kill switch, and bounds on the transactions.*)
(***************************************************************************)

VARIABLES
  config,    \* the account's configuration, which no order changes
  book,     \* the session's State, as far as orders reach it
  orderCommands,  \* commands run so far
  batches    \* quote batches applied so far

orderVars == <<config, book, orderCommands, batches>>

None == <<>>
NoOrder == 0
\* Bound: the orders a transaction may leave; each one that a command adds may
\* bring a pair, a chained order and two exits for each of them.
IdBound == MaxOrders + 8
Lesser(a, b) == IF a < b THEN a ELSE b
Greater(a, b) == IF a < b THEN b ELSE a
Abs(n) == IF n < 0 THEN -n ELSE n
\* What the steps 1 to m make of x, each from what the one before it left.
Folded(Step(_, _), x, m) ==
  LET after[n \in 0..m] == IF n = 0 THEN x ELSE Step(after[n - 1], n) IN after[m]

Opposite(side) == IF side = "Buy" THEN "Sell" ELSE "Buy"

-----------------------------------------------------------------------------
(* Orders *)

Statuses == {"Working", "PartiallyFilled", "Filled", "Cancelled", "Rejected", "Armed"}
Roles == {"Normal", "StopLoss", "TakeProfit"}

(* A request names a trigger, exits, a paired or a chained request, or a price to
   walk to, as an optional: a sequence of at most one. *)
Sides == {"Buy", "Sell"}
Optional(S) == {x \in Seq(S) : Len(x) <= 1}
Triggers == Optional([below : BOOLEAN, level : Int])
ExitSpecs == Optional([limit : Nat, trigger : Triggers])
Brackets == Optional([stop : ExitSpecs, target : ExitSpecs])
Nexts == Optional(OrderRequests)
Walks == {None} \cup {r.walk : r \in OrderRequests}
RequestRecords ==
  [side : Sides, qty : Nat, limit : Nat, ioc : BOOLEAN, trigger : Triggers, bracket : Brackets,
   exitsOnly : BOOLEAN, oco : Nexts, then : Nexts, walk : Walks]

\* What the program accepts: a limit that walks waits for no trigger; exits for
\* contracts held are at least one, and a limit among them rests; what a request
\* pairs or chains is no held exit, and a held exit pairs and chains nothing.
WalkAllowed(r) == r.walk # None => r.walk[1] \in Nat /\ r.trigger = None /\ ~r.exitsOnly
HeldExitsAllowed(r) ==
  r.exitsOnly => /\ r.bracket # None /\ (r.bracket[1].stop # None \/ r.bracket[1].target # None)
                 /\ r.ioc => r.limit = 0
ChainAllowed(r) ==
  /\ r.exitsOnly => r.then = None /\ r.oco = None
  /\ r.oco # None => ~r.oco[1].exitsOnly
  /\ r.then # None => ~r.then[1].exitsOnly
ValidRequest(r) ==
  /\ r \in RequestRecords /\ r.qty > 0
  /\ WalkAllowed(r) /\ HeldExitsAllowed(r) /\ ChainAllowed(r)

Changes == [field : {"qty", "limit", "level"}, value : Nat]

\* The accounts' traders submit and change what the program accepts.
OrdersConstants ==
  /\ MaxOrders \in Nat /\ StartPrice \in Int
  /\ \A r \in OrderRequests : ValidRequest(r)
  /\ \A a \in Accounts : /\ a.requests \subseteq OrderRequests /\ a.changes \subseteq Changes
                         /\ \A b \in a.market : b.price \in Int /\ b.size \in Nat
ASSUME OrdersAssumption == OrdersConstants

\* A plain order; a limit of 0 is a market order.
Request(side, qty, limit, ioc) ==
  [side |-> side, qty |-> qty, limit |-> limit, ioc |-> ioc, trigger |-> None,
   bracket |-> None, exitsOnly |-> FALSE, oco |-> None, then |-> None, walk |-> None]

IsOpen(o) == o.status \in {"Working", "PartiallyFilled", "Armed"}
Remaining(o) == o.req.qty - o.filled
KeptWithin(o) == o.role # "Normal" \/ o.reduceOnly
OpenIds(s) == {id \in DOMAIN s.orders : IsOpen(s.orders[id])}

\* What the position lets an order on this side close.
ExitCapacity(s, side) == IF side = "Sell" THEN Greater(s.held, 0) ELSE Greater(-s.held, 0)

Total(s, ids) == MapThenSumSet(LAMBDA id : Remaining(s.orders[id]), ids)

\* The capacity that other user orders leave on the closing side, `working'
\* being the orders that count.
ClosingCapacity(s, working, side, skip) ==
  LET reserving == {id \in working \ {skip} : ~KeptWithin(s.orders[id]) /\ s.orders[id].req.side = side}
  IN  Greater(0, ExitCapacity(s, side) - Total(s, reserving))

ClosingOnly(s, working, id, o) ==
  /\ Remaining(o) > 0
  /\ Remaining(o) <= ExitCapacity(s, o.req.side)
  /\ Remaining(o) <= ClosingCapacity(s, working, o.req.side, id)

NewOrder(r) ==
  [req |-> r, filled |-> 0, status |-> "Working", reason |-> "NONE",
   role |-> "Normal", parent |-> NoOrder, oco |-> NoOrder, stop |-> NoOrder, target |-> NoOrder,
   reduceOnly |-> FALSE, chained |-> NoOrder, from |-> NoOrder]

AddOrder(s, o) == [s EXCEPT !.orders = Append(s.orders, o)]
WithOrder(s, id, o) == [s EXCEPT !.orders = [s.orders EXCEPT ![id] = o]]
WithOrders(s, New(_)) == [s EXCEPT !.orders = <<>> \o [id \in DOMAIN s.orders |-> New(id)]]
WithStatus(o, status) == [o EXCEPT !.status = status]
WithQty(o, qty) == [o EXCEPT !.req = [o.req EXCEPT !.qty = qty]]

Ended(o, why) == IF IsOpen(o) THEN [o EXCEPT !.status = "Cancelled", !.reason = why] ELSE o
EndOrder(s, id, why) == WithOrder(s, id, Ended(s.orders[id], why))
EndOrders(s, ids, why) ==
  WithOrders(s, LAMBDA id : IF id \in ids THEN Ended(s.orders[id], why) ELSE s.orders[id])

-----------------------------------------------------------------------------
(* The kill latch and the checks *)

LossReached(s) == -(s.cash + s.held * s.price) > config.maxLoss

\* Orders that open go first; then closes that together exceed the position,
\* newest first.
Untenable(s) ==
  LET Fits(working, id) == KeptWithin(s.orders[id]) \/ ClosingOnly(s, working, id, s.orders[id])
      closing == {id \in OpenIds(s) : Fits({}, id)}
      left[n \in 0..Len(s.orders)] == \* once the orders after n were visited
        IF n = Len(s.orders) THEN closing
        ELSE {id \in left[n + 1] : id = n + 1 => Fits(left[n + 1], id)}
  IN  OpenIds(s) \ left[0]

TripLatch(s, why) ==
  LET latched == IF s.kill = "NONE" THEN [s EXCEPT !.kill = why] ELSE s
  IN  EndOrders(latched, Untenable(s), "KILL_SWITCH")

CheckLoss(s) == IF LossReached(s) THEN TripLatch(s, "DAILY_LOSS") ELSE s

ProtectiveStop(r) ==
  r.bracket # None /\ r.bracket[1].stop # None /\ r.bracket[1].stop[1].trigger # None

\* A new, changed, reached or filling order that is not kept within its position.
OrderCheck(s, id, o, stage) ==
  IF ClosingOnly(s, OpenIds(s), id, o) THEN "OK"
  ELSE IF s.kill # "NONE" THEN "KILL_SWITCH"
  ELSE IF o.req.exitsOnly THEN "INVALID_ORDER"
  ELSE IF stage = "Accept" /\ config.requireStopLoss /\ ~ProtectiveStop(o.req) THEN "STOP_REQUIRED"
  ELSE IF LossReached(s) THEN "DAILY_LOSS" ELSE "OK"

-----------------------------------------------------------------------------
(* A fill, and what follows it: the other order of a pair, the exits *)

Shrunk(o, capacity) == IF Remaining(o) <= capacity THEN o ELSE WithQty(o, o.filled + capacity)

SyncExits(s) ==
  LET Capacity(o) == ExitCapacity(s, o.req.side)
      Synced(o) == IF ~IsOpen(o) \/ ~KeptWithin(o) THEN o
                   ELSE IF Capacity(o) = 0 THEN Ended(o, "POSITION_CLOSED")
                   ELSE Shrunk(o, Capacity(o))
  IN  WithOrders(s, LAMBDA id : Synced(s.orders[id]))

Resting(trigger) == IF trigger # None THEN "Armed" ELSE "Working"

Exit(entry, id, spec, role) ==
  LET r == [Request(Opposite(entry.req.side), entry.filled, spec.limit, spec.limit = 0)
              EXCEPT !.trigger = spec.trigger]
  IN  [NewOrder(r) EXCEPT !.role = role, !.parent = id, !.status = Resting(spec.trigger)]

\* Mutation: later entry fills do not grow the exits.
GrowNever(o, qty) == o

Grown(o, qty) == IF IsOpen(o) /\ o.filled = 0 /\ o.req.qty < qty THEN WithQty(o, qty) ELSE o

\* Creates an exit of a bracket on the first fill and grows it on later ones.
ExitSide(s, id, role) ==
  LET entry == s.orders[id]
      stop == role = "StopLoss"
      spec == IF stop THEN entry.req.bracket[1].stop ELSE entry.req.bracket[1].target
      known == IF stop THEN entry.stop ELSE entry.target
      next == Len(s.orders) + 1
      named == IF stop THEN [entry EXCEPT !.stop = next] ELSE [entry EXCEPT !.target = next]
  IN  IF spec = None THEN s
      ELSE IF known # NoOrder THEN WithOrder(s, known, Grown(s.orders[known], entry.filled))
      ELSE AddOrder(WithOrder(s, id, named), Exit(entry, id, spec[1], role))

WithOco(s, id, other) == WithOrder(s, id, [s.orders[id] EXCEPT !.oco = other])
Link(s, a, b) == WithOco(WithOco(s, a, b), b, a)

\* New exits on both sides cancel each other.
PairExits(s, id, before) ==
  LET o == s.orders[id]
  IN  IF Len(s.orders) > before /\ o.stop # NoOrder /\ o.target # NoOrder THEN Link(s, o.stop, o.target) ELSE s

AttachExits(s, id) ==
  IF s.orders[id].req.bracket = None \/ s.orders[id].req.exitsOnly THEN s
  ELSE PairExits(ExitSide(ExitSide(s, id, "StopLoss"), id, "TakeProfit"), id, Len(s.orders))

\* Mutation: an entry of a pair cancels the other only once it filled completely.
AfterEitherFills(s, id, units) ==
  LET o == s.orders[id]
  IN  IF o.oco # NoOrder /\ o.status = "Filled" THEN EndOrder(s, o.oco, "OCO_FILLED") ELSE s

\* The first fill of a pair cancels the other; an exit's complete fill does
\* too, unless the other still protects more, which a partial fill leaves it.
AfterPairFill(s, id, units) ==
  LET o == s.orders[id]
      other == s.orders[o.oco]
  IN  IF o.oco = NoOrder THEN s
      ELSE IF ~IsOpen(other) THEN s
      ELSE IF \/ o.role = "Normal"
              \/ o.status = "Filled" /\ units >= Remaining(other)
           THEN EndOrder(s, o.oco, "OCO_FILLED")
           ELSE WithOrder(s, o.oco, Shrunk(other, Greater(Remaining(o), Remaining(other) - units)))

\* An exit's fill ends what is left of its entry.
EndEntry(s, id) ==
  LET o == s.orders[id]
  IN  IF o.role # "Normal" /\ o.parent # NoOrder THEN EndOrder(s, o.parent, "OCO_FILLED") ELSE s

OnFill(s, id, units) == SyncExits(AttachExits(EndEntry(AfterPairFill(s, id, units), id), id))

-----------------------------------------------------------------------------
(* Matching *)

Marketable(s, o) ==
  \/ o.req.limit = 0
  \/ o.req.side = "Buy" /\ s.price <= o.req.limit
  \/ o.req.side = "Sell" /\ s.price >= o.req.limit

\* The displayed size an order on this side can take.
Depth(s, side) == IF side = "Buy" THEN s.ask ELSE s.bid

FillQuantity(s, o) ==
  LET most == Lesser(Remaining(o), Depth(s, o.req.side))
  IN  IF KeptWithin(o) THEN Lesser(most, ExitCapacity(s, o.req.side)) ELSE most

\* The fill itself: position, cash, displayed size and the order's progress.
FillPosition(s, id, qty) ==
  LET o == s.orders[id]
      buys == o.req.side = "Buy"
      signed == IF buys THEN qty ELSE -qty
      filled == [o EXCEPT !.filled = @ + qty,
                          !.status = IF qty = Remaining(o) THEN "Filled" ELSE "PartiallyFilled"]
  IN  [WithOrder(s, id, filled) EXCEPT
         !.held = @ + signed, !.cash = @ - signed * s.price,
         !.ask = IF buys THEN @ - qty ELSE @, !.bid = IF buys THEN @ ELSE @ - qty]

\* The quote is not older than the order.
Quoted(s, id) == s.atQuote \/ id <= s.quoted

MatchOne(s, id, incoming) ==
  LET o == s.orders[id]
      qty == FillQuantity(s, o)
      eligible == /\ IsOpen(o) /\ o.status # "Armed"
                  /\ incoming = id \/ Quoted(s, id)
                  /\ Marketable(s, o)
  IN  IF ~eligible THEN s
      ELSE IF ~KeptWithin(o) /\ OrderCheck(s, id, o, "Fill") # "OK" THEN EndOrder(s, id, "RISK_CHANGED")
      ELSE IF qty = 0 THEN s
      ELSE OnFill(FillPosition(s, id, qty), id, qty)

\* Market orders first, then the better limit, then the older order.
Ahead(s, a, b) ==
  LET x == s.orders[a].req  y == s.orders[b].req
  IN  IF x.limit = y.limit THEN a < b
      ELSE IF x.limit = 0 \/ y.limit = 0 THEN x.limit = 0
      ELSE IF x.side = "Buy" THEN x.limit > y.limit ELSE x.limit < y.limit

\* The resting orders of one side, each in its turn.
MatchSide(s, side, incoming) ==
  LET resting == {id \in OpenIds(s) : s.orders[id].status # "Armed" /\ s.orders[id].req.side = side}
      Turn(n) == CHOOSE id \in resting : Cardinality({other \in resting : Ahead(s, other, id)}) = n - 1
  IN  Folded(LAMBDA t, n : MatchOne(t, Turn(n), incoming), s, Cardinality(resting))

MatchSymbols(s, incoming) ==
  Folded(LAMBDA t, n : MatchSide(t, <<"Buy", "Sell">>[n], incoming), s, 2)

\* An IOC's remainder cancels, except a stop exit's, which arms again.
EndIoc(s, id) ==
  LET o == s.orders[id]
  IN  IF ~IsOpen(o) \/ ~o.req.ioc THEN s
      ELSE IF o.role # "Normal" /\ o.req.trigger # None THEN WithOrder(s, id, WithStatus(o, "Armed"))
      ELSE EndOrder(s, id, "IOC_REMAINDER")

Reached(s, o) ==
  LET t == o.req.trigger[1]
  IN  IF t.below THEN s.price <= t.level ELSE s.price >= t.level

Activate(s, id) ==
  LET o == s.orders[id]
  IN  IF o.role = "Normal" /\ OrderCheck(s, id, o, "Activate") # "OK"
      THEN EndOrder(s, id, "RISK_CHANGED")
      ELSE EndIoc(MatchSymbols(WithOrder(s, id, WithStatus(o, "Working")), id), id)

CheckTrigger(s, id) ==
  IF id \notin DOMAIN s.orders THEN s
  ELSE IF s.orders[id].status = "Armed" /\ Reached(s, s.orders[id]) THEN Activate(s, id) ELSE s

\* Mutation: exits created while orders activate wait for the next batch.
CheckOpenTriggers(s) ==
  Folded(CheckTrigger, s, Len(s.orders))

\* The orders in turn, with any placed while activating them.
CheckTriggers(s) ==
  Folded(CheckTrigger, s, IdBound)

-----------------------------------------------------------------------------
(* Placing *)

\* Exits for contracts already held: the target is the order itself, and a
\* stop beside it is a second order paired with it.
PlaceHeldExits(s, id) ==
  LET o == s.orders[id]
      b == o.req.bracket[1]
      both == b.target # None /\ b.stop # None
      role == IF b.target # None THEN "TakeProfit" ELSE "StopLoss"
      first == [o EXCEPT !.role = role, !.status = Resting(o.req.trigger),
                         !.target = IF b.target # None THEN id ELSE NoOrder,
                         !.stop = IF both THEN id + 1 ELSE IF b.target # None THEN NoOrder ELSE id,
                         !.oco = IF both THEN id + 1 ELSE NoOrder]
      r == [o.req EXCEPT !.bracket = None, !.exitsOnly = FALSE, !.limit = b.stop[1].limit,
                         !.trigger = b.stop[1].trigger, !.ioc = (b.stop[1].limit = 0)]
      stop == [NewOrder(r) EXCEPT !.role = "StopLoss", !.oco = id, !.status = Resting(r.trigger)]
  IN  IF both THEN AddOrder(WithOrder(s, id, first), stop) ELSE WithOrder(s, id, first)

\* A market order, or another IOC, that matching leaves open ends.
EndNewIoc(s, id) ==
  LET o == s.orders[id]
  IN  IF o.req.ioc /\ ~o.req.exitsOnly /\ IsOpen(o) THEN EndOrder(s, id, "IOC_REMAINDER") ELSE s

\* An accepted order matches at once, unless its trigger has to arm it first.
Enter(s, id) ==
  LET r == s.orders[id].req
  IN  IF r.trigger # None /\ ~r.exitsOnly THEN WithOrder(s, id, WithStatus(s.orders[id], "Armed"))
      ELSE EndNewIoc(MatchSymbols(IF r.exitsOnly THEN PlaceHeldExits(s, id) ELSE s, id), id)

RecordRejected(s, r, why) ==
  AddOrder(s, [NewOrder(r) EXCEPT !.status = "Rejected", !.reason = why])

\* The new order's ID is the next one; its status says whether it was accepted.
PlaceOrder(s, r) ==
  LET id == Len(s.orders) + 1
      added == AddOrder(s, NewOrder(r))
      decision == OrderCheck(added, id, added.orders[id], "Accept")
  IN  IF decision = "OK" THEN CheckTriggers(Enter(added, id)) ELSE RecordRejected(s, r, decision)

\* Links a pair; what filled while it was placed cancels the other.
CancelIfFilled(s, filled, open) ==
  IF s.orders[filled].filled > 0 THEN EndOrder(s, open, "OCO_FILLED") ELSE s
LinkPair(s, a, b) == CancelIfFilled(CancelIfFilled(Link(s, a, b), a, b), b, a)

\* A first order that filled at once leaves the second recorded without
\* matching; a second that is refused takes the first with it.
PlaceSecond(s, r, first, trial) ==
  LET a == Len(s.orders) + 1
      b == Len(first.orders) + 1
      recorded == WithStatus(NewOrder(r.oco[1]), Resting(r.oco[1].trigger))
  IN  IF trial.orders[b].status = "Rejected" THEN RecordRejected(s, r, trial.orders[b].reason)
      ELSE LinkPair(IF first.orders[a].filled > 0 THEN AddOrder(first, recorded) ELSE trial, a, b)

\* Both orders of a pair or neither.
PlaceBoth(s, r, first) ==
  IF r.oco = None \/ first.orders[Len(s.orders) + 1].status = "Rejected" THEN first
  ELSE PlaceSecond(s, r, first, PlaceOrder(first, r.oco[1]))

Place(s, r) == PlaceBoth(s, r, PlaceOrder(s, r))

\* A filled order places the order chained to it, and each names the other.
Chain(s, id) ==
  LET next == Len(s.orders) + 1
      placed == Place(s, s.orders[id].req.then[1])
      named == WithOrder(placed, id, [placed.orders[id] EXCEPT !.chained = next])
  IN  WithOrder(named, next, [named.orders[next] EXCEPT !.from = id])

PlaceThen(s, id) ==
  IF id \notin DOMAIN s.orders THEN s
  ELSE LET o == s.orders[id]
       IN  IF o.status = "Filled" /\ o.req.then # None /\ o.chained = NoOrder THEN Chain(s, id) ELSE s

\* Mutation: orders placed by the transaction itself are not visited.
PlaceChainedOfOpen(before, s) ==
  Folded(LAMBDA t, id : IF id \in OpenIds(before) THEN PlaceThen(t, id) ELSE t, s, IdBound)

\* Each order that filled completely places the order chained to it, once: over
\* the orders open when the transaction began and those placed since.
PlaceChained(before, s) ==
  Folded(LAMBDA t, id : IF id \in DOMAIN before.orders \ OpenIds(before) THEN t ELSE PlaceThen(t, id),
         s, IdBound)

-----------------------------------------------------------------------------
(* The commands *)

\* A walking limit steps towards its cap as time passes.
WalkDue(o) == IsOpen(o) /\ o.req.walk # None /\ <<o.req.limit>> # o.req.walk
WalkLimits(s) ==
  LET Walked(o) == IF WalkDue(o) THEN [o EXCEPT !.req = [o.req EXCEPT !.limit = o.req.walk[1]]] ELSE o
  IN  [WithOrders(s, LAMBDA id : Walked(s.orders[id])) EXCEPT !.walked = TRUE]

SubmitRequest(s, r) == Place(CheckLoss(s), r)

\* A plan that requires stops refuses to take one off a position.
RequiredStop(s, o) ==
  /\ config.requireStopLoss /\ IsOpen(o) /\ o.role = "StopLoss"
  /\ ExitCapacity(s, o.req.side) > 0

CancelOne(s, id) ==
  IF RequiredStop(s, s.orders[id]) THEN s ELSE EndOrder(s, id, "USER_CANCEL")

CancelAllOrders(s) ==
  IF \E id \in DOMAIN s.orders : RequiredStop(s, s.orders[id]) THEN s
  ELSE EndOrders(s, OpenIds(s), "USER_CANCEL")

Refused(s, o, c) ==
  \/ ~IsOpen(o)
  \/ ~(o.status = "Armed" \/ (o.req.limit # 0 /\ ~o.req.ioc))
  \/ /\ c.field = "qty"
     /\ \/ o.reduceOnly
        \/ RequiredStop(s, o) /\ c.value < o.req.qty
        \/ KeptWithin(o) /\ c.value > o.filled + ExitCapacity(s, o.req.side)
        \/ c.value <= o.filled
  \/ c.field = "limit" /\ o.req.limit = 0
  \/ c.field = "level" /\ (o.status # "Armed" \/ o.req.trigger = None)

Changed(o, c) ==
  [o EXCEPT !.req =
     CASE c.field = "qty" -> [o.req EXCEPT !.qty = c.value]
       [] c.field = "limit" -> [o.req EXCEPT !.limit = c.value]
       [] OTHER -> [o.req EXCEPT !.trigger = <<[o.req.trigger[1] EXCEPT !.level = c.value]>>]]

ChangeOrder(s, id, c) ==
  LET o == s.orders[id]
      next == WithOrder(s, id, Changed(o, c))
  IN  IF Refused(s, o, c) THEN s
      ELSE IF ~KeptWithin(o) /\ OrderCheck(next, id, Changed(o, c), "Accept") # "OK" THEN s
      ELSE CheckTriggers(IF o.status = "Armed" THEN next ELSE MatchSymbols(next, id))

\* Cancels the trader's own orders, keeps the exits, and closes what is held
\* with an order that shrinks with the position.
CloseHeld(s) ==
  LET own == {id \in OpenIds(s) : s.orders[id].role = "Normal"}
      cleared == EndOrders(s, own, "USER_CANCEL")
      r == Request(IF s.held > 0 THEN "Sell" ELSE "Buy", Abs(s.held), 0, FALSE)
      close == [NewOrder(r) EXCEPT !.reduceOnly = TRUE]
  IN  IF s.held = 0 THEN cleared
      ELSE MatchSymbols(AddOrder(cleared, close), Len(s.orders) + 1)

TripManually(s) == [TripLatch(s, "MANUAL") EXCEPT !.kill = "MANUAL"]
ResetLatch(s) == CheckLoss([s EXCEPT !.kill = "NONE"])

\* A quote batch: its prices first, then the loss, then matching, then triggers.
QuoteBatch(s, b) ==
  LET quoted == [s EXCEPT !.price = b.price, !.bid = b.size, !.ask = b.size, !.atQuote = TRUE]
      checked == [CheckLoss(quoted) EXCEPT !.walked = FALSE]
  IN  CheckTriggers(MatchSymbols(checked, NoOrder))

\* transact after the command acted: place the chained orders, check the loss,
\* match what a walk moved, publish.
MatchWalked(s) == IF s.walked THEN CheckTriggers(MatchSymbols(s, NoOrder)) ELSE s

Published(s) ==
  [s EXCEPT !.walked = FALSE, !.atQuote = FALSE,
            !.quoted = IF s.atQuote THEN Len(s.orders) ELSE @]

TransactOrders(acted) ==
  \E done \in {MatchWalked(CheckLoss(PlaceChained(book, acted)))} :
    Len(done.orders) <= IdBound /\ book' = Published(done)

-----------------------------------------------------------------------------
OrdersInit ==
  /\ config \in Accounts
  /\ book = [orders |-> <<>>, held |-> 0, cash |-> 0, price |-> StartPrice,
              bid |-> 0, ask |-> 0, kill |-> "NONE", walked |-> FALSE,
              atQuote |-> FALSE, quoted |-> 0]
  /\ orderCommands = 0 /\ batches = 0

\* Time passes between transactions: a walk's step may or may not have come due.
Advanced ==
  {book} \cup {WalkLimits(s) : s \in {t \in {book} : \E id \in DOMAIN t.orders : WalkDue(t.orders[id])}}

Command(name, outcomes) ==
  /\ orderCommands < config.maxCommands /\ orderCommands' = orderCommands + 1
  /\ name = "submit" \/ name \in config.commands
  /\ \E s \in outcomes : TransactOrders(s)
  /\ UNCHANGED <<config, batches>>

Room == Len(book.orders) < MaxOrders

Submitting == Room /\ \E r \in config.requests : Command("submit", {SubmitRequest(s, r) : s \in Advanced})
Cancelling == \E id \in DOMAIN book.orders : Command("cancel", {CancelOne(s, id) : s \in Advanced})
CancellingAll == Command("cancel_all", {CancelAllOrders(s) : s \in Advanced})
Modifying == \E id \in DOMAIN book.orders, c \in config.changes :
            Command("modify", {ChangeOrder(CheckLoss(s), id, c) : s \in Advanced})
Closing == Room /\ Command("close", {CloseHeld(CheckLoss(s)) : s \in Advanced})
Killing == Command("kill", {TripManually(s) : s \in Advanced})
Resetting == Command("reset", {ResetLatch(s) : s \in Advanced})
Quoting ==
  /\ batches < config.maxBatches /\ batches' = batches + 1
  /\ \E b \in config.market : \E s \in {QuoteBatch(t, b) : t \in Advanced} : TransactOrders(s)
  /\ UNCHANGED <<config, orderCommands>>

OrdersNext == Submitting \/ Cancelling \/ CancellingAll \/ Modifying \/ Closing \/ Killing \/ Resetting \/ Quoting
OrdersSpec == OrdersInit /\ [][OrdersNext]_orderVars

-----------------------------------------------------------------------------
(* Properties *)

Orders == book.orders
Numbers == DOMAIN book.orders
Held(side) == ExitCapacity(book, side)

\* On a plan that requires stops the open ones together cover what is held.  No fill,
\* cancel, change or close takes a covered position bare, except where the program
\* does: an entry whose stop ended with the position that its earlier fills had opened,
\* closed by hand, may fill again, and attach_exits does not bring the stop back
\* (docs/paper-trading.md says that later fills grow it).
OpenStops(side) ==
  {id \in Numbers : IsOpen(Orders[id]) /\ Orders[id].role = "StopLoss" /\ Orders[id].req.side = side}
Covered == \A side \in Sides : Held(side) <= Total(book, OpenStops(side))
FillsAfterItsStop(id) ==
  LET entry == Orders[id]
  IN  /\ entry.role = "Normal" /\ entry.stop # NoOrder /\ Orders[entry.stop].reason = "POSITION_CLOSED"
      /\ book'.orders[id].filled > entry.filled
StaysProtected ==
  [][config.requireStopLoss /\ Covered /\ (\A id \in Numbers : ~FillsAfterItsStop(id)) => Covered']_orderVars

\* Of two orders that cancel each other at most one ever fills, and one fill
\* leaves the other closed: "cannot both open".
PairFillsOnce ==
  \A id \in Numbers : LET o == Orders[id]
                  IN  o.role = "Normal" /\ o.oco # NoOrder /\ o.filled > 0
                      => Orders[o.oco].filled = 0 /\ ~IsOpen(Orders[o.oco])

\* A chained order is placed exactly when its order filled completely, once,
\* and each names the other.
ChainPlacedOnce ==
  \A id \in Numbers :
    LET o == Orders[id]
    IN  /\ (o.chained # NoOrder) <=> (o.status = "Filled" /\ o.req.then # None)
        /\ o.chained # NoOrder => Orders[o.chained].from = id /\ o.chained > id
        /\ o.from # NoOrder => Orders[o.from].chained = id

\* After every transaction no armed order has been reached and passed over: only
\* a stop exit that found no displayed size left stays armed at its level.
NoTriggerMissed ==
  \A id \in Numbers :
    LET o == Orders[id]
    IN  o.status = "Armed" /\ Reached(book, o)
        => /\ o.role # "Normal" /\ o.req.ioc
           /\ (IF o.req.side = "Sell" THEN book.bid ELSE book.ask) = 0

=============================================================================
