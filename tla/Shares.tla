------------------------------- MODULE Shares -------------------------------
(***************************************************************************)
(* Working share orders (src/src/trading/stock_orders.inc and the commands *)
(* of session.cpp that reach them): one stock of one margin account, its   *)
(* resting limits, stops, pairs and brackets, and every other way its      *)
(* shares come and go.                                                     *)
(*                                                                         *)
(* As in the program a command is a function of the whole state, run at a  *)
(* market time no earlier than the last one's; what it changes is          *)
(* published at once.  Time is counted in ticks, each inside or outside a  *)
(* market session.  Prices that decide nothing here (cash, buying power,   *)
(* valuations, loss and risk limits) appear as what they answer a trade:   *)
(* luck is "ok", "gap" (an opening trade must wait for data), "refused"    *)
(* (an opening trade is refused) or "naked" (so is any that reduces: the   *)
(* shares cover a short call).  A retry of a client ID changes nothing and *)
(* is left out: every request has a new one.                               *)
(***************************************************************************)
EXTENDS Integers, FiniteSets, SequencesExt

CONSTANTS
  Accounts,  \* the accounts explored: each one's plan, trader and market
  Trades,    \* signed sizes traded at once
  Delivered, \* signed sizes options deliver
  Prices,
  Splits,    \* split terms <<numerator, denominator>>
  Regular,   \* ticks of the regular sessions
  Extended,  \* ticks of the extended sessions, the regular ones among them
  MaxAge,    \* ticks a price stays fresh
  MaxTime,   \* bound: ticks
  MaxOrders  \* bound: orders submitted, brackets not counted

\* What a request for shares names, its partner's included.
Sized(r) == r.side \in {"buy", "sell"} /\ r.shares \in Nat \ {0}
Valid(r) == Sized(r) /\ (r.oco # <<>> => Sized(r.oco[1]))

(***************************************************************************)
(* An account: whether its plan requires stops and is buy-only, the        *)
(* requests its trader may submit, the prices its feed may send with them, *)
(* the luck its trades may have, and the commands it may see besides       *)
(* orders and quotes, at most `bound' of them.                             *)
(***************************************************************************)

VARIABLES
  rules, \* the account's plan, which no command here changes
  state, \* the session's State, as far as shares reach it
  moves  \* commands other than orders and quotes so far

vars == <<rules, state, moves>>

None == 0
Least(a, b) == IF a < b THEN a ELSE b
Most(a, b) == IF a < b THEN b ELSE a
\* Each submitted order may bring two exits.
IdBound == 3 * MaxOrders

-----------------------------------------------------------------------------
(* Market time *)

\* The first tick after `at' at which a session of `ticks' has ended.
SessionEnd(ticks, at) ==
  LET ends == {e \in at + 1 .. MaxTime + 1 : e - 1 \in ticks /\ e \notin ticks} \union {MaxTime + 2}
  IN  CHOOSE e \in ends : \A d \in ends : e <= d
DayEnd(r, at) ==
  IF r.gtc THEN MaxTime + 2 ELSE SessionEnd(IF r.extended THEN Extended ELSE Regular, at)

SessionOpen(r, at) == at \in (IF r.extended THEN Extended ELSE Regular)

\* What a price is measured against: now, or the last tick its market was open.
Observed(ticks, at) ==
  IF at \in ticks \/ \A t \in 0..at : t \notin ticks THEN at
  ELSE CHOOSE t \in ticks : t < at /\ \A u \in ticks : u < at => u <= t
Fresh(s, extended) ==
  /\ s.mark.price # None
  /\ s.time >= s.halt /\ s.mark.time >= s.halt
  /\ Observed(IF extended THEN Extended ELSE Regular, s.time) - s.mark.time <= MaxAge

-----------------------------------------------------------------------------
(* Orders *)

Open(o) == o.status \in {"working", "armed"}
Exit(o) == o.role # "normal"
Signed(side, shares) == IF side = "buy" THEN shares ELSE -shares
Opposite(side) == IF side = "buy" THEN "sell" ELSE "buy"

Ended(s, id, status) ==
  IF id # None /\ Open(s.orders[id]) THEN [s EXCEPT !.orders[id].status = status] ELSE s
AllEnded(s, ids) ==
  [s EXCEPT !.orders = [i \in DOMAIN s.orders |->
     IF i \in ids /\ Open(s.orders[i]) THEN [s.orders[i] EXCEPT !.status = "cancelled"] ELSE s.orders[i]]]

(* expire_stock_orders, at the start of every transaction. *)
At(now) ==
  LET s == [state EXCEPT !.time = now]
  IN  AllEnded(s, {i \in DOMAIN s.orders : now >= s.orders[i].dayEnd})

(* What the working sells leave of the longs, exits excluded: below zero, short. *)
PendingShort(s, extra) ==
  LET sells == {i \in DOMAIN s.orders : Open(s.orders[i]) /\ ~Exit(s.orders[i]) /\ s.orders[i].side = "sell"}
      left == s.held - FoldLeft(LAMBDA n, i : IF i \in sells THEN n + s.orders[i].shares ELSE n, 0,
                                [i \in DOMAIN s.orders |-> i])
  IN  Least(Least(0, left), left + extra)

Reduces(s, signed) == IF signed < 0 THEN s.held > 0 /\ -signed <= s.held ELSE s.held < 0 /\ signed <= -s.held

(* stock_acceptance_check: a sell reduces only what the working sells leave. *)
Admitted(s, r) ==
  LET signed == Signed(r.side, r.shares)
      reduces == IF signed > 0 THEN Reduces(s, signed) ELSE s.held > 0 /\ PendingShort(s, signed) >= 0
  IN  /\ s.time >= s.halt
      /\ reduces \/ /\ ~s.locked
                    /\ (r.side = "sell" /\ rules.buyOnly) => PendingShort(s, signed) >= 0
                    /\ rules.requireStop => r.stopLoss # None

Placed(s, r, role) ==
  [s EXCEPT !.orders = Append(@,
     [side |-> r.side, shares |-> r.shares, limit |-> r.limit, stop |-> r.stop, extended |-> r.extended,
      stopLoss |-> r.stopLoss, takeProfit |-> r.takeProfit, role |-> role,
      status |-> IF r.stop # None THEN "armed" ELSE "working",
      accepted |-> s.time, dayEnd |-> DayEnd(r, s.time), oco |-> None])]
Paired(s, a, b) == [s EXCEPT !.orders[a].oco = b, !.orders[b].oco = a]

(* accept_stock_order: with its partner, if that is admitted too. *)
Accept(s, r, partnerFits) ==
  LET first == Placed(s, r, "normal")
      id == Len(first.orders)
  IN  IF r.oco = <<>> THEN first
      ELSE IF Admitted(first, r.oco[1]) /\ partnerFits THEN Paired(Placed(first, r.oco[1], "normal"), id, id + 1)
      ELSE Ended(first, id, "rejected")

(* place_stock_bracket: a stop and a target for the shares the entry traded. *)
\* Mutation: the exits last as long as a day order.
ExitOfTheDay(e) == [side |-> Opposite(e.side), shares |-> e.shares, limit |-> None, stop |-> None, gtc |-> FALSE,
                    extended |-> FALSE, stopLoss |-> None, takeProfit |-> None]
ExitOf(e) == [side |-> Opposite(e.side), shares |-> e.shares, limit |-> None, stop |-> None, gtc |-> TRUE,
              extended |-> FALSE, stopLoss |-> None, takeProfit |-> None]
Bracketed(s, entry) ==
  LET e == s.orders[entry]
      stopped == IF e.stopLoss = None THEN s ELSE Placed(s, [ExitOf(e) EXCEPT !.stop = e.stopLoss], "stop")
      both == IF e.takeProfit = None THEN stopped ELSE Placed(stopped, [ExitOf(e) EXCEPT !.limit = e.takeProfit], "target")
  IN  IF e.stopLoss # None /\ e.takeProfit # None THEN Paired(both, Len(both.orders) - 1, Len(both.orders)) ELSE both

-----------------------------------------------------------------------------
(* Trades *)

(* trade_shares, and which exits outlived the shares they protected. *)
Traded(s, signed) ==
  LET held == s.held + signed
  IN  [s EXCEPT !.held = held,
                !.orphans = IF held = 0 THEN @ \union {i \in DOMAIN s.orders : Open(s.orders[i]) /\ Exit(s.orders[i])} ELSE @]

(* share_entry_checks: what refuses a trade. *)
Enters(s, signed, reduceOnly) ==
  Reduces(s, signed) \/ ~(reduceOnly \/ s.locked \/ (signed < 0 /\ rules.buyOnly))

(* trade_shares_checked, for a trade that enters; a stop goes with a bracketed entry. *)
Verdict(s, signed, stopped, luck) ==
  IF Reduces(s, signed) THEN (IF luck = "naked" THEN "refused" ELSE "ok")
  ELSE IF rules.requireStop /\ ~stopped THEN "refused" ELSE luck

\* Mutation: an exit's fill forgets the other exit.
PartnerOfEntries(o) == IF Exit(o) THEN None ELSE o.oco
\* Whom a fill ends.
Partner(o) == o.oco

(* A marketable order trades, waits for data or ends. *)
Executed(s, id, shares, luck) ==
  LET o == s.orders[id]
      signed == Signed(o.side, shares)
      filling == [s EXCEPT !.orders[id].status = "filled"]
      verdict == IF Enters(s, signed, Exit(o)) THEN Verdict(s, signed, o.stopLoss # None, luck) ELSE "refused"
      filled == Ended([Traded(filling, signed) EXCEPT !.orders[id].shares = shares], Partner(o), "cancelled")
  IN  IF verdict = "gap" THEN s
      ELSE IF verdict # "ok" THEN [Ended(s, id, "rejected") EXCEPT !.exposed = @ \/ o.role = "stop"]
      ELSE IF Exit(o) THEN filled ELSE Bracketed(filled, id)

Reached(o, price) == IF o.side = "buy" THEN price >= o.stop ELSE price <= o.stop
Marketable(o, price) ==
  o.limit = None \/ IF o.side = "buy" THEN price <= o.limit ELSE price >= o.limit
\* What an exit may still close.
Available(s, o) == Most(0, IF o.side = "buy" THEN -s.held ELSE s.held)

(* One order of the pass of work_stock_orders. *)
Visited(s, id, accepting, luck) ==
  LET o == s.orders[id]
      t == [s EXCEPT !.orders[id].status = "working"]
  IN  IF ~Open(o) \/ ~Fresh(s, o.extended) \/ (s.mark.time < o.accepted /\ ~accepting) THEN s
      ELSE IF Exit(o) /\ Available(s, o) = 0 THEN Ended(s, id, "cancelled")
      ELSE IF o.status = "armed" /\ ~Reached(o, s.mark.price) THEN s
      ELSE IF ~SessionOpen(o, s.time) \/ ~Marketable(o, s.mark.price) THEN t
      ELSE Executed(t, id, IF Exit(o) THEN Least(o.shares, Available(s, o)) ELSE o.shares, luck)

(* The whole pass, over the exits it places as well. *)
Worked(s, luck) ==
  LET pass[id \in 0..IdBound] ==
        IF id = 0 THEN s
        ELSE LET t == pass[id - 1] IN IF id \in DOMAIN t.orders THEN Visited(t, id, FALSE, luck) ELSE t
  IN  pass[IdBound]

-----------------------------------------------------------------------------
(* Commands *)

NewAccount == [time |-> 0, mark |-> [price |-> None, time |-> 0], halt |-> 0, held |-> 0, orders |-> <<>>,
               locked |-> FALSE, exposed |-> FALSE, orphans |-> {}]
Init == rules \in Accounts /\ state = NewAccount /\ moves = 0

Printed(s, price) == [s EXCEPT !.mark = [price |-> price, time |-> s.time]]

(* on_quotes: a print, which a halt keeps out, or none; then every order is worked. *)
OnQuotes(now) ==
  /\ \E price \in Prices \union {None}, luck \in rules.lucks :
       LET s == At(now)
       IN  state' = Worked(IF price = None \/ now < s.halt THEN s ELSE Printed(s, price), luck)
  /\ UNCHANGED moves

(* The feed's price that comes with a command is kept whatever becomes of it. *)
Fed(s, feed) == IF feed = None THEN s ELSE Printed(s, feed)

(* submit_stock_order: the order is worked at once, then its partner.  Refused, it
   still moves the clock. *)
WorkedAtOnce(s, r, partnerFits, luck) ==
  LET accepted == Accept(s, r, partnerFits)
      id == Len(s.orders) + 1
      partner == accepted.orders[id].oco
      worked == Visited(accepted, id, TRUE, luck)
  IN  IF partner = None THEN worked ELSE Visited(worked, partner, TRUE, luck)
Submitted == Cardinality({i \in DOMAIN state.orders : ~Exit(state.orders[i])})
Submit(now) ==
  /\ \E r \in rules.offers, feed \in rules.feeds, luck \in rules.lucks, partnerFits \in BOOLEAN :
       LET s == Fed(At(now), feed)
       IN  /\ Submitted + 1 + Len(r.oco) <= MaxOrders
           /\ state' = IF Admitted(s, r) THEN WorkedAtOnce(s, r, partnerFits, luck) ELSE s
  /\ UNCHANGED moves

Moves(command) == command \in rules.commands /\ moves < rules.bound /\ moves' = moves + 1

(* cancel_stock_order: not a required stop while shares are held. *)
Cancel(now) ==
  /\ \E id \in DOMAIN state.orders :
       LET s == At(now)
       IN  /\ Open(s.orders[id])
           /\ ~(rules.requireStop /\ s.orders[id].role = "stop" /\ s.held # 0)
           /\ state' = Ended(s, id, "cancelled")
  /\ Moves("cancel")

CancelAll(now) ==
  /\ LET s == At(now)
     IN  /\ ~(rules.requireStop /\ s.held # 0 /\ \E i \in DOMAIN s.orders : Open(s.orders[i]) /\ s.orders[i].role = "stop")
         /\ state' = AllEnded(s, DOMAIN s.orders)
  /\ Moves("cancel_all")

(* trade_stock: in the regular session, at a fresh price. *)
TradeStock(now) ==
  /\ \E q \in Trades, reduceOnly \in BOOLEAN, feed \in rules.feeds, luck \in rules.lucks :
       LET s == Fed(At(now), feed)
           trades == now \in Regular /\ Fresh(s, FALSE) /\ Verdict(s, q, FALSE, luck) = "ok"
       IN  /\ Enters(s, q, reduceOnly)
           /\ state' = IF trades THEN Traded(s, q) ELSE s
  /\ Moves("trade_stock")

(* close_shares: Flatten and the rules that liquidate; the orders stay. *)
CloseShares(now) ==
  /\ LET s == At(now)
     IN  /\ now \in Regular /\ Fresh(s, FALSE) /\ s.held # 0
         /\ state' = Traded(s, -s.held)
  /\ Moves("close_shares")

(* Settlement, assignment and exercise deliver shares. *)
Deliver(now) ==
  /\ \E q \in Delivered : state' = [Traded(At(now), q) EXCEPT !.exposed = TRUE]
  /\ Moves("deliver")

(* apply_corporate_actions: the shares and the mark split, the orders end. *)
Toward0(a, d) == IF a < 0 THEN -((-a) \div d) ELSE a \div d
Split(now) ==
  /\ \E r \in Splits :
       LET s == At(now)
           held == Toward0(s.held * r[1], r[2])
       IN  state' = AllEnded([Traded(s, held - s.held) EXCEPT !.mark.price = (@ * r[2]) \div r[1], !.exposed = TRUE],
                             DOMAIN s.orders)
  /\ Moves("split")

(* reset_account: the orders end and the shares leave with the old ledger. *)
ResetAccount(now) ==
  /\ LET s == AllEnded(At(now), DOMAIN state.orders)
     IN  state' = [Traded(s, -s.held) EXCEPT !.locked = FALSE, !.exposed = FALSE]
  /\ Moves("reset_account")

(* The kill switch, or a plan's day lock, taken and released. *)
Lock(now) == state' = [At(now) EXCEPT !.locked = ~@] /\ Moves("lock")

(* halt_underlying *)
Halt(now) ==
  /\ \E end \in now + 1 .. now + 2 : end > state.halt /\ state' = [At(now) EXCEPT !.halt = end]
  /\ Moves("halt")

Command(now) ==
  \/ OnQuotes(now) \/ Submit(now) \/ Cancel(now) \/ CancelAll(now) \/ TradeStock(now) \/ CloseShares(now)
  \/ Deliver(now) \/ Split(now) \/ ResetAccount(now) \/ Lock(now) \/ Halt(now)
Next ==
  /\ \E now \in {state.time, Least(state.time + 1, MaxTime)} : Command(now)
  /\ UNCHANGED rules
Spec == Init /\ [][Next]_vars

-----------------------------------------------------------------------------
(* Properties *)

OrderTypes(o) ==
  /\ o.side \in {"buy", "sell"} /\ o.shares \in Nat \ {0} /\ o.role \in {"normal", "stop", "target"}
  /\ o.status \in {"armed", "working", "filled", "cancelled", "rejected"} /\ o.oco \in 0..Len(state.orders)
TypeOK ==
  /\ rules \in Accounts /\ moves \in 0..rules.bound
  /\ state.time \in 0..MaxTime /\ state.held \in Int /\ Len(state.orders) <= IdBound
  /\ \A i \in DOMAIN state.orders : OrderTypes(state.orders[i])

(* Under a plan that requires stops, what its orders bought or sold stays covered
   by open stops whatever exits fill in part, targets win, positions reverse or
   shares are traded past them: only deliveries, splits and a refused stop, which
   the documentation names, leave shares without one. *)
OpenStops == {i \in DOMAIN state.orders : Open(state.orders[i]) /\ state.orders[i].role = "stop"
                                          /\ state.orders[i].side = (IF state.held > 0 THEN "sell" ELSE "buy")}
Covered ==
  LET sum[n \in 0..Len(state.orders)] ==
        IF n = 0 THEN 0 ELSE sum[n - 1] + (IF n \in OpenStops THEN state.orders[n].shares ELSE 0)
  IN  sum[Len(state.orders)]
StopsCover ==
  (rules.requireStop /\ ~state.exposed /\ state.held # 0) => Most(state.held, -state.held) <= Covered

(* Of an OCO pair, a bracket's exits among them, at most one fills, and its fill
   ends the other in the same transaction. *)
SharePairsFillOnce ==
  \A i \in DOMAIN state.orders :
    LET o == state.orders[i] IN (o.status = "filled" /\ o.oco # None) => state.orders[o.oco].status \in {"cancelled", "rejected"}

(* An exit ends once the shares it protected are closed another way, and never
   trades shares acquired since (docs/paper-trading.md: exits "end with
   POSITION_CLOSED once those are closed another way"). *)
ExitsEndWithTheirShares == \A i \in state.orphans : state.orders[i].status # "filled"
=============================================================================
