------------------------------- MODULE Ledger -------------------------------
(* The books of an account: cash, realised profit, fees, and what it holds.

   One option series and one stock are held; each is a holding with a signed
   quantity, the signed basis it was acquired for, and the profit and fees of
   its own round trip. Amounts are whole micro-dollars. Amounts that overflow 64
   bits throw before anything changes and are not modelled. *)
EXTENDS Integers

CONSTANTS
  Quantities, \* signed sizes traded, none zero
  Prices,     \* prices of one unit
  Fees,
  Amounts,    \* capital, payouts, interest and dividends
  Ratios,     \* split terms <<numerator, denominator>>
  Multiplier, \* what a price of the option series is multiplied by
  MaxEntries  \* bound: entries made

VARIABLES
  book,        \* the ledger
  contributed, \* history: capital put in less payouts taken out
  entered      \* history: entries made

vars == <<book, contributed, entered>>

Magnitude(q) == IF q < 0 THEN -q ELSE q
Least(a, b) == IF a < b THEN a ELSE b

(* The nearest part n / d of an amount, ties away from zero. *)
Prorate(v, n, d) ==
  LET rounded == (Magnitude(v * n) + (d \div 2)) \div d
  IN  IF v * n < 0 THEN -rounded ELSE rounded

(* Division toward zero, as C++ divides. *)
Toward0(a, d) == IF (a < 0) = (d < 0) THEN Magnitude(a) \div Magnitude(d) ELSE -(Magnitude(a) \div Magnitude(d))

Nothing == [quantity |-> 0, basis |-> 0, realised |-> 0, fees |-> 0]
Opened(cash) == [cash |-> cash, realised |-> 0, fees |-> 0, option |-> Nothing, stock |-> Nothing]

-----------------------------------------------------------------------------
(* Trades *)

Adds(h, units) == h.quantity = 0 \/ ((h.quantity > 0) <=> (units > 0))
Closes(h, units) == Least(Magnitude(h.quantity), Magnitude(units))
Reverses(h, units) == ~Adds(h, units) /\ Magnitude(units) > Magnitude(h.quantity)
(* The part of the basis that a reduction takes with it. *)
Allocated(h, units) == Prorate(h.basis, Closes(h, units), Magnitude(h.quantity))
\* Mutation: what stays is rounded apart from what leaves.
TradedBasisTwice(h, units, unit) ==
  IF Adds(h, units) THEN h.basis + unit * units
  ELSE IF Reverses(h, units) THEN unit * (h.quantity + units)
  ELSE Prorate(h.basis, Magnitude(h.quantity) - Closes(h, units), Magnitude(h.quantity))
TradedBasis(h, units, unit) ==
  IF Adds(h, units) THEN h.basis + unit * units
  ELSE IF Reverses(h, units) THEN unit * (h.quantity + units)
  ELSE h.basis - Allocated(h, units)
TradedProfit(h, units, unit) ==
  IF Adds(h, units) THEN 0
  ELSE unit * (IF h.quantity > 0 THEN Closes(h, units) ELSE -Closes(h, units)) - Allocated(h, units)

(* A holding closed whole is forgotten; a reversal starts a new round trip with
   its share of the fee. *)
TradedHolding(h, units, unit, fee) ==
  LET left == h.quantity + units
      anew == h.quantity # 0 /\ Reverses(h, units)
  IN  IF left = 0 THEN Nothing
      ELSE [quantity |-> left, basis |-> TradedBasis(h, units, unit),
            realised |-> IF anew THEN 0 ELSE h.realised + TradedProfit(h, units, unit),
            fees |-> IF anew THEN fee - Prorate(fee, Magnitude(h.quantity), Magnitude(units)) ELSE h.fees + fee]

(* The next account: what cash, profit and fees it gained, and what it holds. *)
Booked(b, cash, gain, paid, option, stock) ==
  [cash |-> b.cash + cash, realised |-> b.realised + gain, fees |-> b.fees + paid, option |-> option, stock |-> stock]

Fill(b, units, price, fee) ==
  LET unit == price * Multiplier
  IN  Booked(b, -(unit * units) - fee, TradedProfit(b.option, units, unit), fee,
             TradedHolding(b.option, units, unit, fee), b.stock)
TradeStock(b, units, price, fee) ==
  Booked(b, -(price * units) - fee, TradedProfit(b.stock, units, price), fee,
         b.option, TradedHolding(b.stock, units, price, fee))

-----------------------------------------------------------------------------
(* What happens to holdings without a trade *)

Settle(b, intrinsic, fee) ==
  LET proceeds == intrinsic * Multiplier * b.option.quantity
  IN  Booked(b, proceeds - fee, proceeds - b.option.basis, fee, Nothing, b.stock)

Accrue(b, amount) == Booked(b, amount, amount, 0, b.option, b.stock)

(* What a payment or a split realises belongs to the round trip as well. *)
Kept(h, quantity, basis, gain) ==
  [quantity |-> quantity, basis |-> basis, realised |-> h.realised + gain, fees |-> h.fees]

ReceiveDividend(b, amount) ==
  Booked(b, amount, amount, 0, b.option, Kept(b.stock, b.stock.quantity, b.stock.basis, amount))

SplitShares(shares, ratio) == Toward0(shares * ratio[1], ratio[2])
SplitRest(shares, ratio) == shares * ratio[1] - SplitShares(shares, ratio) * ratio[2]
(* The basis that the fraction of a share takes with it. *)
Released(h, ratio) ==
  IF SplitShares(h.quantity, ratio) = 0 THEN h.basis
  ELSE Toward0(h.basis * SplitRest(h.quantity, ratio), h.quantity * ratio[1])
SplitStock(b, ratio, lieu) ==
  LET after == SplitShares(b.stock.quantity, ratio)
      gain == lieu - Released(b.stock, ratio)
  IN  Booked(b, lieu, gain, 0, b.option,
             IF after = 0 THEN Nothing ELSE Kept(b.stock, after, b.stock.basis - Released(b.stock, ratio), gain))

-----------------------------------------------------------------------------

Init ==
  /\ contributed \in Amounts
  /\ book = Opened(contributed)
  /\ entered = 0

Enter(b) == book' = b /\ entered < MaxEntries /\ entered' = entered + 1

FillOption == \E q \in Quantities, p \in Prices, f \in Fees : Enter(Fill(book, q, p, f)) /\ UNCHANGED contributed
TradeShares == \E q \in Quantities, p \in Prices, f \in Fees : Enter(TradeStock(book, q, p, f)) /\ UNCHANGED contributed
SettleOption ==
  /\ book.option.quantity # 0
  /\ \E p \in Prices, f \in Fees : Enter(Settle(book, p, f))
  /\ UNCHANGED contributed
Interest == \E a \in Amounts : (Enter(Accrue(book, a)) \/ Enter(Accrue(book, -a))) /\ UNCHANGED contributed
Dividend ==
  /\ book.stock.quantity # 0
  /\ \E a \in Amounts : Enter(ReceiveDividend(book, IF book.stock.quantity > 0 THEN a ELSE -a))
  /\ UNCHANGED contributed
Split ==
  /\ book.stock.quantity # 0
  /\ \E r \in Ratios, p \in Prices :
       Enter(SplitStock(book, r, Prorate(p, SplitRest(book.stock.quantity, r), r[2])))
  /\ UNCHANGED contributed
Credit == \E a \in Amounts : Enter([book EXCEPT !.cash = @ + a]) /\ contributed' = contributed + a
Withdraw == \E a \in Amounts : Enter([book EXCEPT !.cash = @ - a]) /\ contributed' = contributed - a

Next == \/ FillOption \/ TradeShares \/ SettleOption \/ Interest \/ Dividend \/ Split \/ Credit \/ Withdraw

Spec == Init /\ [][Next]_vars

-----------------------------------------------------------------------------
(* Properties *)

Int64Holding(h) == h.quantity \in Int /\ h.basis \in Int /\ h.realised \in Int /\ h.fees \in Int
TypeOK ==
  /\ book.cash \in Int /\ book.realised \in Int /\ book.fees \in Int
  /\ Int64Holding(book.option) /\ Int64Holding(book.stock)
  /\ contributed \in Int /\ entered \in Nat

(* Nothing is made or lost: cash and what the holdings cost are the capital put
   in, the profit realised and the fees paid, to the micro-dollar and whatever
   was rounded on the way. *)
Balanced == book.cash + book.option.basis + book.stock.basis = contributed + book.realised - book.fees

(* What a journal records of a holding is what its recovery accepts: a long was
   paid for, a short was sold, and a round trip's fees are no rebate. *)
RestorableHolding(h) ==
  /\ IF h.quantity > 0 THEN h.basis >= 0 ELSE h.basis <= 0
  /\ h.quantity = 0 => h.basis = 0
  /\ h.fees >= 0
Restorable == RestorableHolding(book.option) /\ RestorableHolding(book.stock) /\ book.fees >= 0

(* The books balance and can be recovered, after any trades, reversals,
   settlements, splits and payments in any order. *)
BooksSound == Balanced /\ Restorable
=============================================================================
