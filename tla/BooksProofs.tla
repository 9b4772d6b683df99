------------------------------ MODULE BooksProofs ------------------------------
(***************************************************************************)
(* What an account's books are: its cash, lots and profit (Ledger) and its *)
(* share orders (Shares).                                                  *)
(*                                                                         *)
(* The books balance because the parts of an amount are amounts: the       *)
(* lemmas about Prorate come first, then one per entry.                    *)
(*                                                                         *)
(* Share orders come in sequences that grow: what is said of every order   *)
(* (Matched, Linked) is shown of each operator a command is made of, then  *)
(* of the pass over the orders, which is a recursive function and has a    *)
(* least number where it would first fail.  That stops cover the shares    *)
(* held (Covers) adds up the open stops of a side: StopsCompare says how   *)
(* much less that sum can be after a step that ends one of them.           *)
(***************************************************************************)
EXTENDS Books, Sequences, TLAPS, WellFoundedInduction

-----------------------------------------------------------------------------
(* The books *)

(* A quotient is what multiplied by the divisor comes closest from below. *)
LEMMA Quotient == ASSUME NEW x \in Nat, NEW d \in Nat \ {0}
                  PROVE  /\ x \div d \in Nat
                         /\ (x \div d) * d <= x
                         /\ x < ((x \div d) + 1) * d
BY SMT

(* A product with more is no less. *)
LEMMA Monotone == ASSUME NEW v \in Nat, NEW n \in Nat, NEW d \in Nat, n <= d
                  PROVE  v * n \in Nat /\ v * n <= v * d
<1>1. PICK k \in Nat : d = n + k
  <2>1. d - n \in Nat /\ d = n + (d - n)
    OBVIOUS
  <2> QED BY <2>1
<1>2. v * d = v * n + v * k /\ v * k \in Nat /\ v * n \in Nat
  BY <1>1, SMT
<1> QED BY <1>2

(* What no more than y multiples make up is at most y and a half. *)
LEMMA QuotientAtMost == ASSUME NEW x \in Nat, NEW d \in Nat \ {0}, NEW y \in Nat, x < (y + 1) * d
                        PROVE  x \div d <= y
<1> DEFINE q == x \div d
<1>1. q \in Nat /\ q * d <= x
  BY Quotient
<1>2. CASE q >= y + 1
  <2>1. d * (y + 1) <= d * q
    BY <1>1, <1>2, Monotone
  <2>2. d * (y + 1) = (y + 1) * d /\ d * q = q * d
    BY <1>1, SMT
  <2> QED BY <2>1, <2>2, <1>1, SMT
<1> QED BY <1>1, <1>2

LEMMA MagnitudeType == ASSUME NEW q \in Int
                       PROVE  /\ Magnitude(q) \in Nat
                              /\ q >= 0 => Magnitude(q) = q
                              /\ q <= 0 => Magnitude(q) = -q
                              /\ q # 0 => Magnitude(q) > 0
BY SMT DEF Magnitude

(* A part of an amount is an amount, the whole is the amount itself, and a part
   lies between nothing and the whole. *)
LEMMA ProrateType == ASSUME NEW v \in Int, NEW n \in Int, NEW d \in Nat \ {0}
                     PROVE  Prorate(v, n, d) \in Int
<1>1. v * n \in Int
  OBVIOUS
<1>2. Magnitude(v * n) \in Nat
  BY <1>1, MagnitudeType
<1>3. Magnitude(v * n) + (d \div 2) \in Nat
  BY <1>2, SMT
<1>4. (Magnitude(v * n) + (d \div 2)) \div d \in Nat
  BY <1>3, Quotient
<1> QED BY <1>1, <1>4 DEF Prorate

LEMMA ProrateLong == ASSUME NEW v \in Nat, NEW n \in Nat, NEW d \in Nat \ {0}, n <= d
                     PROVE  0 <= Prorate(v, n, d) /\ Prorate(v, n, d) <= v
<1> DEFINE x == v * n + (d \div 2)
<1>1. v * n \in Nat /\ v * n <= v * d
  BY Monotone
<1>2. d \div 2 \in Nat /\ d \div 2 < d
  BY SMT
<1>3. x \in Nat /\ x < (v + 1) * d
  <2>1. (v + 1) * d = v * d + d
    BY SMT
  <2> QED BY <1>1, <1>2, <2>1, SMT
<1>4. x \div d \in Nat /\ x \div d <= v
  BY <1>3, Quotient, QuotientAtMost
<1>5. Prorate(v, n, d) = x \div d
  <2>1. ~ (v * n < 0)
    BY <1>1, SMT
  <2>2. Magnitude(v * n) = v * n
    BY <1>1, SMT DEF Magnitude
  <2> QED BY <2>1, <2>2 DEF Prorate
<1> HIDE DEF x
<1> QED BY <1>4, <1>5, SMT

LEMMA ProrateWhole == ASSUME NEW v \in Nat, NEW d \in Nat \ {0}
                      PROVE  Prorate(v, d, d) = v
<1> DEFINE x == v * d + (d \div 2)
<1>1. v * d \in Nat
  OBVIOUS
<1>2. d \div 2 \in Nat /\ d \div 2 < d
  BY SMT
<1>3. x \in Nat /\ v * d <= x
  BY <1>1, <1>2, SMT
<1>4. x \div d \in Nat /\ x < (x \div d + 1) * d
  BY <1>3, Quotient
<1>5. v <= x \div d
  <2>1. CASE x \div d + 1 <= v
    <3>1. d * (x \div d + 1) <= d * v
      BY <1>4, <2>1, Monotone
    <3>2. d * (x \div d + 1) = (x \div d + 1) * d /\ d * v = v * d
      BY <1>4, SMT
    <3> HIDE DEF x
    <3> QED BY <3>1, <3>2, <1>1, <1>3, <1>4, SMT
  <2> HIDE DEF x
  <2> QED BY <2>1, <1>4, SMT
<1>6. Prorate(v, d, d) = x \div d
  <2>1. ~ (v * d < 0)
    BY <1>1, SMT
  <2>2. Magnitude(v * d) = v * d
    BY <1>1, SMT DEF Magnitude
  <2> QED BY <2>1, <2>2 DEF Prorate
<1>7. Prorate(v, d, d) <= v
  BY ProrateLong
<1> HIDE DEF x
<1> QED BY <1>4, <1>5, <1>6, <1>7, SMT

(* A negative amount is prorated as its magnitude is. *)
LEMMA ProrateOpposite == ASSUME NEW v \in Nat, NEW n \in Nat, NEW d \in Nat \ {0}
                         PROVE  Prorate(-v, n, d) = -Prorate(v, n, d)
<1>1. v * n \in Nat /\ (-v) * n = -(v * n)
  BY SMT
<1>2. Magnitude((-v) * n) = v * n /\ Magnitude(v * n) = v * n
  BY <1>1, SMT DEF Magnitude
<1> DEFINE r == (v * n + (d \div 2)) \div d
<1>3. r \in Nat
  <2>1. v * n + (d \div 2) \in Nat
    BY <1>1, SMT
  <2> QED BY <2>1, Quotient
<1>4. CASE v * n = 0
  <2>1. Prorate(-v, n, d) = r /\ Prorate(v, n, d) = r
    BY <1>1, <1>2, <1>4, SMT DEF Prorate
  <2>2. r = (d \div 2) \div d
    BY <1>1, <1>4, SMT
  <2>3. (d \div 2) \div d <= 0
    <3>1. d \div 2 \in Nat /\ d \div 2 < (0 + 1) * d
      BY SMT
    <3> QED BY <3>1, QuotientAtMost
  <2> HIDE DEF r
  <2> QED BY <2>1, <2>2, <2>3, <1>3, SMT
<1>5. CASE v * n > 0
  <2>1. Prorate(v, n, d) = r
    BY <1>1, <1>2, <1>5, SMT DEF Prorate
  <2>2. Prorate(-v, n, d) = -r
    BY <1>1, <1>2, <1>5, SMT DEF Prorate
  <2> QED BY <2>1, <2>2
<1> QED BY <1>1, <1>4, <1>5, SMT

-----------------------------------------------------------------------------
(* What a holding must be, and stays. *)
SoundHolding(h) ==
  /\ h \in [quantity : Int, basis : Int, realised : Int, fees : Int]
  /\ RestorableHolding(h)

(* The basis that leaves with a part of a holding has the sign of the basis and
   leaves no more than nothing of the other sign; the whole takes all of it. *)
LEMMA PartOfBasis == ASSUME NEW h, SoundHolding(h), h.quantity # 0,
                            NEW n \in Nat, n <= Magnitude(h.quantity)
                     PROVE  LET part == Prorate(h.basis, n, Magnitude(h.quantity))
                            IN  /\ part \in Int
                                /\ h.quantity > 0 => 0 <= part /\ part <= h.basis
                                /\ h.quantity < 0 => h.basis <= part /\ part <= 0
                                /\ n = Magnitude(h.quantity) => part = h.basis
<1> DEFINE d == Magnitude(h.quantity)
           part == Prorate(h.basis, n, d)
<1>1. h.quantity \in Int /\ h.basis \in Int
  BY DEF SoundHolding
<1>2. d \in Nat \ {0} /\ d \in Nat
  BY <1>1, MagnitudeType
<1>3. part \in Int
  <2>1. n \in Int
    OBVIOUS
  <2> HIDE DEF d
  <2> QED BY <1>1, <1>2, <2>1, ProrateType
<1> HIDE DEF d
<1>4. CASE h.quantity > 0
  <2>1. h.basis \in Nat
    BY <1>1, <1>4, SMT DEF SoundHolding, RestorableHolding
  <2>2. 0 <= part /\ part <= h.basis
    BY <1>2, <2>1, ProrateLong DEF d
  <2>3. n = d => part = h.basis
    BY <1>2, <2>1, ProrateWhole
  <2> QED BY <1>1, <1>3, <1>4, <2>2, <2>3, SMT DEF d
<1>5. CASE h.quantity < 0
  <2>1. -h.basis \in Nat /\ h.basis = -(-h.basis)
    BY <1>1, <1>5, SMT DEF SoundHolding, RestorableHolding
  <2> DEFINE c == -h.basis
             whole == Prorate(c, n, d)
  <2>2. 0 <= whole /\ whole <= c
    BY <1>2, <2>1, ProrateLong DEF d
  <2>3. n = d => whole = c
    BY <1>2, <2>1, ProrateWhole
  <2>4. part = -whole
    BY <1>2, <2>1, ProrateOpposite
  <2>5. whole \in Int /\ c \in Int /\ h.basis = -c
    <3>1. c \in Int /\ n \in Int
      BY <2>1
    <3> QED BY <1>2, <2>1, <3>1, ProrateType
  <2> HIDE DEF c, whole, part
  <2>6. h.basis <= part /\ part <= 0 /\ (n = d => part = h.basis)
    BY <2>2, <2>3, <2>4, <2>5, SMT
  <2> QED BY <1>1, <1>3, <1>5, <2>6, SMT DEF d, part
<1> QED BY <1>1, <1>4, <1>5, SMT

(* The same amount comes off the basis as a trade's profit leaves out of the
   price: what a trade changes of cash, basis and profit cancels. *)
LEMMA TradeBalances == ASSUME NEW h, SoundHolding(h), NEW units \in Int \ {0}, NEW unit \in Nat, NEW fee \in Nat
                       PROVE  /\ TradedProfit(h, units, unit) \in Int
                              /\ SoundHolding(TradedHolding(h, units, unit, fee))
                              /\ TradedHolding(h, units, unit, fee).basis - TradedProfit(h, units, unit)
                                   = h.basis + unit * units
<1> DEFINE q == h.quantity
           left == q + units
           next == TradedHolding(h, units, unit, fee)
           profit == TradedProfit(h, units, unit)
<1>0. q \in Int /\ h.basis \in Int /\ h.realised \in Int /\ h.fees \in Int /\ h.fees >= 0 /\ left \in Int
  BY DEF SoundHolding, RestorableHolding
<1>1. unit * units \in Int /\ (units > 0 => unit * units >= 0) /\ (units < 0 => unit * units <= 0)
  BY SMT
<1>2. CASE Adds(h, units)
  <2>1. left # 0 /\ ~ Reverses(h, units)
    BY <1>0, <1>2, SMT DEF Adds, Reverses
  <2>2. profit = 0
    BY <1>2 DEF TradedProfit
  <2>3. next = [quantity |-> left, basis |-> h.basis + unit * units, realised |-> h.realised + 0, fees |-> h.fees + fee]
    BY <1>2, <2>1, <2>2 DEF TradedHolding, TradedBasis
  <2>4. (left > 0 => h.basis >= 0 /\ units > 0) /\ (left < 0 => h.basis <= 0 /\ units < 0)
    BY <1>0, <1>2, SMT DEF Adds, SoundHolding, RestorableHolding
  <2>5. (left > 0 => h.basis + unit * units >= 0) /\ (left < 0 => h.basis + unit * units <= 0)
    BY <1>0, <1>1, <2>4, SMT
  <2>6. SoundHolding(next)
    <3> DEFINE nb == h.basis + unit * units
    <3>1. nb \in Int /\ h.realised + 0 \in Int /\ h.fees + fee \in Int /\ h.fees + fee >= 0
      BY <1>0, <1>1, SMT
    <3> HIDE DEF nb, left
    <3>2. next \in [quantity : Int, basis : Int, realised : Int, fees : Int]
      BY <1>0, <2>3, <3>1 DEF nb
    <3>3. RestorableHolding(next)
      BY <1>0, <2>1, <2>3, <2>5, <3>1, SMT DEF RestorableHolding, nb
    <3> QED BY <3>2, <3>3 DEF SoundHolding
  <2> HIDE DEF next, profit
  <2>7. next.basis = h.basis + unit * units
    BY <2>3
  <2> QED BY <1>0, <1>1, <2>2, <2>6, <2>7, SMT DEF next, profit
<1>3. ASSUME ~ Adds(h, units)
      PROVE  /\ q # 0
             /\ q > 0 => units < 0
             /\ q < 0 => units > 0
             /\ Closes(h, units) \in Nat
             /\ Closes(h, units) <= Magnitude(q)
             /\ ~ Reverses(h, units) => Closes(h, units) = Magnitude(units)
             /\ Reverses(h, units) => Closes(h, units) = Magnitude(q)
  <2>1. Magnitude(q) \in Nat /\ Magnitude(units) \in Nat
    BY <1>0, MagnitudeType
  <2> QED BY <1>0, <1>3, <2>1, SMT DEF Adds, Reverses, Closes, Least
<1>4. ASSUME ~ Adds(h, units)
      PROVE  /\ Allocated(h, units) \in Int
             /\ q > 0 => 0 <= Allocated(h, units) /\ Allocated(h, units) <= h.basis
             /\ q < 0 => h.basis <= Allocated(h, units) /\ Allocated(h, units) <= 0
             /\ Closes(h, units) = Magnitude(q) => Allocated(h, units) = h.basis
  BY <1>3, <1>4, PartOfBasis DEF Allocated
<1>5. unit * (-units) = -(unit * units)
  BY SMT
<1>6. CASE ~ Adds(h, units) /\ ~ Reverses(h, units)
  <2> DEFINE part == Allocated(h, units)
             moved == unit * units
  <2>1. part \in Int /\ moved \in Int
    BY <1>1, <1>4, <1>6
  <2>2. profit = -moved - part
    <3>1. CASE q > 0
      <4>1. Closes(h, units) = -units
        BY <1>3, <1>6, <3>1, SMT DEF Magnitude
      <4>2. profit = unit * (-units) - part
        BY <1>6, <3>1, <4>1 DEF TradedProfit
      <4> QED BY <1>5, <4>2
    <3>2. CASE q < 0
      <4>1. -Closes(h, units) = -units
        BY <1>3, <1>6, <3>2, SMT DEF Magnitude
      <4>2. ~ (q > 0)
        BY <1>0, <3>2, SMT
      <4>3. profit = unit * (-units) - part
        BY <1>6, <4>1, <4>2 DEF TradedProfit
      <4> QED BY <1>5, <4>3
    <3> QED BY <1>0, <1>3, <1>6, <3>1, <3>2, SMT
  <2>3. CASE left = 0
    <3>1. next = Nothing
      BY <2>3 DEF TradedHolding
    <3>2. Closes(h, units) = Magnitude(q)
      BY <1>0, <1>3, <1>6, <2>3, SMT DEF Magnitude
    <3>3. part = h.basis
      BY <1>4, <1>6, <3>2
    <3>4. SoundHolding(next) /\ next.basis = 0
      BY <3>1 DEF Nothing, SoundHolding, RestorableHolding
    <3> HIDE DEF next, profit, part, moved
    <3>5. profit \in Int /\ next.basis - profit = h.basis + moved
      BY <1>0, <2>1, <2>2, <3>3, <3>4, SMT
    <3> QED BY <3>4, <3>5 DEF next, profit, moved
  <2>4. CASE left # 0
    <3>1. next = [quantity |-> left, basis |-> h.basis - part, realised |-> h.realised + profit, fees |-> h.fees + fee]
      BY <1>6, <2>4 DEF TradedHolding, TradedBasis
    <3>2. (left > 0 => q > 0) /\ (left < 0 => q < 0)
      BY <1>0, <1>3, <1>6, <2>4, SMT DEF Reverses, Magnitude
    <3> HIDE DEF next, profit, part, moved, left
    <3>3. profit \in Int /\ h.realised + profit \in Int /\ h.fees + fee \in Int /\ h.fees + fee >= 0
          /\ h.basis - part \in Int
      BY <1>0, <2>1, <2>2, SMT
    <3>4. (left > 0 => h.basis - part >= 0) /\ (left < 0 => h.basis - part <= 0)
      BY <1>0, <1>4, <1>6, <2>1, <3>2, SMT DEF part
    <3>5. next \in [quantity : Int, basis : Int, realised : Int, fees : Int]
      BY <1>0, <3>1, <3>3
    <3>6. RestorableHolding(next)
      BY <1>0, <2>4, <3>1, <3>3, <3>4, SMT DEF RestorableHolding
    <3>7. next.basis - profit = h.basis + moved
      BY <1>0, <2>1, <2>2, <3>1, SMT
    <3> QED BY <3>3, <3>5, <3>6, <3>7 DEF SoundHolding, next, profit, moved
  <2> QED BY <2>3, <2>4
<1>7. CASE ~ Adds(h, units) /\ Reverses(h, units)
  <2> DEFINE moved == unit * units
             before == unit * q
             part == Prorate(fee, Magnitude(q), Magnitude(units))
  <2>1. moved \in Int /\ before \in Int /\ unit * left = before + moved
    BY <1>0, SMT
  <2>2. left # 0 /\ (left > 0 <=> units > 0) /\ (left < 0 <=> units < 0)
    BY <1>0, <1>3, <1>7, SMT DEF Reverses, Magnitude
  <2>3. Allocated(h, units) = h.basis /\ Closes(h, units) = Magnitude(q)
    BY <1>3, <1>4, <1>7
  <2>4. profit = before - h.basis
    <3>1. (IF q > 0 THEN Closes(h, units) ELSE -Closes(h, units)) = q
      BY <1>0, <1>3, <1>7, <2>3, SMT DEF Magnitude
    <3> QED BY <1>7, <2>3, <3>1 DEF TradedProfit
  <2>5. next = [quantity |-> left, basis |-> unit * left, realised |-> 0, fees |-> fee - part]
    BY <1>3, <1>7, <2>2 DEF TradedHolding, TradedBasis
  <2>6. part \in Int /\ 0 <= part /\ part <= fee
    <3>1. /\ Magnitude(q) \in Nat /\ Magnitude(units) \in Nat \ {0}
          /\ Magnitude(q) <= Magnitude(units)
      BY <1>0, <1>7, MagnitudeType, SMT DEF Reverses
    <3> DEFINE n == Magnitude(q)
               d == Magnitude(units)
    <3> HIDE DEF n, d
    <3>2. n \in Nat /\ n \in Int /\ d \in Nat \ {0} /\ n <= d /\ fee \in Int
      BY <3>1 DEF n, d
    <3>3. Prorate(fee, n, d) \in Int
      BY <3>2, ProrateType
    <3>4. 0 <= Prorate(fee, n, d) /\ Prorate(fee, n, d) <= fee
      BY <3>2, ProrateLong
    <3> QED BY <3>3, <3>4 DEF n, d
  <2>7. (left > 0 => unit * left >= 0) /\ (left < 0 => unit * left <= 0) /\ unit * left \in Int
    BY <1>0, SMT
  <2> HIDE DEF next, profit, part, moved, before, left
  <2>8. next \in [quantity : Int, basis : Int, realised : Int, fees : Int]
    BY <1>0, <2>5, <2>6, <2>7
  <2>9. RestorableHolding(next)
    BY <1>0, <2>2, <2>5, <2>6, <2>7, SMT DEF RestorableHolding
  <2>10. profit \in Int /\ next.basis - profit = h.basis + moved
    BY <1>0, <2>1, <2>4, <2>5, SMT
  <2> QED BY <2>8, <2>9, <2>10 DEF SoundHolding, next, profit, moved
<1> QED BY <1>2, <1>6, <1>7

-----------------------------------------------------------------------------
(* Books that balance against what was contributed and that recovery accepts. *)
SoundBook(b, given) ==
  /\ b \in [cash : Int, realised : Int, fees : Int,
             option : [quantity : Int, basis : Int, realised : Int, fees : Int],
             stock : [quantity : Int, basis : Int, realised : Int, fees : Int]]
  /\ SoundHolding(b.option) /\ SoundHolding(b.stock)
  /\ b.fees >= 0
  /\ given \in Int
  /\ b.cash + b.option.basis + b.stock.basis = given + b.realised - b.fees

LEMMA BookedSound == ASSUME NEW b, NEW given, SoundBook(b, given),
                            NEW cash \in Int, NEW gain \in Int, NEW paid \in Nat, NEW option, NEW stock,
                            SoundHolding(option), SoundHolding(stock),
                            cash + option.basis + stock.basis = b.option.basis + b.stock.basis + gain - paid
                     PROVE  SoundBook(Booked(b, cash, gain, paid, option, stock), given)
<1> DEFINE after == Booked(b, cash, gain, paid, option, stock)
<1>1. /\ b.cash \in Int /\ b.realised \in Int /\ b.fees \in Int /\ b.fees >= 0 /\ given \in Int
      /\ b.option.basis \in Int /\ b.stock.basis \in Int /\ option.basis \in Int /\ stock.basis \in Int
      /\ b.cash + b.option.basis + b.stock.basis = given + b.realised - b.fees
  BY DEF SoundBook, SoundHolding
<1>2. /\ after = [cash |-> b.cash + cash, realised |-> b.realised + gain, fees |-> b.fees + paid,
                   option |-> option, stock |-> stock]
      /\ after.cash = b.cash + cash /\ after.realised = b.realised + gain /\ after.fees = b.fees + paid
      /\ after.option = option /\ after.stock = stock
  BY DEF Booked
<1> HIDE DEF after
<1>3. after \in [cash : Int, realised : Int, fees : Int,
                 option : [quantity : Int, basis : Int, realised : Int, fees : Int],
                 stock : [quantity : Int, basis : Int, realised : Int, fees : Int]]
  BY <1>1, <1>2 DEF SoundHolding
<1>4. after.fees >= 0
  BY <1>1, <1>2, SMT
<1>5. after.cash + after.option.basis + after.stock.basis = given + after.realised - after.fees
  <2> DEFINE o == option.basis  ob == b.option.basis
             t == stock.basis   tb == b.stock.basis
             c == b.cash  r == b.realised  f == b.fees
  <2>1. o \in Int /\ ob \in Int /\ t \in Int /\ tb \in Int /\ c \in Int /\ r \in Int /\ f \in Int
    BY <1>1
  <2>2. cash + o + t = ob + tb + gain - paid /\ c + ob + tb = given + r - f
    BY <1>1
  <2> HIDE DEF o, ob, t, tb, c, r, f
  <2>3. (c + cash) + o + t = given + (r + gain) - (f + paid)
    BY <1>1, <2>1, <2>2, SMT
  <2> QED BY <1>2, <2>3 DEF o, t, c, r, f
<1> QED BY <1>1, <1>2, <1>3, <1>4, <1>5 DEF SoundBook, after

LEMMA FillSound == ASSUME NEW b, NEW given, SoundBook(b, given), Multiplier \in Nat,
                          NEW units \in Int \ {0}, NEW price \in Nat, NEW fee \in Nat
                   PROVE  SoundBook(Fill(b, units, price, fee), given)
<1> DEFINE unit == price * Multiplier
           moved == unit * units
           next == TradedHolding(b.option, units, unit, fee)
           profit == TradedProfit(b.option, units, unit)
<1>1. unit \in Nat /\ moved \in Int
  OBVIOUS
<1>2. SoundHolding(b.option) /\ SoundHolding(b.stock) /\ b.option.basis \in Int /\ b.stock.basis \in Int
  BY DEF SoundBook, SoundHolding
<1> HIDE DEF unit
<1>3. profit \in Int /\ SoundHolding(next) /\ next.basis - profit = b.option.basis + moved
  BY <1>1, <1>2, TradeBalances
<1>4. next.basis \in Int
  BY <1>3 DEF SoundHolding
<1> HIDE DEF moved, next, profit
<1>5. -moved - fee \in Int /\ -moved - fee + next.basis + b.stock.basis = b.option.basis + b.stock.basis + profit - fee
  BY <1>1, <1>2, <1>3, <1>4, SMT
<1>6. SoundBook(Booked(b, -moved - fee, profit, fee, next, b.stock), given)
  BY <1>2, <1>3, <1>5, BookedSound
<1> QED BY <1>6 DEF Fill, moved, next, profit, unit

LEMMA TradeStockSound == ASSUME NEW b, NEW given, SoundBook(b, given),
                                NEW units \in Int \ {0}, NEW price \in Nat, NEW fee \in Nat
                         PROVE  SoundBook(TradeStock(b, units, price, fee), given)
<1> DEFINE moved == price * units
           next == TradedHolding(b.stock, units, price, fee)
           profit == TradedProfit(b.stock, units, price)
<1>1. moved \in Int
  OBVIOUS
<1>2. SoundHolding(b.option) /\ SoundHolding(b.stock) /\ b.option.basis \in Int /\ b.stock.basis \in Int
  BY DEF SoundBook, SoundHolding
<1>3. profit \in Int /\ SoundHolding(next) /\ next.basis - profit = b.stock.basis + moved
  BY <1>2, TradeBalances
<1>4. next.basis \in Int
  BY <1>3 DEF SoundHolding
<1> HIDE DEF moved, next, profit
<1>5. -moved - fee \in Int /\ -moved - fee + b.option.basis + next.basis = b.option.basis + b.stock.basis + profit - fee
  BY <1>1, <1>2, <1>3, <1>4, SMT
<1>6. SoundBook(Booked(b, -moved - fee, profit, fee, b.option, next), given)
  BY <1>2, <1>3, <1>5, BookedSound
<1> QED BY <1>6 DEF TradeStock, moved, next, profit

LEMMA SettleSound == ASSUME NEW b, NEW given, SoundBook(b, given), Multiplier \in Nat,
                            NEW intrinsic \in Nat, NEW fee \in Nat
                     PROVE  SoundBook(Settle(b, intrinsic, fee), given)
<1> DEFINE proceeds == intrinsic * Multiplier * b.option.quantity
<1>1. SoundHolding(b.option) /\ SoundHolding(b.stock) /\ b.option.basis \in Int /\ b.stock.basis \in Int
      /\ b.option.quantity \in Int
  BY DEF SoundBook, SoundHolding
<1>2. proceeds \in Int
  BY <1>1, SMT
<1>3. SoundHolding(Nothing) /\ Nothing.basis = 0
  BY DEF SoundHolding, RestorableHolding, Nothing
<1> HIDE DEF proceeds
<1>4. /\ proceeds - fee \in Int /\ proceeds - b.option.basis \in Int
      /\ proceeds - fee + Nothing.basis + b.stock.basis = b.option.basis + b.stock.basis + (proceeds - b.option.basis) - fee
  BY <1>1, <1>2, <1>3, SMT
<1>5. SoundBook(Booked(b, proceeds - fee, proceeds - b.option.basis, fee, Nothing, b.stock), given)
  BY <1>1, <1>3, <1>4, BookedSound
<1> QED BY <1>5 DEF Settle, proceeds

LEMMA AccrueSound == ASSUME NEW b, NEW given, SoundBook(b, given), NEW amount \in Int
                     PROVE  SoundBook(Accrue(b, amount), given)
<1>1. SoundHolding(b.option) /\ SoundHolding(b.stock) /\ b.option.basis \in Int /\ b.stock.basis \in Int
  BY DEF SoundBook, SoundHolding
<1>2. amount + b.option.basis + b.stock.basis = b.option.basis + b.stock.basis + amount - 0
  BY <1>1
<1> QED BY <1>1, <1>2, BookedSound DEF Accrue

LEMMA KeptSound == ASSUME NEW h, SoundHolding(h), NEW quantity \in Int, NEW basis \in Int, NEW gain \in Int,
                          quantity # 0, quantity > 0 => basis >= 0, quantity < 0 => basis <= 0
                   PROVE  SoundHolding(Kept(h, quantity, basis, gain)) /\ Kept(h, quantity, basis, gain).basis = basis
<1> DEFINE k == Kept(h, quantity, basis, gain)
<1>1. h.realised \in Int /\ h.fees \in Int /\ h.fees >= 0
  BY DEF SoundHolding, RestorableHolding
<1>2. k = [quantity |-> quantity, basis |-> basis, realised |-> h.realised + gain, fees |-> h.fees]
  BY DEF Kept
<1>3. h.realised + gain \in Int
  BY <1>1
<1> HIDE DEF k
<1>4. k \in [quantity : Int, basis : Int, realised : Int, fees : Int]
  BY <1>1, <1>2, <1>3
<1>5. RestorableHolding(k)
  BY <1>1, <1>2, SMT DEF RestorableHolding
<1>6. k.basis = basis
  BY <1>2
<1> QED BY <1>4, <1>5, <1>6 DEF SoundHolding, k

LEMMA DividendSound == ASSUME NEW b, NEW given, SoundBook(b, given), NEW amount \in Int, b.stock.quantity # 0
                       PROVE  SoundBook(ReceiveDividend(b, amount), given)
<1>1. /\ SoundHolding(b.option) /\ SoundHolding(b.stock) /\ b.option.basis \in Int /\ b.stock.basis \in Int
      /\ b.stock.quantity \in Int /\ b.stock.realised \in Int
  BY DEF SoundBook, SoundHolding
<1> DEFINE stock == Kept(b.stock, b.stock.quantity, b.stock.basis, amount)
<1>2. SoundHolding(stock) /\ stock.basis = b.stock.basis
  <2>1. (b.stock.quantity > 0 => b.stock.basis >= 0) /\ (b.stock.quantity < 0 => b.stock.basis <= 0)
    BY <1>1, SMT DEF SoundHolding, RestorableHolding
  <2> QED BY <1>1, <2>1, KeptSound
<1> HIDE DEF stock
<1>3. amount + b.option.basis + stock.basis = b.option.basis + b.stock.basis + amount - 0
  BY <1>1, <1>2
<1>4. SoundBook(Booked(b, amount, amount, 0, b.option, stock), given)
  BY <1>1, <1>2, <1>3, BookedSound
<1> QED BY <1>4 DEF ReceiveDividend, stock

(* Division toward zero keeps the sign a quotient should have and never exceeds
   what it divides by one or more. *)
LEMMA Toward0Long == ASSUME NEW a \in Nat, NEW d \in Nat \ {0}
                     PROVE  Toward0(a, d) = a \div d /\ Toward0(a, d) \in Nat
<1>1. (a < 0) = (d < 0) /\ Magnitude(a) = a /\ Magnitude(d) = d
  BY SMT DEF Magnitude
<1> QED BY <1>1, Quotient DEF Toward0

LEMMA Toward0Short == ASSUME NEW a \in Nat, NEW d \in Nat \ {0}
                      PROVE  /\ Toward0(-a, d) = -(a \div d)
                             /\ Toward0(a, -d) = -(a \div d)
                             /\ a \div d \in Nat
<1>1. Magnitude(-a) = a /\ Magnitude(a) = a /\ Magnitude(d) = d /\ Magnitude(-d) = d
  BY SMT DEF Magnitude
<1>2. a \div d \in Nat
  BY Quotient
<1>3. CASE a > 0
  BY <1>1, <1>2, <1>3, SMT DEF Toward0
<1>4. CASE a = 0
  <2>1. a \div d = 0
    BY <1>4, QuotientAtMost, <1>2, SMT
  <2>2. Toward0(-a, d) = 0 /\ Toward0(a, -d) = 0
    BY <1>1, <1>4, <2>1, SMT DEF Toward0
  <2> QED BY <1>2, <2>1, <2>2, SMT
<1> QED BY <1>3, <1>4, SMT

(* A part of c by rest in x takes between nothing and all of it. *)
LEMMA PartAtMost == ASSUME NEW c \in Nat, NEW rest \in Nat, NEW x \in Nat \ {0}, rest <= x
                    PROVE  (c * rest) \div x \in Nat /\ (c * rest) \div x <= c
<1>1. c * rest \in Nat /\ c * rest <= c * x
  BY Monotone
<1>2. c * rest < (c + 1) * x
  <2>1. (c + 1) * x = c * x + x /\ c * x \in Nat
    BY SMT
  <2> QED BY <1>1, <2>1, SMT
<1> QED BY <1>1, <1>2, Quotient, QuotientAtMost

(* After a split the stock held has the sign it had, and so has its basis. *)
LEMMA SplitHolding == ASSUME NEW h, SoundHolding(h), h.quantity # 0, NEW n \in Nat \ {0}, NEW m \in Nat \ {0}
                      PROVE  LET r == <<n, m>>
                                 after == SplitShares(h.quantity, r)
                             IN  /\ after \in Int /\ SplitRest(h.quantity, r) \in Int /\ Released(h, r) \in Int
                                 /\ after = 0 => Released(h, r) = h.basis
                                 /\ after > 0 => h.basis - Released(h, r) >= 0
                                 /\ after < 0 => h.basis - Released(h, r) <= 0
<1> DEFINE q == h.quantity
           r == <<n, m>>
           after == SplitShares(q, r)
           rest == SplitRest(q, r)
           part == Released(h, r)
<1>1. q \in Int /\ h.basis \in Int /\ (q > 0 => h.basis \in Nat) /\ (q < 0 => -h.basis \in Nat)
  BY SMT DEF SoundHolding, RestorableHolding
<1>2. r[1] = n /\ r[2] = m
  OBVIOUS
<1>3. after = Toward0(q * n, m) /\ rest = q * n - after * m
  BY <1>2 DEF SplitShares, SplitRest
<1>4. part = IF after = 0 THEN h.basis ELSE Toward0(h.basis * rest, q * n)
  BY <1>2 DEF Released
<1> HIDE DEF after, rest, part
<1>5. CASE q > 0
  <2> DEFINE x == q * n
             y == x \div m
             c == h.basis
  <2>1. x \in Nat \ {0}
    BY <1>1, <1>5, SMT
  <2> HIDE DEF x
  <2>2. y \in Nat /\ y * m <= x
    BY <2>1, Quotient
  <2>3. after = y
    BY <1>3, <2>1, Toward0Long DEF x
  <2> HIDE DEF y
  <2>4. rest = x - y * m /\ rest \in Nat /\ rest <= x
    <3>1. rest = x - y * m
      BY <1>3, <2>3 DEF x
    <3>2. y * m \in Nat
      BY <2>2, SMT
    <3> QED BY <2>1, <2>2, <3>1, <3>2, SMT
  <2>5. c \in Nat
    BY <1>1, <1>5
  <2>6. (c * rest) \div x \in Nat /\ (c * rest) \div x <= c
    BY <2>1, <2>4, <2>5, PartAtMost
  <2>7. Toward0(c * rest, x) = (c * rest) \div x
    <3>1. c * rest \in Nat
      BY <2>4, <2>5, SMT
    <3> QED BY <2>1, <3>1, Toward0Long
  <2>8. part = IF after = 0 THEN c ELSE (c * rest) \div x
    BY <1>4, <2>7 DEF x
  <2> DEFINE k == (c * rest) \div x
  <2> HIDE DEF k, c
  <2>9. part \in Int /\ (after = 0 => part = c) /\ c - part >= 0 /\ after >= 0
    BY <2>2, <2>3, <2>5, <2>6, <2>8, SMT DEF k
  <2> QED BY <1>1, <2>2, <2>3, <2>4, <2>9, SMT DEF c, after, rest, part
<1>6. CASE q < 0
  <2> DEFINE p == -q
             x == p * n
             y == x \div m
             c == -h.basis
             left == x - y * m
  <2>1. x \in Nat \ {0} /\ q * n = -x
    BY <1>1, <1>6, SMT
  <2> HIDE DEF x
  <2>2. y \in Nat /\ y * m <= x
    BY <2>1, Quotient
  <2>3. after = -y
    BY <1>3, <2>1, Toward0Short
  <2> HIDE DEF y
  <2>4. left \in Nat /\ left <= x
    <3>1. y * m \in Nat
      BY <2>2, SMT
    <3> QED BY <2>1, <2>2, <3>1, SMT
  <2>5. rest = -left
    <3>1. rest = -x - (-y) * m
      BY <1>3, <2>1, <2>3
    <3>2. (-y) * m = -(y * m) /\ y * m \in Int
      BY <2>2, SMT
    <3> QED BY <2>1, <3>1, <3>2, SMT
  <2>6. c \in Nat /\ h.basis = -c
    BY <1>1, <1>6, SMT
  <2> HIDE DEF left, c
  <2>7. h.basis * rest = c * left /\ c * left \in Nat
    BY <2>4, <2>5, <2>6, SMT
  <2>8. Toward0(h.basis * rest, q * n) = -((c * left) \div x)
    BY <2>1, <2>7, Toward0Short
  <2>9. (c * left) \div x \in Nat /\ (c * left) \div x <= c
    BY <2>1, <2>4, <2>6, PartAtMost
  <2> DEFINE k == (c * left) \div x
  <2>10. part = IF after = 0 THEN -c ELSE -k
    BY <1>4, <2>6, <2>8
  <2> HIDE DEF k
  <2>11. part \in Int /\ (after = 0 => part = h.basis) /\ h.basis - part <= 0 /\ after <= 0 /\ after \in Int /\ rest \in Int
    BY <2>2, <2>3, <2>4, <2>5, <2>6, <2>9, <2>10, SMT DEF k
  <2> QED BY <1>1, <2>11, SMT DEF after, rest, part
<1> QED BY <1>1, <1>5, <1>6, SMT

LEMMA SplitSound == ASSUME NEW b, NEW given, SoundBook(b, given), b.stock.quantity # 0, NEW lieu \in Int,
                           NEW n \in Nat \ {0}, NEW m \in Nat \ {0}
                    PROVE  SoundBook(SplitStock(b, <<n, m>>, lieu), given)
<1> DEFINE after == SplitShares(b.stock.quantity, <<n, m>>)
           part == Released(b.stock, <<n, m>>)
           gain == lieu - part
           stock == IF after = 0 THEN Nothing ELSE Kept(b.stock, after, b.stock.basis - part, gain)
<1>1. SoundHolding(b.option) /\ SoundHolding(b.stock) /\ b.option.basis \in Int /\ b.stock.basis \in Int
  BY DEF SoundBook, SoundHolding
<1>2. /\ after \in Int /\ part \in Int
      /\ after = 0 => part = b.stock.basis
      /\ after > 0 => b.stock.basis - part >= 0
      /\ after < 0 => b.stock.basis - part <= 0
  BY <1>1, SplitHolding
<1> HIDE DEF after, part
<1>3. gain \in Int /\ b.stock.basis - part \in Int
  BY <1>1, <1>2
<1>4. SoundHolding(stock) /\ stock.basis = b.stock.basis - part
  <2>1. CASE after = 0
    <3>1. SoundHolding(Nothing) /\ Nothing.basis = 0
      BY DEF SoundHolding, RestorableHolding, Nothing
    <3> QED BY <1>1, <1>2, <2>1, <3>1
  <2>2. CASE after # 0
    BY <1>1, <1>2, <1>3, <2>2, KeptSound
  <2> QED BY <2>1, <2>2
<1> HIDE DEF stock
<1>5. lieu + b.option.basis + stock.basis = b.option.basis + b.stock.basis + gain - 0
  BY <1>1, <1>2, <1>4
<1>6. SoundBook(Booked(b, lieu, gain, 0, b.option, stock), given)
  BY <1>1, <1>3, <1>4, <1>5, BookedSound
<1> QED BY <1>6 DEF SplitStock, stock, after, part

-----------------------------------------------------------------------------
(* What the proofs assume of the amounts entered. *)
Entries ==
  /\ Quantities \subseteq Int \ {0}
  /\ Prices \subseteq Nat /\ Fees \subseteq Nat /\ Amounts \subseteq Nat
  /\ Ratios \subseteq (Nat \ {0}) \X (Nat \ {0})
  /\ Multiplier \in Nat

LEMMA OpenedSound == ASSUME Entries, Init PROVE SoundBook(book, contributed)
<1>1. contributed \in Int /\ book = Opened(contributed)
  BY DEF Init, Entries
<1>2. SoundHolding(Nothing) /\ Nothing.basis = 0
  BY DEF SoundHolding, RestorableHolding, Nothing
<1>3. /\ book = [cash |-> contributed, realised |-> 0, fees |-> 0, option |-> Nothing, stock |-> Nothing]
      /\ book.cash = contributed /\ book.realised = 0 /\ book.fees = 0
      /\ book.option = Nothing /\ book.stock = Nothing
  BY <1>1 DEF Opened
<1>4. book \in [cash : Int, realised : Int, fees : Int,
                option : [quantity : Int, basis : Int, realised : Int, fees : Int],
                stock : [quantity : Int, basis : Int, realised : Int, fees : Int]]
  BY <1>1, <1>2, <1>3 DEF SoundHolding
<1>5. book.cash + book.option.basis + book.stock.basis = contributed + book.realised - book.fees
  BY <1>1, <1>2, <1>3, SMT
<1> QED BY <1>1, <1>2, <1>3, <1>4, <1>5 DEF SoundBook

(* Capital comes and goes with nothing else changed. *)
LEMMA CashSound == ASSUME NEW b, NEW given, SoundBook(b, given), NEW amount \in Int
                   PROVE  SoundBook([b EXCEPT !.cash = @ + amount], given + amount)
<1> DEFINE after == [b EXCEPT !.cash = @ + amount]
<1>1. /\ b.cash \in Int /\ b.realised \in Int /\ b.fees \in Int /\ b.fees >= 0 /\ given \in Int
      /\ b.option.basis \in Int /\ b.stock.basis \in Int
      /\ SoundHolding(b.option) /\ SoundHolding(b.stock)
      /\ b.cash + b.option.basis + b.stock.basis = given + b.realised - b.fees
  BY DEF SoundBook, SoundHolding
<1>2. /\ after.cash = b.cash + amount /\ after.realised = b.realised /\ after.fees = b.fees
      /\ after.option = b.option /\ after.stock = b.stock
  BY DEF SoundBook
<1>3. after \in [cash : Int, realised : Int, fees : Int,
                 option : [quantity : Int, basis : Int, realised : Int, fees : Int],
                 stock : [quantity : Int, basis : Int, realised : Int, fees : Int]]
  BY DEF SoundBook
<1> HIDE DEF after
<1>4. after.cash + after.option.basis + after.stock.basis = (given + amount) + after.realised - after.fees
  BY <1>1, <1>2, SMT
<1> QED BY <1>1, <1>2, <1>3, <1>4 DEF SoundBook, after

LEMMA StepSound == ASSUME Entries, SoundBook(book, contributed), [Next]_vars
                   PROVE  SoundBook(book', contributed')
<1>1. CASE FillOption
  BY <1>1, FillSound DEF FillOption, Enter, Entries
<1>2. CASE TradeShares
  BY <1>2, TradeStockSound DEF TradeShares, Enter, Entries
<1>3. CASE SettleOption
  BY <1>3, SettleSound DEF SettleOption, Enter, Entries
<1>4. CASE Interest
  <2>1. PICK a \in Amounts : (book' = Accrue(book, a) \/ book' = Accrue(book, -a)) /\ contributed' = contributed
    BY <1>4 DEF Interest, Enter
  <2>2. a \in Int /\ -a \in Int
    BY DEF Entries
  <2> QED BY <2>1, <2>2, AccrueSound
<1>5. CASE Dividend
  <2>1. PICK a \in Amounts : /\ book' = ReceiveDividend(book, IF book.stock.quantity > 0 THEN a ELSE -a)
                             /\ contributed' = contributed
                             /\ book.stock.quantity # 0
    BY <1>5 DEF Dividend, Enter
  <2> DEFINE amount == IF book.stock.quantity > 0 THEN a ELSE -a
  <2>2. amount \in Int
    <3>1. a \in Int /\ -a \in Int
      BY DEF Entries
    <3> QED BY <3>1
  <2>3. book' = ReceiveDividend(book, amount)
    BY <2>1
  <2> HIDE DEF amount
  <2>4. SoundBook(ReceiveDividend(book, amount), contributed)
    BY <2>1, <2>2, DividendSound
  <2> QED BY <2>1, <2>3, <2>4
<1>6. CASE Split
  <2>1. PICK r \in Ratios, p \in Prices :
          /\ book' = SplitStock(book, r, Prorate(p, SplitRest(book.stock.quantity, r), r[2]))
          /\ contributed' = contributed
          /\ book.stock.quantity # 0
    BY <1>6 DEF Split, Enter
  <2>2. PICK n \in Nat \ {0}, m \in Nat \ {0} : r = <<n, m>> /\ r[2] = m
    BY DEF Entries
  <2>3. SplitRest(book.stock.quantity, <<n, m>>) \in Int
    <3>1. SoundHolding(book.stock)
      BY DEF SoundBook
    <3> QED BY <2>1, <3>1, SplitHolding
  <2>4. Prorate(p, SplitRest(book.stock.quantity, r), r[2]) \in Int
    <3>1. p \in Int
      BY DEF Entries
    <3> QED BY <2>2, <2>3, <3>1, ProrateType
  <2> QED BY <2>1, <2>2, <2>4, SplitSound
<1>7. CASE Credit
  <2>1. PICK a \in Amounts : book' = [book EXCEPT !.cash = @ + a] /\ contributed' = contributed + a
    BY <1>7 DEF Credit, Enter
  <2> QED BY <2>1, CashSound DEF Entries
<1>8. CASE Withdraw
  <2>1. PICK a \in Amounts : book' = [book EXCEPT !.cash = @ - a] /\ contributed' = contributed - a
    BY <1>8 DEF Withdraw, Enter
  <2>2. a \in Int /\ -a \in Int /\ book.cash \in Int /\ contributed \in Int
    BY DEF Entries, SoundBook
  <2>3. book.cash - a = book.cash + (-a) /\ contributed - a = contributed + (-a)
    BY <2>2
  <2>4. book' = [book EXCEPT !.cash = @ + (-a)] /\ contributed' = contributed + (-a)
    BY <2>1, <2>3
  <2> QED BY <2>2, <2>4, CashSound
<1>9. CASE UNCHANGED vars
  BY <1>9 DEF vars
<1> QED BY <1>1, <1>2, <1>3, <1>4, <1>5, <1>6, <1>7, <1>8, <1>9 DEF Next

LEMMA SoundIsBooksSound == ASSUME SoundBook(book, contributed) PROVE BooksSound
BY DEF SoundBook, SoundHolding, BooksSound, Balanced, Restorable

(* After any sequence of trades, reversals, settlements, splits, payments,
   capital and payouts the ledger (src/trading/ledger.cpp) balances to the
   micro-dollar and is one that Ledger::restore accepts. *)
THEOREM BooksAlwaysSound == ASSUME Entries PROVE Spec => []BooksSound
<1>1. Init => SoundBook(book, contributed)
  BY OpenedSound
<1>2. SoundBook(book, contributed) /\ [Next]_vars => SoundBook(book, contributed)'
  BY StepSound
<1>3. SoundBook(book, contributed) => BooksSound
  BY SoundIsBooksSound
<1> QED BY <1>1, <1>2, <1>3, PTL DEF Spec

-----------------------------------------------------------------------------
(* Pairs of share orders *)

LEMMA LeastNumber == ASSUME NEW Broken, Broken \subseteq Nat, Broken # {} PROVE \E u \in Broken : \A v \in Broken : u <= v
<1> DEFINE less == OpToRel(<, Nat)
<1>1. IsWellFoundedOn(less, Nat)
  BY NatLessThanWellFounded
<1>2. less = {ss \in Nat \X Nat : ss[1] < ss[2]}
  BY DEF OpToRel
<1> HIDE DEF less
<1>3. PICK u \in Broken : \A y \in Broken : ~ (<<y, u>> \in less)
  BY <1>1, WFMin
<1>4. ASSUME NEW v \in Broken PROVE u <= v
  <2>1. <<v, u>> \in Nat \X Nat
    OBVIOUS
  <2>2. ~ (<<v, u>>[1] < <<v, u>>[2])
    BY <1>2, <1>3, <2>1, Zenon
  <2>3. ~ (v < u) /\ v \in Nat /\ u \in Nat
    BY <2>2
  <2> QED BY <2>3
<1> QED BY <1>4

IsSeq(s) == \E S : s \in Seq(S)
ShareFields == {"time", "mark", "halt", "held", "orders", "locked", "exposed", "orphans"}
ShareOrder == {"side", "shares", "limit", "stop", "extended", "stopLoss", "takeProfit", "role", "status", "accepted",
               "dayEnd", "oco"}
ShareStatuses == {"working", "armed", "filled", "cancelled", "rejected"}
Numbers(os) == 1 .. Len(os)

\* What an order of `os' has for a partner has it for one, and ends with its fill.
Matched(os, i) ==
  /\ DOMAIN os[i] = ShareOrder /\ os[i].oco \in 0 .. Len(os) /\ os[i].status \in ShareStatuses
  /\ os[i].oco # 0 => /\ os[i].oco # i /\ os[os[i].oco].oco = i
                      /\ os[i].status = "filled" => os[os[i].oco].status \in {"cancelled", "rejected"}
PairsMatch(s) ==
  /\ DOMAIN s = ShareFields /\ IsSeq(s.orders)
  /\ \A i \in Numbers(s.orders) : Matched(s.orders, i)

LEMMA SequenceNumbers == ASSUME NEW s, IsSeq(s) PROVE DOMAIN s = Numbers(s) /\ Len(s) \in Nat
  BY DEF IsSeq, Numbers

LEMMA AppendedSequence ==
  ASSUME NEW s, IsSeq(s), NEW x
  PROVE  /\ IsSeq(Append(s, x)) /\ Len(s) \in Nat /\ Len(Append(s, x)) = Len(s) + 1
         /\ \A n \in Numbers(s) : Append(s, x)[n] = s[n]
         /\ Append(s, x)[Len(s) + 1] = x
<1>1. PICK S : s \in Seq(S)
  BY DEF IsSeq
<1>2. s \in Seq(S \cup {x})
  <2>1. Len(s) \in Nat /\ \A n \in 1 .. Len(s) : s[n] \in S \cup {x}
    BY <1>1
  <2> QED
    BY <1>1, <2>1
<1>3. Append(s, x) \in Seq(S \cup {x})
  BY <1>2
<1> QED
  BY <1>2, <1>3 DEF IsSeq, Numbers

\* A function on the numbers of a sequence is a sequence as long.
LEMMA RewrittenSequence ==
  ASSUME NEW s, IsSeq(s), NEW t, DOMAIN t = DOMAIN s, t = [i \in DOMAIN t |-> t[i]]
  PROVE  IsSeq(t) /\ Len(t) = Len(s)
<1> DEFINE Broken == {t[i] : i \in DOMAIN t}
<1>1. DOMAIN t = 1 .. Len(s) /\ Len(s) \in Nat
  BY SequenceNumbers DEF Numbers
<1>2. t \in [1 .. Len(s) -> Broken]
  BY <1>1
<1>3. t \in Seq(Broken) /\ Len(t) = Len(s)
  BY <1>1, <1>2
<1> QED BY <1>3 DEF IsSeq

\* Statuses may change while no order fills and none that ended opens again.
LEMMA StatusesKeepPairs ==
  ASSUME NEW s, PairsMatch(s), NEW t, DOMAIN t = ShareFields,
         DOMAIN t.orders = DOMAIN s.orders, t.orders = [i \in DOMAIN t.orders |-> t.orders[i]],
         \A i \in DOMAIN s.orders :
           /\ DOMAIN t.orders[i] = ShareOrder /\ t.orders[i].oco = s.orders[i].oco
           /\ \/ t.orders[i].status = s.orders[i].status
              \/ A!Open(s.orders[i]) /\ t.orders[i].status \in {"working", "cancelled", "rejected"}
  PROVE  PairsMatch(t) /\ Len(t.orders) = Len(s.orders)
<1>1. IsSeq(t.orders) /\ Len(t.orders) = Len(s.orders) /\ DOMAIN s.orders = Numbers(s.orders) /\ Len(s.orders) \in Nat
  BY RewrittenSequence, SequenceNumbers DEF PairsMatch
<1>2. ASSUME NEW i \in Numbers(s.orders) PROVE Matched(t.orders, i)
  <2> DEFINE o == s.orders[i]
             p == t.orders[i]
  <2>1. Matched(s.orders, i) /\ DOMAIN p = ShareOrder /\ p.oco = o.oco /\ p.status \in ShareStatuses
    BY <1>1, <1>2 DEF PairsMatch, Matched, ShareStatuses
  <2>2. ASSUME o.oco # 0
        PROVE  /\ o.oco # i /\ t.orders[o.oco].oco = i
               /\ p.status = "filled" => t.orders[o.oco].status \in {"cancelled", "rejected"}
    <3>1. o.oco \in DOMAIN s.orders /\ o.oco # i /\ s.orders[o.oco].oco = i
      BY <1>1, <2>1, <2>2 DEF Matched, Numbers
    <3>2. ASSUME p.status = "filled" PROVE t.orders[o.oco].status \in {"cancelled", "rejected"}
      <4>1. o.status = "filled"
        BY <1>1, <1>2, <3>2
      <4>2. s.orders[o.oco].status \in {"cancelled", "rejected"}
        BY <2>1, <2>2, <4>1 DEF Matched
      <4>3. ~A!Open(s.orders[o.oco])
        BY <4>2 DEF A!Open
      <4> QED BY <3>1, <4>2, <4>3
    <3> QED BY <3>1, <3>2
  <2> QED BY <1>1, <2>1, <2>2 DEF Matched
<1> QED BY <1>1, <1>2 DEF PairsMatch, Numbers

LEMMA EndedPairs ==
  ASSUME NEW s, PairsMatch(s), NEW id \in 0 .. Len(s.orders), NEW status \in {"cancelled", "rejected"}
  PROVE  PairsMatch(A!Ended(s, id, status)) /\ Len(A!Ended(s, id, status).orders) = Len(s.orders)
<1>1. CASE ~(id # 0 /\ A!Open(s.orders[id]))
  BY <1>1 DEF A!Ended, A!None
<1>2. CASE id # 0 /\ A!Open(s.orders[id])
  <2> DEFINE t == [s EXCEPT !.orders[id].status = status]
  <2>1. A!Ended(s, id, status) = t
    BY <1>2 DEF A!Ended, A!None
  <2>2. /\ DOMAIN s.orders = Numbers(s.orders) /\ Len(s.orders) \in Nat /\ id \in DOMAIN s.orders
        /\ DOMAIN s = ShareFields /\ \A i \in DOMAIN s.orders : Matched(s.orders, i)
    BY <1>2, SequenceNumbers DEF PairsMatch, Numbers
  <2>3. DOMAIN t = ShareFields /\ t.orders = [s.orders EXCEPT ![id] = [@ EXCEPT !.status = status]]
    BY <2>2 DEF ShareFields
  <2>4. ASSUME NEW i \in DOMAIN s.orders
        PROVE  /\ DOMAIN t.orders[i] = ShareOrder /\ t.orders[i].oco = s.orders[i].oco
               /\ \/ t.orders[i].status = s.orders[i].status
                  \/ A!Open(s.orders[i]) /\ t.orders[i].status \in {"working", "cancelled", "rejected"}
    BY <1>2, <2>2, <2>3, <2>4 DEF Matched, ShareOrder
  <2>5. DOMAIN t.orders = DOMAIN s.orders /\ t.orders = [i \in DOMAIN t.orders |-> t.orders[i]]
    BY <2>3
  <2> HIDE DEF t
  <2>6. PairsMatch(t) /\ Len(t.orders) = Len(s.orders)
    BY <2>3, <2>4, <2>5, StatusesKeepPairs
  <2> QED BY <2>1, <2>6
<1> QED BY <1>1, <1>2

LEMMA AllEndedPairs ==
  ASSUME NEW s, PairsMatch(s), NEW ids
  PROVE  PairsMatch(A!AllEnded(s, ids)) /\ Len(A!AllEnded(s, ids).orders) = Len(s.orders)
<1> DEFINE t == A!AllEnded(s, ids)
<1>1. /\ DOMAIN s.orders = Numbers(s.orders) /\ DOMAIN s = ShareFields
      /\ \A i \in DOMAIN s.orders : DOMAIN s.orders[i] = ShareOrder
  BY SequenceNumbers DEF PairsMatch, Matched
<1>2. /\ DOMAIN t = ShareFields
      /\ t.orders = [i \in DOMAIN s.orders |->
           IF i \in ids /\ A!Open(s.orders[i]) THEN [s.orders[i] EXCEPT !.status = "cancelled"] ELSE s.orders[i]]
  BY <1>1 DEF A!AllEnded, ShareFields
<1>3. ASSUME NEW i \in DOMAIN s.orders
      PROVE  /\ DOMAIN t.orders[i] = ShareOrder /\ t.orders[i].oco = s.orders[i].oco
             /\ \/ t.orders[i].status = s.orders[i].status
                \/ A!Open(s.orders[i]) /\ t.orders[i].status \in {"working", "cancelled", "rejected"}
  BY <1>1, <1>2 DEF ShareOrder
<1>4. DOMAIN t.orders = DOMAIN s.orders /\ t.orders = [i \in DOMAIN t.orders |-> t.orders[i]]
  BY <1>2
<1> HIDE DEF t
<1>5. PairsMatch(t) /\ Len(t.orders) = Len(s.orders)
  BY <1>2, <1>3, <1>4, StatusesKeepPairs
<1> QED BY <1>5 DEF t

\* A field that is no order's leaves the pairs alone.
LEMMA SameOrdersPairs ==
  ASSUME NEW s, PairsMatch(s), NEW t, DOMAIN t = ShareFields, t.orders = s.orders
  PROVE  PairsMatch(t)
  BY DEF PairsMatch

LEMMA TradedPairs ==
  ASSUME NEW s, PairsMatch(s), NEW signed
  PROVE  PairsMatch(A!Traded(s, signed)) /\ A!Traded(s, signed).orders = s.orders
<1>1. DOMAIN s = ShareFields
  BY DEF PairsMatch
<1>2. DOMAIN A!Traded(s, signed) = ShareFields /\ A!Traded(s, signed).orders = s.orders
  BY <1>1 DEF A!Traded, ShareFields
<1> QED BY <1>2, SameOrdersPairs

\* A new order has no partner and is open.
LEMMA PlacedPairs ==
  ASSUME NEW s, PairsMatch(s), NEW r, NEW role
  PROVE  LET t == A!Placed(s, r, role) IN
         /\ PairsMatch(t) /\ Len(t.orders) = Len(s.orders) + 1 /\ Len(s.orders) \in Nat
         /\ t.orders[Len(t.orders)].oco = 0 /\ t.orders[Len(t.orders)].status # "filled"
         /\ \A i \in Numbers(s.orders) : t.orders[i] = s.orders[i]
<1> DEFINE t == A!Placed(s, r, role)
           o == [side |-> r.side, shares |-> r.shares, limit |-> r.limit, stop |-> r.stop, extended |-> r.extended,
                 stopLoss |-> r.stopLoss, takeProfit |-> r.takeProfit, role |-> role,
                 status |-> IF r.stop # A!None THEN "armed" ELSE "working",
                 accepted |-> s.time, dayEnd |-> A!DayEnd(r, s.time), oco |-> A!None]
<1>1. DOMAIN s = ShareFields /\ IsSeq(s.orders)
  BY DEF PairsMatch
<1>2. DOMAIN t = ShareFields /\ t.orders = Append(s.orders, o)
  BY <1>1 DEF A!Placed, ShareFields
<1>3. DOMAIN o = ShareOrder /\ o.oco = 0 /\ o.status # "filled" /\ o.status \in ShareStatuses
  BY DEF ShareOrder, ShareStatuses, A!None
<1> HIDE DEF o, t
<1>4. /\ IsSeq(t.orders) /\ Len(s.orders) \in Nat /\ Len(t.orders) = Len(s.orders) + 1
      /\ \A i \in Numbers(s.orders) : t.orders[i] = s.orders[i]
      /\ t.orders[Len(s.orders) + 1] = o
  <2> DEFINE q == s.orders
  <2>1. IsSeq(q)
    BY <1>1
  <2> HIDE DEF q
  <2>2. /\ IsSeq(Append(q, o)) /\ Len(q) \in Nat /\ Len(Append(q, o)) = Len(q) + 1
        /\ \A n \in Numbers(q) : Append(q, o)[n] = q[n]
        /\ Append(q, o)[Len(q) + 1] = o
    BY <2>1, AppendedSequence
  <2>3. t.orders = Append(q, o)
    BY <1>2 DEF q
  <2> DEFINE p == Append(q, o)
  <2> HIDE DEF p
  <2>4. /\ IsSeq(p) /\ Len(q) \in Nat /\ Len(p) = Len(q) + 1
        /\ \A n \in Numbers(q) : p[n] = q[n]
        /\ p[Len(q) + 1] = o
    BY <2>2, Zenon DEF p
  <2>5. t.orders = p
    BY <2>3 DEF p
  <2> QED BY <2>4, <2>5 DEF q
<1>5. ASSUME NEW i \in Numbers(t.orders) PROVE Matched(t.orders, i)
  <2>1. CASE i = Len(s.orders) + 1
    BY <1>3, <1>4, <2>1 DEF Matched
  <2>2. CASE i # Len(s.orders) + 1
    <3>1. i \in Numbers(s.orders) /\ Matched(s.orders, i) /\ t.orders[i] = s.orders[i]
      BY <1>4, <1>5, <2>2 DEF Numbers, PairsMatch
    <3>2. s.orders[i].oco # 0 =>
            s.orders[i].oco \in Numbers(s.orders) /\ t.orders[s.orders[i].oco] = s.orders[s.orders[i].oco]
      BY <1>4, <3>1 DEF Matched, Numbers
    <3> QED BY <1>4, <3>1, <3>2 DEF Matched
  <2> QED BY <2>1, <2>2
<1>6. PairsMatch(t)
  BY <1>2, <1>4, <1>5 DEF PairsMatch
<1>7. t.orders[Len(t.orders)] = o
  BY <1>4
<1> QED BY <1>3, <1>4, <1>6, <1>7 DEF t

LEMMA PairedPairs ==
  ASSUME NEW s, PairsMatch(s), NEW a \in Numbers(s.orders), NEW b \in Numbers(s.orders), a # b,
         s.orders[a].oco = 0, s.orders[b].oco = 0, s.orders[a].status # "filled", s.orders[b].status # "filled"
  PROVE  PairsMatch(A!Paired(s, a, b)) /\ Len(A!Paired(s, a, b).orders) = Len(s.orders)
<1> DEFINE t == A!Paired(s, a, b)
<1>1. /\ DOMAIN s.orders = Numbers(s.orders) /\ DOMAIN s = ShareFields /\ Len(s.orders) \in Nat /\ IsSeq(s.orders)
      /\ \A i \in DOMAIN s.orders : Matched(s.orders, i)
  BY SequenceNumbers DEF PairsMatch
<1>2. /\ DOMAIN t = ShareFields
      /\ t.orders = [[s.orders EXCEPT ![a] = [@ EXCEPT !.oco = b]] EXCEPT ![b] = [@ EXCEPT !.oco = a]]
  BY <1>1 DEF A!Paired, ShareFields
<1>3. /\ DOMAIN t.orders = DOMAIN s.orders /\ t.orders = [i \in DOMAIN t.orders |-> t.orders[i]]
      /\ t.orders[a] = [s.orders[a] EXCEPT !.oco = b] /\ t.orders[b] = [s.orders[b] EXCEPT !.oco = a]
      /\ \A i \in DOMAIN s.orders : i # a /\ i # b => t.orders[i] = s.orders[i]
  BY <1>1, <1>2
<1> HIDE DEF t
<1>4. IsSeq(t.orders) /\ Len(t.orders) = Len(s.orders)
  BY <1>1, <1>3, RewrittenSequence
<1>5. /\ DOMAIN t.orders[a] = ShareOrder /\ t.orders[a].oco = b /\ t.orders[a].status = s.orders[a].status
      /\ DOMAIN t.orders[b] = ShareOrder /\ t.orders[b].oco = a /\ t.orders[b].status = s.orders[b].status
  BY <1>1, <1>3 DEF Matched, ShareOrder
<1>6. ASSUME NEW i \in Numbers(t.orders) PROVE Matched(t.orders, i)
  <2>1. CASE i = a \/ i = b
    BY <1>1, <1>4, <1>5, <2>1 DEF Matched, Numbers
  <2>2. CASE i # a /\ i # b
    <3>1. i \in DOMAIN s.orders /\ Matched(s.orders, i) /\ t.orders[i] = s.orders[i]
      BY <1>1, <1>3, <1>4, <1>6, <2>2 DEF Numbers
    <3> DEFINE j == s.orders[i].oco
    <3>2. ASSUME j # 0 PROVE j \in DOMAIN s.orders /\ j # a /\ j # b /\ t.orders[j] = s.orders[j]
      <4>1. j \in DOMAIN s.orders /\ s.orders[j].oco = i /\ i \in 1 .. Len(s.orders)
        BY <1>1, <3>1, <3>2 DEF Matched, Numbers
      <4>2. j # a /\ j # b
        BY <4>1
      <4> QED BY <1>3, <4>1, <4>2
    <3> QED BY <1>4, <3>1, <3>2 DEF Matched
  <2> QED BY <2>1, <2>2
<1>7. PairsMatch(t)
  BY <1>2, <1>4, <1>6 DEF PairsMatch
<1> QED BY <1>4, <1>7 DEF t

LEMMA BracketedPairs ==
  ASSUME NEW s, PairsMatch(s), NEW id
  PROVE  PairsMatch(A!Bracketed(s, id)) /\ Len(s.orders) <= Len(A!Bracketed(s, id).orders)
<1> DEFINE entry == s.orders[id]
           stop == [A!ExitOf(entry) EXCEPT !.stop = entry.stopLoss]
           target == [A!ExitOf(entry) EXCEPT !.limit = entry.takeProfit]
           first == A!Placed(s, stop, "stop")
           stopped == IF entry.stopLoss = A!None THEN s ELSE first
           second == A!Placed(stopped, target, "target")
           both == IF entry.takeProfit = A!None THEN stopped ELSE second
           r == IF entry.stopLoss # A!None /\ entry.takeProfit # A!None
                THEN A!Paired(both, Len(both.orders) - 1, Len(both.orders)) ELSE both
<1>0. A!Bracketed(s, id) = r
  BY DEF A!Bracketed
<1> HIDE DEF stop, target
<1>a. /\ PairsMatch(first) /\ Len(first.orders) = Len(s.orders) + 1 /\ Len(s.orders) \in Nat
      /\ first.orders[Len(first.orders)].oco = 0 /\ first.orders[Len(first.orders)].status # "filled"
  BY PlacedPairs
<1> HIDE DEF first
<1>1. /\ PairsMatch(stopped) /\ Len(stopped.orders) \in Nat /\ Len(s.orders) \in Nat
      /\ Len(s.orders) <= Len(stopped.orders)
      /\ entry.stopLoss # A!None => /\ Len(stopped.orders) = Len(s.orders) + 1
                               /\ stopped.orders[Len(stopped.orders)].oco = 0
                               /\ stopped.orders[Len(stopped.orders)].status # "filled"
  BY <1>a
<1> HIDE DEF stopped
<1>b. /\ PairsMatch(second) /\ Len(second.orders) = Len(stopped.orders) + 1
      /\ second.orders[Len(second.orders)].oco = 0 /\ second.orders[Len(second.orders)].status # "filled"
      /\ \A i \in Numbers(stopped.orders) : second.orders[i] = stopped.orders[i]
  BY <1>1, PlacedPairs
<1> HIDE DEF second
<1>2. /\ PairsMatch(both) /\ Len(both.orders) \in Nat /\ Len(stopped.orders) <= Len(both.orders)
      /\ entry.takeProfit # A!None => /\ Len(both.orders) = Len(stopped.orders) + 1
                                 /\ both.orders[Len(both.orders)].oco = 0
                                 /\ both.orders[Len(both.orders)].status # "filled"
                                 /\ \A i \in Numbers(stopped.orders) : both.orders[i] = stopped.orders[i]
  BY <1>1, <1>b
<1> HIDE DEF both
<1>3. CASE entry.stopLoss # A!None /\ entry.takeProfit # A!None
  <2> DEFINE a == Len(both.orders) - 1
             b == Len(both.orders)
  <2>1. a = Len(stopped.orders) /\ a \in Numbers(stopped.orders) /\ a \in Numbers(both.orders)
        /\ b \in Numbers(both.orders) /\ a # b
    BY <1>1, <1>2, <1>3 DEF Numbers
  <2>2. both.orders[a].oco = 0 /\ both.orders[a].status # "filled"
    BY <1>1, <1>2, <1>3, <2>1
  <2>3. both.orders[b].oco = 0 /\ both.orders[b].status # "filled"
    BY <1>2, <1>3
  <2> HIDE DEF a, b
  <2>4. PairsMatch(A!Paired(both, a, b)) /\ Len(A!Paired(both, a, b).orders) = Len(both.orders)
    BY <1>2, <2>1, <2>2, <2>3, PairedPairs
  <2> QED BY <1>0, <1>1, <1>2, <1>3, <2>4 DEF a, b
<1>4. CASE ~(entry.stopLoss # A!None /\ entry.takeProfit # A!None)
  BY <1>0, <1>1, <1>2, <1>4
<1> QED BY <1>3, <1>4

\* The state with the fill of an order, before its partner ends.
FillOf(s, id, signed, n) ==
  [A!Traded([s EXCEPT !.orders[id].status = "filled"], signed) EXCEPT !.orders[id].shares = n]

\* A fill of an open order ends its partner.
LEMMA FilledPairs ==
  ASSUME NEW s, PairsMatch(s), NEW id \in Numbers(s.orders), A!Open(s.orders[id]), NEW signed, NEW n
  PROVE  /\ PairsMatch(A!Ended(FillOf(s, id, signed, n), s.orders[id].oco, "cancelled"))
         /\ Len(A!Ended(FillOf(s, id, signed, n), s.orders[id].oco, "cancelled").orders) = Len(s.orders)
<1> DEFINE o == s.orders[id]
           filling == [s EXCEPT !.orders[id].status = "filled"]
           moved == A!Traded(filling, signed)
           u == [moved EXCEPT !.orders[id].shares = n]
           j == o.oco
           t == A!Ended(u, j, "cancelled")
<1>1. /\ DOMAIN s.orders = Numbers(s.orders) /\ Len(s.orders) \in Nat /\ DOMAIN s = ShareFields
      /\ \A i \in DOMAIN s.orders : Matched(s.orders, i)
  BY SequenceNumbers DEF PairsMatch
<1>2. DOMAIN filling = ShareFields /\ filling.orders = [s.orders EXCEPT ![id] = [@ EXCEPT !.status = "filled"]]
  BY <1>1 DEF ShareFields
<1> HIDE DEF filling
<1>3. DOMAIN moved = ShareFields /\ moved.orders = filling.orders
  BY <1>2 DEF A!Traded, ShareFields
<1> HIDE DEF moved
<1>4. DOMAIN u = ShareFields /\ u.orders = [moved.orders EXCEPT ![id] = [@ EXCEPT !.shares = n]]
  BY <1>3 DEF ShareFields
<1> HIDE DEF u
<1>5. /\ DOMAIN u.orders = DOMAIN s.orders /\ u.orders = [i \in DOMAIN u.orders |-> u.orders[i]]
      /\ \A i \in DOMAIN s.orders : i # id => u.orders[i] = s.orders[i]
  BY <1>1, <1>2, <1>3, <1>4
<1>6. id \in DOMAIN s.orders /\ Matched(s.orders, id)
  BY <1>1
<1>7. /\ DOMAIN u.orders[id] = ShareOrder /\ u.orders[id].oco = j /\ u.orders[id].status = "filled"
  <2>1. u.orders[id] = [[o EXCEPT !.status = "filled"] EXCEPT !.shares = n]
    <3>1. filling.orders[id] = [o EXCEPT !.status = "filled"]
      BY <1>2, <1>6
    <3>2. id \in DOMAIN moved.orders /\ moved.orders[id] = filling.orders[id]
      BY <1>2, <1>3, <1>6
    <3> QED BY <1>4, <3>1, <3>2
  <2> QED BY <1>6, <2>1 DEF Matched, ShareOrder
<1>8. j \in 0 .. Len(s.orders) /\ (j # 0 => j # id /\ j \in DOMAIN s.orders /\ s.orders[j].oco = id /\ Matched(s.orders, j))
  BY <1>1, <1>6 DEF Matched, Numbers
<1>9. ASSUME j # 0 PROVE s.orders[j].status # "filled"
  <2>1. s.orders[j].oco # 0 /\ s.orders[s.orders[j].oco].status \notin {"cancelled", "rejected"}
    BY <1>1, <1>8, <1>9 DEF Numbers, A!Open
  <2> QED BY <1>8, <1>9, <2>1 DEF Matched
<1> DEFINE ending == j # 0 /\ A!Open(u.orders[j])
<1>10. /\ DOMAIN t = ShareFields
       /\ t.orders = IF ending THEN [u.orders EXCEPT ![j] = [@ EXCEPT !.status = "cancelled"]] ELSE u.orders
  BY <1>4 DEF A!Ended, A!None, ShareFields
<1> HIDE DEF t
<1>11. /\ DOMAIN t.orders = DOMAIN s.orders /\ t.orders = [i \in DOMAIN t.orders |-> t.orders[i]]
       /\ \A i \in DOMAIN s.orders : i # id /\ i # j => t.orders[i] = s.orders[i]
       /\ t.orders[id] = u.orders[id]
  BY <1>5, <1>6, <1>8, <1>10
<1>12. ASSUME j # 0
       PROVE  /\ DOMAIN t.orders[j] = ShareOrder /\ t.orders[j].oco = id
              /\ t.orders[j].status \in {"cancelled", "rejected"}
  <2>1. u.orders[j] = s.orders[j] /\ s.orders[j].status \in ShareStatuses /\ s.orders[j].status # "filled"
        /\ DOMAIN s.orders[j] = ShareOrder /\ s.orders[j].oco = id
    BY <1>5, <1>8, <1>9, <1>12 DEF Matched
  <2>2. CASE A!Open(u.orders[j])
    <3>1. t.orders[j] = [u.orders[j] EXCEPT !.status = "cancelled"]
      BY <1>5, <1>8, <1>10, <1>12, <2>2
    <3> QED BY <2>1, <3>1 DEF ShareOrder
  <2>3. CASE ~A!Open(u.orders[j])
    <3>1. t.orders[j] = s.orders[j]
      BY <1>10, <2>1, <2>3
    <3> QED BY <2>1, <2>3, <3>1 DEF A!Open, ShareStatuses
  <2> QED BY <2>2, <2>3
<1>13. IsSeq(t.orders) /\ Len(t.orders) = Len(s.orders)
  BY <1>11, RewrittenSequence DEF PairsMatch
<1>14. ASSUME NEW i \in Numbers(t.orders) PROVE Matched(t.orders, i)
  <2>1. i \in DOMAIN s.orders
    BY <1>1, <1>13 DEF Numbers
  <2>2. CASE i = id
    BY <1>7, <1>8, <1>11, <1>12, <1>13, <2>2 DEF Matched, ShareStatuses
  <2>3. CASE i # id /\ i = j
    <3>1. j # 0 /\ id \in 0 .. Len(t.orders)
      BY <1>1, <1>13, <2>1, <2>3 DEF Numbers
    <3> QED BY <1>7, <1>11, <1>12, <2>3, <3>1 DEF Matched, ShareStatuses
  <2>4. CASE i # id /\ i # j
    <3> DEFINE k == s.orders[i].oco
    <3>1. Matched(s.orders, i) /\ t.orders[i] = s.orders[i]
      BY <1>1, <1>11, <2>1, <2>4
    <3>2. ASSUME k # 0 PROVE t.orders[k] = s.orders[k]
      <4>1. k \in DOMAIN s.orders /\ s.orders[k].oco = i
        BY <1>1, <3>1, <3>2 DEF Matched, Numbers
      <4>2. k # id /\ k # j
        BY <1>1, <1>8, <2>4, <4>1, <2>1 DEF Numbers
      <4> QED BY <1>11, <4>1, <4>2
    <3> QED BY <1>13, <3>1, <3>2 DEF Matched
  <2> QED BY <2>2, <2>3, <2>4
<1>15. PairsMatch(t)
  BY <1>10, <1>13, <1>14 DEF PairsMatch
<1>16. u = FillOf(s, id, signed, n)
  BY DEF u, moved, filling, FillOf
<1> QED BY <1>13, <1>15, <1>16 DEF t

LEMMA ExecutedPairs ==
  ASSUME NEW s, PairsMatch(s), NEW id \in Numbers(s.orders), A!Open(s.orders[id]), NEW n, NEW luck
  PROVE  PairsMatch(A!Executed(s, id, n, luck)) /\ Len(s.orders) <= Len(A!Executed(s, id, n, luck).orders)
<1> DEFINE o == s.orders[id]
           signed == A!Signed(o.side, n)
           u == FillOf(s, id, signed, n)
           filled == A!Ended(u, o.oco, "cancelled")
           rejected == A!Ended(s, id, "rejected")
           exposed == [rejected EXCEPT !.exposed = @ \/ o.role = "stop"]
           bracketed == A!Bracketed(filled, id)
<1>1. A!Executed(s, id, n, luck) \in {s, exposed, filled, bracketed}
  <2> HIDE DEF exposed, bracketed
  <2> QED BY DEF A!Executed, A!Partner, FillOf, exposed, bracketed
<1>2. PairsMatch(filled) /\ Len(filled.orders) = Len(s.orders) /\ Len(s.orders) \in Nat
  <2> HIDE DEF signed
  <2>1. Len(s.orders) \in Nat
    BY SequenceNumbers DEF PairsMatch
  <2> QED BY <2>1, FilledPairs
<1> HIDE DEF filled
<1>3. PairsMatch(bracketed) /\ Len(s.orders) <= Len(bracketed.orders)
  BY <1>2, BracketedPairs
<1>4. PairsMatch(rejected) /\ Len(rejected.orders) = Len(s.orders)
  BY <1>2, EndedPairs DEF Numbers
<1> HIDE DEF rejected, bracketed
<1>5. DOMAIN exposed = ShareFields /\ exposed.orders = rejected.orders
  BY <1>4 DEF PairsMatch, ShareFields
<1> HIDE DEF exposed
<1>6. PairsMatch(exposed)
  BY <1>4, <1>5, SameOrdersPairs
<1> QED BY <1>1, <1>2, <1>3, <1>4, <1>5, <1>6

LEMMA VisitedPairs ==
  ASSUME NEW s, PairsMatch(s), NEW id \in Numbers(s.orders), NEW accepting, NEW luck
  PROVE  PairsMatch(A!Visited(s, id, accepting, luck)) /\ Len(s.orders) <= Len(A!Visited(s, id, accepting, luck).orders)
<1> DEFINE o == s.orders[id]
           t == [s EXCEPT !.orders[id].status = "working"]
           n == IF A!Exit(o) THEN A!Least(o.shares, A!Available(s, o)) ELSE o.shares
           ended == A!Ended(s, id, "cancelled")
           executed == A!Executed(t, id, n, luck)
<1>1. /\ DOMAIN s.orders = Numbers(s.orders) /\ Len(s.orders) \in Nat /\ DOMAIN s = ShareFields
      /\ \A i \in DOMAIN s.orders : Matched(s.orders, i)
  BY SequenceNumbers DEF PairsMatch
<1>2. PairsMatch(ended) /\ Len(ended.orders) = Len(s.orders)
  BY <1>1, EndedPairs DEF Numbers
<1>3. ASSUME A!Open(o) PROVE PairsMatch(t) /\ Len(t.orders) = Len(s.orders) /\ A!Open(t.orders[id])
  <2>1. DOMAIN t = ShareFields /\ t.orders = [s.orders EXCEPT ![id] = [@ EXCEPT !.status = "working"]]
    BY <1>1 DEF ShareFields
  <2> HIDE DEF t
  <2>2. ASSUME NEW i \in DOMAIN s.orders
        PROVE  /\ DOMAIN t.orders[i] = ShareOrder /\ t.orders[i].oco = s.orders[i].oco
               /\ \/ t.orders[i].status = s.orders[i].status
                  \/ A!Open(s.orders[i]) /\ t.orders[i].status \in {"working", "cancelled", "rejected"}
    BY <1>1, <1>3, <2>1 DEF Matched, ShareOrder
  <2>3. DOMAIN t.orders = DOMAIN s.orders /\ t.orders = [i \in DOMAIN t.orders |-> t.orders[i]]
    BY <2>1
  <2>4. PairsMatch(t) /\ Len(t.orders) = Len(s.orders)
    BY <2>1, <2>2, <2>3, StatusesKeepPairs
  <2>5. t.orders[id].status = "working"
    BY <1>1, <2>1 DEF Matched, ShareOrder
  <2> QED BY <2>4, <2>5 DEF A!Open
<1>4. ASSUME A!Open(o) PROVE PairsMatch(executed) /\ Len(s.orders) <= Len(executed.orders)
  <2> HIDE DEF t, n
  <2>1. id \in Numbers(t.orders)
    BY <1>3, <1>4 DEF Numbers
  <2> QED BY <1>3, <1>4, <2>1, ExecutedPairs
<1>5. A!Visited(s, id, accepting, luck) \in {s, ended} \/ (A!Open(o) /\ A!Visited(s, id, accepting, luck) \in {t, executed})
  <2> HIDE DEF t, ended, executed
  <2> QED BY DEF A!Visited, t, ended, executed
<1> HIDE DEF t, ended, executed
<1> QED BY <1>1, <1>2, <1>3, <1>4, <1>5

\* A pass over the orders with the first n numbers.
VisitedNext(t, id, luck) == IF id \in DOMAIN t.orders THEN A!Visited(t, id, FALSE, luck) ELSE t
Passes(f, s, luck, n) == f = [id \in 0 .. n |-> IF id = 0 THEN s ELSE VisitedNext(f[id - 1], id, luck)]

LEMMA PassExists == ASSUME NEW s, NEW luck, NEW n \in Nat PROVE \E f : Passes(f, s, luck, n)
<1> DEFINE Broken == {k \in Nat : ~ \E f : Passes(f, s, luck, k)}
<1> SUFFICES ASSUME Broken # {} PROVE FALSE
  OBVIOUS
<1>1. PICK k \in Broken : \A j \in Broken : k <= j
  BY LeastNumber
<1>2. k \in Nat /\ ~ \E f : Passes(f, s, luck, k)
  OBVIOUS
<1>3. CASE k = 0
  <2>1. Passes([id \in 0 .. 0 |-> s], s, luck, 0)
    BY DEF Passes
  <2> QED BY <1>2, <1>3, <2>1
<1>4. CASE k # 0
  <2>1. k - 1 \in Nat /\ k - 1 \notin Broken
    BY <1>1, <1>2, <1>4
  <2>2. PICK f : Passes(f, s, luck, k - 1)
    BY <2>1
  <2> DEFINE h == [id \in 0 .. k |-> IF id = 0 THEN s ELSE VisitedNext(f[id - 1], id, luck)]
  <2>3. \A id \in 0 .. k - 1 : h[id] = f[id]
    BY <1>2, <2>1, <2>2 DEF Passes
  <2>4. ASSUME NEW id \in 0 .. k, id # 0
        PROVE  VisitedNext(f[id - 1], id, luck) = VisitedNext(h[id - 1], id, luck)
    <3>1. id - 1 \in 0 .. k - 1
      BY <1>2, <2>4
    <3>2. h[id - 1] = f[id - 1]
      BY <2>3, <3>1
    <3> QED BY <3>2
  <2>5. h = [id \in 0 .. k |-> IF id = 0 THEN s ELSE VisitedNext(h[id - 1], id, luck)]
    BY <2>4
  <2> QED BY <1>2, <2>5 DEF Passes
<1> QED BY <1>3, <1>4

LEMMA WorkedPairs == ASSUME NEW s, PairsMatch(s), NEW luck PROVE PairsMatch(A!Worked(s, luck))
<1> DEFINE n == A!IdBound
           pass == CHOOSE f : Passes(f, s, luck, n)
           Broken == {k \in 0 .. n : ~PairsMatch(pass[k])}
<1>1. n \in Nat
  BY SharesAssumption DEF A!IdBound
<1>2. A!Worked(s, luck) = pass[n]
  BY DEF A!Worked, Passes, VisitedNext
<1>3. Passes(pass, s, luck, n)
  BY <1>1, PassExists
<1> HIDE DEF n, pass
<1>4. ASSUME Broken # {} PROVE FALSE
  <2>1. PICK k \in Broken : \A j \in Broken : k <= j
    <3>1. Broken \subseteq Nat
      BY <1>1
    <3> HIDE DEF Broken
    <3> QED BY <1>4, <3>1, LeastNumber
  <2>2. k \in 0 .. n /\ ~PairsMatch(pass[k])
    OBVIOUS
  <2>3. pass[k] = IF k = 0 THEN s ELSE VisitedNext(pass[k - 1], k, luck)
    BY <1>3, <2>2 DEF Passes
  <2>4. k # 0
    BY <2>2, <2>3
  <2>5. PairsMatch(pass[k - 1])
    BY <1>1, <2>1, <2>2, <2>4
  <2>6. PairsMatch(VisitedNext(pass[k - 1], k, luck))
    <3>1. DOMAIN pass[k - 1].orders = Numbers(pass[k - 1].orders)
      BY <2>5, SequenceNumbers DEF PairsMatch
    <3> QED BY <2>5, <3>1, VisitedPairs DEF VisitedNext
  <2> QED BY <2>2, <2>3, <2>4, <2>6
<1> QED BY <1>1, <1>2, <1>4

\* An accepted order is in its place, with its partner.
LEMMA AcceptedPairs ==
  ASSUME NEW s, PairsMatch(s), NEW r, NEW fits
  PROVE  PairsMatch(A!Accept(s, r, fits)) /\ Len(s.orders) + 1 \in Numbers(A!Accept(s, r, fits).orders)
<1> DEFINE first == A!Placed(s, r, "normal")
           id == Len(first.orders)
           second == A!Placed(first, r.oco[1], "normal")
           paired == A!Paired(second, id, id + 1)
           ended == A!Ended(first, id, "rejected")
<1>1. A!Accept(s, r, fits) \in {first, paired, ended}
  <2> HIDE DEF paired, ended, first
  <2> QED BY DEF A!Accept, first, paired, ended
<1>2. /\ PairsMatch(first) /\ Len(first.orders) = Len(s.orders) + 1 /\ Len(s.orders) \in Nat
      /\ first.orders[id].oco = 0 /\ first.orders[id].status # "filled"
  BY PlacedPairs
<1> HIDE DEF first
<1>3. /\ PairsMatch(second) /\ Len(second.orders) = id + 1
      /\ second.orders[id + 1].oco = 0 /\ second.orders[id + 1].status # "filled"
      /\ second.orders[id] = first.orders[id]
  <2>1. id \in Numbers(first.orders)
    BY <1>2 DEF Numbers
  <2>2. /\ PairsMatch(second) /\ Len(second.orders) = id + 1
        /\ second.orders[Len(second.orders)].oco = 0 /\ second.orders[Len(second.orders)].status # "filled"
        /\ \A i \in Numbers(first.orders) : second.orders[i] = first.orders[i]
    BY <1>2, PlacedPairs
  <2> HIDE DEF second
  <2> QED BY <2>1, <2>2
<1> HIDE DEF second
<1>4. PairsMatch(paired) /\ Len(paired.orders) = Len(second.orders)
  <2>1. id \in Numbers(second.orders) /\ id + 1 \in Numbers(second.orders) /\ id # id + 1
    BY <1>2, <1>3 DEF Numbers
  <2>2. second.orders[id].oco = 0 /\ second.orders[id].status # "filled"
    BY <1>2, <1>3
  <2> QED BY <1>3, <2>1, <2>2, PairedPairs
<1>5. PairsMatch(ended) /\ Len(ended.orders) = Len(first.orders)
  <2>1. id \in 0 .. Len(first.orders)
    BY <1>2
  <2> QED BY <1>2, <2>1, EndedPairs
<1> HIDE DEF paired, ended
<1> QED BY <1>1, <1>2, <1>3, <1>4, <1>5 DEF Numbers

LEMMA WorkedAtOncePairs ==
  ASSUME NEW s, PairsMatch(s), NEW r, NEW fits, NEW luck
  PROVE  PairsMatch(A!WorkedAtOnce(s, r, fits, luck))
<1> DEFINE accepted == A!Accept(s, r, fits)
           id == Len(s.orders) + 1
           partner == accepted.orders[id].oco
           worked == A!Visited(accepted, id, TRUE, luck)
           both == A!Visited(worked, partner, TRUE, luck)
<1>1. A!WorkedAtOnce(s, r, fits, luck) = IF partner = 0 THEN worked ELSE both
  BY DEF A!WorkedAtOnce, A!None
<1>2. PairsMatch(accepted) /\ id \in Numbers(accepted.orders)
  BY AcceptedPairs
<1> HIDE DEF accepted, id
<1>3. PairsMatch(worked) /\ Len(accepted.orders) <= Len(worked.orders)
  BY <1>2, VisitedPairs
<1>4. partner \in 0 .. Len(accepted.orders)
  BY <1>2 DEF PairsMatch, Matched
<1>5. Len(accepted.orders) \in Nat /\ Len(worked.orders) \in Nat
  BY <1>2, <1>3, SequenceNumbers DEF PairsMatch
<1> HIDE DEF worked, partner
<1>6. ASSUME partner # 0 PROVE PairsMatch(both)
  <2>1. partner \in Numbers(worked.orders)
    BY <1>3, <1>4, <1>5, <1>6 DEF Numbers
  <2> QED BY <1>3, <2>1, VisitedPairs
<1> HIDE DEF both
<1> QED BY <1>1, <1>3, <1>6

LEMMA AtPairs == ASSUME PairsMatch(shareState), NEW at PROVE PairsMatch(A!At(at))
<1> DEFINE s == [shareState EXCEPT !.time = at]
<1>1. DOMAIN s = ShareFields /\ s.orders = shareState.orders
  BY DEF PairsMatch, ShareFields
<1> HIDE DEF s
<1>2. PairsMatch(s)
  BY <1>1, SameOrdersPairs
<1>3. PairsMatch(A!AllEnded(s, {i \in DOMAIN s.orders : at >= s.orders[i].dayEnd}))
  BY <1>2, AllEndedPairs
<1> QED BY <1>3 DEF A!At, s

LEMMA PrintedPairs ==
  ASSUME NEW s, PairsMatch(s), NEW price PROVE PairsMatch(A!Printed(s, price)) /\ PairsMatch(A!Fed(s, price))
<1>1. DOMAIN A!Printed(s, price) = ShareFields /\ A!Printed(s, price).orders = s.orders
  BY DEF A!Printed, PairsMatch, ShareFields
<1>2. PairsMatch(A!Printed(s, price))
  BY <1>1, SameOrdersPairs
<1> QED BY <1>2 DEF A!Fed

\* What a trade changes besides the orders may be followed by other changes.
LEMMA CommandPairs ==
  ASSUME PairsMatch(shareState), NEW at, A!Command(at) PROVE PairsMatch(shareState')
<1> DEFINE s == A!At(at)
<1>0. PairsMatch(s)
  BY AtPairs
<1>1. CASE A!OnQuotes(at)
  <2>1. PICK price \in SharePrices \union {A!None}, luck \in sharePlan.lucks :
          shareState' = A!Worked(IF price = A!None \/ at < s.halt THEN s ELSE A!Printed(s, price), luck)
    BY <1>1 DEF A!OnQuotes
  <2> HIDE DEF s
  <2> DEFINE seen == IF price = A!None \/ at < s.halt THEN s ELSE A!Printed(s, price)
  <2>2. PairsMatch(seen)
    BY <1>0, PrintedPairs
  <2> HIDE DEF seen
  <2>3. PairsMatch(A!Worked(seen, luck))
    BY <2>2, WorkedPairs
  <2> QED BY <2>1, <2>3 DEF seen
<1>2. CASE A!Submit(at)
  <2>1. PICK r \in sharePlan.offers, feed \in sharePlan.feeds, luck \in sharePlan.lucks, fits \in BOOLEAN :
          shareState' = IF A!Admitted(A!Fed(s, feed), r) THEN A!WorkedAtOnce(A!Fed(s, feed), r, fits, luck)
                        ELSE A!Fed(s, feed)
    BY <1>2 DEF A!Submit
  <2> HIDE DEF s
  <2> DEFINE fed == A!Fed(s, feed)
  <2>2. PairsMatch(fed)
    BY <1>0, PrintedPairs
  <2> HIDE DEF fed
  <2>3. PairsMatch(A!WorkedAtOnce(fed, r, fits, luck))
    BY <2>2, WorkedAtOncePairs
  <2>4. shareState' = IF A!Admitted(fed, r) THEN A!WorkedAtOnce(fed, r, fits, luck) ELSE fed
    BY <2>1 DEF fed
  <2> QED BY <2>2, <2>3, <2>4
<1>3. CASE A!Cancel(at)
  <2>1. PICK id \in DOMAIN shareState.orders : shareState' = A!Ended(s, id, "cancelled")
    BY <1>3 DEF A!Cancel
  <2>2. Len(s.orders) = Len(shareState.orders) /\ id \in 0 .. Len(s.orders)
    <3> DEFINE t == [shareState EXCEPT !.time = at]
    <3>1. DOMAIN t = ShareFields /\ t.orders = shareState.orders
      BY DEF PairsMatch, ShareFields
    <3> HIDE DEF t
    <3>2. PairsMatch(t)
      BY <3>1, SameOrdersPairs
    <3>3. Len(A!AllEnded(t, {i \in DOMAIN t.orders : at >= t.orders[i].dayEnd}).orders) = Len(t.orders)
      BY <3>2, AllEndedPairs
    <3>4. Len(s.orders) = Len(shareState.orders)
      BY <3>1, <3>3 DEF A!At, t
    <3>5. DOMAIN shareState.orders = Numbers(shareState.orders) /\ Len(shareState.orders) \in Nat
      BY SequenceNumbers DEF PairsMatch
    <3> QED BY <3>4, <3>5 DEF Numbers
  <2> HIDE DEF s
  <2> QED BY <1>0, <2>1, <2>2, EndedPairs
<1>4. CASE A!CancelAll(at)
  <2>1. shareState' = A!AllEnded(s, DOMAIN s.orders)
    BY <1>4 DEF A!CancelAll
  <2> HIDE DEF s
  <2> QED BY <1>0, <2>1, AllEndedPairs
<1>5. CASE A!TradeStock(at)
  <2>1. PICK q \in ShareTrades, feed \in sharePlan.feeds :
          shareState' \in {A!Traded(A!Fed(s, feed), q), A!Fed(s, feed)}
    BY <1>5 DEF A!TradeStock
  <2> HIDE DEF s
  <2> QED BY <1>0, <2>1, PrintedPairs, TradedPairs
<1>6. CASE A!CloseShares(at)
  <2>1. shareState' = A!Traded(s, -s.held)
    BY <1>6 DEF A!CloseShares
  <2> HIDE DEF s
  <2> QED BY <1>0, <2>1, TradedPairs
<1>7. CASE A!Deliver(at)
  <2>1. PICK q \in Delivered : shareState' = [A!Traded(s, q) EXCEPT !.exposed = TRUE]
    BY <1>7 DEF A!Deliver
  <2> HIDE DEF s
  <2>2. PairsMatch(A!Traded(s, q))
    BY <1>0, TradedPairs
  <2>3. DOMAIN shareState' = ShareFields /\ shareState'.orders = A!Traded(s, q).orders
    BY <2>1, <2>2 DEF PairsMatch, ShareFields
  <2> QED BY <2>2, <2>3, SameOrdersPairs
<1>8. CASE A!Split(at)
  <2>1. PICK r \in Splits :
          shareState' = A!AllEnded([A!Traded(s, A!Toward0(s.held * r[1], r[2]) - s.held)
                                      EXCEPT !.mark.price = (@ * r[2]) \div r[1], !.exposed = TRUE], DOMAIN s.orders)
    BY <1>8 DEF A!Split
  <2> HIDE DEF s
  <2> DEFINE t == A!Traded(s, A!Toward0(s.held * r[1], r[2]) - s.held)
             u == [t EXCEPT !.mark.price = (@ * r[2]) \div r[1], !.exposed = TRUE]
  <2>2. PairsMatch(t)
    BY <1>0, TradedPairs
  <2> HIDE DEF t
  <2>3. DOMAIN u = ShareFields /\ u.orders = t.orders
    BY <2>2 DEF PairsMatch, ShareFields
  <2>4. shareState' = A!AllEnded(u, DOMAIN s.orders)
    BY <2>1 DEF t
  <2> HIDE DEF u
  <2> QED BY <2>2, <2>3, <2>4, SameOrdersPairs, AllEndedPairs
<1>9. CASE A!ResetAccount(at)
  <2> DEFINE t == A!AllEnded(s, DOMAIN shareState.orders)
             u == A!Traded(t, -t.held)
  <2>1. shareState' = [u EXCEPT !.locked = FALSE, !.exposed = FALSE]
    BY <1>9 DEF A!ResetAccount
  <2> HIDE DEF s
  <2>2. PairsMatch(u)
    BY <1>0, AllEndedPairs, TradedPairs
  <2> HIDE DEF u
  <2>3. DOMAIN shareState' = ShareFields /\ shareState'.orders = u.orders
    BY <2>1, <2>2 DEF PairsMatch, ShareFields
  <2> QED BY <2>2, <2>3, SameOrdersPairs
<1>10. CASE A!Lock(at) \/ A!Halt(at)
  <2>1. \/ shareState' = [s EXCEPT !.locked = ~@]
        \/ \E end \in at + 1 .. at + 2 : shareState' = [s EXCEPT !.halt = end]
    BY <1>10 DEF A!Lock, A!Halt
  <2> HIDE DEF s
  <2>2. DOMAIN shareState' = ShareFields /\ shareState'.orders = s.orders
    BY <1>0, <2>1 DEF PairsMatch, ShareFields
  <2> QED BY <1>0, <2>2, SameOrdersPairs
<1> QED BY <1>1, <1>2, <1>3, <1>4, <1>5, <1>6, <1>7, <1>8, <1>9, <1>10 DEF A!Command

(* Of a pair of share orders, a bracket's exits among them, one fills and the other ends with it,  *)
(* through fills at once or later, gaps, refusals, splits and resets (stock_orders.inc).           *)
THEOREM SharePairsAlwaysFillOnce == SharesSpec => []SharePairsFillOnce
<1>1. A!Init => PairsMatch(shareState)
  <2>1. IsSeq(<<>>) /\ Len(<<>>) = 0
    <3>1. <<>> \in Seq({})
      OBVIOUS
    <3> QED BY <3>1 DEF IsSeq
  <2> QED BY <2>1 DEF A!Init, A!NewAccount, PairsMatch, ShareFields, Numbers
<1>2. PairsMatch(shareState) /\ [A!Next]_A!vars => PairsMatch(shareState)'
  <2>1. ASSUME PairsMatch(shareState), A!Next PROVE PairsMatch(shareState')
    BY <2>1, CommandPairs DEF A!Next
  <2> QED BY <2>1 DEF A!vars
<1>3. PairsMatch(shareState) => SharePairsFillOnce
  <2>1. ASSUME PairsMatch(shareState), NEW i \in DOMAIN shareState.orders
        PROVE  (shareState.orders[i].status = "filled" /\ shareState.orders[i].oco # A!None) =>
                 shareState.orders[shareState.orders[i].oco].status \in {"cancelled", "rejected"}
    BY <2>1, SequenceNumbers DEF PairsMatch, Matched, A!None
  <2> QED BY <2>1 DEF SharePairsFillOnce, A!SharePairsFillOnce
<1> QED BY <1>1, <1>2, <1>3, PTL DEF SharesSpec, A!Spec
-----------------------------------------------------------------------------
(* Sums *)

\* The running sums of the first n parts.
Sums(f, g, n) == f = [k \in 0 .. n |-> IF k = 0 THEN 0 ELSE f[k - 1] + g[k]]
SumTo(g, n) == (CHOOSE f : Sums(f, g, n))[n]

LEMMA SumsExist == ASSUME NEW g, NEW n \in Nat PROVE \E f : Sums(f, g, n)
<1> DEFINE Broken == {k \in Nat : ~ \E f : Sums(f, g, k)}
<1> SUFFICES ASSUME Broken # {} PROVE FALSE
  OBVIOUS
<1>1. PICK k \in Broken : \A j \in Broken : k <= j
  BY LeastNumber
<1>2. k \in Nat /\ ~ \E f : Sums(f, g, k)
  OBVIOUS
<1>3. CASE k = 0
  <2>1. Sums([i \in 0 .. 0 |-> 0], g, 0)
    BY DEF Sums
  <2> QED BY <1>2, <1>3, <2>1
<1>4. CASE k # 0
  <2>1. k - 1 \in Nat /\ k - 1 \notin Broken
    BY <1>1, <1>2, <1>4
  <2>2. PICK f : Sums(f, g, k - 1)
    BY <2>1
  <2> DEFINE h == [i \in 0 .. k |-> IF i = 0 THEN 0 ELSE f[i - 1] + g[i]]
  <2>3. \A i \in 0 .. k - 1 : h[i] = f[i]
    BY <1>2, <2>1, <2>2 DEF Sums
  <2>4. ASSUME NEW i \in 0 .. k, i # 0 PROVE f[i - 1] + g[i] = h[i - 1] + g[i]
    <3>1. i - 1 \in 0 .. k - 1
      BY <1>2, <2>4
    <3>2. h[i - 1] = f[i - 1]
      BY <2>3, <3>1
    <3> QED BY <3>2
  <2>5. h = [i \in 0 .. k |-> IF i = 0 THEN 0 ELSE h[i - 1] + g[i]]
    BY <2>4
  <2> QED BY <1>2, <2>5 DEF Sums
<1> QED BY <1>3, <1>4

\* A sum grows with its parts; where one part is d less, the sum is at most d less.
LEMMA SumsCompare ==
  ASSUME NEW g, NEW h, NEW n \in Nat, NEW m \in Nat, n <= m,
         \A k \in 1 .. n : g[k] \in Int, \A k \in 1 .. m : h[k] \in Int,
         NEW j \in Nat, NEW d \in Nat,
         \A k \in 1 .. n : IF k = j THEN h[k] + d >= g[k] ELSE h[k] >= g[k],
         \A k \in n + 1 .. m : h[k] >= 0
  PROVE  SumTo(h, m) + d >= SumTo(g, n) /\ SumTo(h, m) \in Int /\ SumTo(g, n) \in Int
<1> DEFINE p == CHOOSE f : Sums(f, g, n)
           q == CHOOSE f : Sums(f, h, m)
           Part(k) == /\ k <= n => p[k] \in Int /\ q[k] + (IF j <= k THEN d ELSE 0) >= p[k]
                      /\ k > n => q[k] + d >= p[n]
                      /\ q[k] \in Int
           Broken == {k \in 0 .. m : ~Part(k)}
<1>1. Sums(p, g, n) /\ Sums(q, h, m) /\ SumTo(g, n) = p[n] /\ SumTo(h, m) = q[m]
  BY SumsExist DEF SumTo
<1> HIDE DEF p, q
<1>2. ASSUME Broken # {} PROVE FALSE
  <2>1. PICK k \in Broken : \A i \in Broken : k <= i
    <3>1. Broken \subseteq Nat
      OBVIOUS
    <3> HIDE DEF Broken
    <3> QED BY <1>2, <3>1, LeastNumber
  <2>2. k \in 0 .. m /\ ~Part(k)
    OBVIOUS
  <2>3. CASE k = 0
    <3>1. p[0] = 0 /\ q[0] = 0
      BY <1>1 DEF Sums
    <3> QED BY <2>2, <2>3, <3>1
  <2>4. CASE k # 0
    <3>1. k - 1 \in 0 .. m /\ Part(k - 1)
      BY <2>1, <2>2, <2>4
    <3>2. q[k] = q[k - 1] + h[k] /\ h[k] \in Int
      BY <1>1, <2>2, <2>4 DEF Sums
    <3>3. ASSUME k <= n PROVE p[k] = p[k - 1] + g[k] /\ g[k] \in Int /\ (IF k = j THEN h[k] + d >= g[k] ELSE h[k] >= g[k])
      BY <1>1, <2>2, <2>4, <3>3 DEF Sums
    <3>4. ASSUME k > n PROVE h[k] >= 0
      BY <2>2, <3>4
    <3>5. CASE k <= n
      BY <2>2, <3>1, <3>2, <3>3, <3>5
    <3>6. CASE k > n
      <4>1. CASE k = n + 1
        BY <2>2, <3>1, <3>2, <3>4, <3>6, <4>1
      <4>2. CASE k > n + 1
        <5>1. p[n] \in Int
          BY <2>1, <2>2, <3>6
        <5> QED BY <2>2, <3>1, <3>2, <3>4, <3>6, <4>2, <5>1
      <4> QED BY <2>2, <3>6, <4>1, <4>2
    <3> QED BY <2>2, <3>5, <3>6
  <2> QED BY <2>3, <2>4
<1>3. Part(m) /\ Part(n)
  BY <1>2
<1> QED BY <1>1, <1>3

LEMMA SumsNext ==
  ASSUME NEW g, NEW n \in Nat, \A k \in 1 .. n + 1 : g[k] \in Int
  PROVE  SumTo(g, n + 1) = SumTo(g, n) + g[n + 1] /\ SumTo(g, n) \in Int
<1> DEFINE p == CHOOSE f : Sums(f, g, n)
           q == CHOOSE f : Sums(f, g, n + 1)
           Broken == {k \in 0 .. n : ~(p[k] = q[k] /\ p[k] \in Int)}
<1>1. Sums(p, g, n) /\ Sums(q, g, n + 1) /\ SumTo(g, n) = p[n] /\ SumTo(g, n + 1) = q[n + 1]
  <2>1. (\E f : Sums(f, g, n)) /\ \E f : Sums(f, g, n + 1)
    BY SumsExist
  <2>2. SumTo(g, n) = p[n] /\ SumTo(g, n + 1) = q[n + 1]
    BY DEF SumTo
  <2> QED BY <2>1, <2>2
<1> HIDE DEF p, q
<1>2. ASSUME Broken # {} PROVE FALSE
  <2>1. PICK k \in Broken : \A i \in Broken : k <= i
    <3>1. Broken \subseteq Nat
      OBVIOUS
    <3> HIDE DEF Broken
    <3> QED BY <1>2, <3>1, LeastNumber
  <2>2. k \in 0 .. n /\ ~(p[k] = q[k] /\ p[k] \in Int)
    OBVIOUS
  <2>3. CASE k = 0
    BY <1>1, <2>2, <2>3 DEF Sums
  <2>4. CASE k # 0
    <3>1. k - 1 \in 0 .. n /\ p[k - 1] = q[k - 1] /\ p[k - 1] \in Int
      BY <2>1, <2>2, <2>4
    <3>2. p[k] = p[k - 1] + g[k] /\ q[k] = q[k - 1] + g[k] /\ g[k] \in Int
      BY <1>1, <2>2, <2>4 DEF Sums
    <3> QED BY <2>2, <3>1, <3>2
  <2> QED BY <2>3, <2>4
<1>3. p[n] = q[n] /\ p[n] \in Int
  BY <1>2
<1>4. q[n + 1] = q[n] + g[n + 1]
  BY <1>1 DEF Sums
<1> QED BY <1>1, <1>3, <1>4

-----------------------------------------------------------------------------
(* Stops cover what is held *)

Sides == {"buy", "sell"}
Roles == {"normal", "stop", "target"}

\* Partners are both exits or neither, and exits of two kinds for the same shares while both are open.
Joined(o, p) ==
  /\ A!Exit(o) <=> A!Exit(p)
  /\ A!Exit(o) => p.role # o.role /\ p.side = o.side
  /\ A!Exit(o) /\ A!Open(o) /\ A!Open(p) => p.shares = o.shares
Linked(os, i) ==
  /\ os[i].side \in Sides /\ os[i].shares \in Nat /\ os[i].role \in Roles
  /\ os[i].role = "stop" => os[i].dayEnd = ShareTime + 2
  /\ os[i].oco # 0 => Joined(os[i], os[os[i].oco])
Stopping(s) ==
  /\ PairsMatch(s) /\ s.held \in Int /\ s.time \in 0 .. ShareTime
  /\ \A i \in Numbers(s.orders) : Linked(s.orders, i)

\* The shares an order is an open stop for on a side, and those all are.
StopOf(o, side) == IF A!Open(o) /\ o.role = "stop" /\ o.side = side THEN o.shares ELSE 0
StopsOf(s, side) == SumTo([k \in Numbers(s.orders) |-> StopOf(s.orders[k], side)], Len(s.orders))

\* What is held against a side, of which n shares may lack a stop.
Towards(s, side) == IF side = "sell" THEN s.held ELSE -s.held
Lacks(s, side, n) == Towards(s, side) > 0 => Towards(s, side) <= StopsOf(s, side) + n
MustCover(s) == sharePlan.requireStop /\ ~s.exposed
Covers(s) == MustCover(s) => \A side \in Sides : Lacks(s, side, 0)

\* What a step may do to an order that stays where it is: end it.
Alongside(o, p) ==
  /\ p.side = o.side /\ p.role = o.role /\ p.oco = o.oco /\ p.dayEnd = o.dayEnd /\ p.shares \in Nat
  /\ A!Open(p) => A!Open(o) /\ p.shares = o.shares
AllAlongside(s, t) == Len(t.orders) = Len(s.orders) /\ \A i \in Numbers(s.orders) : Alongside(s.orders[i], t.orders[i])
Calm(s, t) == t.held = s.held /\ t.exposed = s.exposed /\ t.time = s.time

LEMMA StoppingParts ==
  ASSUME NEW s, Stopping(s)
  PROVE  /\ Len(s.orders) \in Nat /\ DOMAIN s.orders = Numbers(s.orders) /\ DOMAIN s = ShareFields
         /\ \A i \in Numbers(s.orders) : DOMAIN s.orders[i] = ShareOrder /\ s.orders[i].shares \in Nat
         /\ \A i \in Numbers(s.orders), side \in Sides : StopOf(s.orders[i], side) \in Nat
  BY SequenceNumbers DEF Stopping, PairsMatch, Matched, Linked, StopOf

LEMMA StopsCompare ==
  ASSUME NEW s, Stopping(s), NEW t, Stopping(t), Len(s.orders) <= Len(t.orders), NEW side \in Sides,
         NEW j \in Nat, NEW d \in Nat,
         \A i \in Numbers(s.orders) : i # j => StopOf(t.orders[i], side) >= StopOf(s.orders[i], side),
         j \in Numbers(s.orders) => StopOf(t.orders[j], side) + d >= StopOf(s.orders[j], side)
  PROVE  StopsOf(t, side) + d >= StopsOf(s, side) /\ StopsOf(t, side) \in Int /\ StopsOf(s, side) \in Int
<1> DEFINE g == [k \in Numbers(s.orders) |-> StopOf(s.orders[k], side)]
           h == [k \in Numbers(t.orders) |-> StopOf(t.orders[k], side)]
           n == Len(s.orders)
           m == Len(t.orders)
<1>1. n \in Nat /\ m \in Nat
  BY StoppingParts
<1>2. /\ \A k \in 1 .. n : g[k] \in Nat /\ g[k] = StopOf(s.orders[k], side)
      /\ \A k \in 1 .. m : h[k] \in Nat /\ h[k] = StopOf(t.orders[k], side)
  BY StoppingParts DEF Numbers
<1>3. \A k \in 1 .. n : IF k = j THEN h[k] + d >= g[k] ELSE h[k] >= g[k]
  BY <1>1, <1>2 DEF Numbers
<1>4. \A k \in n + 1 .. m : h[k] >= 0
  <2> HIDE DEF g, h, n, m
  <2> QED BY <1>1, <1>2
<1>6. n <= m /\ (\A k \in 1 .. n : g[k] \in Int) /\ (\A k \in 1 .. m : h[k] \in Int)
  <2> HIDE DEF g, h
  <2> QED BY <1>1, <1>2
<1> HIDE DEF g, h, n, m
<1>5. SumTo(h, m) + d >= SumTo(g, n) /\ SumTo(h, m) \in Int /\ SumTo(g, n) \in Int
  BY <1>1, <1>3, <1>4, <1>6, SumsCompare
<1> QED BY <1>5 DEF StopsOf, g, h, n, m

LEMMA StoppingKept ==
  ASSUME NEW s, Stopping(s), NEW t, PairsMatch(t), t.held \in Int, t.time \in 0 .. ShareTime, AllAlongside(s, t)
  PROVE  Stopping(t)
<1>1. ASSUME NEW i \in Numbers(t.orders) PROVE Linked(t.orders, i)
  <2> DEFINE o == s.orders[i]
             p == t.orders[i]
             j == o.oco
  <2>1. i \in Numbers(s.orders) /\ Alongside(o, p) /\ Linked(s.orders, i) /\ Matched(s.orders, i)
    BY <1>1 DEF AllAlongside, Stopping, PairsMatch, Numbers
  <2>2. ASSUME j # 0 PROVE Alongside(s.orders[j], t.orders[j])
    BY <2>1, <2>2, StoppingParts DEF AllAlongside, Matched, Numbers
  <2>3. p.oco = j /\ (j # 0 => Joined(p, t.orders[j]))
    <3>1. p.oco = j
      BY <2>1 DEF Alongside
    <3>2. ASSUME j # 0 PROVE Joined(p, t.orders[j])
      <4>1. Joined(o, s.orders[j])
        BY <2>1, <3>2 DEF Linked
      <4> HIDE DEF o, p
      <4> QED BY <2>1, <2>2, <3>2, <4>1 DEF Joined, Alongside, A!Exit
    <3> QED BY <3>1, <3>2
  <2>4. p.side = o.side /\ p.shares \in Nat /\ p.role = o.role /\ p.dayEnd = o.dayEnd
    BY <2>1 DEF Alongside
  <2>5. o.side \in Sides /\ o.role \in Roles /\ (o.role = "stop" => o.dayEnd = ShareTime + 2)
    BY <2>1 DEF Linked
  <2> HIDE DEF p, o, j
  <2>6. /\ p.side \in Sides /\ p.shares \in Nat /\ p.role \in Roles
        /\ p.role = "stop" => p.dayEnd = ShareTime + 2
    BY <2>4, <2>5
  <2>7. t.orders[i].oco = j
    BY <2>3 DEF p
  <2> QED BY <2>3, <2>6, <2>7, SMT DEF Linked, p, A!Exit, A!Open
<1> QED BY <1>1 DEF Stopping

LEMMA EndedStops ==
  ASSUME NEW s, Stopping(s), NEW id \in 0 .. Len(s.orders), NEW status \in {"cancelled", "rejected"}
  PROVE  LET t == A!Ended(s, id, status) IN
         /\ Stopping(t) /\ AllAlongside(s, t) /\ Calm(s, t)
         /\ \A i \in Numbers(s.orders) : i # id => t.orders[i] = s.orders[i]
<1> DEFINE t == A!Ended(s, id, status)
<1>1. /\ Len(s.orders) \in Nat /\ DOMAIN s.orders = Numbers(s.orders) /\ DOMAIN s = ShareFields
      /\ \A i \in Numbers(s.orders) : DOMAIN s.orders[i] = ShareOrder /\ s.orders[i].shares \in Nat
  BY StoppingParts
<1>2. PairsMatch(t) /\ Len(t.orders) = Len(s.orders)
  BY EndedPairs DEF Stopping
<1>3. Calm(s, t)
  BY <1>1 DEF A!Ended, ShareFields, Calm
<1>4. t.orders = IF id # 0 /\ A!Open(s.orders[id]) THEN [s.orders EXCEPT ![id] = [@ EXCEPT !.status = status]] ELSE s.orders
  BY <1>1 DEF A!Ended, ShareFields, A!None
<1> HIDE DEF t
<1>5. \A i \in Numbers(s.orders) : i # id => t.orders[i] = s.orders[i]
  BY <1>1, <1>4
<1>6. ASSUME NEW i \in Numbers(s.orders) PROVE Alongside(s.orders[i], t.orders[i])
  <2>1. \/ t.orders[i] = s.orders[i]
        \/ A!Open(s.orders[i]) /\ t.orders[i] = [s.orders[i] EXCEPT !.status = status]
    BY <1>1, <1>4
  <2> QED BY <1>1, <2>1 DEF Alongside, ShareOrder, A!Open
<1>7. AllAlongside(s, t)
  BY <1>2, <1>6 DEF AllAlongside
<1>8. Stopping(t)
  BY <1>2, <1>3, <1>7, StoppingKept DEF Stopping, Calm
<1> QED BY <1>3, <1>5, <1>7, <1>8 DEF t

LEMMA AllEndedStops ==
  ASSUME NEW s, Stopping(s), NEW ids
  PROVE  LET t == A!AllEnded(s, ids) IN
         /\ Stopping(t) /\ AllAlongside(s, t) /\ Calm(s, t)
         /\ \A i \in Numbers(s.orders) : i \notin ids => t.orders[i] = s.orders[i]
<1> DEFINE t == A!AllEnded(s, ids)
<1>1. /\ Len(s.orders) \in Nat /\ DOMAIN s.orders = Numbers(s.orders) /\ DOMAIN s = ShareFields
      /\ \A i \in Numbers(s.orders) : DOMAIN s.orders[i] = ShareOrder /\ s.orders[i].shares \in Nat
  BY StoppingParts
<1>2. PairsMatch(t) /\ Len(t.orders) = Len(s.orders)
  BY AllEndedPairs DEF Stopping
<1>3. Calm(s, t)
  BY <1>1 DEF A!AllEnded, ShareFields, Calm
<1>4. t.orders = [i \in DOMAIN s.orders |->
           IF i \in ids /\ A!Open(s.orders[i]) THEN [s.orders[i] EXCEPT !.status = "cancelled"] ELSE s.orders[i]]
  BY <1>1 DEF A!AllEnded, ShareFields
<1> HIDE DEF t
<1>5. \A i \in Numbers(s.orders) : i \notin ids => t.orders[i] = s.orders[i]
  BY <1>1, <1>4
<1>6. ASSUME NEW i \in Numbers(s.orders) PROVE Alongside(s.orders[i], t.orders[i])
  <2>1. \/ t.orders[i] = s.orders[i]
        \/ A!Open(s.orders[i]) /\ t.orders[i] = [s.orders[i] EXCEPT !.status = "cancelled"]
    BY <1>1, <1>4
  <2> QED BY <1>1, <2>1 DEF Alongside, ShareOrder, A!Open
<1>7. AllAlongside(s, t)
  BY <1>2, <1>6 DEF AllAlongside
<1>8. Stopping(t)
  BY <1>2, <1>3, <1>7, StoppingKept DEF Stopping, Calm
<1> QED BY <1>3, <1>5, <1>7, <1>8 DEF t

\* A state whose stops are no fewer is covered where the first was.
StopsKept(s, t) == \A side \in Sides : StopsOf(t, side) >= StopsOf(s, side) /\ StopsOf(t, side) \in Int /\ StopsOf(s, side) \in Int
LEMMA KeptWhen ==
  ASSUME NEW s, Stopping(s), NEW t, Stopping(t), Len(s.orders) <= Len(t.orders),
         \A i \in Numbers(s.orders), side \in Sides : StopOf(t.orders[i], side) >= StopOf(s.orders[i], side)
  PROVE  StopsKept(s, t)
<1>1. ASSUME NEW side \in Sides PROVE StopsOf(t, side) + 0 >= StopsOf(s, side) /\ StopsOf(t, side) \in Int /\ StopsOf(s, side) \in Int
  <2>1. 0 \notin Numbers(s.orders)
    BY DEF Numbers
  <2> QED BY <2>1, StopsCompare
<1> QED BY <1>1 DEF StopsKept

LEMMA KeptCovers ==
  ASSUME NEW s, Stopping(s), Covers(s), NEW t, Stopping(t), Calm(s, t), StopsKept(s, t)
  PROVE  Covers(t)
<1>1. s.held \in Int /\ t.held = s.held /\ t.exposed = s.exposed
  BY DEF Stopping, Calm
<1>2. ASSUME NEW side \in Sides, MustCover(t) PROVE Lacks(t, side, 0)
  <2>1. Lacks(s, side, 0) /\ Towards(t, side) = Towards(s, side) /\ Towards(s, side) \in Int
    BY <1>1, <1>2 DEF Covers, MustCover, Towards
  <2> QED BY <2>1, <1>2 DEF Lacks, StopsKept
<1> QED BY <1>2 DEF Covers

\* Stops are of no fewer than no shares.
LEMMA StopsCount ==
  ASSUME NEW s, Stopping(s), NEW side \in Sides PROVE StopsOf(s, side) \in Nat
<1> DEFINE h == [k \in Numbers(s.orders) |-> StopOf(s.orders[k], side)]
           m == Len(s.orders)
<1>1. m \in Nat /\ \A k \in 1 .. m : h[k] \in Nat
  BY StoppingParts DEF Numbers
<1> HIDE DEF h, m
<1>2. SumTo(h, m) + 0 >= SumTo(h, 0) /\ SumTo(h, m) \in Int /\ SumTo(h, 0) \in Int
  <2>1. 0 \in Nat /\ 0 <= m /\ (\A k \in 1 .. 0 : h[k] \in Int) /\ (\A k \in 1 .. m : h[k] \in Int)
        /\ (\A k \in 1 .. 0 : IF k = 0 THEN h[k] + 0 >= h[k] ELSE h[k] >= h[k]) /\ (\A k \in 0 + 1 .. m : h[k] >= 0)
    BY <1>1
  <2> QED BY <1>1, <2>1, SumsCompare
<1>3. SumTo(h, 0) = 0
  <2>1. Sums(CHOOSE f : Sums(f, h, 0), h, 0)
    BY SumsExist
  <2> QED BY <2>1 DEF SumTo, Sums
<1> QED BY <1>2, <1>3 DEF StopsOf, h, m

\* A new order adds its shares to the stops of its side if it is one.
LEMMA PlacedStops ==
  ASSUME NEW s, Stopping(s), NEW r, r.side \in Sides, r.shares \in Nat, NEW role \in Roles, role = "stop" => r.gtc
  PROVE  LET t == A!Placed(s, r, role)
             n == Len(t.orders)
             o == t.orders[n] IN
         /\ Stopping(t) /\ Calm(s, t) /\ StopsKept(s, t) /\ n = Len(s.orders) + 1 /\ n \in Nat
         /\ \A i \in Numbers(s.orders) : t.orders[i] = s.orders[i]
         /\ o.side = r.side /\ o.shares = r.shares /\ o.role = role /\ o.oco = 0 /\ o.status # "filled" /\ A!Open(o)
         /\ o.stopLoss = r.stopLoss
         /\ role = "stop" => StopsOf(t, r.side) >= StopsOf(s, r.side) + r.shares
<1> DEFINE t == A!Placed(s, r, role)
           n == Len(t.orders)
           o == t.orders[n]
           x == [side |-> r.side, shares |-> r.shares, limit |-> r.limit, stop |-> r.stop, extended |-> r.extended,
                 stopLoss |-> r.stopLoss, takeProfit |-> r.takeProfit, role |-> role,
                 status |-> IF r.stop # A!None THEN "armed" ELSE "working",
                 accepted |-> s.time, dayEnd |-> A!DayEnd(r, s.time), oco |-> A!None]
<1>1. /\ PairsMatch(t) /\ n = Len(s.orders) + 1 /\ Len(s.orders) \in Nat
      /\ \A i \in Numbers(s.orders) : t.orders[i] = s.orders[i]
  BY PlacedPairs DEF Stopping
<1>2. DOMAIN s = ShareFields /\ IsSeq(s.orders) /\ s.held \in Int /\ s.time \in 0 .. ShareTime
  BY DEF Stopping, PairsMatch
<1>3. t.orders = Append(s.orders, x) /\ Calm(s, t)
  BY <1>2 DEF A!Placed, ShareFields, Calm
<1>4. o = x
  <2> DEFINE q == s.orders
  <2>1. IsSeq(q) /\ t.orders = Append(q, x)
    BY <1>2, <1>3
  <2> HIDE DEF q, x, t
  <2>2. Append(q, x)[Len(q) + 1] = x
    BY <2>1, AppendedSequence
  <2> DEFINE p == Append(q, x)
  <2>3. t.orders = p /\ p[Len(q) + 1] = x
    BY <2>1, <2>2
  <2> HIDE DEF p
  <2> QED BY <1>1, <2>3 DEF q
<1>5. /\ x.side = r.side /\ x.shares = r.shares /\ x.role = role /\ x.oco = 0 /\ x.status # "filled"
      /\ x.status \in {"armed", "working"} /\ x.stopLoss = r.stopLoss
      /\ r.gtc => x.dayEnd = ShareTime + 2
  BY DEF A!None, A!DayEnd
<1> HIDE DEF t, x
<1>6. ASSUME NEW i \in Numbers(t.orders) PROVE Linked(t.orders, i)
  <2>1. CASE i = n
    <3>1. t.orders[i] = x
      BY <1>4, <2>1
    <3> QED BY <1>5, <3>1 DEF Linked, Sides
  <2>2. CASE i # n
    <3>1. i \in Numbers(s.orders) /\ Linked(s.orders, i) /\ Matched(s.orders, i) /\ t.orders[i] = s.orders[i]
      BY <1>1, <1>6, <2>2 DEF Numbers, Stopping, PairsMatch
    <3>2. s.orders[i].oco # 0 => t.orders[s.orders[i].oco] = s.orders[s.orders[i].oco]
      BY <1>1, <3>1 DEF Matched, Numbers
    <3> QED BY <3>1, <3>2 DEF Linked
  <2> QED BY <2>1, <2>2
<1>7. Stopping(t)
  BY <1>1, <1>2, <1>3, <1>6 DEF Stopping, Calm
<1>8. StopsKept(s, t)
  <2>1. \A i \in Numbers(s.orders), side \in Sides : StopOf(t.orders[i], side) >= StopOf(s.orders[i], side)
    <3>1. \A i \in Numbers(s.orders), side \in Sides : StopOf(s.orders[i], side) \in Nat
      BY StoppingParts
    <3> QED BY <1>1, <3>1
  <2>2. Len(s.orders) <= Len(t.orders)
    BY <1>1
  <2> QED BY <1>7, <2>1, <2>2, KeptWhen
<1>9. ASSUME role = "stop" PROVE StopsOf(t, r.side) >= StopsOf(s, r.side) + r.shares
  <2> DEFINE g == [k \in Numbers(s.orders) |-> StopOf(s.orders[k], r.side)]
             h == [k \in Numbers(t.orders) |-> StopOf(t.orders[k], r.side)]
             m == Len(s.orders)
  <2>1. /\ m \in Nat /\ n = m + 1
        /\ \A k \in 1 .. m : g[k] \in Nat /\ h[k] \in Nat /\ h[k] = g[k]
        /\ h[m + 1] = r.shares
    <3>1. h[m + 1] = StopOf(x, r.side)
      BY <1>1, <1>4 DEF Numbers
    <3>2. StopOf(x, r.side) = r.shares
      BY <1>5, <1>9 DEF StopOf, A!Open
    <3> QED BY <1>1, <3>1, <3>2, StoppingParts DEF Numbers
  <2>2. StopsOf(t, r.side) = SumTo(h, m + 1) /\ StopsOf(s, r.side) = SumTo(g, m)
    BY <2>1 DEF StopsOf
  <2> HIDE DEF g, h, m
  <2>3. SumTo(h, m) + 0 >= SumTo(g, m) /\ SumTo(h, m) \in Int /\ SumTo(g, m) \in Int
    <3>1. /\ m <= m /\ (\A k \in 1 .. m : g[k] \in Int) /\ (\A k \in 1 .. m : h[k] \in Int)
          /\ (\A k \in 1 .. m : IF k = 0 THEN h[k] + 0 >= g[k] ELSE h[k] >= g[k]) /\ (\A k \in m + 1 .. m : h[k] >= 0)
      BY <2>1
    <3> QED BY <2>1, <3>1, SumsCompare
  <2>4. SumTo(h, m + 1) = SumTo(h, m) + h[m + 1]
    <3>1. \A k \in 1 .. m + 1 : h[k] \in Int
      BY <2>1
    <3> QED BY <2>1, <3>1, SumsNext
  <2> QED BY <2>1, <2>2, <2>3, <2>4
<1>10. A!Open(o)
  BY <1>4, <1>5 DEF A!Open
<1>11. /\ o.side = r.side /\ o.shares = r.shares /\ o.role = role /\ o.oco = 0 /\ o.status # "filled"
       /\ o.stopLoss = r.stopLoss
  BY <1>4, <1>5
<1>12. n = Len(s.orders) + 1 /\ n \in Nat /\ Calm(s, t)
  BY <1>1, <1>3
<1> QED BY <1>1, <1>7, <1>8, <1>9, <1>10, <1>11, <1>12, Zenon DEF t

LEMMA PairedStops ==
  ASSUME NEW s, Stopping(s), NEW a \in Numbers(s.orders), NEW b \in Numbers(s.orders), a # b,
         s.orders[a].oco = 0, s.orders[b].oco = 0, s.orders[a].status # "filled", s.orders[b].status # "filled",
         Joined(s.orders[a], s.orders[b])
  PROVE  LET t == A!Paired(s, a, b) IN
         /\ Stopping(t) /\ Calm(s, t) /\ StopsKept(s, t) /\ Len(t.orders) = Len(s.orders)
         /\ \A i \in Numbers(s.orders) : t.orders[i].side = s.orders[i].side /\ t.orders[i].shares = s.orders[i].shares
<1> DEFINE t == A!Paired(s, a, b)
<1>1. /\ DOMAIN s.orders = Numbers(s.orders) /\ DOMAIN s = ShareFields /\ Len(s.orders) \in Nat
      /\ \A i \in Numbers(s.orders) : Matched(s.orders, i) /\ Linked(s.orders, i) /\ DOMAIN s.orders[i] = ShareOrder
  BY StoppingParts DEF Stopping, PairsMatch
<1>2. PairsMatch(t) /\ Len(t.orders) = Len(s.orders)
  BY PairedPairs DEF Stopping
<1>3. /\ Calm(s, t)
      /\ t.orders = [[s.orders EXCEPT ![a] = [@ EXCEPT !.oco = b]] EXCEPT ![b] = [@ EXCEPT !.oco = a]]
  BY <1>1 DEF A!Paired, ShareFields, Calm
<1>4. /\ t.orders[a] = [s.orders[a] EXCEPT !.oco = b] /\ t.orders[b] = [s.orders[b] EXCEPT !.oco = a]
      /\ \A i \in Numbers(s.orders) : i # a /\ i # b => t.orders[i] = s.orders[i]
  BY <1>1, <1>3
<1> HIDE DEF t
<1>5. ASSUME NEW i \in Numbers(s.orders)
      PROVE  /\ t.orders[i].side = s.orders[i].side /\ t.orders[i].shares = s.orders[i].shares
             /\ t.orders[i].role = s.orders[i].role /\ t.orders[i].status = s.orders[i].status
             /\ t.orders[i].dayEnd = s.orders[i].dayEnd
  <2>1. DOMAIN s.orders[i] = ShareOrder
    BY <1>1
  <2>2. t.orders[i] = s.orders[i] \/ \E k : t.orders[i] = [s.orders[i] EXCEPT !.oco = k]
    BY <1>4
  <2> QED BY <2>1, <2>2 DEF ShareOrder
<1>6. t.orders[a].oco = b /\ t.orders[b].oco = a
  BY <1>1, <1>4 DEF ShareOrder
<1>7. ASSUME NEW i \in Numbers(s.orders), NEW j \in Numbers(s.orders), Joined(s.orders[i], s.orders[j])
      PROVE  Joined(t.orders[i], t.orders[j])
  BY <1>5, <1>7 DEF Joined, A!Exit, A!Open
<1>8. ASSUME NEW i \in Numbers(t.orders) PROVE Linked(t.orders, i)
  <2>1. i \in Numbers(s.orders)
    BY <1>2, <1>8 DEF Numbers
  <2>2. t.orders[i].oco # 0 => Joined(t.orders[i], t.orders[t.orders[i].oco])
    <3>1. CASE i = a
      BY <1>6, <1>7, <3>1
    <3>2. CASE i = b
      <4>1. Joined(s.orders[b], s.orders[a])
        BY DEF Joined
      <4> QED BY <1>6, <1>7, <3>2, <4>1
    <3>3. CASE i # a /\ i # b
      <4>1. t.orders[i] = s.orders[i] /\ Matched(s.orders, i) /\ Linked(s.orders, i)
        BY <1>1, <1>4, <2>1, <3>3
      <4>2. s.orders[i].oco # 0 => s.orders[i].oco \in Numbers(s.orders) /\ Joined(s.orders[i], s.orders[s.orders[i].oco])
        BY <4>1 DEF Matched, Linked, Numbers
      <4> QED BY <1>7, <2>1, <4>1, <4>2
    <3> QED BY <3>1, <3>2, <3>3
  <2> QED BY <1>1, <1>5, <2>1, <2>2 DEF Linked
<1>9. Stopping(t)
  BY <1>2, <1>3, <1>8 DEF Stopping, Calm
<1>10. StopsKept(s, t)
  <2>1. ASSUME NEW i \in Numbers(s.orders), NEW side \in Sides PROVE StopOf(t.orders[i], side) >= StopOf(s.orders[i], side)
    <3>1. StopOf(t.orders[i], side) = StopOf(s.orders[i], side) /\ StopOf(s.orders[i], side) \in Nat
      BY <1>5, StoppingParts DEF StopOf, A!Open
    <3> QED BY <3>1
  <2>2. Len(s.orders) <= Len(t.orders)
    BY <1>1, <1>2
  <2> QED BY <1>9, <2>1, <2>2, KeptWhen
<1> QED BY <1>2, <1>3, <1>5, <1>9, <1>10, Zenon DEF t

LEMMA KeptAgain ==
  ASSUME NEW s, NEW t, NEW u, StopsKept(s, t), StopsKept(t, u) PROVE StopsKept(s, u)
  BY DEF StopsKept

\* A bracket stops the shares its entry traded, if it stops.
LEMMA BracketedStops ==
  ASSUME NEW s, Stopping(s), NEW id \in Numbers(s.orders)
  PROVE  LET t == A!Bracketed(s, id)
             o == s.orders[id]
             side == A!Opposite(o.side) IN
         /\ Stopping(t) /\ Calm(s, t) /\ StopsKept(s, t) /\ side \in Sides
         /\ o.stopLoss # 0 => StopsOf(t, side) >= StopsOf(s, side) + o.shares
<1> DEFINE entry == s.orders[id]
           side == A!Opposite(entry.side)
           stop == [A!ExitOf(entry) EXCEPT !.stop = entry.stopLoss]
           target == [A!ExitOf(entry) EXCEPT !.limit = entry.takeProfit]
           first == A!Placed(s, stop, "stop")
           stopped == IF entry.stopLoss = 0 THEN s ELSE first
           second == A!Placed(stopped, target, "target")
           both == IF entry.takeProfit = 0 THEN stopped ELSE second
           paired == A!Paired(both, Len(both.orders) - 1, Len(both.orders))
           r == IF entry.stopLoss # 0 /\ entry.takeProfit # 0 THEN paired ELSE both
<1>0. A!Bracketed(s, id) = r
  BY DEF A!Bracketed, A!None
<1>1. /\ side \in Sides /\ entry.shares \in Nat
      /\ stop.side = side /\ stop.shares = entry.shares /\ stop.gtc
      /\ target.side = side /\ target.shares = entry.shares
  <2>1. entry.side \in Sides /\ entry.shares \in Nat
    BY DEF Stopping, Linked
  <2> QED BY <2>1 DEF Sides, A!Opposite, A!ExitOf
<1>2. StopsKept(s, s) /\ Calm(s, s) /\ Len(s.orders) \in Nat /\ StopsOf(s, side) \in Nat
  <2>1. StopsKept(s, s)
    BY StopsCount DEF StopsKept
  <2> QED BY <1>1, <2>1, StoppingParts, StopsCount DEF Calm
<1> HIDE DEF stop, target, entry, side
<1>3. /\ Stopping(first) /\ Calm(s, first) /\ StopsKept(s, first)
      /\ Len(first.orders) = Len(s.orders) + 1 /\ Len(first.orders) \in Nat
      /\ LET o == first.orders[Len(first.orders)] IN
         o.side = side /\ o.shares = entry.shares /\ o.role = "stop" /\ o.oco = 0 /\ o.status # "filled"
      /\ StopsOf(first, side) >= StopsOf(s, side) + entry.shares
  <2>1. stop.side \in Sides /\ stop.shares \in Nat /\ "stop" \in Roles /\ ("stop" = "stop" => stop.gtc)
    BY <1>1 DEF Roles
  <2> QED BY <1>1, <2>1, PlacedStops
<1> HIDE DEF first
<1>4. /\ Stopping(stopped) /\ Calm(s, stopped) /\ StopsKept(s, stopped) /\ Len(stopped.orders) \in Nat
      /\ entry.stopLoss # 0 =>
           /\ StopsOf(stopped, side) >= StopsOf(s, side) + entry.shares
           /\ Len(stopped.orders) \in Numbers(stopped.orders)
           /\ LET o == stopped.orders[Len(stopped.orders)] IN
              o.side = side /\ o.shares = entry.shares /\ o.role = "stop" /\ o.oco = 0 /\ o.status # "filled"
  BY <1>2, <1>3 DEF Numbers
<1> HIDE DEF stopped
<1>5. /\ Stopping(second) /\ Calm(stopped, second) /\ StopsKept(stopped, second)
      /\ Len(second.orders) = Len(stopped.orders) + 1 /\ Len(second.orders) \in Nat
      /\ \A i \in Numbers(stopped.orders) : second.orders[i] = stopped.orders[i]
      /\ LET o == second.orders[Len(second.orders)] IN
         o.side = side /\ o.shares = entry.shares /\ o.role = "target" /\ o.oco = 0 /\ o.status # "filled"
  <2>1. target.side \in Sides /\ target.shares \in Nat /\ "target" \in Roles /\ ("target" = "stop" => target.gtc)
    BY <1>1 DEF Roles
  <2> QED BY <1>1, <1>4, <2>1, PlacedStops
<1> HIDE DEF second
<1>6. /\ Stopping(both) /\ Calm(s, both) /\ StopsKept(s, both)
      /\ entry.stopLoss # 0 => StopsOf(both, side) >= StopsOf(s, side) + entry.shares
  <2>1. Calm(s, second) /\ StopsKept(s, second)
    BY <1>4, <1>5, KeptAgain DEF Calm
  <2>2. entry.stopLoss # 0 => StopsOf(second, side) >= StopsOf(s, side) + entry.shares
    BY <1>1, <1>2, <1>4, <1>5 DEF StopsKept
  <2> QED BY <1>4, <1>5, <2>1, <2>2
<1>7. CASE entry.stopLoss # 0 /\ entry.takeProfit # 0
  <2> DEFINE a == Len(both.orders) - 1
             b == Len(both.orders)
  <2>1. both = second
    BY <1>7
  <2>2. a = Len(stopped.orders) /\ a \in Numbers(both.orders) /\ b \in Numbers(both.orders) /\ a # b
        /\ a \in Numbers(stopped.orders)
    BY <1>4, <1>5, <1>7, <2>1 DEF Numbers
  <2>3. /\ both.orders[a].oco = 0 /\ both.orders[b].oco = 0
        /\ both.orders[a].status # "filled" /\ both.orders[b].status # "filled"
        /\ both.orders[a].role = "stop" /\ both.orders[b].role = "target"
        /\ both.orders[a].side = both.orders[b].side /\ both.orders[a].shares = both.orders[b].shares
    <3>1. both.orders[a] = stopped.orders[Len(stopped.orders)] /\ both.orders[b] = second.orders[Len(second.orders)]
      BY <1>5, <2>1, <2>2
    <3> QED BY <1>4, <1>5, <1>7, <3>1
  <2> HIDE DEF a, b, both
  <2>4. Joined(both.orders[a], both.orders[b])
    BY <2>3 DEF Joined, A!Exit
  <2>5. Stopping(A!Paired(both, a, b)) /\ Calm(both, A!Paired(both, a, b)) /\ StopsKept(both, A!Paired(both, a, b))
    BY <1>6, <2>2, <2>3, <2>4, PairedStops
  <2> DEFINE p == A!Paired(both, a, b)
  <2>6. r = p
    BY <1>7 DEF a, b
  <2>7. Stopping(p) /\ Calm(both, p) /\ StopsKept(both, p)
    BY <2>5
  <2> HIDE DEF p, r
  <2>8. Calm(s, p) /\ StopsKept(s, p)
    BY <1>6, <2>7, KeptAgain DEF Calm
  <2>9. StopsOf(p, side) >= StopsOf(s, side) + entry.shares
    BY <1>1, <1>2, <1>6, <1>7, <2>7 DEF StopsKept
  <2> QED BY <1>0, <1>1, <2>6, <2>7, <2>8, <2>9 DEF side, entry
<1>8. CASE ~(entry.stopLoss # 0 /\ entry.takeProfit # 0)
  <2>1. r = both
    BY <1>8
  <2> HIDE DEF both, r
  <2> QED BY <1>0, <1>1, <1>6, <1>8, <2>1 DEF side, entry
<1> QED BY <1>7, <1>8

\* The fill of n shares of order id ends the order and its partner, and moves what is held.
Filling(s, id, signed, n, t) ==
  /\ Stopping(t) /\ AllAlongside(s, t) /\ t.held = s.held + signed /\ t.exposed = s.exposed /\ t.time = s.time
  /\ \A i \in Numbers(s.orders) : i # id /\ i # s.orders[id].oco => t.orders[i] = s.orders[i]
  /\ t.orders[id].side = s.orders[id].side /\ t.orders[id].shares = n /\ t.orders[id].role = s.orders[id].role
  /\ t.orders[id].stopLoss = s.orders[id].stopLoss

LEMMA FilledStops ==
  ASSUME NEW s, Stopping(s), NEW id \in Numbers(s.orders), A!Open(s.orders[id]), NEW signed \in Int, NEW n \in Nat
  PROVE  Filling(s, id, signed, n, A!Ended(FillOf(s, id, signed, n), s.orders[id].oco, "cancelled"))
<1> DEFINE o == s.orders[id]
           filling == [s EXCEPT !.orders[id].status = "filled"]
           moved == A!Traded(filling, signed)
           u == [moved EXCEPT !.orders[id].shares = n]
           j == o.oco
           t == A!Ended(u, j, "cancelled")
<1>1. /\ DOMAIN s.orders = Numbers(s.orders) /\ Len(s.orders) \in Nat /\ DOMAIN s = ShareFields /\ s.held \in Int
      /\ s.time \in 0 .. ShareTime
      /\ \A i \in Numbers(s.orders) : Matched(s.orders, i) /\ Linked(s.orders, i) /\ DOMAIN s.orders[i] = ShareOrder
  BY StoppingParts DEF Stopping, PairsMatch
<1>2. u = FillOf(s, id, signed, n)
  BY DEF FillOf
<1>4. /\ DOMAIN filling = ShareFields /\ filling.orders = [s.orders EXCEPT ![id] = [@ EXCEPT !.status = "filled"]]
      /\ filling.held = s.held /\ filling.exposed = s.exposed /\ filling.time = s.time
  BY <1>1 DEF ShareFields
<1> HIDE DEF filling
<1>5. /\ DOMAIN moved = ShareFields /\ moved.orders = filling.orders /\ moved.held = s.held + signed
      /\ moved.exposed = s.exposed /\ moved.time = s.time
  BY <1>4 DEF A!Traded, ShareFields
<1> HIDE DEF moved
<1>6. /\ DOMAIN u = ShareFields /\ u.orders = [moved.orders EXCEPT ![id] = [@ EXCEPT !.shares = n]]
      /\ u.held = s.held + signed /\ u.exposed = s.exposed /\ u.time = s.time
  BY <1>5 DEF ShareFields
<1> HIDE DEF u
<1>3. PairsMatch(t) /\ Len(t.orders) = Len(s.orders)
  BY <1>2, FilledPairs DEF Stopping
<1>7. /\ \A i \in Numbers(s.orders) : i # id => u.orders[i] = s.orders[i]
      /\ u.orders[id] = [[o EXCEPT !.status = "filled"] EXCEPT !.shares = n]
  <2>1. /\ DOMAIN moved.orders = Numbers(s.orders) /\ moved.orders[id] = [o EXCEPT !.status = "filled"]
        /\ \A i \in Numbers(s.orders) : i # id => moved.orders[i] = s.orders[i]
    BY <1>1, <1>4, <1>5
  <2>2. /\ u.orders[id] = [moved.orders[id] EXCEPT !.shares = n]
        /\ \A i \in Numbers(s.orders) : i # id => u.orders[i] = moved.orders[i]
    BY <1>6, <2>1
  <2> HIDE DEF o
  <2> QED BY <2>1, <2>2
<1>8. /\ u.orders[id].side = o.side /\ u.orders[id].shares = n /\ u.orders[id].role = o.role
      /\ u.orders[id].stopLoss = o.stopLoss /\ u.orders[id].oco = j /\ u.orders[id].dayEnd = o.dayEnd
      /\ u.orders[id].status = "filled"
  BY <1>1, <1>7 DEF ShareOrder
<1>9. /\ t.orders = IF j # 0 /\ A!Open(u.orders[j]) THEN [u.orders EXCEPT ![j] = [@ EXCEPT !.status = "cancelled"]] ELSE u.orders
      /\ t.held = u.held /\ t.exposed = u.exposed /\ t.time = u.time
  BY <1>6 DEF A!Ended, A!None, ShareFields
<1> HIDE DEF t
<1>10. j # id /\ (j # 0 => j \in Numbers(s.orders))
  BY <1>1 DEF Matched, Numbers
<1>11. /\ \A i \in Numbers(s.orders) : i # j => t.orders[i] = u.orders[i]
       /\ j # 0 => t.orders[j] = u.orders[j] \/ (A!Open(u.orders[j]) /\ t.orders[j] = [u.orders[j] EXCEPT !.status = "cancelled"])
  BY <1>1, <1>4, <1>5, <1>6, <1>9, <1>10
<1>12. ASSUME NEW i \in Numbers(s.orders) PROVE Alongside(s.orders[i], t.orders[i])
  <2>0. s.orders[i].shares \in Nat /\ DOMAIN s.orders[i] = ShareOrder
    BY <1>1 DEF Linked
  <2>1. CASE i = id
    BY <1>8, <1>10, <1>11, <2>1 DEF Alongside, A!Open
  <2>2. CASE i # id /\ i # j
    BY <1>7, <1>11, <2>0, <2>2 DEF Alongside
  <2>3. CASE i # id /\ i = j
    <3>1. u.orders[i] = s.orders[i] /\ i # 0
      BY <1>7, <2>3 DEF Numbers
    <3>2. t.orders[i] = s.orders[i] \/ (A!Open(s.orders[i]) /\ t.orders[i] = [s.orders[i] EXCEPT !.status = "cancelled"])
      BY <1>11, <2>3, <3>1
    <3> QED BY <2>0, <3>2 DEF Alongside, A!Open, ShareOrder
  <2> QED BY <2>1, <2>2, <2>3
<1>13. AllAlongside(s, t)
  BY <1>3, <1>12 DEF AllAlongside
<1>14. Stopping(t)
  BY <1>1, <1>3, <1>6, <1>9, <1>13, StoppingKept
<1>15. t.held = s.held + signed /\ t.exposed = s.exposed /\ t.time = s.time
  BY <1>6, <1>9
<1>16. \A i \in Numbers(s.orders) : i # id /\ i # j => t.orders[i] = s.orders[i]
  BY <1>7, <1>11
<1>17. t.orders[id] = u.orders[id]
  BY <1>10, <1>11
<1>18. t = A!Ended(FillOf(s, id, signed, n), o.oco, "cancelled")
  BY <1>2 DEF t
<1> HIDE DEF o, j
<1>19. /\ Stopping(t) /\ AllAlongside(s, t) /\ t.held = s.held + signed /\ t.exposed = s.exposed /\ t.time = s.time
       /\ \A i \in Numbers(s.orders) : i # id /\ i # j => t.orders[i] = s.orders[i]
       /\ t.orders[id].side = o.side /\ t.orders[id].shares = n /\ t.orders[id].role = o.role
       /\ t.orders[id].stopLoss = o.stopLoss
  BY <1>8, <1>13, <1>14, <1>15, <1>16, <1>17
<1>20. Filling(s, id, signed, n, t)
  BY <1>19 DEF Filling, o, j
<1> QED BY <1>18, <1>20 DEF o, j

\* The fill of an exit reduces what is held by what its stop covered.
LEMMA ExitFillCovers ==
  ASSUME NEW s, Stopping(s), Covers(s), NEW id \in Numbers(s.orders), A!Open(s.orders[id]), A!Exit(s.orders[id]),
         NEW n, n = A!Least(s.orders[id].shares, A!Available(s, s.orders[id])),
         A!Available(s, s.orders[id]) # 0, A!Reduces(s, A!Signed(s.orders[id].side, n))
  PROVE  LET t == A!Ended(FillOf(s, id, A!Signed(s.orders[id].side, n), n), s.orders[id].oco, "cancelled") IN
         Stopping(t) /\ Covers(t)
<1> DEFINE o == s.orders[id]
           signed == A!Signed(o.side, n)
           j == IF o.role = "stop" THEN id ELSE o.oco
           t == A!Ended(FillOf(s, id, signed, n), o.oco, "cancelled")
<1>1. /\ o.side \in Sides /\ o.shares \in Nat /\ o.role \in {"stop", "target"} /\ s.held \in Int
      /\ Matched(s.orders, id) /\ Linked(s.orders, id) /\ Len(s.orders) \in Nat
  BY StoppingParts DEF Stopping, PairsMatch, Linked, Roles, A!Exit
<1>2. /\ n \in Nat /\ n <= o.shares /\ signed \in Int
      /\ Towards(s, o.side) > 0 /\ n <= Towards(s, o.side)
      /\ (n = o.shares \/ n = Towards(s, o.side))
      /\ \A side \in Sides : Towards(s, side) - (IF side = o.side THEN n ELSE -n) = (IF side = "sell" THEN s.held + signed ELSE -(s.held + signed))
  <2>1. o.side = "buy" \/ o.side = "sell"
    BY <1>1 DEF Sides
  <2>2. CASE o.side = "buy"
    <3>1. signed = n /\ A!Available(s, o) = A!Most(0, -s.held)
      BY <2>2 DEF A!Signed, A!Available
    <3> HIDE DEF o, signed
    <3> QED BY <1>1, <2>2, <3>1 DEF A!Least, A!Most, A!Reduces, Towards, Sides, o, signed
  <2>3. CASE o.side = "sell"
    <3>1. signed = -n /\ A!Available(s, o) = A!Most(0, s.held)
      BY <2>3 DEF A!Signed, A!Available
    <3> HIDE DEF o, signed
    <3> QED BY <1>1, <2>3, <3>1 DEF A!Least, A!Most, A!Reduces, Towards, Sides, o, signed
  <2> QED BY <2>1, <2>2, <2>3
<1>3. /\ Stopping(t) /\ AllAlongside(s, t) /\ t.held = s.held + signed /\ t.exposed = s.exposed
      /\ \A i \in Numbers(s.orders) : i # id /\ i # o.oco => t.orders[i] = s.orders[i]
  <2> HIDE DEF signed
  <2>1. Filling(s, id, signed, n, A!Ended(FillOf(s, id, signed, n), s.orders[id].oco, "cancelled"))
    BY <1>2, FilledStops
  <2>2. Filling(s, id, signed, n, t)
    BY <2>1
  <2> HIDE DEF t
  <2> QED BY <2>2 DEF Filling
<1> HIDE DEF t, signed
<1>4. /\ Towards(t, o.side) = Towards(s, o.side) - n /\ Towards(s, o.side) \in Int
      /\ \A side \in Sides : Towards(t, side) \in Int /\ (side # o.side => Towards(t, side) <= 0)
  <2>1. Towards(s, o.side) \in Int
    BY <1>1 DEF Towards
  <2>2. \A side \in Sides : Towards(t, side) = (IF side = "sell" THEN s.held + signed ELSE -(s.held + signed))
    BY <1>3 DEF Towards
  <2>3. Towards(t, o.side) = Towards(s, o.side) - n
    BY <1>1, <1>2, <2>2
  <2>4. ASSUME NEW side \in Sides PROVE Towards(t, side) \in Int /\ (side # o.side => Towards(t, side) <= 0)
    <3>1. Towards(t, side) \in Int
      BY <1>1, <1>2, <2>2
    <3>2. ASSUME side # o.side PROVE Towards(t, side) = -Towards(t, o.side)
      BY <1>1, <1>2, <2>2, <3>2 DEF Sides
    <3> HIDE DEF o
    <3> QED BY <1>2, <2>1, <2>3, <3>1, <3>2
  <2> QED BY <2>1, <2>3, <2>4
<1>5. StopsOf(t, o.side) + o.shares >= StopsOf(s, o.side) /\ StopsOf(t, o.side) \in Nat /\ StopsOf(s, o.side) \in Int
  <2>1. Len(s.orders) <= Len(t.orders)
    BY <1>1, <1>3 DEF AllAlongside
  <2>2. j \in Nat
    BY <1>1 DEF Matched, Numbers
  <2>3. ASSUME NEW i \in Numbers(s.orders), i # j PROVE StopOf(t.orders[i], o.side) >= StopOf(s.orders[i], o.side)
    <3>0. StopOf(s.orders[i], o.side) \in Nat /\ StopOf(t.orders[i], o.side) \in Nat
      <4>1. i \in Numbers(t.orders)
        BY <1>3 DEF AllAlongside, Numbers
      <4> QED BY <1>1, <1>3, <4>1, StoppingParts
    <3>1. CASE i # id /\ i # o.oco
      BY <1>3, <3>0, <3>1
    <3>2. CASE i = id
      <4>1. o.role # "stop"
        BY <2>3, <3>2
      <4>2. StopOf(o, o.side) = 0
        BY <4>1 DEF StopOf
      <4> QED BY <3>0, <3>2, <4>2
    <3>3. CASE i = o.oco /\ i # id
      <4>1. o.role = "stop" /\ o.oco # 0
        BY <2>3, <3>3 DEF Numbers
      <4>2. s.orders[i].role # "stop"
        BY <1>1, <3>3, <4>1 DEF Linked, Joined
      <4>3. StopOf(s.orders[i], o.side) = 0
        BY <4>2 DEF StopOf
      <4> QED BY <3>0, <4>3
    <3> QED BY <3>1, <3>2, <3>3
  <2>4. ASSUME j \in Numbers(s.orders) PROVE StopOf(t.orders[j], o.side) + o.shares >= StopOf(s.orders[j], o.side)
    <3>0. StopOf(t.orders[j], o.side) \in Nat
      <4>1. j \in Numbers(t.orders)
        BY <1>3, <2>4 DEF AllAlongside, Numbers
      <4> QED BY <1>1, <1>3, <4>1, StoppingParts
    <3>1. StopOf(s.orders[j], o.side) \in {0, o.shares}
      <4>1. CASE j = id
        BY <4>1 DEF StopOf
      <4>2. CASE j = o.oco /\ j # id
        <5>1. Joined(o, s.orders[j])
          BY <1>1, <2>4, <4>2 DEF Linked, Numbers
        <5>2. A!Open(s.orders[j]) => s.orders[j].shares = o.shares
          BY <5>1 DEF Joined
        <5> QED BY <5>2 DEF StopOf
      <4> QED BY <4>1, <4>2
    <3> HIDE DEF o, j
    <3> QED BY <1>1, <3>0, <3>1
  <2> HIDE DEF o, j
  <2>5. StopsOf(t, o.side) + o.shares >= StopsOf(s, o.side) /\ StopsOf(t, o.side) \in Int /\ StopsOf(s, o.side) \in Int
    BY <1>1, <1>3, <2>1, <2>2, <2>3, <2>4, StopsCompare
  <2> QED BY <1>1, <1>3, <2>5, StopsCount
<1>6. ASSUME MustCover(t), NEW side \in Sides PROVE Lacks(t, side, 0)
  <2>1. MustCover(s)
    BY <1>3, <1>6 DEF MustCover
  <2>2. Lacks(s, o.side, 0)
    BY <1>1, <2>1 DEF Covers
  <2>3. CASE side = o.side
    <3> HIDE DEF o
    <3> QED BY <1>1, <1>2, <1>4, <1>5, <2>2, <2>3 DEF Lacks
  <2>4. CASE side # o.side
    BY <1>4, <1>6, <2>4 DEF Lacks
  <2> QED BY <2>3, <2>4
<1>7. Covers(t)
  BY <1>6 DEF Covers
<1> QED BY <1>3, <1>7 DEF t, signed

\* A trade that enters reduces what is held, or comes with a stop for what it adds.
LEMMA EntryFillCovers ==
  ASSUME NEW s, Stopping(s), Covers(s), NEW id \in Numbers(s.orders), A!Open(s.orders[id]), ~A!Exit(s.orders[id]),
         NEW n, n = s.orders[id].shares,
         \/ A!Reduces(s, A!Signed(s.orders[id].side, n))
         \/ sharePlan.requireStop => s.orders[id].stopLoss # 0
  PROVE  LET t == A!Bracketed(A!Ended(FillOf(s, id, A!Signed(s.orders[id].side, n), n), s.orders[id].oco, "cancelled"), id) IN
         Stopping(t) /\ Covers(t)
<1> DEFINE o == s.orders[id]
           signed == A!Signed(o.side, n)
           j == o.oco
           filled == A!Ended(FillOf(s, id, signed, n), o.oco, "cancelled")
           t == A!Bracketed(filled, id)
           stopped == A!Opposite(o.side)
<1>1. /\ o.side \in Sides /\ n \in Nat /\ o.role = "normal" /\ s.held \in Int
      /\ Matched(s.orders, id) /\ Linked(s.orders, id) /\ Len(s.orders) \in Nat
  BY StoppingParts DEF Stopping, PairsMatch, Linked, Roles, A!Exit
<1>2. signed \in Int /\ stopped \in Sides
  BY <1>1 DEF A!Signed, A!Opposite, Sides
<1>3. /\ Stopping(filled) /\ AllAlongside(s, filled) /\ filled.held = s.held + signed /\ filled.exposed = s.exposed
      /\ \A i \in Numbers(s.orders) : i # id /\ i # o.oco => filled.orders[i] = s.orders[i]
      /\ filled.orders[id].side = o.side /\ filled.orders[id].shares = n /\ filled.orders[id].stopLoss = o.stopLoss
  <2> HIDE DEF signed
  <2>1. Filling(s, id, signed, n, A!Ended(FillOf(s, id, signed, n), s.orders[id].oco, "cancelled"))
    BY <1>1, <1>2, FilledStops
  <2>2. Filling(s, id, signed, n, filled)
    BY <2>1
  <2> HIDE DEF filled
  <2> QED BY <2>2 DEF Filling
<1> HIDE DEF filled
<1>4. StopsKept(s, filled)
  <2>1. Len(s.orders) <= Len(filled.orders)
    BY <1>1, <1>3 DEF AllAlongside
  <2>2. ASSUME NEW i \in Numbers(s.orders), NEW side \in Sides
        PROVE  StopOf(filled.orders[i], side) >= StopOf(s.orders[i], side)
    <3>0. StopOf(s.orders[i], side) \in Nat /\ StopOf(filled.orders[i], side) \in Nat
      <4>1. i \in Numbers(filled.orders)
        BY <1>3 DEF AllAlongside, Numbers
      <4> QED BY <1>3, <4>1, StoppingParts
    <3>1. CASE i # id /\ i # j
      BY <1>3, <3>0, <3>1
    <3>2. CASE i = id
      <4>1. StopOf(s.orders[i], side) = 0
        BY <1>1, <3>2 DEF StopOf
      <4> QED BY <3>0, <4>1
    <3>3. CASE i = j /\ i # id
      <4>1. Joined(o, s.orders[i])
        BY <1>1, <3>3 DEF Linked, Numbers
      <4>2. s.orders[i].role # "stop"
        BY <1>1, <4>1 DEF Joined, A!Exit
      <4>3. StopOf(s.orders[i], side) = 0
        BY <4>2 DEF StopOf
      <4> QED BY <3>0, <4>3
    <3> QED BY <3>1, <3>2, <3>3
  <2> HIDE DEF o
  <2> QED BY <1>3, <2>1, <2>2, KeptWhen
<1>5. /\ Stopping(t) /\ Calm(filled, t) /\ StopsKept(filled, t)
      /\ o.stopLoss # 0 => StopsOf(t, stopped) >= StopsOf(filled, stopped) + n
  <2>1. id \in Numbers(filled.orders)
    BY <1>3 DEF AllAlongside, Numbers
  <2>2. LET q == A!Bracketed(filled, id)
            p == filled.orders[id]
            side == A!Opposite(p.side) IN
        /\ Stopping(q) /\ Calm(filled, q) /\ StopsKept(filled, q) /\ side \in Sides
        /\ p.stopLoss # 0 => StopsOf(q, side) >= StopsOf(filled, side) + p.shares
    BY <1>3, <2>1, BracketedStops
  <2> HIDE DEF o
  <2> QED BY <1>3, <2>2
<1> HIDE DEF t
<1>6. t.held = s.held + signed /\ t.exposed = s.exposed
  BY <1>3, <1>5 DEF Calm
<1>7. \A side \in Sides : /\ StopsOf(t, side) \in Nat /\ StopsOf(s, side) \in Nat /\ StopsOf(t, side) >= StopsOf(s, side)
                          /\ side = stopped /\ o.stopLoss # 0 => StopsOf(t, side) >= StopsOf(s, side) + n
  <2>1. ASSUME NEW side \in Sides
        PROVE  StopsOf(t, side) \in Nat /\ StopsOf(s, side) \in Nat /\ StopsOf(filled, side) \in Nat
               /\ StopsOf(t, side) >= StopsOf(filled, side) /\ StopsOf(filled, side) >= StopsOf(s, side)
    BY <1>3, <1>4, <1>5, StopsCount DEF StopsKept
  <2> HIDE DEF o, stopped
  <2> QED BY <1>1, <1>5, <2>1
<1>8. ASSUME MustCover(t), NEW side \in Sides PROVE Lacks(t, side, 0)
  <2>1. Lacks(s, side, 0) /\ sharePlan.requireStop
    BY <1>6, <1>8 DEF MustCover, Covers
  <2>2. A!Reduces(s, signed) \/ o.stopLoss # 0
    BY <2>1
  <2>3. /\ Towards(s, side) = IF side = "sell" THEN s.held ELSE -s.held
        /\ Towards(t, side) = IF side = "sell" THEN s.held + signed ELSE -(s.held + signed)
    BY <1>6 DEF Towards
  <2>4. CASE A!Reduces(s, signed)
    <3>1. Towards(t, side) > 0 => Towards(s, side) > 0 /\ Towards(t, side) <= Towards(s, side)
      <4> HIDE DEF signed
      <4> QED BY <1>1, <1>2, <2>3, <2>4 DEF A!Reduces
    <3>2. Towards(t, side) \in Int /\ Towards(s, side) \in Int
      BY <1>1, <1>2, <2>3
    <3> QED BY <1>7, <2>1, <3>1, <3>2 DEF Lacks
  <2>5. CASE o.stopLoss # 0
    <3>0. side \in {"buy", "sell"} /\ o.side \in {"buy", "sell"}
      BY <1>1 DEF Sides
    <3>1. CASE side = stopped
      <4>1. Towards(t, side) = Towards(s, side) + n
        <5>1. CASE o.side = "buy"
          BY <1>1, <2>3, <3>1, <5>1 DEF A!Signed, A!Opposite
        <5>2. CASE o.side = "sell"
          BY <1>1, <2>3, <3>1, <5>2 DEF A!Signed, A!Opposite
        <5> QED BY <3>0, <5>1, <5>2
      <4>2. Towards(s, side) \in Int
        BY <1>1, <2>3
      <4>3. StopsOf(t, side) >= StopsOf(s, side) + n /\ StopsOf(s, side) \in Nat /\ StopsOf(t, side) \in Nat
        BY <1>7, <2>5, <3>1
      <4> QED BY <1>1, <2>1, <4>1, <4>2, <4>3 DEF Lacks
    <3>2. CASE side # stopped
      <4>1. Towards(t, side) = Towards(s, side) - n
        <5>1. CASE o.side = "buy"
          BY <1>1, <2>3, <3>0, <3>2, <5>1 DEF A!Signed, A!Opposite
        <5>2. CASE o.side = "sell"
          BY <1>1, <2>3, <3>0, <3>2, <5>2 DEF A!Signed, A!Opposite
        <5> QED BY <3>0, <5>1, <5>2
      <4>2. Towards(s, side) \in Int
        BY <1>1, <2>3
      <4>3. StopsOf(t, side) >= StopsOf(s, side) /\ StopsOf(s, side) \in Nat /\ StopsOf(t, side) \in Nat
        BY <1>7
      <4> QED BY <1>1, <2>1, <4>1, <4>2, <4>3 DEF Lacks
    <3> QED BY <3>1, <3>2
  <2> QED BY <2>2, <2>4, <2>5
<1>9. Covers(t)
  BY <1>8 DEF Covers
<1> QED BY <1>5, <1>9 DEF t, filled, signed

Good(s) == Stopping(s) /\ Covers(s)

\* Fields that are neither orders, shares nor exposure do not matter.
LEMMA SameStops ==
  ASSUME NEW s, Good(s), NEW t, DOMAIN t = ShareFields, t.orders = s.orders, t.held = s.held, t.exposed = s.exposed,
         t.time \in 0 .. ShareTime
  PROVE  Good(t)
<1>1. PairsMatch(t)
  BY SameOrdersPairs DEF Good, Stopping
<1>2. Stopping(t)
  BY <1>1 DEF Good, Stopping
<1>3. \A side \in Sides : Lacks(s, side, 0) => Lacks(t, side, 0)
  BY DEF Lacks, Towards, StopsOf
<1>4. Covers(t)
  BY <1>3 DEF Good, Covers, MustCover
<1> QED BY <1>2, <1>4 DEF Good

\* Ending orders that are no stops for what is held leaves it covered.
LEMMA EndedCovers ==
  ASSUME NEW s, Good(s), NEW id \in Numbers(s.orders), NEW status \in {"cancelled", "rejected"},
         \A side \in Sides : MustCover(s) /\ Towards(s, side) > 0 => StopOf(s.orders[id], side) = 0
  PROVE  Good(A!Ended(s, id, status))
<1> DEFINE t == A!Ended(s, id, status)
<1>1. /\ Stopping(t) /\ AllAlongside(s, t) /\ Calm(s, t)
      /\ \A i \in Numbers(s.orders) : i # id => t.orders[i] = s.orders[i]
  <2>1. id \in 0 .. Len(s.orders)
    BY DEF Numbers
  <2> QED BY <2>1, EndedStops DEF Good
<1> HIDE DEF t
<1>2. s.held \in Int /\ t.held = s.held /\ t.exposed = s.exposed /\ Len(s.orders) \in Nat /\ Len(t.orders) = Len(s.orders)
  BY <1>1, StoppingParts DEF Good, Stopping, Calm, AllAlongside
<1>3. ASSUME MustCover(t), NEW side \in Sides PROVE Lacks(t, side, 0)
  <2>1. MustCover(s) /\ Lacks(s, side, 0) /\ Towards(t, side) = Towards(s, side) /\ Towards(s, side) \in Int
    BY <1>2, <1>3 DEF MustCover, Good, Covers, Towards
  <2>2. CASE Towards(s, side) > 0
    <3>0. \A i \in Numbers(s.orders) : StopOf(s.orders[i], side) \in Nat /\ StopOf(t.orders[i], side) \in Nat
      BY <1>1, <1>2, StoppingParts DEF Good, Numbers
    <3>1. \A i \in Numbers(s.orders) : StopOf(t.orders[i], side) >= StopOf(s.orders[i], side)
      <4>1. StopOf(s.orders[id], side) = 0
        BY <2>1, <2>2
      <4>2. ASSUME NEW i \in Numbers(s.orders) PROVE StopOf(t.orders[i], side) >= StopOf(s.orders[i], side)
        <5>1. CASE i = id
          BY <3>0, <4>1, <5>1
        <5>2. CASE i # id
          BY <1>1, <3>0, <5>2
        <5> QED BY <5>1, <5>2
      <4> QED BY <4>2
    <3>2. Len(s.orders) <= Len(t.orders) /\ 0 \notin Numbers(s.orders)
      BY <1>2 DEF Numbers
    <3>3. StopsOf(t, side) + 0 >= StopsOf(s, side) /\ StopsOf(t, side) \in Int /\ StopsOf(s, side) \in Int
      BY <1>1, <3>1, <3>2, StopsCompare DEF Good
    <3> QED BY <2>1, <2>2, <3>3 DEF Lacks
  <2>3. CASE ~(Towards(s, side) > 0)
    BY <2>1, <2>3 DEF Lacks
  <2> QED BY <2>2, <2>3
<1> QED BY <1>1, <1>3 DEF t, Good, Covers

\* A refused stop is the one that leaves its shares exposed.
LEMMA RefusedCovers ==
  ASSUME NEW s, Good(s), NEW id \in Numbers(s.orders)
  PROVE  Good([A!Ended(s, id, "rejected") EXCEPT !.exposed = @ \/ s.orders[id].role = "stop"])
<1> DEFINE o == s.orders[id]
           t == A!Ended(s, id, "rejected")
           u == [t EXCEPT !.exposed = @ \/ o.role = "stop"]
<1>1. Stopping(t) /\ Calm(s, t)
  <2>1. id \in 0 .. Len(s.orders)
    BY DEF Numbers
  <2> QED BY <2>1, EndedStops DEF Good
<1>2. ASSUME o.role # "stop" PROVE Good(t)
  <2>1. \A side \in Sides : StopOf(o, side) = 0
    BY <1>2 DEF StopOf
  <2> HIDE DEF o, t
  <2>2. \A side \in Sides : StopOf(s.orders[id], side) = 0
    BY <2>1 DEF o
  <2> QED BY <2>2, EndedCovers DEF t
<1> HIDE DEF t, o
<1>3. /\ DOMAIN u = ShareFields /\ u.orders = t.orders /\ u.held = t.held /\ u.time = t.time
      /\ u.exposed = (t.exposed \/ o.role = "stop") /\ t.time \in 0 .. ShareTime /\ t.held \in Int
  BY <1>1 DEF Stopping, PairsMatch, ShareFields
<1> HIDE DEF u
<1>4. PairsMatch(t) /\ \A i \in Numbers(t.orders) : Linked(t.orders, i)
  BY <1>1 DEF Stopping
<1>5. Stopping(u)
  BY <1>3, <1>4, SameOrdersPairs DEF Stopping
<1>6. ASSUME o.role = "stop" PROVE Good(u)
  <2>1. u.exposed
    BY <1>3, <1>6
  <2>2. ~MustCover(u)
    BY <2>1 DEF MustCover
  <2> QED BY <1>5, <2>2 DEF Good, Covers
<1>7. ASSUME o.role # "stop" PROVE Good(u)
  <2>1. u.exposed <=> t.exposed
    BY <1>3, <1>7
  <2>2. \A side \in Sides : Lacks(t, side, 0) => Lacks(u, side, 0)
    BY <1>3 DEF Lacks, Towards, StopsOf
  <2>3. MustCover(u) => MustCover(t)
    BY <2>1 DEF MustCover
  <2>4. Good(t)
    BY <1>2, <1>7
  <2> QED BY <1>5, <2>2, <2>3, <2>4 DEF Good, Covers
<1> QED BY <1>6, <1>7 DEF u, t, o

LEMMA ExecutedCovers ==
  ASSUME NEW s, Good(s), NEW id \in Numbers(s.orders), A!Open(s.orders[id]),
         NEW n, n = IF A!Exit(s.orders[id]) THEN A!Least(s.orders[id].shares, A!Available(s, s.orders[id])) ELSE s.orders[id].shares,
         A!Exit(s.orders[id]) => A!Available(s, s.orders[id]) # 0, NEW luck
  PROVE  Good(A!Executed(s, id, n, luck))
<1> DEFINE o == s.orders[id]
           signed == A!Signed(o.side, n)
           verdict == IF A!Enters(s, signed, A!Exit(o)) THEN A!Verdict(s, signed, o.stopLoss # A!None, luck) ELSE "refused"
           filled == A!Ended(FillOf(s, id, signed, n), o.oco, "cancelled")
           refused == [A!Ended(s, id, "rejected") EXCEPT !.exposed = @ \/ o.role = "stop"]
           bracketed == A!Bracketed(filled, id)
<1>1. A!Executed(s, id, n, luck) =
        IF verdict = "gap" THEN s
        ELSE IF verdict # "ok" THEN refused
        ELSE IF A!Exit(o) THEN filled ELSE bracketed
  BY DEF A!Executed, A!Partner, FillOf
<1>2. Good(refused)
  BY RefusedCovers
<1>3. ASSUME verdict = "ok", A!Exit(o) PROVE Good(filled)
  <2>1. A!Reduces(s, signed)
    BY <1>3 DEF A!Enters
  <2>2. n = A!Least(o.shares, A!Available(s, o)) /\ A!Available(s, o) # 0
    BY <1>3
  <2> QED BY <1>3, <2>1, <2>2, ExitFillCovers DEF Good
<1>4. ASSUME verdict = "ok", ~A!Exit(o) PROVE Good(bracketed)
  <2>1. A!Reduces(s, signed) \/ (sharePlan.requireStop => o.stopLoss # 0)
    BY <1>4 DEF A!Verdict, A!None
  <2>2. n = o.shares
    BY <1>4
  <2> QED BY <1>4, <2>1, <2>2, EntryFillCovers DEF Good
<1> HIDE DEF verdict, filled, refused, bracketed
<1> QED BY <1>1, <1>2, <1>3, <1>4

LEMMA VisitedCovers ==
  ASSUME NEW s, Good(s), NEW id \in Numbers(s.orders), NEW accepting, NEW luck
  PROVE  Good(A!Visited(s, id, accepting, luck))
<1> DEFINE o == s.orders[id]
           t == [s EXCEPT !.orders[id].status = "working"]
           n == IF A!Exit(o) THEN A!Least(o.shares, A!Available(s, o)) ELSE o.shares
           ended == A!Ended(s, id, "cancelled")
           executed == A!Executed(t, id, n, luck)
<1>1. /\ DOMAIN s.orders = Numbers(s.orders) /\ Len(s.orders) \in Nat /\ DOMAIN s = ShareFields /\ s.held \in Int
      /\ s.time \in 0 .. ShareTime /\ Stopping(s) /\ PairsMatch(s)
      /\ \A i \in Numbers(s.orders) : Matched(s.orders, i) /\ DOMAIN s.orders[i] = ShareOrder /\ s.orders[i].shares \in Nat
  BY StoppingParts DEF Good, Stopping, PairsMatch
<1>2. ASSUME A!Exit(o), A!Available(s, o) = 0 PROVE Good(ended)
  <2>1. o.side \in Sides
    BY <1>1 DEF Stopping, Linked
  <2>2. ASSUME NEW side \in Sides, Towards(s, side) > 0 PROVE StopOf(o, side) = 0
    <3>1. side # o.side
      BY <1>1, <1>2, <2>1, <2>2 DEF A!Available, A!Most, Towards, Sides
    <3> QED BY <3>1 DEF StopOf
  <2> HIDE DEF o
  <2>3. \A side \in Sides : MustCover(s) /\ Towards(s, side) > 0 => StopOf(s.orders[id], side) = 0
    BY <2>2 DEF o
  <2> QED BY <2>3, EndedCovers
<1>3. ASSUME A!Open(o)
      PROVE  /\ Good(t) /\ id \in Numbers(t.orders) /\ A!Open(t.orders[id]) /\ t.held = s.held
             /\ t.orders[id].role = o.role /\ t.orders[id].side = o.side /\ t.orders[id].shares = o.shares
  <2>1. /\ DOMAIN t = ShareFields /\ t.orders = [s.orders EXCEPT ![id] = [@ EXCEPT !.status = "working"]]
        /\ t.held = s.held /\ t.exposed = s.exposed /\ t.time = s.time
    BY <1>1 DEF ShareFields
  <2> HIDE DEF t
  <2>2. /\ t.orders[id] = [o EXCEPT !.status = "working"]
        /\ \A i \in Numbers(s.orders) : i # id => t.orders[i] = s.orders[i]
    BY <1>1, <2>1
  <2>3. ASSUME NEW i \in DOMAIN s.orders
        PROVE  /\ DOMAIN t.orders[i] = ShareOrder /\ t.orders[i].oco = s.orders[i].oco
               /\ \/ t.orders[i].status = s.orders[i].status
                  \/ A!Open(s.orders[i]) /\ t.orders[i].status \in {"working", "cancelled", "rejected"}
    BY <1>1, <1>3, <2>1 DEF Matched, ShareOrder
  <2>4. DOMAIN t.orders = DOMAIN s.orders /\ t.orders = [i \in DOMAIN t.orders |-> t.orders[i]]
    BY <2>1
  <2>5. PairsMatch(t) /\ Len(t.orders) = Len(s.orders)
    BY <1>1, <2>1, <2>3, <2>4, StatusesKeepPairs
  <2>6. /\ t.orders[id].status = "working" /\ t.orders[id].role = o.role /\ t.orders[id].side = o.side
        /\ t.orders[id].shares = o.shares /\ t.orders[id].oco = o.oco /\ t.orders[id].dayEnd = o.dayEnd
    BY <1>1, <2>2 DEF ShareOrder
  <2>7. A!Open(t.orders[id])
    BY <2>6 DEF A!Open
  <2>8. ASSUME NEW i \in Numbers(s.orders) PROVE Alongside(s.orders[i], t.orders[i])
    <3>1. CASE i = id
      BY <1>1, <1>3, <2>6, <3>1 DEF Alongside
    <3>2. CASE i # id
      BY <1>1, <2>2, <3>2 DEF Alongside
    <3> QED BY <3>1, <3>2
  <2>9. AllAlongside(s, t) /\ Calm(s, t)
    BY <2>1, <2>5, <2>8 DEF AllAlongside, Calm
  <2>10. Stopping(t)
    BY <1>1, <2>1, <2>5, <2>9, StoppingKept
  <2>11. ASSUME NEW i \in Numbers(s.orders), NEW side \in Sides PROVE StopOf(t.orders[i], side) >= StopOf(s.orders[i], side)
    <3>1. StopOf(t.orders[i], side) = StopOf(s.orders[i], side)
      <4>1. CASE i = id
        BY <1>3, <2>6, <2>7, <4>1 DEF StopOf
      <4>2. CASE i # id
        BY <2>2, <4>2
      <4> QED BY <4>1, <4>2
    <3>2. StopOf(s.orders[i], side) \in Nat
      BY <1>1, StoppingParts
    <3> QED BY <3>1, <3>2
  <2>12. StopsKept(s, t)
    <3>1. Len(s.orders) <= Len(t.orders)
      BY <1>1, <2>5
    <3> QED BY <1>1, <2>10, <2>11, <3>1, KeptWhen
  <2>13. Good(t)
    BY <2>9, <2>10, <2>12, KeptCovers DEF Good
  <2> QED BY <2>1, <2>5, <2>6, <2>7, <2>13 DEF Numbers
<1>4. ASSUME A!Open(o), ~(A!Exit(o) /\ A!Available(s, o) = 0) PROVE Good(executed)
  <2> HIDE DEF t
  <2>1. A!Exit(t.orders[id]) <=> A!Exit(o)
    BY <1>3, <1>4 DEF A!Exit
  <2>2. A!Available(t, t.orders[id]) = A!Available(s, o)
    BY <1>3, <1>4 DEF A!Available
  <2>3. n = IF A!Exit(t.orders[id]) THEN A!Least(t.orders[id].shares, A!Available(t, t.orders[id])) ELSE t.orders[id].shares
    BY <1>3, <1>4, <2>1, <2>2
  <2>4. A!Exit(t.orders[id]) => A!Available(t, t.orders[id]) # 0
    BY <1>4, <2>1, <2>2
  <2> HIDE DEF n
  <2> QED BY <1>3, <1>4, <2>3, <2>4, ExecutedCovers
<1>5. \/ A!Visited(s, id, accepting, luck) = s
      \/ A!Exit(o) /\ A!Available(s, o) = 0 /\ A!Visited(s, id, accepting, luck) = ended
      \/ A!Open(o) /\ A!Visited(s, id, accepting, luck) = t
      \/ A!Open(o) /\ ~(A!Exit(o) /\ A!Available(s, o) = 0) /\ A!Visited(s, id, accepting, luck) = executed
  <2> HIDE DEF t, ended, executed
  <2> QED BY DEF A!Visited, t, ended, executed
<1> HIDE DEF t, ended, executed
<1> QED BY <1>2, <1>3, <1>4, <1>5

LEMMA WorkedCovers == ASSUME NEW s, Good(s), NEW luck PROVE Good(A!Worked(s, luck))
<1> DEFINE n == A!IdBound
           pass == CHOOSE f : Passes(f, s, luck, n)
           Broken == {k \in 0 .. n : ~Good(pass[k])}
<1>1. n \in Nat
  BY SharesAssumption DEF A!IdBound
<1>2. A!Worked(s, luck) = pass[n]
  BY DEF A!Worked, Passes, VisitedNext
<1>3. Passes(pass, s, luck, n)
  BY <1>1, PassExists
<1> HIDE DEF n, pass
<1>4. ASSUME Broken # {} PROVE FALSE
  <2>1. PICK k \in Broken : \A j \in Broken : k <= j
    <3>1. Broken \subseteq Nat
      BY <1>1
    <3> HIDE DEF Broken
    <3> QED BY <1>4, <3>1, LeastNumber
  <2>2. k \in 0 .. n /\ ~Good(pass[k])
    OBVIOUS
  <2>3. pass[k] = IF k = 0 THEN s ELSE VisitedNext(pass[k - 1], k, luck)
    BY <1>3, <2>2 DEF Passes
  <2>4. k # 0
    BY <2>2, <2>3
  <2>5. Good(pass[k - 1])
    BY <1>1, <2>1, <2>2, <2>4
  <2>6. Good(VisitedNext(pass[k - 1], k, luck))
    <3>1. DOMAIN pass[k - 1].orders = Numbers(pass[k - 1].orders)
      BY <2>5, StoppingParts DEF Good
    <3> QED BY <2>5, <3>1, VisitedCovers DEF VisitedNext
  <2> QED BY <2>2, <2>3, <2>4, <2>6
<1> QED BY <1>1, <1>2, <1>4

LEMMA AcceptedCovers ==
  ASSUME NEW s, Good(s), NEW r, A!Valid(r), NEW fits
  PROVE  Good(A!Accept(s, r, fits))
<1> DEFINE first == A!Placed(s, r, "normal")
           id == Len(first.orders)
           q == r.oco[1]
           second == A!Placed(first, q, "normal")
           paired == A!Paired(second, id, id + 1)
           ended == A!Ended(first, id, "rejected")
<1>1. \/ A!Accept(s, r, fits) = first
      \/ r.oco # <<>> /\ A!Accept(s, r, fits) \in {paired, ended}
  <2> HIDE DEF paired, ended, first
  <2> QED BY DEF A!Accept, first, paired, ended
<1>2. /\ Stopping(first) /\ Calm(s, first) /\ StopsKept(s, first) /\ id \in Nat /\ id = Len(s.orders) + 1
      /\ first.orders[id].role = "normal" /\ first.orders[id].oco = 0 /\ first.orders[id].status # "filled"
  <2>1. r.side \in Sides /\ r.shares \in Nat /\ "normal" \in Roles /\ ("normal" = "stop" => r.gtc)
    BY DEF A!Valid, A!Sized, Sides, Roles
  <2> QED BY <2>1, PlacedStops DEF Good
<1> HIDE DEF first
<1>3. Good(first)
  BY <1>2, KeptCovers DEF Good
<1>4. id \in Numbers(first.orders)
  BY <1>2, StoppingParts DEF Numbers, Good
<1>5. Good(ended)
  <2>1. \A side \in Sides : MustCover(first) /\ Towards(first, side) > 0 => StopOf(first.orders[id], side) = 0
    BY <1>2 DEF StopOf
  <2> QED BY <1>3, <1>4, <2>1, EndedCovers
<1>6. ASSUME r.oco # <<>> PROVE Good(paired)
  <2>1. /\ Stopping(second) /\ Calm(first, second) /\ StopsKept(first, second) /\ Len(second.orders) = id + 1
        /\ second.orders[id + 1].role = "normal" /\ second.orders[id + 1].oco = 0
        /\ second.orders[id + 1].status # "filled" /\ second.orders[id] = first.orders[id]
    <3>1. q.side \in Sides /\ q.shares \in Nat /\ "normal" \in Roles /\ ("normal" = "stop" => q.gtc)
      BY <1>6 DEF A!Valid, A!Sized, Sides, Roles
    <3> HIDE DEF q
    <3>2. LET n == Len(second.orders) IN
          /\ Stopping(second) /\ Calm(first, second) /\ StopsKept(first, second) /\ n = Len(first.orders) + 1
          /\ \A i \in Numbers(first.orders) : second.orders[i] = first.orders[i]
          /\ second.orders[n].role = "normal" /\ second.orders[n].oco = 0 /\ second.orders[n].status # "filled"
      BY <1>2, <3>1, PlacedStops
    <3> HIDE DEF second
    <3> QED BY <1>4, <3>2
  <2> HIDE DEF second, id
  <2>2. Good(second)
    BY <1>3, <2>1, KeptCovers DEF Good
  <2>3. id \in Numbers(second.orders) /\ id + 1 \in Numbers(second.orders) /\ id # id + 1
    <3>1. id \in Nat /\ id >= 1
      BY <1>4, <1>2, StoppingParts DEF Numbers, id
    <3> QED BY <2>1, <3>1 DEF Numbers
  <2>4. /\ second.orders[id].oco = 0 /\ second.orders[id].status # "filled" /\ second.orders[id].role = "normal"
    BY <1>2, <2>1
  <2>5. Joined(second.orders[id], second.orders[id + 1])
    BY <2>1, <2>4 DEF Joined, A!Exit
  <2>6. Stopping(paired) /\ Calm(second, paired) /\ StopsKept(second, paired)
    BY <2>1, <2>3, <2>4, <2>5, PairedStops
  <2> HIDE DEF paired
  <2> QED BY <2>2, <2>6, KeptCovers DEF Good
<1> HIDE DEF paired, ended
<1> QED BY <1>1, <1>3, <1>5, <1>6

LEMMA WorkedAtOnceCovers ==
  ASSUME NEW s, Good(s), NEW r, A!Valid(r), NEW fits, NEW luck
  PROVE  Good(A!WorkedAtOnce(s, r, fits, luck))
<1> DEFINE accepted == A!Accept(s, r, fits)
           id == Len(s.orders) + 1
           partner == accepted.orders[id].oco
           worked == A!Visited(accepted, id, TRUE, luck)
           both == A!Visited(worked, partner, TRUE, luck)
<1>1. A!WorkedAtOnce(s, r, fits, luck) = IF partner = 0 THEN worked ELSE both
  BY DEF A!WorkedAtOnce, A!None
<1>2. Good(accepted) /\ id \in Numbers(accepted.orders)
  BY AcceptedCovers, AcceptedPairs DEF Good, Stopping
<1> HIDE DEF accepted, id
<1>3. Good(worked) /\ Len(accepted.orders) <= Len(worked.orders)
  BY <1>2, VisitedCovers, VisitedPairs DEF Good, Stopping
<1>4. partner \in 0 .. Len(accepted.orders)
  BY <1>2 DEF Good, Stopping, PairsMatch, Matched
<1>5. Len(accepted.orders) \in Nat /\ Len(worked.orders) \in Nat
  BY <1>2, <1>3, StoppingParts DEF Good
<1> HIDE DEF worked, partner
<1>6. ASSUME partner # 0 PROVE Good(both)
  <2>1. partner \in Numbers(worked.orders)
    BY <1>3, <1>4, <1>5, <1>6 DEF Numbers
  <2> QED BY <1>3, <2>1, VisitedCovers
<1> HIDE DEF both
<1> QED BY <1>1, <1>3, <1>6

\* What expires is no stop: those stand until they are cancelled.
LEMMA AtCovers == ASSUME Good(shareState), NEW at \in 0 .. ShareTime PROVE Good(A!At(at))
<1> DEFINE s == [shareState EXCEPT !.time = at]
           ids == {i \in DOMAIN s.orders : at >= s.orders[i].dayEnd}
           t == A!AllEnded(s, ids)
<1>1. /\ DOMAIN s = ShareFields /\ s.orders = shareState.orders /\ s.held = shareState.held
      /\ s.exposed = shareState.exposed /\ s.time = at
  BY DEF Good, Stopping, PairsMatch, ShareFields
<1> HIDE DEF s
<1>2. Good(s)
  BY <1>1, SameStops
<1>3. /\ Stopping(t) /\ AllAlongside(s, t) /\ Calm(s, t)
      /\ \A i \in Numbers(s.orders) : i \notin ids => t.orders[i] = s.orders[i]
  <2> HIDE DEF ids
  <2> QED BY <1>2, AllEndedStops DEF Good
<1>4. \A i \in Numbers(s.orders) : i \in ids => s.orders[i].role # "stop"
  BY <1>2, SharesAssumption DEF Good, Stopping, Linked
<1> HIDE DEF ids, t
<1>5. ASSUME NEW i \in Numbers(s.orders), NEW side \in Sides PROVE StopOf(t.orders[i], side) >= StopOf(s.orders[i], side)
  <2>0. StopOf(s.orders[i], side) \in Nat /\ StopOf(t.orders[i], side) \in Nat
    BY <1>2, <1>3, StoppingParts DEF Good, AllAlongside, Numbers
  <2>1. CASE i \in ids
    BY <1>4, <2>0, <2>1 DEF StopOf
  <2>2. CASE i \notin ids
    BY <1>3, <2>0, <2>2
  <2> QED BY <2>1, <2>2
<1>6. StopsKept(s, t)
  <2>1. Len(s.orders) <= Len(t.orders)
    BY <1>2, <1>3, StoppingParts DEF AllAlongside, Good
  <2> QED BY <1>2, <1>3, <1>5, <2>1, KeptWhen DEF Good
<1>7. Good(t)
  BY <1>2, <1>3, <1>6, KeptCovers DEF Good
<1> QED BY <1>7 DEF A!At, t, ids, s

LEMMA PrintedCovers ==
  ASSUME NEW s, Good(s), NEW price PROVE Good(A!Printed(s, price)) /\ Good(A!Fed(s, price))
<1> DEFINE t == A!Printed(s, price)
<1>1. /\ DOMAIN t = ShareFields /\ t.orders = s.orders /\ t.held = s.held /\ t.exposed = s.exposed
      /\ t.time \in 0 .. ShareTime
  BY DEF A!Printed, Good, Stopping, PairsMatch, ShareFields
<1> HIDE DEF t
<1>2. Good(t)
  BY <1>1, SameStops
<1> QED BY <1>2 DEF A!Fed, t

LEMMA TradedParts ==
  ASSUME NEW s, Stopping(s), NEW signed \in Int
  PROVE  LET t == A!Traded(s, signed) IN
         Stopping(t) /\ t.orders = s.orders /\ t.held = s.held + signed /\ t.exposed = s.exposed
<1> DEFINE t == A!Traded(s, signed)
<1>1. /\ t.held = s.held + signed /\ t.exposed = s.exposed /\ t.time = s.time /\ s.held \in Int
  BY DEF A!Traded, Stopping, PairsMatch, ShareFields
<1>2. PairsMatch(t) /\ t.orders = s.orders
  BY TradedPairs DEF Stopping
<1> HIDE DEF t
<1>3. Stopping(t)
  BY <1>1, <1>2 DEF Stopping
<1> QED BY <1>1, <1>2, <1>3 DEF t

\* What reduces the shares needs no more stops, and none are needed for none.
LEMMA TradedCovers ==
  ASSUME NEW s, Good(s), NEW signed \in Int,
         (sharePlan.requireStop => A!Reduces(s, signed)) \/ s.held + signed = 0
  PROVE  Good(A!Traded(s, signed))
<1> DEFINE t == A!Traded(s, signed)
<1>1. Stopping(t) /\ t.orders = s.orders /\ t.held = s.held + signed /\ t.exposed = s.exposed /\ s.held \in Int
  BY TradedParts DEF Good, Stopping
<1> HIDE DEF t
<1>2. ASSUME MustCover(t), NEW side \in Sides PROVE Lacks(t, side, 0)
  <2>1. Lacks(s, side, 0) /\ sharePlan.requireStop /\ StopsOf(t, side) = StopsOf(s, side)
    BY <1>1, <1>2 DEF MustCover, Good, Covers, StopsOf
  <2>2. StopsOf(s, side) \in Nat
    BY StopsCount DEF Good
  <2>3. Towards(t, side) > 0 => Towards(s, side) > 0 /\ Towards(t, side) <= Towards(s, side)
    BY <1>1, <2>1 DEF Towards, A!Reduces
  <2>4. Towards(t, side) \in Int /\ Towards(s, side) \in Int
    BY <1>1 DEF Towards
  <2> QED BY <2>1, <2>2, <2>3, <2>4 DEF Lacks
<1> QED BY <1>1, <1>2 DEF Good, Covers, t

\* Nothing is to be covered where nothing is held or the shares are exposed.
LEMMA NothingToCover ==
  ASSUME NEW s, Stopping(s), s.held = 0 \/ s.exposed \/ ~sharePlan.requireStop PROVE Good(s)
<1>1. ASSUME MustCover(s), NEW side \in Sides PROVE Lacks(s, side, 0)
  BY <1>1 DEF MustCover, Lacks, Towards
<1> QED BY <1>1 DEF Good, Covers

LEMMA AllEndedCovers ==
  ASSUME NEW s, Good(s), NEW ids,
         s.held = 0 \/ s.exposed \/ ~sharePlan.requireStop
           \/ \A i \in Numbers(s.orders) : A!Open(s.orders[i]) => s.orders[i].role # "stop"
  PROVE  Good(A!AllEnded(s, ids))
<1> DEFINE t == A!AllEnded(s, ids)
<1>1. Stopping(t) /\ AllAlongside(s, t) /\ Calm(s, t)
  BY AllEndedStops DEF Good
<1> HIDE DEF t
<1>2. CASE s.held = 0 \/ s.exposed \/ ~sharePlan.requireStop
  BY <1>1, <1>2, NothingToCover DEF Calm, t
<1>3. CASE \A i \in Numbers(s.orders) : A!Open(s.orders[i]) => s.orders[i].role # "stop"
  <2>1. ASSUME NEW i \in Numbers(s.orders), NEW side \in Sides PROVE StopOf(t.orders[i], side) >= StopOf(s.orders[i], side)
    <3>1. StopOf(s.orders[i], side) = 0 /\ StopOf(t.orders[i], side) \in Nat
      BY <1>1, <1>3, StoppingParts DEF StopOf, AllAlongside, Numbers
    <3> QED BY <3>1
  <2>2. Len(s.orders) <= Len(t.orders)
    BY <1>1, StoppingParts DEF AllAlongside, Good
  <2>3. StopsKept(s, t)
    BY <1>1, <2>1, <2>2, KeptWhen DEF Good
  <2> QED BY <1>1, <2>3, KeptCovers DEF Good, t
<1> QED BY <1>2, <1>3

LEMMA SameStopping ==
  ASSUME NEW s, Stopping(s), NEW t, DOMAIN t = ShareFields, t.orders = s.orders, t.held \in Int, t.time \in 0 .. ShareTime
  PROVE  Stopping(t)
<1>1. PairsMatch(t)
  BY SameOrdersPairs DEF Stopping
<1> QED BY <1>1 DEF Stopping

LEMMA NoneToCover ==
  ASSUME NEW t, Stopping(t), NEW u, DOMAIN u = ShareFields, u.orders = t.orders, u.held = t.held, u.time = t.time,
         u.held = 0 \/ u.exposed
  PROVE  Good(u)
<1>1. Stopping(u)
  BY SameStopping DEF Stopping
<1> QED BY <1>1, NothingToCover

CoverInv == sharePlan \in ShareAccounts /\ Good(shareState)

LEMMA CommandCovers ==
  ASSUME CoverInv, NEW at \in 0 .. ShareTime, A!Command(at) PROVE Good(shareState')
<1> DEFINE s == A!At(at)
<1>0. Good(s) /\ Good(shareState) /\ Stopping(s) /\ s.held \in Int /\ Len(s.orders) \in Nat
      /\ DOMAIN s = ShareFields /\ DOMAIN s.orders = Numbers(s.orders) /\ s.time \in 0 .. ShareTime
  BY AtCovers, StoppingParts DEF CoverInv, Good, Stopping
<1>1. ASSUME A!OnQuotes(at) PROVE Good(shareState')
  <2>1. PICK price \in SharePrices \union {A!None}, luck \in sharePlan.lucks :
          shareState' = A!Worked(IF price = A!None \/ at < s.halt THEN s ELSE A!Printed(s, price), luck)
    BY <1>1 DEF A!OnQuotes
  <2> HIDE DEF s
  <2> DEFINE seen == IF price = A!None \/ at < s.halt THEN s ELSE A!Printed(s, price)
  <2>2. Good(seen)
    BY <1>0, PrintedCovers
  <2> HIDE DEF seen
  <2>3. Good(A!Worked(seen, luck))
    BY <2>2, WorkedCovers
  <2> QED BY <2>1, <2>3 DEF seen
<1>2. ASSUME A!Submit(at) PROVE Good(shareState')
  <2>1. PICK r \in sharePlan.offers, feed \in sharePlan.feeds, luck \in sharePlan.lucks, fits \in BOOLEAN :
          shareState' = IF A!Admitted(A!Fed(s, feed), r) THEN A!WorkedAtOnce(A!Fed(s, feed), r, fits, luck)
                        ELSE A!Fed(s, feed)
    BY <1>2 DEF A!Submit
  <2>2. A!Valid(r)
    BY SharesAssumption DEF CoverInv
  <2> HIDE DEF s
  <2> DEFINE fed == A!Fed(s, feed)
  <2>3. Good(fed)
    BY <1>0, PrintedCovers
  <2> HIDE DEF fed
  <2>4. Good(A!WorkedAtOnce(fed, r, fits, luck))
    BY <2>2, <2>3, WorkedAtOnceCovers
  <2>5. shareState' = IF A!Admitted(fed, r) THEN A!WorkedAtOnce(fed, r, fits, luck) ELSE fed
    BY <2>1 DEF fed
  <2> QED BY <2>3, <2>4, <2>5
<1>3. ASSUME A!Cancel(at) PROVE Good(shareState')
  <2>1. PICK id \in DOMAIN shareState.orders :
          /\ shareState' = A!Ended(s, id, "cancelled")
          /\ ~(sharePlan.requireStop /\ s.orders[id].role = "stop" /\ s.held # 0)
    BY <1>3 DEF A!Cancel
  <2>2. id \in Numbers(s.orders)
    <3> DEFINE t == [shareState EXCEPT !.time = at]
    <3>1. DOMAIN t = ShareFields /\ t.orders = shareState.orders
      BY <1>0, StoppingParts DEF ShareFields, Good
    <3> HIDE DEF t
    <3>2. PairsMatch(t)
      BY <1>0, <3>1, SameOrdersPairs DEF Good, Stopping
    <3>3. Len(A!AllEnded(t, {i \in DOMAIN t.orders : at >= t.orders[i].dayEnd}).orders) = Len(t.orders)
      BY <3>2, AllEndedPairs
    <3>4. Len(s.orders) = Len(shareState.orders)
      BY <3>1, <3>3 DEF A!At, t
    <3>5. DOMAIN shareState.orders = Numbers(shareState.orders)
      BY <1>0, StoppingParts DEF Good
    <3> QED BY <3>4, <3>5 DEF Numbers
  <2> HIDE DEF s
  <2>3. \A side \in Sides : MustCover(s) /\ Towards(s, side) > 0 => StopOf(s.orders[id], side) = 0
    <3>1. ASSUME NEW side \in Sides, MustCover(s), Towards(s, side) > 0 PROVE StopOf(s.orders[id], side) = 0
      <4>1. s.held # 0 /\ sharePlan.requireStop
        BY <1>0, <3>1 DEF Towards, MustCover
      <4>2. s.orders[id].role # "stop"
        BY <2>1, <4>1
      <4> QED BY <4>2 DEF StopOf
    <3> QED BY <3>1
  <2> QED BY <1>0, <2>1, <2>2, <2>3, EndedCovers
<1>4. ASSUME A!CancelAll(at) PROVE Good(shareState')
  <2>1. /\ shareState' = A!AllEnded(s, DOMAIN s.orders)
        /\ ~(sharePlan.requireStop /\ s.held # 0 /\ \E i \in DOMAIN s.orders : A!Open(s.orders[i]) /\ s.orders[i].role = "stop")
    BY <1>4 DEF A!CancelAll
  <2> HIDE DEF s
  <2>2. s.held = 0 \/ s.exposed \/ ~sharePlan.requireStop
          \/ \A i \in Numbers(s.orders) : A!Open(s.orders[i]) => s.orders[i].role # "stop"
    BY <1>0, <2>1
  <2> QED BY <1>0, <2>1, <2>2, AllEndedCovers
<1>5. ASSUME A!TradeStock(at) PROVE Good(shareState')
  <2>1. PICK q \in ShareTrades, feed \in sharePlan.feeds, luck \in sharePlan.lucks :
          \/ shareState' = A!Fed(s, feed)
          \/ shareState' = A!Traded(A!Fed(s, feed), q) /\ A!Verdict(A!Fed(s, feed), q, FALSE, luck) = "ok"
    BY <1>5 DEF A!TradeStock
  <2> HIDE DEF s
  <2> DEFINE fed == A!Fed(s, feed)
  <2>2. Good(fed)
    BY <1>0, PrintedCovers
  <2> HIDE DEF fed
  <2>3. ASSUME A!Verdict(fed, q, FALSE, luck) = "ok" PROVE Good(A!Traded(fed, q))
    <3>1. sharePlan.requireStop => A!Reduces(fed, q)
      BY <2>3 DEF A!Verdict
    <3>2. q \in Int
      BY SharesAssumption
    <3> QED BY <2>2, <3>1, <3>2, TradedCovers
  <2>4. shareState' = fed \/ (shareState' = A!Traded(fed, q) /\ A!Verdict(fed, q, FALSE, luck) = "ok")
    BY <2>1 DEF fed
  <2> QED BY <2>2, <2>3, <2>4
<1>6. ASSUME A!CloseShares(at) PROVE Good(shareState')
  <2>1. shareState' = A!Traded(s, -s.held)
    BY <1>6 DEF A!CloseShares
  <2> HIDE DEF s
  <2>2. -s.held \in Int /\ s.held + (-s.held) = 0
    BY <1>0
  <2> QED BY <1>0, <2>1, <2>2, TradedCovers
<1>7. ASSUME A!Deliver(at) PROVE Good(shareState')
  <2>1. PICK q \in Delivered : shareState' = [A!Traded(s, q) EXCEPT !.exposed = TRUE]
    BY <1>7 DEF A!Deliver
  <2> HIDE DEF s
  <2> DEFINE t == A!Traded(s, q)
  <2>2. Stopping(t)
    BY <1>0, TradedParts, SharesAssumption
  <2> HIDE DEF t
  <2>3. /\ DOMAIN shareState' = ShareFields /\ shareState'.orders = t.orders /\ shareState'.held = t.held
        /\ shareState'.time = t.time /\ shareState'.exposed
    BY <2>1, <2>2, StoppingParts DEF t, ShareFields
  <2> QED BY <2>2, <2>3, NoneToCover
<1>8. ASSUME A!Split(at) PROVE Good(shareState')
  <2>1. PICK r \in Splits :
          shareState' = A!AllEnded([A!Traded(s, A!Toward0(s.held * r[1], r[2]) - s.held)
                                      EXCEPT !.mark.price = (@ * r[2]) \div r[1], !.exposed = TRUE], DOMAIN s.orders)
    BY <1>8 DEF A!Split
  <2> HIDE DEF s
  <2> DEFINE q == A!Toward0(s.held * r[1], r[2]) - s.held
             t == A!Traded(s, q)
             u == [t EXCEPT !.mark.price = (@ * r[2]) \div r[1], !.exposed = TRUE]
  <2>2. q \in Int
    <3>1. r[1] \in Nat \ {0} /\ r[2] \in Nat \ {0}
      BY SharesAssumption
    <3>2. s.held * r[1] \in Int
      BY <1>0, <3>1
    <3> DEFINE x == s.held * r[1]
    <3> HIDE DEF x
    <3>3. x \in Int
      BY <3>2 DEF x
    <3>4. A!Toward0(x, r[2]) \in Int
      BY <3>1, <3>3 DEF A!Toward0
    <3> QED BY <1>0, <3>4 DEF x
  <2>3. shareState' = A!AllEnded(u, DOMAIN s.orders)
    BY <2>1
  <2> HIDE DEF q
  <2>4. Stopping(t)
    BY <1>0, <2>2, TradedParts
  <2> HIDE DEF t
  <2>5. DOMAIN u = ShareFields /\ u.orders = t.orders /\ u.held = t.held /\ u.time = t.time /\ u.exposed
    BY <2>4, StoppingParts DEF ShareFields
  <2> HIDE DEF u
  <2>6. Good(u)
    BY <2>4, <2>5, NoneToCover
  <2>7. Good(A!AllEnded(u, DOMAIN s.orders))
    BY <2>5, <2>6, AllEndedCovers
  <2> QED BY <2>3, <2>7
<1>9. ASSUME A!ResetAccount(at) PROVE Good(shareState')
  <2> DEFINE t == A!AllEnded(s, DOMAIN shareState.orders)
             u == A!Traded(t, -t.held)
  <2>1. shareState' = [u EXCEPT !.locked = FALSE, !.exposed = FALSE]
    BY <1>9 DEF A!ResetAccount
  <2> HIDE DEF s
  <2>2. Stopping(t) /\ t.held \in Int
    BY <1>0, AllEndedStops DEF Stopping
  <2> HIDE DEF t
  <2>3. Stopping(u) /\ u.held = 0
    <3>1. -t.held \in Int /\ t.held + (-t.held) = 0
      BY <2>2
    <3> QED BY <2>2, <3>1, TradedParts
  <2> HIDE DEF u
  <2>4. /\ DOMAIN shareState' = ShareFields /\ shareState'.orders = u.orders /\ shareState'.held = u.held
        /\ shareState'.time = u.time
    BY <2>1, <2>3, StoppingParts DEF ShareFields
  <2> QED BY <2>3, <2>4, NoneToCover
<1>10. ASSUME A!Lock(at) \/ A!Halt(at) PROVE Good(shareState')
  <2>1. \/ shareState' = [s EXCEPT !.locked = ~@]
        \/ \E end \in at + 1 .. at + 2 : shareState' = [s EXCEPT !.halt = end]
    BY <1>10 DEF A!Lock, A!Halt
  <2> HIDE DEF s
  <2>2. /\ DOMAIN shareState' = ShareFields /\ shareState'.orders = s.orders /\ shareState'.held = s.held
        /\ shareState'.exposed = s.exposed /\ shareState'.time = s.time
    BY <1>0, <2>1 DEF ShareFields
  <2> QED BY <1>0, <2>2, SameStops
<1> QED BY <1>1, <1>2, <1>3, <1>4, <1>5, <1>6, <1>7, <1>8, <1>9, <1>10 DEF A!Command

\* What the property sums is what the open stops for the shares held add up to.
LEMMA CoveredStops ==
  ASSUME Stopping(shareState), shareState.held # 0
  PROVE  A!Covered = StopsOf(shareState, IF shareState.held > 0 THEN "sell" ELSE "buy")
<1> DEFINE os == shareState.orders
           n == Len(os)
           side == IF shareState.held > 0 THEN "sell" ELSE "buy"
           g == [k \in Numbers(os) |-> StopOf(os[k], side)]
           f == [k \in 0 .. n |-> IF k = 0 THEN 0 ELSE 0]
<1>1. n \in Nat /\ DOMAIN os = Numbers(os)
  BY StoppingParts
<1>2. \A k \in Numbers(os) : (IF k \in A!OpenStops THEN os[k].shares ELSE 0) = g[k]
  BY <1>1 DEF A!OpenStops, StopOf
<1>3. \A h : (h = [k \in 0 .. n |-> IF k = 0 THEN 0 ELSE h[k - 1] + (IF k \in A!OpenStops THEN os[k].shares ELSE 0)])
               <=> Sums(h, g, n)
  <2>1. \A k \in 0 .. n : k # 0 => (IF k \in A!OpenStops THEN os[k].shares ELSE 0) = g[k]
    <3> HIDE DEF g, os
    <3>1. \A k \in 0 .. n : k # 0 => k \in Numbers(os)
      BY <1>1 DEF Numbers
    <3> QED BY <1>2, <3>1
  <2> HIDE DEF g, os, n
  <2> QED BY <2>1 DEF Sums
<1> QED BY <1>3 DEF A!Covered, StopsOf, SumTo

(* Under a plan that requires stops, open stops cover what its orders bought or sold: what each  *)
(* exit, target, reversal, refusal and trade leaves is covered by the stops they leave, until a   *)
(* delivery, a split or a refused stop exposes shares (stock_orders.inc).                         *)
THEOREM StopsAlwaysCover == SharesSpec => []StopsCover
<1>1. A!Init => CoverInv
  <2> SUFFICES ASSUME A!Init PROVE CoverInv
    OBVIOUS
  <2>1. IsSeq(<<>>) /\ Len(<<>>) = 0
    <3>1. <<>> \in Seq({})
      OBVIOUS
    <3> QED BY <3>1 DEF IsSeq
  <2>2. PairsMatch(shareState)
    BY <2>1 DEF A!Init, A!NewAccount, PairsMatch, ShareFields, Numbers
  <2>3. shareState.held = 0 /\ shareState.time = 0 /\ Len(shareState.orders) = 0
    BY <2>1 DEF A!Init, A!NewAccount
  <2>4. Stopping(shareState)
    BY <2>2, <2>3, SharesAssumption DEF Stopping, Numbers
  <2>5. Good(shareState)
    BY <2>3, <2>4, NothingToCover
  <2> QED BY <2>5 DEF CoverInv, A!Init
<1>2. CoverInv /\ [A!Next]_A!vars => CoverInv'
  <2>1. ASSUME CoverInv, A!Next PROVE CoverInv'
    <3>1. PICK at \in {shareState.time, A!Least(shareState.time + 1, ShareTime)} : A!Command(at)
      BY <2>1 DEF A!Next
    <3>2. at \in 0 .. ShareTime
      BY <2>1, SharesAssumption DEF CoverInv, Good, Stopping, A!Least
    <3>3. Good(shareState') /\ sharePlan' = sharePlan
      BY <2>1, <3>1, <3>2, CommandCovers DEF A!Next
    <3> QED BY <2>1, <3>3 DEF CoverInv, Good, Covers, MustCover
  <2> QED BY <2>1 DEF A!vars, CoverInv, Good, Stopping, Covers, MustCover, Lacks, Towards, StopsOf
<1>3. CoverInv => StopsCover
  <2> SUFFICES ASSUME CoverInv, sharePlan.requireStop, ~shareState.exposed, shareState.held # 0
               PROVE  A!Most(shareState.held, -shareState.held) <= A!Covered
    BY DEF StopsCover, A!StopsCover
  <2> DEFINE side == IF shareState.held > 0 THEN "sell" ELSE "buy"
  <2>1. Stopping(shareState) /\ Lacks(shareState, side, 0) /\ shareState.held \in Int /\ side \in Sides
    BY DEF CoverInv, Good, Covers, MustCover, Stopping, Sides
  <2>2. Towards(shareState, side) = A!Most(shareState.held, -shareState.held) /\ Towards(shareState, side) > 0
    BY <2>1 DEF Towards, A!Most
  <2>3. A!Covered = StopsOf(shareState, side)
    BY <2>1, CoveredStops
  <2>4. StopsOf(shareState, side) \in Nat
    BY <2>1, StopsCount
  <2> QED BY <2>1, <2>2, <2>3, <2>4 DEF Lacks
<1> QED BY <1>1, <1>2, <1>3, PTL DEF SharesSpec, A!Spec
=============================================================================
