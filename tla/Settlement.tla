----------------------------- MODULE Settlement -----------------------------
(* What ends a trading day for an account: the prints its expired positions
   settle on, the settlements and the shares they deliver, and the rollover with
   the night's assignments and dividends.  The prints are the desk's, in memory;
   the account, with the closes it recorded, is its journal's and survives a
   restart.  One underlying; a position is -1, 0 or 1 contracts of a call. *)
EXTENDS Integers, Sequences, FiniteSets, FiniteSetsExt

CONSTANTS
  Contracts, Terms,  \* what is traded, and its terms: [date, am, late, delivers, strike]
  Markets,           \* markets: [feed, listed, sides, kinds, last]. feed is where AM openings come
                     \* from, listed a set of contracts and sides the positions a trade may take in
                     \* them (-1, 1), kinds the events that come, last the last date
  Prices,            \* of the underlying, positive
  ExDates,           \* the dates a dividend goes ex
  MaxEvents, MaxTrades, MaxRestarts \* bounds of the model

VARIABLES market, now, desk, account, log, trades, restarts

vars == <<market, now, desk, account, log, trades, restarts>>

(* A date's clock: the first five minutes, its last five minutes, the
   close, the close of the ETF options, and half an hour after the close. *)
Open == 0
LastMinutes == 1
Close == 2
LateClose == 3
Waited == 4
DayTicks == 5
LastDate == Max({one.last : one \in Markets})
Dates == 0..LastDate
DateOf(t) == t \div DayTicks
TickOf(t) == t % DayTicks
At(date, tick) == date * DayTicks + tick

Nothing == [price |-> 0, ts |-> 0]
Known(print) == print # Nothing
NoPrints == [date \in Dates |-> Nothing]
EmptyDesk == [official |-> NoPrints, closing |-> NoPrints, before |-> NoPrints, opening |-> NoPrints,
              quotation |-> NoPrints]
Unsettled == [price |-> 0, day |-> 0, source |-> "none"]
NoPositions == [c \in Contracts |-> 0]

ExpiryTime(c) == At(Terms[c].date, IF Terms[c].am THEN Open ELSE IF Terms[c].late THEN LateClose ELSE Close)
Held(a) == {c \in Contracts : a.positions[c] # 0}
Complete(a) == a.marked /\ \A c \in Held(a) : a.time < ExpiryTime(c)

Init ==
  /\ market \in Markets /\ now = 0 /\ desk = EmptyDesk /\ log = <<>> /\ trades = 0 /\ restarts = 0
  /\ account = [day |-> 0, time |-> 0, marked |-> TRUE, positions |-> NoPositions, prints |-> NoPrints,
                settled |-> [c \in Contracts |-> Unsettled], shares |-> 0,
                dividends |-> [date \in ExDates |-> <<>>], \* the payments of each, in shares
                deliveries |-> {}, rolls |-> {}] \* histories

-----------------------------------------------------------------------------
(* What the desk keeps of an event. *)

KeepFirst(prints, date, print) == IF Known(prints[date]) THEN prints ELSE [prints EXCEPT ![date] = print]
KeepLatest(prints, date, print) ==
  IF Known(prints[date]) /\ print.ts < prints[date].ts THEN prints ELSE [prints EXCEPT ![date] = print]

Printed(d, print) ==
  LET date == DateOf(print.ts)
      opened == IF market.feed = "demo" /\ TickOf(print.ts) = Open
                THEN [d EXCEPT !.opening = KeepFirst(d.opening, date, print)] ELSE d
  IN IF TickOf(print.ts) >= Close THEN [opened EXCEPT !.closing = KeepFirst(d.closing, date, print)]
     ELSE [opened EXCEPT !.before = KeepLatest(d.before, date, print)]
Heard(d, event) ==
  CASE event.kind = "quotes" -> d
    [] event.kind = "print" -> Printed(d, event.print)
    [] event.kind = "official" -> [d EXCEPT !.official[DateOf(event.print.ts)] = event.print]
    [] event.kind = "quotation" -> [d EXCEPT !.quotation[DateOf(event.print.ts)] = event.print]

\* Mutation: a print that came is recorded when the position settles, not when it comes.
RecordAtExpiry(a, d, date, t) ==
  LET held == \E c \in Held(a) : ~Terms[c].am /\ Terms[c].date = date /\ t >= ExpiryTime(c)
  IN IF ~held THEN a.prints[date]
     ELSE IF Known(d.official[date]) THEN d.official[date]
     ELSE IF Known(a.prints[date]) THEN a.prints[date] ELSE d.closing[date]
(* Every account that holds a PM position keeps the close it will settle on. *)
RecordedClose(a, d, date, t) ==
  LET recorded == a.prints[date]
      late == t >= At(date, Waited) /\ Known(d.before[date]) /\ TickOf(d.before[date].ts) = LastMinutes
  IN IF ~\E c \in Held(a) : ~Terms[c].am /\ Terms[c].date = date THEN recorded
     ELSE IF Known(d.official[date]) THEN IF d.official[date].price = recorded.price THEN recorded ELSE d.official[date]
     ELSE IF Known(recorded) THEN recorded
     ELSE IF Known(d.closing[date]) THEN d.closing[date]
     ELSE IF late THEN d.before[date] ELSE Nothing
Record(a, d, t) == [a EXCEPT !.prints = [date \in Dates |-> RecordedClose(a, d, date, t)]]

-----------------------------------------------------------------------------
(* Settlements. *)

SettlesOn(a, d, c) ==
  LET date == Terms[c].date
  IN IF ~Terms[c].am THEN a.prints[date]
     ELSE IF market.feed = "soq" THEN d.quotation[date]
     ELSE IF market.feed = "demo" THEN d.opening[date] ELSE Nothing

SharesOf(deliveries) == MapThenSumSet(LAMBDA one : one.shares, deliveries)
Delivering(prices) == {c \in DOMAIN prices : Terms[c].delivers /\ prices[c] > Terms[c].strike}

(* Settling contracts at their prices. A history remembers the date their shares are
   held into, and the account's day. *)
Settle(a, prices, source) ==
  LET delivered == {[of |-> c, shares |-> a.positions[c], into |-> Terms[c].date + 1, day |-> a.day] : c \in Delivering(prices)}
  IN [a EXCEPT
       !.settled = [c \in Contracts |-> IF c \in DOMAIN prices THEN [price |-> prices[c], day |-> a.day, source |-> source] ELSE @[c]],
       !.positions = [c \in Contracts |-> IF c \in DOMAIN prices THEN 0 ELSE @[c]],
       !.shares = @ + SharesOf(delivered),
       !.deliveries = @ \union delivered]
SettleExpired(a, d, t) ==
  LET ready == {c \in Held(a) : t >= ExpiryTime(c) /\ Known(SettlesOn(a, d, c))}
  IN Settle(a, [c \in ready |-> SettlesOn(a, d, c).price], "print")

-----------------------------------------------------------------------------
(* The rollover. *)

DividendsDue(after, through) == {e \in ExDates : after < e /\ e <= through}

PayDividends(a, due) ==
  LET unpaid == {e \in due : a.shares # 0 /\ a.dividends[e] = <<>>}
  IN [a EXCEPT !.dividends = [e \in ExDates |-> IF e \in unpaid THEN Append(@[e], a.shares) ELSE @[e]]]

(* Shorts that expire later may be assigned overnight: at the rollover's own price
   their holders exercise, which deliver. *)
Assignable(a, day) == {c \in Held(a) : a.positions[c] < 0 /\ Terms[c].delivers /\ Terms[c].date > day}
Assign(a, assigned, day) ==
  LET delivered == {[of |-> c, shares |-> a.positions[c], into |-> day, day |-> a.day] : c \in assigned}
  IN [a EXCEPT
       !.positions = [c \in Contracts |-> IF c \in assigned THEN 0 ELSE @[c]],
       !.shares = @ + SharesOf(delivered),
       !.deliveries = @ \union delivered]

RollDay(a, t, assigned) ==
  LET day == DateOf(t)
      opened == [a EXCEPT !.day = day, !.time = t, !.rolls = @ \union {day}]
  IN PayDividends(Assign(opened, assigned \intersect Assignable(a, day), day), DividendsDue(a.day, day))
Roll(a, t, assigned) == IF DateOf(t) > a.day /\ Complete(a) THEN RollDay(a, t, assigned) ELSE a

-----------------------------------------------------------------------------
(* One batch for the account: the finished day first, unless a position of it has
   still to settle; then quotes, closes, settlements, and the day if it waited. *)
\* Mutation: the finished day does not wait for its PM positions.
NothingToSettle(a, t) == TRUE
SettledBefore(a, t) == \A c \in Held(a) : ~Terms[c].am => t < ExpiryTime(c)
Update(a, d, t, marked, assigned) ==
  LET first == IF SettledBefore(a, t) THEN Roll(a, t, assigned) ELSE a
      quoted == [first EXCEPT !.time = t, !.marked = marked]
      settled == SettleExpired(Record(quoted, d, t), d, t)
  IN Roll(settled, t, assigned)

(* A history: what was heard, and what of it the account holds on to. *)
Forgotten == [kind |-> "forgotten", print |-> Nothing, kept |-> FALSE]
Logged(entries, event) ==
  IF event.kind = "quotes" THEN entries ELSE Append(entries, [kind |-> event.kind, print |-> event.print, kept |-> FALSE])
Settles(entry, date) == entry.kind \in {"print", "official"} /\ DateOf(entry.print.ts) = date
Binding(entry, t) ==
  \/ entry.kind = "official" \/ TickOf(entry.print.ts) >= Close
  \/ TickOf(entry.print.ts) = LastMinutes /\ t >= At(DateOf(entry.print.ts), Waited)
Remembered(entries, t) ==
  LET held(entry) == \E c \in Held(account) : ~Terms[c].am /\ Settles(entry, Terms[c].date)
  IN [i \in DOMAIN entries |->
       [entries[i] EXCEPT !.kept = @ \/ (held(entries[i]) /\ Binding(entries[i], t))]]

AllEvents(t) ==
  {[kind |-> "quotes"]} \union
  (IF Cardinality({i \in DOMAIN log : log[i] # Forgotten}) = MaxEvents THEN {}
   ELSE {[kind |-> "print", print |-> [price |-> p, ts |-> ts]] : p \in Prices, ts \in {t, t - 1} \intersect Nat}
     \union {[kind |-> "official", print |-> [price |-> p, ts |-> At(DateOf(t), Close)]] : p \in Prices}
     \union {[kind |-> "quotation", print |-> [price |-> p, ts |-> At(DateOf(t), Open)]] : p \in Prices})
Events(t) == {event \in AllEvents(t) : event.kind \in market.kinds}

Batch ==
  \E t \in {now, now + 1, At(DateOf(now) + 1, Open)}, marked \in BOOLEAN, assigned \in SUBSET market.listed :
    \E event \in Events(t) :
      /\ DateOf(t) <= market.last
      /\ event.kind = "official" => TickOf(t) >= Close
      /\ assigned \subseteq Assignable(account, DateOf(t)) /\ (DateOf(t) = account.day => assigned = {})
      /\ now' = t
      /\ desk' = Heard(desk, event)
      /\ account' = Update(account, desk', t, marked, assigned)
      /\ log' = Remembered(Logged(log, event), t)
      /\ UNCHANGED <<market, trades, restarts>>

(* An order that filled. *)
Trade ==
  \E c \in market.listed, position \in {-1, 1} :
    /\ position \in market.sides /\ trades < MaxTrades /\ account.positions[c] = 0
    /\ now < ExpiryTime(c) /\ (Terms[c].am => DateOf(now) < Terms[c].date)
    /\ account' = [account EXCEPT !.positions[c] = position, !.time = now]
    /\ trades' = trades + 1
    /\ UNCHANGED <<market, now, desk, log, restarts>>

(* An import by hand: PM positions only while no close is recorded. *)
Import ==
  \E c \in market.listed, price \in Prices :
    /\ c \in Held(account) /\ now >= ExpiryTime(c)
    /\ ~Terms[c].am => ~Known(account.prints[Terms[c].date])
    /\ account' = Settle([account EXCEPT !.time = now], [one \in {c} |-> price], "hand")
    /\ UNCHANGED <<market, now, desk, log, trades, restarts>>

(* The desk forgets; the journals keep the accounts. *)
Restart ==
  /\ restarts < MaxRestarts
  /\ restarts' = restarts + 1 /\ desk' = EmptyDesk
  /\ log' = [i \in DOMAIN log |-> IF log[i].kept THEN log[i] ELSE Forgotten]
  /\ UNCHANGED <<market, now, account, trades>>

Next == Batch \/ Trade \/ Import \/ Restart
Spec == Init /\ [][Next]_vars

-----------------------------------------------------------------------------
(* The entries of a kind that fall in some ticks of a date, the first and the last print of some. *)
Of(entries, kind, date, from, to) ==
  {i \in DOMAIN entries : /\ entries[i].kind = kind /\ DateOf(entries[i].print.ts) = date
                          /\ TickOf(entries[i].print.ts) \in from..to}
FirstOf(entries, found) == IF found = {} THEN Nothing ELSE entries[Min(found)].print
LastOf(entries, found) == IF found = {} THEN Nothing ELSE entries[Max(found)].print

(* What a position should settle on, from everything heard since the start and
   everything an account held on to before it. *)
Promised(entries, c, t) ==
  LET date == Terms[c].date
      officials == Of(entries, "official", date, Close, DayTicks)
      after == Of(entries, "print", date, Close, DayTicks)
      before == Of(entries, "print", date, LastMinutes, LastMinutes)
      openings == Of(entries, "print", date, Open, Open)
      quotations == Of(entries, "quotation", date, Open, Open)
  IN IF Terms[c].am THEN IF market.feed = "soq" THEN LastOf(entries, quotations)
                         ELSE IF market.feed = "demo" THEN FirstOf(entries, openings) ELSE Nothing
     ELSE IF officials # {} THEN LastOf(entries, officials)
     ELSE IF after # {} THEN FirstOf(entries, after)
     ELSE IF t >= At(date, Waited) THEN LastOf(entries, before) ELSE Nothing

(* A position settles on the close the documents name and as soon as it can: the
   latest official close, or the first print after the close, or after half an hour
   the last print before it; what an account held on to counts after a restart. *)
SettlesAsPromised == [][\A c \in Contracts :
  LET promised == Promised(log', c, account'.time)
  IN /\ account'.settled[c] # account.settled[c] /\ account'.settled[c].source = "print" =>
          account'.settled[c].price = promised.price
     /\ c \in Held(account') /\ account'.time >= ExpiryTime(c) => ~Known(promised)]_vars

\* A PM position settles in its expiry's day or earlier.
SettledInTime == \A c \in Contracts : ~Terms[c].am => account.settled[c].day <= Terms[c].date

(* The shares held into the day that paid for an ex-date, the first begun on it or after. *)
HeldInto(a, e) ==
  LET paidBy == Min({day \in a.rolls : day >= e})
  IN SharesOf({one \in a.deliveries : one.into <= paidBy \/ one.day < paidBy})

(* A day ends settled: its PM positions settle in time, and an ex-date pays once,
   also when the server was down for it, on the shares held into the day that pays
   it, those delivered by the day before included. *)
DaysEndSettled ==
  /\ SettledInTime
  /\ \A e \in ExDates : e <= account.day =>
       account.dividends[e] = IF HeldInto(account, e) = 0 THEN <<>> ELSE <<HeldInto(account, e)>>
=============================================================================
