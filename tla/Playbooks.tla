------------------------------ MODULE Playbooks ------------------------------
(***************************************************************************)
(* Playbooks on a live account (src/server/playbooks.cpp with              *)
(* desk_playbooks.cpp): a saved catalogue of one playbook's versions, its  *)
(* mode and the forward-test windows opened while its mode is auto; and    *)
(* what each evaluation does with it: cancel, close, stage or enter.       *)
(*                                                                         *)
(* The engine thread runs a handler to its end, but may stop between its   *)
(* steps: todo holds those left.  The catalogue is saved before it is used *)
(* and the orders are journaled, so both outlive the process; stages,      *)
(* refusals and the market's data do not.  The playbook trades one symbol, *)
(* and whether its conditions hold, what a structure costs and what the    *)
(* session answers are left open.                                          *)
(***************************************************************************)
EXTENDS Integers, FiniteSets, Sequences

CONSTANTS
  MaxPerDay, Cooldown,     \* guardrails: max_entries_per_day, cooldown_minutes in ticks
  DayTicks,                \* ticks of a trading day; the last one is past close_by
  Modes,                   \* the modes the trader selects: off, stage and auto, or fewer
  Outcomes,                \* whether a trade ends at a loss: TRUE, FALSE or either
  Strikes,                 \* contracts an entry may select: one held or working is not taken again
  MaxTime, MaxOrders, MaxVersions, MaxWindows, MaxResets \* bounds

VARIABLES
  catalogue,   \* [version, deleted, mode, windows]; version 0: not created yet
  orders,      \* the account's orders tagged with the playbook, and the closes of their trades
  attempts,    \* the first order of each attempt
  suppressed,  \* suppressed_: the day no entry is made on, or 0
  staged,      \* staged_: at most one stage, [version, time]
  market,      \* market_time_
  feed,        \* the last time the feed brought, before or after a restart
  priced,      \* the feed has brought metrics since the start
  todo,        \* the steps left of the handler
  wanted       \* the stages a trader is sending: at most one [version, day]

playbookVars == <<catalogue, orders, attempts, suppressed, staged, market, feed, priced, todo, wanted>>

Day(t) == (t + DayTicks - 1) \div DayTicks
Deadline(t) == DayTicks * Day(t) \* playbook_deadline: close_by on the day, for every version
Latest(S) == CHOOSE x \in S : \A y \in S : y <= x
NextOrder == Len(orders) + 1
IsEntry(i) == orders[i].kind = "entry"
Held(i) == IsEntry(i) /\ orders[i].opened > 0 /\ orders[i].closed = 0
Live(i) == Held(i) \/ (IsEntry(i) /\ orders[i].status = "working")
(* evaluate_playbooks: an account with every mode off is not evaluated. *)
Evaluation(c) == IF c.mode = "off" THEN <<>> ELSE <<"cancels", "closes", "entries">>
Idle == todo = <<>>
Room == Len(orders) < MaxOrders

-----------------------------------------------------------------------------
(* Forward-test windows: every saved change closes those that no longer run and
   opens one for the version that does. *)

\* Mutation: a new version leaves the window of the old one running.
RunsOnUpdates(c, w) == ~c.deleted /\ c.mode = "auto"

StillRuns(c, w) == ~c.deleted /\ c.mode = "auto" /\ c.version = w.version
Ended(w) == [w EXCEPT !.ended = Latest({market, w.started}), !.end = NextOrder]
Opened(c) == [version |-> c.version, started |-> market, ended |-> 0, first |-> NextOrder, end |-> 0]
WithWindows(c) ==
  LET closed == [k \in DOMAIN c.windows |->
                   IF c.windows[k].ended = 0 /\ ~StillRuns(c, c.windows[k]) THEN Ended(c.windows[k]) ELSE c.windows[k]]
      running == \E k \in DOMAIN closed : closed[k].ended = 0
  IN [c EXCEPT !.windows = IF c.mode = "auto" /\ ~c.deleted /\ ~running /\ market > 0
                             THEN Append(closed, Opened(c)) ELSE <<>> \o closed]

(* Playbooks::change saves the next catalogue or, when that fails, changes nothing. *)
Change(c) ==
  /\ Len(WithWindows(c).windows) <= MaxWindows
  /\ catalogue' = WithWindows(c) /\ staged' = {} /\ todo' = Evaluation(c)
  /\ UNCHANGED <<orders, attempts, suppressed, market, feed, priced, wanted>>
Create == catalogue.version = 0 /\ Change([catalogue EXCEPT !.version = 1])
Update == catalogue.version \in 1..(MaxVersions - 1) /\ ~catalogue.deleted
          /\ Change([catalogue EXCEPT !.version = @ + 1])
Delete == catalogue.version > 0 /\ ~catalogue.deleted
          /\ Change([catalogue EXCEPT !.deleted = TRUE, !.mode = "off"])
SetMode == \E mode \in Modes :
  /\ catalogue.version > 0 /\ (catalogue.deleted => mode = "off") /\ (mode = "auto" => market > 0)
  /\ Change([catalogue EXCEPT !.mode = mode])
Dismiss == \E stage \in staged :
  /\ suppressed' = Day(stage.time) /\ staged' = {} /\ todo' = Evaluation(catalogue)
  /\ UNCHANGED <<catalogue, orders, attempts, market, feed, priced, wanted>>
Signal ==
  /\ catalogue.version > 0 /\ ~catalogue.deleted /\ catalogue.mode # "off" /\ todo' = Evaluation(catalogue)
  /\ UNCHANGED <<catalogue, orders, attempts, suppressed, staged, market, feed, priced, wanted>>
(* A trader sends a stage: evaluated afresh, it must still be there. *)
Send == \E stage \in staged :
  /\ wanted' = {[version |-> stage.version, day |-> Day(stage.time)]}
  /\ todo' = Evaluation(catalogue) \o <<"submit">> \o Evaluation(catalogue)
  /\ UNCHANGED <<catalogue, orders, attempts, suppressed, staged, market, feed, priced>>
Command == Idle /\ (Create \/ Update \/ Delete \/ SetMode \/ Dismiss \/ Signal \/ Send)

-----------------------------------------------------------------------------
(* Guardrails, for the live check (before = 0) or as the report scores an entry. *)

FirstOrder(before) ==
  LET current == attempts[Len(attempts)] IN
  IF before = 0 \/ before >= current THEN current
  ELSE Latest({attempts[k] : k \in {j \in DOMAIN attempts : attempts[j] <= before}})
Considered(before) == {i \in DOMAIN orders : IsEntry(i) /\ i >= FirstOrder(before) /\ (before = 0 \/ i < before)}
EntriesOf(day, before) == {i \in Considered(before) : orders[i].status \notin {"rejected", "cancelled"} /\ Day(orders[i].time) = day}
ClosedFirst(i, time, before) ==
  orders[i].closed > 0 /\ (orders[i].closed < time \/ (orders[i].closed = time /\ (before = 0 \/ orders[i].closedBy < before)))
Losses(time, before) == {i \in Considered(before) : orders[i].lost /\ ClosedFirst(i, time, before) /\ time < orders[i].closed + Cooldown}
GuardrailsAllow(time, before) == Cardinality(EntriesOf(Day(time), before)) < MaxPerDay /\ Losses(time, before) = {}

Automatic(i) == IsEntry(i) /\ orders[i].actor = "system" /\ orders[i].automatic
RefusedToday == \E i \in DOMAIN orders : Automatic(i) /\ orders[i].status = "rejected" /\ Day(orders[i].time) = Day(market)

-----------------------------------------------------------------------------
(* One evaluation *)

Entry(actor, status) ==
  [kind |-> "entry", version |-> catalogue.version, actor |-> actor, automatic |-> catalogue.mode = "auto", status |-> status,
   time |-> market, opened |-> IF status = "filled" THEN market ELSE 0, closed |-> 0, closedBy |-> 0, lost |-> FALSE]
CloseOf(i) == [kind |-> "close", of |-> i, time |-> market]
Closed(i, by, lost) == [orders EXCEPT ![i].closed = market, ![i].closedBy = by, ![i].lost = lost]
Cancelled == [i \in DOMAIN orders |->
  IF IsEntry(i) /\ orders[i].status = "working" /\ market >= Deadline(orders[i].time)
    THEN [orders[i] EXCEPT !.status = "cancelled"] ELSE orders[i]]
Done == todo' = Tail(todo) /\ UNCHANGED wanted
Kept == UNCHANGED <<catalogue, attempts, market, feed, priced>>

(* An evaluation starts its stages anew and cancels entries working past their deadline. *)
Cancels ==
  /\ ~Idle /\ todo[1] = "cancels" /\ Done /\ Kept /\ staged' = {} /\ UNCHANGED suppressed
  /\ orders' = IF catalogue.mode = "auto" THEN <<>> \o Cancelled ELSE orders

(* Trades held past their deadline: a close the market cannot take records nothing; one
   sent is IOC and may not fill, and its client ID names it once for each time. *)
MustClose(i) ==
  /\ catalogue.mode = "auto" /\ Held(i) /\ market >= Deadline(orders[i].opened) /\ priced /\ Room
  /\ \A k \in DOMAIN orders : orders[k].kind = "close" => ~(orders[k].of = i /\ orders[k].time = market)
CloseOne == \E i \in DOMAIN orders :
  /\ ~Idle /\ todo[1] = "closes" /\ MustClose(i)
  /\ \E lost \in Outcomes :
       orders' \in {Append(orders, CloseOf(i)), Append(Closed(i, NextOrder, lost), CloseOf(i))}
  /\ Kept /\ UNCHANGED <<suppressed, staged, todo, wanted>>
Closes == ~Idle /\ todo[1] = "closes" /\ Done /\ Kept /\ UNCHANGED <<orders, suppressed, staged>>

(* An entry the guards allow and the market offers is staged, or sent: accepted, rejected
   by the session on the record, or refused before it; each refusal lasts the day. *)
MayEnter ==
  /\ ~catalogue.deleted /\ catalogue.mode # "off" /\ market > 0 /\ market < Deadline(market)
  /\ suppressed # Day(market) /\ (catalogue.mode = "auto" => ~RefusedToday)
  /\ GuardrailsAllow(market, 0) /\ priced
  /\ Cardinality({i \in DOMAIN orders : Live(i)}) < Strikes
Stage == catalogue.mode = "stage" /\ staged' = {[version |-> catalogue.version, time |-> market]}
         /\ UNCHANGED <<orders, suppressed>>
Accepted(actor) == \E status \in {"working", "filled"} : orders' = Append(orders, Entry(actor, status))
Rejected(actor) == orders' = Append(orders, Entry(actor, "rejected"))
Refused == UNCHANGED orders
Enter ==
  /\ catalogue.mode = "auto" /\ Room /\ UNCHANGED staged
  /\ \/ Accepted("system") /\ UNCHANGED suppressed
     \/ (Rejected("system") \/ Refused) /\ suppressed' = Day(market)
Entries ==
  /\ ~Idle /\ todo[1] = "entries" /\ Done /\ Kept
  /\ \/ MayEnter /\ (Stage \/ Enter)
     \/ UNCHANGED <<orders, suppressed, staged>> \* a guard, a condition or the market says no
(* The stage sent: taken, then submitted for the trader. *)
Submit ==
  /\ ~Idle /\ todo[1] = "submit" /\ Kept /\ UNCHANGED suppressed
  /\ wanted' = {}
  /\ IF Room /\ \E stage \in staged : [version |-> stage.version, day |-> Day(stage.time)] \in wanted
       THEN /\ staged' = {}
            /\ \/ Accepted("trader") /\ todo' = Tail(todo)
               \/ (Rejected("trader") \/ Refused) /\ todo' = <<>>
       ELSE todo' = <<>> /\ UNCHANGED <<orders, staged>>

-----------------------------------------------------------------------------
(* What happens between handlers: the feed, fills and closes, resets, restarts *)

(* A batch moves the market on; the analytics may have changed, or not yet. *)
Batch == \E t \in (IF feed = 0 THEN 1 ELSE feed)..MaxTime :
  /\ Idle /\ market' = Latest({t, market}) /\ feed' = t /\ priced' = TRUE
  /\ todo' \in {<<>>, Evaluation(catalogue)}
  /\ UNCHANGED <<catalogue, orders, attempts, suppressed, staged, wanted>>
Market == Idle /\ priced /\ UNCHANGED <<catalogue, suppressed, staged, market, feed, priced, todo, wanted>>
Fill == \E i \in DOMAIN orders :
  /\ Market /\ IsEntry(i) /\ orders[i].status = "working"
  /\ orders' = [orders EXCEPT ![i].status = "filled", ![i].opened = market] /\ UNCHANGED attempts
(* A trade ends by a settlement (0), by an exit its entry created (its number), or by
   the trader's own order. *)
Close == \E i \in DOMAIN orders, lost \in Outcomes :
  /\ Market /\ Held(i) /\ UNCHANGED attempts
  /\ \/ \E by \in {0, i} : orders' = Closed(i, by, lost)
     \/ Room /\ orders' = Append(Closed(i, NextOrder, lost), CloseOf(i))
Reset ==
  /\ Market /\ Len(attempts) <= MaxResets /\ attempts' = Append(attempts, NextOrder)
  /\ \E lost \in Outcomes : orders' = <<>> \o [i \in DOMAIN orders |->
       IF Held(i) THEN [orders[i] EXCEPT !.closed = market, !.lost = lost]
       ELSE IF Live(i) THEN [orders[i] EXCEPT !.status = "cancelled"] ELSE orders[i]]
(* The market's time is again that of the account's last record: the first batch is on
   it, as the start of a day, and so are its orders, fills and closes. *)
Recorded == {1} \cup UNION {IF IsEntry(i) THEN {orders[i].time, orders[i].opened, orders[i].closed} ELSE {orders[i].time} : i \in DOMAIN orders}
Restart ==
  /\ market' \in (IF market = 0 THEN {0} ELSE Latest(Recorded)..market)
  /\ suppressed' = 0 /\ staged' = {} /\ priced' = FALSE /\ todo' = <<>> /\ wanted' = {}
  /\ UNCHANGED <<catalogue, orders, attempts, feed>>

Init ==
  /\ catalogue = [version |-> 0, deleted |-> FALSE, mode |-> "off", windows |-> <<>>]
  /\ orders = <<>> /\ attempts = <<1>> /\ suppressed = 0 /\ staged = {} /\ market = 0 /\ feed = 0
  /\ priced = FALSE /\ todo = <<>> /\ wanted = {}
Next == \/ Command \/ Cancels \/ CloseOne \/ Closes \/ Entries \/ Submit
        \/ Batch \/ Fill \/ Close \/ Reset \/ Restart

-----------------------------------------------------------------------------
(* playbook_forward_report: an automatic order belongs to a window of its version. *)
Covers(w, i) ==
  /\ w.version = orders[i].version /\ i >= w.first /\ (w.ended = 0 \/ i < w.end)
  /\ orders[i].time >= w.started /\ (w.ended = 0 \/ orders[i].time <= w.ended)
CountedOnce(i) == Cardinality({k \in DOMAIN catalogue.windows : Covers(catalogue.windows[k], i)}) = 1
NotAfterRefusal(i) == \A j \in 1..(i - 1) :
  ~(Automatic(j) /\ orders[j].status = "rejected" /\ Day(orders[j].time) = Day(orders[i].time))
(* The report knows a close in the entry's own second only by the number of its order,
   which a settlement lacks and an exit made with its entry has from then. *)
Undecided(i) == \E j \in 1..(i - 1) : IsEntry(j) /\ orders[j].closed = orders[i].time /\ orders[j].closedBy <= j
ScoredAsChecked(i) == orders[i].status = "rejected" \/ GuardrailsAllow(orders[i].time, i) \/ Undecided(i)

(* Whatever was edited, switched, staged, closed, reset or restarted in between: every
   automatic entry on the record is counted by exactly one forward test, of the version that
   made it; none follows an automatic entry the session rejected that day; and the adherence
   report finds it within the guardrails, as the live check did. *)
EntriesAccountedFor == \A i \in DOMAIN orders : Automatic(i) => CountedOnce(i) /\ NotAfterRefusal(i) /\ ScoredAsChecked(i)

-----------------------------------------------------------------------------
(* Strengthenings of EntriesAccountedFor, for the proof. *)

EntryOrders == [kind : {"entry"}, version : Nat, actor : {"system", "trader"}, automatic : BOOLEAN,
                status : {"working", "filled", "rejected", "cancelled"}, time : Nat,
                opened : Nat, closed : Nat, closedBy : Nat, lost : BOOLEAN]
CloseOrders == [kind : {"close"}, of : Nat, time : Nat]
Windows == [version : Nat, started : Nat, ended : Nat, first : Nat, end : Nat]

(* Every variable the report depends on keeps its type. *)
PlaybooksTypeOK ==
  /\ catalogue \in [version : Nat, deleted : BOOLEAN, mode : {"off", "stage", "auto"}, windows : Seq(Windows)]
  /\ orders \in Seq(EntryOrders \cup CloseOrders)
  /\ attempts \in Seq(Nat)
  /\ market \in Nat /\ feed \in Nat /\ priced \in BOOLEAN

(* Nothing on the record is of a later time than the market's, which the feed has reached
   before any price is used. *)
TimesPassed ==
  /\ \A i \in DOMAIN orders : orders[i].time <= market
  /\ \A i \in DOMAIN orders : IsEntry(i) =>
       /\ orders[i].opened <= market /\ orders[i].closed <= market
       /\ orders[i].closed = 0 => orders[i].closedBy = 0
       /\ Automatic(i) => orders[i].time > 0
  /\ market <= feed /\ (priced => market = feed /\ market > 0)

(* An attempt begins at the next order to be recorded. *)
AttemptsInOrder ==
  /\ Len(attempts) >= 1 /\ attempts[1] = 1
  /\ \A k \in DOMAIN attempts : attempts[k] <= NextOrder
  /\ \A j, k \in DOMAIN attempts : j <= k => attempts[j] <= attempts[k]

(* Windows follow one another; the last one runs exactly while the playbook is automatic. *)
WellFormed(w) ==
  /\ 0 < w.started /\ w.started <= feed /\ w.first <= NextOrder
  /\ w.ended = 0 => StillRuns(catalogue, w)
  /\ w.ended > 0 => w.started <= w.ended /\ w.first <= w.end /\ w.end <= NextOrder
WindowsInOrder ==
  /\ \A k \in DOMAIN catalogue.windows : WellFormed(catalogue.windows[k])
  /\ \A k, l \in DOMAIN catalogue.windows : k < l =>
       catalogue.windows[k].ended > 0 /\ catalogue.windows[k].end <= catalogue.windows[l].first
  /\ (catalogue.mode = "auto" /\ ~catalogue.deleted) =>
       market > 0 /\ \E k \in DOMAIN catalogue.windows : catalogue.windows[k].ended = 0

Consistent == PlaybooksTypeOK /\ TimesPassed /\ AttemptsInOrder /\ WindowsInOrder /\ EntriesAccountedFor

=============================================================================
