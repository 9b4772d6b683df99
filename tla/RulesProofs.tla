------------------------------ MODULE RulesProofs ------------------------------
(***************************************************************************)
(* The rules an account trades under: its guardrails, the plan that        *)
(* evaluates it, and what ends its days.                                   *)
(*                                                                         *)
(* Guardrails.  Three results, for any traders, settings, markets and      *)
(* number of orders: the kill latch agrees with the guardrails after every *)
(* transaction; no opening order works under it but the one that reached   *)
(* the trade limit; and a day's discipline is never given back.            *)
(*                                                                         *)
(* A transaction is a composition of operators on the state, so the proof  *)
(* is one lemma per operator.  Most leave the latch alone (Keeps); those   *)
(* that change what GuardrailReason reads end with a Trip or a             *)
(* RefreshLatch, and the lemmas say what each of the two restores: a trip  *)
(* for the guardrail first in force needs only a well-formed state, and a  *)
(* refresh only a latch that is set while a guardrail owns it (Owned).     *)
(*                                                                         *)
(* The orders follow the same way: an operator either sweeps them (Tight)  *)
(* or leaves latch and orders as they were (Stays).  The discipline needs  *)
(* no more than that every operator but rollover's and a new attempt's     *)
(* only adds to what latched, opened or cools down (Grows).                *)
(*                                                                         *)
(* The plan.  A transaction is a composition of operators on the           *)
(* evaluation, ended by Settle.  The proof has one lemma per operator,     *)
(* which says what of the evaluation it leaves alone (Same, Beside) and    *)
(* whether it lifts the floor (Raised); then one lemma per action, and a   *)
(* theorem for each promise.  The floor needs more than the promise: under *)
(* a plan without account size reviews it is always the floor of the peak  *)
(* (Follows), and an active attempt never stands above its peak            *)
(* (PeakCovers).                                                           *)
(*                                                                         *)
(* The days.  What is held on a day has not expired before it (InTime),    *)
(* because a day begins only once what expired is settled.  So what a      *)
(* settlement delivers is held into a later day than the account's, and    *)
(* what was held into a day that began stays what it was (HeldStays); the  *)
(* shares of an account are those of its deliveries, a sum over a finite   *)
(* set, of which the lemmas on SharesOf come first.                        *)
(*                                                                         *)
(* What a position settles on is a first or a last of what was heard.  The *)
(* desk keeps those of what it heard since it started (HeardOn); the log   *)
(* marks what an account holds on to beyond that, and what the account     *)
(* recorded is what the marked entries promise (RecordedOn), both before   *)
(* and after a restart leaves only those.  A position that is held past    *)
(* its expiry is one nothing promises a close for (Unpromised).            *)
(***************************************************************************)
EXTENDS Guardrails, Rules, SequenceTheorems, FiniteSetTheorems, TLAPS, WellFoundedInduction

Fields == {"time", "day", "attempt", "guards", "pending", "latched", "cooldown", "openings",
           "losing", "finishing", "kill", "owns", "kept", "working", "counted",
           "held", "marks", "equity", "start"}

\* A state has its fields, only guardrails are latched, and times add up.
Shape(s) ==
  /\ DOMAIN s = Fields
  /\ s.latched \in Seq(Personal)
  /\ s.time \in Int /\ s.cooldown \in Int /\ s.guards.minutes \in Nat
  /\ s.pending # <<>> => s.pending[1].minutes \in Nat
Owned(s) == Shape(s) /\ (s.owns => s.kill # "NONE")
Agrees(s) ==
  /\ Shape(s)
  /\ GuardrailReason(s) # "NONE" => s.kill # "NONE"
  /\ s.owns => s.kill = GuardrailReason(s) /\ s.kill \in Personal
Keeps(s, t) ==
  /\ DOMAIN t = Fields
  /\ t.latched = s.latched /\ t.cooldown = s.cooldown /\ t.time = s.time
  /\ t.kill = s.kill /\ t.owns = s.owns
  /\ t.guards = s.guards /\ t.pending = s.pending

-----------------------------------------------------------------------------
(* Operators that leave the latch alone *)

LEMMA KeepsAgrees ==
  ASSUME NEW s, NEW t, Keeps(s, t), Agrees(s)
  PROVE  Agrees(t)
  BY DEF Keeps, Agrees, Shape, GuardrailReason

LEMMA KeepsOwned ==
  ASSUME NEW s, NEW t, Keeps(s, t), Owned(s)
  PROVE  Owned(t)
  BY DEF Keeps, Owned, Shape

LEMMA KeepsShape ==
  ASSUME NEW s, NEW t, Keeps(s, t), Shape(s)
  PROVE  Shape(t)
  BY DEF Keeps, Shape

LEMMA AgreesOwned ==
  ASSUME NEW s, Agrees(s)
  PROVE  Owned(s) /\ Shape(s)
  BY DEF Agrees, Owned, Personal, Daily

LEMMA ReasonIsPersonal ==
  ASSUME NEW s, Shape(s), GuardrailReason(s) # "NONE"
  PROVE  GuardrailReason(s) \in Personal
<1>1. CASE s.latched # <<>>
  BY <1>1, HeadTailProperties DEF Shape, GuardrailReason
<1>2. CASE s.latched = <<>>
  BY <1>2 DEF GuardrailReason, Personal
<1> QED BY <1>1, <1>2

LEMMA RecordKeeps ==
  ASSUME NEW s, Shape(s), NEW action, NEW reason, NEW previous
  PROVE  Keeps(s, RecordKill(s, action, reason, previous))
  BY DEF Keeps, Shape, Fields, RecordKill

LEMMA CancelOpeningsKeeps ==
  ASSUME NEW s, Shape(s)
  PROVE  Keeps(s, CancelOpenings(s))
  BY DEF Keeps, Shape, Fields, CancelOpenings

-----------------------------------------------------------------------------
(* The latch *)

\* A trip leaves the latch set; under a guardrail's own reason, or under one that
\* is not a guardrail's, it leaves the latch in agreement.
LEMMA TripAgrees ==
  ASSUME NEW s, Shape(s), NEW why, why # "NONE",
         \/ why = GuardrailReason(s)
         \/ Agrees(s) /\ why \notin Personal
  PROVE  Agrees(Trip(s, why)) /\ Trip(s, why).kill # "NONE"
<1> DEFINE set == [s EXCEPT !.kill = why, !.owns = why \in Personal]
           told == RecordKill(set, "trip", why, s.kill)
<1>1. CASE s.kill = "NONE" \/ (s.owns /\ s.kill # why)
  <2>1. /\ DOMAIN set = Fields /\ set.kill = why /\ set.latched = s.latched
        /\ set.time = s.time /\ set.cooldown = s.cooldown
        /\ set.guards = s.guards /\ set.pending = s.pending
    BY DEF Shape, Fields
  <2>2. set.owns <=> why \in Personal
    BY Zenon DEF Shape, Fields
  <2>3. Agrees(set)
    <3>1. GuardrailReason(set) = GuardrailReason(s)
      BY <2>1 DEF GuardrailReason
    <3>2. Shape(set)
      BY <2>1 DEF Shape
    <3> QED BY <2>1, <2>2, <3>1, <3>2 DEF Agrees
  <2>4. Keeps(set, told)
    BY <2>3, RecordKeeps DEF Agrees
  <2>5. Agrees(told)
    BY <2>3, <2>4, KeepsAgrees
  <2>6. Keeps(told, CancelOpenings(told))
    BY <2>5, CancelOpeningsKeeps DEF Agrees
  <2>7. Trip(s, why) = CancelOpenings(told)
    BY <1>1 DEF Trip
  <2>8. Agrees(CancelOpenings(told))
    BY <2>5, <2>6, KeepsAgrees
  <2>9. CancelOpenings(told).kill = why
    BY <2>1, <2>4, <2>6 DEF Keeps
  <2> QED BY <2>7, <2>8, <2>9
<1>2. CASE ~(s.kill = "NONE" \/ (s.owns /\ s.kill # why))
  <2>1. Agrees(s)
    BY <1>2, ReasonIsPersonal DEF Agrees
  <2>2. Keeps(s, CancelOpenings(s))
    BY CancelOpeningsKeeps
  <2>3. Trip(s, why) = CancelOpenings(s)
    BY <1>2 DEF Trip
  <2> QED BY <1>2, <2>1, <2>2, <2>3, KeepsAgrees DEF Keeps
<1> QED BY <1>1, <1>2

LEMMA MonitorLossAgrees ==
  ASSUME NEW s, Agrees(s)
  PROVE  Agrees(MonitorLoss(s))
  BY TripAgrees DEF MonitorLoss, Agrees, Personal, Daily

\* A refresh needs only that a latch a guardrail owns is set.
LEMMA RefreshAgrees ==
  ASSUME NEW s, Owned(s)
  PROVE  Agrees(RefreshLatch(s))
<1>1. CASE GuardrailReason(s) # "NONE"
  BY <1>1, TripAgrees DEF RefreshLatch, TripReason, Owned
<1>2. CASE GuardrailReason(s) = "NONE" /\ ~(s.kill # "NONE" /\ s.owns)
  BY <1>2 DEF RefreshLatch, Owned, Agrees
<1>3. CASE GuardrailReason(s) = "NONE" /\ s.kill # "NONE" /\ s.owns
  <2> DEFINE clear == [s EXCEPT !.kill = "NONE", !.owns = FALSE]
  <2>1. /\ DOMAIN clear = Fields /\ clear.kill = "NONE" /\ clear.latched = s.latched
        /\ clear.time = s.time /\ clear.cooldown = s.cooldown /\ ~clear.owns
        /\ clear.guards = s.guards /\ clear.pending = s.pending
    BY DEF Owned, Shape, Fields
  <2>2. Agrees(clear)
    BY <1>3, <2>1 DEF Agrees, Owned, Shape, GuardrailReason
  <2>3. RefreshLatch(s) = RecordKill(clear, "release", "NONE", s.kill)
    BY <1>3 DEF RefreshLatch, Release
  <2>4. Keeps(clear, RecordKill(clear, "release", "NONE", s.kill))
    BY <2>2, RecordKeeps DEF Agrees
  <2>5. Agrees(RecordKill(clear, "release", "NONE", s.kill))
    BY <2>2, <2>4, KeepsAgrees
  <2> QED BY <2>3, <2>5
<1> QED BY <1>1, <1>2, <1>3

\* Latching a guardrail needs only a well-formed state: what is in force after it is
\* a guardrail, and the trip names it.
LEMMA LatchAgrees ==
  ASSUME NEW s, Shape(s), NEW why \in Personal,
         why = "COOLDOWN" => GuardrailReason(s) # "NONE"
  PROVE  Agrees(LatchGuardrail(s, why))
<1> DEFINE t == AddLatched(s, why)
<1>1. CASE why = "COOLDOWN" \/ why \in Range(s.latched)
  <2>1. t = s
    BY <1>1 DEF AddLatched
  <2>2. GuardrailReason(s) # "NONE"
    <3>1. CASE why = "COOLDOWN" BY <3>1
    <3>2. CASE why \in Range(s.latched)
      <4>1. s.latched # <<>>
        <5> SUFFICES ASSUME s.latched = <<>> PROVE FALSE
          OBVIOUS
        <5>1. DOMAIN s.latched = {}
          OBVIOUS
        <5> QED BY <3>2, <5>1 DEF Range
      <4> QED BY <4>1, HeadTailProperties DEF GuardrailReason, Shape, Personal, Daily
    <3> QED BY <1>1, <3>1, <3>2
  <2> QED BY <2>1, <2>2, TripAgrees DEF LatchGuardrail, TripReason
<1>2. CASE ~(why = "COOLDOWN" \/ why \in Range(s.latched))
  <2>1. t = [s EXCEPT !.latched = Append(@, why)]
    BY <1>2 DEF AddLatched
  <2>2. /\ DOMAIN t = Fields /\ t.latched = Append(s.latched, why)
        /\ t.time = s.time /\ t.cooldown = s.cooldown
        /\ t.guards = s.guards /\ t.pending = s.pending
    BY <2>1 DEF Shape, Fields
  <2>3. t.latched \in Seq(Personal) /\ t.latched # <<>>
    BY <2>2, AppendProperties DEF Shape
  <2>4. Shape(t)
    BY <2>2, <2>3 DEF Shape
  <2>5. GuardrailReason(t) # "NONE"
    BY <2>3, HeadTailProperties DEF GuardrailReason, Personal, Daily
  <2> QED BY <2>4, <2>5, TripAgrees DEF LatchGuardrail, TripReason
<1> QED BY <1>1, <1>2

-----------------------------------------------------------------------------
(* Fills, and the rules that watch them *)

LEMMA CooldownAgrees ==
  ASSUME NEW s, Agrees(s)
  PROVE  Agrees(BeginCooldown(s))
<1> DEFINE t == [s EXCEPT !.cooldown = Most(@, s.time + s.guards.minutes)]
<1>1. CASE s.guards.minutes = 0
  BY <1>1 DEF BeginCooldown
<1>2. CASE s.guards.minutes # 0
  <2>1. /\ DOMAIN t = Fields /\ t.latched = s.latched /\ t.time = s.time
        /\ t.guards = s.guards /\ t.pending = s.pending
        /\ t.cooldown = Most(s.cooldown, s.time + s.guards.minutes)
    BY DEF Agrees, Shape, Fields
  <2>2. t.cooldown \in Int /\ t.time < t.cooldown
    BY <1>2, <2>1 DEF Agrees, Shape, Most
  <2>3. Shape(t)
    BY <2>1, <2>2 DEF Agrees, Shape
  <2>4. GuardrailReason(t) # "NONE"
    BY <2>2, <2>3, HeadTailProperties DEF GuardrailReason, Shape, Personal, Daily
  <2>5. BeginCooldown(s) = LatchGuardrail(t, "COOLDOWN")
    BY <1>2 DEF BeginCooldown
  <2> QED BY <2>3, <2>4, <2>5, LatchAgrees DEF Personal
<1> QED BY <1>1, <1>2

LEMMA CountCloseAgrees ==
  ASSUME NEW s, Agrees(s), NEW won
  PROVE  Agrees(CountClose(s, won))
<1>1. \A n : Keeps(s, [s EXCEPT !.losing = n])
  BY DEF Agrees, Shape, Fields, Keeps
<1>2. \A n : Agrees([s EXCEPT !.losing = n])
  BY <1>1, KeepsAgrees
<1> QED BY <1>2, CooldownAgrees DEF CountClose

LEMMA LatchLimitAgrees ==
  ASSUME NEW s, Agrees(s)
  PROVE  Agrees(LatchLimit(s))
  BY LatchAgrees DEF LatchLimit, Agrees, Personal, Daily

LEMMA ObserveAgrees ==
  ASSUME NEW s, Agrees(s)
  PROVE  Agrees(ObserveEquity(s))
<1>1. ASSUME NEW t, Agrees(t) PROVE Agrees(LatchFloor(t))
  BY <1>1, LatchAgrees DEF LatchFloor, Agrees, Personal
<1>2. ASSUME NEW t, Agrees(t) PROVE Agrees(LatchProfit(t))
  BY <1>2, LatchAgrees DEF LatchProfit, Agrees, Personal, Daily
<1>3. Agrees(LatchProfit(LatchFloor(s)))
  BY <1>1, <1>2
<1> QED BY <1>3, LatchLimitAgrees DEF ObserveEquity

LEMMA OpeningFillAgrees ==
  ASSUME NEW s, Agrees(s), NEW id, NEW whole
  PROVE  Agrees(OpeningFill(s, id, whole))
<1> DEFINE opened == OpenPosition(s, id, whole)
           counted == CountOpening(opened, id, whole)
           taken == TakeLimit(counted, id, id \notin s.counted, whole)
<1>1. Keeps(s, opened)
  BY DEF Agrees, Shape, Fields, Keeps, OpenPosition
<1>2. Keeps(opened, counted)
  BY <1>1 DEF Agrees, Fields, Keeps, CountOpening
<1>3. Keeps(counted, taken)
  BY <1>2 DEF Agrees, Fields, Keeps, TakeLimit
<1>4. Agrees(taken)
  BY <1>1, <1>2, <1>3, KeepsAgrees
<1> QED BY <1>4, LatchLimitAgrees, ObserveAgrees DEF OpeningFill

LEMMA CloseFillAgrees ==
  ASSUME NEW s, Agrees(s), NEW stopped, NEW won
  PROVE  Agrees(CloseFill(s, stopped, won))
<1> DEFINE flat == [s EXCEPT !.held = FALSE]
           closed == LatchLimit(flat)
           cooled == IF stopped THEN BeginCooldown(closed) ELSE closed
<1>1. Keeps(s, flat)
  BY DEF Agrees, Shape, Fields, Keeps
<1>2. Agrees(closed)
  BY <1>1, KeepsAgrees, LatchLimitAgrees
<1>3. Agrees(cooled)
  BY <1>2, CooldownAgrees
<1> QED BY <1>3, CountCloseAgrees, ObserveAgrees DEF CloseFill

LEMMA MatchAgrees ==
  ASSUME NEW s, Agrees(s), NEW fill
  PROVE  Agrees(Match(s, fill))
<1> DEFINE out == [s EXCEPT !.working = @ \ {fill[1]}]
<1>1. Keeps(s, out)
  BY DEF Agrees, Shape, Fields, Keeps
<1>2. Agrees(out)
  BY <1>1, KeepsAgrees
<1> QED BY <1>2, OpeningFillAgrees DEF Match

LEMMA MonitorRulesAgrees ==
  ASSUME NEW s, Agrees(s), NEW exit
  PROVE  Agrees(MonitorRules(s, exit))
<1>1. ASSUME NEW t, Agrees(t) PROVE Agrees(Liquidate(t, exit))
  BY <1>1, CloseFillAgrees DEF Liquidate
<1> QED BY <1>1, ObserveAgrees DEF MonitorRules

-----------------------------------------------------------------------------
(* The commands *)

LEMMA AdvanceAgrees ==
  ASSUME NEW s, Agrees(s), NEW time \in Int
  PROVE  Agrees(Advance(s, time))
<1> DEFINE t == [s EXCEPT !.time = time, !.kept = <<>>]
<1>1. /\ DOMAIN t = Fields /\ t.latched = s.latched /\ t.time = time /\ t.cooldown = s.cooldown
      /\ t.guards = s.guards /\ t.pending = s.pending /\ t.kill = s.kill /\ t.owns = s.owns
  BY DEF Agrees, Shape, Fields
<1>2. Owned(t)
  BY <1>1, AgreesOwned DEF Owned, Shape
<1> QED BY <1>2, RefreshAgrees DEF Advance

LEMMA SubmitAgrees ==
  ASSUME NEW s, Agrees(s), NEW id, NEW fill
  PROVE  Agrees(Submit(s, id, fill))
<1> DEFINE checked == MonitorLoss(s)
           entered == [checked EXCEPT !.working = @ \cup {id}]
<1>1. Agrees(checked)
  BY MonitorLossAgrees
<1>2. Keeps(checked, entered)
  BY <1>1 DEF Agrees, Shape, Fields, Keeps
<1>3. Agrees(entered)
  BY <1>1, <1>2, KeepsAgrees
<1> QED BY <1>1, <1>3, MatchAgrees DEF Submit

LEMMA CloseAgrees ==
  ASSUME NEW s, Agrees(s), NEW won
  PROVE  Agrees(Close(s, won))
  BY CloseFillAgrees DEF Close

LEMMA CancelAgrees ==
  ASSUME NEW s, Agrees(s), NEW id
  PROVE  Agrees(CancelOrder(s, id))
<1>1. Keeps(s, CancelOrder(s, id))
  BY DEF Agrees, Shape, Fields, Keeps, CancelOrder
<1> QED BY <1>1, KeepsAgrees

\* A longer cooldown extends one in progress, which was in force already.
LEMMA SetGuardrailsAgrees ==
  ASSUME NEW s, Agrees(s), NEW asked, asked.minutes \in Nat
  PROVE  Agrees(SetGuardrails(s, asked))
<1> DEFINE t == SetGuardrails(s, asked)
           next == Tightened(s.guards, asked)
           longer == next.minutes - s.guards.minutes
<1>1. next.minutes = Most(s.guards.minutes, asked.minutes)
  BY DEF Tightened
<1>2. next.minutes \in Nat /\ longer \in Int
  BY <1>1 DEF Agrees, Shape, Most
<1>3. /\ DOMAIN t = Fields /\ t.latched = s.latched /\ t.time = s.time
      /\ t.guards = next /\ t.pending = (IF next = asked THEN <<>> ELSE <<asked>>)
      /\ t.cooldown = (IF s.cooldown > s.time /\ longer > 0 THEN s.cooldown + longer ELSE s.cooldown)
      /\ t.kill = s.kill /\ t.owns = s.owns
  BY DEF SetGuardrails, Agrees, Shape, Fields
<1>4. t.cooldown \in Int /\ (t.time < t.cooldown <=> s.time < s.cooldown)
  BY <1>2, <1>3 DEF Agrees, Shape
<1>5. t.pending # <<>> => t.pending[1] = asked
  BY <1>3
<1>6. Shape(t)
  BY <1>2, <1>3, <1>4, <1>5 DEF Agrees, Shape
<1>7. GuardrailReason(t) = GuardrailReason(s)
  BY <1>3, <1>4 DEF GuardrailReason
<1> QED BY <1>3, <1>6, <1>7 DEF Agrees

LEMMA ApplyPendingOwned ==
  ASSUME NEW s, Owned(s)
  PROVE  Owned(ApplyPending(s))
<1> DEFINE t == [s EXCEPT !.guards = s.pending[1], !.pending = <<>>]
<1>1. CASE s.pending = <<>>
  BY <1>1 DEF ApplyPending
<1>2. CASE s.pending # <<>>
  <2>1. /\ DOMAIN t = Fields /\ t.latched = s.latched /\ t.time = s.time /\ t.cooldown = s.cooldown
        /\ t.guards = s.pending[1] /\ t.pending = <<>> /\ t.kill = s.kill /\ t.owns = s.owns
    BY DEF Owned, Shape, Fields
  <2>2. Owned(t)
    BY <1>2, <2>1 DEF Owned, Shape
  <2> QED BY <1>2, <2>2 DEF ApplyPending
<1> QED BY <1>1, <1>2

\* The trader's latch is no guardrail's, under whatever reason.
LEMMA TripKillAgrees ==
  ASSUME NEW s, Agrees(s), NEW why, why # "NONE"
  PROVE  Agrees(TripKill(s, why))
<1> DEFINE tripped == Trip(s, why)
           told == IF s.kill # "NONE" /\ ~s.owns /\ s.kill # why
                   THEN RecordKill(tripped, "trip", why, s.kill) ELSE tripped
           t == [told EXCEPT !.kill = why, !.owns = FALSE]
<1>1. Shape(tripped)
  <2> DEFINE set == [s EXCEPT !.kill = why, !.owns = why \in Personal]
  <2>1. Shape(set)
    BY DEF Agrees, Shape, Fields
  <2>2. Shape(RecordKill(set, "trip", why, s.kill))
    BY <2>1, RecordKeeps, KeepsShape
  <2>3. Shape(s)
    BY DEF Agrees
  <2> QED BY <2>2, <2>3, CancelOpeningsKeeps, KeepsShape DEF Trip
<1>2. Shape(told)
  BY <1>1, RecordKeeps, KeepsShape
<1>3. Shape(t) /\ t.kill = why /\ ~t.owns
  BY <1>2 DEF Shape, Fields
<1>4. TripKill(s, why) = t
  BY DEF TripKill
<1>5. Agrees(t)
  BY <1>3 DEF Agrees
<1> QED BY <1>4, <1>5

\* Clearing the switch keeps whose it was.
LEMMA ClearKillShape ==
  ASSUME NEW s, Shape(s)
  PROVE  /\ Shape(ClearKill(s)) /\ ClearKill(s).kill = "NONE"
         /\ ClearKill(s).owns = s.owns /\ GuardrailReason(ClearKill(s)) = GuardrailReason(s)
<1> DEFINE clear == [s EXCEPT !.kill = "NONE"]
<1>1. CASE s.kill = "NONE"
  BY <1>1 DEF ClearKill
<1>2. CASE s.kill # "NONE"
  <2>1. /\ DOMAIN clear = Fields /\ clear.kill = "NONE" /\ clear.latched = s.latched
        /\ clear.time = s.time /\ clear.cooldown = s.cooldown /\ clear.owns = s.owns
        /\ clear.guards = s.guards /\ clear.pending = s.pending
    BY DEF Shape, Fields
  <2>2. Shape(clear) /\ GuardrailReason(clear) = GuardrailReason(s)
    BY <2>1 DEF Shape, GuardrailReason
  <2>3. ClearKill(s) = RecordKill(clear, "reset", "NONE", s.kill)
    BY <1>2 DEF ClearKill
  <2>4. Keeps(clear, ClearKill(s))
    BY <2>2, <2>3, RecordKeeps
  <2> QED BY <2>1, <2>2, <2>4, KeepsShape DEF Keeps, GuardrailReason
<1> QED BY <1>1, <1>2

LEMMA ResetKillAgrees ==
  ASSUME NEW s, Agrees(s)
  PROVE  Agrees(ResetKill(s))
<1>1. CASE GuardrailReason(s) # "NONE"
  BY <1>1 DEF ResetKill
<1>2. CASE GuardrailReason(s) = "NONE"
  <2>1. ~s.owns
    BY <1>2 DEF Agrees, Personal, Daily
  <2>2. Agrees(ClearKill(s))
    BY <1>2, <2>1, ClearKillShape DEF Agrees
  <2> QED BY <1>2, <2>2, MonitorLossAgrees DEF ResetKill
<1> QED BY <1>1, <1>2

LEMMA RollDayAgrees ==
  ASSUME NEW s, Agrees(s), NEW closed
  PROVE  Agrees(RollDay(s, closed))
<1> DEFINE monitored == MonitorLoss(s)
           applied == ApplyPending(monitored)
           fresh == NewDay(applied)
           rolled == RefreshLatch(fresh)
           dated == [rolled EXCEPT !.start = closed.equity, !.day = Date(s.time)]
<1>1. Agrees(monitored)
  BY MonitorLossAgrees
<1>2. Owned(applied)
  BY <1>1, AgreesOwned, ApplyPendingOwned
<1>3. Owned(fresh)
  <2>1. /\ DOMAIN fresh = Fields /\ fresh.latched = <<>> /\ fresh.time = applied.time
        /\ fresh.cooldown = (IF applied.cooldown > applied.time THEN applied.cooldown ELSE 0)
        /\ fresh.guards = applied.guards /\ fresh.pending = applied.pending
        /\ fresh.kill = applied.kill /\ fresh.owns = applied.owns
    BY <1>2 DEF NewDay, Owned, Shape, Fields
  <2>2. fresh.latched \in Seq(Personal)
    BY <2>1
  <2> QED BY <1>2, <2>1, <2>2 DEF Owned, Shape
<1>4. Agrees(rolled)
  BY <1>3, RefreshAgrees
<1>5. Keeps(rolled, dated)
  BY <1>4 DEF Agrees, Shape, Fields, Keeps
<1>6. Agrees(dated)
  BY <1>4, <1>5, KeepsAgrees
<1> QED BY <1>1, <1>6 DEF RollDay

LEMMA WithoutType ==
  ASSUME NEW S, NEW seq \in Seq(S), NEW why
  PROVE  Without(seq, why) \in Seq(S)
<1> DEFINE i == CHOOSE j \in DOMAIN seq : seq[j] = why
<1>1. CASE why \in Range(seq)
  <2>1. i \in 1..Len(seq)
    BY <1>1 DEF Range
  <2>2. SubSeq(seq, 1, i - 1) \in Seq(S)
    BY <2>1, SubSeqProperties, \A j \in 1..(i - 1) : seq[j] \in S
  <2>3. SubSeq(seq, i + 1, Len(seq)) \in Seq(S)
    BY <2>1, SubSeqProperties, \A j \in (i + 1)..Len(seq) : seq[j] \in S
  <2> QED BY <1>1, <2>2, <2>3, ConcatProperties DEF Without, RemoveAt
<1>2. CASE why \notin Range(seq)
  BY <1>2 DEF Without
<1> QED BY <1>1, <1>2

LEMMA ResetAccountAgrees ==
  ASSUME NEW s, Agrees(s)
  PROVE  Agrees(ResetAccount(s))
<1> DEFINE new == NewAttempt(s)
           free == UnlatchAccount(new)
           applied == ApplyPending(free)
           unowed == [applied EXCEPT !.finishing = NoId]
<1>1. Owned(new)
  <2>1. /\ DOMAIN new = Fields /\ new.latched = Without(s.latched, "SOFT_FLOOR")
        /\ new.time = s.time /\ new.cooldown = s.cooldown
        /\ new.guards = s.guards /\ new.pending = s.pending
        /\ new.kill = s.kill /\ new.owns = s.owns
    BY DEF NewAttempt, Agrees, Shape, Fields
  <2>2. new.latched \in Seq(Personal)
    BY <2>1, WithoutType DEF Agrees, Shape
  <2> QED BY <2>1, <2>2, AgreesOwned DEF Owned, Shape
<1>2. Owned(free)
  <2>1. CASE new.owns /\ GuardrailReason(new) # "NONE"
    BY <1>1, <2>1 DEF UnlatchAccount
  <2>2. CASE ~(new.owns /\ GuardrailReason(new) # "NONE")
    <3>1. Shape(ClearKill(new))
      BY <1>1, ClearKillShape DEF Owned
    <3>2. free = [ClearKill(new) EXCEPT !.owns = FALSE]
      BY <2>2 DEF UnlatchAccount
    <3> QED BY <3>1, <3>2 DEF Owned, Shape, Fields
  <2> QED BY <2>1, <2>2
<1>3. Owned(applied)
  BY <1>2, ApplyPendingOwned
<1>4. Keeps(applied, unowed)
  BY <1>3 DEF Owned, Shape, Fields, Keeps
<1>5. Owned(unowed)
  BY <1>3, <1>4, KeepsOwned
<1> QED BY <1>5, RefreshAgrees DEF ResetAccount

LEMMA OnQuotesAgrees ==
  ASSUME NEW s, Agrees(s), NEW b
  PROVE  Agrees(OnQuotes(s, b))
<1> DEFINE valued == [s EXCEPT !.equity = IF s.held THEN b.equity ELSE @,
                               !.marks = IF s.held THEN b.marks ELSE "fresh"]
           ruled == MonitorRules(MonitorLoss(valued), b.exit)
           matched == Match(Match(ruled, b.fills[1]), b.fills[2])
<1>1. Keeps(s, valued)
  BY DEF Agrees, Shape, Fields, Keeps
<1>2. Agrees(ruled)
  BY <1>1, KeepsAgrees, MonitorLossAgrees, MonitorRulesAgrees
<1>3. Agrees(matched)
  BY <1>2, MatchAgrees
<1> QED BY <1>3, CloseFillAgrees DEF OnQuotes

LEMMA FinishAgrees ==
  ASSUME NEW s, Agrees(s), NEW exit
  PROVE  Agrees(Finish(s, exit))
<1> DEFINE done == MonitorRules(MonitorLoss(s), exit)
<1>1. Agrees(done)
  BY MonitorLossAgrees, MonitorRulesAgrees
<1>2. Keeps(done, [done EXCEPT !.counted = @ \cap done.working])
  BY <1>1 DEF Agrees, Shape, Fields, Keeps
<1> QED BY <1>1, <1>2, KeepsAgrees DEF Finish

-----------------------------------------------------------------------------
(* The specification *)

GInv == trader \in Traders /\ Agrees(state)

LEMMA GuardrailsInit == GuardrailsAssumption => (Init => GInv)
<1> SUFFICES ASSUME GuardrailsAssumption, Init PROVE GInv
  OBVIOUS
<1>1. /\ DOMAIN state = Fields /\ state.latched = <<>> /\ state.time = 0 /\ state.cooldown = 0
      /\ state.pending = <<>> /\ state.kill = "NONE" /\ state.owns = FALSE
      /\ state.guards \in Settings
  BY DEF Init, Fields
<1>2. state.guards.minutes \in Nat
  BY <1>1 DEF GuardrailsAssumption
<1>3. state.latched \in Seq(Personal)
  BY <1>1
<1>4. GuardrailReason(state) = "NONE"
  BY <1>1 DEF GuardrailReason
<1> QED BY <1>1, <1>2, <1>3, <1>4 DEF GInv, Init, Agrees, Shape

\* Whatever a transaction's command does, its end leaves the latch in agreement.
LEMMA TransactAgrees ==
  ASSUME GInv, NEW name, NEW outcomes, \A acted \in outcomes : Agrees(acted),
         Transact(name, outcomes)
  PROVE  GInv'
  BY FinishAgrees DEF Transact, GInv

LEMMA BegunAgrees ==
  ASSUME GInv, GuardrailsAssumption
  PROVE  /\ \A s \in Begun : Agrees(s)
         /\ \A time \in Times : Agrees(Advance(state, time))
<1>1. Times \subseteq Int
  BY DEF Times
<1> QED BY <1>1, AdvanceAgrees DEF Begun, OwnTimes, GInv

LEMMA GuardrailsNext == GuardrailsAssumption => (GInv /\ [Next]_vars => GInv')
<1> SUFFICES ASSUME GuardrailsAssumption, GInv, [Next]_vars PROVE GInv'
  OBVIOUS
<1> USE BegunAgrees
<1>1. CASE SubmitOrder
  BY <1>1, SubmitAgrees, TransactAgrees DEF SubmitOrder
<1>2. CASE ClosePosition
  BY <1>2, CloseAgrees, TransactAgrees DEF ClosePosition
<1>3. CASE Cancel
  BY <1>3, CancelAgrees, TransactAgrees DEF Cancel
<1>4. CASE ChangeGuardrails
  <2>1. \A asked \in Settings : asked.minutes \in Nat
    BY DEF GuardrailsAssumption
  <2> QED BY <1>4, <2>1, SetGuardrailsAgrees, TransactAgrees DEF ChangeGuardrails
<1>5. CASE Kill
  <2>1. \A why \in trader.reasons : why # "NONE"
    BY DEF GuardrailsAssumption, GInv
  <2> QED BY <1>5, <2>1, TripKillAgrees, TransactAgrees DEF Kill
<1>6. CASE Reset
  BY <1>6, ResetKillAgrees, TransactAgrees DEF Reset
<1>7. CASE Roll
  BY <1>7, RollDayAgrees, TransactAgrees DEF Roll
<1>8. CASE NewAccount
  BY <1>8, ResetAccountAgrees, TransactAgrees DEF NewAccount
<1>9. CASE Quotes
  BY <1>9, OnQuotesAgrees, TransactAgrees DEF Quotes
<1>10. CASE UNCHANGED vars
  BY <1>10 DEF vars, GInv, Agrees, Shape, GuardrailReason
<1> QED BY <1>1, <1>2, <1>3, <1>4, <1>5, <1>6, <1>7, <1>8, <1>9, <1>10 DEF Next

\* The kill latch agrees with the guardrails after every transaction: an active
\* guardrail keeps the account latched, and a latch a guardrail owns is the first
\* one in force, whatever the trader, the market and the clock do.
THEOREM LatchAlwaysMatches == GuardrailsAssumption => (Spec => []LatchMatchesGuardrail)
<1> SUFFICES ASSUME GuardrailsAssumption PROVE Spec => []LatchMatchesGuardrail
  OBVIOUS
<1>1. Init => GInv
  BY GuardrailsInit
<1>2. GInv /\ [Next]_vars => GInv'
  BY GuardrailsNext
<1>3. GInv => LatchMatchesGuardrail
  BY DEF GInv, Agrees, LatchMatchesGuardrail
<1> QED BY <1>1, <1>2, <1>3, PTL DEF Spec

-----------------------------------------------------------------------------
(* The orders the latch stops *)

\* Every order working under the latch may finish (CompletingTrade).  This is more
\* than OpeningsStop says: a trader's trip under the trade limit's own reason takes
\* the latch over and leaves that order, which the next transaction's clock cancels.
Tight(s) == s.kill # "NONE" => \A id \in s.working : CompletingTrade(s, id)
Swept(s) ==
  s.kill # "NONE"
  => \A id \in s.working :
       id = s.finishing /\ s.kill = "TRADE_LIMIT" /\ s.latched = <<"TRADE_LIMIT">>

\* An operator that works on the latch sweeps the orders, and one that does not
\* adds none: both keep what was swept.
Stays(s, t) == Keeps(s, t) /\ t.working \subseteq s.working /\ t.finishing = s.finishing
Calm(s, t) == Tight(t) \/ Stays(s, t)

LEMMA TightSwept ==
  ASSUME NEW s, Tight(s)
  PROVE  Swept(s)
  BY DEF Tight, Swept, CompletingTrade

LEMMA CalmTight ==
  ASSUME NEW s, NEW t, Calm(s, t), Tight(s)
  PROVE  Tight(t)
  BY DEF Calm, Stays, Keeps, Tight, CompletingTrade

LEMMA CalmSwept ==
  ASSUME NEW s, NEW t, Calm(s, t), Swept(s)
  PROVE  Swept(t)
<1>1. CASE Tight(t)
  BY <1>1, TightSwept
<1>2. CASE Stays(s, t)
  BY <1>2 DEF Stays, Keeps, Swept
<1> QED BY <1>1, <1>2 DEF Calm

LEMMA CalmOn ==
  ASSUME NEW s, NEW t, NEW u, Calm(s, t), Calm(t, u)
  PROVE  Calm(s, u)
<1>1. CASE Tight(u)
  BY <1>1 DEF Calm
<1>2. CASE Stays(t, u) /\ Tight(t)
  BY <1>2, CalmTight DEF Calm
<1>3. CASE Stays(t, u) /\ Stays(s, t)
  <2>1. Stays(s, u)
    BY <1>3 DEF Stays, Keeps
  <2> QED BY <2>1 DEF Calm
<1> QED BY <1>1, <1>2, <1>3 DEF Calm

LEMMA StaysSelf ==
  ASSUME NEW s, Shape(s)
  PROVE  Calm(s, s)
  BY DEF Calm, Stays, Keeps, Shape

LEMMA SweepTight ==
  ASSUME NEW s, Shape(s)
  PROVE  /\ Tight(CancelOpenings(s))
         /\ CancelOpenings(s).working = {id \in s.working : CompletingTrade(s, id)}
         /\ CancelOpenings(s).finishing = s.finishing
<1> DEFINE t == CancelOpenings(s)
<1>1. /\ t.working = {id \in s.working : CompletingTrade(s, id)}
      /\ t.finishing = s.finishing
  BY DEF CancelOpenings, Shape, Fields
<1>2. Keeps(s, t)
  BY CancelOpeningsKeeps
<1>3. Tight(t)
  BY <1>1, <1>2 DEF Tight, Keeps, CompletingTrade
<1> QED BY <1>1, <1>3

\* What a trip leaves working may finish under the reason it set.
LEMMA TripTight ==
  ASSUME NEW s, Shape(s), NEW why
  PROVE  /\ Tight(Trip(s, why)) /\ Shape(Trip(s, why))
         /\ \A id \in Trip(s, why).working :
              /\ id = Trip(s, why).finishing /\ why = "TRADE_LIMIT"
              /\ Trip(s, why).latched = <<"TRADE_LIMIT">>
<1> DEFINE set == [s EXCEPT !.kill = why, !.owns = why \in Personal]
           told == RecordKill(set, "trip", why, s.kill)
<1>1. CASE s.kill = "NONE" \/ (s.owns /\ s.kill # why)
  <2>1. DOMAIN set = Fields /\ set.kill = why /\ Shape(set)
    BY DEF Shape, Fields
  <2>2. Keeps(set, told) /\ Shape(told)
    BY <2>1, RecordKeeps, KeepsShape
  <2>3. Trip(s, why) = CancelOpenings(told)
    BY <1>1 DEF Trip
  <2>4. Keeps(told, Trip(s, why)) /\ Shape(Trip(s, why))
    BY <2>2, <2>3, CancelOpeningsKeeps, KeepsShape
  <2>5. Tight(Trip(s, why)) /\ Trip(s, why).finishing = told.finishing
        /\ \A id \in Trip(s, why).working : CompletingTrade(told, id)
    BY <2>2, <2>3, SweepTight
  <2>6. told.kill = why
    BY <2>1, <2>2 DEF Keeps
  <2>7. Trip(s, why).latched = told.latched
    BY <2>4 DEF Keeps
  <2>8. \A id \in Trip(s, why).working :
          id = told.finishing /\ why = "TRADE_LIMIT" /\ told.latched = <<"TRADE_LIMIT">>
    BY <2>5, <2>6 DEF CompletingTrade
  <2> QED BY <2>4, <2>5, <2>7, <2>8
<1>2. CASE ~(s.kill = "NONE" \/ (s.owns /\ s.kill # why))
  <2>1. Trip(s, why) = CancelOpenings(s)
    BY <1>2 DEF Trip
  <2>2. Keeps(s, Trip(s, why)) /\ Shape(Trip(s, why))
    BY <2>1, CancelOpeningsKeeps, KeepsShape
  <2>3. Tight(Trip(s, why)) /\ Trip(s, why).finishing = s.finishing
        /\ \A id \in Trip(s, why).working : CompletingTrade(s, id)
    BY <2>1, SweepTight
  <2>4. Trip(s, why).latched = s.latched
    BY <2>2 DEF Keeps
  <2>5. \A id \in Trip(s, why).working :
          id = s.finishing /\ why = "TRADE_LIMIT" /\ s.latched = <<"TRADE_LIMIT">>
    BY <1>2, <2>3 DEF CompletingTrade
  <2> QED BY <2>2, <2>3, <2>4, <2>5
<1> QED BY <1>1, <1>2

LEMMA LatchTight ==
  ASSUME NEW s, Shape(s), NEW why \in Personal
  PROVE  Tight(LatchGuardrail(s, why))
<1> DEFINE t == AddLatched(s, why)
<1>1. Shape(t)
  <2>1. CASE why = "COOLDOWN" \/ why \in Range(s.latched)
    BY <2>1 DEF AddLatched
  <2>2. CASE ~(why = "COOLDOWN" \/ why \in Range(s.latched))
    <3>1. t = [s EXCEPT !.latched = Append(@, why)]
      BY <2>2 DEF AddLatched
    <3>2. Append(s.latched, why) \in Seq(Personal)
      BY AppendProperties DEF Shape
    <3>3. /\ DOMAIN t = Fields /\ t.latched = Append(s.latched, why)
          /\ t.time = s.time /\ t.cooldown = s.cooldown
          /\ t.guards = s.guards /\ t.pending = s.pending
      BY <3>1 DEF Shape, Fields
    <3> QED BY <3>2, <3>3 DEF Shape
  <2> QED BY <2>1, <2>2
<1> QED BY <1>1, TripTight DEF LatchGuardrail, TripReason

LEMMA LossCalm ==
  ASSUME NEW s, Agrees(s)
  PROVE  Calm(s, MonitorLoss(s))
  BY TripTight, StaysSelf, AgreesOwned DEF MonitorLoss, Calm

LEMMA CooldownCalm ==
  ASSUME NEW s, Agrees(s)
  PROVE  Calm(s, BeginCooldown(s))
<1> DEFINE t == [s EXCEPT !.cooldown = Most(@, s.time + s.guards.minutes)]
<1>1. CASE s.guards.minutes = 0
  BY <1>1, StaysSelf, AgreesOwned DEF BeginCooldown
<1>2. CASE s.guards.minutes # 0
  <2>1. /\ DOMAIN t = Fields /\ t.latched = s.latched /\ t.time = s.time
        /\ t.guards = s.guards /\ t.pending = s.pending
        /\ t.cooldown = Most(s.cooldown, s.time + s.guards.minutes)
    BY DEF Agrees, Shape, Fields
  <2>2. Shape(t)
    BY <2>1 DEF Agrees, Shape, Most
  <2> QED BY <1>2, <2>2, LatchTight DEF BeginCooldown, Personal, Calm
<1> QED BY <1>1, <1>2

LEMMA CountCloseCalm ==
  ASSUME NEW s, Agrees(s), NEW won
  PROVE  Calm(s, CountClose(s, won))
<1>1. ASSUME NEW n PROVE LET t == [s EXCEPT !.losing = n] IN Stays(s, t) /\ Agrees(t)
  <2> DEFINE t == [s EXCEPT !.losing = n]
  <2>1. Stays(s, t)
    BY DEF Agrees, Shape, Fields, Keeps, Stays
  <2>2. Agrees(t)
    BY <2>1, KeepsAgrees DEF Stays
  <2> QED BY <2>1, <2>2
<1>2. ASSUME NEW n PROVE LET t == [s EXCEPT !.losing = n] IN Calm(s, t) /\ Calm(s, BeginCooldown(t))
  BY <1>1, CooldownCalm, CalmOn DEF Calm
<1>3. Calm(s, s)
  BY StaysSelf, AgreesOwned
<1> QED BY <1>2, <1>3 DEF CountClose

LEMMA LimitCalm ==
  ASSUME NEW s, Agrees(s)
  PROVE  Calm(s, LatchLimit(s))
  BY LatchTight, StaysSelf, AgreesOwned DEF LatchLimit, Personal, Daily, Calm

LEMMA ObserveCalm ==
  ASSUME NEW s, Agrees(s)
  PROVE  Calm(s, ObserveEquity(s))
<1>1. ASSUME NEW t, Agrees(t) PROVE Calm(t, LatchFloor(t)) /\ Agrees(LatchFloor(t))
  BY <1>1, LatchTight, LatchAgrees, StaysSelf, AgreesOwned DEF LatchFloor, Personal, Calm
<1>2. ASSUME NEW t, Agrees(t) PROVE Calm(t, LatchProfit(t)) /\ Agrees(LatchProfit(t))
  BY <1>2, LatchTight, LatchAgrees, StaysSelf, AgreesOwned DEF LatchProfit, Personal, Daily, Calm
<1> DEFINE floored == LatchFloor(s)
           locked == LatchProfit(floored)
<1>3. Calm(s, floored) /\ Agrees(floored)
  BY <1>1
<1>4. Calm(floored, locked) /\ Agrees(locked)
  BY <1>2, <1>3
<1>5. Calm(locked, LatchLimit(locked))
  BY <1>4, LimitCalm
<1> HIDE DEF floored, locked
<1>6. Calm(s, LatchLimit(locked))
  BY <1>3, <1>4, <1>5, CalmOn
<1>7. Calm(s, s)
  BY StaysSelf, AgreesOwned
<1> QED BY <1>6, <1>7 DEF ObserveEquity, floored, locked

LEMMA CloseFillCalm ==
  ASSUME NEW s, Agrees(s), NEW stopped, NEW won
  PROVE  Calm(s, CloseFill(s, stopped, won))
<1> DEFINE flat == [s EXCEPT !.held = FALSE]
           closed == LatchLimit(flat)
           cooled == IF stopped THEN BeginCooldown(closed) ELSE closed
           counted == CountClose(cooled, won)
           done == ObserveEquity(counted)
<1>1. Stays(s, flat)
  BY DEF Agrees, Shape, Fields, Keeps, Stays
<1>2. Calm(s, flat) /\ Agrees(flat)
  BY <1>1, KeepsAgrees DEF Calm, Stays
<1>3. Calm(flat, closed) /\ Agrees(closed)
  BY <1>2, LimitCalm, LatchLimitAgrees
<1>4. Calm(closed, cooled) /\ Agrees(cooled)
  BY <1>3, CooldownCalm, CooldownAgrees, StaysSelf, AgreesOwned
<1>5. Calm(cooled, counted) /\ Agrees(counted)
  BY <1>4, CountCloseCalm, CountCloseAgrees
<1>6. Calm(counted, done)
  BY <1>5, ObserveCalm
<1>7. CloseFill(s, stopped, won) = done
  BY DEF CloseFill
<1> HIDE DEF flat, closed, cooled, counted, done
<1> QED BY <1>2, <1>3, <1>4, <1>5, <1>6, <1>7, CalmOn

LEMMA RulesCalm ==
  ASSUME NEW s, Agrees(s), NEW exit
  PROVE  Calm(s, MonitorRules(s, exit))
<1> DEFINE seen == ObserveEquity(s)
           done == Liquidate(seen, exit)
<1>1. Calm(s, seen) /\ Agrees(seen)
  BY ObserveCalm, ObserveAgrees
<1>2. Calm(seen, done)
  BY <1>1, CloseFillCalm, StaysSelf, AgreesOwned DEF Liquidate
<1>3. MonitorRules(s, exit) = done
  BY DEF MonitorRules
<1> HIDE DEF seen, done
<1> QED BY <1>1, <1>2, <1>3, CalmOn

\* The order that fills under the latch is the only one working, and while some of
\* it is left it stays the one that reached the limit.
LEMMA OpeningFillTight ==
  ASSUME NEW s, Agrees(s), Tight(s), NEW id, NEW whole,
         s.kill = "NONE" \/ CompletingTrade(s, id)
  PROVE  Tight(OpeningFill(s, id, whole))
<1> DEFINE opened == OpenPosition(s, id, whole)
           counted == CountOpening(opened, id, whole)
           taken == TakeLimit(counted, id, id \notin s.counted, whole)
           limited == LatchLimit(taken)
<1>1. Keeps(s, opened) /\ opened.finishing = s.finishing
      /\ opened.working = (IF whole THEN s.working \ {id} ELSE s.working)
  BY DEF Agrees, Shape, Fields, Keeps, OpenPosition
<1>2. Keeps(opened, counted) /\ counted.finishing = s.finishing /\ counted.working = opened.working
  BY <1>1 DEF Agrees, Fields, Keeps, CountOpening
<1>3. Keeps(counted, taken) /\ taken.working = opened.working
      /\ (~whole => taken.finishing \in {id, s.finishing})
  BY <1>2 DEF Agrees, Fields, Keeps, TakeLimit
<1>4. Keeps(s, taken)
  BY <1>1, <1>2, <1>3 DEF Keeps
<1>5. Tight(taken)
  <2>1. CASE s.kill = "NONE"
    BY <1>4, <2>1 DEF Keeps, Tight
  <2>2. CASE s.kill # "NONE" /\ CompletingTrade(s, id)
    <3>1. s.working \subseteq {id} /\ id = s.finishing
      BY <2>2 DEF Tight, CompletingTrade
    <3>2. \A o \in taken.working : o = id /\ ~whole
      BY <1>1, <1>3, <3>1
    <3>3. \A o \in taken.working : o = taken.finishing
      BY <1>3, <3>1, <3>2
    <3> QED BY <1>4, <2>2, <3>3 DEF Keeps, Tight, CompletingTrade
  <2> QED BY <2>1, <2>2
<1>6. Agrees(taken)
  BY <1>4, KeepsAgrees
<1>7. Tight(limited) /\ Agrees(limited)
  BY <1>5, <1>6, LimitCalm, CalmTight, LatchLimitAgrees
<1>8. Tight(ObserveEquity(limited))
  BY <1>7, ObserveCalm, CalmTight
<1> QED BY <1>8 DEF OpeningFill

LEMMA MatchTight ==
  ASSUME NEW s, Agrees(s), Tight(s), NEW fill
  PROVE  Tight(Match(s, fill))
<1> DEFINE out == [s EXCEPT !.working = @ \ {fill[1]}]
<1>1. Stays(s, out)
  BY DEF Agrees, Shape, Fields, Keeps, Stays
<1>2. Tight(out)
  BY <1>1, CalmTight DEF Calm
<1>3. fill # <<>> /\ OpeningAllowed(s, fill[1]) => Tight(OpeningFill(s, fill[1], fill[2]))
  BY OpeningFillTight DEF OpeningAllowed
<1> QED BY <1>2, <1>3 DEF Match

-----------------------------------------------------------------------------
(* The commands, and the orders they leave *)

\* A refresh sweeps, provided a latch it does not touch holds no order: one that no
\* guardrail owns, while none is in force.
LEMMA RefreshTight ==
  ASSUME NEW s, Shape(s),
         s.kill # "NONE" /\ ~s.owns /\ s.latched = <<>> => s.working = {}
  PROVE  Tight(RefreshLatch(s))
<1>1. CASE GuardrailReason(s) # "NONE"
  BY <1>1, TripTight DEF RefreshLatch, TripReason
<1>2. CASE GuardrailReason(s) = "NONE" /\ s.kill # "NONE" /\ s.owns
  <2> DEFINE clear == [s EXCEPT !.kill = "NONE", !.owns = FALSE]
  <2>1. Shape(clear) /\ clear.kill = "NONE"
    BY DEF Shape, Fields
  <2>2. RefreshLatch(s) = RecordKill(clear, "release", "NONE", s.kill)
    BY <1>2 DEF RefreshLatch, Release
  <2>3. Keeps(clear, RefreshLatch(s))
    BY <2>1, <2>2, RecordKeeps
  <2>4. RefreshLatch(s).kill = "NONE"
    BY <2>1, <2>3 DEF Keeps
  <2> QED BY <2>4 DEF Tight
<1>3. CASE GuardrailReason(s) = "NONE" /\ ~(s.kill # "NONE" /\ s.owns)
  <2>1. RefreshLatch(s) = s
    BY <1>3 DEF RefreshLatch
  <2>2. s.latched = <<>>
    BY <1>3, HeadTailProperties DEF GuardrailReason, Shape, Personal, Daily
  <2> QED BY <1>3, <2>1, <2>2 DEF Tight
<1> QED BY <1>1, <1>2, <1>3

\* The clock a transaction starts with leaves no order to a latch of the trader's own.
LEMMA AdvanceTight ==
  ASSUME NEW s, Agrees(s), Swept(s), NEW time \in Int
  PROVE  Tight(Advance(s, time))
<1> DEFINE t == [s EXCEPT !.time = time, !.kept = <<>>]
<1>1. /\ DOMAIN t = Fields /\ t.latched = s.latched /\ t.time = time /\ t.cooldown = s.cooldown
      /\ t.guards = s.guards /\ t.pending = s.pending /\ t.kill = s.kill /\ t.owns = s.owns
      /\ t.working = s.working
  BY DEF Agrees, Shape, Fields
<1>2. Shape(t)
  BY <1>1 DEF Agrees, Shape
<1>3. t.kill # "NONE" /\ ~t.owns /\ t.latched = <<>> => t.working = {}
  BY <1>1 DEF Swept
<1> QED BY <1>2, <1>3, RefreshTight DEF Advance

LEMMA SubmitTight ==
  ASSUME NEW s, Agrees(s), Tight(s), NEW id, NEW fill
  PROVE  Tight(Submit(s, id, fill))
<1> DEFINE checked == MonitorLoss(s)
           entered == [checked EXCEPT !.working = @ \cup {id}]
<1>1. Agrees(checked) /\ Tight(checked)
  BY MonitorLossAgrees, LossCalm, CalmTight
<1>2. /\ Keeps(checked, entered) /\ entered.working = checked.working \cup {id}
      /\ entered.finishing = checked.finishing
  BY <1>1 DEF Agrees, Shape, Fields, Keeps
<1>3. Agrees(entered)
  BY <1>1, <1>2, KeepsAgrees
<1>4. OpeningAllowed(checked, id) => Tight(entered)
  BY <1>1, <1>2 DEF OpeningAllowed, Keeps, Tight, CompletingTrade
<1> QED BY <1>1, <1>3, <1>4, MatchTight DEF Submit

LEMMA CloseTight ==
  ASSUME NEW s, Agrees(s), Tight(s), NEW won
  PROVE  Tight(Close(s, won))
  BY CloseFillCalm, CalmTight DEF Close

LEMMA CancelTight ==
  ASSUME NEW s, Agrees(s), Tight(s), NEW id
  PROVE  Tight(CancelOrder(s, id))
<1>1. Stays(s, CancelOrder(s, id))
  BY DEF Agrees, Shape, Fields, Keeps, Stays, CancelOrder
<1> QED BY <1>1, CalmTight DEF Calm

LEMMA SetGuardrailsTight ==
  ASSUME NEW s, Agrees(s), Tight(s), NEW asked, asked.minutes \in Nat
  PROVE  Tight(SetGuardrails(s, asked))
<1> DEFINE t == SetGuardrails(s, asked)
           next == Tightened(s.guards, asked)
           longer == next.minutes - s.guards.minutes
<1>1. next.minutes = Most(s.guards.minutes, asked.minutes)
  BY DEF Tightened
<1>2. next.minutes \in Nat /\ longer \in Int
  BY <1>1 DEF Agrees, Shape, Most
<1>3. /\ t.latched = s.latched /\ t.time = s.time /\ t.kill = s.kill /\ t.owns = s.owns
      /\ t.working = s.working /\ t.finishing = s.finishing
      /\ t.cooldown = (IF s.cooldown > s.time /\ longer > 0 THEN s.cooldown + longer ELSE s.cooldown)
  BY DEF SetGuardrails, Agrees, Shape, Fields
<1>4. s.time >= s.cooldown => t.time >= t.cooldown
  BY <1>2, <1>3 DEF Agrees, Shape
<1> QED BY <1>3, <1>4 DEF Tight, CompletingTrade

LEMMA ApplyPendingStays ==
  ASSUME NEW s, Shape(s)
  PROVE  LET t == ApplyPending(s)
         IN  /\ t.kill = s.kill /\ t.owns = s.owns /\ t.latched = s.latched
             /\ t.working = s.working /\ t.finishing = s.finishing
  BY DEF ApplyPending, Shape, Fields

\* The one order left working when the trader takes over the latch is under the
\* trade limit, and the trader's reason is that too.
LEMMA TripKillSwept ==
  ASSUME NEW s, Agrees(s), Tight(s), NEW why
  PROVE  Swept(TripKill(s, why))
<1> DEFINE tripped == Trip(s, why)
           told == IF s.kill # "NONE" /\ ~s.owns /\ s.kill # why
                   THEN RecordKill(tripped, "trip", why, s.kill) ELSE tripped
           t == [told EXCEPT !.kill = why, !.owns = FALSE]
<1>1. Shape(tripped) /\ \A id \in tripped.working :
        id = tripped.finishing /\ why = "TRADE_LIMIT" /\ tripped.latched = <<"TRADE_LIMIT">>
  BY TripTight, AgreesOwned
<1>2. /\ Shape(told) /\ told.working = tripped.working /\ told.latched = tripped.latched
      /\ told.finishing = tripped.finishing
  BY <1>1 DEF RecordKill, Shape, Fields
<1>3. /\ t.kill = why /\ t.working = told.working /\ t.latched = told.latched
      /\ t.finishing = told.finishing
  BY <1>2 DEF Shape, Fields
<1>4. TripKill(s, why) = t
  BY DEF TripKill
<1> QED BY <1>1, <1>2, <1>3, <1>4 DEF Swept

LEMMA ResetKillTight ==
  ASSUME NEW s, Agrees(s), Tight(s)
  PROVE  Tight(ResetKill(s))
<1>1. CASE GuardrailReason(s) # "NONE"
  BY <1>1 DEF ResetKill
<1>2. CASE GuardrailReason(s) = "NONE"
  <2>1. ~s.owns
    BY <1>2 DEF Agrees, Personal, Daily
  <2>2. Agrees(ClearKill(s)) /\ Tight(ClearKill(s))
    BY <1>2, <2>1, ClearKillShape DEF Agrees, Tight
  <2> QED BY <1>2, <2>2, LossCalm, CalmTight DEF ResetKill
<1> QED BY <1>1, <1>2

LEMMA RollDayTight ==
  ASSUME NEW s, Agrees(s), Tight(s), NEW closed
  PROVE  Tight(RollDay(s, closed))
<1> DEFINE monitored == MonitorLoss(s)
           applied == ApplyPending(monitored)
           fresh == NewDay(applied)
           rolled == RefreshLatch(fresh)
           dated == [rolled EXCEPT !.start = closed.equity, !.day = Date(s.time)]
<1>1. Agrees(monitored) /\ Tight(monitored)
  BY MonitorLossAgrees, LossCalm, CalmTight
<1>2. /\ Owned(applied) /\ applied.kill = monitored.kill /\ applied.owns = monitored.owns
      /\ applied.working = monitored.working
  BY <1>1, AgreesOwned, ApplyPendingOwned, ApplyPendingStays
<1>3. /\ DOMAIN fresh = Fields /\ fresh.latched = <<>> /\ fresh.time = applied.time
      /\ fresh.cooldown = (IF applied.cooldown > applied.time THEN applied.cooldown ELSE 0)
      /\ fresh.guards = applied.guards /\ fresh.pending = applied.pending
      /\ fresh.kill = applied.kill /\ fresh.owns = applied.owns /\ fresh.working = applied.working
  BY <1>2 DEF NewDay, Owned, Shape, Fields
<1>4. Shape(fresh) /\ Owned(fresh)
  <2>1. fresh.latched \in Seq(Personal)
    BY <1>3
  <2> QED BY <1>2, <1>3, <2>1 DEF Owned, Shape
<1>5. fresh.kill # "NONE" /\ ~fresh.owns => fresh.working = {}
  BY <1>1, <1>2, <1>3 DEF Tight, CompletingTrade
<1>6. Tight(rolled) /\ Agrees(rolled)
  BY <1>4, <1>5, RefreshTight, RefreshAgrees
<1>7. Stays(rolled, dated)
  BY <1>6 DEF Agrees, Shape, Fields, Keeps, Stays
<1>8. Tight(dated)
  BY <1>6, <1>7, CalmTight DEF Calm
<1> QED BY <1>1, <1>8 DEF RollDay

LEMMA ResetAccountTight ==
  ASSUME NEW s, Agrees(s)
  PROVE  Tight(ResetAccount(s))
<1> DEFINE new == NewAttempt(s)
           free == UnlatchAccount(new)
           applied == ApplyPending(free)
           unowed == [applied EXCEPT !.finishing = NoId]
<1>1. Owned(new) /\ new.working = {}
  <2>1. /\ DOMAIN new = Fields /\ new.latched = Without(s.latched, "SOFT_FLOOR")
        /\ new.time = s.time /\ new.cooldown = s.cooldown
        /\ new.guards = s.guards /\ new.pending = s.pending
        /\ new.kill = s.kill /\ new.owns = s.owns /\ new.working = {}
    BY DEF NewAttempt, Agrees, Shape, Fields
  <2>2. new.latched \in Seq(Personal)
    BY <2>1, WithoutType DEF Agrees, Shape
  <2> QED BY <2>1, <2>2, AgreesOwned DEF Owned, Shape
<1>2. Owned(free) /\ free.working = {}
  <2>1. CASE new.owns /\ GuardrailReason(new) # "NONE"
    BY <1>1, <2>1 DEF UnlatchAccount
  <2>2. CASE ~(new.owns /\ GuardrailReason(new) # "NONE")
    <3>1. Shape(ClearKill(new))
      BY <1>1, ClearKillShape DEF Owned
    <3>2. ClearKill(new).working = {}
      BY <1>1 DEF ClearKill, RecordKill, Owned, Shape, Fields
    <3>3. free = [ClearKill(new) EXCEPT !.owns = FALSE]
      BY <2>2 DEF UnlatchAccount
    <3> QED BY <3>1, <3>2, <3>3 DEF Owned, Shape, Fields
  <2> QED BY <2>1, <2>2
<1>3. Owned(applied) /\ applied.working = {}
  BY <1>2, ApplyPendingOwned, ApplyPendingStays DEF Owned
<1>4. Shape(unowed) /\ unowed.working = {}
  BY <1>3 DEF Owned, Shape, Fields
<1> QED BY <1>4, RefreshTight DEF ResetAccount

LEMMA OnQuotesTight ==
  ASSUME NEW s, Agrees(s), Tight(s), NEW b
  PROVE  Tight(OnQuotes(s, b))
<1> DEFINE valued == [s EXCEPT !.equity = IF s.held THEN b.equity ELSE @,
                               !.marks = IF s.held THEN b.marks ELSE "fresh"]
           ruled == MonitorRules(MonitorLoss(valued), b.exit)
           first == Match(ruled, b.fills[1])
           matched == Match(first, b.fills[2])
<1>1. Stays(s, valued)
  BY DEF Agrees, Shape, Fields, Keeps, Stays
<1>2. Agrees(valued) /\ Tight(valued)
  BY <1>1, KeepsAgrees, CalmTight DEF Stays, Calm
<1>3. Agrees(MonitorLoss(valued)) /\ Tight(MonitorLoss(valued))
  BY <1>2, MonitorLossAgrees, LossCalm, CalmTight
<1>4. Agrees(ruled) /\ Tight(ruled)
  BY <1>3, MonitorRulesAgrees, RulesCalm, CalmTight
<1>5. Agrees(first) /\ Tight(first)
  BY <1>4, MatchAgrees, MatchTight
<1>6. Agrees(matched) /\ Tight(matched)
  BY <1>5, MatchAgrees, MatchTight
<1>7. ASSUME NEW stopped, NEW won PROVE Tight(CloseFill(matched, stopped, won))
  BY <1>6, CloseFillCalm, CalmTight
<1>8. \/ OnQuotes(s, b) = matched
      \/ \E stopped, won : OnQuotes(s, b) = CloseFill(matched, stopped, won)
  BY Zenon DEF OnQuotes
<1> QED BY <1>6, <1>7, <1>8

LEMMA FinishSwept ==
  ASSUME NEW s, Agrees(s), Swept(s), NEW exit
  PROVE  Swept(Finish(s, exit))
<1> DEFINE checked == MonitorLoss(s)
           done == MonitorRules(checked, exit)
<1>1. Agrees(checked) /\ Swept(checked)
  BY MonitorLossAgrees, LossCalm, CalmSwept
<1>2. Agrees(done) /\ Swept(done)
  BY <1>1, MonitorRulesAgrees, RulesCalm, CalmSwept
<1>3. Stays(done, [done EXCEPT !.counted = @ \cap done.working])
  BY <1>2 DEF Agrees, Shape, Fields, Keeps, Stays
<1> QED BY <1>2, <1>3, CalmSwept DEF Finish, Calm

SInv == GInv /\ Swept(state)

LEMMA TransactSwept ==
  ASSUME SInv, NEW name, NEW outcomes, \A acted \in outcomes : Agrees(acted) /\ Swept(acted),
         Transact(name, outcomes)
  PROVE  Swept(state)'
  BY FinishSwept DEF Transact

LEMMA BegunTight ==
  ASSUME SInv, GuardrailsAssumption
  PROVE  /\ \A s \in Begun : Agrees(s) /\ Tight(s)
         /\ \A time \in Times : Agrees(Advance(state, time)) /\ Tight(Advance(state, time))
<1>1. Times \subseteq Int
  BY DEF Times
<1> QED BY <1>1, AdvanceAgrees, AdvanceTight DEF Begun, OwnTimes, GInv, SInv

LEMMA SweptNext == GuardrailsAssumption => (SInv /\ [Next]_vars => SInv')
<1> SUFFICES ASSUME GuardrailsAssumption, SInv, [Next]_vars PROVE Swept(state)'
  BY GuardrailsNext DEF SInv
<1> USE BegunTight, TightSwept
<1>1. CASE SubmitOrder
  BY <1>1, SubmitAgrees, SubmitTight, TransactSwept DEF SubmitOrder
<1>2. CASE ClosePosition
  BY <1>2, CloseAgrees, CloseTight, TransactSwept DEF ClosePosition
<1>3. CASE Cancel
  BY <1>3, CancelAgrees, CancelTight, TransactSwept DEF Cancel
<1>4. CASE ChangeGuardrails
  <2>1. \A asked \in Settings : asked.minutes \in Nat
    BY DEF GuardrailsAssumption
  <2> QED BY <1>4, <2>1, SetGuardrailsAgrees, SetGuardrailsTight, TransactSwept DEF ChangeGuardrails
<1>5. CASE Kill
  <2>1. \A why \in trader.reasons : why # "NONE"
    BY DEF GuardrailsAssumption, GInv, SInv
  <2> QED BY <1>5, <2>1, TripKillAgrees, TripKillSwept, TransactSwept DEF Kill
<1>6. CASE Reset
  BY <1>6, ResetKillAgrees, ResetKillTight, TransactSwept DEF Reset
<1>7. CASE Roll
  BY <1>7, RollDayAgrees, RollDayTight, TransactSwept DEF Roll
<1>8. CASE NewAccount
  BY <1>8, ResetAccountAgrees, ResetAccountTight, TransactSwept DEF NewAccount
<1>9. CASE Quotes
  BY <1>9, OnQuotesAgrees, OnQuotesTight, TransactSwept DEF Quotes
<1>10. CASE UNCHANGED vars
  BY <1>10 DEF vars, SInv, Swept
<1> QED BY <1>1, <1>2, <1>3, <1>4, <1>5, <1>6, <1>7, <1>8, <1>9, <1>10 DEF Next

\* No opening order works under the latch but the one that reached the trade limit,
\* and that one only while nothing else has latched: whoever sets the latch, and
\* whatever fills, clears, expires or rolls over while it is set.
THEOREM OpeningsAlwaysStop == GuardrailsAssumption => (Spec => []OpeningsStop)
<1> SUFFICES ASSUME GuardrailsAssumption PROVE Spec => []OpeningsStop
  OBVIOUS
<1>1. Init => SInv
  <2>1. Init => Swept(state)
    BY DEF Init, Swept
  <2> QED BY <2>1, GuardrailsInit DEF SInv
<1>2. SInv /\ [Next]_vars => SInv'
  BY SweptNext
<1>3. SInv => OpeningsStop
  BY DEF SInv, Swept, OpeningsStop
<1> QED BY <1>1, <1>2, <1>3, PTL DEF Spec

-----------------------------------------------------------------------------
(* What a day's discipline survives *)

\* Every operator but rollover's and the new attempt's only adds to what latched,
\* what opened and how long a cooldown runs.
Counted(s) == Shape(s) /\ s.openings \in Int /\ s.cooldown \in Int
Grows(s, t) ==
  /\ t.time = s.time /\ t.day = s.day
  /\ Range(s.latched) \subseteq Range(t.latched)
  /\ Counted(t) /\ t.openings >= s.openings /\ t.cooldown >= s.cooldown
\* What a whole command keeps, whatever it ends.
Disciplined(s, t) ==
  /\ t.time = s.time
  /\ t.day = s.day
     => Range(s.latched) \cap Daily \subseteq Range(t.latched) /\ t.openings >= s.openings
  /\ s.cooldown > t.time => t.cooldown >= s.cooldown
  /\ Counted(t)
\* The latch and the orders may change, the day's discipline does not.
Lasts(s, t) ==
  /\ t.time = s.time /\ t.day = s.day /\ t.latched = s.latched
  /\ t.openings = s.openings /\ t.cooldown = s.cooldown

LEMMA LastsGrows ==
  ASSUME NEW s, NEW t, Counted(s), Shape(t), Lasts(s, t)
  PROVE  Grows(s, t)
  BY DEF Counted, Lasts, Grows

LEMMA GrowsOn ==
  ASSUME NEW s, NEW t, NEW u, Counted(s), Grows(s, t), Grows(t, u)
  PROVE  Grows(s, u)
  BY DEF Counted, Grows

LEMMA GrowsCounted ==
  ASSUME NEW s, NEW t, Grows(s, t)
  PROVE  Counted(t)
  BY DEF Grows

LEMMA DisciplinedOn ==
  ASSUME NEW s, NEW t, NEW u, Counted(s), Disciplined(s, t), Grows(t, u)
  PROVE  Disciplined(s, u)
<1>1. u.time = s.time /\ Counted(u)
  BY DEF Disciplined, Grows
<1>2. ASSUME u.day = s.day
      PROVE  Range(s.latched) \cap Daily \subseteq Range(u.latched) /\ u.openings >= s.openings
  BY <1>2 DEF Disciplined, Grows, Counted
<1>3. ASSUME s.cooldown > u.time PROVE u.cooldown >= s.cooldown
  BY <1>3 DEF Disciplined, Grows, Counted
<1> QED BY <1>1, <1>2, <1>3 DEF Disciplined

LEMMA GrowsDisciplined ==
  ASSUME NEW s, NEW t, Counted(s), Grows(s, t)
  PROVE  Disciplined(s, t)
  BY DEF Disciplined, Grows

LEMMA GrowsSelf ==
  ASSUME NEW s, Counted(s)
  PROVE  Grows(s, s)
  BY DEF Grows, Counted

LEMMA TripLasts ==
  ASSUME NEW s, Shape(s), NEW why
  PROVE  Lasts(s, Trip(s, why)) /\ Shape(Trip(s, why))
<1> DEFINE set == [s EXCEPT !.kill = why, !.owns = why \in Personal]
           told == RecordKill(set, "trip", why, s.kill)
<1>1. ASSUME NEW t, Shape(t) PROVE Lasts(t, CancelOpenings(t))
  BY <1>1 DEF CancelOpenings, Lasts, Shape, Fields
<1>2. DOMAIN set = Fields /\ Lasts(s, set)
  BY DEF Lasts, Shape, Fields
<1>3. Lasts(set, told)
  BY <1>2 DEF Lasts, RecordKill, Fields
<1>4. Shape(told)
  <2>1. Shape(set)
    BY DEF Shape, Fields
  <2> QED BY <2>1, RecordKeeps, KeepsShape
<1>5. Lasts(s, CancelOpenings(told)) /\ Lasts(s, CancelOpenings(s))
  BY <1>1, <1>2, <1>3, <1>4 DEF Lasts
<1> QED BY <1>5, TripTight DEF Trip

LEMMA LossGrows ==
  ASSUME NEW s, Counted(s)
  PROVE  Grows(s, MonitorLoss(s))
  BY TripLasts, LastsGrows, GrowsSelf DEF MonitorLoss, Counted

LEMMA LatchGrows ==
  ASSUME NEW s, Counted(s), NEW why \in Personal
  PROVE  Grows(s, LatchGuardrail(s, why))
<1> DEFINE t == AddLatched(s, why)
<1>1. CASE why = "COOLDOWN" \/ why \in Range(s.latched)
  <2>1. t = s
    BY <1>1 DEF AddLatched
  <2> QED BY <2>1, TripLasts, LastsGrows DEF LatchGuardrail, TripReason, Counted
<1>2. CASE ~(why = "COOLDOWN" \/ why \in Range(s.latched))
  <2>1. t = [s EXCEPT !.latched = Append(@, why)]
    BY <1>2 DEF AddLatched
  <2>2. /\ DOMAIN t = Fields /\ t.latched = Append(s.latched, why)
        /\ t.time = s.time /\ t.cooldown = s.cooldown /\ t.day = s.day
        /\ t.guards = s.guards /\ t.pending = s.pending /\ t.openings = s.openings
    BY <2>1 DEF Counted, Shape, Fields
  <2>3. t.latched \in Seq(Personal) /\ Range(s.latched) \subseteq Range(t.latched)
    <3>1. s.latched \in Seq(Personal)
      BY DEF Counted, Shape
    <3>2. /\ t.latched \in Seq(Personal) /\ Len(t.latched) = Len(s.latched) + 1
          /\ \A i \in 1..Len(s.latched) : t.latched[i] = s.latched[i]
      BY <2>2, <3>1, AppendProperties
    <3>3. DOMAIN s.latched = 1..Len(s.latched) /\ DOMAIN t.latched = 1..(Len(s.latched) + 1)
      BY <3>1, <3>2
    <3>4. Len(s.latched) \in Nat
      BY <3>1
    <3>5. \A i \in DOMAIN s.latched : i \in DOMAIN t.latched /\ t.latched[i] = s.latched[i]
      BY <3>2, <3>3, <3>4
    <3> QED BY <3>2, <3>5 DEF Range
  <2>4. Counted(t)
    BY <2>2, <2>3 DEF Counted, Shape
  <2>5. Grows(s, t)
    BY <2>2, <2>3, <2>4 DEF Grows, Counted
  <2>6. Grows(t, LatchGuardrail(s, why))
    BY <2>4, TripLasts, LastsGrows DEF LatchGuardrail, TripReason, Counted
  <2> QED BY <2>5, <2>6, GrowsOn
<1> QED BY <1>1, <1>2

LEMMA CooldownGrows ==
  ASSUME NEW s, Counted(s)
  PROVE  Grows(s, BeginCooldown(s))
<1> DEFINE t == [s EXCEPT !.cooldown = Most(@, s.time + s.guards.minutes)]
<1>1. CASE s.guards.minutes = 0
  BY <1>1, GrowsSelf DEF BeginCooldown
<1>2. CASE s.guards.minutes # 0
  <2>1. /\ DOMAIN t = Fields /\ t.latched = s.latched /\ t.time = s.time /\ t.day = s.day
        /\ t.guards = s.guards /\ t.pending = s.pending /\ t.openings = s.openings
        /\ t.cooldown = Most(s.cooldown, s.time + s.guards.minutes)
    BY DEF Counted, Shape, Fields
  <2>2. t.cooldown \in Int /\ t.cooldown >= s.cooldown
    BY <2>1 DEF Counted, Shape, Most
  <2>3. Grows(s, t)
    BY <2>1, <2>2 DEF Counted, Shape, Grows
  <2>4. Grows(t, BeginCooldown(s))
    BY <1>2, <2>3, GrowsCounted, LatchGrows DEF BeginCooldown, Personal
  <2> QED BY <2>3, <2>4, GrowsOn
<1> QED BY <1>1, <1>2

LEMMA CountCloseGrows ==
  ASSUME NEW s, Counted(s), NEW won
  PROVE  Grows(s, CountClose(s, won))
<1>1. ASSUME NEW n PROVE LET t == [s EXCEPT !.losing = n] IN Grows(s, t) /\ Grows(s, BeginCooldown(t))
  <2> DEFINE t == [s EXCEPT !.losing = n]
  <2>1. Lasts(s, t) /\ Shape(t)
    BY DEF Counted, Shape, Fields, Lasts
  <2>2. Grows(s, t) /\ Counted(t)
    BY <2>1, LastsGrows, GrowsCounted
  <2>3. Grows(t, BeginCooldown(t))
    BY <2>2, CooldownGrows
  <2> HIDE DEF t
  <2> QED BY <2>2, <2>3, GrowsOn DEF t
<1> QED BY <1>1, GrowsSelf DEF CountClose

LEMMA LimitGrows ==
  ASSUME NEW s, Counted(s)
  PROVE  Grows(s, LatchLimit(s))
  BY LatchGrows, GrowsSelf DEF LatchLimit, Personal, Daily

LEMMA ObserveGrows ==
  ASSUME NEW s, Counted(s)
  PROVE  Grows(s, ObserveEquity(s))
<1> DEFINE floored == LatchFloor(s)
           locked == LatchProfit(floored)
<1>1. Grows(s, floored) /\ Counted(floored)
  BY LatchGrows, GrowsSelf, GrowsCounted DEF LatchFloor, Personal
<1>2. Grows(floored, locked) /\ Counted(locked)
  BY <1>1, LatchGrows, GrowsSelf, GrowsCounted DEF LatchProfit, Personal, Daily
<1>3. Grows(locked, LatchLimit(locked))
  BY <1>2, LimitGrows
<1> HIDE DEF floored, locked
<1>4. Grows(s, LatchLimit(locked))
  BY <1>1, <1>2, <1>3, GrowsOn
<1> QED BY <1>4, GrowsSelf DEF ObserveEquity, floored, locked

LEMMA OpeningFillGrows ==
  ASSUME NEW s, Counted(s), NEW id, NEW whole
  PROVE  Grows(s, OpeningFill(s, id, whole))
<1> DEFINE opened == OpenPosition(s, id, whole)
           counted == CountOpening(opened, id, whole)
           taken == TakeLimit(counted, id, id \notin s.counted, whole)
           limited == LatchLimit(taken)
<1>1. Lasts(s, opened) /\ Keeps(s, opened)
  BY DEF Counted, Shape, Fields, Lasts, Keeps, OpenPosition
<1>2. /\ Keeps(opened, counted) /\ counted.day = s.day
      /\ counted.openings \in Int /\ counted.openings >= s.openings
  BY <1>1 DEF Counted, Fields, Lasts, Keeps, CountOpening
<1>3. Lasts(counted, taken) /\ Keeps(counted, taken)
  BY <1>2 DEF Fields, Keeps, Lasts, TakeLimit
<1>4. Shape(taken)
  BY <1>1, <1>2, <1>3, KeepsShape DEF Counted
<1>5. Grows(s, taken)
  BY <1>1, <1>2, <1>3, <1>4 DEF Grows, Counted, Keeps, Lasts
<1>6. Grows(taken, limited) /\ Counted(limited)
  BY <1>5, GrowsCounted, LimitGrows
<1>7. Grows(limited, ObserveEquity(limited))
  BY <1>6, ObserveGrows
<1> HIDE DEF taken, limited
<1>8. Grows(s, ObserveEquity(limited))
  BY <1>5, <1>6, <1>7, GrowsCounted, GrowsOn
<1> QED BY <1>8 DEF OpeningFill, taken, limited

LEMMA CloseFillGrows ==
  ASSUME NEW s, Counted(s), NEW stopped, NEW won
  PROVE  Grows(s, CloseFill(s, stopped, won))
<1> DEFINE flat == [s EXCEPT !.held = FALSE]
           closed == LatchLimit(flat)
           cooled == IF stopped THEN BeginCooldown(closed) ELSE closed
           counted == CountClose(cooled, won)
           done == ObserveEquity(counted)
<1>1. Grows(s, flat) /\ Counted(flat)
  <2>1. Lasts(s, flat) /\ Shape(flat)
    BY DEF Counted, Shape, Fields, Lasts
  <2> QED BY <2>1, LastsGrows, GrowsCounted
<1>2. Grows(flat, closed) /\ Counted(closed)
  BY <1>1, LimitGrows, GrowsCounted
<1>3. Grows(closed, cooled) /\ Counted(cooled)
  BY <1>2, CooldownGrows, GrowsSelf, GrowsCounted
<1>4. Grows(cooled, counted) /\ Counted(counted)
  BY <1>3, CountCloseGrows, GrowsCounted
<1>5. Grows(counted, done)
  BY <1>4, ObserveGrows
<1>6. CloseFill(s, stopped, won) = done
  BY DEF CloseFill
<1> HIDE DEF flat, closed, cooled, counted, done
<1> QED BY <1>1, <1>2, <1>3, <1>4, <1>5, <1>6, GrowsOn

LEMMA MatchGrows ==
  ASSUME NEW s, Counted(s), NEW fill
  PROVE  Grows(s, Match(s, fill))
<1> DEFINE out == [s EXCEPT !.working = @ \ {fill[1]}]
<1>1. Lasts(s, out) /\ Shape(out)
  BY DEF Counted, Shape, Fields, Lasts
<1>2. Grows(s, out)
  BY <1>1, LastsGrows
<1> QED BY <1>2, OpeningFillGrows, GrowsSelf DEF Match

LEMMA RulesGrow ==
  ASSUME NEW s, Counted(s), NEW exit
  PROVE  Grows(s, MonitorRules(s, exit))
<1> DEFINE seen == ObserveEquity(s)
           done == Liquidate(seen, exit)
<1>1. Grows(s, seen) /\ Counted(seen)
  BY ObserveGrows, GrowsCounted
<1>2. Grows(seen, done)
  BY <1>1, CloseFillGrows, GrowsSelf DEF Liquidate
<1>3. MonitorRules(s, exit) = done
  BY DEF MonitorRules
<1> HIDE DEF seen, done
<1> QED BY <1>1, <1>2, <1>3, GrowsOn

LEMMA RefreshLasts ==
  ASSUME NEW s, Shape(s)
  PROVE  Lasts(s, RefreshLatch(s)) /\ Shape(RefreshLatch(s))
<1>1. Lasts(s, Release(s)) /\ Shape(Release(s))
  BY DEF Release, RecordKill, Lasts, Shape, Fields
<1> QED BY <1>1, TripLasts DEF RefreshLatch, TripReason, Lasts

LEMMA SubmitGrows ==
  ASSUME NEW s, Counted(s), NEW id, NEW fill
  PROVE  Grows(s, Submit(s, id, fill))
<1> DEFINE checked == MonitorLoss(s)
           entered == [checked EXCEPT !.working = @ \cup {id}]
<1>1. Grows(s, checked) /\ Counted(checked)
  BY LossGrows, GrowsCounted
<1>2. Lasts(checked, entered) /\ Shape(entered)
  BY <1>1 DEF Counted, Shape, Fields, Lasts
<1>3. Grows(checked, entered) /\ Counted(entered)
  BY <1>1, <1>2, LastsGrows, GrowsCounted
<1>4. Grows(entered, Match(entered, fill))
  BY <1>3, MatchGrows
<1>5. Submit(s, id, fill) \in {checked, Match(entered, fill)}
  BY DEF Submit
<1> HIDE DEF checked, entered
<1> QED BY <1>1, <1>3, <1>4, <1>5, GrowsOn

LEMMA CloseGrows ==
  ASSUME NEW s, Counted(s), NEW won
  PROVE  Grows(s, Close(s, won))
  BY CloseFillGrows, GrowsSelf DEF Close

LEMMA CancelGrows ==
  ASSUME NEW s, Counted(s), NEW id
  PROVE  Grows(s, CancelOrder(s, id))
<1>1. Lasts(s, CancelOrder(s, id)) /\ Shape(CancelOrder(s, id))
  BY DEF Counted, Shape, Fields, Lasts, CancelOrder
<1> QED BY <1>1, LastsGrows

LEMMA SetGuardrailsGrows ==
  ASSUME NEW s, NEW asked, Counted(s), Shape(SetGuardrails(s, asked)), asked.minutes \in Nat
  PROVE  Grows(s, SetGuardrails(s, asked))
<1> DEFINE t == SetGuardrails(s, asked)
           next == Tightened(s.guards, asked)
           longer == next.minutes - s.guards.minutes
<1>1. next.minutes = Most(s.guards.minutes, asked.minutes)
  BY DEF Tightened
<1>2. longer \in Int
  BY <1>1 DEF Counted, Shape, Most
<1>3. /\ t.latched = s.latched /\ t.time = s.time /\ t.day = s.day /\ t.openings = s.openings
      /\ t.cooldown = (IF s.cooldown > s.time /\ longer > 0 THEN s.cooldown + longer ELSE s.cooldown)
  BY DEF SetGuardrails, Counted, Shape, Fields
<1>4. t.cooldown \in Int /\ t.cooldown >= s.cooldown
  BY <1>2, <1>3 DEF Counted
<1> QED BY <1>3, <1>4 DEF Grows, Counted

LEMMA TripKillGrows ==
  ASSUME NEW s, Counted(s), NEW why
  PROVE  Grows(s, TripKill(s, why))
<1> DEFINE tripped == Trip(s, why)
           told == IF s.kill # "NONE" /\ ~s.owns /\ s.kill # why
                   THEN RecordKill(tripped, "trip", why, s.kill) ELSE tripped
           t == [told EXCEPT !.kill = why, !.owns = FALSE]
<1>1. Lasts(s, tripped) /\ Shape(tripped)
  BY TripLasts DEF Counted
<1>2. Lasts(tripped, told) /\ Shape(told)
  BY <1>1 DEF RecordKill, Lasts, Shape, Fields
<1>3. Lasts(told, t) /\ Shape(t)
  BY <1>2 DEF Lasts, Shape, Fields
<1>4. Lasts(s, t) /\ TripKill(s, why) = t
  <2>1. TripKill(s, why) = t
    BY DEF TripKill
  <2> HIDE DEF t, told, tripped
  <2> QED BY <1>1, <1>2, <1>3, <2>1 DEF Lasts
<1> QED BY <1>3, <1>4, LastsGrows

LEMMA ClearKillLasts ==
  ASSUME NEW s, Shape(s)
  PROVE  Lasts(s, ClearKill(s)) /\ Shape(ClearKill(s))
  BY ClearKillShape DEF ClearKill, RecordKill, Lasts, Shape, Fields

LEMMA ResetKillGrows ==
  ASSUME NEW s, Counted(s)
  PROVE  Grows(s, ResetKill(s))
<1> DEFINE clear == ClearKill(s)
<1>1. Grows(s, clear) /\ Counted(clear)
  BY ClearKillLasts, LastsGrows, GrowsCounted DEF Counted
<1>2. Grows(clear, MonitorLoss(clear))
  BY <1>1, LossGrows
<1>3. ResetKill(s) \in {s, MonitorLoss(clear)}
  BY DEF ResetKill
<1> HIDE DEF clear
<1> QED BY <1>1, <1>2, <1>3, GrowsOn, GrowsSelf

LEMMA ApplyPendingLasts ==
  ASSUME NEW s, Owned(s)
  PROVE  Lasts(s, ApplyPending(s)) /\ Shape(ApplyPending(s))
<1>1. Shape(ApplyPending(s))
  BY ApplyPendingOwned DEF Owned
<1> QED BY <1>1 DEF ApplyPending, Lasts, Owned, Shape, Fields

\* Rollover ends the day it counted for; a cooldown runs on into the next.
LEMMA RollDayDisciplined ==
  ASSUME NEW s, Agrees(s), Counted(s), NEW closed, Date(s.time) \in Int
  PROVE  Disciplined(s, RollDay(s, closed))
<1> DEFINE monitored == MonitorLoss(s)
           applied == ApplyPending(monitored)
           fresh == NewDay(applied)
           rolled == RefreshLatch(fresh)
           dated == [rolled EXCEPT !.start = closed.equity, !.day = Date(s.time)]
<1>1. Grows(s, monitored) /\ Agrees(monitored)
  BY LossGrows, MonitorLossAgrees
<1>2. Lasts(monitored, applied) /\ Shape(applied)
  BY <1>1, AgreesOwned, ApplyPendingLasts
<1>3. /\ DOMAIN fresh = Fields /\ fresh.latched = <<>> /\ fresh.time = applied.time
      /\ fresh.cooldown = (IF applied.cooldown > applied.time THEN applied.cooldown ELSE 0)
      /\ fresh.guards = applied.guards /\ fresh.pending = applied.pending /\ fresh.openings = 0
  BY <1>2 DEF NewDay, Shape, Fields
<1>4. Shape(fresh)
  <2>1. fresh.latched \in Seq(Personal)
    BY <1>3
  <2> QED BY <1>2, <1>3, <2>1 DEF Shape
<1>5. Lasts(fresh, rolled) /\ Shape(rolled)
  BY <1>4, RefreshLasts
<1>6. /\ Shape(dated) /\ dated.time = rolled.time /\ dated.cooldown = rolled.cooldown
      /\ dated.openings = rolled.openings /\ dated.day = Date(s.time)
  BY <1>5 DEF Shape, Fields
<1>7. /\ dated.time = s.time /\ dated.openings = 0 /\ monitored.cooldown \in Int
      /\ dated.cooldown = (IF monitored.cooldown > s.time THEN monitored.cooldown ELSE 0)
  BY <1>1, <1>2, <1>3, <1>5, <1>6 DEF Lasts, Grows, Counted
<1>8. monitored.cooldown >= s.cooldown
  BY <1>1 DEF Grows
<1>9. CASE Date(s.time) <= s.day
  BY <1>9, GrowsSelf, GrowsDisciplined DEF RollDay
<1>10. CASE closed.marks # "fresh" /\ ~(Date(s.time) <= s.day)
  BY <1>1, <1>10, GrowsDisciplined DEF RollDay
<1>11. CASE ~(closed.marks # "fresh") /\ ~(Date(s.time) <= s.day)
  <2>1. RollDay(s, closed) = dated
    BY <1>11 DEF RollDay
  <2>2. dated.day # s.day
    BY <1>6, <1>11
  <2>3. s.cooldown > dated.time => dated.cooldown >= s.cooldown
    BY <1>7, <1>8 DEF Counted, Shape
  <2>4. Counted(dated)
    BY <1>6, <1>7 DEF Counted, Shape
  <2> HIDE DEF dated
  <2> QED BY <1>7, <2>1, <2>2, <2>3, <2>4 DEF Disciplined
<1> QED BY <1>9, <1>10, <1>11

LEMMA RangeOf ==
  ASSUME NEW S, NEW seq \in Seq(S)
  PROVE  Range(seq) = {seq[k] : k \in 1..Len(seq)}
<1>1. DOMAIN seq = 1..Len(seq)
  OBVIOUS
<1> QED BY <1>1 DEF Range

LEMMA ConcatRange ==
  ASSUME NEW S, NEW front \in Seq(S), NEW back \in Seq(S)
  PROVE  Range(front) \cup Range(back) \subseteq Range(front \o back)
<1> DEFINE m == Len(front)
           n == Len(back)
           whole == front \o back
<1>1. m \in Nat /\ n \in Nat
  OBVIOUS
<1>2. /\ whole \in Seq(S) /\ Len(whole) = m + n
      /\ \A k \in 1..(m + n) : whole[k] = IF k <= m THEN front[k] ELSE back[k - m]
  BY ConcatProperties
<1>3. Range(whole) = {whole[k] : k \in 1..(m + n)}
  BY <1>2, RangeOf
<1>4. Range(front) = {front[k] : k \in 1..m} /\ Range(back) = {back[k] : k \in 1..n}
  BY RangeOf
<1> HIDE DEF m, n, whole
<1>5. ASSUME NEW k \in 1..m PROVE front[k] \in Range(whole)
  <2>1. k \in 1..(m + n) /\ k <= m
    BY <1>1
  <2>2. whole[k] = front[k]
    BY <1>2, <2>1
  <2> QED BY <1>3, <2>1, <2>2
<1>6. ASSUME NEW k \in 1..n PROVE back[k] \in Range(whole)
  <2>1. k + m \in 1..(m + n) /\ ~(k + m <= m) /\ (k + m) - m = k
    BY <1>1
  <2>2. whole[k + m] = back[k]
    BY <1>2, <2>1
  <2> QED BY <1>3, <2>1, <2>2
<1> QED BY <1>4, <1>5, <1>6 DEF whole

\* Only the one reason leaves the list.
LEMMA WithoutRange ==
  ASSUME NEW S, NEW seq \in Seq(S), NEW why
  PROVE  Range(seq) \ {why} \subseteq Range(Without(seq, why))
<1> DEFINE i == CHOOSE j \in DOMAIN seq : seq[j] = why
           front == SubSeq(seq, 1, i - 1)
           back == SubSeq(seq, i + 1, Len(seq))
<1>1. CASE why \in Range(seq)
  <2>1. i \in 1..Len(seq) /\ seq[i] = why /\ Len(seq) \in Nat
    BY <1>1 DEF Range
  <2>2. /\ front \in Seq(S) /\ Len(front) = i - 1
        /\ \A j \in 1..(i - 1) : front[j] = seq[j]
    BY <2>1, SubSeqProperties, \A j \in 1..(i - 1) : seq[j] \in S
  <2>3. /\ back \in Seq(S) /\ Len(back) = Len(seq) - i
        /\ \A j \in 1..(Len(seq) - i) : back[j] = seq[i + j]
    BY <2>1, SubSeqProperties, \A j \in (i + 1)..Len(seq) : seq[j] \in S
  <2>4. Without(seq, why) = front \o back
    BY <1>1 DEF Without, RemoveAt
  <2> HIDE DEF i, front, back
  <2>5. Range(front) = {front[k] : k \in 1..(i - 1)} /\ Range(back) = {back[k] : k \in 1..(Len(seq) - i)}
    BY <2>2, <2>3, RangeOf
  <2>6. ASSUME NEW j \in 1..Len(seq), seq[j] # why
        PROVE  seq[j] \in Range(front) \cup Range(back)
    <3>1. CASE j < i
      <4>1. j \in 1..(i - 1)
        BY <2>1, <3>1
      <4> QED BY <2>2, <2>5, <4>1
    <3>2. CASE j > i
      <4>1. j - i \in 1..(Len(seq) - i) /\ i + (j - i) = j
        BY <2>1, <3>2
      <4>2. back[j - i] = seq[j]
        BY <2>3, <4>1
      <4> QED BY <2>5, <4>1, <4>2
    <3> QED BY <2>1, <2>6, <3>1, <3>2
  <2>7. Range(seq) = {seq[k] : k \in 1..Len(seq)}
    BY RangeOf
  <2> QED BY <2>2, <2>3, <2>4, <2>6, <2>7, ConcatRange
<1>2. CASE why \notin Range(seq)
  BY <1>2 DEF Without
<1> QED BY <1>1, <1>2

\* A new attempt forgets only the soft floor.
LEMMA ResetAccountDisciplined ==
  ASSUME NEW s, Agrees(s), Counted(s)
  PROVE  Disciplined(s, ResetAccount(s))
<1> DEFINE new == NewAttempt(s)
           free == UnlatchAccount(new)
           applied == ApplyPending(free)
           unowed == [applied EXCEPT !.finishing = NoId]
           done == RefreshLatch(unowed)
<1>1. /\ DOMAIN new = Fields /\ new.latched = Without(s.latched, "SOFT_FLOOR")
      /\ new.time = s.time /\ new.cooldown = s.cooldown /\ new.openings = s.openings
      /\ new.guards = s.guards /\ new.pending = s.pending
      /\ new.kill = s.kill /\ new.owns = s.owns
  BY DEF NewAttempt, Agrees, Shape, Fields
<1>2. /\ new.latched \in Seq(Personal)
      /\ Range(s.latched) \ {"SOFT_FLOOR"} \subseteq Range(new.latched)
  BY <1>1, WithoutType, WithoutRange DEF Agrees, Shape
<1>3. Owned(new)
  BY <1>1, <1>2, AgreesOwned DEF Owned, Shape
<1>4. Disciplined(s, new) /\ Counted(new)
  BY <1>1, <1>2, <1>3 DEF Disciplined, Counted, Daily, Owned
<1>5. Lasts(new, free) /\ Owned(free)
  <2>1. CASE new.owns /\ GuardrailReason(new) # "NONE"
    BY <1>3, <2>1 DEF UnlatchAccount, Lasts
  <2>2. CASE ~(new.owns /\ GuardrailReason(new) # "NONE")
    <3>1. Shape(ClearKill(new)) /\ Lasts(new, ClearKill(new))
      BY <1>3, ClearKillLasts DEF Owned
    <3>2. free = [ClearKill(new) EXCEPT !.owns = FALSE]
      BY <2>2 DEF UnlatchAccount
    <3> QED BY <3>1, <3>2 DEF Owned, Shape, Fields, Lasts
  <2> QED BY <2>1, <2>2
<1>6. Lasts(free, applied) /\ Shape(applied)
  BY <1>5, ApplyPendingLasts
<1>7. Lasts(applied, unowed) /\ Shape(unowed)
  BY <1>6 DEF Lasts, Shape, Fields
<1>8. Lasts(unowed, done) /\ Shape(done)
  BY <1>7, RefreshLasts
<1>9. ResetAccount(s) = done
  BY DEF ResetAccount
<1> HIDE DEF new, free, applied, unowed, done
<1>10. Lasts(new, done)
  BY <1>5, <1>6, <1>7, <1>8 DEF Lasts
<1>11. Grows(new, done)
  BY <1>4, <1>8, <1>10, LastsGrows
<1> QED BY <1>4, <1>9, <1>11, DisciplinedOn

LEMMA OnQuotesGrows ==
  ASSUME NEW s, Counted(s), NEW b
  PROVE  Grows(s, OnQuotes(s, b))
<1> DEFINE valued == [s EXCEPT !.equity = IF s.held THEN b.equity ELSE @,
                               !.marks = IF s.held THEN b.marks ELSE "fresh"]
           checked == MonitorLoss(valued)
           ruled == MonitorRules(checked, b.exit)
           first == Match(ruled, b.fills[1])
           matched == Match(first, b.fills[2])
<1>1. Lasts(s, valued) /\ Shape(valued)
  BY DEF Counted, Shape, Fields, Lasts
<1>2. Grows(s, valued) /\ Counted(valued)
  BY <1>1, LastsGrows, GrowsCounted
<1>3. Grows(valued, checked) /\ Counted(checked)
  BY <1>2, LossGrows, GrowsCounted
<1>4. Grows(checked, ruled) /\ Counted(ruled)
  BY <1>3, RulesGrow, GrowsCounted
<1>5. Grows(ruled, first) /\ Counted(first)
  BY <1>4, MatchGrows, GrowsCounted
<1>6. Grows(first, matched) /\ Counted(matched)
  BY <1>5, MatchGrows, GrowsCounted
<1>7. ASSUME NEW stopped, NEW won PROVE Grows(matched, CloseFill(matched, stopped, won))
  BY <1>6, CloseFillGrows
<1>8. \/ OnQuotes(s, b) = matched
      \/ \E stopped, won : OnQuotes(s, b) = CloseFill(matched, stopped, won)
  BY Zenon DEF OnQuotes
<1> HIDE DEF valued, checked, ruled, first, matched
<1>9. Grows(s, matched)
  BY <1>2, <1>3, <1>4, <1>5, <1>6, GrowsOn
<1> QED BY <1>7, <1>8, <1>9, GrowsOn

LEMMA FinishGrows ==
  ASSUME NEW s, Counted(s), NEW exit
  PROVE  Grows(s, Finish(s, exit))
<1> DEFINE checked == MonitorLoss(s)
           done == MonitorRules(checked, exit)
           last == [done EXCEPT !.counted = @ \cap done.working]
<1>1. Grows(s, checked) /\ Counted(checked)
  BY LossGrows, GrowsCounted
<1>2. Grows(checked, done) /\ Counted(done)
  BY <1>1, RulesGrow, GrowsCounted
<1>3. Lasts(done, last) /\ Shape(last)
  BY <1>2 DEF Counted, Shape, Fields, Lasts
<1>4. Grows(done, last)
  BY <1>2, <1>3, LastsGrows
<1>5. Finish(s, exit) = last
  BY DEF Finish
<1> HIDE DEF checked, done, last
<1> QED BY <1>1, <1>2, <1>4, <1>5, GrowsOn

\* The clock a transaction starts with only moves the time, and frees the latch.
Begins(s, t) ==
  /\ t.day = s.day /\ t.latched = s.latched /\ t.openings = s.openings
  /\ t.cooldown = s.cooldown /\ Agrees(t) /\ Counted(t)

LEMMA AdvanceBegins ==
  ASSUME NEW s, Agrees(s), Counted(s), NEW time \in Int
  PROVE  Begins(s, Advance(s, time)) /\ Advance(s, time).time = time
<1> DEFINE t == [s EXCEPT !.time = time, !.kept = <<>>]
<1>1. /\ DOMAIN t = Fields /\ t.latched = s.latched /\ t.time = time /\ t.cooldown = s.cooldown
      /\ t.guards = s.guards /\ t.pending = s.pending /\ t.day = s.day /\ t.openings = s.openings
  BY DEF Agrees, Shape, Fields
<1>2. Shape(t)
  BY <1>1 DEF Agrees, Shape
<1>3. Lasts(t, RefreshLatch(t)) /\ Shape(RefreshLatch(t))
  BY <1>2, RefreshLasts
<1>4. Agrees(Advance(s, time))
  BY AdvanceAgrees
<1>5. Advance(s, time) = RefreshLatch(t)
  BY DEF Advance
<1> HIDE DEF t
<1> QED BY <1>1, <1>3, <1>4, <1>5 DEF Begins, Lasts, Counted

DInv == GInv /\ Counted(state)
DisciplineStep ==
  /\ state'.day = state.day
     => Latched \cap Daily \subseteq Range(state'.latched) /\ state'.openings >= state.openings
  /\ state.cooldown > state'.time => state'.cooldown >= state.cooldown

LEMMA TransactDisciplined ==
  ASSUME DInv, NEW name, NEW outcomes,
         \A acted \in outcomes : \E t : Begins(state, t) /\ Disciplined(t, acted),
         Transact(name, outcomes)
  PROVE  Counted(state)' /\ DisciplineStep
<1>0. PICK acted \in outcomes : \E exit : state' = Finish(acted, exit)
  BY DEF Transact
<1>1. PICK exit : state' = Finish(acted, exit)
  BY <1>0
<1>2. PICK t : Begins(state, t) /\ Disciplined(t, acted)
  BY <1>1
<1>3. Grows(acted, state')
  BY <1>1, <1>2, FinishGrows DEF Disciplined
<1>4. Disciplined(t, state')
  BY <1>2, <1>3, DisciplinedOn DEF Begins
<1>5. Counted(state)'
  BY <1>4 DEF Disciplined, Counted, Shape
<1>6. DisciplineStep
  BY <1>2, <1>4 DEF Begins, Disciplined, DisciplineStep, Latched
<1> QED BY <1>5, <1>6

LEMMA BegunBegins ==
  ASSUME DInv, GuardrailsAssumption
  PROVE  /\ \A s \in Begun : Begins(state, s)
         /\ \A time \in Times : Begins(state, Advance(state, time)) /\ Date(Advance(state, time).time) \in Int
<1>1. Times \subseteq Int
  BY DEF Times
<1>2. \A time \in Int : Date(time) \in Int
  BY DEF Date, GuardrailsAssumption
<1> QED BY <1>1, <1>2, AdvanceBegins DEF Begun, OwnTimes, GInv, DInv

LEMMA DisciplineNext ==
  GuardrailsAssumption => (DInv /\ [Next]_vars => Counted(state)' /\ [DisciplineStep]_vars)
<1> SUFFICES ASSUME GuardrailsAssumption, DInv, Next
             PROVE  Counted(state)' /\ DisciplineStep
  <2>1. DInv /\ UNCHANGED vars => Counted(state)'
    BY DEF vars, DInv, Counted, Shape
  <2> QED BY <2>1
<1>1. \A s \in Begun : Begins(state, s) /\ Counted(s) /\ Agrees(s)
  BY BegunBegins DEF Begins
<1>2. ASSUME NEW s, Counted(s), NEW t, Grows(s, t) PROVE Disciplined(s, t)
  BY <1>2, GrowsDisciplined
<1>3. CASE SubmitOrder
  BY <1>1, <1>2, <1>3, SubmitGrows, TransactDisciplined DEF SubmitOrder
<1>4. CASE ClosePosition
  BY <1>1, <1>2, <1>4, CloseGrows, TransactDisciplined DEF ClosePosition
<1>5. CASE Cancel
  BY <1>1, <1>2, <1>5, CancelGrows, TransactDisciplined DEF Cancel
<1>6. CASE ChangeGuardrails
  <2>1. PICK asked \in Settings : Transact("set", {SetGuardrails(s, asked) : s \in Begun})
    BY <1>6 DEF ChangeGuardrails
  <2>2. asked.minutes \in Nat
    BY DEF GuardrailsAssumption
  <2>3. \A s \in Begun : Grows(s, SetGuardrails(s, asked))
    BY <1>1, <2>2, SetGuardrailsAgrees, SetGuardrailsGrows, AgreesOwned
  <2>4. \A acted \in {SetGuardrails(s, asked) : s \in Begun} :
          \E t : Begins(state, t) /\ Disciplined(t, acted)
    BY <1>1, <1>2, <2>3
  <2> QED BY <2>1, <2>4, TransactDisciplined
<1>7. CASE Kill
  BY <1>1, <1>2, <1>7, TripKillGrows, TransactDisciplined DEF Kill
<1>8. CASE Reset
  BY <1>1, <1>2, <1>8, ResetKillGrows, TransactDisciplined DEF Reset
<1>9. CASE Roll
  <2>1. \A time \in Times : Disciplined(Advance(state, time), RollDay(Advance(state, time), state))
    BY BegunBegins, RollDayDisciplined DEF Begins
  <2> QED BY <1>9, <2>1, BegunBegins, TransactDisciplined DEF Roll
<1>10. CASE NewAccount
  BY <1>1, <1>10, ResetAccountDisciplined, TransactDisciplined DEF NewAccount
<1>11. CASE Quotes
  BY <1>1, <1>2, <1>11, OnQuotesGrows, TransactDisciplined DEF Quotes
<1> QED BY <1>3, <1>4, <1>5, <1>6, <1>7, <1>8, <1>9, <1>10, <1>11 DEF Next

\* Within a trading day nothing gives the day's discipline back: no order of fills,
\* resets, kills and new attempts undoes a daily latch or an opening that counted,
\* and a cooldown never ends before its time, whatever day that is.
THEOREM DisciplineAlwaysHolds == GuardrailsAssumption => (Spec => DisciplineHolds)
<1> SUFFICES ASSUME GuardrailsAssumption PROVE Spec => DisciplineHolds
  OBVIOUS
<1>1. Init => DInv
  <2>1. Init => state.openings = 0
    BY DEF Init
  <2> QED BY <2>1, GuardrailsInit DEF DInv, GInv, Agrees, Counted, Shape
<1>2. DInv /\ [Next]_vars => DInv' /\ [DisciplineStep]_vars
  BY DisciplineNext, GuardrailsNext DEF DInv
<1> QED BY <1>1, <1>2, PTL DEF Spec, DisciplineHolds, DisciplineStep

-----------------------------------------------------------------------------
(* The plan *)

EvaluationFields == {"attempt", "status", "code", "decidedEquity", "started", "start", "peak", "floor", "locked",
  "day", "dayOpen", "dayClose", "dayCloseBalance", "dayHigh", "dayOpenRealised", "dayExecutions", "lock",
  "crossed", "days", "payouts", "qualifying", "period"}

PlanFields == {"target", "dd", "mode", "basis", "lockStart", "lockAt", "daily", "dailyBasis", "dailyFails",
  "profitBasis", "minDays", "consistency", "timeLimit", "noOvernight", "holdRule", "lossCap", "lossAction",
  "funded", "qualifyDays", "qualifyProfit", "withdraw", "cap", "buffer", "after", "resetPercent", "sizing",
  "increase", "maxSize", "reviewProfit", "reviewPayouts", "original", "originalDd", "originalDaily", "originalLock"}

\* An evaluation has its fields, and its amounts are numbers.
EvaluationOk(ev) ==
  /\ DOMAIN ev = EvaluationFields
  /\ ev.start \in Int /\ ev.peak \in Int /\ ev.floor \in Int /\ ev.locked \in BOOLEAN
  /\ ev.dayOpen \in Int /\ ev.dayClose \in Int /\ ev.dayHigh \in Int /\ ev.attempt \in Int /\ ev.payouts \in Seq(Int)
  /\ ev.dayCloseBalance \in Int

\* A floor that a payout raises to the starting balance is one that locks there.
LocksAtStart == \A r \in Plans : r.after = "start" => r.lockStart

\* A plan, scaled by reviews or not.
PlanOk(r) ==
  /\ DOMAIN r = PlanFields
  /\ r.dd \in Int /\ r.lockAt \in Int /\ r.resetPercent \in Int /\ r.increase \in Int /\ r.maxSize \in Int
  /\ r.original \in Nat \ {0} /\ r.originalDd \in Nat /\ r.originalDaily \in Nat /\ r.originalLock \in Nat
  /\ r.sizing = V!None => r.dd = r.originalDd /\ r.lockAt = r.originalLock
  /\ r.sizing # V!None => r.funded
  /\ r.after # "keep" => r.funded /\ r.originalDd > 0
  /\ r.after = "start" => r.mode # "static"
  /\ LocksAtStart => (r.after = "start" => r.lockStart)

InputsOk(in) ==
  /\ DOMAIN in = {"equity", "balance", "open", "flat", "realised", "date"}
  /\ in.balance \in Int /\ in.open \in Int /\ in.realised \in Int /\ in.equity = in.balance + in.open

AccountOk ==
  /\ EvaluationOk(e) /\ PlanOk(rules)
  /\ balance \in Int /\ open \in Int /\ realised \in Int /\ dayPnl \in Int

\* What a rule's verdict, a mark or a rollover leaves of an evaluation.
Beside(ev, t) ==
  /\ DOMAIN t = EvaluationFields
  /\ t.attempt = ev.attempt /\ t.crossed = ev.crossed /\ t.payouts = ev.payouts

Same(ev, t) ==
  /\ Beside(ev, t) /\ t.start = ev.start /\ t.dayOpen = ev.dayOpen /\ t.day = ev.day

\* The peak and the floor as they were, or moved up to a higher peak.
Raised(ev, r, t) ==
  \/ t.peak = ev.peak /\ t.floor = ev.floor /\ t.locked = ev.locked
  \/ LET f == V!FloorOf(r, t.peak, ev.locked, ev.start) IN
     /\ t.peak \in Int /\ t.peak > ev.peak /\ t.locked = f.locked
     /\ t.floor = IF r.sizing # V!None THEN V!Max({ev.floor, f.floor}) ELSE f.floor

-----------------------------------------------------------------------------
(* The floor *)

LEMMA MaxOfTwo == ASSUME NEW a \in Int, NEW b \in Int
                  PROVE  V!Max({a, b}) \in {a, b} /\ V!Max({a, b}) >= a /\ V!Max({a, b}) >= b
<1>1. \E x \in {a, b} : \A y \in {a, b} : x >= y
  <2>1. CASE a >= b
    BY <2>1
  <2>2. CASE b >= a
    BY <2>2
  <2> QED BY <2>1, <2>2
<1> QED BY <1>1 DEF V!Max

LEMMA MinOfTwo == ASSUME NEW a \in Int, NEW b \in Int
                  PROVE  V!Min({a, b}) \in Int
<1>1. \E x \in {a, b} : \A y \in {a, b} : x =< y
  <2>1. CASE a =< b
    BY <2>1
  <2>2. CASE b =< a
    BY <2>2
  <2> QED BY <2>1, <2>2
<1> QED BY <1>1 DEF V!Min

LEMMA FloorTyped ==
  ASSUME NEW r, PlanOk(r), NEW peak \in Int, NEW locked \in BOOLEAN, NEW start \in Int
  PROVE  LET f == V!FloorOf(r, peak, locked, start) IN f.floor \in Int /\ f.locked \in BOOLEAN
<1> DEFINE lock == V!LockLevel(r, start)
<1>1. lock \in Int
  BY DEF PlanOk, V!LockLevel
<1>2. r.dd \in Int
  BY DEF PlanOk
<1> DEFINE f == V!FloorOf(r, peak, locked, start)
<1>3. \/ f = [floor |-> 0, locked |-> locked]
      \/ f = [floor |-> start - r.dd, locked |-> TRUE]
      \/ f = [floor |-> lock, locked |-> TRUE]
      \/ f = [floor |-> peak - r.dd, locked |-> locked]
  BY DEF V!FloorOf
<1> HIDE DEF f, lock
<1>4. f.floor \in Int
  BY <1>1, <1>2, <1>3
<1>5. f.locked = locked \/ f.locked = TRUE
  BY <1>3
<1>6. f.locked \in BOOLEAN
  BY <1>5, Zenon
<1> QED BY <1>4, <1>6 DEF f

\* The floor of a peak does not change when it is taken again.
LEMMA FloorAgain ==
  ASSUME NEW r, NEW peak, NEW locked, NEW start
  PROVE  LET f == V!FloorOf(r, peak, locked, start) IN V!FloorOf(r, peak, f.locked, start) = f
BY DEF V!FloorOf, V!LockLevel

LEMMA PeakMoves ==
  ASSUME NEW ev, EvaluationOk(ev), NEW r, PlanOk(r), NEW high \in Int
  PROVE  LET t == V!WithPeak(ev, r, high) IN
         /\ EvaluationOk(t) /\ Same(ev, t) /\ t.peak = high
         /\ t.dayClose = ev.dayClose /\ t.status = ev.status
         /\ t.locked = V!FloorOf(r, high, ev.locked, ev.start).locked
         /\ t.floor = IF r.sizing # V!None THEN V!Max({ev.floor, V!FloorOf(r, high, ev.locked, ev.start).floor})
                      ELSE V!FloorOf(r, high, ev.locked, ev.start).floor
<1> DEFINE f == V!FloorOf(r, high, ev.locked, ev.start)
           t == V!WithPeak(ev, r, high)
<1>1. f.floor \in Int /\ f.locked \in BOOLEAN
  BY FloorTyped DEF EvaluationOk
<1>2. V!Max({ev.floor, f.floor}) \in Int
  BY <1>1, MaxOfTwo DEF EvaluationOk
<1> DEFINE up == IF r.sizing # V!None THEN V!Max({ev.floor, f.floor}) ELSE f.floor
<1>3. up \in Int
  BY <1>1, <1>2
<1>4. t = [ev EXCEPT !.peak = high, !.locked = f.locked, !.floor = up]
  BY DEF V!WithPeak
<1> HIDE DEF f, t, up
<1>5. /\ DOMAIN t = EvaluationFields /\ t.peak = high /\ t.locked = f.locked /\ t.floor = up
      /\ t.start = ev.start /\ t.dayOpen = ev.dayOpen /\ t.dayClose = ev.dayClose /\ t.dayHigh = ev.dayHigh
      /\ t.dayCloseBalance = ev.dayCloseBalance
      /\ t.attempt = ev.attempt /\ t.status = ev.status /\ t.day = ev.day
      /\ t.crossed = ev.crossed /\ t.payouts = ev.payouts
  BY <1>4 DEF EvaluationOk, EvaluationFields
<1>6. EvaluationOk(t) /\ Same(ev, t)
  BY <1>1, <1>3, <1>5 DEF EvaluationOk, Same, Beside
<1> QED BY <1>5, <1>6 DEF f, t, up

-----------------------------------------------------------------------------
(* What a transaction observes *)

LEMMA ClosingSees ==
  ASSUME NEW ev, EvaluationOk(ev), NEW r, NEW in, InputsOk(in)
  PROVE  LET t == V!Closing(ev, r, in) IN
         /\ EvaluationOk(t) /\ Same(ev, t) /\ t.status = ev.status
         /\ t.peak = ev.peak /\ t.floor = ev.floor /\ t.locked = ev.locked
         /\ t.dayClose = IF in.date # ev.day THEN ev.dayClose ELSE in.equity
<1> DEFINE t == V!Closing(ev, r, in)
           high == V!Max({ev.dayHigh, in.equity})
<1>0. in.equity \in Int /\ ev.dayHigh \in Int /\ in.balance \in Int
  BY DEF EvaluationOk, InputsOk
<1>1. in.equity \in Int /\ high \in Int /\ in.balance \in Int
  BY <1>0, MaxOfTwo
<1>2. CASE in.date # ev.day
  BY <1>2 DEF V!Closing, EvaluationOk, Same, Beside
<1>3. CASE in.date = ev.day
  <2>1. t = [ev EXCEPT !.dayClose = in.equity, !.dayHigh = high, !.dayCloseBalance = in.balance]
    BY <1>3 DEF V!Closing
  <2> HIDE DEF t, high
  <2>2. /\ DOMAIN t = EvaluationFields /\ t.peak = ev.peak /\ t.locked = ev.locked /\ t.floor = ev.floor
        /\ t.start = ev.start /\ t.dayOpen = ev.dayOpen /\ t.dayClose = in.equity /\ t.dayHigh = high
        /\ t.dayCloseBalance = in.balance
        /\ t.attempt = ev.attempt /\ t.status = ev.status /\ t.day = ev.day
        /\ t.crossed = ev.crossed /\ t.payouts = ev.payouts
    BY <2>1 DEF EvaluationOk, EvaluationFields
  <2>3. EvaluationOk(t) /\ Same(ev, t)
    BY <1>1, <2>2 DEF EvaluationOk, Same, Beside
  <2> QED BY <1>3, <2>2, <2>3 DEF t
<1> QED BY <1>2, <1>3

LEMMA RatchetRaises ==
  ASSUME NEW ev, EvaluationOk(ev), NEW r, PlanOk(r), NEW measured \in Int
  PROVE  LET t == V!Ratchet(ev, r, measured) IN
         /\ EvaluationOk(t) /\ Same(ev, t) /\ t.status = ev.status /\ t.dayClose = ev.dayClose
         /\ Raised(ev, r, t)
         /\ r.mode # "eod" => t.peak >= measured
         /\ r.mode = "eod" \/ measured =< ev.peak => t = ev
<1> DEFINE t == V!Ratchet(ev, r, measured)
<1>1. CASE r.mode # "eod" /\ measured > ev.peak
  <2>1. t = V!WithPeak(ev, r, measured)
    BY <1>1 DEF V!Ratchet
  <2> DEFINE p == V!WithPeak(ev, r, measured)
             f == V!FloorOf(r, measured, ev.locked, ev.start)
  <2>0. /\ EvaluationOk(p) /\ Same(ev, p) /\ p.peak = measured
        /\ p.dayClose = ev.dayClose /\ p.status = ev.status /\ p.locked = f.locked
        /\ p.floor = IF r.sizing # V!None THEN V!Max({ev.floor, f.floor}) ELSE f.floor
    BY PeakMoves
  <2> HIDE DEF t, p, f
  <2>2. Raised(ev, r, t)
    BY <1>1, <2>0, <2>1 DEF Raised, p, f
  <2>3. EvaluationOk(t) /\ Same(ev, t) /\ t.status = ev.status /\ t.dayClose = ev.dayClose /\ t.peak = measured
    BY <2>0, <2>1 DEF p
  <2> QED BY <1>1, <2>2, <2>3 DEF t, EvaluationOk
<1>2. CASE ~(r.mode # "eod" /\ measured > ev.peak)
  <2>1. t = ev
    BY <1>2 DEF V!Ratchet
  <2> HIDE DEF t
  <2>2. Raised(ev, r, t) /\ Same(ev, t)
    BY <2>1 DEF Raised, Same, Beside, EvaluationOk
  <2> QED BY <1>2, <2>1, <2>2 DEF t, EvaluationOk
<1> QED BY <1>1, <1>2

LEMMA DecisionKeeps ==
  ASSUME NEW ev, EvaluationOk(ev), NEW verdict, NEW in
  PROVE  LET t == V!Decide(ev, verdict, in) IN
         /\ EvaluationOk(t) /\ Same(ev, t) /\ t.status = verdict.status
         /\ t.peak = ev.peak /\ t.floor = ev.floor /\ t.locked = ev.locked /\ t.dayClose = ev.dayClose
<1> DEFINE t == V!Decide(ev, verdict, in)
<1>1. /\ DOMAIN t = EvaluationFields /\ t.peak = ev.peak /\ t.locked = ev.locked /\ t.floor = ev.floor
      /\ t.start = ev.start /\ t.dayOpen = ev.dayOpen /\ t.dayClose = ev.dayClose /\ t.dayHigh = ev.dayHigh
      /\ t.dayCloseBalance = ev.dayCloseBalance
      /\ t.attempt = ev.attempt /\ t.status = verdict.status /\ t.day = ev.day
      /\ t.crossed = ev.crossed /\ t.payouts = ev.payouts
  BY DEF V!Decide, EvaluationOk, EvaluationFields
<1> HIDE DEF t
<1>2. EvaluationOk(t) /\ Same(ev, t)
  BY <1>1 DEF EvaluationOk, Same, Beside
<1> QED BY <1>1, <1>2 DEF t

LEMMA LockKeeps ==
  ASSUME NEW ev, EvaluationOk(ev), NEW code
  PROVE  LET t == [ev EXCEPT !.lock = code] IN
         /\ EvaluationOk(t) /\ Same(ev, t) /\ t.status = ev.status
         /\ t.peak = ev.peak /\ t.floor = ev.floor /\ t.locked = ev.locked /\ t.dayClose = ev.dayClose
BY DEF EvaluationOk, EvaluationFields, Same, Beside

\* What is observed changes neither the day's opening nor the capital; it decides nothing once
\* the attempt is decided or a boundary was crossed; and the peak is as high as what it saw.
LEMMA ObservationKeeps ==
  ASSUME NEW ev, EvaluationOk(ev), NEW r, PlanOk(r), NEW in, InputsOk(in)
  PROVE  LET t == V!Observe(ev, r, in) IN
         /\ EvaluationOk(t) /\ Same(ev, t) /\ Raised(ev, r, t)
         /\ t.dayClose = IF in.date # ev.day THEN ev.dayClose ELSE in.equity
         /\ ev.status # "active" \/ ev.crossed => t.status = ev.status /\ t.peak = ev.peak /\ t.floor = ev.floor
         /\ r.mode = "eod" \/ V!Measured(r, in) =< ev.peak => t.peak = ev.peak /\ t.floor = ev.floor
         /\ t.status = "active" /\ ~ev.crossed /\ r.mode # "eod" => t.peak >= V!Measured(r, in)
<1> DEFINE seen == V!Closing(ev, r, in)
           measured == V!Measured(r, in)
           up == V!Ratchet(seen, r, measured)
           verdict == V!Verdict(up, r, in)
           t == V!Observe(ev, r, in)
<1>1. /\ EvaluationOk(seen) /\ Same(ev, seen) /\ seen.status = ev.status
      /\ seen.peak = ev.peak /\ seen.floor = ev.floor /\ seen.locked = ev.locked
      /\ seen.dayClose = IF in.date # ev.day THEN ev.dayClose ELSE in.equity
  BY ClosingSees
<1>2. measured \in Int
  BY DEF InputsOk, V!Measured
<1> HIDE DEF seen, measured
<1>3. /\ EvaluationOk(up) /\ Same(seen, up) /\ up.status = seen.status /\ up.dayClose = seen.dayClose
      /\ Raised(seen, r, up)
      /\ r.mode # "eod" => up.peak >= measured
      /\ r.mode = "eod" \/ measured =< seen.peak => up = seen
  BY <1>1, <1>2, RatchetRaises
<1>4. \/ t = seen /\ V!HeldBack(seen)
      \/ /\ ~V!HeldBack(seen)
         /\ \/ t = V!Decide(up, verdict, in) /\ verdict.status # "active"
            \/ t = [up EXCEPT !.lock = verdict.code]
            \/ t = V!Decide(up, V!Fail("open_loss"), in)
            \/ t = up
  BY DEF V!Observe, seen, measured
<1> HIDE DEF up, verdict, t
<1>5. CASE t = seen /\ V!HeldBack(seen)
  <2>1. Raised(ev, r, t)
    BY <1>1, <1>5 DEF Raised
  <2>2. ~(t.status = "active" /\ ~ev.crossed)
    BY <1>1, <1>5 DEF V!HeldBack, Same, Beside
  <2> QED BY <1>1, <1>5, <2>1, <2>2 DEF t, measured
<1>6. CASE ~V!HeldBack(seen)
  <2>1. /\ EvaluationOk(t) /\ Same(up, t) /\ t.peak = up.peak /\ t.floor = up.floor /\ t.locked = up.locked
        /\ t.dayClose = up.dayClose
    <3>1. CASE t = V!Decide(up, verdict, in)
      BY <1>3, <3>1, DecisionKeeps
    <3>2. CASE t = [up EXCEPT !.lock = verdict.code]
      BY <1>3, <3>2, LockKeeps
    <3>3. CASE t = V!Decide(up, V!Fail("open_loss"), in)
      BY <1>3, <3>3, DecisionKeeps
    <3>4. CASE t = up
      BY <1>3, <3>4 DEF Same, Beside, EvaluationOk
    <3> QED BY <1>4, <1>6, <3>1, <3>2, <3>3, <3>4
  <2>2. Same(ev, t)
    BY <1>1, <1>3, <2>1 DEF Same, Beside
  <2>3. Raised(ev, r, t)
    BY <1>1, <1>3, <2>1 DEF Raised, Same
  <2>4. ~(ev.status # "active" \/ ev.crossed)
    BY <1>1, <1>6 DEF V!HeldBack, Same, Beside
  <2>5. r.mode = "eod" \/ measured =< ev.peak => t.peak = ev.peak /\ t.floor = ev.floor
    BY <1>1, <1>3, <2>1
  <2>6. t.dayClose = IF in.date # ev.day THEN ev.dayClose ELSE in.equity
    BY <1>1, <1>3, <2>1
  <2> QED BY <1>3, <2>1, <2>2, <2>3, <2>4, <2>5, <2>6 DEF t, measured
<1> QED BY <1>4, <1>5, <1>6

-----------------------------------------------------------------------------
(* The end of a transaction *)

\* An active attempt that is fully marked never stands above its peak.
PeakCovers ==
  marked /\ e.status = "active" /\ ~e.crossed /\ rules.mode # "eod" /\ rules.basis = "equity" =>
    balance + open =< e.peak

LEMMA Settling ==
  ASSUME NEW ev, EvaluationOk(ev), NEW r, PlanOk(r), NEW in, InputsOk(in), NEW m, NEW pnl \in Int,
         V!Settle(ev, r, in, m, pnl)
  PROVE  /\ AccountOk' /\ rules' = r /\ Same(ev, e') /\ Raised(ev, r, e')
         /\ in.equity - ev.dayOpen = pnl => balance' + open' - e'.dayOpen = dayPnl'
         /\ ev.status # "active" \/ ev.crossed => e'.status = ev.status /\ e'.peak = ev.peak /\ e'.floor = ev.floor
         /\ r.mode = "eod" \/ V!Measured(r, in) =< ev.peak => e'.peak = ev.peak /\ e'.floor = ev.floor
         /\ PeakCovers'
<1> DEFINE seen == IF m THEN V!Observe(ev, r, in) ELSE ev
           measured == V!Measured(r, in)
<1>1. /\ EvaluationOk(seen) /\ Same(ev, seen) /\ Raised(ev, r, seen)
      /\ ev.status # "active" \/ ev.crossed => seen.status = ev.status /\ seen.peak = ev.peak /\ seen.floor = ev.floor
      /\ r.mode = "eod" \/ measured =< ev.peak => seen.peak = ev.peak /\ seen.floor = ev.floor
      /\ m /\ seen.status = "active" /\ ~ev.crossed /\ r.mode # "eod" => seen.peak >= measured
  <2>1. CASE m
    <3> DEFINE t == V!Observe(ev, r, in)
    <3>1. /\ EvaluationOk(t) /\ Same(ev, t) /\ Raised(ev, r, t)
          /\ ev.status # "active" \/ ev.crossed => t.status = ev.status /\ t.peak = ev.peak /\ t.floor = ev.floor
          /\ r.mode = "eod" \/ measured =< ev.peak => t.peak = ev.peak /\ t.floor = ev.floor
          /\ t.status = "active" /\ ~ev.crossed /\ r.mode # "eod" => t.peak >= measured
      BY ObservationKeeps
    <3>2. seen = t
      BY <2>1
    <3> QED BY <3>1, <3>2
  <2>2. CASE ~m
    <3>1. Same(ev, ev) /\ Raised(ev, r, ev)
      BY DEF Same, Beside, Raised, EvaluationOk
    <3>2. seen = ev
      BY <2>2
    <3> QED BY <2>2, <3>1, <3>2
  <2> QED BY <2>1, <2>2
<1>2. e' = seen /\ rules' = r /\ marked' = m
  BY DEF V!Settle
<1>3. \/ /\ open' = in.open /\ dayPnl' = pnl /\ balance' = in.balance /\ realised' = in.realised
      \/ \E c \in Costs : /\ open' = 0 /\ dayPnl' = pnl - c /\ balance' = in.equity - c
                         /\ realised' = in.realised + in.open - c
  BY Zenon DEF V!Settle
<1> HIDE DEF seen
<1>4. PICK c \in Nat : \/ /\ open' = in.open /\ dayPnl' = pnl /\ balance' = in.balance /\ realised' = in.realised
                       \/ /\ open' = 0 /\ dayPnl' = pnl - c /\ balance' = in.equity - c
                          /\ realised' = in.realised + in.open - c
  BY <1>3, EvaluationAssumption DEF EvaluationAssumption
<1>5. in.equity \in Int /\ in.balance \in Int /\ in.open \in Int /\ in.realised \in Int
      /\ in.equity = in.balance + in.open
  BY DEF InputsOk
<1>6. balance' \in Int /\ open' \in Int /\ realised' \in Int /\ dayPnl' \in Int /\ balance' + open' =< in.equity
  BY <1>4, <1>5
<1>7. AccountOk'
  BY <1>1, <1>2, <1>6 DEF AccountOk
<1>8. seen.dayOpen = ev.dayOpen /\ ev.dayOpen \in Int /\ seen.crossed = ev.crossed /\ seen.peak \in Int
  BY <1>1 DEF Same, Beside, EvaluationOk
<1>9. in.equity - ev.dayOpen = pnl => balance' + open' - e'.dayOpen = dayPnl'
  BY <1>2, <1>4, <1>5, <1>8
<1>10. PeakCovers'
  <2>1. r.basis = "equity" => measured = in.equity
    BY DEF V!Measured
  <2> HIDE DEF measured
  <2> QED BY <1>1, <1>2, <1>5, <1>6, <1>8, <2>1 DEF PeakCovers
<1> QED BY <1>1, <1>2, <1>7, <1>9, <1>10

-----------------------------------------------------------------------------
(* The floor of an attempt *)

\* The floor is the one of the peak, and the capital of a plan with a floor is its own, unless
\* account size reviews scale them.
Follows(ev, r) ==
  r.sizing = V!None =>
    /\ ev.floor = V!FloorOf(r, ev.peak, ev.locked, ev.start).floor
    /\ ev.locked = V!FloorOf(r, ev.peak, ev.locked, ev.start).locked
    /\ r.dd # V!None => ev.start > 0

LEMMA RaisedFollows ==
  ASSUME NEW ev, EvaluationOk(ev), NEW r, PlanOk(r), NEW t, Follows(ev, r), Raised(ev, r, t), t.start = ev.start
  PROVE  Follows(t, r) /\ t.floor >= ev.floor
<1>1. CASE t.peak = ev.peak /\ t.floor = ev.floor /\ t.locked = ev.locked
  BY <1>1 DEF Follows, EvaluationOk
<1>2. CASE ~(t.peak = ev.peak /\ t.floor = ev.floor /\ t.locked = ev.locked)
  <2> DEFINE f == V!FloorOf(r, t.peak, ev.locked, ev.start)
             g == V!FloorOf(r, ev.peak, ev.locked, ev.start)
  <2>1. /\ t.peak \in Int /\ t.peak > ev.peak /\ t.locked = f.locked
        /\ t.floor = IF r.sizing # V!None THEN V!Max({ev.floor, f.floor}) ELSE f.floor
    BY <1>2 DEF Raised
  <2>2. f.floor \in Int /\ ev.floor \in Int /\ ev.peak \in Int
    BY <2>1, FloorTyped DEF EvaluationOk
  <2>3. CASE r.sizing # V!None
    <3>1. V!Max({ev.floor, f.floor}) >= ev.floor
      BY <2>2, MaxOfTwo
    <3> QED BY <2>1, <2>3, <3>1 DEF Follows
  <2>4. CASE r.sizing = V!None
    <3>1. t.floor = f.floor /\ ev.floor = g.floor /\ ev.locked = g.locked
      BY <2>1, <2>4 DEF Follows
    <3>2. V!FloorOf(r, t.peak, f.locked, ev.start) = f
      BY FloorAgain
    <3>3. Follows(t, r)
      BY <2>1, <2>4, <3>1, <3>2 DEF Follows
    <3>4. f.floor >= g.floor
      <4> DEFINE lock == V!LockLevel(r, ev.start)
      <4>1. lock \in Int /\ r.dd \in Int
        BY DEF EvaluationOk, PlanOk, V!LockLevel
      <4> HIDE DEF lock
      <4>2. CASE r.dd = V!None
        BY <4>2 DEF V!FloorOf
      <4>3. CASE r.dd # V!None /\ r.mode = "static"
        BY <4>1, <4>3 DEF V!FloorOf, EvaluationOk
      <4>4. CASE r.dd # V!None /\ r.mode # "static" /\ lock > 0
        <5>1. CASE ev.locked \/ ev.peak - r.dd >= lock
          BY <2>1, <2>2, <4>1, <4>4, <5>1 DEF V!FloorOf, lock
        <5>2. CASE ~(ev.locked \/ ev.peak - r.dd >= lock)
          BY <2>1, <2>2, <4>1, <4>4, <5>2 DEF V!FloorOf, lock
        <5> QED BY <5>1, <5>2
      <4>5. CASE r.dd # V!None /\ r.mode # "static" /\ ~(lock > 0)
        BY <2>1, <2>2, <4>1, <4>5 DEF V!FloorOf, lock
      <4> QED BY <4>2, <4>3, <4>4, <4>5
    <3> HIDE DEF f, g
    <3> QED BY <2>2, <3>1, <3>3, <3>4
  <2> QED BY <2>3, <2>4
<1> QED BY <1>1, <1>2

-----------------------------------------------------------------------------
(* Transactions that leave the plan's baselines where they are *)

PlanInv ==
  /\ AccountOk /\ PeakCovers
  /\ balance + open - e.dayOpen = dayPnl
  /\ e.crossed => e.status # "passed"
  /\ LocksAtStart => Follows(e, rules)

\* What FloorStands says of a step.
FloorKept ==
  /\ LocksAtStart => ((e'.attempt = e.attempt /\ e'.floor < e.floor) =>
       Len(e'.payouts) > Len(e.payouts) /\ (~e.locked \/ rules.after = "reset"))
  /\ V!ShownFloor => e'.floor = V!TomorrowFloor(e, rules, V!Equity)

Untouched(ev, t) ==
  /\ EvaluationOk(t) /\ t.attempt = ev.attempt /\ t.payouts = ev.payouts /\ t.start = ev.start
  /\ t.dayOpen = ev.dayOpen /\ t.day = ev.day /\ t.peak = ev.peak /\ t.floor = ev.floor /\ t.locked = ev.locked

\* A transaction that ends in a sound evaluation leaves a sound account.
LEMMA SoundEnd ==
  ASSUME NEW ev, EvaluationOk(ev), NEW r, PlanOk(r), NEW in, InputsOk(in), NEW m, NEW pnl \in Int,
         V!Settle(ev, r, in, m, pnl), in.equity - ev.dayOpen = pnl, ev.crossed => ev.status # "passed",
         LocksAtStart => Follows(ev, r)
  PROVE  /\ PlanInv' /\ Same(ev, e') /\ rules' = r
         /\ LocksAtStart => e'.floor >= ev.floor
<1>1. /\ AccountOk' /\ rules' = r /\ Same(ev, e') /\ Raised(ev, r, e')
      /\ in.equity - ev.dayOpen = pnl => balance' + open' - e'.dayOpen = dayPnl'
      /\ ev.status # "active" \/ ev.crossed => e'.status = ev.status /\ e'.peak = ev.peak /\ e'.floor = ev.floor
      /\ PeakCovers'
  BY Settling
<1>2. (balance + open - e.dayOpen = dayPnl)'
  BY <1>1
<1>3. (e.crossed => e.status # "passed")'
  BY <1>1 DEF Same, Beside
<1>4. ASSUME LocksAtStart PROVE Follows(e', rules') /\ e'.floor >= ev.floor
  BY <1>1, <1>4, RaisedFollows DEF Same
<1>5. PlanInv'
  BY <1>1, <1>2, <1>3, <1>4 DEF PlanInv, LocksAtStart
<1> QED BY <1>1, <1>4, <1>5

LEMMA PlainStep ==
  ASSUME PlanInv, NEW ev, Untouched(e, ev), ev.crossed => ev.status # "passed",
         NEW in, InputsOk(in), NEW m, NEW pnl \in Int, in.equity - e.dayOpen = pnl,
         V!Settle(ev, rules, in, m, pnl)
  PROVE  PlanInv' /\ FloorKept
<1>1. EvaluationOk(ev) /\ PlanOk(rules) /\ e.floor \in Int
  BY DEF PlanInv, AccountOk, Untouched, EvaluationOk
<1>2. LocksAtStart => Follows(ev, rules)
  BY DEF PlanInv, Untouched, Follows
<1>3. in.equity - ev.dayOpen = pnl
  BY DEF Untouched
<1>4. PlanInv' /\ Same(ev, e') /\ (LocksAtStart => e'.floor >= ev.floor)
  BY <1>1, <1>2, <1>3, SoundEnd
<1>5. e'.day = e.day /\ ev.floor = e.floor
  BY <1>4 DEF Same, Untouched
<1>6. e'.floor \in Int
  BY <1>4 DEF PlanInv, AccountOk, EvaluationOk
<1> QED BY <1>1, <1>4, <1>5, <1>6 DEF FloorKept, V!ShownFloor

LEMMA NowOk ==
  ASSUME AccountOk
  PROVE  /\ InputsOk(V!Now) /\ V!Now.equity = balance + open /\ V!Now.balance = balance /\ V!Now.open = open
         /\ V!Now.realised = realised
BY DEF AccountOk, InputsOk, V!Now, V!Inputs

LEMMA InputsTyped ==
  ASSUME NEW bal \in Int, NEW opn \in Int, NEW flat, NEW real \in Int, NEW date
  PROVE  InputsOk(V!Inputs(bal, opn, flat, real, date)) /\ V!Inputs(bal, opn, flat, real, date).equity = bal + opn
BY DEF InputsOk, V!Inputs

LEMMA PastDateKeeps ==
  ASSUME NEW ev, EvaluationOk(ev), NEW r, NEW in, NEW changed
  PROVE  LET t == V!PastDate(ev, r, in, changed) IN
         /\ Untouched(ev, t) /\ t.crossed = ev.crossed
         /\ ev.status # "active" => t.status = ev.status
         /\ ev.status = "active" => (t = ev /\ ~ev.crossed) \/ t.status = "failed"
<1> DEFINE t == V!PastDate(ev, r, in, changed)
<1>1. \/ t = ev /\ (ev.status = "active" => ~ev.crossed)
      \/ ev.status = "active" /\ \E code \in {"overnight", "boundary", "time"} : t = V!Decide(ev, V!Fail(code), in)
  BY DEF V!PastDate, V!TimeIsUp
<1> HIDE DEF t
<1>2. CASE t = ev /\ (ev.status = "active" => ~ev.crossed)
  BY <1>2 DEF t, Untouched
<1>3. ASSUME ev.status = "active", NEW code, t = V!Decide(ev, V!Fail(code), in)
      PROVE  Untouched(ev, t) /\ t.crossed = ev.crossed /\ t.status = "failed"
  <2> DEFINE d == V!Decide(ev, V!Fail(code), in)
  <2>1. /\ EvaluationOk(d) /\ Same(ev, d) /\ d.status = V!Fail(code).status
        /\ d.peak = ev.peak /\ d.floor = ev.floor /\ d.locked = ev.locked
    BY DecisionKeeps
  <2>2. V!Fail(code).status = "failed"
    BY DEF V!Fail
  <2> HIDE DEF d
  <2>3. t = d
    BY <1>3 DEF d
  <2> QED BY <2>1, <2>2, <2>3 DEF Untouched, Same, Beside
<1> QED BY <1>1, <1>2, <1>3 DEF t

LEMMA PlainSteps ==
  ASSUME PlanInv,
         \/ V!Open \/ V!GoStale \/ V!Close \/ V!CrossBoundary
         \/ \E gap \in 1 .. 2 : V!NextDate(gap)
         \/ \E d \in Moves : V!Mark(d)
  PROVE  PlanInv' /\ FloorKept
<1>1. /\ EvaluationOk(e) /\ PlanOk(rules) /\ balance \in Int /\ open \in Int /\ realised \in Int /\ dayPnl \in Int
      /\ e.dayOpen \in Int /\ balance + open - e.dayOpen = dayPnl /\ (e.crossed => e.status # "passed")
  BY DEF PlanInv, AccountOk, EvaluationOk
<1>2. Untouched(e, e)
  BY <1>1 DEF Untouched
<1>3. /\ InputsOk(V!Now) /\ V!Now.equity = balance + open /\ V!Now.balance = balance /\ V!Now.open = open
      /\ V!Now.realised = realised
  BY NowOk DEF PlanInv
<1>4. CASE V!Open
  <2> DEFINE ev == [e EXCEPT !.dayExecutions = @ + 1]
             in == [V!Now EXCEPT !.flat = FALSE]
  <2>1. V!Settle(ev, rules, in, TRUE, dayPnl)
    BY <1>4 DEF V!Open
  <2>2. Untouched(e, ev) /\ ev.crossed = e.crossed /\ ev.status = e.status
    BY <1>1 DEF Untouched, EvaluationOk, EvaluationFields
  <2>3. InputsOk(in) /\ in.equity = balance + open
    BY <1>3 DEF InputsOk
  <2> HIDE DEF ev, in
  <2>4. in.equity - e.dayOpen = dayPnl /\ (ev.crossed => ev.status # "passed")
    BY <1>1, <2>2, <2>3
  <2> QED BY <1>1, <2>1, <2>2, <2>3, <2>4, PlainStep
<1>5. CASE V!GoStale
  <2>1. V!Settle(e, rules, V!Now, FALSE, dayPnl)
    BY <1>5 DEF V!GoStale
  <2>2. V!Now.equity - e.dayOpen = dayPnl
    BY <1>1, <1>3
  <2> QED BY <2>2, <1>1, <1>2, <1>3, <2>1, PlainStep
<1>6. CASE V!Close
  <2> DEFINE ev == [e EXCEPT !.dayExecutions = @ + 1]
             in == V!Inputs(balance + open, 0, TRUE, realised + open, today)
  <2>1. V!Settle(ev, rules, in, TRUE, dayPnl)
    BY <1>6 DEF V!Close
  <2>2. Untouched(e, ev) /\ ev.crossed = e.crossed /\ ev.status = e.status
    BY <1>1 DEF Untouched, EvaluationOk, EvaluationFields
  <2>3. InputsOk(in) /\ in.equity = balance + open
    BY <1>1 DEF InputsOk, V!Inputs
  <2> HIDE DEF ev, in
  <2>4. in.equity - e.dayOpen = dayPnl /\ (ev.crossed => ev.status # "passed")
    BY <1>1, <2>2, <2>3
  <2> QED BY <1>1, <2>1, <2>2, <2>3, <2>4, PlainStep
<1>7. CASE V!CrossBoundary
  <2> DEFINE ev == [e EXCEPT !.crossed = TRUE]
  <2>1. V!Settle(ev, rules, V!Now, marked, dayPnl) /\ e.status = "active"
    BY <1>7 DEF V!CrossBoundary
  <2>2. Untouched(e, ev) /\ ev.status = e.status
    BY <1>1 DEF Untouched, EvaluationOk, EvaluationFields
  <2> HIDE DEF ev
  <2> QED BY <1>1, <1>3, <2>1, <2>2, PlainStep
<1>8. ASSUME NEW gap \in 1 .. 2, V!NextDate(gap) PROVE PlanInv' /\ FloorKept
  <2> DEFINE in == [V!Now EXCEPT !.date = today + gap]
             ev == V!PastDate(e, rules, in, TRUE)
  <2>1. V!Settle(ev, rules, in, marked, dayPnl)
    BY <1>8 DEF V!NextDate
  <2>2. InputsOk(in) /\ in.equity = balance + open
    BY <1>3 DEF InputsOk
  <2>3. /\ Untouched(e, ev) /\ ev.crossed = e.crossed
        /\ e.status # "active" => ev.status = e.status
        /\ e.status = "active" => (ev = e /\ ~e.crossed) \/ ev.status = "failed"
    BY <1>1, PastDateKeeps
  <2> HIDE DEF ev, in
  <2>4. in.equity - e.dayOpen = dayPnl /\ (ev.crossed => ev.status # "passed")
    BY <1>1, <2>2, <2>3
  <2> QED BY <1>1, <2>1, <2>2, <2>3, <2>4, PlainStep
<1>9. ASSUME NEW d \in Moves, V!Mark(d) PROVE PlanInv' /\ FloorKept
  <2> DEFINE in == [V!Now EXCEPT !.open = open + d, !.equity = balance + open + d]
  <2>1. V!Settle(e, rules, in, TRUE, dayPnl + d)
    BY <1>9 DEF V!Mark
  <2>2. d \in Int
    BY EvaluationAssumption DEF EvaluationAssumption
  <2>3. InputsOk(in) /\ in.equity = balance + open + d
    BY <1>1, <1>3, <2>2 DEF InputsOk
  <2> HIDE DEF in
  <2> DEFINE opening == e.dayOpen
             equity == in.equity
  <2>4. opening \in Int /\ equity = balance + open + d /\ balance + open - opening = dayPnl
    BY <1>1, <2>3
  <2> HIDE DEF opening, equity
  <2>5. dayPnl + d \in Int /\ equity - opening = dayPnl + d
    BY <1>1, <2>2, <2>4
  <2> QED BY <1>1, <1>2, <2>1, <2>3, <2>5, PlainStep DEF opening, equity
<1> QED BY <1>4, <1>5, <1>6, <1>7, <1>8, <1>9
-----------------------------------------------------------------------------
(* An attempt's start *)

LEMMA FreshOk ==
  ASSUME NEW r, PlanOk(r), NEW date, NEW n \in Int
  PROVE  LET t == V!Fresh(r, date, n) IN
         /\ EvaluationOk(t) /\ Follows(t, r) /\ t.dayOpen = StartBalance /\ t.peak = StartBalance
         /\ t.attempt = n /\ ~t.crossed
<1> DEFINE f == V!FloorOf(r, StartBalance, FALSE, StartBalance)
           t == V!Fresh(r, date, n)
<1>0. StartBalance \in Int /\ StartBalance > 0 /\ FALSE \in BOOLEAN
  BY EvaluationAssumption DEF EvaluationAssumption
<1>1. f.floor \in Int /\ f.locked \in BOOLEAN
  BY <1>0, FloorTyped
<1>2. V!FloorOf(r, StartBalance, f.locked, StartBalance) = f
  BY FloorAgain
<1>3. <<>> \in Seq(Int)
  OBVIOUS
<1>4. /\ DOMAIN t = EvaluationFields /\ t.start = StartBalance /\ t.peak = StartBalance /\ t.dayOpen = StartBalance
      /\ t.dayClose = StartBalance /\ t.dayCloseBalance = StartBalance /\ t.dayHigh = StartBalance /\ t.attempt = n /\ t.payouts = <<>>
      /\ t.floor = f.floor /\ t.locked = f.locked /\ t.crossed = FALSE
  BY DEF V!Fresh, EvaluationFields
<1> HIDE DEF f, t
<1>5. EvaluationOk(t)
  BY <1>0, <1>1, <1>3, <1>4 DEF EvaluationOk
<1>6. Follows(t, r)
  BY <1>0, <1>2, <1>4 DEF Follows
<1> QED BY <1>4, <1>5, <1>6 DEF t

LEMMA PlansOk == ASSUME NEW r \in Plans PROVE PlanOk(r)
<1>1. V!Valid(r)
  BY EvaluationAssumption DEF EvaluationAssumption
<1>2. r \in V!AccountRules
  BY <1>1 DEF V!Valid
<1>3. DOMAIN r = PlanFields
  BY <1>2 DEF V!AccountRules, PlanFields
<1>4. /\ r.dd \in Nat /\ r.lockAt \in Nat /\ r.resetPercent \in Nat /\ r.increase \in Nat /\ r.maxSize \in Nat
      /\ r.original \in Nat \ {0} /\ r.originalDd \in Nat /\ r.originalDaily \in Nat /\ r.originalLock \in Nat
  BY <1>2 DEF V!AccountRules
<1>5. /\ r.originalDd = r.dd /\ r.originalLock = r.lockAt
      /\ (r.after # "keep" => r.funded /\ r.dd > 0) /\ (r.after = "start" => r.mode # "static")
      /\ (r.sizing # V!None => r.funded)
  BY <1>1 DEF V!Valid
<1>6. LocksAtStart => (r.after = "start" => r.lockStart)
  BY DEF LocksAtStart
<1> QED BY <1>3, <1>4, <1>5, <1>6 DEF PlanOk

LEMMA OriginalOk == ASSUME NEW r, PlanOk(r) PROVE PlanOk(V!Original(r))
<1> DEFINE t == V!Original(r)
<1>1. /\ DOMAIN t = PlanFields /\ t.dd = r.originalDd /\ t.lockAt = r.originalLock
      /\ t.resetPercent = r.resetPercent /\ t.increase = r.increase /\ t.maxSize = r.maxSize
      /\ t.original = r.original /\ t.originalDd = r.originalDd /\ t.originalDaily = r.originalDaily
      /\ t.originalLock = r.originalLock /\ t.sizing = r.sizing /\ t.after = r.after /\ t.funded = r.funded
      /\ t.mode = r.mode /\ t.lockStart = r.lockStart
  BY DEF V!Original, PlanOk, PlanFields
<1> HIDE DEF t
<1> QED BY <1>1 DEF PlanOk, t

LEMMA PlanStarts == ASSUME V!Init PROVE PlanInv
<1>1. rules \in Plans /\ balance = StartBalance /\ realised = 0 /\ open = 0 /\ dayPnl = 0 /\ e = V!Fresh(rules, 1, 1)
  BY DEF V!Init
<1>2. PlanOk(rules)
  BY <1>1, PlansOk
<1> DEFINE t == V!Fresh(rules, 1, 1)
<1>3. EvaluationOk(t) /\ Follows(t, rules) /\ t.dayOpen = StartBalance /\ t.peak = StartBalance /\ ~t.crossed
  BY <1>2, FreshOk
<1>4. StartBalance \in Int
  BY EvaluationAssumption DEF EvaluationAssumption
<1> HIDE DEF t
<1>5. e = t
  BY <1>1 DEF t
<1>6. AccountOk
  BY <1>1, <1>2, <1>3, <1>4, <1>5 DEF AccountOk
<1>7. PeakCovers /\ balance + open - e.dayOpen = dayPnl
  BY <1>1, <1>3, <1>4, <1>5 DEF PeakCovers
<1> QED BY <1>3, <1>5, <1>6, <1>7 DEF PlanInv

LEMMA ResetStep == ASSUME PlanInv, V!Reset PROVE PlanInv' /\ FloorKept
<1> DEFINE r == V!Original(rules)
           n == e.attempt + 1
           t == V!Fresh(r, today, n)
           in == V!Inputs(StartBalance, 0, TRUE, 0, today)
<1>0. V!Settle(t, r, in, TRUE, 0)
  BY DEF V!Reset
<1>1. PlanOk(r) /\ n \in Int /\ e.attempt \in Int
  BY OriginalOk DEF PlanInv, AccountOk, EvaluationOk
<1> HIDE DEF r
<1>2. n # e.attempt
  BY <1>1
<1> HIDE DEF n
<1>3. /\ EvaluationOk(t) /\ Follows(t, r) /\ t.dayOpen = StartBalance /\ t.attempt = n /\ ~t.crossed
  BY <1>1, FreshOk
<1>4. StartBalance \in Int
  BY EvaluationAssumption DEF EvaluationAssumption
<1>5. InputsOk(in) /\ in.equity = StartBalance
  BY <1>4 DEF InputsOk, V!Inputs
<1> HIDE DEF t, in
<1>6. in.equity - t.dayOpen = 0 /\ 0 \in Int
  BY <1>3, <1>4, <1>5
<1>7. PlanInv' /\ Same(t, e')
  BY <1>0, <1>1, <1>3, <1>5, <1>6, SoundEnd
<1>8. e'.attempt # e.attempt
  BY <1>2, <1>3, <1>7 DEF Same, Beside
<1> QED BY <1>7, <1>8 DEF FloorKept, V!ShownFloor

-----------------------------------------------------------------------------
(* Money in and out *)

LEMMA TransferStep == ASSUME PlanInv, NEW a \in Int, V!Transfer(a) PROVE PlanInv' /\ FloorKept
<1> DEFINE t == V!Transferred(e, a)
           in == [V!Now EXCEPT !.balance = @ + a, !.equity = @ + a]
<1>1. V!Practice(rules) /\ V!Settle(t, rules, in, marked, dayPnl)
  BY DEF V!Transfer
<1>2. /\ EvaluationOk(e) /\ PlanOk(rules) /\ balance \in Int /\ open \in Int /\ dayPnl \in Int
      /\ balance + open - e.dayOpen = dayPnl /\ (e.crossed => e.status # "passed")
      /\ (LocksAtStart => Follows(e, rules))
  BY DEF PlanInv, AccountOk
<1>3. /\ DOMAIN t = EvaluationFields /\ t.start = e.start + a /\ t.dayOpen = e.dayOpen + a
      /\ t.dayClose = e.dayClose + a /\ t.dayCloseBalance = e.dayCloseBalance /\ t.peak = e.peak + a /\ t.dayHigh = e.dayHigh + a
      /\ t.floor = e.floor /\ t.locked = e.locked /\ t.attempt = e.attempt /\ t.payouts = e.payouts
      /\ t.status = e.status /\ t.crossed = e.crossed /\ t.day = e.day
  BY <1>2 DEF V!Transferred, EvaluationOk, EvaluationFields
<1>4. /\ InputsOk(V!Now) /\ V!Now.equity = balance + open /\ V!Now.balance = balance /\ V!Now.open = open
  BY NowOk DEF PlanInv
<1>5. InputsOk(in) /\ in.equity = balance + open + a
  BY <1>2, <1>4 DEF InputsOk
<1> HIDE DEF t, in
<1>6. EvaluationOk(t)
  <2>1. /\ e.start \in Int /\ e.peak \in Int /\ e.floor \in Int /\ e.locked \in BOOLEAN /\ e.dayOpen \in Int
        /\ e.dayClose \in Int /\ e.dayCloseBalance \in Int /\ e.dayHigh \in Int /\ e.attempt \in Int /\ e.payouts \in Seq(Int)
    BY <1>2 DEF EvaluationOk
  <2>2. \A x \in Int : x + a \in Int
    OBVIOUS
  <2>3. /\ e.start + a \in Int /\ e.peak + a \in Int /\ e.dayOpen + a \in Int /\ e.dayClose + a \in Int
        /\ e.dayHigh + a \in Int
    BY <2>1, <2>2
  <2> QED BY <1>3, <2>1, <2>3, Zenon DEF EvaluationOk
<1> DEFINE opening == e.dayOpen
           equity == in.equity
           moved == t.dayOpen
<1>7. opening \in Int /\ equity = balance + open + a /\ moved = opening + a /\ balance + open - opening = dayPnl
  BY <1>2, <1>3, <1>5 DEF EvaluationOk
<1> HIDE DEF opening, equity, moved
<1>8. equity - moved = dayPnl
  BY <1>2, <1>7
<1>9. rules.sizing = V!None /\ rules.dd = V!None
  <2>1. ~(rules.dd > 0) /\ ~rules.funded
    BY <1>1 DEF V!Practice, V!IsEvaluation
  <2> QED BY <1>2, <2>1 DEF PlanOk, V!None
<1>10. LocksAtStart => Follows(t, rules)
  BY <1>2, <1>3, <1>9 DEF Follows, V!FloorOf
<1>11. in.equity - t.dayOpen = dayPnl /\ (t.crossed => t.status # "passed")
  BY <1>2, <1>3, <1>8 DEF equity, moved
<1>12. PlanInv' /\ Same(t, e') /\ (LocksAtStart => e'.floor >= t.floor)
  BY <1>1, <1>2, <1>5, <1>6, <1>10, <1>11, SoundEnd
<1>13. e'.floor \in Int /\ e.floor \in Int /\ e'.day = e.day
  BY <1>2, <1>3, <1>12 DEF PlanInv, AccountOk, EvaluationOk, Same
<1> QED BY <1>3, <1>12, <1>13 DEF FloorKept, V!ShownFloor

\* What a payout takes leaves the day's opening with it; the floor is the one of the new peak.
LEMMA PayoutKeeps ==
  ASSUME NEW ev, EvaluationOk(ev), NEW r, PlanOk(r), NEW amount \in Int, NEW out \in Int
  PROVE  LET t == V!AfterPayout(ev, r, amount, out) IN
         /\ EvaluationOk(t) /\ t.start = ev.start /\ t.dayOpen = ev.dayOpen - out /\ t.day = ev.day
         /\ t.attempt = ev.attempt /\ t.crossed = ev.crossed /\ t.status = ev.status
         /\ Len(t.payouts) > Len(ev.payouts)
         /\ ev.locked /\ r.after # "reset" => t.floor >= ev.floor
         /\ LocksAtStart /\ Follows(ev, r) => Follows(t, r)
<1> DEFINE back == V!ResetBalance(ev, r)
           base == V!FloorOf(r, back, FALSE, ev.start)
           down == V!FloorOf(r, ev.peak - out, FALSE, ev.start)
           moved == [V!Moved(ev, out) EXCEPT !.payouts = Append(@, amount), !.qualifying = 0]
           low == IF r.sizing # V!None THEN V!Max({ev.floor - out, down.floor}) ELSE down.floor
           kept == CASE r.after = "reset" -> [moved EXCEPT !.peak = back, !.floor = base.floor,
                                                           !.locked = base.locked]
                     [] r.after # "reset" /\ ~ev.locked ->
                          [moved EXCEPT !.peak = ev.peak - out, !.locked = down.locked, !.floor = low]
                     [] OTHER -> moved
           t == V!AfterPayout(ev, r, amount, out)
<1>1. /\ ev.start \in Int /\ ev.peak \in Int /\ ev.floor \in Int /\ ev.locked \in BOOLEAN /\ ev.dayOpen \in Int
      /\ ev.dayClose \in Int /\ ev.dayHigh \in Int /\ ev.attempt \in Int /\ ev.payouts \in Seq(Int)
      /\ ev.dayCloseBalance \in Int /\ DOMAIN ev = EvaluationFields
  BY DEF EvaluationOk
<1>2. back \in Int /\ ev.peak - out \in Int /\ ev.floor - out \in Int
  <2>1. back \in Int
    <3>1. ev.start \in Int /\ r.resetPercent \in Int
      BY <1>1 DEF PlanOk
    <3> QED BY <3>1 DEF V!ResetBalance, V!Percent
  <2>2. \A x \in Int : x - out \in Int
    OBVIOUS
  <2> HIDE DEF back
  <2> QED BY <1>1, <2>1, <2>2
<1>3. FALSE \in BOOLEAN
  OBVIOUS
<1>4. base.floor \in Int /\ base.locked \in BOOLEAN
  BY <1>1, <1>2, <1>3, FloorTyped
<1>5. down.floor \in Int /\ down.locked \in BOOLEAN
  BY <1>1, <1>2, <1>3, FloorTyped
<1>6. V!FloorOf(r, back, base.locked, ev.start) = base
  BY FloorAgain
<1>7. V!FloorOf(r, ev.peak - out, down.locked, ev.start) = down
  BY FloorAgain
<1>8. V!Max({ev.floor - out, down.floor}) \in Int
  BY <1>2, <1>5, MaxOfTwo
<1>9. low \in Int /\ (r.sizing = V!None => low = down.floor)
  BY <1>5, <1>8
<1>10. /\ DOMAIN moved = EvaluationFields /\ moved.start = ev.start /\ moved.peak = ev.peak
       /\ moved.floor = ev.floor /\ moved.locked = ev.locked /\ moved.dayOpen = ev.dayOpen - out
       /\ moved.dayClose = ev.dayClose - out /\ moved.dayCloseBalance = ev.dayCloseBalance - out /\ moved.dayHigh = ev.dayHigh - out /\ moved.attempt = ev.attempt
       /\ moved.payouts = Append(ev.payouts, amount) /\ moved.day = ev.day
       /\ moved.crossed = ev.crossed /\ moved.status = ev.status
  BY <1>1 DEF V!Moved, EvaluationFields
<1>11. t = IF r.after = "start" THEN [kept EXCEPT !.floor = V!Max({kept.floor, ev.start}), !.locked = TRUE] ELSE kept
  <2>1. moved.peak - out = ev.peak - out /\ moved.floor - out = ev.floor - out
    BY <1>10
  <2>2. kept = CASE r.after = "reset" -> [moved EXCEPT !.peak = back, !.floor = base.floor, !.locked = base.locked]
                 [] r.after # "reset" /\ ~ev.locked ->
                      [moved EXCEPT !.peak = @ - out, !.locked = down.locked,
                                    !.floor = IF r.sizing # V!None THEN V!Max({@ - out, down.floor}) ELSE down.floor]
                 [] OTHER -> moved
    <3> HIDE DEF moved, down, base, back
    <3> QED BY <2>1
  <2> QED BY <2>2 DEF V!AfterPayout
<1> HIDE DEF back, base, down, low, moved, t
<1>12. \/ /\ r.after = "reset" /\ kept.peak = back /\ kept.floor = base.floor /\ kept.locked = base.locked
       \/ /\ r.after # "reset" /\ ~ev.locked /\ kept.peak = ev.peak - out /\ kept.locked = down.locked
          /\ kept.floor = low
       \/ r.after # "reset" /\ ev.locked /\ kept.peak = ev.peak /\ kept.floor = ev.floor /\ kept.locked = ev.locked
  BY <1>10 DEF EvaluationFields
<1>13. /\ DOMAIN kept = EvaluationFields /\ kept.start = ev.start /\ kept.dayOpen = ev.dayOpen - out
       /\ kept.dayClose = ev.dayClose - out /\ kept.dayCloseBalance = ev.dayCloseBalance - out /\ kept.dayHigh = ev.dayHigh - out /\ kept.attempt = ev.attempt
       /\ kept.payouts = Append(ev.payouts, amount) /\ kept.day = ev.day
       /\ kept.crossed = ev.crossed /\ kept.status = ev.status
  BY <1>10 DEF EvaluationFields
<1> HIDE DEF kept
<1>14. kept.peak \in Int /\ kept.floor \in Int
  BY <1>1, <1>2, <1>4, <1>9, <1>12
<1>15. kept.locked \in BOOLEAN
  BY <1>1, <1>4, <1>5, <1>12, Zenon
<1> DEFINE top == V!Max({kept.floor, ev.start})
<1>16. top \in {kept.floor, ev.start} /\ top >= kept.floor /\ top >= ev.start
  BY <1>1, <1>14, MaxOfTwo
<1> HIDE DEF top
<1>17. top \in Int
  BY <1>1, <1>14, <1>16
<1>18. /\ DOMAIN t = EvaluationFields /\ t.start = ev.start /\ t.peak = kept.peak /\ t.dayOpen = ev.dayOpen - out
       /\ t.dayClose = ev.dayClose - out /\ t.dayCloseBalance = ev.dayCloseBalance - out /\ t.dayHigh = ev.dayHigh - out /\ t.attempt = ev.attempt
       /\ t.payouts = Append(ev.payouts, amount) /\ t.day = ev.day /\ t.crossed = ev.crossed /\ t.status = ev.status
       /\ (r.after = "start" => t.floor = top /\ t.locked = TRUE)
       /\ (r.after # "start" => t.floor = kept.floor /\ t.locked = kept.locked)
  BY <1>11, <1>13 DEF EvaluationFields, top
<1>19. EvaluationOk(t) /\ Len(t.payouts) > Len(ev.payouts)
  <2>1. t.payouts \in Seq(Int) /\ Len(t.payouts) > Len(ev.payouts)
    BY <1>1, <1>18
  <2>2. t.floor \in Int /\ t.peak \in Int
    BY <1>14, <1>17, <1>18
  <2>3. t.locked \in BOOLEAN
    BY <1>15, <1>18, Zenon
  <2>4. t.dayOpen \in Int /\ t.dayClose \in Int /\ t.dayHigh \in Int /\ t.attempt \in Int /\ t.start \in Int
    <3>1. \A x \in Int : x - out \in Int
      OBVIOUS
    <3>2. ev.dayOpen - out \in Int /\ ev.dayClose - out \in Int /\ ev.dayHigh - out \in Int
          /\ ev.dayCloseBalance - out \in Int
      BY <1>1, <3>1
    <3> QED BY <1>1, <1>18, <3>2, Zenon
  <2>5. t.dayCloseBalance \in Int
    <3>1. \A x \in Int : x - out \in Int
      OBVIOUS
    <3> QED BY <1>1, <1>18, <3>1, Zenon
  <2> QED BY <1>18, <2>1, <2>2, <2>3, <2>4, <2>5 DEF EvaluationOk
<1>20. ASSUME ev.locked, r.after # "reset" PROVE t.floor >= ev.floor
  <2>1. kept.floor = ev.floor
    BY <1>12, <1>20
  <2>2. t.floor = top \/ t.floor = kept.floor
    BY <1>18
  <2> QED BY <1>1, <1>16, <1>17, <2>1, <2>2
<1>21. ASSUME LocksAtStart, Follows(ev, r) PROVE Follows(t, r)
  <2> SUFFICES ASSUME r.sizing = V!None
               PROVE  /\ t.floor = V!FloorOf(r, t.peak, t.locked, t.start).floor
                      /\ t.locked = V!FloorOf(r, t.peak, t.locked, t.start).locked
                      /\ r.dd # V!None => t.start > 0
    BY DEF Follows
  <2>1. /\ ev.floor = V!FloorOf(r, ev.peak, ev.locked, ev.start).floor
        /\ ev.locked = V!FloorOf(r, ev.peak, ev.locked, ev.start).locked
        /\ r.dd # V!None => ev.start > 0
    BY <1>21 DEF Follows
  <2>2. /\ kept.floor = V!FloorOf(r, kept.peak, kept.locked, ev.start).floor
        /\ kept.locked = V!FloorOf(r, kept.peak, kept.locked, ev.start).locked
    <3>1. low = down.floor
      BY <1>9
    <3> QED BY <1>6, <1>7, <1>12, <2>1, <3>1
  <2>3. CASE r.after # "start"
    BY <1>18, <2>1, <2>2, <2>3
  <2>4. CASE r.after = "start"
    <3>1. r.lockStart /\ r.mode # "static" /\ r.dd > 0 /\ r.dd \in Int
      BY <1>21, <2>4 DEF PlanOk
    <3>2. V!LockLevel(r, ev.start) = ev.start /\ ev.start > 0 /\ r.dd # V!None
      BY <2>1, <3>1 DEF V!LockLevel, V!None
    <3>3. V!FloorOf(r, kept.peak, TRUE, ev.start) = [floor |-> ev.start, locked |-> TRUE]
      BY <3>1, <3>2 DEF V!FloorOf
    <3>4. kept.floor =< ev.start
      BY <1>1, <1>14, <2>2, <3>1, <3>2 DEF V!FloorOf
    <3>5. top = ev.start
      BY <1>1, <1>14, <1>16, <3>4
    <3>6. t.locked = TRUE /\ t.floor = ev.start /\ t.peak = kept.peak /\ t.start = ev.start
      BY <1>18, <2>4, <3>5, Zenon
    <3>7. V!FloorOf(r, t.peak, t.locked, t.start) = [floor |-> ev.start, locked |-> TRUE]
      BY <3>3, <3>6, Zenon
    <3> DEFINE g == V!FloorOf(r, t.peak, t.locked, t.start)
    <3> HIDE DEF g
    <3>8. g = [floor |-> ev.start, locked |-> TRUE]
      BY <3>7 DEF g
    <3>9. g.floor = t.floor /\ g.locked = TRUE
      BY <3>6, <3>8
    <3>10. g.locked = t.locked
      BY <3>6, <3>9, Zenon
    <3> QED BY <3>2, <3>6, <3>9, <3>10 DEF g
  <2> QED BY <2>3, <2>4
<1> QED BY <1>18, <1>19, <1>20, <1>21 DEF t

LEMMA PayoutStep == ASSUME PlanInv, NEW a \in Int, V!Payout(a) PROVE PlanInv' /\ FloorKept
<1> DEFINE out == IF rules.after = "reset" THEN V!Equity - V!ResetBalance(e, rules) ELSE a
           t == V!AfterPayout(e, rules, a, out)
           in == V!Inputs(balance - out, open, TRUE, realised, today)
<1>1. V!Settle(t, rules, in, TRUE, dayPnl)
  BY DEF V!Payout
<1>2. EvaluationOk(e) /\ PlanOk(rules) /\ balance \in Int /\ open \in Int /\ dayPnl \in Int /\ realised \in Int
      /\ balance + open - e.dayOpen = dayPnl
  BY DEF PlanInv, AccountOk
<1>3. (e.crossed => e.status # "passed") /\ (LocksAtStart => Follows(e, rules))
  BY DEF PlanInv
<1>4. e.start \in Int /\ e.dayOpen \in Int /\ e.floor \in Int
  BY <1>2 DEF EvaluationOk
<1>5. out \in Int
  BY <1>2, <1>4 DEF V!Equity, V!ResetBalance, V!Percent, PlanOk
<1> HIDE DEF out
<1>6. /\ EvaluationOk(t) /\ t.start = e.start /\ t.dayOpen = e.dayOpen - out /\ t.day = e.day
      /\ t.attempt = e.attempt /\ t.crossed = e.crossed /\ t.status = e.status
      /\ Len(t.payouts) > Len(e.payouts)
      /\ (e.locked /\ rules.after # "reset" => t.floor >= e.floor)
      /\ (LocksAtStart /\ Follows(e, rules) => Follows(t, rules))
  BY <1>2, <1>5, PayoutKeeps
<1>7. InputsOk(in) /\ in.equity = balance - out + open
  BY <1>2, <1>5 DEF InputsOk, V!Inputs
<1> HIDE DEF t, in
<1> DEFINE opening == e.dayOpen
           equity == in.equity
           left == t.dayOpen
<1>8. opening \in Int /\ equity = balance - out + open /\ left = opening - out /\ balance + open - opening = dayPnl
  BY <1>2, <1>4, <1>6, <1>7
<1> HIDE DEF opening, equity, left
<1>9. equity - left = dayPnl
  BY <1>2, <1>5, <1>8
<1>10. in.equity - t.dayOpen = dayPnl
  BY <1>9 DEF equity, left
<1>11. (t.crossed => t.status # "passed") /\ (LocksAtStart => Follows(t, rules))
  BY <1>3, <1>6
<1>12. PlanInv' /\ Same(t, e') /\ (LocksAtStart => e'.floor >= t.floor)
  BY <1>1, <1>2, <1>6, <1>7, <1>10, <1>11, SoundEnd
<1>13. e'.floor \in Int /\ t.floor \in Int /\ e'.day = e.day /\ Len(e'.payouts) > Len(e.payouts)
  BY <1>6, <1>12 DEF PlanInv, AccountOk, EvaluationOk, Same, Beside
<1> QED BY <1>4, <1>6, <1>12, <1>13 DEF FloorKept, V!ShownFloor

-----------------------------------------------------------------------------
(* The rollover *)

LEMMA RolloverRaises ==
  ASSUME NEW ev, EvaluationOk(ev), NEW r, PlanOk(r)
  PROVE  LET t == V!Rolled(ev, r) IN
         /\ EvaluationOk(t) /\ Same(ev, t) /\ t.status = ev.status /\ Raised(ev, r, t)
         /\ r.mode # "eod" => t = ev
         /\ ev.status # "active" => t = ev
         /\ ev.status = "active" /\ r.basis = "equity" => t.floor = V!TomorrowFloor(ev, r, ev.dayClose)
<1> DEFINE close == V!DayClose(ev, r)
           t == V!Rolled(ev, r)
           p == V!WithPeak(ev, r, close)
           f == V!FloorOf(r, close, ev.locked, ev.start)
<1>1. close \in Int /\ (r.basis = "equity" => close = ev.dayClose)
  BY DEF V!DayClose, EvaluationOk
<1>2. CASE ev.status = "active" /\ r.mode = "eod" /\ close > ev.peak
  <2>1. t = p
    BY <1>2 DEF V!Rolled
  <2>2. /\ EvaluationOk(p) /\ Same(ev, p) /\ p.peak = close /\ p.status = ev.status /\ p.locked = f.locked
        /\ p.floor = IF r.sizing # V!None THEN V!Max({ev.floor, f.floor}) ELSE f.floor
    <3> HIDE DEF close
    <3> QED BY <1>1, PeakMoves
  <2>3. ev.status = "active" /\ r.basis = "equity" => p.floor = V!TomorrowFloor(ev, r, ev.dayClose)
    <3>1. CASE r.basis = "equity"
      <4>1. close = ev.dayClose /\ ev.dayClose \in Int /\ ev.peak \in Int
        BY <1>1, <3>1 DEF EvaluationOk
      <4> HIDE DEF close
      <4>2. ~(ev.dayClose =< ev.peak)
        BY <1>2, <4>1
      <4> QED BY <1>2, <4>1, <4>2 DEF V!TomorrowFloor
    <3> QED BY <3>1
  <2> HIDE DEF p, f, close
  <2>4. Raised(ev, r, p)
    BY <1>1, <1>2, <2>2 DEF Raised, f
  <2> QED BY <1>2, <2>1, <2>2, <2>3, <2>4
<1>3. CASE ~(ev.status = "active" /\ r.mode = "eod" /\ close > ev.peak)
  <2>1. t = ev
    BY <1>3 DEF V!Rolled
  <2>2. Raised(ev, r, ev) /\ Same(ev, ev)
    BY DEF Raised, Same, Beside, EvaluationOk
  <2>3. ev.status = "active" /\ r.basis = "equity" => ev.floor = V!TomorrowFloor(ev, r, ev.dayClose)
    <3>1. CASE ev.status = "active" /\ r.basis = "equity"
      <4>1. close = ev.dayClose /\ ev.dayClose \in Int /\ ev.peak \in Int
        BY <1>1, <3>1 DEF EvaluationOk
      <4> HIDE DEF close
      <4>2. r.mode # "eod" \/ ev.dayClose =< ev.peak
        BY <1>3, <3>1, <4>1
      <4> QED BY <4>2 DEF V!TomorrowFloor
    <3> QED BY <3>1
  <2> QED BY <2>1, <2>2, <2>3
<1> QED BY <1>2, <1>3

LEMMA IncreaseTyped ==
  ASSUME NEW ev, EvaluationOk(ev), NEW r, PlanOk(r), NEW bal
  PROVE  LET step == V!Increase(ev, r, bal) IN
         step \in Int /\ step >= 0 /\ (step > 0 => r.sizing # V!None)
<1> DEFINE percent == V!Percent(r.original, r.increase)
           room == r.maxSize - ev.start
           step == V!Min({percent, room})
           t == V!Increase(ev, r, bal)
<1>1. percent \in Int /\ room \in Int
  <2>1. r.original \in Int /\ r.increase \in Int /\ r.maxSize \in Int /\ ev.start \in Int
    BY DEF PlanOk, EvaluationOk
  <2> QED BY <2>1 DEF V!Percent
<1> HIDE DEF percent, room
<1>2. step \in Int
  BY <1>1, MinOfTwo
<1>3. (V!ReviewDue(ev, r) /\ t = step /\ step > 0) \/ t = 0
  BY DEF V!Increase, percent, room
<1> HIDE DEF step, t
<1>4. V!ReviewDue(ev, r) => r.sizing # V!None
  BY DEF V!ReviewDue
<1>5. t \in Int /\ t >= 0 /\ (t > 0 => r.sizing # V!None)
  BY <1>2, <1>3, <1>4
<1> QED BY <1>5 DEF t

\* A review moves the baselines up together, and only those of a plan that is reviewed.
LEMMA ReviewKeeps ==
  ASSUME NEW ev, EvaluationOk(ev), NEW r, PlanOk(r), NEW bal
  PROVE  LET v == V!Reviewed(ev, r, bal) IN
         /\ v.capital \in Int /\ v.capital >= 0
         /\ EvaluationOk(v.ev) /\ Beside(ev, v.ev) /\ v.ev.status = ev.status /\ v.ev.start = ev.start + v.capital
         /\ v.ev.floor >= ev.floor
         /\ PlanOk(v.rules) /\ v.rules.sizing = r.sizing
         /\ v.capital = 0 => v.ev.peak = ev.peak /\ v.ev.floor = ev.floor /\ v.ev.locked = ev.locked /\ v.rules = r
         /\ v.capital # 0 => r.sizing # V!None
<1> DEFINE step == V!Increase(ev, r, bal)
           grown == IF step > 0 THEN V!Credited(ev, r, step) ELSE ev
           next == IF ~V!ReviewDue(ev, r) THEN ev
                   ELSE [grown EXCEPT !.period = [balance |-> bal + step, size |-> grown.start,
                                                  payouts |-> Len(ev.payouts)]]
           plan == IF step > 0 THEN V!Scaled(r, ev.start + step, step) ELSE r
           v == V!Reviewed(ev, r, bal)
<1>1. step \in Int /\ step >= 0 /\ (step > 0 => r.sizing # V!None)
  BY IncreaseTyped
<1>2. step > 0 => V!ReviewDue(ev, r)
  BY DEF V!Increase
<1>3. v = [ev |-> next, rules |-> plan, capital |-> step]
  BY DEF V!Reviewed
<1> HIDE DEF step
<1>4. /\ ev.start \in Int /\ ev.peak \in Int /\ ev.floor \in Int /\ ev.locked \in BOOLEAN /\ ev.dayOpen \in Int
      /\ ev.dayClose \in Int /\ ev.dayHigh \in Int /\ ev.attempt \in Int /\ ev.payouts \in Seq(Int)
      /\ ev.dayCloseBalance \in Int /\ DOMAIN ev = EvaluationFields
  BY DEF EvaluationOk
<1>5. /\ DOMAIN grown = EvaluationFields /\ grown.attempt = ev.attempt /\ grown.crossed = ev.crossed
      /\ grown.payouts = ev.payouts /\ grown.status = ev.status /\ grown.locked = ev.locked
      /\ grown.dayOpen = ev.dayOpen /\ grown.dayClose = ev.dayClose /\ grown.dayHigh = ev.dayHigh
      /\ grown.dayCloseBalance = ev.dayCloseBalance
      /\ (step > 0 => grown.start = ev.start + step /\ grown.peak = ev.peak + step
                      /\ (grown.floor = ev.floor + step \/ grown.floor = ev.floor))
      /\ (step = 0 => grown = ev)
  <2>1. CASE step > 0
    BY <1>1, <1>4, <2>1 DEF V!Credited, EvaluationFields
  <2>2. CASE step = 0
    BY <1>4, <2>2
  <2> QED BY <1>1, <2>1, <2>2
<1> HIDE DEF grown
<1>6. /\ DOMAIN next = EvaluationFields /\ next.attempt = ev.attempt /\ next.crossed = ev.crossed
      /\ next.payouts = ev.payouts /\ next.status = ev.status /\ next.locked = ev.locked
      /\ next.dayOpen = ev.dayOpen /\ next.dayClose = ev.dayClose /\ next.dayHigh = ev.dayHigh
      /\ next.dayCloseBalance = ev.dayCloseBalance
      /\ (step > 0 => next.start = ev.start + step /\ next.peak = ev.peak + step
                      /\ (next.floor = ev.floor + step \/ next.floor = ev.floor))
      /\ (step = 0 => next.start = ev.start /\ next.peak = ev.peak /\ next.floor = ev.floor)
  <2>1. CASE ~V!ReviewDue(ev, r)
    BY <1>1, <1>2, <1>4, <2>1
  <2>2. CASE V!ReviewDue(ev, r)
    BY <1>5, <2>2 DEF EvaluationFields
  <2> QED BY <2>1, <2>2
<1> HIDE DEF next
<1> DEFINE begun == next.start
           top == next.peak
           low == next.floor
           start0 == ev.start
           peak0 == ev.peak
           floor0 == ev.floor
<1>7. begun \in Int /\ top \in Int /\ low \in Int /\ low >= floor0 /\ begun = start0 + step
  <2>1. start0 \in Int /\ peak0 \in Int /\ floor0 \in Int
    BY <1>4
  <2>2. (step > 0 /\ begun = start0 + step /\ top = peak0 + step /\ (low = floor0 + step \/ low = floor0))
        \/ (step = 0 /\ begun = start0 /\ top = peak0 /\ low = floor0)
    BY <1>1, <1>6
  <2> HIDE DEF begun, top, low, start0, peak0, floor0
  <2> QED BY <1>1, <2>1, <2>2
<1>8. EvaluationOk(next) /\ Beside(ev, next)
  BY <1>4, <1>6, <1>7 DEF EvaluationOk, Beside
<1>9. PlanOk(plan) /\ plan.sizing = r.sizing
  <2>1. CASE step > 0
    <3> DEFINE size == ev.start + step
               dd == (r.originalDd * size) \div r.original
               daily == (r.originalDaily * size) \div r.original
               at == IF r.lockAt > 0 THEN r.lockAt + step ELSE r.lockAt
    <3>1. /\ r.originalDd \in Nat /\ r.originalDaily \in Nat /\ r.original \in Nat \ {0} /\ r.lockAt \in Int
          /\ size \in Int
      BY <1>1, <1>4 DEF PlanOk
    <3> HIDE DEF size
    <3>2. dd \in Int /\ at \in Int
      BY <1>1, <3>1
    <3>3. plan = [r EXCEPT !.lockAt = at, !.dd = dd, !.daily = daily]
      BY <2>1 DEF V!Scaled, size
    <3> HIDE DEF dd, daily, at, plan
    <3>4. /\ DOMAIN plan = PlanFields /\ plan.dd = dd /\ plan.lockAt = at
          /\ plan.resetPercent = r.resetPercent /\ plan.increase = r.increase /\ plan.maxSize = r.maxSize
          /\ plan.original = r.original /\ plan.originalDd = r.originalDd /\ plan.originalDaily = r.originalDaily
          /\ plan.originalLock = r.originalLock /\ plan.sizing = r.sizing /\ plan.after = r.after
          /\ plan.funded = r.funded /\ plan.mode = r.mode /\ plan.lockStart = r.lockStart
      BY <3>3 DEF PlanOk, PlanFields
    <3> QED BY <1>1, <2>1, <3>2, <3>4 DEF PlanOk
  <2>2. CASE ~(step > 0)
    BY <2>2
  <2> QED BY <2>1, <2>2
<1>10. step = 0 => plan = r
  BY <1>1
<1> HIDE DEF plan, v
<1>11. v.ev = next /\ v.rules = plan /\ v.capital = step
  BY <1>3
<1> QED BY <1>1, <1>6, <1>7, <1>8, <1>9, <1>10, <1>11 DEF v

DayFinished(ev, n, day) == [ev EXCEPT !.qualifying = n, !.days = Append(@, day)]

DayOpened(ev, day, eq, bal, real) ==
  [ev EXCEPT !.lock = "none", !.dayExecutions = 0, !.day = day, !.dayOpen = eq, !.dayHigh = eq,
             !.dayClose = eq, !.dayCloseBalance = bal, !.dayOpenRealised = real]

\* What roll_day leaves of the finished day before its review.
LEMMA FinishedDay ==
  ASSUME NEW ev, EvaluationOk(ev), NEW n, NEW day
  PROVE  LET t == DayFinished(ev, n, day) IN
         /\ EvaluationOk(t) /\ Same(ev, t) /\ t.status = ev.status
         /\ t.peak = ev.peak /\ t.floor = ev.floor /\ t.locked = ev.locked
<1> DEFINE t == DayFinished(ev, n, day)
<1>1. /\ DOMAIN t = EvaluationFields /\ t.peak = ev.peak /\ t.locked = ev.locked /\ t.floor = ev.floor
      /\ t.start = ev.start /\ t.dayOpen = ev.dayOpen /\ t.dayClose = ev.dayClose /\ t.dayHigh = ev.dayHigh
      /\ t.dayCloseBalance = ev.dayCloseBalance
      /\ t.attempt = ev.attempt /\ t.status = ev.status /\ t.day = ev.day
      /\ t.crossed = ev.crossed /\ t.payouts = ev.payouts
  BY DEF DayFinished, EvaluationOk, EvaluationFields
<1> HIDE DEF t
<1>2. EvaluationOk(t) /\ Same(ev, t)
  BY <1>1 DEF EvaluationOk, Same, Beside
<1> QED BY <1>1, <1>2 DEF t

\* And what it opens the next day with.
LEMMA OpenedDay ==
  ASSUME NEW ev, EvaluationOk(ev), NEW day, NEW eq \in Int, NEW bal \in Int, NEW real
  PROVE  LET t == DayOpened(ev, day, eq, bal, real) IN
         /\ EvaluationOk(t) /\ Beside(ev, t) /\ t.status = ev.status /\ t.start = ev.start
         /\ t.peak = ev.peak /\ t.floor = ev.floor /\ t.locked = ev.locked /\ t.dayOpen = eq
<1> DEFINE t == DayOpened(ev, day, eq, bal, real)
<1>1. /\ DOMAIN t = EvaluationFields /\ t.peak = ev.peak /\ t.locked = ev.locked /\ t.floor = ev.floor
      /\ t.start = ev.start /\ t.dayOpen = eq /\ t.dayClose = eq /\ t.dayHigh = eq /\ t.dayCloseBalance = bal
      /\ t.attempt = ev.attempt /\ t.status = ev.status
      /\ t.crossed = ev.crossed /\ t.payouts = ev.payouts
  BY DEF DayOpened, EvaluationOk, EvaluationFields
<1> HIDE DEF t
<1>2. EvaluationOk(t) /\ Beside(ev, t)
  BY <1>1 DEF EvaluationOk, Beside
<1> QED BY <1>1, <1>2 DEF t

LEMMA RollDayStep == ASSUME PlanInv, V!RollDay PROVE PlanInv' /\ FloorKept
<1> DEFINE e1 == V!PastDate(e, rules, V!Now, FALSE)
           e2 == V!Rolled(e1, rules)
           real == realised - e2.dayOpenRealised
           good == rules.funded /\ e2.status = "active" /\ real >= rules.qualifyProfit /\ real > 0
           n == IF good THEN e2.qualifying + 1 ELSE e2.qualifying
           day == [profit |-> IF rules.profitBasis = "balance" THEN real ELSE e2.dayClose - e2.dayOpen,
                   executions |-> e2.dayExecutions]
           e3 == DayFinished(e2, n, day)
           rev == V!Reviewed(e3, rules, balance)
           eq == V!Equity + rev.capital
           e4 == DayOpened(rev.ev, today, eq, balance, realised)
<1>1. PICK c \in Costs \cup {0} :
        V!Settle(e4, rev.rules, V!Inputs(balance + rev.capital - c, open, ~held, realised - c, today), TRUE, -c)
  BY DEF V!RollDay, DayFinished, DayOpened
<1> DEFINE in == V!Inputs(balance + rev.capital - c, open, ~held, realised - c, today)
<1>2. /\ EvaluationOk(e) /\ PlanOk(rules) /\ balance \in Int /\ open \in Int /\ realised \in Int
      /\ (e.crossed => e.status # "passed") /\ marked
  BY DEF PlanInv, AccountOk, V!RollDay
<1>3. c \in Nat
  BY <1>1, EvaluationAssumption DEF EvaluationAssumption
<1>4. /\ Untouched(e, e1) /\ e1.crossed = e.crossed
      /\ (e.status # "active" => e1.status = e.status)
      /\ (e.status = "active" => (e1 = e /\ ~e.crossed) \/ e1.status = "failed")
  BY <1>2, PastDateKeeps
<1> HIDE DEF e1
<1>5. /\ EvaluationOk(e2) /\ Same(e1, e2) /\ e2.status = e1.status /\ Raised(e1, rules, e2)
      /\ (rules.mode # "eod" => e2 = e1)
      /\ (e1.status = "active" /\ rules.basis = "equity" => e2.floor = V!TomorrowFloor(e1, rules, e1.dayClose))
  BY <1>2, <1>4, RolloverRaises DEF Untouched
<1> HIDE DEF e2, real, good, n, day
<1>5a. EvaluationOk(e2)
  BY <1>5
<1>6. /\ EvaluationOk(e3) /\ Same(e2, e3) /\ e3.status = e2.status
      /\ e3.peak = e2.peak /\ e3.floor = e2.floor /\ e3.locked = e2.locked
  BY <1>5a, FinishedDay
<1> HIDE DEF e3
<1>7. /\ rev.capital \in Int /\ rev.capital >= 0
      /\ EvaluationOk(rev.ev) /\ Beside(e3, rev.ev) /\ rev.ev.status = e3.status
      /\ rev.ev.start = e3.start + rev.capital /\ rev.ev.floor >= e3.floor
      /\ PlanOk(rev.rules) /\ rev.rules.sizing = rules.sizing
      /\ (rev.capital = 0 => rev.ev.peak = e3.peak /\ rev.ev.floor = e3.floor /\ rev.ev.locked = e3.locked
                             /\ rev.rules = rules)
      /\ (rev.capital # 0 => rules.sizing # V!None)
  BY <1>2, <1>6, ReviewKeeps
<1> DEFINE next == rev.ev
           plan == rev.rules
           capital == rev.capital
<1>8. /\ capital \in Int /\ capital >= 0
      /\ EvaluationOk(next) /\ Beside(e3, next) /\ next.status = e3.status
      /\ next.start = e3.start + capital /\ next.floor >= e3.floor
      /\ PlanOk(plan) /\ plan.sizing = rules.sizing
      /\ (capital = 0 => next.peak = e3.peak /\ next.floor = e3.floor /\ next.locked = e3.locked /\ plan = rules)
      /\ (capital # 0 => rules.sizing # V!None)
  BY <1>7
<1>9. eq = balance + open + capital
  BY DEF V!Equity
<1>10. /\ e4 = DayOpened(next, today, eq, balance, realised)
       /\ in = V!Inputs(balance + capital - c, open, ~held, realised - c, today)
       /\ V!Settle(e4, plan, in, TRUE, -c)
  BY <1>1
<1> HIDE DEF rev, next, plan, capital, eq, e4, in
<1>11. eq \in Int /\ -c \in Int /\ balance + capital - c \in Int /\ realised - c \in Int
  BY <1>2, <1>3, <1>8, <1>9
<1>12. /\ EvaluationOk(e4) /\ Beside(next, e4) /\ e4.status = next.status /\ e4.start = next.start
       /\ e4.peak = next.peak /\ e4.floor = next.floor /\ e4.locked = next.locked /\ e4.dayOpen = eq
  <2> DEFINE t == DayOpened(next, today, eq, balance, realised)
  <2>1. EvaluationOk(next) /\ eq \in Int /\ balance \in Int
    BY <1>2, <1>8, <1>11
  <2>2. /\ EvaluationOk(t) /\ Beside(next, t) /\ t.status = next.status /\ t.start = next.start
        /\ t.peak = next.peak /\ t.floor = next.floor /\ t.locked = next.locked /\ t.dayOpen = eq
    BY <2>1, OpenedDay
  <2>3. e4 = t
    BY <1>10
  <2> HIDE DEF t
  <2> QED BY <2>2, <2>3
<1>13. InputsOk(in) /\ in.equity = balance + capital - c + open /\ V!Measured(plan, in) \in Int
       /\ (plan.basis = "equity" => V!Measured(plan, in) = balance + capital - c + open)
  BY <1>2, <1>10, <1>11 DEF InputsOk, V!Inputs, V!Measured
<1>14. in.equity - e4.dayOpen = -c
  BY <1>2, <1>3, <1>8, <1>9, <1>12, <1>13
<1>15. e4.crossed = e.crossed /\ e4.status = e1.status /\ e4.attempt = e.attempt
  BY <1>4, <1>5, <1>6, <1>8, <1>12 DEF Same, Beside, Untouched
<1>16. e4.crossed => e4.status # "passed"
  BY <1>2, <1>4, <1>15
<1>17. e4.start = e.start + capital
  BY <1>4, <1>5, <1>6, <1>8, <1>12 DEF Same, Untouched
<1>18. ASSUME LocksAtStart PROVE Follows(e4, plan) /\ e4.floor >= e.floor
  <2>1. Follows(e1, rules)
    BY <1>4, <1>18 DEF PlanInv, Untouched, Follows
  <2>2. Follows(e2, rules) /\ e2.floor >= e1.floor
    BY <1>2, <1>4, <1>5, <2>1, RaisedFollows DEF Same, Untouched
  <2>3. e1.floor = e.floor /\ e.floor \in Int /\ e2.floor \in Int /\ e3.floor \in Int /\ e4.floor \in Int
    BY <1>2, <1>4, <1>5, <1>6, <1>12 DEF Untouched, EvaluationOk
  <2>4. e4.floor >= e3.floor /\ e3.floor = e2.floor
    BY <1>6, <1>8, <1>12
  <2>5. Follows(e4, plan)
    <3>1. CASE plan.sizing # V!None
      BY <3>1 DEF Follows
    <3>2. CASE plan.sizing = V!None
      <4>1. capital = 0 /\ rules.sizing = V!None
        BY <1>8, <3>2
      <4>2. plan = rules /\ e4.peak = e3.peak /\ e4.floor = e3.floor /\ e4.locked = e3.locked
        BY <1>8, <1>12, <4>1
      <4>3. e4.peak = e2.peak /\ e4.floor = e2.floor /\ e4.locked = e2.locked
        BY <1>6, <4>2
      <4>4. e4.start = e2.start
        <5>1. e3.start = e2.start /\ e2.start = e1.start /\ e1.start = e.start /\ e.start \in Int
          BY <1>2, <1>4, <1>5, <1>6 DEF Same, Untouched, EvaluationOk
        <5> DEFINE from == e.start
        <5>2. from \in Int /\ e4.start = from + capital
          BY <1>17, <5>1
        <5> HIDE DEF from
        <5>3. e4.start = from
          BY <4>1, <5>2
        <5> QED BY <5>1, <5>3 DEF from
      <4> QED BY <2>2, <4>2, <4>3, <4>4 DEF Follows
    <3> QED BY <3>1, <3>2
  <2> QED BY <2>2, <2>3, <2>4, <2>5
<1>19. PlanInv' /\ Same(e4, e') /\ (LocksAtStart => e'.floor >= e4.floor)
  BY <1>8, <1>10, <1>11, <1>12, <1>13, <1>14, <1>16, <1>18, SoundEnd
<1>20. LocksAtStart => ~(e'.floor < e.floor)
  <2>1. e'.floor \in Int /\ e4.floor \in Int /\ e.floor \in Int
    BY <1>2, <1>12, <1>19 DEF PlanInv, AccountOk, EvaluationOk
  <2> QED BY <1>18, <1>19, <2>1
<1>21. ASSUME V!ShownFloor PROVE e'.floor = V!TomorrowFloor(e, rules, V!Equity)
  <2>1. /\ rules.basis = "equity" /\ e.dayClose = V!Equity /\ e'.start = e.start /\ e'.status = "active"
    BY <1>21 DEF V!ShownFloor
  <2>2. /\ (e4.status # "active" \/ e4.crossed => e'.status = e4.status /\ e'.peak = e4.peak /\ e'.floor = e4.floor)
        /\ (plan.mode = "eod" \/ V!Measured(plan, in) =< e4.peak => e'.peak = e4.peak /\ e'.floor = e4.floor)
    BY <1>8, <1>10, <1>11, <1>12, <1>13, Settling
  <2>3. e1 = e /\ ~e.crossed /\ e.status = "active"
    BY <1>4, <1>15, <2>1, <2>2
  <2>4. capital = 0
    <3> DEFINE from == e.start
    <3>1. from \in Int /\ from = from + capital
      BY <1>2, <1>17, <1>19, <2>1 DEF EvaluationOk, Same
    <3> HIDE DEF from
    <3> QED BY <1>8, <3>1
  <2>5. plan = rules /\ e4.floor = e2.floor /\ e4.peak = e2.peak
    BY <1>6, <1>8, <1>12, <2>4
  <2>6. e2.floor = V!TomorrowFloor(e, rules, V!Equity)
    BY <1>5, <2>1, <2>3
  <2>7. plan.mode = "eod" \/ V!Measured(plan, in) =< e4.peak
    <3>1. CASE rules.mode # "eod"
      <4>1. e4.peak = e.peak
        BY <1>5, <2>3, <2>5, <3>1
      <4>2. balance + open =< e.peak /\ e.peak \in Int
        BY <1>2, <2>1, <2>3, <3>1 DEF PlanInv, PeakCovers, EvaluationOk
      <4> DEFINE top == e.peak
                 measured == V!Measured(plan, in)
      <4>3. measured = balance + capital - c + open /\ top \in Int /\ balance + open =< top
        BY <1>13, <2>1, <2>5, <4>2
      <4> HIDE DEF top, measured
      <4>4. measured =< top
        BY <1>2, <1>3, <2>4, <4>3
      <4> QED BY <4>1, <4>4 DEF top, measured
    <3> QED BY <2>5, <3>1
  <2> QED BY <2>2, <2>5, <2>6, <2>7
<1> QED BY <1>19, <1>20, <1>21 DEF FloorKept

-----------------------------------------------------------------------------
(* The promises *)

LEMMA PlanNext == ASSUME PlanInv, V!Next PROVE PlanInv' /\ FloorKept
<1>1. CASE \/ V!Open \/ V!GoStale \/ V!Close \/ V!CrossBoundary
           \/ \E gap \in 1 .. 2 : V!NextDate(gap)
           \/ \E d \in Moves : V!Mark(d)
  BY <1>1, PlainSteps
<1>2. CASE V!RollDay
  BY <1>2, RollDayStep
<1>3. CASE V!Reset
  BY <1>3, ResetStep
<1>4. ASSUME NEW a \in 1 .. MaxCash, V!Payout(a) PROVE PlanInv' /\ FloorKept
  <2>1. a \in Int
    OBVIOUS
  <2> QED BY <1>4, <2>1, PayoutStep
<1>5. ASSUME NEW a \in {-1, 1}, V!Transfer(a) PROVE PlanInv' /\ FloorKept
  <2>1. a \in Int
    OBVIOUS
  <2> QED BY <1>5, <2>1, TransferStep
<1> QED BY <1>1, <1>2, <1>3, <1>4, <1>5 DEF V!Next

LEMMA PlanStep == ASSUME PlanInv, [V!Next]_V!vars PROVE PlanInv'
<1>1. CASE UNCHANGED V!vars
  <2>1. rules' = rules /\ balance' = balance /\ realised' = realised /\ open' = open /\ marked' = marked
        /\ e' = e /\ dayPnl' = dayPnl
    BY <1>1 DEF V!vars
  <2> QED BY <2>1 DEF PlanInv, AccountOk, PeakCovers
<1> QED BY <1>1, PlanNext

LEMMA PlanAlways == PlanSpec => []PlanInv
<1>1. V!Init => PlanInv
  BY PlanStarts
<1>2. PlanInv /\ [V!Next]_V!vars => PlanInv'
  BY PlanStep
<1> QED BY <1>1, <1>2, PTL DEF PlanSpec, V!Spec

(* Capital is not profit: under any valid plan, what payouts, transfers, account size credits and  *)
(* resets move (session.cpp) is never in the profit of a day, the base of every daily loss limit.  *)
THEOREM CapitalNeverProfits == PlanSpec => []CapitalIsNotProfit
<1>1. ASSUME PlanInv PROVE CapitalIsNotProfit
  <2> DEFINE opening == e.dayOpen
  <2>1. balance \in Int /\ open \in Int /\ opening \in Int /\ balance + open - opening = dayPnl
    BY <1>1 DEF PlanInv, AccountOk, EvaluationOk
  <2> HIDE DEF opening
  <2>2. (balance + open) - opening = dayPnl
    BY <2>1
  <2> QED BY <2>2 DEF CapitalIsNotProfit, V!CapitalIsNotProfit, V!Equity, opening
<1> QED BY <1>1, PlanAlways, PTL

(* A holding boundary crossed with a position never passes, whatever the account does until the    *)
(* rollover that fails it (observe_equity, evaluation_rollover).                                   *)
THEOREM CrossedStaysFailed == PlanSpec => []CrossedNeverPasses
<1>1. PlanInv => CrossedNeverPasses
  BY DEF PlanInv, CrossedNeverPasses, V!CrossedNeverPasses
<1> QED BY <1>1, PlanAlways, PTL

(* The floor of an attempt falls with a payout only, and the floor shown for tomorrow is the one   *)
(* the rollover leaves, when a payout that raises the floor to the starting balance is taken under *)
(* a plan whose floor locks there (evaluation_floor, evaluation_tomorrow_floor, request_payout).   *)
THEOREM FloorsStand == LocksAtStart /\ PlanSpec => FloorStands
<1> SUFFICES ASSUME LocksAtStart PROVE PlanSpec => FloorStands
  OBVIOUS
<1>1. PlanInv /\ [V!Next]_V!vars =>
        [(e'.attempt = e.attempt /\ e'.floor < e.floor) =>
           Len(e'.payouts) > Len(e.payouts) /\ (~e.locked \/ rules.after = "reset")]_V!vars
  BY PlanNext DEF FloorKept
<1>2. PlanInv /\ [V!Next]_V!vars => [V!ShownFloor => e'.floor = V!TomorrowFloor(e, rules, V!Equity)]_V!vars
  BY PlanNext DEF FloorKept
<1> QED BY <1>1, <1>2, PlanAlways, PTL DEF PlanSpec, V!Spec, FloorStands, V!FloorStands

-----------------------------------------------------------------------------
(* Sums over deliveries *)

LEMMA LeastNumber == ASSUME NEW Broken, Broken \subseteq Nat, Broken # {} PROVE \E u \in Broken : \A v \in Broken : u <= v
<1> DEFINE less == OpToRel(<, Nat)
<1>1. IsWellFoundedOn(less, Nat)
  BY NatLessThanWellFounded
<1>2. less = {ss \in Nat \X Nat : ss[1] < ss[2]}
  BY DEF OpToRel
<1> HIDE DEF less
<1>3. PICK u \in Broken : \A y \in Broken : ~ (<<y, u>> \in less)
  BY <1>1, WFMin
<1>4. ASSUME NEW v \in Broken PROVE u <= v
  <2>1. <<v, u>> \in Nat \X Nat
    OBVIOUS
  <2>2. ~ (<<v, u>>[1] < <<v, u>>[2])
    BY <1>2, <1>3, <2>1, Zenon
  <2>3. ~ (v < u) /\ v \in Nat /\ u \in Nat
    BY <2>2
  <2> QED BY <2>3
<1> QED BY <1>4

Chosen(s) == CHOOSE x \in s : TRUE
\* What a sum over s is, given the sums over its subsets, and a function that is all of them over the subsets in D.
SumFrom(f, s) == IF s = {} THEN 0 ELSE Chosen(s).shares + f[s \ {Chosen(s)}]
AddsUp(f, D) == f = [s \in D |-> SumFrom(f, s)]
UpTo(S, n) == {s \in SUBSET S : Cardinality(s) <= n}
AreDeliveries(S) == IsFiniteSet(S) /\ \A one \in S : one.shares \in Int

LEMMA ChosenIn == ASSUME NEW s, s # {} PROVE Chosen(s) \in s
BY DEF Chosen

LEMMA Removed == ASSUME NEW S, IsFiniteSet(S), NEW s \in SUBSET S, NEW x \in s
                 PROVE  /\ IsFiniteSet(s) /\ Cardinality(s) \in Nat /\ Cardinality(s) # 0
                        /\ s \ {x} \in SUBSET S /\ Cardinality(s \ {x}) = Cardinality(s) - 1
<1>1. IsFiniteSet(s) /\ Cardinality(s) \in Nat
  BY FS_Subset, FS_CardinalityType
<1>2. Cardinality(s) # 0
  BY <1>1, FS_EmptySet
<1>3. Cardinality(s \ {x}) = Cardinality(s) - 1
  BY <1>1, FS_RemoveElement
<1> QED BY <1>1, <1>2, <1>3

LEMMA SumsUpTo == ASSUME NEW S, IsFiniteSet(S), NEW n \in Nat PROVE \E f : AddsUp(f, UpTo(S, n))
<1> DEFINE Broken == {k \in Nat : ~ \E f : AddsUp(f, UpTo(S, k))}
<1> SUFFICES ASSUME Broken # {} PROVE FALSE
  OBVIOUS
<1>1. PICK k \in Broken : \A j \in Broken : k <= j
  BY LeastNumber
<1>2. k \in Nat /\ ~ \E f : AddsUp(f, UpTo(S, k))
  OBVIOUS
<1>3. CASE k = 0
  <2> DEFINE f == [s \in UpTo(S, 0) |-> 0]
  <2>1. ASSUME NEW s \in UpTo(S, 0) PROVE s = {}
    <3>1. s \in SUBSET S /\ Cardinality(s) <= 0
      BY DEF UpTo
    <3>2. ASSUME NEW x \in s PROVE FALSE
      <4>1. Cardinality(s) \in Nat /\ Cardinality(s) # 0
        BY <3>1, Removed
      <4> QED BY <3>1, <4>1
    <3> QED BY <3>2
  <2>2. \A s \in UpTo(S, 0) : 0 = SumFrom(f, s)
    BY <2>1 DEF SumFrom
  <2>3. f = [s \in UpTo(S, 0) |-> SumFrom(f, s)]
    BY <2>2
  <2> HIDE DEF f
  <2> QED BY <1>2, <1>3, <2>3 DEF AddsUp
<1>4. CASE k # 0
  <2>1. k - 1 \in Nat /\ k - 1 \notin Broken
    BY <1>1, <1>2, <1>4
  <2>2. PICK f : AddsUp(f, UpTo(S, k - 1))
    BY <2>1
  <2> DEFINE h == [s \in UpTo(S, k) |-> SumFrom(f, s)]
  <2>3. ASSUME NEW s \in UpTo(S, k - 1) PROVE s \in UpTo(S, k) /\ h[s] = f[s]
    <3>1. s \in UpTo(S, k)
      <4>1. s \in SUBSET S /\ Cardinality(s) <= k - 1
        BY DEF UpTo
      <4>2. Cardinality(s) \in Nat
        BY <4>1, FS_Subset, FS_CardinalityType
      <4> QED BY <1>2, <4>1, <4>2 DEF UpTo
    <3> QED BY <2>2, <3>1 DEF AddsUp
  <2>4. ASSUME NEW s \in UpTo(S, k) PROVE SumFrom(f, s) = SumFrom(h, s)
    <3>1. CASE s = {}
      BY <3>1 DEF SumFrom
    <3>2. CASE s # {}
      <4>1. s \in SUBSET S /\ Cardinality(s) <= k /\ Chosen(s) \in s
        BY <3>2, ChosenIn DEF UpTo
      <4>2. s \ {Chosen(s)} \in UpTo(S, k - 1)
        <5>1. s \ {Chosen(s)} \in SUBSET S /\ Cardinality(s \ {Chosen(s)}) = Cardinality(s) - 1 /\ Cardinality(s) \in Nat
          BY <4>1, Removed
        <5> QED BY <1>2, <4>1, <5>1 DEF UpTo
      <4>3. h[s \ {Chosen(s)}] = f[s \ {Chosen(s)}]
        BY <2>3, <4>2
      <4> HIDE DEF h
      <4> QED BY <4>3 DEF SumFrom
    <3> QED BY <3>1, <3>2
  <2>5. h = [s \in UpTo(S, k) |-> SumFrom(h, s)]
    BY <2>4
  <2> HIDE DEF h
  <2> QED BY <1>2, <2>5 DEF AddsUp
<1> QED BY <1>3, <1>4

LEMMA SumsOver == ASSUME NEW S, IsFiniteSet(S) PROVE \E f : AddsUp(f, SUBSET S)
<1>1. Cardinality(S) \in Nat
  BY FS_CardinalityType
<1>2. \A s \in SUBSET S : Cardinality(s) <= Cardinality(S)
  BY FS_Subset
<1>3. UpTo(S, Cardinality(S)) = SUBSET S
  BY <1>2 DEF UpTo
<1>4. PICK f : AddsUp(f, UpTo(S, Cardinality(S)))
  BY <1>1, SumsUpTo
<1> QED BY <1>3, <1>4

\* The sums over the subsets of a set are those over the subsets of a larger one.
LEMMA SumsAgree ==
  ASSUME NEW S, IsFiniteSet(S), NEW R \in SUBSET S, NEW f, AddsUp(f, SUBSET S), NEW g, AddsUp(g, SUBSET R)
  PROVE  f[R] = g[R]
<1> DEFINE Broken == {k \in Nat : \E s \in SUBSET R : Cardinality(s) = k /\ f[s] # g[s]}
<1>1. ASSUME Broken # {} PROVE FALSE
  <2>1. PICK k \in Broken : \A j \in Broken : k <= j
    BY <1>1, LeastNumber
  <2>2. PICK s \in SUBSET R : k \in Nat /\ Cardinality(s) = k /\ f[s] # g[s]
    OBVIOUS
  <2>3. f[s] = SumFrom(f, s) /\ g[s] = SumFrom(g, s)
    BY DEF AddsUp
  <2>4. CASE s = {}
    BY <2>2, <2>3, <2>4 DEF SumFrom
  <2>5. CASE s # {}
    <3> DEFINE rest == s \ {Chosen(s)}
    <3>1. rest \in SUBSET R /\ Cardinality(rest) = k - 1 /\ k - 1 \in Nat
      <4>1. Chosen(s) \in s /\ s \in SUBSET S
        BY <2>5, ChosenIn
      <4>2. Cardinality(rest) = Cardinality(s) - 1 /\ Cardinality(s) # 0
        BY <4>1, Removed
      <4> QED BY <2>2, <4>2
    <3>2. f[rest] # g[rest]
      BY <2>2, <2>3, <2>5 DEF SumFrom
    <3>3. k - 1 \in Broken
      BY <3>1, <3>2
    <3> QED BY <2>1, <2>2, <3>3
  <2> QED BY <2>4, <2>5
<1>2. IsFiniteSet(R) /\ Cardinality(R) \in Nat
  BY FS_Subset, FS_CardinalityType
<1> QED BY <1>1, <1>2

LEMMA SharesFunction == ASSUME NEW S, IsFiniteSet(S)
                        PROVE  \E f : AddsUp(f, SUBSET S) /\ \A R \in SUBSET S : T!SharesOf(R) = f[R]
<1>1. PICK f : AddsUp(f, SUBSET S)
  BY SumsOver
<1>2. ASSUME NEW R \in SUBSET S PROVE T!SharesOf(R) = f[R]
  <2> DEFINE g == CHOOSE g : AddsUp(g, SUBSET R)
  <2>1. T!SharesOf(R) = g[R]
    BY DEF T!SharesOf, T!MapThenSumSet, T!MapThenFoldSet, AddsUp, SumFrom, Chosen
  <2>2. IsFiniteSet(R)
    BY FS_Subset
  <2>3. AddsUp(g, SUBSET R)
    BY <2>2, SumsOver
  <2> HIDE DEF g
  <2> QED BY <1>1, <2>1, <2>3, SumsAgree
<1> QED BY <1>1, <1>2

LEMMA SharesOfNone == T!SharesOf({}) = 0
<1>1. PICK f : AddsUp(f, SUBSET {}) /\ \A R \in SUBSET {} : T!SharesOf(R) = f[R]
  BY SharesFunction, FS_EmptySet
<1>2. {} \in SUBSET {} /\ f[{}] = SumFrom(f, {})
  BY <1>1 DEF AddsUp
<1> QED BY <1>1, <1>2 DEF SumFrom

LEMMA SharesOfChosen == ASSUME NEW S, IsFiniteSet(S), S # {}
                        PROVE  T!SharesOf(S) = Chosen(S).shares + T!SharesOf(S \ {Chosen(S)})
<1>1. PICK f : AddsUp(f, SUBSET S) /\ \A R \in SUBSET S : T!SharesOf(R) = f[R]
  BY SharesFunction
<1>2. S \in SUBSET S /\ S \ {Chosen(S)} \in SUBSET S /\ f[S] = SumFrom(f, S)
  BY <1>1 DEF AddsUp
<1> QED BY <1>1, <1>2 DEF SumFrom

\* Whichever delivery is taken out.
LEMMA SharesOfOne ==
  ASSUME NEW S, AreDeliveries(S)
  PROVE  T!SharesOf(S) \in Int /\ \A x \in S : T!SharesOf(S) = x.shares + T!SharesOf(S \ {x})
<1> DEFINE Good(s) == T!SharesOf(s) \in Int /\ \A x \in s : T!SharesOf(s) = x.shares + T!SharesOf(s \ {x})
           Broken == {k \in Nat : \E s \in SUBSET S : Cardinality(s) = k /\ ~Good(s)}
<1>0. IsFiniteSet(S) /\ \A one \in S : one.shares \in Int
  BY DEF AreDeliveries
<1>1. ASSUME Broken # {} PROVE FALSE
  <2>1. PICK k \in Broken : \A j \in Broken : k <= j
    BY <1>1, LeastNumber
  <2>2. PICK s \in SUBSET S : k \in Nat /\ Cardinality(s) = k /\ ~Good(s)
    OBVIOUS
  <2>3. CASE s = {}
    BY <2>2, <2>3, SharesOfNone
  <2>4. CASE s # {}
    <3>1. IsFiniteSet(s) /\ Chosen(s) \in s
      BY <1>0, <2>4, ChosenIn, Removed
    <3>2. ASSUME NEW r \in SUBSET S, Cardinality(r) = k - 1, k # 0 PROVE Good(r)
      <4>1. k - 1 \in Nat /\ k - 1 \notin Broken
        BY <2>1, <2>2, <3>2
      <4> QED BY <3>2, <4>1
    <3> HIDE DEF Good
    <3>3. ASSUME NEW x \in s PROVE s \ {x} \in SUBSET S /\ Cardinality(s \ {x}) = k - 1 /\ k # 0 /\ Good(s \ {x})
      BY <1>0, <2>2, <3>2, Removed
    <3> DEFINE c == Chosen(s)
    <3>4. T!SharesOf(s) = c.shares + T!SharesOf(s \ {c})
      BY <2>4, <3>1, SharesOfChosen
    <3>5. T!SharesOf(s \ {c}) \in Int /\ c.shares \in Int
      BY <1>0, <3>1, <3>3 DEF Good
    <3>6. ASSUME NEW x \in s PROVE T!SharesOf(s) = x.shares + T!SharesOf(s \ {x})
      <4>1. CASE x = c
        BY <3>4, <4>1
      <4>2. CASE x # c
        <5> DEFINE both == (s \ {c}) \ {x}
        <5>1. c \in s \ {x} /\ x \in s \ {c} /\ (s \ {x}) \ {c} = both
          BY <3>1, <4>2
        <5>2. T!SharesOf(s \ {c}) = x.shares + T!SharesOf(both)
          BY <3>1, <3>3, <5>1 DEF Good
        <5>3. T!SharesOf(s \ {x}) = c.shares + T!SharesOf((s \ {x}) \ {c})
          BY <3>3, <5>1 DEF Good
        <5>4. T!SharesOf(s \ {x}) \in Int /\ x.shares \in Int
          BY <1>0, <3>3 DEF Good
        <5>5. T!SharesOf(both) \in Int
          <6>1. both \in SUBSET S /\ Cardinality(both) = k - 1 - 1 /\ k - 1 # 0
            <7>1. s \ {c} \in SUBSET S /\ Cardinality(s \ {c}) = k - 1
              BY <3>1, <3>3
            <7> DEFINE r == s \ {c}
            <7> HIDE DEF both, c
            <7>2. r \in SUBSET S /\ Cardinality(r) = k - 1 /\ x \in r /\ both = r \ {x}
              BY <5>1, <7>1 DEF both
            <7> HIDE DEF r
            <7> QED BY <1>0, <7>2, Removed
          <6>2. k - 2 \in Nat /\ k - 2 \notin Broken /\ k - 1 - 1 = k - 2
            <7>1. k # 0
              BY <3>1, <3>3
            <7> HIDE DEF Broken
            <7> QED BY <2>1, <2>2, <6>1, <7>1
          <6>3. Cardinality(both) = k - 2
            BY <6>1, <6>2
          <6> HIDE DEF both
          <6>4. Good(both)
            BY <6>1, <6>2, <6>3
          <6> QED BY <6>4 DEF Good
        <5>6. T!SharesOf(s \ {x}) = c.shares + T!SharesOf(both)
          BY <5>1, <5>3
        <5> HIDE DEF both, c
        <5> QED BY <3>4, <3>5, <5>2, <5>4, <5>5, <5>6
      <4> QED BY <4>1, <4>2
    <3>7. T!SharesOf(s) \in Int
      BY <3>4, <3>5
    <3> QED BY <2>2, <3>6, <3>7 DEF Good
  <2> QED BY <2>3, <2>4
<1>2. IsFiniteSet(S) /\ Cardinality(S) \in Nat /\ S \in SUBSET S
  BY <1>0, FS_CardinalityType
<1>3. Good(S)
  BY <1>1, <1>2
<1> QED BY <1>3

\* The shares of deliveries of which none is counted twice.
LEMMA SharesOfBoth ==
  ASSUME NEW X, NEW B, AreDeliveries(X), AreDeliveries(B), X \intersect B = {}
  PROVE  AreDeliveries(X \union B) /\ T!SharesOf(X \union B) = T!SharesOf(X) + T!SharesOf(B)
<1> DEFINE AddsTo(b) == T!SharesOf(X \union b) = T!SharesOf(X) + T!SharesOf(b)
           Broken == {k \in Nat : \E b \in SUBSET B : Cardinality(b) = k /\ ~AddsTo(b)}
<1>0. IsFiniteSet(X) /\ IsFiniteSet(B) /\ T!SharesOf(X) \in Int
  BY SharesOfOne DEF AreDeliveries
<1>1. ASSUME NEW b \in SUBSET B PROVE AreDeliveries(b) /\ AreDeliveries(X \union b)
  <2>1. IsFiniteSet(b)
    BY <1>0, FS_Subset
  <2>2. IsFiniteSet(X \union b)
    BY <1>0, <2>1, FS_Union
  <2> QED BY <2>1, <2>2 DEF AreDeliveries
<1>2. ASSUME Broken # {} PROVE FALSE
  <2>1. PICK k \in Broken : \A j \in Broken : k <= j
    BY <1>2, LeastNumber
  <2>2. PICK b \in SUBSET B : k \in Nat /\ Cardinality(b) = k /\ ~AddsTo(b)
    OBVIOUS
  <2>3. CASE b = {}
    <3>1. X \union b = X
      BY <2>3
    <3>2. T!SharesOf(X \union b) = T!SharesOf(X) /\ T!SharesOf(b) = 0
      BY <2>3, <3>1, SharesOfNone
    <3> QED BY <1>0, <2>2, <3>2
  <2>4. CASE b # {}
    <3> DEFINE c == Chosen(b)
               rest == b \ {c}
    <3>1. c \in b
      BY <2>4, ChosenIn
    <3>2. rest \in SUBSET B /\ Cardinality(rest) = k - 1 /\ k # 0
      BY <1>0, <2>2, <3>1, Removed
    <3>3. k - 1 \in Nat /\ k - 1 \notin Broken
      <4> HIDE DEF Broken, c, rest
      <4> QED BY <2>1, <2>2, <3>2
    <3>4. AddsTo(rest)
      BY <3>2, <3>3
    <3>5. T!SharesOf(b) = c.shares + T!SharesOf(rest)
      BY <1>1, <3>1, SharesOfOne
    <3>6. T!SharesOf(X \union b) = c.shares + T!SharesOf((X \union b) \ {c})
      BY <1>1, <3>1, SharesOfOne
    <3>7. (X \union b) \ {c} = X \union rest
      BY <3>1
    <3>8. c.shares \in Int /\ T!SharesOf(rest) \in Int
      BY <1>1, <3>1, <3>2, SharesOfOne DEF AreDeliveries
    <3>9. T!SharesOf(X \union rest) = T!SharesOf(X) + T!SharesOf(rest)
      BY <3>4
    <3>10. T!SharesOf(X \union b) = c.shares + T!SharesOf(X \union rest)
      BY <3>6, <3>7
    <3> HIDE DEF c, rest
    <3> QED BY <1>0, <2>2, <3>5, <3>8, <3>9, <3>10
  <2> QED BY <2>3, <2>4
<1>3. Cardinality(B) \in Nat /\ B \in SUBSET B
  BY <1>0, FS_CardinalityType
<1> QED BY <1>1, <1>2, <1>3

-----------------------------------------------------------------------------
(* The end of a day *)

AccountFields == {"day", "time", "marked", "positions", "prints", "settled", "shares", "deliveries", "dividends", "rolls"}

\* What is held has not expired before the account's day, nor what was settled.
InTime(a) ==
  /\ DOMAIN a = AccountFields /\ DOMAIN a.positions = Contracts /\ a.day \in Nat
  /\ \A c \in Contracts : ~Terms[c].am =>
       a.settled[c].day <= Terms[c].date /\ (a.positions[c] # 0 => a.day <= Terms[c].date)

LEMMA Clock == ASSUME NEW t \in Nat
               PROVE  T!DateOf(t) \in Nat /\ T!DateOf(t + 1) >= T!DateOf(t)
                      /\ \A d \in Nat : t < T!At(d, 4) => T!DateOf(t) <= d
BY DEF T!DateOf, T!DayTicks, T!At

LEMMA Expiry == ASSUME NEW c \in Contracts, NEW t \in Nat, t < T!ExpiryTime(c)
                PROVE  T!DateOf(t) <= Terms[c].date
<1> DEFINE d == Terms[c].date
<1>1. d \in Nat
  BY SettlementAssumption DEF SettlementAssumption
<1>2. \E tick \in {0, 2, 3} : T!ExpiryTime(c) = T!At(d, tick)
  BY DEF T!ExpiryTime, T!Open, T!Close, T!LateClose
<1> HIDE DEF d
<1>3. PICK tick \in {0, 2, 3} : t < T!At(d, tick)
  BY <1>2
<1>4. t < d * 5 + tick
  BY <1>3 DEF T!At, T!DayTicks
<1>5. t \div 5 <= d
  BY <1>1, <1>4
<1> QED BY <1>5 DEF T!DateOf, T!DayTicks, d

LEMMA RecordStays ==
  ASSUME NEW a, InTime(a), NEW d, NEW t
  PROVE  LET b == T!Record(a, d, t) IN
         InTime(b) /\ b.day = a.day /\ b.time = a.time /\ b.positions = a.positions
<1> DEFINE prints == [date \in T!Dates |-> T!RecordedClose(a, d, date, t)]
           b == [a EXCEPT !.prints = prints]
<1> HIDE DEF prints
<1>1. /\ DOMAIN b = AccountFields /\ b.day = a.day /\ b.time = a.time /\ b.positions = a.positions
      /\ b.settled = a.settled
  BY DEF InTime, AccountFields
<1> HIDE DEF b
<1>2. InTime(b)
  BY <1>1 DEF InTime
<1>3. T!Record(a, d, t) = b
  BY DEF T!Record, b, prints
<1> QED BY <1>1, <1>2, <1>3

LEMMA SettleInTime ==
  ASSUME NEW a, InTime(a), NEW prices, DOMAIN prices \subseteq T!Held(a), NEW source
  PROVE  LET b == T!Settle(a, prices, source) IN
         InTime(b) /\ b.day = a.day /\ b.time = a.time /\ T!Held(b) \subseteq T!Held(a)
<1> DEFINE b == T!Settle(a, prices, source)
           s == [c \in Contracts |-> IF c \in DOMAIN prices THEN [price |-> prices[c], day |-> a.day, source |-> source]
                                     ELSE a.settled[c]]
           p == [c \in Contracts |-> IF c \in DOMAIN prices THEN 0 ELSE a.positions[c]]
<1>1. /\ DOMAIN b = AccountFields /\ b.day = a.day /\ b.time = a.time /\ b.positions = p /\ b.settled = s
  BY DEF InTime, AccountFields, T!Settle
<1> HIDE DEF b
<1>2. \A c \in Contracts : \/ c \in T!Held(a) /\ p[c] = 0 /\ s[c].day = a.day
                           \/ p[c] = a.positions[c] /\ s[c] = a.settled[c]
  OBVIOUS
<1>3. \A c \in T!Held(a) : c \in Contracts /\ a.positions[c] # 0
  BY DEF T!Held
<1>4. DOMAIN p = Contracts
  OBVIOUS
<1> HIDE DEF s, p
<1>5. InTime(b)
  BY <1>1, <1>2, <1>3, <1>4 DEF InTime
<1>6. T!Held(b) \subseteq T!Held(a)
  BY <1>1, <1>2, <1>3 DEF T!Held
<1> QED BY <1>1, <1>5, <1>6 DEF b

\* A day begins only when what is held expires in it or later.
LEMMA RollInTime ==
  ASSUME NEW a, InTime(a), NEW t \in Nat, NEW assigned,
         \A c \in T!Held(a) : ~Terms[c].am => T!DateOf(t) <= Terms[c].date
  PROVE  LET b == T!RollDay(a, t, assigned) IN InTime(b) /\ b.day = T!DateOf(t)
<1> DEFINE day == T!DateOf(t)
           gone == assigned \intersect T!Assignable(a, day)
           opened == [a EXCEPT !.day = day, !.time = t, !.rolls = @ \union {day}]
           p == [c \in Contracts |-> IF c \in gone THEN 0 ELSE opened.positions[c]]
           left == T!Assign(opened, gone, day)
           due == T!DividendsDue(a.day, day)
           b == T!PayDividends(left, due)
<1>1. day \in Nat
  BY Clock
<1>2. b = T!RollDay(a, t, assigned)
  BY DEF T!RollDay
<1> HIDE DEF day, gone, due
<1>3. /\ DOMAIN opened = AccountFields /\ opened.day = day /\ opened.positions = a.positions
      /\ opened.settled = a.settled
  BY DEF InTime, AccountFields
<1> HIDE DEF opened
<1>4. /\ DOMAIN left = AccountFields /\ left.day = day /\ left.positions = p /\ left.settled = a.settled
  BY <1>3 DEF T!Assign, AccountFields
<1> HIDE DEF left
<1>5. /\ DOMAIN b = AccountFields /\ b.day = day /\ b.positions = p /\ b.settled = a.settled
  BY <1>4 DEF T!PayDividends, AccountFields
<1> HIDE DEF b
<1>6. DOMAIN p = Contracts /\ \A c \in Contracts : p[c] # 0 => a.positions[c] # 0
  BY <1>3
<1>7. \A c \in Contracts : ~Terms[c].am /\ a.positions[c] # 0 => day <= Terms[c].date
  BY DEF T!Held, day
<1> HIDE DEF p
<1>8. InTime(b)
  BY <1>1, <1>5, <1>6, <1>7 DEF InTime
<1> QED BY <1>2, <1>5, <1>8 DEF day

\* The shares are those of the deliveries, of which a settlement makes one of a contract.
Delivery == [of : Contracts, shares : Int, into : Nat, day : Nat]
Delivers(a, t) ==
  /\ IsFiniteSet(a.deliveries) /\ a.deliveries \subseteq Delivery
  /\ a.shares = T!SharesOf(a.deliveries)
  /\ \A c \in Contracts : a.positions[c] \in Int
  /\ \A one \in a.deliveries :
       /\ one.day <= a.day
       /\ \/ one.into <= a.day /\ one.into <= Terms[one.of].date
          \/ one.into = Terms[one.of].date + 1 /\ a.positions[one.of] = 0 /\ T!ExpiryTime(one.of) <= t

\* An ex-date that has come is paid on what was held into the day that paid for it, one to come is not.
Rolled(a) == a.day \in Nat /\ a.rolls \subseteq Nat /\ (a.day = 0 \/ a.day \in a.rolls) /\ \A day \in a.rolls : day <= a.day
Payment(shares) == IF shares = 0 THEN <<>> ELSE <<shares>>
Pays(a) ==
  \A ex \in ExDates : a.dividends[ex] = IF ex <= a.day THEN Payment(T!HeldInto(a, ex)) ELSE <<>>
Paid(a, t) == Delivers(a, t) /\ Rolled(a) /\ Pays(a)

LEMMA TermsOf == ASSUME NEW c \in Contracts
                 PROVE  Terms[c].date \in Nat /\ (Terms[c].delivers => ~Terms[c].am) /\ T!ExpiryTime(c) \in Nat
<1>1. Terms[c].date \in Nat /\ (Terms[c].delivers => ~Terms[c].am)
  BY SettlementAssumption DEF SettlementAssumption
<1>2. \A d \in Nat : \A tick \in {0, 2, 3} : T!At(d, tick) \in Nat
  BY DEF T!At, T!DayTicks
<1> QED BY <1>1, <1>2 DEF T!ExpiryTime, T!Open, T!Close, T!LateClose

LEMMA DeliversLater == ASSUME NEW a, NEW t \in Nat, NEW u \in Nat, t <= u, Delivers(a, t) PROVE Delivers(a, u)
<1>1. ASSUME NEW one \in a.deliveries, T!ExpiryTime(one.of) <= t PROVE T!ExpiryTime(one.of) <= u
  <2>1. T!ExpiryTime(one.of) \in Nat
    BY TermsOf DEF Delivers, Delivery
  <2> QED BY <1>1, <2>1
<1> QED BY <1>1 DEF Delivers

LEMMA LeastIs == ASSUME NEW S \in SUBSET Nat, NEW m \in S, \A x \in S : m <= x PROVE T!Min(S) = m
<1> DEFINE least == CHOOSE x \in S : \A y \in S : x <= y
<1>1. least \in S /\ \A y \in S : least <= y
  OBVIOUS
<1>2. T!Min(S) = least
  BY DEF T!Min
<1> HIDE DEF least
<1>3. least <= m /\ m <= least /\ least \in Nat /\ m \in Nat
  BY <1>1
<1> QED BY <1>2, <1>3

\* What is delivered later is not held into a day that has begun.
LEMMA HeldStays ==
  ASSUME NEW a, Rolled(a), NEW b, NEW ex \in ExDates, ex <= a.day,
         NEW new, b.deliveries = a.deliveries \union new,
         \A one \in new : one.into \in Nat /\ one.day \in Nat /\ one.into > a.day /\ one.day >= a.day,
         NEW begun \in SUBSET Nat, b.rolls = a.rolls \union begun, \A day \in begun : day > a.day
  PROVE  T!HeldInto(b, ex) = T!HeldInto(a, ex)
<1>0. ex \in Nat /\ ex # 0 /\ a.day \in Nat /\ a.rolls \subseteq Nat /\ a.day \in a.rolls
  BY SettlementAssumption DEF SettlementAssumption, Rolled
<1> DEFINE S == {day \in a.rolls : day >= ex}
<1>1. PICK m \in S : \A day \in S : m <= day
  <2>1. S \subseteq Nat /\ S # {}
    BY <1>0
  <2> HIDE DEF S
  <2> QED BY <2>1, LeastNumber
<1>2. m \in Nat /\ m <= a.day /\ m >= ex
  BY <1>0, <1>1
<1>3. T!Min({day \in a.rolls : day >= ex}) = m
  <2>1. S \in SUBSET Nat
    BY <1>0
  <2> HIDE DEF S
  <2>2. T!Min(S) = m
    BY <1>1, <2>1, LeastIs
  <2> QED BY <2>2 DEF S
<1>4. T!Min({day \in b.rolls : day >= ex}) = m
  <2> DEFINE R == {day \in b.rolls : day >= ex}
  <2>1. R \in SUBSET Nat /\ m \in R
    BY <1>0, <1>1
  <2>2. ASSUME NEW day \in R PROVE m <= day
    <3>1. CASE day \in a.rolls
      BY <1>1, <3>1
    <3>2. CASE day \in begun
      BY <1>0, <1>2, <3>2
    <3> QED BY <3>1, <3>2
  <2> HIDE DEF R
  <2>3. T!Min(R) = m
    BY <2>1, <2>2, LeastIs
  <2> QED BY <2>3 DEF R
<1>5. {one \in b.deliveries : one.into <= m \/ one.day < m} = {one \in a.deliveries : one.into <= m \/ one.day < m}
  <2>1. ASSUME NEW one \in new PROVE ~ (one.into <= m \/ one.day < m)
    BY <1>0, <1>2
  <2> QED BY <2>1
<1> QED BY <1>3, <1>4, <1>5 DEF T!HeldInto

\* New deliveries of contracts that are held.
Made(a, gone, into, day) == {[of |-> c, shares |-> a.positions[c], into |-> into[c], day |-> day] : c \in gone}

Fits(a, new) ==
  /\ IsFiniteSet(new) /\ new \subseteq Delivery
  /\ IsFiniteSet(a.deliveries \union new) /\ a.deliveries \union new \subseteq Delivery
  /\ T!SharesOf(a.deliveries \union new) = a.shares + T!SharesOf(new)

LEMMA DeliveriesFit ==
  ASSUME NEW a, NEW t, NEW day \in Nat, DOMAIN a.positions = Contracts, Delivers(a, t), NEW gone \in SUBSET T!Held(a),
         NEW into, \A c \in gone : into[c] \in Nat /\ (into[c] > a.day \/ into[c] > Terms[c].date), a.day \in Nat
  PROVE  Fits(a, Made(a, gone, into, day))
<1> DEFINE new == Made(a, gone, into, day)
<1>0. new = {[of |-> c, shares |-> a.positions[c], into |-> into[c], day |-> day] : c \in gone}
  BY DEF Made
<1> HIDE DEF new
<1>1. gone \subseteq Contracts /\ \A c \in gone : a.positions[c] # 0
  BY DEF T!Held
<1>2. IsFiniteSet(new)
  <2>1. IsFiniteSet(gone)
    BY <1>1, FS_Subset, SettlementAssumption DEF SettlementAssumption
  <2> DEFINE f == [c \in gone |-> [of |-> c, shares |-> a.positions[c], into |-> into[c], day |-> day]]
  <2>2. f \in [gone -> new] /\ \A one \in new : \E c \in gone : f[c] = one
    BY <1>0
  <2>3. f \in Surjection(gone, new)
    BY <2>2 DEF Surjection
  <2> HIDE DEF f
  <2> QED BY <2>1, <2>3, FS_Surjection
<1>3. new \subseteq Delivery
  BY <1>0, <1>1 DEF Delivery, Delivers
<1>4. ASSUME NEW one \in new PROVE one \notin a.deliveries
  <2> SUFFICES ASSUME one \in a.deliveries PROVE FALSE
    OBVIOUS
  <2>1. PICK c \in gone : one = [of |-> c, shares |-> a.positions[c], into |-> into[c], day |-> day]
    BY <1>0
  <2>2. one.of = c /\ one.into = into[c] /\ c \in Contracts /\ a.positions[c] # 0
    BY <1>1, <2>1
  <2>3. \/ one.into <= a.day /\ one.into <= Terms[one.of].date
        \/ a.positions[one.of] = 0
    BY DEF Delivers
  <2>4. Terms[c].date \in Nat /\ into[c] \in Nat /\ (into[c] > a.day \/ into[c] > Terms[c].date)
    BY <2>2, TermsOf
  <2>5. into[c] <= a.day /\ into[c] <= Terms[c].date
    BY <2>2, <2>3
  <2> QED BY <2>4, <2>5
<1>5. AreDeliveries(a.deliveries) /\ AreDeliveries(new)
  BY <1>2, <1>3 DEF AreDeliveries, Delivers, Delivery
<1>6. T!SharesOf(a.deliveries \union new) = T!SharesOf(a.deliveries) + T!SharesOf(new)
  BY <1>4, <1>5, SharesOfBoth
<1>7. IsFiniteSet(a.deliveries \union new)
  BY <1>5, SharesOfBoth, <1>4 DEF AreDeliveries
<1> QED BY <1>2, <1>3, <1>6, <1>7 DEF Delivers, Fits, new

LEMMA RecordPays == ASSUME NEW a, InTime(a), NEW d, NEW t, NEW u, Paid(a, u) PROVE Paid(T!Record(a, d, t), u)
<1> DEFINE b == T!Record(a, d, t)
<1>1. /\ b.day = a.day /\ b.positions = a.positions /\ b.shares = a.shares /\ b.deliveries = a.deliveries
      /\ b.dividends = a.dividends /\ b.rolls = a.rolls
  BY DEF InTime, AccountFields, T!Record
<1> HIDE DEF b
<1>2. Paid(b, u)
  BY <1>1 DEF Paid, Delivers, Rolled, Pays, T!HeldInto
<1> QED BY <1>2 DEF b

LEMMA SettlePays ==
  ASSUME NEW a, InTime(a), NEW t, Paid(a, t), NEW prices, DOMAIN prices \subseteq T!Held(a), NEW source,
         \A c \in DOMAIN prices : T!ExpiryTime(c) <= t
  PROVE  Paid(T!Settle(a, prices, source), t)
<1> DEFINE b == T!Settle(a, prices, source)
           gone == T!Delivering(prices)
           into == [c \in gone |-> Terms[c].date + 1]
           new == {[of |-> c, shares |-> a.positions[c], into |-> into[c], day |-> a.day] : c \in gone}
           p == [c \in Contracts |-> IF c \in DOMAIN prices THEN 0 ELSE a.positions[c]]
<1>1. /\ b.day = a.day /\ b.positions = p /\ b.shares = a.shares + T!SharesOf(new)
      /\ b.deliveries = a.deliveries \union new /\ b.dividends = a.dividends /\ b.rolls = a.rolls
  <2> DEFINE delivered == {[of |-> c, shares |-> a.positions[c], into |-> Terms[c].date + 1, day |-> a.day] : c \in gone}
  <2>1. new = delivered
    OBVIOUS
  <2>2. /\ b.day = a.day /\ b.positions = p /\ b.shares = a.shares + T!SharesOf(delivered)
        /\ b.deliveries = a.deliveries \union delivered /\ b.dividends = a.dividends /\ b.rolls = a.rolls
    BY DEF InTime, AccountFields, T!Settle
  <2> HIDE DEF delivered, new, b, p
  <2> QED BY <2>1, <2>2
<1>2. gone \subseteq DOMAIN prices /\ \A c \in gone : Terms[c].delivers
  BY DEF T!Delivering
<1>3. DOMAIN into = gone /\ \A c \in gone : into[c] = Terms[c].date + 1
  OBVIOUS
<1>4. p \in [Contracts -> Int] /\ \A c \in DOMAIN prices : p[c] = 0
  BY DEF Paid, Delivers, T!Held
<1>5. \A c \in Contracts : p[c] = a.positions[c] \/ p[c] = 0
  OBVIOUS
<1> HIDE DEF b, gone, into, p
<1>6. ASSUME NEW c \in gone PROVE c \in T!Held(a) /\ c \in Contracts /\ into[c] \in Nat /\ into[c] > Terms[c].date /\ into[c] > a.day
  <2>1. c \in T!Held(a) /\ c \in Contracts /\ a.positions[c] # 0
    BY <1>2 DEF T!Held
  <2>2. Terms[c].date \in Nat /\ ~Terms[c].am
    BY <1>2, <2>1, TermsOf
  <2>3. a.day <= Terms[c].date /\ a.day \in Nat
    BY <2>1, <2>2 DEF InTime
  <2> QED BY <1>3, <2>1, <2>2, <2>3
<1>7. \A one \in new : one.of \in gone /\ one.into = into[one.of] /\ one.day = a.day
  OBVIOUS
<1>8. /\ new \subseteq Delivery
      /\ IsFiniteSet(a.deliveries \union new) /\ a.deliveries \union new \subseteq Delivery
      /\ T!SharesOf(a.deliveries \union new) = a.shares + T!SharesOf(new)
  <2>1. a.day \in Nat /\ DOMAIN a.positions = Contracts /\ Delivers(a, t) /\ gone \in SUBSET T!Held(a)
    BY <1>6 DEF InTime, Paid
  <2>2. \A c \in gone : into[c] \in Nat /\ (into[c] > a.day \/ into[c] > Terms[c].date)
    BY <1>6
  <2>3. new = Made(a, gone, into, a.day)
    BY DEF Made
  <2>4. Fits(a, Made(a, gone, into, a.day))
    BY <2>1, <2>2, DeliveriesFit
  <2> HIDE DEF new
  <2> QED BY <2>3, <2>4 DEF Fits
<1> HIDE DEF new
<1>9. ASSUME NEW one \in b.deliveries
      PROVE  /\ one.day <= b.day
             /\ \/ one.into <= b.day /\ one.into <= Terms[one.of].date
                \/ one.into = Terms[one.of].date + 1 /\ b.positions[one.of] = 0 /\ T!ExpiryTime(one.of) <= t
  <2>1. CASE one \in a.deliveries
    <3>1. one.of \in Contracts
      BY <2>1 DEF Paid, Delivers, Delivery
    <3>2. /\ one.day <= a.day
          /\ \/ one.into <= a.day /\ one.into <= Terms[one.of].date
             \/ one.into = Terms[one.of].date + 1 /\ a.positions[one.of] = 0 /\ T!ExpiryTime(one.of) <= t
      BY <2>1 DEF Paid, Delivers
    <3> QED BY <1>1, <1>5, <3>1, <3>2
  <2>2. CASE one \in new
    <3>1. one.of \in gone /\ one.into = into[one.of] /\ one.day = a.day /\ a.day \in Nat
      BY <1>7, <2>2 DEF InTime
    <3>2. one.of \in DOMAIN prices /\ one.into = Terms[one.of].date + 1 /\ b.positions[one.of] = 0
      BY <1>1, <1>2, <1>3, <1>4, <3>1
    <3> QED BY <1>1, <3>1, <3>2
  <2> QED BY <1>1, <2>1, <2>2
<1>10. Delivers(b, t)
  BY <1>1, <1>4, <1>8, <1>9 DEF Delivers
<1>11. Rolled(b)
  BY <1>1 DEF Paid, Rolled
<1>12. ASSUME NEW ex \in ExDates, ex <= a.day PROVE T!HeldInto(b, ex) = T!HeldInto(a, ex)
  <2>1. \A one \in new : one.into \in Nat /\ one.day \in Nat /\ one.into > a.day /\ one.day >= a.day
    BY <1>6, <1>7 DEF InTime
  <2>2. b.rolls = a.rolls \union {} /\ {} \in SUBSET Nat /\ Rolled(a)
    BY <1>1 DEF Paid
  <2> QED BY <1>1, <1>12, <2>1, <2>2, HeldStays
<1>13. Pays(b)
  BY <1>1, <1>12 DEF Paid, Pays
<1>14. Paid(b, t)
  BY <1>10, <1>11, <1>13 DEF Paid
<1> QED BY <1>14 DEF b

LEMMA RollPays ==
  ASSUME NEW a, InTime(a), NEW t \in Nat, NEW u, Paid(a, u), T!DateOf(t) > a.day, NEW assigned
  PROVE  Paid(T!RollDay(a, t, assigned), u)
<1> DEFINE day == T!DateOf(t)
           gone == assigned \intersect T!Assignable(a, day)
           opened == [a EXCEPT !.day = day, !.time = t, !.rolls = @ \union {day}]
           p == [c \in Contracts |-> IF c \in gone THEN 0 ELSE opened.positions[c]]
           new == {[of |-> c, shares |-> opened.positions[c], into |-> day, day |-> opened.day] : c \in gone}
           left == T!Assign(opened, gone, day)
           due == T!DividendsDue(a.day, day)
           b == T!PayDividends(left, due)
           into == [c \in gone |-> day]
<1>1. b = T!RollDay(a, t, assigned)
  BY DEF T!RollDay
<1>2. day \in Nat /\ day > a.day /\ a.day \in Nat
  BY Clock DEF InTime
<1>3. \A c \in gone : c \in Contracts /\ a.positions[c] # 0 /\ c \in T!Held(a) /\ Terms[c].date > day
  BY DEF T!Assignable, T!Held
<1>4. due = {ex \in ExDates : a.day < ex /\ ex <= day}
  BY DEF T!DividendsDue
<1> HIDE DEF day, gone, due
<1>5. /\ DOMAIN opened = AccountFields /\ opened.day = day /\ opened.positions = a.positions /\ opened.shares = a.shares
      /\ opened.deliveries = a.deliveries /\ opened.dividends = a.dividends /\ opened.rolls = a.rolls \union {day}
  BY DEF InTime, AccountFields
<1> HIDE DEF opened
<1>6. /\ DOMAIN left = AccountFields /\ left.day = day /\ left.positions = p /\ left.shares = a.shares + T!SharesOf(new)
      /\ left.deliveries = a.deliveries \union new /\ left.dividends = a.dividends /\ left.rolls = a.rolls \union {day}
  BY <1>5 DEF T!Assign, AccountFields
<1>7. new = Made(a, gone, into, day)
  BY <1>5 DEF Made
<1>8. \A one \in new : one.of \in gone /\ one.into = day /\ one.day = day
  BY <1>5
<1> HIDE DEF left, new
<1> DEFINE paid == [ex \in ExDates |-> IF ex \in due /\ left.shares # 0 /\ left.dividends[ex] = <<>>
                                      THEN Append(left.dividends[ex], left.shares) ELSE left.dividends[ex]]
<1>9. /\ b.day = day /\ b.positions = p /\ b.shares = left.shares
      /\ b.deliveries = a.deliveries \union new /\ b.dividends = paid /\ b.rolls = a.rolls \union {day}
  <2>1. b = [left EXCEPT !.dividends = [ex \in ExDates |-> IF ex \in {x \in due : left.shares # 0 /\ left.dividends[x] = <<>>}
                                                          THEN Append(left.dividends[ex], left.shares) ELSE left.dividends[ex]]]
    BY DEF T!PayDividends
  <2>2. paid = [ex \in ExDates |-> IF ex \in {x \in due : left.shares # 0 /\ left.dividends[x] = <<>>}
                                  THEN Append(left.dividends[ex], left.shares) ELSE left.dividends[ex]]
    OBVIOUS
  <2> HIDE DEF paid, b
  <2>3. b = [left EXCEPT !.dividends = paid]
    BY <2>1, <2>2
  <2> QED BY <1>6, <2>3 DEF AccountFields
<1>10. \A c \in Contracts : p[c] = a.positions[c] \/ p[c] = 0
  BY <1>5
<1>11. \A ex \in ExDates : paid[ex] = IF ex \in due /\ left.shares # 0 /\ left.dividends[ex] = <<>>
                                    THEN Append(left.dividends[ex], left.shares) ELSE left.dividends[ex]
  OBVIOUS
<1>12. DOMAIN into = gone /\ \A c \in gone : into[c] = day
  OBVIOUS
<1> HIDE DEF b, p, paid, into
<1>13. /\ new \subseteq Delivery
       /\ IsFiniteSet(a.deliveries \union new) /\ a.deliveries \union new \subseteq Delivery
       /\ T!SharesOf(a.deliveries \union new) = a.shares + T!SharesOf(new)
  <2>1. DOMAIN a.positions = Contracts /\ Delivers(a, u) /\ gone \in SUBSET T!Held(a)
    BY <1>3 DEF InTime, Paid
  <2>2. \A c \in gone : into[c] \in Nat /\ (into[c] > a.day \/ into[c] > Terms[c].date)
    BY <1>2, <1>12
  <2>3. Fits(a, Made(a, gone, into, day))
    BY <1>2, <2>1, <2>2, DeliveriesFit
  <2> QED BY <1>7, <2>3 DEF Fits
<1>14. b.shares = T!SharesOf(b.deliveries)
  BY <1>6, <1>9, <1>13
<1>15. ASSUME NEW one \in b.deliveries
       PROVE  /\ one.day <= b.day /\ one.day \in Nat
              /\ one.into <= b.day \/ one.day < b.day
              /\ \/ one.into <= b.day /\ one.into <= Terms[one.of].date
                 \/ one.into = Terms[one.of].date + 1 /\ b.positions[one.of] = 0 /\ T!ExpiryTime(one.of) <= u
  <2>1. CASE one \in a.deliveries
    <3>1. one.of \in Contracts /\ one.day \in Nat /\ one.into \in Nat
      BY <2>1 DEF Paid, Delivers, Delivery
    <3>2. /\ one.day <= a.day
          /\ \/ one.into <= a.day /\ one.into <= Terms[one.of].date
             \/ one.into = Terms[one.of].date + 1 /\ a.positions[one.of] = 0 /\ T!ExpiryTime(one.of) <= u
      BY <2>1 DEF Paid, Delivers
    <3>3. one.day < b.day /\ (one.into <= a.day => one.into <= b.day)
      BY <1>2, <1>9, <3>1, <3>2
    <3>4. a.positions[one.of] = 0 => b.positions[one.of] = 0
      BY <1>9, <1>10, <3>1
    <3> QED BY <1>2, <1>9, <3>1, <3>2, <3>3, <3>4
  <2>2. CASE one \in new
    <3>1. one.of \in gone /\ one.into = day /\ one.day = day
      BY <1>8, <2>2
    <3>2. one.of \in Contracts /\ Terms[one.of].date > day
      BY <1>3, <3>1
    <3>3. Terms[one.of].date \in Nat
      BY <3>2, TermsOf
    <3> QED BY <1>2, <1>9, <3>1, <3>2, <3>3
  <2> QED BY <1>9, <2>1, <2>2
<1>16. Delivers(b, u)
  <2>1. \A c \in Contracts : b.positions[c] \in Int
    BY <1>9, <1>10 DEF Paid, Delivers
  <2> QED BY <1>9, <1>13, <1>14, <1>15, <2>1 DEF Delivers
<1>17. Rolled(b)
  BY <1>2, <1>9 DEF Paid, Rolled
<1>18. ASSUME NEW ex \in ExDates PROVE b.dividends[ex] = IF ex <= b.day THEN Payment(T!HeldInto(b, ex)) ELSE <<>>
  <2>0. ex \in Nat
    BY SettlementAssumption DEF SettlementAssumption
  <2>1. CASE ex <= a.day
    <3>1. ex \notin due /\ ex <= b.day
      BY <1>2, <1>4, <1>9, <2>0, <2>1
    <3>2. b.dividends[ex] = Payment(T!HeldInto(a, ex))
      BY <1>6, <1>9, <1>11, <2>1, <3>1 DEF Paid, Pays
    <3>3. \A one \in new : one.into \in Nat /\ one.day \in Nat /\ one.into > a.day /\ one.day >= a.day
      BY <1>2, <1>8
    <3>4. {day} \in SUBSET Nat /\ \A x \in {day} : x > a.day
      BY <1>2
    <3>5. Rolled(a)
      BY DEF Paid
    <3>6. T!HeldInto(b, ex) = T!HeldInto(a, ex)
      BY <1>9, <2>1, <3>3, <3>4, <3>5, HeldStays
    <3> QED BY <3>1, <3>2, <3>6
  <2>2. CASE ~ (ex <= a.day) /\ ex <= day
    <3>1. ex \in due /\ left.dividends[ex] = <<>>
      BY <1>2, <1>4, <1>6, <2>0, <2>2 DEF Paid, Pays
    <3>2. T!Min({x \in b.rolls : x >= ex}) = day
      <4> DEFINE R == {x \in b.rolls : x >= ex}
      <4>1. R = {day}
        <5>1. \A x \in a.rolls : x \in Nat /\ x <= a.day
          BY DEF Paid, Rolled
        <5>2. \A x \in a.rolls : ~ (x >= ex)
          BY <1>2, <2>0, <2>2, <5>1
        <5> QED BY <1>2, <1>9, <2>0, <2>2, <5>2
      <4>2. R \in SUBSET Nat /\ day \in R /\ \A x \in R : day <= x
        BY <1>2, <4>1
      <4> HIDE DEF R
      <4>3. T!Min(R) = day
        BY <4>2, LeastIs
      <4> QED BY <4>3 DEF R
    <3>3. {one \in b.deliveries : one.into <= day \/ one.day < day} = b.deliveries
      BY <1>9, <1>15
    <3>4. T!HeldInto(b, ex) = left.shares
      BY <1>9, <1>14, <3>2, <3>3 DEF T!HeldInto
    <3>5. Append(<<>>, left.shares) = <<left.shares>>
      OBVIOUS
    <3>6. b.dividends[ex] = IF left.shares # 0 THEN <<left.shares>> ELSE <<>>
      BY <1>9, <1>11, <3>1, <3>5
    <3> QED BY <1>9, <2>2, <3>4, <3>6 DEF Payment
  <2>3. CASE ~ (ex <= day)
    <3>1. ex \notin due /\ ~ (ex <= a.day)
      BY <1>2, <1>4, <2>0, <2>3
    <3>2. left.dividends[ex] = <<>>
      BY <1>6, <3>1 DEF Paid, Pays
    <3> QED BY <1>9, <1>11, <2>3, <3>1, <3>2
  <2> QED BY <2>1, <2>2, <2>3
<1>19. Paid(b, u)
  BY <1>16, <1>17, <1>18 DEF Paid, Pays
<1> QED BY <1>1, <1>19

DaysInv == InTime(account) /\ Paid(account, now) /\ venue \in Markets /\ now \in Nat /\ account.day <= T!DateOf(now)

LEMMA UpdateInTime ==
  ASSUME NEW a, InTime(a), NEW d, NEW t \in Nat, Paid(a, t), a.day <= T!DateOf(t), NEW m, NEW assigned
  PROVE  LET b == T!Update(a, d, t, m, assigned) IN InTime(b) /\ Paid(b, t) /\ b.day <= T!DateOf(t)
<1> DEFINE first == IF T!SettledBefore(a, t) THEN T!Roll(a, t, assigned) ELSE a
           quoted == [first EXCEPT !.time = t, !.marked = m]
           recorded == T!Record(quoted, d, t)
           settled == T!SettleExpired(recorded, d, t)
           b == T!Roll(settled, t, assigned)
<1>0. T!DateOf(t) \in Nat
  BY Clock
<1>1. InTime(first) /\ Paid(first, t) /\ first.day <= T!DateOf(t)
  <2>1. CASE first = a
    BY <2>1
  <2>2. CASE T!SettledBefore(a, t) /\ T!DateOf(t) > a.day /\ first = T!RollDay(a, t, assigned)
    <3>1. \A c \in T!Held(a) : ~Terms[c].am => T!DateOf(t) <= Terms[c].date
      BY <2>2, Expiry DEF T!SettledBefore, T!Held
    <3>2. InTime(T!RollDay(a, t, assigned)) /\ T!RollDay(a, t, assigned).day = T!DateOf(t)
      BY <3>1, RollInTime
    <3>3. Paid(T!RollDay(a, t, assigned), t)
      BY <2>2, RollPays
    <3> HIDE DEF first
    <3> QED BY <1>0, <2>2, <3>2, <3>3
  <2> QED BY <2>1, <2>2 DEF T!Roll
<1> HIDE DEF first
<1>2. /\ DOMAIN quoted = AccountFields /\ quoted.day = first.day /\ quoted.time = t
      /\ quoted.positions = first.positions /\ quoted.settled = first.settled
      /\ quoted.shares = first.shares /\ quoted.deliveries = first.deliveries
      /\ quoted.dividends = first.dividends /\ quoted.rolls = first.rolls
  BY <1>1 DEF InTime, AccountFields
<1> HIDE DEF quoted
<1>3. InTime(quoted) /\ Paid(quoted, t)
  <2>1. InTime(quoted)
    BY <1>1, <1>2 DEF InTime
  <2>2. Paid(quoted, t)
    BY <1>1, <1>2 DEF Paid, Delivers, Rolled, Pays, T!HeldInto
  <2> QED BY <2>1, <2>2
<1>4. InTime(recorded) /\ Paid(recorded, t) /\ recorded.day = first.day /\ recorded.time = t
  BY <1>2, <1>3, RecordStays, RecordPays
<1> HIDE DEF recorded
<1>5. InTime(settled) /\ Paid(settled, t) /\ settled.day = first.day /\ settled.time = t
  <2> DEFINE ready == {c \in T!Held(recorded) : t >= T!ExpiryTime(c) /\ T!Known(T!SettlesOn(recorded, d, c))}
             prices == [c \in ready |-> T!SettlesOn(recorded, d, c).price]
  <2>1. settled = T!Settle(recorded, prices, "print")
    BY DEF T!SettleExpired
  <2>2. DOMAIN prices \subseteq T!Held(recorded) /\ \A c \in DOMAIN prices : T!ExpiryTime(c) <= t
    <3>1. \A c \in ready : c \in Contracts /\ t >= T!ExpiryTime(c)
      BY DEF T!Held
    <3> QED BY <3>1, TermsOf
  <2> HIDE DEF prices
  <2>3. LET s == T!Settle(recorded, prices, "print") IN InTime(s) /\ s.day = recorded.day /\ s.time = recorded.time
    BY <1>4, <2>2, SettleInTime
  <2>4. Paid(T!Settle(recorded, prices, "print"), t)
    BY <1>4, <2>2, SettlePays
  <2> QED BY <1>4, <2>1, <2>3, <2>4
<1> HIDE DEF settled
<1>6. InTime(b) /\ Paid(b, t) /\ b.day <= T!DateOf(t)
  <2>1. CASE b = settled
    BY <1>1, <1>5, <2>1
  <2>2. CASE T!Complete(settled) /\ T!DateOf(t) > settled.day /\ b = T!RollDay(settled, t, assigned)
    <3>1. \A c \in T!Held(settled) : ~Terms[c].am => T!DateOf(t) <= Terms[c].date
      BY <1>5, <2>2, Expiry DEF T!Complete, T!Held
    <3>2. InTime(T!RollDay(settled, t, assigned)) /\ T!RollDay(settled, t, assigned).day = T!DateOf(t)
      BY <1>5, <3>1, RollInTime
    <3>3. Paid(T!RollDay(settled, t, assigned), t)
      BY <1>5, <2>2, RollPays
    <3> HIDE DEF b
    <3> QED BY <1>0, <2>2, <3>2, <3>3
  <2> QED BY <2>1, <2>2 DEF T!Roll
<1>7. T!Update(a, d, t, m, assigned) = b
  BY DEF T!Update, b, settled, recorded, quoted, first
<1> QED BY <1>6, <1>7

LEMMA DaysStart == ASSUME T!Init PROVE DaysInv
<1>1. /\ DOMAIN account = AccountFields /\ account.day = 0 /\ account.positions = [c \in Contracts |-> 0]
      /\ account.settled = [c \in Contracts |-> T!Unsettled] /\ now = 0 /\ venue \in Markets
  BY DEF T!Init, AccountFields, T!NoPositions
<1>2. T!Unsettled.day = 0
  BY DEF T!Unsettled
<1>3. \A c \in Contracts : Terms[c].date \in Nat
  BY SettlementAssumption DEF SettlementAssumption
<1>4. InTime(account)
  BY <1>1, <1>2, <1>3 DEF InTime
<1>5. account.day <= T!DateOf(now)
  BY <1>1 DEF T!DateOf, T!DayTicks
<1>6. Paid(account, now)
  <2>1. /\ account.shares = 0 /\ account.deliveries = {} /\ account.rolls = {}
        /\ account.dividends = [date \in ExDates |-> <<>>]
    BY DEF T!Init
  <2>2. Delivers(account, now)
    BY <1>1, <2>1, SharesOfNone, FS_EmptySet DEF Delivers
  <2>3. \A date \in ExDates : ~ (date <= account.day)
    BY <1>1, SettlementAssumption DEF SettlementAssumption
  <2> QED BY <1>1, <2>1, <2>2, <2>3 DEF Paid, Rolled, Pays
<1> QED BY <1>1, <1>4, <1>5, <1>6 DEF DaysInv

LEMMA DaysStep == ASSUME DaysInv, [T!Next]_T!vars PROVE DaysInv'
<1>1. /\ InTime(account) /\ Paid(account, now) /\ venue \in Markets /\ now \in Nat
      /\ account.day <= T!DateOf(now) /\ account.day \in Nat
  BY DEF DaysInv, InTime
<1>2. CASE T!Batch
  <2>1. PICK t \in {now, now + 1, T!At(T!DateOf(now) + 1, T!Open)}, m \in BOOLEAN, assigned \in SUBSET venue.listed :
          account' = T!Update(account, desk', t, m, assigned) /\ now' = t /\ venue' = venue
    BY <1>2 DEF T!Batch
  <2>2. t \in Nat /\ t >= now /\ T!DateOf(t) >= T!DateOf(now) /\ T!DateOf(t) \in Nat /\ T!DateOf(now) \in Nat
    BY <1>1, <2>1 DEF T!DateOf, T!At, T!DayTicks, T!Open
  <2>3. account.day <= T!DateOf(t)
    BY <1>1, <2>2
  <2> DEFINE b == T!Update(account, desk', t, m, assigned)
  <2>4. InTime(b) /\ Paid(b, t) /\ b.day <= T!DateOf(t)
    <3>1. Paid(account, t)
      BY <1>1, <2>2, DeliversLater DEF Paid
    <3> QED BY <1>1, <2>2, <2>3, <3>1, UpdateInTime
  <2> HIDE DEF b
  <2>5. account' = b
    BY <2>1 DEF b
  <2> QED BY <1>1, <2>1, <2>2, <2>4, <2>5 DEF DaysInv
<1>3. CASE T!Trade
  <2>1. PICK c \in venue.listed, position \in {-1, 1} :
          /\ now < T!ExpiryTime(c) /\ account' = [account EXCEPT !.positions[c] = position, !.time = now]
          /\ venue' = venue /\ now' = now
    BY <1>3 DEF T!Trade
  <2>2. c \in Contracts
    BY <1>1, SettlementAssumption DEF SettlementAssumption
  <2>3. T!DateOf(now) <= Terms[c].date /\ Terms[c].date \in Nat /\ T!DateOf(now) \in Nat
    BY <1>1, <2>1, <2>2, Expiry, Clock, SettlementAssumption DEF SettlementAssumption
  <2>4. account.day <= Terms[c].date
    BY <1>1, <2>3
  <2>5. /\ DOMAIN account' = AccountFields /\ account'.day = account.day /\ account'.settled = account.settled
        /\ account'.positions = [account.positions EXCEPT ![c] = position]
        /\ account'.shares = account.shares /\ account'.deliveries = account.deliveries
        /\ account'.dividends = account.dividends /\ account'.rolls = account.rolls
    BY <1>1, <2>1 DEF InTime, AccountFields
  <2>6. InTime(account')
    BY <1>1, <2>4, <2>5 DEF InTime
  <2>7. Paid(account', now)
    <3>1. \A x \in Contracts : account'.positions[x] \in Int
      BY <1>1, <2>1, <2>5 DEF Paid, Delivers
    <3>2. ASSUME NEW one \in account.deliveries, account.positions[one.of] = 0, T!ExpiryTime(one.of) <= now
          PROVE  account'.positions[one.of] = 0
      <4>1. one.of # c
        BY <1>1, <2>1, <2>2, <3>2, TermsOf
      <4>2. one.of \in Contracts
        BY <1>1 DEF Paid, Delivers, Delivery
      <4> QED BY <2>5, <3>2, <4>1, <4>2
    <3>3. Delivers(account', now)
      BY <1>1, <2>5, <3>1, <3>2 DEF Paid, Delivers
    <3> QED BY <1>1, <2>5, <3>3 DEF Paid, Rolled, Pays, T!HeldInto
  <2> QED BY <1>1, <2>1, <2>5, <2>6, <2>7 DEF DaysInv
<1>4. CASE T!Import
  <2>1. PICK c \in venue.listed, price \in DayPrices :
          /\ c \in T!Held(account) /\ now >= T!ExpiryTime(c) /\ venue' = venue /\ now' = now
          /\ account' = T!Settle([account EXCEPT !.time = now], [one \in {c} |-> price], "hand")
    BY <1>4 DEF T!Import
  <2> DEFINE a == [account EXCEPT !.time = now]
             prices == [one \in {c} |-> price]
             b == T!Settle(a, prices, "hand")
  <2>2. /\ DOMAIN a = AccountFields /\ a.day = account.day /\ a.positions = account.positions
        /\ a.settled = account.settled /\ a.shares = account.shares /\ a.deliveries = account.deliveries
        /\ a.dividends = account.dividends /\ a.rolls = account.rolls
    BY <1>1 DEF InTime, AccountFields
  <2>3. DOMAIN prices = {c}
    OBVIOUS
  <2>4. account' = b
    BY <2>1
  <2> HIDE DEF a, prices
  <2>5. InTime(a) /\ Paid(a, now)
    <3>1. InTime(a)
      BY <1>1, <2>2 DEF InTime
    <3>2. Paid(a, now)
      BY <1>1, <2>2 DEF Paid, Delivers, Rolled, Pays, T!HeldInto
    <3> QED BY <3>1, <3>2
  <2>6. DOMAIN prices \subseteq T!Held(a) /\ \A one \in DOMAIN prices : T!ExpiryTime(one) <= now
    <3>1. c \in Contracts
      BY <2>1 DEF T!Held
    <3>2. T!ExpiryTime(c) <= now
      BY <1>1, <2>1, <3>1, TermsOf
    <3>3. c \in T!Held(a)
      BY <2>1, <2>2 DEF T!Held
    <3> QED BY <2>3, <3>2, <3>3
  <2>7. InTime(b) /\ Paid(b, now) /\ b.day = a.day
    BY <2>5, <2>6, SettleInTime, SettlePays
  <2> HIDE DEF b
  <2> QED BY <1>1, <2>1, <2>2, <2>4, <2>7 DEF DaysInv
<1>5. CASE T!Restart
  <2>1. account' = account /\ venue' = venue /\ now' = now
    BY <1>5 DEF T!Restart
  <2> QED BY <2>1 DEF DaysInv
<1>6. CASE UNCHANGED T!vars
  <2>1. account' = account /\ venue' = venue /\ now' = now
    BY <1>6 DEF T!vars
  <2> QED BY <2>1 DEF DaysInv
<1> QED BY <1>2, <1>3, <1>4, <1>5, <1>6 DEF T!Next

(* A day ends settled, however the server's clock jumps, quotes go stale and the server restarts:  *)
(* what settles on a close settles in its expiry's day or earlier, since a day does not end before *)
(* what expired in it is settled, and an ex-date pays once, on the shares held into the day that   *)
(* pays it, those delivered by the day before included (session.cpp's advance, roll and            *)
(* pay_dividends).                                                                                 *)
THEOREM DaysAlwaysEndSettled == DaySpec => []DaysEndSettled
<1>1. T!Init => DaysInv
  BY DaysStart
<1>2. DaysInv /\ [T!Next]_T!vars => DaysInv'
  BY DaysStep
<1>3. DaysInv => DaysEndSettled
  <2> SUFFICES ASSUME DaysInv PROVE DaysEndSettled
    OBVIOUS
  <2>1. T!SettledInTime
    BY DEF DaysInv, InTime, T!SettledInTime
  <2>2. \A date \in ExDates : date <= account.day =>
          account.dividends[date] = IF T!HeldInto(account, date) = 0 THEN <<>> ELSE <<T!HeldInto(account, date)>>
    BY DEF DaysInv, Paid, Pays, Payment
  <2> QED BY <2>1, <2>2 DEF DaysEndSettled, T!DaysEndSettled
<1> QED BY <1>1, <1>2, <1>3, PTL DEF DaySpec, T!Spec

-----------------------------------------------------------------------------
(* What a position settles on *)

AnyPrint == [price : DayPrices \union {0}, ts : Nat]
Entry == [kind : {"print", "official", "quotation", "forgotten"}, print : AnyPrint, kept : BOOLEAN]
DeskFields == {"official", "closing", "before", "opening", "quotation"}

\* What is in the log at a time: what was heard by then, of which the account holds on to closes.
Proper(x, t) ==
  /\ x.print.ts <= t
  /\ x.kind # "forgotten" => x.print.price # 0
  /\ x.kind = "official" => T!TickOf(x.print.ts) = T!Close
  /\ x.kept => x.kind \in {"print", "official"} /\ T!TickOf(x.print.ts) >= T!LastMinutes
IsLog(L, t) == L \in Seq(Entry) /\ \A i \in DOMAIN L : Proper(L[i], t)

Officials(L, date) == T!Of(L, "official", date, T!Close, T!DayTicks)
After(L, date) == T!Of(L, "print", date, T!Close, T!DayTicks)
Before(L, date) == T!Of(L, "print", date, T!LastMinutes, T!LastMinutes)
Openings(L, date) == T!Of(L, "print", date, T!Open, T!Open)
Quotations(L, date) == T!Of(L, "quotation", date, T!Open, T!Open)

Earliest(s, m) == m \in s /\ \A x \in s : m <= x
Latest(s, m) == m \in s /\ \A x \in s : x <= m
\* What a desk keeps of some entries: the print of the first, or of the last.
KeepsFirst(print, L, s) == (s = {} => print = T!Nothing) /\ \A m : Earliest(s, m) => print = L[m].print
KeepsLast(print, L, s) == (s = {} => print = T!Nothing) /\ \A m : Latest(s, m) => print = L[m].print
NoneKept(L, s) == \A i \in s : ~L[i].kept

\* The desk keeps what it heard since it started; the log has what accounts hold on to beside it.
DeskTypes(d) == DOMAIN d = DeskFields /\ \A f \in DeskFields : d[f] \in [T!Dates -> AnyPrint]
HeardOn(d, L, date) ==
  /\ IF T!Known(d.official[date]) THEN KeepsLast(d.official[date], L, Officials(L, date)) /\ Officials(L, date) # {}
     ELSE \A i \in Officials(L, date) : L[i].kept
  /\ NoneKept(L, After(L, date)) => KeepsFirst(d.closing[date], L, After(L, date))
  /\ NoneKept(L, Before(L, date)) =>
       IF Before(L, date) = {} THEN ~(T!Known(d.before[date]) /\ T!TickOf(d.before[date].ts) = T!LastMinutes)
       ELSE KeepsLast(d.before[date], L, Before(L, date))
  /\ T!Known(d.before[date]) => T!DateOf(d.before[date].ts) = date /\ T!TickOf(d.before[date].ts) < T!Close
  /\ venue.feed = "demo" => KeepsFirst(d.opening[date], L, Openings(L, date))
  /\ KeepsLast(d.quotation[date], L, Quotations(L, date))
HasHeard(d, L) == DeskTypes(d) /\ \A date \in T!Dates : HeardOn(d, L, date)

\* An event grows the log; what was in it stays, and stays kept.
IsEvent(event, t) ==
  \/ event.kind = "quotes"
  \/ /\ event.kind \in {"print", "official", "quotation"} /\ event.print \in [price : DayPrices, ts : Nat]
     /\ event.print.ts <= t /\ T!DateOf(event.print.ts) \in T!Dates
     /\ event.kind = "official" => T!TickOf(event.print.ts) = T!Close
     /\ event.kind = "quotation" => T!TickOf(event.print.ts) = T!Open
LogGrows(L, M, event) ==
  /\ \A i \in DOMAIN L : M[i].kind = L[i].kind /\ M[i].print = L[i].print /\ (L[i].kept => M[i].kept)
  /\ IF event.kind = "quotes" THEN DOMAIN M = DOMAIN L
     ELSE DOMAIN M = DOMAIN L \union {Len(L) + 1} /\ M[Len(L) + 1].kind = event.kind /\ M[Len(L) + 1].print = event.print
Meets(event, kind, date, from, to) ==
  event.kind = kind /\ T!DateOf(event.print.ts) = date /\ T!TickOf(event.print.ts) \in from .. to

LEMMA TicksOf == ASSUME NEW t \in Nat
                 PROVE  /\ T!DateOf(t) \in Nat /\ T!TickOf(t) \in 0 .. 4 /\ t = T!DateOf(t) * 5 + T!TickOf(t)
                        /\ \A k \in 0 .. 4 : /\ T!At(T!DateOf(t), k) \in Nat /\ T!DateOf(T!At(T!DateOf(t), k)) = T!DateOf(t)
                                             /\ T!TickOf(T!At(T!DateOf(t), k)) = k
<1> DEFINE q == t \div 5
           r == t % 5
<1>1. q \in Nat /\ r \in 0 .. 4 /\ t = q * 5 + r
  OBVIOUS
<1>2. ASSUME NEW k \in 0 .. 4 PROVE (q * 5 + k) \div 5 = q /\ (q * 5 + k) % 5 = k /\ q * 5 + k \in Nat
  <2> HIDE DEF q, r
  <2> QED BY <1>1
<1> QED BY <1>1, <1>2 DEF T!DateOf, T!TickOf, T!At, T!DayTicks

LEMMA InOrder == ASSUME NEW t \in Nat, NEW u \in Nat, t <= u PROVE T!DateOf(t) <= T!DateOf(u)
BY DEF T!DateOf, T!DayTicks

LEMMA OfIn == ASSUME NEW L \in Seq(Entry), NEW kind, NEW date, NEW from, NEW to
              PROVE  T!Of(L, kind, date, from, to) \subseteq 1 .. Len(L) /\ Len(L) \in Nat
BY DEF T!Of

LEMMA OfGrown ==
  ASSUME NEW L \in Seq(Entry), NEW M, NEW event, LogGrows(L, M, event), NEW kind, kind # "quotes", NEW date, NEW from, NEW to
  PROVE  T!Of(M, kind, date, from, to) =
           T!Of(L, kind, date, from, to) \union (IF Meets(event, kind, date, from, to) THEN {Len(L) + 1} ELSE {})
<1>1. DOMAIN L = 1 .. Len(L) /\ Len(L) \in Nat
  OBVIOUS
<1>2. CASE event.kind = "quotes"
  BY <1>2 DEF LogGrows, Meets, T!Of
<1>3. CASE event.kind # "quotes"
  <2>1. /\ DOMAIN M = DOMAIN L \union {Len(L) + 1} /\ M[Len(L) + 1].kind = event.kind /\ M[Len(L) + 1].print = event.print
        /\ \A i \in DOMAIN L : M[i].kind = L[i].kind /\ M[i].print = L[i].print
    BY <1>3 DEF LogGrows
  <2> QED BY <1>1, <2>1 DEF Meets, T!Of
<1> QED BY <1>2, <1>3

LEMMA FirstGrown == ASSUME NEW n \in Nat, NEW s \in SUBSET (1 .. n), NEW x \in SUBSET {n + 1}, NEW m, Earliest(s \union x, m)
                    PROVE  IF s = {} THEN m = n + 1 /\ x # {} ELSE Earliest(s, m)
BY DEF Earliest

LEMMA LastGrown == ASSUME NEW n \in Nat, NEW s \in SUBSET (1 .. n), NEW x \in SUBSET {n + 1}, NEW m, Latest(s \union x, m)
                   PROVE  IF x = {} THEN Latest(s, m) ELSE m = n + 1
BY DEF Latest

LEMMA HasFirst == ASSUME NEW s \in SUBSET Nat, s # {} PROVE \E m \in s : Earliest(s, m)
BY LeastNumber DEF Earliest

LEMMA HasLast == ASSUME NEW n \in Nat, NEW s \in SUBSET (0 .. n), s # {} PROVE \E m \in s : Latest(s, m)
<1> DEFINE flipped == {n - x : x \in s}
<1>1. flipped \subseteq Nat /\ flipped # {}
  <2>1. \A x \in s : n - x \in Nat
    OBVIOUS
  <2> QED BY <2>1
<1> HIDE DEF flipped
<1>2. PICK u \in flipped : \A v \in flipped : u <= v
  BY <1>1, LeastNumber
<1>3. PICK m \in s : u = n - m
  BY DEF flipped
<1>4. ASSUME NEW x \in s PROVE x <= m
  <2>1. n - x \in flipped
    BY DEF flipped
  <2> QED BY <1>2, <1>3, <2>1
<1> QED BY <1>4 DEF Latest

\* What is kept of some entries, when the log grows and the desk follows.
LEMMA FirstFollows ==
  ASSUME NEW L \in Seq(Entry), NEW M, NEW event, NEW t, LogGrows(L, M, event), IsEvent(event, t), NEW s \in SUBSET (1 .. Len(L)),
         NEW x \in SUBSET {Len(L) + 1}, x # {} => event.kind # "quotes", NEW p, KeepsFirst(p, L, s), NEW q,
         \A m \in s : T!Known(L[m].print),
         q = IF x # {} /\ ~T!Known(p) THEN event.print ELSE p
  PROVE  KeepsFirst(q, M, s \union x)
<1>1. DOMAIN L = 1 .. Len(L) /\ Len(L) \in Nat
  OBVIOUS
<1>2. CASE s = {} /\ x = {}
  BY <1>2 DEF KeepsFirst, Earliest
<1>3. CASE s = {} /\ x # {}
  <2>1. q = event.print
    BY <1>3 DEF KeepsFirst, T!Known
  <2>2. M[Len(L) + 1].print = event.print
    BY <1>3 DEF LogGrows
  <2>3. ASSUME NEW m, Earliest(s \union x, m) PROVE m = Len(L) + 1
    BY <1>1, <1>3, <2>3 DEF Earliest
  <2> QED BY <1>3, <2>1, <2>2, <2>3 DEF KeepsFirst
<1>4. CASE s # {}
  <2>1. PICK u \in s : Earliest(s, u)
    BY <1>1, <1>4, HasFirst
  <2>2. p = L[u].print /\ T!Known(p) /\ q = p
    BY <2>1 DEF KeepsFirst
  <2>3. ASSUME NEW m, Earliest(s \union x, m) PROVE q = M[m].print
    <3>1. Earliest(s, m)
      BY <1>1, <1>4, <2>3, FirstGrown
    <3>2. m \in DOMAIN L /\ p = L[m].print
      BY <1>1, <3>1 DEF Earliest, KeepsFirst
    <3> QED BY <2>2, <3>2 DEF LogGrows
  <2> QED BY <1>4, <2>3 DEF KeepsFirst
<1> QED BY <1>2, <1>3, <1>4

LEMMA LastFollows ==
  ASSUME NEW L \in Seq(Entry), NEW M, NEW event, NEW t, LogGrows(L, M, event), IsEvent(event, t), NEW s \in SUBSET (1 .. Len(L)),
         NEW x \in SUBSET {Len(L) + 1}, x # {} => event.kind # "quotes", NEW p, x = {} => KeepsLast(p, L, s), NEW q,
         q = IF x # {} THEN event.print ELSE p
  PROVE  KeepsLast(q, M, s \union x)
<1>1. DOMAIN L = 1 .. Len(L) /\ Len(L) \in Nat
  OBVIOUS
<1>2. CASE x = {}
  <2>1. ASSUME NEW m, Latest(s, m) PROVE q = M[m].print
    <3>1. m \in DOMAIN L /\ p = L[m].print
      BY <1>1, <1>2, <2>1 DEF Latest, KeepsLast
    <3> QED BY <1>2, <3>1 DEF LogGrows
  <2> QED BY <1>2, <2>1 DEF KeepsLast
<1>3. CASE x # {}
  <2>1. M[Len(L) + 1].print = event.print
    BY <1>3 DEF LogGrows
  <2>2. ASSUME NEW m, Latest(s \union x, m) PROVE m = Len(L) + 1
    BY <1>1, <1>3, <2>2, LastGrown
  <2> QED BY <1>3, <2>1, <2>2 DEF KeepsLast
<1> QED BY <1>2, <1>3

LEMMA KnownPrint == ASSUME NEW p \in AnyPrint, p.price # 0 PROVE T!Known(p)
BY DEF AnyPrint, T!Known, T!Nothing

LEMMA EventKnown == ASSUME NEW event, NEW t, IsEvent(event, t), event.kind # "quotes"
                    PROVE  /\ event.print \in AnyPrint /\ T!Known(event.print) /\ event.print.ts \in Nat
                           /\ T!DateOf(event.print.ts) \in T!Dates /\ T!TickOf(event.print.ts) \in 0 .. 4
<1>1. event.print \in [price : DayPrices, ts : Nat]
  BY DEF IsEvent
<1>2. event.print \in AnyPrint /\ event.print.price # 0 /\ event.print.ts \in Nat
  BY <1>1, SettlementAssumption DEF SettlementAssumption, AnyPrint
<1> QED BY <1>2, KnownPrint, TicksOf DEF IsEvent

\* What the desk has of each date after an event.
LEMMA DeskAfter ==
  ASSUME NEW d, DeskTypes(d), NEW event, NEW t, IsEvent(event, t)
  PROVE  LET c == T!Heard(d, event) IN
         /\ DeskTypes(c)
         /\ \A date \in T!Dates :
              /\ c.official[date] = IF Meets(event, "official", date, T!Close, T!DayTicks) THEN event.print ELSE d.official[date]
              /\ c.closing[date] = IF Meets(event, "print", date, T!Close, T!DayTicks) /\ ~T!Known(d.closing[date])
                                   THEN event.print ELSE d.closing[date]
              /\ c.before[date] =
                   IF Meets(event, "print", date, T!Open, T!LastMinutes)
                      /\ ~(T!Known(d.before[date]) /\ event.print.ts < d.before[date].ts)
                   THEN event.print ELSE d.before[date]
              /\ venue.feed = "demo" =>
                   c.opening[date] = IF Meets(event, "print", date, T!Open, T!Open) /\ ~T!Known(d.opening[date])
                                     THEN event.print ELSE d.opening[date]
              /\ c.quotation[date] = IF Meets(event, "quotation", date, T!Open, T!Open) THEN event.print ELSE d.quotation[date]
<1> DEFINE c == T!Heard(d, event)
           p == event.print
           on == T!DateOf(p.ts)
<1>0. /\ DOMAIN d = DeskFields /\ d.official \in [T!Dates -> AnyPrint] /\ d.closing \in [T!Dates -> AnyPrint]
      /\ d.before \in [T!Dates -> AnyPrint] /\ d.opening \in [T!Dates -> AnyPrint] /\ d.quotation \in [T!Dates -> AnyPrint]
  BY DEF DeskTypes, DeskFields
<1> DEFINE Says == /\ DOMAIN c = DeskFields
                   /\ c.official \in [T!Dates -> AnyPrint] /\ c.closing \in [T!Dates -> AnyPrint]
                   /\ c.before \in [T!Dates -> AnyPrint] /\ c.opening \in [T!Dates -> AnyPrint] /\ c.quotation \in [T!Dates -> AnyPrint]
<1>1. CASE event.kind = "quotes"
  <2>1. c = d
    BY <1>1 DEF T!Heard
  <2>2. \A kind, date, from, to : kind # "quotes" => ~Meets(event, kind, date, from, to)
    BY <1>1 DEF Meets
  <2> HIDE DEF c
  <2> QED BY <2>1, <2>2 DEF c
<1>2. CASE event.kind = "official"
  <2>1. on \in T!Dates /\ p \in AnyPrint /\ T!TickOf(p.ts) = T!Close
    BY <1>2, EventKnown DEF IsEvent
  <2>2. c = [d EXCEPT !.official = [d.official EXCEPT ![on] = p]]
    BY <1>2 DEF T!Heard
  <2>3. /\ DOMAIN c = DeskFields /\ c.official = [d.official EXCEPT ![on] = p] /\ c.closing = d.closing
        /\ c.before = d.before /\ c.opening = d.opening /\ c.quotation = d.quotation
    BY <1>0, <2>2 DEF DeskFields
  <2> HIDE DEF c
  <2>4. \A date : Meets(event, "official", date, T!Close, T!DayTicks) <=> date = on
    BY <1>2, <2>1 DEF Meets, T!Close, T!DayTicks
  <2>5. \A date, from, to : ~Meets(event, "print", date, from, to) /\ ~Meets(event, "quotation", date, from, to)
    BY <1>2 DEF Meets
  <2>6. DeskTypes(c)
    BY <1>0, <2>1, <2>3 DEF DeskTypes, DeskFields
  <2> HIDE DEF on, p
  <2> QED BY <1>0, <2>3, <2>4, <2>5, <2>6 DEF c, p
<1>3. CASE event.kind = "quotation"
  <2>1. on \in T!Dates /\ p \in AnyPrint /\ T!TickOf(p.ts) = T!Open
    BY <1>3, EventKnown DEF IsEvent
  <2>2. c = [d EXCEPT !.quotation = [d.quotation EXCEPT ![on] = p]]
    BY <1>3 DEF T!Heard
  <2>3. /\ DOMAIN c = DeskFields /\ c.quotation = [d.quotation EXCEPT ![on] = p] /\ c.closing = d.closing
        /\ c.before = d.before /\ c.opening = d.opening /\ c.official = d.official
    BY <1>0, <2>2 DEF DeskFields
  <2> HIDE DEF c
  <2>4. \A date : Meets(event, "quotation", date, T!Open, T!Open) <=> date = on
    BY <1>3, <2>1 DEF Meets, T!Open
  <2>5. \A date, from, to : ~Meets(event, "print", date, from, to) /\ ~Meets(event, "official", date, from, to)
    BY <1>3 DEF Meets
  <2>6. DeskTypes(c)
    BY <1>0, <2>1, <2>3 DEF DeskTypes, DeskFields
  <2> HIDE DEF on, p
  <2> QED BY <1>0, <2>3, <2>4, <2>5, <2>6 DEF c, p
<1>4. CASE event.kind = "print"
  <2>1. on \in T!Dates /\ p \in AnyPrint /\ T!TickOf(p.ts) \in 0 .. 4
    BY <1>4, EventKnown
  <2> DEFINE opened == IF venue.feed = "demo" /\ T!TickOf(p.ts) = T!Open
                       THEN [d EXCEPT !.opening = T!KeepFirst(d.opening, on, p)] ELSE d
             opening == IF venue.feed = "demo" /\ T!TickOf(p.ts) = T!Open THEN T!KeepFirst(d.opening, on, p) ELSE d.opening
             closing == IF T!TickOf(p.ts) >= T!Close THEN T!KeepFirst(d.closing, on, p) ELSE d.closing
             before == IF T!TickOf(p.ts) >= T!Close THEN d.before ELSE T!KeepLatest(d.before, on, p)
  <2>2. c = IF T!TickOf(p.ts) >= T!Close THEN [opened EXCEPT !.closing = T!KeepFirst(opened.closing, on, p)]
            ELSE [opened EXCEPT !.before = T!KeepLatest(opened.before, on, p)]
    BY <1>4 DEF T!Heard, T!Printed
  <2>3. /\ DOMAIN opened = DeskFields /\ opened.official = d.official /\ opened.closing = d.closing
        /\ opened.before = d.before /\ opened.opening = opening /\ opened.quotation = d.quotation
    BY <1>0 DEF DeskFields
  <2> HIDE DEF opened, opening
  <2>4. /\ DOMAIN c = DeskFields /\ c.official = d.official /\ c.closing = closing
        /\ c.before = before /\ c.opening = opening /\ c.quotation = d.quotation
    <3>1. CASE T!TickOf(p.ts) >= T!Close
      <4>1. c = [opened EXCEPT !.closing = T!KeepFirst(d.closing, on, p)] /\ closing = T!KeepFirst(d.closing, on, p) /\ before = d.before
        BY <2>2, <2>3, <3>1
      <4> HIDE DEF c, closing, before
      <4> QED BY <2>3, <4>1 DEF DeskFields
    <3>2. CASE ~(T!TickOf(p.ts) >= T!Close)
      <4>1. c = [opened EXCEPT !.before = T!KeepLatest(d.before, on, p)] /\ closing = d.closing /\ before = T!KeepLatest(d.before, on, p)
        BY <2>2, <2>3, <3>2
      <4> HIDE DEF c, closing, before
      <4> QED BY <2>3, <4>1 DEF DeskFields
    <3> QED BY <3>1, <3>2
  <2> HIDE DEF c
  <2>5. \A date, from, to : ~Meets(event, "official", date, from, to) /\ ~Meets(event, "quotation", date, from, to)
    BY <1>4 DEF Meets
  <2>6. \A date : /\ Meets(event, "print", date, T!Close, T!DayTicks) <=> date = on /\ T!TickOf(p.ts) >= T!Close
                  /\ Meets(event, "print", date, T!Open, T!LastMinutes) <=> date = on /\ ~(T!TickOf(p.ts) >= T!Close)
                  /\ Meets(event, "print", date, T!Open, T!Open) <=> date = on /\ T!TickOf(p.ts) = T!Open
    BY <1>4, <2>1 DEF Meets, T!Open, T!Close, T!LastMinutes, T!DayTicks
  <2>7. \A prints \in [T!Dates -> AnyPrint] :
          /\ T!KeepFirst(prints, on, p) \in [T!Dates -> AnyPrint] /\ T!KeepLatest(prints, on, p) \in [T!Dates -> AnyPrint]
          /\ \A date \in T!Dates :
               /\ T!KeepFirst(prints, on, p)[date] = IF date = on /\ ~T!Known(prints[date]) THEN p ELSE prints[date]
               /\ T!KeepLatest(prints, on, p)[date] =
                    IF date = on /\ ~(T!Known(prints[date]) /\ p.ts < prints[date].ts) THEN p ELSE prints[date]
    <3> HIDE DEF p, on
    <3> QED BY <2>1 DEF T!KeepFirst, T!KeepLatest
  <2>8. opening \in [T!Dates -> AnyPrint] /\ closing \in [T!Dates -> AnyPrint] /\ before \in [T!Dates -> AnyPrint]
    BY <1>0, <2>7 DEF opening
  <2>9. DeskTypes(c)
    BY <1>0, <2>4, <2>8 DEF DeskTypes, DeskFields
  <2>10. \A date \in T!Dates :
           /\ closing[date] = IF Meets(event, "print", date, T!Close, T!DayTicks) /\ ~T!Known(d.closing[date]) THEN p ELSE d.closing[date]
           /\ before[date] = IF Meets(event, "print", date, T!Open, T!LastMinutes)
                                /\ ~(T!Known(d.before[date]) /\ p.ts < d.before[date].ts) THEN p ELSE d.before[date]
           /\ venue.feed = "demo" =>
                opening[date] = IF Meets(event, "print", date, T!Open, T!Open) /\ ~T!Known(d.opening[date]) THEN p ELSE d.opening[date]
    BY <1>0, <2>6, <2>7 DEF opening
  <2> HIDE DEF opening, closing, before, on, p
  <2> QED BY <2>4, <2>5, <2>9, <2>10 DEF c, p
<1> QED BY <1>1, <1>2, <1>3, <1>4 DEF IsEvent

LEMMA EntryKnown ==
  ASSUME NEW t, NEW L, IsLog(L, t), NEW kind \in {"print", "official", "quotation"}, NEW date, NEW from, NEW to
  PROVE  \A i \in T!Of(L, kind, date, from, to) :
           /\ i \in DOMAIN L /\ L[i].kind = kind /\ T!Known(L[i].print) /\ L[i].print \in AnyPrint /\ L[i].print.ts \in Nat
           /\ L[i].print.ts <= t /\ T!DateOf(L[i].print.ts) = date /\ T!TickOf(L[i].print.ts) \in from .. to
<1> SUFFICES ASSUME NEW i \in T!Of(L, kind, date, from, to)
             PROVE  /\ i \in DOMAIN L /\ L[i].kind = kind /\ T!Known(L[i].print) /\ L[i].print \in AnyPrint /\ L[i].print.ts \in Nat
                    /\ L[i].print.ts <= t /\ T!DateOf(L[i].print.ts) = date /\ T!TickOf(L[i].print.ts) \in from .. to
  OBVIOUS
<1>1. i \in DOMAIN L /\ L[i].kind = kind /\ T!DateOf(L[i].print.ts) = date /\ T!TickOf(L[i].print.ts) \in from .. to
  BY DEF T!Of
<1>2. L[i] \in Entry /\ Proper(L[i], t)
  BY <1>1 DEF IsLog
<1>3. L[i].print \in AnyPrint /\ L[i].print.ts \in Nat
  BY <1>2 DEF Entry, AnyPrint
<1> QED BY <1>1, <1>2, <1>3, KnownPrint DEF Proper

\* A desk has heard what the log has of it, after each event too.
LEMMA HearingGrows ==
  ASSUME NEW d, NEW L, NEW t, IsLog(L, t), HasHeard(d, L), NEW event, NEW u, IsEvent(event, u), NEW M, LogGrows(L, M, event)
  PROVE  HasHeard(T!Heard(d, event), M)
<1> DEFINE c == T!Heard(d, event)
<1>0. DeskTypes(d) /\ L \in Seq(Entry)
  BY DEF HasHeard, IsLog
<1>1. DeskTypes(c)
  BY <1>0, DeskAfter
<1>2. ASSUME NEW date \in T!Dates PROVE HeardOn(c, M, date)
  <2> DEFINE Fresh(kind, from, to) == IF Meets(event, kind, date, from, to) THEN {Len(L) + 1} ELSE {}
  <2>1. HeardOn(d, L, date)
    BY DEF HasHeard
  <2>2. /\ Officials(M, date) = Officials(L, date) \union Fresh("official", T!Close, T!DayTicks)
        /\ After(M, date) = After(L, date) \union Fresh("print", T!Close, T!DayTicks)
        /\ Before(M, date) = Before(L, date) \union Fresh("print", T!LastMinutes, T!LastMinutes)
        /\ Openings(M, date) = Openings(L, date) \union Fresh("print", T!Open, T!Open)
        /\ Quotations(M, date) = Quotations(L, date) \union Fresh("quotation", T!Open, T!Open)
    BY <1>0, OfGrown DEF Officials, After, Before, Openings, Quotations
  <2>3. /\ Officials(L, date) \in SUBSET (1 .. Len(L)) /\ After(L, date) \in SUBSET (1 .. Len(L))
        /\ Before(L, date) \in SUBSET (1 .. Len(L)) /\ Openings(L, date) \in SUBSET (1 .. Len(L))
        /\ Quotations(L, date) \in SUBSET (1 .. Len(L)) /\ Len(L) \in Nat
    BY <1>0, OfIn DEF Officials, After, Before, Openings, Quotations
  <2>4. \A kind \in {"print", "official", "quotation"} : \A from, to :
          Fresh(kind, from, to) \in SUBSET {Len(L) + 1} /\ (Fresh(kind, from, to) # {} => event.kind # "quotes")
    BY DEF Meets
  <2>5. \A kind, from, to : Fresh(kind, from, to) # {} <=> Meets(event, kind, date, from, to)
    OBVIOUS
  <2> HIDE DEF Fresh
  <2>6. IF T!Known(c.official[date]) THEN KeepsLast(c.official[date], M, Officials(M, date)) /\ Officials(M, date) # {}
        ELSE \A i \in Officials(M, date) : M[i].kept
    <3> DEFINE x == Fresh("official", T!Close, T!DayTicks)
    <3>1. c.official[date] = IF x # {} THEN event.print ELSE d.official[date]
      BY <1>0, <2>5, DeskAfter
    <3>2. CASE x # {}
      <4>1. T!Known(c.official[date])
        BY <2>4, <3>1, <3>2, EventKnown
      <4>2. KeepsLast(c.official[date], M, Officials(L, date) \union x)
        BY <1>0, <2>3, <2>4, <3>1, <3>2, LastFollows
      <4> QED BY <2>2, <3>2, <4>1, <4>2
    <3>3. CASE x = {}
      <4>1. c.official[date] = d.official[date] /\ Officials(M, date) = Officials(L, date)
        BY <2>2, <3>1, <3>3
      <4>2. CASE T!Known(d.official[date])
        <5>1. KeepsLast(d.official[date], L, Officials(L, date)) /\ Officials(L, date) # {}
          BY <2>1, <4>2 DEF HeardOn
        <5>2. KeepsLast(c.official[date], M, Officials(L, date) \union x)
          BY <1>0, <2>3, <2>4, <3>1, <5>1, LastFollows
        <5> QED BY <2>2, <4>1, <4>2, <5>1, <5>2
      <4>3. CASE ~T!Known(d.official[date])
        <5>1. \A i \in Officials(L, date) : L[i].kept /\ i \in DOMAIN L
          BY <1>0, <2>1, <2>3, <4>3 DEF HeardOn
        <5> QED BY <4>1, <4>3, <5>1 DEF LogGrows
      <4> QED BY <4>2, <4>3
    <3> QED BY <3>2, <3>3
  <2>7. ASSUME NEW s \in SUBSET (1 .. Len(L)), NEW x, NoneKept(M, s \union x) PROVE NoneKept(L, s)
    <3>1. \A i \in s : i \in DOMAIN L
      BY <1>0
    <3> QED BY <2>7, <3>1 DEF NoneKept, LogGrows
  <2>8. ASSUME NoneKept(M, After(M, date)) PROVE KeepsFirst(c.closing[date], M, After(M, date))
    <3> DEFINE x == Fresh("print", T!Close, T!DayTicks)
    <3>1. KeepsFirst(d.closing[date], L, After(L, date))
      BY <2>1, <2>2, <2>3, <2>7, <2>8 DEF HeardOn
    <3>2. c.closing[date] = IF x # {} /\ ~T!Known(d.closing[date]) THEN event.print ELSE d.closing[date]
      BY <1>0, <2>5, DeskAfter
    <3>3. \A m \in After(L, date) : T!Known(L[m].print)
      BY EntryKnown DEF After
    <3>4. KeepsFirst(c.closing[date], M, After(L, date) \union x)
      <4> DEFINE s == After(L, date)
                 p == d.closing[date]
                 q == c.closing[date]
      <4>1. s \in SUBSET (1 .. Len(L)) /\ x \in SUBSET {Len(L) + 1} /\ (x # {} => event.kind # "quotes")
        BY <2>3, <2>4
      <4>2. KeepsFirst(p, L, s) /\ (\A m \in s : T!Known(L[m].print)) /\ q = IF x # {} /\ ~T!Known(p) THEN event.print ELSE p
        BY <3>1, <3>2, <3>3
      <4> HIDE DEF s, p, q, x
      <4>3. KeepsFirst(q, M, s \union x)
        BY <1>0, <4>1, <4>2, FirstFollows
      <4> QED BY <4>3 DEF s, q
    <3> QED BY <2>2, <3>4
  <2>9. venue.feed = "demo" => KeepsFirst(c.opening[date], M, Openings(M, date))
    <3> SUFFICES ASSUME venue.feed = "demo" PROVE KeepsFirst(c.opening[date], M, Openings(M, date))
      OBVIOUS
    <3> DEFINE x == Fresh("print", T!Open, T!Open)
               s == Openings(L, date)
               p == d.opening[date]
               q == c.opening[date]
    <3>1. s \in SUBSET (1 .. Len(L)) /\ x \in SUBSET {Len(L) + 1} /\ (x # {} => event.kind # "quotes")
      BY <2>3, <2>4
    <3>2. KeepsFirst(p, L, s)
      BY <2>1 DEF HeardOn
    <3>3. \A m \in s : T!Known(L[m].print)
      BY EntryKnown DEF Openings
    <3>4. q = IF x # {} /\ ~T!Known(p) THEN event.print ELSE p
      BY <1>0, <2>5, DeskAfter
    <3> HIDE DEF s, p, q, x
    <3>5. KeepsFirst(q, M, s \union x)
      BY <1>0, <3>1, <3>2, <3>3, <3>4, FirstFollows
    <3> QED BY <2>2, <3>5 DEF s, q, x
  <2>10. KeepsLast(c.quotation[date], M, Quotations(M, date))
    <3> DEFINE x == Fresh("quotation", T!Open, T!Open)
    <3>1. c.quotation[date] = IF x # {} THEN event.print ELSE d.quotation[date]
      BY <1>0, <2>5, DeskAfter
    <3>2. KeepsLast(d.quotation[date], L, Quotations(L, date))
      BY <2>1 DEF HeardOn
    <3>3. KeepsLast(c.quotation[date], M, Quotations(L, date) \union x)
      BY <1>0, <2>3, <2>4, <3>1, <3>2, LastFollows
    <3> QED BY <2>2, <3>3
  <2> DEFINE later == Meets(event, "print", date, T!Open, T!LastMinutes)
                        /\ ~(T!Known(d.before[date]) /\ event.print.ts < d.before[date].ts)
  <2>11. c.before[date] = IF later THEN event.print ELSE d.before[date]
    BY <1>0, DeskAfter
  <2>12. T!Known(d.before[date]) => /\ d.before[date].ts \in Nat /\ T!DateOf(d.before[date].ts) = date
                                    /\ T!TickOf(d.before[date].ts) < T!Close
    BY <1>0, <2>1 DEF HeardOn, DeskTypes, DeskFields, AnyPrint
  <2>13. Meets(event, "print", date, T!Open, T!LastMinutes) =>
           /\ event.print.ts \in Nat /\ T!DateOf(event.print.ts) = date /\ T!TickOf(event.print.ts) \in {0, 1}
           /\ T!Known(event.print)
    BY EventKnown DEF Meets, T!Open, T!LastMinutes
  <2>14. T!Known(c.before[date]) => T!DateOf(c.before[date].ts) = date /\ T!TickOf(c.before[date].ts) < T!Close
    BY <2>11, <2>12, <2>13 DEF T!Close
  <2>15. Fresh("print", T!LastMinutes, T!LastMinutes) # {} => later /\ T!TickOf(event.print.ts) = T!LastMinutes
    <3> SUFFICES ASSUME Fresh("print", T!LastMinutes, T!LastMinutes) # {} PROVE later /\ T!TickOf(event.print.ts) = T!LastMinutes
      OBVIOUS
    <3>1. event.kind = "print" /\ T!DateOf(event.print.ts) = date /\ T!TickOf(event.print.ts) = 1
      BY <2>5 DEF Meets, T!LastMinutes
    <3>2. Meets(event, "print", date, T!Open, T!LastMinutes)
      BY <3>1 DEF Meets, T!LastMinutes, T!Open
    <3>3. ASSUME T!Known(d.before[date]) PROVE ~(event.print.ts < d.before[date].ts)
      <4>1. /\ event.print.ts = T!DateOf(event.print.ts) * 5 + T!TickOf(event.print.ts)
            /\ d.before[date].ts = T!DateOf(d.before[date].ts) * 5 + T!TickOf(d.before[date].ts)
            /\ T!TickOf(d.before[date].ts) \in 0 .. 4
        BY <2>12, <2>13, <3>2, <3>3, TicksOf
      <4>2. T!DateOf(d.before[date].ts) = date /\ T!TickOf(d.before[date].ts) < 2
        BY <2>12, <3>3 DEF T!Close
      <4>3. date \in Nat
        BY <2>13, <3>2, TicksOf
      <4> QED BY <3>1, <4>1, <4>2, <4>3
    <3> QED BY <3>1, <3>2, <3>3 DEF T!LastMinutes
  <2>16. ASSUME NoneKept(M, Before(M, date))
         PROVE  IF Before(M, date) = {} THEN ~(T!Known(c.before[date]) /\ T!TickOf(c.before[date].ts) = T!LastMinutes)
                ELSE KeepsLast(c.before[date], M, Before(M, date))
    <3> DEFINE x == Fresh("print", T!LastMinutes, T!LastMinutes)
               s == Before(L, date)
               p == d.before[date]
               q == c.before[date]
    <3>1. s \in SUBSET (1 .. Len(L)) /\ x \in SUBSET {Len(L) + 1} /\ (x # {} => event.kind # "quotes")
      BY <2>3, <2>4
    <3>2. IF s = {} THEN ~(T!Known(p) /\ T!TickOf(p.ts) = T!LastMinutes) ELSE KeepsLast(p, L, s)
      BY <2>1, <2>2, <2>3, <2>7, <2>16 DEF HeardOn
    <3>3. CASE x # {}
      <4>1. q = event.print
        BY <2>11, <2>15, <3>3
      <4> HIDE DEF s, p, q, x
      <4>2. KeepsLast(q, M, s \union x)
        BY <1>0, <3>1, <3>3, <4>1, LastFollows
      <4>3. s \union x # {}
        BY <3>3
      <4> QED BY <2>2, <4>2, <4>3 DEF s, q, x
    <3>4. CASE x = {} /\ s = {}
      <4>1. later => ~(T!TickOf(event.print.ts) = T!LastMinutes)
        <5> SUFFICES ASSUME later, T!TickOf(event.print.ts) = T!LastMinutes PROVE FALSE
          OBVIOUS
        <5>1. Meets(event, "print", date, T!LastMinutes, T!LastMinutes)
          BY DEF Meets, T!LastMinutes
        <5> QED BY <2>5, <3>4, <5>1
      <4>2. ~(T!Known(q) /\ T!TickOf(q.ts) = T!LastMinutes)
        BY <2>11, <3>2, <3>4, <4>1
      <4> QED BY <2>2, <3>4, <4>2
    <3>5. CASE x = {} /\ s # {}
      <4>1. PICK m \in s : Latest(s, m)
        <5>1. s \in SUBSET (0 .. Len(L))
          BY <3>1
        <5> HIDE DEF s
        <5> QED BY <2>3, <3>5, <5>1, HasLast
      <4>2. p = L[m].print /\ T!TickOf(L[m].print.ts) = 1 /\ T!Known(L[m].print)
        <5>1. p = L[m].print
          BY <3>2, <3>5, <4>1 DEF KeepsLast
        <5>2. T!TickOf(L[m].print.ts) \in T!LastMinutes .. T!LastMinutes /\ T!Known(L[m].print)
          BY <4>1, EntryKnown DEF Before
        <5> QED BY <5>1, <5>2 DEF T!LastMinutes
      <4>3. ~later
        <5> SUFFICES ASSUME later PROVE FALSE
          OBVIOUS
        <5>1. T!TickOf(event.print.ts) = 0 /\ event.print.ts \in Nat /\ T!DateOf(event.print.ts) = date
          <6>1. T!TickOf(event.print.ts) # 1
            <7> SUFFICES ASSUME T!TickOf(event.print.ts) = 1 PROVE FALSE
              OBVIOUS
            <7>1. Meets(event, "print", date, T!LastMinutes, T!LastMinutes)
              BY DEF Meets, T!LastMinutes
            <7> QED BY <2>5, <3>5, <7>1
          <6> QED BY <2>13, <6>1
        <5>2. T!Known(p) /\ p.ts \in Nat /\ T!DateOf(p.ts) = date /\ T!TickOf(p.ts) = 1
          BY <2>12, <4>2
        <5>3. event.print.ts = date * 5 + 0 /\ p.ts = date * 5 + 1 /\ date \in Nat
          BY <5>1, <5>2, TicksOf
        <5>4. event.print.ts < p.ts
          BY <5>3
        <5> QED BY <5>2, <5>4
      <4>4. q = p
        BY <2>11, <4>3
      <4>5. KeepsLast(p, L, s)
        BY <3>2, <3>5
      <4> HIDE DEF s, p, q, x, later
      <4>6. KeepsLast(q, M, s \union x)
        BY <1>0, <3>1, <3>5, <4>4, <4>5, LastFollows
      <4>7. s \union x # {}
        BY <3>5
      <4> QED BY <2>2, <4>6, <4>7 DEF s, q, x
    <3> QED BY <3>3, <3>4, <3>5
  <2> HIDE DEF c, later
  <2> QED BY <2>6, <2>8, <2>9, <2>10, <2>14, <2>16 DEF HeardOn
<1> QED BY <1>1, <1>2 DEF HasHeard

-----------------------------------------------------------------------------
(* What an account holds on to *)

HoldsOn(a, date) == \E c \in T!Held(a) : ~Terms[c].am /\ Terms[c].date = date
KeptOf(L, s) == {i \in s : L[i].kept}

\* The close an account recorded is what the entries it holds on to promise, or else it settled on it.
RecordedOn(p, L, date, t, holds) ==
  /\ \A i \in DOMAIN L : L[i].kept /\ T!DateOf(L[i].print.ts) = date => T!Known(p)
  /\ \A m : Latest(KeptOf(L, Officials(L, date)), m) => p.price = L[m].print.price
  /\ NoneKept(L, Officials(L, date)) => \A m : Earliest(After(L, date), m) /\ L[m].kept => p.price = L[m].print.price
  /\ \A m, i : Earliest(After(L, date), m) /\ i \in After(L, date) /\ L[i].kept => L[m].kept
  /\ T!Known(p) /\ NoneKept(L, Officials(L, date)) /\ NoneKept(L, After(L, date)) => t >= T!At(date, T!Waited) /\ ~holds

\* The entries that are marked as kept, and no others.
SameEntries(N, M) == DOMAIN M = DOMAIN N /\ \A i \in DOMAIN N : M[i].kind = N[i].kind /\ M[i].print = N[i].print /\ (N[i].kept => M[i].kept)
MarkedOn(N, M, date, t, holds) ==
  /\ holds => /\ \A i \in Officials(N, date) \union After(N, date) : M[i].kept
              /\ \A i \in Before(N, date) : M[i].kept => N[i].kept \/ t >= T!At(date, T!Waited)
  /\ ~holds => \A i \in DOMAIN N : T!DateOf(N[i].print.ts) = date => (M[i].kept <=> N[i].kept)

LEMMA SameOf == ASSUME NEW N, NEW M, SameEntries(N, M), NEW date
                PROVE  /\ Officials(M, date) = Officials(N, date) /\ After(M, date) = After(N, date)
                       /\ Before(M, date) = Before(N, date)
BY DEF SameEntries, Officials, After, Before, T!Of

\* What an account recorded stands when entries come that it does not hold on to.
LEMMA RecordedStands ==
  ASSUME NEW L, NEW t \in Nat, IsLog(L, t), NEW u \in Nat, t <= u, NEW event, NEW N, LogGrows(L, N, event),
         \A i \in DOMAIN N : N[i].kept => i \in DOMAIN L /\ L[i].kept,
         NEW date \in Nat, NEW p, NEW holds, RecordedOn(p, L, date, t, holds)
  PROVE  RecordedOn(p, N, date, u, holds)
<1>0. L \in Seq(Entry) /\ DOMAIN L = 1 .. Len(L) /\ Len(L) \in Nat
  BY DEF IsLog
<1>1. \A i \in DOMAIN L : N[i].kind = L[i].kind /\ N[i].print = L[i].print /\ (L[i].kept => N[i].kept)
  BY DEF LogGrows
<1>2. /\ Officials(L, date) \subseteq Officials(N, date) /\ After(L, date) \subseteq After(N, date)
      /\ \A i \in Officials(N, date) : N[i].kept => i \in Officials(L, date) /\ L[i].kept
      /\ \A i \in After(N, date) : N[i].kept => i \in After(L, date) /\ L[i].kept
  <2>1. DOMAIN L \subseteq DOMAIN N
    BY DEF LogGrows
  <2>2. \A i \in DOMAIN N : N[i].kept => i \in DOMAIN L /\ L[i].kept
    OBVIOUS
  <2> QED BY <1>1, <2>1, <2>2 DEF Officials, After, T!Of
<1>3. \A i \in Officials(L, date) \union After(L, date) : i \in DOMAIN L
  BY DEF Officials, After, T!Of
<1>4. \A i \in DOMAIN N : N[i].kept /\ T!DateOf(N[i].print.ts) = date => T!Known(p)
  BY <1>1 DEF RecordedOn
<1>5. KeptOf(N, Officials(N, date)) = KeptOf(L, Officials(L, date))
  BY <1>1, <1>2, <1>3 DEF KeptOf
<1>6. ASSUME NEW m, Latest(KeptOf(N, Officials(N, date)), m) PROVE p.price = N[m].print.price
  <2>1. m \in Officials(L, date) /\ p.price = L[m].print.price
    BY <1>5, <1>6 DEF RecordedOn, Latest, KeptOf
  <2> QED BY <1>1, <1>3, <2>1
<1>7. NoneKept(N, Officials(N, date)) => NoneKept(L, Officials(L, date))
  BY <1>1, <1>2, <1>3 DEF NoneKept
<1>8. NoneKept(N, After(N, date)) => NoneKept(L, After(L, date))
  BY <1>1, <1>2, <1>3 DEF NoneKept
<1>9. ASSUME NEW m, Earliest(After(N, date), m), NEW i \in After(N, date), N[i].kept
      PROVE  Earliest(After(L, date), m) /\ L[m].kept /\ m \in DOMAIN L /\ N[m].kept
  <2>1. i \in After(L, date) /\ L[i].kept
    BY <1>2, <1>3, <1>9
  <2>2. PICK k \in After(L, date) : Earliest(After(L, date), k)
    <3>1. After(L, date) \in SUBSET Nat /\ After(L, date) # {}
      BY <1>0, <1>3, <2>1
    <3> QED BY <3>1, HasFirst
  <2>3. L[k].kept /\ k \in DOMAIN L
    BY <1>3, <2>1, <2>2 DEF RecordedOn
  <2>4. m <= k /\ m \in After(N, date)
    BY <1>2, <1>9, <2>2 DEF Earliest
  <2>5. m \in DOMAIN L
    <3>1. DOMAIN N \subseteq DOMAIN L \union {Len(L) + 1}
      BY DEF LogGrows
    <3>2. m \in DOMAIN N
      BY <2>4 DEF After, T!Of
    <3> QED BY <1>0, <2>3, <2>4, <3>1, <3>2
  <2>6. m \in After(L, date)
    BY <1>1, <2>4, <2>5 DEF After, T!Of
  <2>7. m = k
    BY <1>0, <2>2, <2>3, <2>4, <2>5, <2>6 DEF Earliest
  <2> QED BY <1>1, <2>2, <2>3, <2>7
<1>10. ASSUME NoneKept(N, Officials(N, date)), NEW m, Earliest(After(N, date), m), N[m].kept PROVE p.price = N[m].print.price
  <2>1. m \in After(N, date)
    BY <1>10 DEF Earliest
  <2>2. Earliest(After(L, date), m) /\ L[m].kept /\ m \in DOMAIN L
    BY <1>9, <1>10, <2>1
  <2>3. p.price = L[m].print.price
    BY <1>7, <1>10, <2>2 DEF RecordedOn
  <2> QED BY <1>1, <2>2, <2>3
<1>11. ASSUME T!Known(p), NoneKept(N, Officials(N, date)), NoneKept(N, After(N, date))
       PROVE  u >= T!At(date, T!Waited) /\ ~holds
  <2>1. t >= T!At(date, T!Waited) /\ ~holds
    BY <1>7, <1>8, <1>11 DEF RecordedOn
  <2>2. T!At(date, T!Waited) \in Nat
    BY DEF T!At, T!DayTicks, T!Waited
  <2> QED BY <2>1, <2>2
<1> QED BY <1>4, <1>6, <1>9, <1>10, <1>11 DEF RecordedOn

\* What a position that is held on a close should settle on.
PromisedOn(p, L, date, t) ==
  IF Officials(L, date) # {} THEN T!Known(p) /\ \A m : Latest(Officials(L, date), m) => p.price = L[m].print.price
  ELSE IF After(L, date) # {} THEN T!Known(p) /\ \A m : Earliest(After(L, date), m) => p.price = L[m].print.price
  ELSE IF t >= T!At(date, T!Waited) /\ Before(L, date) # {}
       THEN T!Known(p) /\ \A m : Latest(Before(L, date), m) => p.price = L[m].print.price
  ELSE ~T!Known(p)

\* The close an account records is the one the entries promise, which it holds on to from then.
LEMMA RecordFollows ==
  ASSUME NEW N, NEW M, NEW t \in Nat, IsLog(N, t), IsLog(M, t), SameEntries(N, M), NEW d, NEW date \in T!Dates, date \in Nat,
         HeardOn(d, N, date), NEW q, NEW p, p \in AnyPrint, p = q.prints[date], NEW holds, RecordedOn(p, N, date, t, holds),
         MarkedOn(N, M, date, t, holds), HoldsOn(q, date) => holds,
         holds /\ ~HoldsOn(q, date) => date > T!DateOf(t),
         NEW left, left => HoldsOn(q, date), left /\ t >= T!At(date, T!Waited) => ~T!Known(T!RecordedClose(q, d, date, t))
  PROVE  /\ RecordedOn(T!RecordedClose(q, d, date, t), M, date, t, left)
         /\ HoldsOn(q, date) => PromisedOn(T!RecordedClose(q, d, date, t), M, date, t)
<1> DEFINE o == Officials(N, date)
           f == After(N, date)
           e0 == Before(N, date)
           r == T!RecordedClose(q, d, date, t)
           late == t >= T!At(date, T!Waited) /\ T!Known(d.before[date]) /\ T!TickOf(d.before[date].ts) = T!LastMinutes
<1>1. Officials(M, date) = o /\ After(M, date) = f /\ Before(M, date) = e0
  BY SameOf
<1>2. r = IF ~HoldsOn(q, date) THEN p
          ELSE IF T!Known(d.official[date]) THEN IF d.official[date].price = p.price THEN p ELSE d.official[date]
          ELSE IF T!Known(p) THEN p
          ELSE IF T!Known(d.closing[date]) THEN d.closing[date]
          ELSE IF late THEN d.before[date] ELSE T!Nothing
  BY DEF T!RecordedClose, HoldsOn
<1>3. DOMAIN M = DOMAIN N /\ DOMAIN N = 1 .. Len(N) /\ Len(N) \in Nat
  BY DEF IsLog, SameEntries
<1>4. \A i \in o \union f \union e0 : i \in DOMAIN N /\ N[i].print = M[i].print /\ T!Known(N[i].print)
                                     /\ N[i].print.price # 0 /\ T!DateOf(N[i].print.ts) = date
  <2>1. \A i \in o \union f \union e0 : i \in DOMAIN N /\ T!Known(N[i].print) /\ N[i].kind # "forgotten" /\ T!DateOf(N[i].print.ts) = date
    BY EntryKnown DEF Officials, After, Before
  <2> QED BY <2>1 DEF SameEntries, IsLog, Proper
<1>5. o \in SUBSET (0 .. Len(N)) /\ f \in SUBSET Nat /\ e0 \in SUBSET (0 .. Len(N))
  BY <1>3, <1>4
<1>6. \A i \in DOMAIN M : M[i].kept /\ T!DateOf(M[i].print.ts) = date => i \in o \union f \union e0
  <2> SUFFICES ASSUME NEW i \in DOMAIN M, M[i].kept, T!DateOf(M[i].print.ts) = date PROVE i \in o \union f \union e0
    OBVIOUS
  <2>1. M[i] \in Entry /\ Proper(M[i], t)
    BY DEF IsLog
  <2>2. M[i].print.ts \in Nat /\ M[i].kind \in {"print", "official"} /\ T!TickOf(M[i].print.ts) >= 1
    BY <2>1 DEF Entry, AnyPrint, Proper, T!LastMinutes
  <2>3. T!TickOf(M[i].print.ts) \in 1 .. 4
    BY <2>2, TicksOf
  <2>4. M[i].kind = "official" => T!TickOf(M[i].print.ts) = 2
    BY <2>1 DEF Proper, T!Close
  <2> QED BY <1>1, <2>2, <2>3, <2>4 DEF Officials, After, Before, T!Of, T!Close, T!DayTicks, T!LastMinutes
<1>7. \A i \in DOMAIN N : N[i].kept => M[i].kept
  BY DEF SameEntries
<1>8. /\ IF T!Known(d.official[date]) THEN KeepsLast(d.official[date], N, o) /\ o # {} ELSE \A i \in o : N[i].kept
      /\ NoneKept(N, f) => KeepsFirst(d.closing[date], N, f)
      /\ NoneKept(N, e0) => IF e0 = {} THEN ~(T!Known(d.before[date]) /\ T!TickOf(d.before[date].ts) = T!LastMinutes)
                            ELSE KeepsLast(d.before[date], N, e0)
  BY DEF HeardOn
<1>9. /\ \A i \in DOMAIN N : N[i].kept /\ T!DateOf(N[i].print.ts) = date => T!Known(p)
      /\ \A m : Latest(KeptOf(N, o), m) => p.price = N[m].print.price
      /\ NoneKept(N, o) => \A m : Earliest(f, m) /\ N[m].kept => p.price = N[m].print.price
      /\ \A m, i : Earliest(f, m) /\ i \in f /\ N[i].kept => N[m].kept
      /\ T!Known(p) /\ NoneKept(N, o) /\ NoneKept(N, f) => t >= T!At(date, T!Waited) /\ ~holds
  BY DEF RecordedOn
<1>10. \A i \in e0 : T!TickOf(N[i].print.ts) = T!LastMinutes
  <2>1. \A i \in e0 : T!TickOf(N[i].print.ts) \in T!LastMinutes .. T!LastMinutes
    BY DEF Before, T!Of
  <2> QED BY <2>1 DEF T!LastMinutes
\* Goals in the terms of this proof.
<1> DEFINE Stands == /\ \A i \in DOMAIN M : M[i].kept /\ T!DateOf(M[i].print.ts) = date => T!Known(r)
                     /\ \A m : Latest(KeptOf(M, o), m) => r.price = M[m].print.price
                     /\ NoneKept(M, o) => \A m : Earliest(f, m) /\ M[m].kept => r.price = M[m].print.price
                     /\ \A m, i : Earliest(f, m) /\ i \in f /\ M[i].kept => M[m].kept
                     /\ T!Known(r) /\ NoneKept(M, o) /\ NoneKept(M, f) => t >= T!At(date, T!Waited) /\ ~left
           Promise == IF o # {} THEN T!Known(r) /\ \A m : Latest(o, m) => r.price = M[m].print.price
                      ELSE IF f # {} THEN T!Known(r) /\ \A m : Earliest(f, m) => r.price = M[m].print.price
                      ELSE IF t >= T!At(date, T!Waited) /\ e0 # {}
                           THEN T!Known(r) /\ \A m : Latest(e0, m) => r.price = M[m].print.price
                      ELSE ~T!Known(r)
<1>11. ASSUME Stands, HoldsOn(q, date) => Promise
       PROVE  /\ RecordedOn(T!RecordedClose(q, d, date, t), M, date, t, left)
              /\ HoldsOn(q, date) => PromisedOn(T!RecordedClose(q, d, date, t), M, date, t)
  <2>1. RecordedOn(r, M, date, t, left)
    BY <1>1, <1>11 DEF RecordedOn
  <2>2. HoldsOn(q, date) => PromisedOn(r, M, date, t)
    BY <1>1, <1>11 DEF PromisedOn
  <2> QED BY <2>1, <2>2
<1>12. left /\ t >= T!At(date, T!Waited) => ~T!Known(r)
  OBVIOUS
<1> DEFINE holdsq == HoldsOn(q, date)
           knows == T!Known(d.official[date])
<1> HIDE DEF o, f, e0, r, late
<1>13. CASE ~holdsq /\ ~holds
  <2>1. r = p /\ ~left
    BY <1>2, <1>13
  <2>2. \A i \in DOMAIN N : T!DateOf(N[i].print.ts) = date => (M[i].kept <=> N[i].kept)
    BY <1>13 DEF MarkedOn
  <2>3. \A i \in o \union f : M[i].kept <=> N[i].kept
    BY <1>4, <2>2
  <2>4. KeptOf(M, o) = KeptOf(N, o) /\ (NoneKept(M, o) => NoneKept(N, o)) /\ (NoneKept(M, f) => NoneKept(N, f))
    BY <2>3 DEF KeptOf, NoneKept
  <2>5. \A i \in DOMAIN M : M[i].kept /\ T!DateOf(M[i].print.ts) = date => T!Known(r)
    BY <1>3, <1>4, <1>6, <1>9, <2>1, <2>2
  <2>6. \A m : Latest(KeptOf(M, o), m) => r.price = M[m].print.price
    BY <1>4, <1>9, <2>1, <2>4 DEF Latest, KeptOf
  <2>7. NoneKept(M, o) => \A m : Earliest(f, m) /\ M[m].kept => r.price = M[m].print.price
    BY <1>4, <1>9, <2>1, <2>3, <2>4 DEF Earliest
  <2>8. \A m, i : Earliest(f, m) /\ i \in f /\ M[i].kept => M[m].kept
    BY <1>9, <2>3 DEF Earliest
  <2>9. T!Known(r) /\ NoneKept(M, o) /\ NoneKept(M, f) => t >= T!At(date, T!Waited) /\ ~left
    BY <1>9, <2>1, <2>4
  <2>10. Stands
    BY <1>13, <2>5, <2>6, <2>7, <2>8, <2>9
  <2>11. HoldsOn(q, date) => Promise
    BY <1>13, <2>5, <2>6, <2>7, <2>8, <2>9
  <2> HIDE DEF Stands, Promise
  <2> QED BY <1>11, <2>10, <2>11
<1>14. CASE ~holdsq /\ holds
  <2>1. r = p /\ date > T!DateOf(t)
    BY <1>2, <1>14
  <2>2. ASSUME NEW i \in DOMAIN N PROVE T!DateOf(N[i].print.ts) # date
    <3>1. N[i].print.ts \in Nat /\ N[i].print.ts <= t
      <4>1. N[i] \in Entry /\ Proper(N[i], t)
        BY <2>2 DEF IsLog
      <4> QED BY <4>1 DEF Proper, Entry, AnyPrint
    <3>2. T!DateOf(N[i].print.ts) <= T!DateOf(t) /\ T!DateOf(N[i].print.ts) \in Nat /\ T!DateOf(t) \in Nat
      BY <3>1, InOrder, TicksOf
    <3> QED BY <2>1, <3>2
  <2>3. o = {} /\ f = {} /\ e0 = {}
    BY <1>4, <2>2
  <2>4. \A i \in DOMAIN M : ~ (M[i].kept /\ T!DateOf(M[i].print.ts) = date)
    BY <1>6, <2>3
  <2>5. ~T!Known(p)
    BY <1>9, <1>14, <2>3 DEF NoneKept
  <2>6. Stands
    BY <1>14, <2>1, <2>3, <2>4, <2>5 DEF Latest, Earliest, KeptOf, NoneKept
  <2>7. HoldsOn(q, date) => Promise
    BY <1>14, <2>1, <2>3, <2>4, <2>5 DEF Latest, Earliest, KeptOf, NoneKept
  <2> HIDE DEF Stands, Promise
  <2> QED BY <1>11, <2>6, <2>7
<1>15. CASE holdsq /\ knows
  <2>1. holds /\ KeepsLast(d.official[date], N, o) /\ o # {}
    BY <1>8, <1>15
  <2>2. PICK k \in o : Latest(o, k)
    BY <1>3, <1>5, <2>1, HasLast
  <2>3. d.official[date] = N[k].print /\ N[k].print.price # 0
    BY <1>4, <2>1, <2>2 DEF KeepsLast
  <2>4. T!Known(r) /\ r.price = d.official[date].price
    <3>1. r = IF d.official[date].price = p.price THEN p ELSE d.official[date]
      BY <1>2, <1>15
    <3>2. d.official[date].price = p.price => T!Known(p)
      BY <2>3, KnownPrint
    <3> QED BY <1>15, <3>1, <3>2
  <2>5. \A i \in o \union f : M[i].kept
    BY <2>1 DEF MarkedOn, o, f
  <2>6. KeptOf(M, o) = o /\ ~NoneKept(M, o)
    BY <2>1, <2>5 DEF KeptOf, NoneKept
  <2>7. \A m : Latest(o, m) => r.price = M[m].print.price
    BY <1>4, <2>1, <2>4 DEF Latest, KeepsLast
  <2>8. \A m : Earliest(f, m) => M[m].kept
    BY <2>5 DEF Earliest
  <2>9. Stands
    BY <2>1, <2>4, <2>6, <2>7, <2>8
  <2>10. HoldsOn(q, date) => Promise
    BY <2>1, <2>4, <2>6, <2>7, <2>8
  <2> HIDE DEF Stands, Promise
  <2> QED BY <1>11, <2>9, <2>10
<1>16. CASE holdsq /\ ~knows /\ T!Known(p)
  <2>1. holds /\ r = p /\ \A i \in o : N[i].kept
    BY <1>2, <1>8, <1>16
  <2>2. \A i \in o \union f : M[i].kept
    BY <2>1 DEF MarkedOn, o, f
  <2>3. KeptOf(M, o) = o /\ KeptOf(N, o) = o
    BY <2>1, <2>2 DEF KeptOf
  <2>4. \A m : Latest(o, m) => r.price = M[m].print.price
    BY <1>4, <1>9, <2>1, <2>3 DEF Latest
  <2>5. \A m : Earliest(f, m) => M[m].kept
    BY <2>2 DEF Earliest
  <2>6. CASE o # {}
    <3>1. ~NoneKept(M, o)
      BY <2>2, <2>6 DEF NoneKept
    <3>2. Stands
      BY <1>16, <2>1, <2>3, <2>4, <2>5, <2>6, <3>1
    <3>3. HoldsOn(q, date) => Promise
      BY <1>16, <2>1, <2>3, <2>4, <2>5, <2>6, <3>1
    <3> HIDE DEF Stands, Promise
    <3> QED BY <1>11, <3>2, <3>3
  <2>7. CASE o = {}
    <3>1. NoneKept(N, o)
      BY <2>7 DEF NoneKept
    <3>2. PICK i \in f : N[i].kept
      BY <1>9, <1>16, <2>1, <3>1 DEF NoneKept
    <3>3. \A m : Earliest(f, m) => r.price = M[m].print.price
      BY <1>4, <1>9, <2>1, <3>1, <3>2 DEF Earliest
    <3>4. ~NoneKept(M, f) /\ f # {}
      BY <2>2, <3>2 DEF NoneKept
    <3>5. Stands
      BY <1>16, <2>1, <2>3, <2>4, <2>5, <2>7, <3>3, <3>4
    <3>6. HoldsOn(q, date) => Promise
      BY <1>16, <2>1, <2>3, <2>4, <2>5, <2>7, <3>3, <3>4
    <3> HIDE DEF Stands, Promise
    <3> QED BY <1>11, <3>5, <3>6
  <2> QED BY <2>6, <2>7
<1>17. CASE holdsq /\ ~knows /\ ~T!Known(p)
  <2>1. holds /\ \A i \in o : N[i].kept
    BY <1>8, <1>17
  <2>2. \A i \in o \union f \union e0 : ~N[i].kept
    BY <1>4, <1>9, <1>17
  <2>3. o = {}
    BY <2>1, <2>2
  <2>4. KeepsFirst(d.closing[date], N, f)
    BY <1>8, <2>2 DEF NoneKept
  <2>5. IF e0 = {} THEN ~(T!Known(d.before[date]) /\ T!TickOf(d.before[date].ts) = T!LastMinutes)
        ELSE KeepsLast(d.before[date], N, e0)
    BY <1>8, <2>2 DEF NoneKept
  <2>6. \A i \in f : M[i].kept
    BY <2>1 DEF MarkedOn, f
  <2>7. r = IF T!Known(d.closing[date]) THEN d.closing[date] ELSE IF late THEN d.before[date] ELSE T!Nothing
    BY <1>2, <1>17
  <2>8. KeptOf(M, o) = {} /\ NoneKept(M, o)
    BY <2>3 DEF KeptOf, NoneKept
  <2>9. \A m : ~Latest({}, m) /\ ~Earliest({}, m)
    BY DEF Latest, Earliest
  <2>10. \A m : Earliest(f, m) => M[m].kept
    BY <2>6 DEF Earliest
  <2>11. CASE f # {}
    <3>1. PICK k \in f : Earliest(f, k)
      BY <1>5, <2>11, HasFirst
    <3>2. d.closing[date] = N[k].print /\ T!Known(N[k].print)
      BY <1>4, <2>4, <3>1 DEF KeepsFirst
    <3>3. r = d.closing[date] /\ T!Known(r)
      BY <2>7, <3>2
    <3>4. \A m : Earliest(f, m) => r.price = M[m].print.price
      BY <1>4, <2>4, <3>3 DEF Earliest, KeepsFirst
    <3>5. ~NoneKept(M, f)
      BY <2>6, <3>1 DEF NoneKept
    <3>6. Stands
      BY <2>3, <2>8, <2>9, <2>10, <2>11, <3>3, <3>4, <3>5
    <3>7. HoldsOn(q, date) => Promise
      BY <2>3, <2>8, <2>9, <2>10, <2>11, <3>3, <3>4, <3>5
    <3> HIDE DEF Stands, Promise
    <3> QED BY <1>11, <3>6, <3>7
  <2>12. CASE f = {} /\ late
    <3>1. ~T!Known(d.closing[date])
      BY <2>4, <2>12 DEF KeepsFirst, T!Known
    <3>2. r = d.before[date] /\ T!Known(r) /\ t >= T!At(date, T!Waited) /\ T!TickOf(d.before[date].ts) = T!LastMinutes
      BY <2>7, <2>12, <3>1 DEF late
    <3>3. e0 # {} /\ KeepsLast(d.before[date], N, e0)
      BY <2>5, <3>2
    <3>4. \A m : Latest(e0, m) => r.price = M[m].print.price
      BY <1>4, <3>2, <3>3 DEF Latest, KeepsLast
    <3>5. ~left
      BY <1>12, <3>2
    <3>6. Stands
      BY <2>3, <2>8, <2>9, <2>12, <3>2, <3>3, <3>4, <3>5
    <3>7. HoldsOn(q, date) => Promise
      BY <2>3, <2>8, <2>9, <2>12, <3>2, <3>3, <3>4, <3>5
    <3> HIDE DEF Stands, Promise
    <3> QED BY <1>11, <3>6, <3>7
  <2>13. CASE f = {} /\ ~late
    <3>1. ~T!Known(d.closing[date])
      BY <2>4, <2>13 DEF KeepsFirst, T!Known
    <3>2. ~T!Known(r)
      BY <2>7, <2>13, <3>1 DEF T!Known
    <3>3. ASSUME e0 # {}, t >= T!At(date, T!Waited) PROVE FALSE
      <4>1. PICK k \in e0 : Latest(e0, k)
        BY <1>3, <1>5, <3>3, HasLast
      <4>2. d.before[date] = N[k].print
        BY <2>5, <3>3, <4>1 DEF KeepsLast
      <4> QED BY <1>4, <1>10, <2>13, <3>3, <4>2 DEF late
    <3>4. \A i \in DOMAIN M : ~ (M[i].kept /\ T!DateOf(M[i].print.ts) = date)
      <4>1. \A i \in e0 : M[i].kept => N[i].kept \/ t >= T!At(date, T!Waited)
        BY <2>1 DEF MarkedOn, e0
      <4> QED BY <1>6, <2>2, <2>3, <2>13, <3>3, <4>1
    <3>5. Stands
      BY <2>3, <2>8, <2>9, <2>13, <3>2, <3>3, <3>4
    <3>6. HoldsOn(q, date) => Promise
      BY <2>3, <2>8, <2>9, <2>13, <3>2, <3>3, <3>4
    <3> HIDE DEF Stands, Promise
    <3> QED BY <1>11, <3>5, <3>6
  <2> QED BY <2>11, <2>12, <2>13
<1> QED BY <1>13, <1>14, <1>15, <1>16, <1>17

LEMMA Appended == ASSUME NEW S, NEW L \in Seq(S), NEW x \in S
                  PROVE  LET N == Append(L, x) IN
                         /\ N \in Seq(S) /\ DOMAIN N = DOMAIN L \union {Len(L) + 1} /\ N[Len(L) + 1] = x
                         /\ \A i \in DOMAIN L : N[i] = L[i]
<1>1. Len(L) \in Nat /\ DOMAIN L = 1 .. Len(L)
  OBVIOUS
<1>2. Append(L, x) \in Seq(S) /\ Len(Append(L, x)) = Len(L) + 1 /\ Append(L, x)[Len(L) + 1] = x
  BY <1>1
<1>3. \A i \in 1 .. Len(L) : Append(L, x)[i] = L[i]
  BY <1>1
<1>4. DOMAIN Append(L, x) = 1 .. (Len(L) + 1)
  BY <1>2
<1>5. \A n \in Nat : 1 .. (n + 1) = (1 .. n) \union {n + 1}
  OBVIOUS
<1> QED BY <1>1, <1>2, <1>3, <1>4, <1>5

\* What the log remembers of an event: the log grows, then what the account holds on to is marked.
LEMMA RememberedGrows ==
  ASSUME NEW L, NEW t \in Nat, IsLog(L, t), NEW u \in Nat, t <= u, NEW event, IsEvent(event, u)
  PROVE  LET N == T!Logged(L, event)
             M == T!Remembered(N, u)
         IN  /\ IsLog(N, u) /\ LogGrows(L, N, event) /\ \A i \in DOMAIN N : N[i].kept => i \in DOMAIN L /\ L[i].kept
             /\ IsLog(M, u) /\ LogGrows(L, M, event) /\ SameEntries(N, M)
             /\ \A date \in T!Dates : MarkedOn(N, M, date, u, HoldsOn(account, date))
<1> DEFINE one == [kind |-> event.kind, print |-> event.print, kept |-> FALSE]
           N == T!Logged(L, event)
           M == T!Remembered(N, u)
           Held(x) == \E c \in T!Held(account) : ~Terms[c].am /\ T!Settles(x, Terms[c].date)
           Marks(x) == Held(x) /\ T!Binding(x, u)
<1>0. L \in Seq(Entry) /\ DOMAIN L = 1 .. Len(L) /\ Len(L) \in Nat /\ \A i \in DOMAIN L : L[i] \in Entry /\ Proper(L[i], t)
  BY DEF IsLog
<1>1. IsLog(L, u)
  <2>1. ASSUME NEW i \in DOMAIN L PROVE Proper(L[i], u)
    <3>1. L[i].print.ts \in Nat /\ Proper(L[i], t)
      BY <1>0 DEF Entry, AnyPrint
    <3> QED BY <3>1 DEF Proper
  <2> QED BY <1>0, <2>1 DEF IsLog
<1>2. /\ IsLog(N, u) /\ LogGrows(L, N, event) /\ N \in Seq(Entry)
      /\ \A i \in DOMAIN N : N[i].kept => i \in DOMAIN L /\ L[i].kept
  <2>1. CASE event.kind = "quotes"
    BY <1>0, <1>1, <2>1 DEF LogGrows, T!Logged
  <2>2. CASE event.kind # "quotes"
    <3>1. one \in Entry /\ Proper(one, u) /\ ~one.kept
      <4>1. event.print \in AnyPrint /\ event.print.price # 0
        BY <2>2, SettlementAssumption DEF SettlementAssumption, AnyPrint, IsEvent
      <4> QED BY <2>2, <4>1 DEF IsEvent, Entry, Proper
    <3>2. one.kind = event.kind /\ one.print = event.print
      OBVIOUS
    <3>3. N = Append(L, one)
      BY <2>2 DEF T!Logged
    <3> HIDE DEF one
    <3> HIDE DEF N
    <3>7. one \in Entry /\ L \in Seq(Entry)
      BY <1>0, <3>1
    <3>8. /\ Append(L, one) \in Seq(Entry) /\ DOMAIN Append(L, one) = DOMAIN L \union {Len(L) + 1}
          /\ Append(L, one)[Len(L) + 1] = one /\ \A i \in DOMAIN L : Append(L, one)[i] = L[i]
      <4>1. \A S : \A s \in Seq(S) : \A x \in S :
              /\ Append(s, x) \in Seq(S) /\ DOMAIN Append(s, x) = DOMAIN s \union {Len(s) + 1}
              /\ Append(s, x)[Len(s) + 1] = x /\ \A i \in DOMAIN s : Append(s, x)[i] = s[i]
        BY Appended
      <4> QED BY <3>7, <4>1
    <3>4. /\ N \in Seq(Entry) /\ DOMAIN N = DOMAIN L \union {Len(L) + 1} /\ N[Len(L) + 1] = one
          /\ \A i \in DOMAIN L : N[i] = L[i]
      BY <3>3, <3>8
    <3>5. IsLog(N, u)
      BY <1>1, <3>1, <3>4 DEF IsLog
    <3>6. LogGrows(L, N, event)
      BY <2>2, <3>2, <3>4 DEF LogGrows
    <3> QED BY <3>1, <3>4, <3>5, <3>6
  <2> QED BY <2>1, <2>2
<1> HIDE DEF N
<1>3. M = [i \in DOMAIN N |-> [N[i] EXCEPT !.kept = N[i].kept \/ Marks(N[i])]]
  BY DEF T!Remembered
<1> HIDE DEF M, Marks
<1>4. \A x \in Entry : [x EXCEPT !.kept = x.kept \/ Marks(x)] \in Entry
  <2> SUFFICES ASSUME NEW x \in Entry PROVE [x EXCEPT !.kept = x.kept \/ Marks(x)] \in Entry
    OBVIOUS
  <2>1. (x.kept \/ Marks(x)) \in BOOLEAN
    OBVIOUS
  <2> DEFINE k == x.kept \/ Marks(x)
  <2> HIDE DEF k
  <2>2. k \in BOOLEAN => [x EXCEPT !.kept = k] \in Entry
    BY DEF Entry
  <2> QED BY <2>1, <2>2 DEF k
<1>5. DOMAIN M = DOMAIN N /\ \A i \in DOMAIN N : N[i] \in Entry /\ M[i] = [N[i] EXCEPT !.kept = N[i].kept \/ Marks(N[i])]
  BY <1>2, <1>3
<1>6. ASSUME NEW i \in DOMAIN N
      PROVE  M[i] \in Entry /\ M[i].kind = N[i].kind /\ M[i].print = N[i].print /\ (M[i].kept <=> N[i].kept \/ Marks(N[i]))
  <2>1. N[i] \in Entry /\ M[i] = [N[i] EXCEPT !.kept = N[i].kept \/ Marks(N[i])] /\ M[i] \in Entry
    BY <1>4, <1>5
  <2> DEFINE k == N[i].kept \/ Marks(N[i])
             x == N[i]
             y == M[i]
  <2> HIDE DEF k, x, y
  <2>2. x \in Entry /\ y = [x EXCEPT !.kept = k]
    BY <2>1 DEF k, x, y
  <2>3. y.kind = x.kind /\ y.print = x.print /\ y.kept = k
    BY <2>2 DEF Entry
  <2> QED BY <2>1, <2>3 DEF k, x, y
<1>7. ASSUME NEW x \in Entry, Marks(x)
      PROVE  x.kind \in {"print", "official"} /\ (x.kind = "print" => T!TickOf(x.print.ts) >= T!LastMinutes)
  <2>1. x.kind \in {"print", "official"} /\ T!Binding(x, u)
    BY <1>7 DEF Marks, T!Settles
  <2>2. x.kind = "print" => T!TickOf(x.print.ts) >= T!Close \/ T!TickOf(x.print.ts) = T!LastMinutes
    BY <2>1 DEF T!Binding
  <2> QED BY <2>1, <2>2 DEF T!Close, T!LastMinutes, T!TickOf, T!DayTicks, Entry, AnyPrint
<1>8. IsLog(M, u)
  <2>1. M \in [1 .. Len(N) -> Entry] /\ Len(N) \in Nat
    BY <1>2, <1>3, <1>6
  <2>2. M \in Seq(Entry)
    BY <2>1
  <2>3. ASSUME NEW i \in DOMAIN N PROVE Proper(M[i], u)
    <3>1. Proper(N[i], u) /\ N[i] \in Entry
      BY <1>2 DEF IsLog
    <3>2. M[i].kind = N[i].kind /\ M[i].print = N[i].print
      BY <1>6
    <3>3. ASSUME M[i].kept PROVE M[i].kind \in {"print", "official"} /\ T!TickOf(M[i].print.ts) >= T!LastMinutes
      <4>1. N[i].kept \/ Marks(N[i])
        BY <1>6, <3>3
      <4>2. CASE N[i].kept
        BY <3>1, <3>2, <4>2 DEF Proper
      <4>3. CASE Marks(N[i])
        <5>1. N[i].kind \in {"print", "official"} /\ (N[i].kind = "print" => T!TickOf(N[i].print.ts) >= T!LastMinutes)
          BY <1>7, <3>1, <4>3
        <5>2. N[i].kind = "official" => T!TickOf(N[i].print.ts) >= T!LastMinutes
          BY <3>1 DEF Proper, T!Close, T!LastMinutes
        <5> QED BY <3>2, <5>1, <5>2
      <4> QED BY <4>1, <4>2, <4>3
    <3> QED BY <3>1, <3>2, <3>3 DEF Proper
  <2> QED BY <1>5, <2>2, <2>3 DEF IsLog
<1>9. SameEntries(N, M)
  BY <1>5, <1>6 DEF SameEntries
<1>10. LogGrows(L, M, event)
  <2>1. \A i \in DOMAIN L : M[i].kind = L[i].kind /\ M[i].print = L[i].print /\ (L[i].kept => M[i].kept)
    <3>1. DOMAIN L \subseteq DOMAIN N
      BY <1>2 DEF LogGrows
    <3> QED BY <1>2, <1>9, <3>1 DEF SameEntries, LogGrows
  <2>2. CASE event.kind = "quotes"
    BY <1>2, <1>5, <2>1, <2>2 DEF LogGrows
  <2>3. CASE event.kind # "quotes"
    <3>1. DOMAIN N = DOMAIN L \union {Len(L) + 1} /\ N[Len(L) + 1].kind = event.kind /\ N[Len(L) + 1].print = event.print
      BY <1>2, <2>3 DEF LogGrows
    <3>2. M[Len(L) + 1].kind = event.kind /\ M[Len(L) + 1].print = event.print
      BY <1>6, <3>1
    <3> QED BY <1>5, <2>1, <2>3, <3>1, <3>2 DEF LogGrows
  <2> QED BY <2>2, <2>3
<1>11. ASSUME NEW date \in T!Dates PROVE MarkedOn(N, M, date, u, HoldsOn(account, date))
  <2>1. ASSUME HoldsOn(account, date), NEW x, x.kind \in {"print", "official"}, T!DateOf(x.print.ts) = date PROVE Held(x)
    BY <2>1 DEF HoldsOn, T!Settles
  <2>2. ASSUME NEW x, Held(x) PROVE HoldsOn(account, T!DateOf(x.print.ts))
    BY <2>2 DEF HoldsOn, T!Settles
  <2> HIDE DEF Held
  <2>3. ASSUME HoldsOn(account, date), NEW i \in Officials(N, date) \union After(N, date) PROVE M[i].kept
    <3>1. i \in DOMAIN N /\ N[i].kind \in {"print", "official"} /\ T!DateOf(N[i].print.ts) = date /\ T!TickOf(N[i].print.ts) >= T!Close
      BY <2>3 DEF Officials, After, T!Of, T!Close, T!DayTicks
    <3>2. T!Binding(N[i], u)
      BY <3>1 DEF T!Binding
    <3> QED BY <1>6, <2>1, <2>3, <3>1, <3>2 DEF Marks
  <2>4. ASSUME NEW i \in Before(N, date), M[i].kept PROVE N[i].kept \/ u >= T!At(date, T!Waited)
    <3>1. i \in DOMAIN N /\ N[i].kind = "print" /\ T!DateOf(N[i].print.ts) = date /\ T!TickOf(N[i].print.ts) = 1
      BY <2>4 DEF Before, T!Of, T!LastMinutes
    <3>2. N[i].kept \/ Marks(N[i])
      BY <1>6, <2>4, <3>1
    <3>3. Marks(N[i]) => u >= T!At(date, T!Waited)
      BY <3>1 DEF Marks, T!Binding, T!Close
    <3> QED BY <3>2, <3>3
  <2>5. ASSUME ~HoldsOn(account, date), NEW i \in DOMAIN N, T!DateOf(N[i].print.ts) = date PROVE M[i].kept <=> N[i].kept
    <3>1. ~Marks(N[i])
      BY <2>2, <2>5 DEF Marks
    <3> QED BY <1>6, <3>1
  <2> QED BY <2>3, <2>4, <2>5 DEF MarkedOn
<1>12. \A date \in T!Dates : MarkedOn(N, M, date, u, HoldsOn(account, date))
  BY <1>11
<1> QED BY <1>2, <1>8, <1>9, <1>10, <1>12 DEF N, M, one

\* What is left of the log when the desk forgets.
Forgets(L, R) == R = [i \in DOMAIN L |-> IF L[i].kept THEN L[i] ELSE T!Forgotten]

LEMMA ForgottenOf ==
  ASSUME NEW L, NEW t \in Nat, IsLog(L, t), NEW R, Forgets(L, R)
  PROVE  /\ IsLog(R, t)
         /\ \A kind \in {"print", "official", "quotation"} : \A date, from, to :
              T!Of(R, kind, date, from, to) = KeptOf(L, T!Of(L, kind, date, from, to))
         /\ \A i \in DOMAIN L : L[i].kept => R[i] = L[i]
         /\ \A i \in DOMAIN R : R[i].kept => i \in DOMAIN L /\ L[i].kept
<1>0. DOMAIN R = DOMAIN L /\ DOMAIN L = 1 .. Len(L) /\ Len(L) \in Nat /\ \A i \in DOMAIN L : L[i] \in Entry /\ Proper(L[i], t)
  BY DEF IsLog, Forgets
<1>1. T!Forgotten \in Entry /\ Proper(T!Forgotten, t) /\ ~T!Forgotten.kept /\ T!Forgotten.kind = "forgotten"
  BY DEF T!Forgotten, T!Nothing, Entry, AnyPrint, Proper
<1>2. \A i \in DOMAIN L : R[i] = IF L[i].kept THEN L[i] ELSE T!Forgotten
  BY DEF Forgets
<1>3. \A i \in DOMAIN L : R[i] \in Entry /\ Proper(R[i], t)
  BY <1>0, <1>1, <1>2
<1>4. IsLog(R, t)
  <2>1. R \in [1 .. Len(L) -> Entry]
    BY <1>0, <1>3 DEF Forgets
  <2>2. R \in Seq(Entry)
    BY <1>0, <2>1
  <2> QED BY <1>0, <1>3, <2>2 DEF IsLog
<1>5. ASSUME NEW kind \in {"print", "official", "quotation"}, NEW date, NEW from, NEW to
      PROVE  T!Of(R, kind, date, from, to) = KeptOf(L, T!Of(L, kind, date, from, to))
  BY <1>0, <1>1, <1>2 DEF T!Of, KeptOf
<1> QED BY <1>0, <1>1, <1>2, <1>4, <1>5

LEMMA ForgottenHeard ==
  ASSUME NEW L, NEW t \in Nat, IsLog(L, t), NEW R, Forgets(L, R)
  PROVE  /\ HasHeard(T!EmptyDesk, R)
         /\ \A date \in T!Dates : \A p, holds : RecordedOn(p, L, date, t, holds) => RecordedOn(p, R, date, t, holds)
<1> DEFINE d == T!EmptyDesk
<1>0. DOMAIN L = 1 .. Len(L) /\ Len(L) \in Nat /\ \A i \in DOMAIN L : L[i] \in Entry /\ Proper(L[i], t)
  BY DEF IsLog
<1>1. /\ \A kind \in {"print", "official", "quotation"} : \A date, from, to :
           T!Of(R, kind, date, from, to) = KeptOf(L, T!Of(L, kind, date, from, to))
      /\ \A i \in DOMAIN L : L[i].kept => R[i] = L[i]
      /\ \A i \in DOMAIN R : R[i].kept => i \in DOMAIN L /\ L[i].kept
  BY ForgottenOf
<1>2. DeskTypes(d) /\ \A date \in T!Dates : \A f \in DeskFields : d[f][date] = T!Nothing
  BY DEF DeskTypes, DeskFields, T!EmptyDesk, T!NoPrints, T!Nothing, AnyPrint
<1> HIDE DEF d
<1>3. ASSUME NEW date \in T!Dates
      PROVE  /\ Officials(R, date) = KeptOf(L, Officials(L, date)) /\ After(R, date) = KeptOf(L, After(L, date))
             /\ Before(R, date) = KeptOf(L, Before(L, date))
             /\ Openings(R, date) = KeptOf(L, Openings(L, date)) /\ Quotations(R, date) = KeptOf(L, Quotations(L, date))
  BY <1>1 DEF Officials, After, Before, Openings, Quotations
<1>4. ASSUME NEW date \in T!Dates PROVE Openings(R, date) = {} /\ Quotations(R, date) = {}
  <2>1. ASSUME NEW i \in Openings(L, date) \union Quotations(L, date) PROVE ~L[i].kept
    <3>1. i \in DOMAIN L /\ (L[i].kind = "quotation" \/ T!TickOf(L[i].print.ts) = 0)
      BY <2>1 DEF Openings, Quotations, T!Of, T!Open
    <3>2. Proper(L[i], t)
      BY <1>0, <3>1
    <3> QED BY <3>1, <3>2 DEF Proper, T!LastMinutes
  <2> QED BY <1>3, <2>1 DEF KeptOf
<1>5. ASSUME NEW date \in T!Dates, NEW s, s \in {Officials(R, date), After(R, date), Before(R, date)}
      PROVE  (\A i \in s : R[i].kept) /\ (NoneKept(R, s) => s = {})
  <2>1. ASSUME NEW i \in s PROVE R[i].kept
    <3>1. i \in KeptOf(L, Officials(L, date) \union After(L, date) \union Before(L, date))
      BY <1>3, <1>5, <2>1 DEF KeptOf
    <3>2. i \in DOMAIN L /\ L[i].kept
      BY <3>1 DEF KeptOf, Officials, After, Before, T!Of
    <3> QED BY <1>1, <3>2
  <2> QED BY <2>1 DEF NoneKept
<1>6. ~T!Known(T!Nothing) /\ \A m : ~Earliest({}, m) /\ ~Latest({}, m)
  BY DEF T!Known, Earliest, Latest
<1>7. ASSUME NEW date \in T!Dates PROVE HeardOn(d, R, date)
  <2>1. /\ d.official[date] = T!Nothing /\ d.closing[date] = T!Nothing /\ d.before[date] = T!Nothing
        /\ d.opening[date] = T!Nothing /\ d.quotation[date] = T!Nothing
    BY <1>2 DEF DeskFields
  <2>2. \A i \in Officials(R, date) : R[i].kept
    BY <1>5
  <2>3. NoneKept(R, After(R, date)) => After(R, date) = {}
    BY <1>5
  <2>4. NoneKept(R, Before(R, date)) => Before(R, date) = {}
    BY <1>5
  <2> QED BY <1>4, <1>6, <2>1, <2>2, <2>3, <2>4 DEF HeardOn, KeepsFirst, KeepsLast
<1>8. HasHeard(d, R)
  BY <1>2, <1>7 DEF HasHeard
<1>9. ASSUME NEW date \in T!Dates, NEW p, NEW holds, RecordedOn(p, L, date, t, holds) PROVE RecordedOn(p, R, date, t, holds)
  <2> DEFINE o == Officials(L, date)
             f == After(L, date)
             o2 == Officials(R, date)
             f2 == After(R, date)
  <2>1. o2 = KeptOf(L, o) /\ f2 = KeptOf(L, f)
    BY <1>3
  <2>2. (\A i \in o2 : R[i].kept) /\ (\A i \in f2 : R[i].kept) /\ (NoneKept(R, o2) => o2 = {}) /\ (NoneKept(R, f2) => f2 = {})
    BY <1>5
  <2>3. /\ \A i \in DOMAIN L : L[i].kept /\ T!DateOf(L[i].print.ts) = date => T!Known(p)
        /\ \A m : Latest(KeptOf(L, o), m) => p.price = L[m].print.price
        /\ NoneKept(L, o) => \A m : Earliest(f, m) /\ L[m].kept => p.price = L[m].print.price
        /\ \A m, i : Earliest(f, m) /\ i \in f /\ L[i].kept => L[m].kept
        /\ T!Known(p) /\ NoneKept(L, o) /\ NoneKept(L, f) => t >= T!At(date, T!Waited) /\ ~holds
    BY <1>9 DEF RecordedOn
  <2>4. \A i \in o \union f : i \in DOMAIN L
    BY DEF Officials, After, T!Of
  <2>5. f \in SUBSET Nat
    BY <1>0, <2>4
  <2> HIDE DEF o, f, o2, f2
  <2>6. \A i \in DOMAIN R : R[i].kept /\ T!DateOf(R[i].print.ts) = date => T!Known(p)
    BY <1>1, <2>3
  <2>7. KeptOf(R, o2) = KeptOf(L, o)
    BY <2>1, <2>2 DEF KeptOf
  <2>8. \A i \in o2 \union f2 : R[i] = L[i] /\ L[i].kept
    BY <1>1, <2>1, <2>4 DEF KeptOf
  <2>9. \A m : Latest(KeptOf(R, o2), m) => p.price = R[m].print.price
    <3>1. KeptOf(R, o2) \subseteq o2
      BY DEF KeptOf
    <3> QED BY <2>3, <2>7, <2>8, <3>1 DEF Latest
  <2>10. o2 = {} => NoneKept(L, o)
    BY <2>1 DEF KeptOf, NoneKept
  <2>11. f2 = {} => NoneKept(L, f)
    BY <2>1 DEF KeptOf, NoneKept
  <2>12. ASSUME NEW m, Earliest(f2, m) PROVE Earliest(f, m) /\ L[m].kept /\ R[m] = L[m]
    <3>1. m \in f2 /\ m \in f /\ L[m].kept
      BY <2>1, <2>12 DEF Earliest, KeptOf
    <3>2. PICK k \in f : Earliest(f, k)
      BY <2>5, <3>1, HasFirst
    <3>3. L[k].kept
      BY <2>3, <3>1, <3>2
    <3>4. k \in f2
      BY <2>1, <3>3 DEF KeptOf
    <3>5. m <= k /\ k <= m /\ m \in Nat /\ k \in Nat
      BY <2>5, <2>12, <3>1, <3>2, <3>4 DEF Earliest
    <3>6. m = k
      BY <3>5
    <3> QED BY <2>8, <3>1, <3>2, <3>6
  <2>13. ASSUME NoneKept(R, o2), NEW m, Earliest(f2, m), R[m].kept PROVE p.price = R[m].print.price
    <3>1. NoneKept(L, o)
      BY <2>2, <2>10, <2>13
    <3>2. Earliest(f, m) /\ L[m].kept /\ R[m] = L[m]
      BY <2>12, <2>13
    <3>3. p.price = L[m].print.price
      BY <2>3, <3>1, <3>2
    <3> QED BY <3>2, <3>3
  <2>14. \A m, i : Earliest(f2, m) /\ i \in f2 /\ R[i].kept => R[m].kept
    BY <2>12
  <2>15. T!Known(p) /\ NoneKept(R, o2) /\ NoneKept(R, f2) => t >= T!At(date, T!Waited) /\ ~holds
    BY <2>2, <2>3, <2>10, <2>11
  <2> QED BY <2>6, <2>9, <2>13, <2>14, <2>15 DEF RecordedOn, o2, f2
<1> QED BY <1>8, <1>9 DEF d

-----------------------------------------------------------------------------
(* The dates *)

LEMMA HasGreatest == ASSUME NEW s \in SUBSET Nat, IsFiniteSet(s), s # {} PROVE \E m \in s : Latest(s, m)
<1> DEFINE without == {x \in SUBSET s : x # {} /\ ~\E m \in x : Latest(x, m)}
           sizes == {n \in Nat : \E x \in without : Cardinality(x) = n}
<1>1. \A x \in SUBSET s : IsFiniteSet(x) /\ Cardinality(x) \in Nat
  BY FS_Subset, FS_CardinalityType
<1>2. ASSUME without # {} PROVE FALSE
  <2>1. sizes \subseteq Nat /\ sizes # {}
    BY <1>1, <1>2
  <2> HIDE DEF sizes
  <2>2. PICK n \in sizes : \A k \in sizes : n <= k
    BY <2>1, LeastNumber
  <2>3. PICK x \in without : Cardinality(x) = n
    BY DEF sizes
  <2>4. x \in SUBSET s /\ x # {} /\ n \in Nat
    BY <2>1
  <2>5. PICK y \in x : TRUE
    BY <2>4
  <2>6. x \ {y} \in SUBSET s /\ Cardinality(x \ {y}) = n - 1 /\ Cardinality(x \ {y}) \in Nat
    <3>1. IsFiniteSet(x)
      BY <1>1, <2>4
    <3>2. Cardinality(x \ {y}) = Cardinality(x) - 1
      BY <3>1, <2>5, FS_RemoveElement
    <3> QED BY <1>1, <2>3, <2>4, <3>2
  <2>7. x \ {y} \notin without
    <3> SUFFICES ASSUME x \ {y} \in without PROVE FALSE
      OBVIOUS
    <3>1. n - 1 \in sizes
      BY <2>6 DEF sizes
    <3> QED BY <2>2, <2>4, <3>1
  <2>8. y \in Nat /\ x \subseteq Nat
    BY <2>4, <2>5
  <2>9. CASE x \ {y} = {}
    <3>1. Latest(x, y)
      BY <2>5, <2>8, <2>9 DEF Latest
    <3> QED BY <2>5, <3>1
  <2>10. CASE x \ {y} # {}
    <3>1. PICK m \in x \ {y} : Latest(x \ {y}, m)
      BY <2>6, <2>7, <2>10
    <3>2. m \in x /\ m \in Nat /\ \A k \in x : k <= m \/ k = y
      BY <2>8, <3>1 DEF Latest
    <3>3. Latest(x, m) \/ Latest(x, y)
      BY <2>5, <2>8, <3>2 DEF Latest
    <3> QED BY <2>5, <3>2, <3>3
  <2> QED BY <2>9, <2>10
<1> QED BY <1>2

LEMMA GreatestIs == ASSUME NEW s \in SUBSET Nat, NEW m, Latest(s, m) PROVE T!Max(s) = m
<1> DEFINE greatest == CHOOSE x \in s : \A y \in s : x >= y
<1>1. m \in s /\ m \in Nat /\ \A y \in s : m >= y
  BY DEF Latest
<1>2. greatest \in s /\ \A y \in s : greatest >= y
  BY <1>1
<1>3. T!Max(s) = greatest
  BY DEF T!Max
<1> HIDE DEF greatest
<1>4. greatest \in Nat /\ greatest >= m /\ m >= greatest
  BY <1>1, <1>2
<1> QED BY <1>1, <1>3, <1>4

\* Every date of a market is one of the dates.
LEMMA DatesOf == ASSUME NEW one \in Markets, NEW k \in Nat, k <= one.last PROVE k \in T!Dates
<1> DEFINE ends == {m.last : m \in Markets}
           f == [m \in Markets |-> m.last]
<1>1. IsFiniteSet(Markets) /\ \A m \in Markets : m.last \in Nat
  BY SettlementAssumption DEF SettlementAssumption
<1>2. ends \in SUBSET Nat /\ one.last \in ends
  BY <1>1
<1>3. f \in Surjection(Markets, ends)
  BY DEF Surjection
<1> HIDE DEF f
<1>4. IsFiniteSet(ends)
  BY <1>1, <1>3, FS_Surjection
<1>5. T!LastDate = T!Max(ends)
  BY DEF T!LastDate
<1> HIDE DEF ends
<1>6. PICK m \in ends : Latest(ends, m)
  BY <1>2, <1>4, HasGreatest
<1>7. T!LastDate = m /\ one.last <= m /\ m \in Nat /\ one.last \in Nat
  BY <1>2, <1>5, <1>6, GreatestIs DEF Latest
<1> QED BY <1>7 DEF T!Dates

LEMMA DatesAre == \A k \in T!Dates : k \in Nat
BY DEF T!Dates

-----------------------------------------------------------------------------
(* What an update of an account settles on *)

\* What is held to the end of a finished day, what is then recorded and settled, and what is left.
UpdatedFrom(a, q, b, d, t) ==
  /\ q.prints = a.prints /\ T!Held(q) \subseteq T!Held(a)
  /\ \A c \in T!Held(a) : c \in T!Held(q) \/ Terms[c].date > T!DateOf(t)
  /\ b.prints = [date \in T!Dates |-> T!RecordedClose(q, d, date, t)] /\ b.time = t
  /\ T!Held(b) \subseteq T!Held(q)
  /\ \A c \in T!Held(b) : t >= T!ExpiryTime(c) => ~T!Known(T!SettlesOn(b, d, c))
  /\ \A c \in Contracts : b.settled[c] # a.settled[c] =>
       /\ c \in T!Held(q) /\ t >= T!ExpiryTime(c) /\ T!Known(T!SettlesOn(b, d, c))
       /\ b.settled[c].price = T!SettlesOn(b, d, c).price

\* A rollover lets go of nothing that expires by then.
LEMMA RollLetsGo ==
  ASSUME NEW a, DOMAIN a = AccountFields, NEW t, NEW assigned
  PROVE  LET b == T!Roll(a, t, assigned) IN
         /\ DOMAIN b = AccountFields /\ b.prints = a.prints /\ b.settled = a.settled /\ b.time \in {a.time, t}
         /\ T!Held(b) \subseteq T!Held(a) /\ \A c \in T!Held(a) : c \in T!Held(b) \/ Terms[c].date > T!DateOf(t)
<1> DEFINE day == T!DateOf(t)
           gone == assigned \intersect T!Assignable(a, day)
           opened == [a EXCEPT !.day = day, !.time = t, !.rolls = @ \union {day}]
           p == [c \in Contracts |-> IF c \in gone THEN 0 ELSE opened.positions[c]]
           left == T!Assign(opened, gone, day)
           due == T!DividendsDue(a.day, day)
           b == T!PayDividends(left, due)
<1>1. b = T!RollDay(a, t, assigned)
  BY DEF T!RollDay
<1>2. \A c \in gone : Terms[c].date > day
  BY DEF T!Assignable
<1> HIDE DEF gone, due, day
<1>3. /\ DOMAIN opened = AccountFields /\ opened.positions = a.positions /\ opened.settled = a.settled
      /\ opened.prints = a.prints /\ opened.time = t
  BY DEF AccountFields
<1> HIDE DEF opened
<1>4. /\ DOMAIN left = AccountFields /\ left.positions = p /\ left.settled = a.settled
      /\ left.prints = a.prints /\ left.time = t
  BY <1>3 DEF T!Assign, AccountFields
<1> HIDE DEF left
<1>5. /\ DOMAIN b = AccountFields /\ b.positions = p /\ b.settled = a.settled /\ b.prints = a.prints /\ b.time = t
  BY <1>4 DEF T!PayDividends, AccountFields
<1> HIDE DEF b
<1>6. \A c \in Contracts : b.positions[c] = IF c \in gone THEN 0 ELSE a.positions[c]
  BY <1>3, <1>5
<1>7. T!Held(b) \subseteq T!Held(a) /\ \A c \in T!Held(a) : c \in T!Held(b) \/ Terms[c].date > T!DateOf(t)
  BY <1>2, <1>6 DEF T!Held, day
<1> DEFINE rolled == T!Roll(a, t, assigned)
<1>8. rolled = b \/ rolled = a
  BY <1>1 DEF T!Roll
<1> HIDE DEF rolled
<1>9. /\ DOMAIN rolled = AccountFields /\ rolled.prints = a.prints /\ rolled.settled = a.settled /\ rolled.time \in {a.time, t}
      /\ T!Held(rolled) \subseteq T!Held(a) /\ \A c \in T!Held(a) : c \in T!Held(rolled) \/ Terms[c].date > T!DateOf(t)
  BY <1>5, <1>7, <1>8
<1> QED BY <1>9 DEF rolled

LEMMA SettlesOnPrints ==
  ASSUME NEW a, NEW b, b.prints = a.prints, NEW d, NEW c PROVE T!SettlesOn(b, d, c) = T!SettlesOn(a, d, c)
BY DEF T!SettlesOn

LEMMA UpdateParts ==
  ASSUME NEW a, DOMAIN a = AccountFields, NEW d, NEW t, NEW m, NEW assigned
  PROVE  \E q : UpdatedFrom(a, q, T!Update(a, d, t, m, assigned), d, t)
<1> DEFINE first == IF T!SettledBefore(a, t) THEN T!Roll(a, t, assigned) ELSE a
           q == [first EXCEPT !.time = t, !.marked = m]
           r == T!Record(q, d, t)
           ready == {c \in T!Held(r) : t >= T!ExpiryTime(c) /\ T!Known(T!SettlesOn(r, d, c))}
           prices == [c \in ready |-> T!SettlesOn(r, d, c).price]
           s == T!SettleExpired(r, d, t)
           b == T!Roll(s, t, assigned)
<1>0. T!Update(a, d, t, m, assigned) = b
  BY DEF T!Update
<1>1. /\ DOMAIN first = AccountFields /\ first.prints = a.prints /\ first.settled = a.settled
      /\ T!Held(first) \subseteq T!Held(a) /\ \A c \in T!Held(a) : c \in T!Held(first) \/ Terms[c].date > T!DateOf(t)
  <2>1. CASE T!SettledBefore(a, t)
    <3>1. first = T!Roll(a, t, assigned)
      BY <2>1
    <3> HIDE DEF first
    <3> QED BY <3>1, RollLetsGo
  <2>2. CASE ~T!SettledBefore(a, t)
    BY <2>2
  <2> QED BY <2>1, <2>2
<1> HIDE DEF first
<1>2. /\ DOMAIN q = AccountFields /\ q.prints = a.prints /\ q.settled = a.settled /\ q.time = t /\ q.positions = first.positions
  BY <1>1 DEF AccountFields
<1>3. T!Held(q) = T!Held(first)
  BY <1>2 DEF T!Held
<1> HIDE DEF q
<1>4. /\ DOMAIN r = AccountFields /\ r.prints = [date \in T!Dates |-> T!RecordedClose(q, d, date, t)]
      /\ r.settled = a.settled /\ r.time = t /\ r.positions = q.positions
  <2> DEFINE prints == [date \in T!Dates |-> T!RecordedClose(q, d, date, t)]
             x == [q EXCEPT !.prints = prints]
  <2>1. r = x
    BY DEF T!Record
  <2> HIDE DEF prints
  <2>2. /\ DOMAIN x = AccountFields /\ x.prints = prints /\ x.settled = a.settled /\ x.time = t /\ x.positions = q.positions
    BY <1>2 DEF AccountFields
  <2> HIDE DEF x, r
  <2> QED BY <2>1, <2>2 DEF prints
<1>5. T!Held(r) = T!Held(q)
  BY <1>4 DEF T!Held
<1> HIDE DEF r
<1>6. s = T!Settle(r, prices, "print") /\ DOMAIN prices = ready
  BY DEF T!SettleExpired
<1>7. /\ \A c \in ready : c \in Contracts /\ prices[c] = T!SettlesOn(r, d, c).price
      /\ \A c \in Contracts : c \notin ready => r.positions[c] = 0 \/ ~(t >= T!ExpiryTime(c) /\ T!Known(T!SettlesOn(r, d, c)))
      /\ \A c \in ready : c \in T!Held(r) /\ t >= T!ExpiryTime(c) /\ T!Known(T!SettlesOn(r, d, c))
  BY DEF T!Held
<1> HIDE DEF prices, ready, s
<1> DEFINE x == T!Settle(r, prices, "print")
           settled == [c \in Contracts |-> IF c \in DOMAIN prices THEN [price |-> prices[c], day |-> r.day, source |-> "print"]
                                           ELSE r.settled[c]]
           positions == [c \in Contracts |-> IF c \in DOMAIN prices THEN 0 ELSE r.positions[c]]
<1>8. /\ DOMAIN x = AccountFields /\ x.prints = r.prints /\ x.time = t /\ x.settled = settled /\ x.positions = positions
  BY <1>4 DEF T!Settle, AccountFields
<1> HIDE DEF x
<1>9. s = x
  BY <1>6 DEF x
<1>10. \A c \in Contracts : /\ s.positions[c] = IF c \in ready THEN 0 ELSE r.positions[c]
                            /\ c \notin ready => s.settled[c] = a.settled[c]
                            /\ c \in ready => s.settled[c].price = T!SettlesOn(r, d, c).price
  BY <1>4, <1>6, <1>7, <1>8, <1>9
<1>11. T!Held(s) \subseteq T!Held(r) /\ \A c \in T!Held(s) : ~(t >= T!ExpiryTime(c) /\ T!Known(T!SettlesOn(r, d, c)))
  BY <1>7, <1>10 DEF T!Held
<1>12. /\ b.prints = r.prints /\ b.settled = s.settled /\ b.time = t /\ T!Held(b) \subseteq T!Held(s)
  BY <1>8, <1>9, RollLetsGo
<1> HIDE DEF b
<1>13. \A c : T!SettlesOn(b, d, c) = T!SettlesOn(r, d, c)
  BY <1>12, SettlesOnPrints
<1>14. \A c \in T!Held(b) : t >= T!ExpiryTime(c) => ~T!Known(T!SettlesOn(b, d, c))
  BY <1>11, <1>12, <1>13
<1>15. \A c \in Contracts : b.settled[c] # a.settled[c] =>
         /\ c \in T!Held(q) /\ t >= T!ExpiryTime(c) /\ T!Known(T!SettlesOn(b, d, c))
         /\ b.settled[c].price = T!SettlesOn(b, d, c).price
  BY <1>5, <1>7, <1>10, <1>12, <1>13
<1>16. UpdatedFrom(a, q, b, d, t)
  BY <1>1, <1>2, <1>3, <1>4, <1>5, <1>11, <1>12, <1>14, <1>15 DEF UpdatedFrom
<1> QED BY <1>0, <1>16

-----------------------------------------------------------------------------
(* What is promised *)

\* Nothing that was heard promises a close for a position.
Unpromised(L, c, t) ==
  LET date == Terms[c].date
  IN IF Terms[c].am THEN /\ venue.feed = "soq" => Quotations(L, date) = {}
                         /\ venue.feed = "demo" => Openings(L, date) = {}
     ELSE /\ Officials(L, date) = {} /\ After(L, date) = {}
          /\ t >= T!At(date, T!Waited) => Before(L, date) = {}

LEMMA FirstOfIs == ASSUME NEW L, NEW s \in SUBSET Nat, NEW m, Earliest(s, m) PROVE T!FirstOf(L, s) = L[m].print
<1>1. T!Min(s) = m /\ s # {}
  BY LeastIs DEF Earliest
<1> QED BY <1>1 DEF T!FirstOf

LEMMA LastOfIs == ASSUME NEW L, NEW s \in SUBSET Nat, NEW m, Latest(s, m) PROVE T!LastOf(L, s) = L[m].print
<1>1. T!Max(s) = m /\ s # {}
  BY GreatestIs DEF Latest
<1> QED BY <1>1 DEF T!LastOf

LEMMA PromisedAre ==
  ASSUME NEW L, NEW c, NEW t
  PROVE  T!Promised(L, c, t) =
           LET date == Terms[c].date
           IN IF Terms[c].am THEN IF venue.feed = "soq" THEN T!LastOf(L, Quotations(L, date))
                                  ELSE IF venue.feed = "demo" THEN T!FirstOf(L, Openings(L, date)) ELSE T!Nothing
              ELSE IF Officials(L, date) # {} THEN T!LastOf(L, Officials(L, date))
              ELSE IF After(L, date) # {} THEN T!FirstOf(L, After(L, date))
              ELSE IF t >= T!At(date, T!Waited) THEN T!LastOf(L, Before(L, date)) ELSE T!Nothing
BY DEF T!Promised, Officials, After, Before, Openings, Quotations

LEMMA UnpromisedIs == ASSUME NEW L, NEW c, NEW t, Unpromised(L, c, t) PROVE ~T!Known(T!Promised(L, c, t))
<1>1. T!FirstOf(L, {}) = T!Nothing /\ T!LastOf(L, {}) = T!Nothing /\ ~T!Known(T!Nothing)
  BY DEF T!FirstOf, T!LastOf, T!Known
<1> QED BY <1>1, PromisedAre DEF Unpromised

\* What a desk has heard, and an account has recorded, is what is promised.
LEMMA SettlesOnPromised ==
  ASSUME NEW d, NEW L, NEW t \in Nat, IsLog(L, t), HasHeard(d, L), NEW b, NEW c, Terms[c].date \in T!Dates,
         ~Terms[c].am => PromisedOn(b.prints[Terms[c].date], L, Terms[c].date, t)
  PROVE  /\ T!Known(T!SettlesOn(b, d, c)) => T!SettlesOn(b, d, c).price = T!Promised(L, c, t).price
         /\ ~T!Known(T!SettlesOn(b, d, c)) => Unpromised(L, c, t)
<1> DEFINE date == Terms[c].date
           o == Officials(L, date)
           f == After(L, date)
           e0 == Before(L, date)
           x == Openings(L, date)
           y == Quotations(L, date)
           p == T!SettlesOn(b, d, c)
<1>1. /\ o \in SUBSET (0 .. Len(L)) /\ f \in SUBSET Nat /\ e0 \in SUBSET (0 .. Len(L)) /\ x \in SUBSET Nat
      /\ y \in SUBSET (0 .. Len(L)) /\ Len(L) \in Nat
  <2>1. L \in Seq(Entry)
    BY DEF IsLog
  <2>2. Len(L) \in Nat /\ \A kind, from, to : T!Of(L, kind, date, from, to) \subseteq 1 .. Len(L)
    BY <2>1, OfIn
  <2>3. 1 .. Len(L) \subseteq 0 .. Len(L) /\ 0 .. Len(L) \subseteq Nat
    BY <2>2
  <2> QED BY <2>2, <2>3 DEF Officials, After, Before, Openings, Quotations
<1>2. (\A m \in x : T!Known(L[m].print)) /\ \A m \in y : T!Known(L[m].print)
  BY EntryKnown DEF Openings, Quotations
<1>3. (venue.feed = "demo" => KeepsFirst(d.opening[date], L, x)) /\ KeepsLast(d.quotation[date], L, y)
  BY DEF HasHeard, HeardOn
<1>4. p = IF ~Terms[c].am THEN b.prints[date] ELSE IF venue.feed = "soq" THEN d.quotation[date]
          ELSE IF venue.feed = "demo" THEN d.opening[date] ELSE T!Nothing
  BY DEF T!SettlesOn
<1>5. T!Promised(L, c, t) =
        IF Terms[c].am THEN IF venue.feed = "soq" THEN T!LastOf(L, y) ELSE IF venue.feed = "demo" THEN T!FirstOf(L, x) ELSE T!Nothing
        ELSE IF o # {} THEN T!LastOf(L, o) ELSE IF f # {} THEN T!FirstOf(L, f)
        ELSE IF t >= T!At(date, T!Waited) THEN T!LastOf(L, e0) ELSE T!Nothing
  BY PromisedAre
<1>6. Unpromised(L, c, t) <=>
        IF Terms[c].am THEN (venue.feed = "soq" => y = {}) /\ (venue.feed = "demo" => x = {})
        ELSE o = {} /\ f = {} /\ (t >= T!At(date, T!Waited) => e0 = {})
  BY DEF Unpromised
<1>7. ~Terms[c].am => IF o # {} THEN T!Known(p) /\ \A m : Latest(o, m) => p.price = L[m].print.price
                      ELSE IF f # {} THEN T!Known(p) /\ \A m : Earliest(f, m) => p.price = L[m].print.price
                      ELSE IF t >= T!At(date, T!Waited) /\ e0 # {}
                           THEN T!Known(p) /\ \A m : Latest(e0, m) => p.price = L[m].print.price
                      ELSE ~T!Known(p)
  BY <1>4 DEF PromisedOn
<1> DEFINE late == t >= T!At(date, T!Waited)
           promised == T!Promised(L, c, t)
           un == Unpromised(L, c, t)
<1> HIDE DEF o, f, e0, x, y, p, late, promised, un
<1>8. ~T!Known(T!Nothing)
  BY DEF T!Known
<1>9. CASE Terms[c].am /\ venue.feed = "soq"
  <2>1. p = d.quotation[date] /\ promised = T!LastOf(L, y) /\ (un <=> y = {})
    BY <1>4, <1>5, <1>6, <1>9 DEF promised, un
  <2>2. CASE y = {}
    BY <1>3, <1>8, <2>1, <2>2 DEF KeepsLast, p, promised, un
  <2>3. CASE y # {}
    <3>1. PICK m \in y : Latest(y, m)
      BY <1>1, <2>3, HasLast
    <3>2. promised = L[m].print /\ p = L[m].print
      BY <1>1, <1>3, <2>1, <3>1, LastOfIs DEF KeepsLast
    <3>3. T!Known(p)
      BY <1>2, <3>2
    <3> QED BY <3>2, <3>3 DEF p, promised, un
  <2> QED BY <2>2, <2>3
<1>10. CASE Terms[c].am /\ venue.feed # "soq" /\ venue.feed = "demo"
  <2>1. p = d.opening[date] /\ promised = T!FirstOf(L, x) /\ (un <=> x = {})
    BY <1>4, <1>5, <1>6, <1>10 DEF promised, un
  <2>2. CASE x = {}
    BY <1>3, <1>8, <1>10, <2>1, <2>2 DEF KeepsFirst, p, promised, un
  <2>3. CASE x # {}
    <3>1. PICK m \in x : Earliest(x, m)
      BY <1>1, <2>3, HasFirst
    <3>2. promised = L[m].print /\ p = L[m].print
      BY <1>1, <1>3, <1>10, <2>1, <3>1, FirstOfIs DEF KeepsFirst
    <3>3. T!Known(p)
      BY <1>2, <3>2
    <3> QED BY <3>2, <3>3 DEF p, promised, un
  <2> QED BY <2>2, <2>3
<1>11. CASE Terms[c].am /\ venue.feed # "soq" /\ venue.feed # "demo"
  <2>1. p = T!Nothing /\ un
    BY <1>4, <1>6, <1>11 DEF un
  <2> QED BY <1>8, <2>1 DEF p, promised, un
<1>12. CASE ~Terms[c].am
  <2>1. un <=> o = {} /\ f = {} /\ (late => e0 = {})
    BY <1>6, <1>12 DEF un, late
  <2>2. promised = IF o # {} THEN T!LastOf(L, o) ELSE IF f # {} THEN T!FirstOf(L, f)
                   ELSE IF late THEN T!LastOf(L, e0) ELSE T!Nothing
    BY <1>5, <1>12 DEF promised, late
  <2>3. IF o # {} THEN T!Known(p) /\ \A m : Latest(o, m) => p.price = L[m].print.price
        ELSE IF f # {} THEN T!Known(p) /\ \A m : Earliest(f, m) => p.price = L[m].print.price
        ELSE IF late /\ e0 # {} THEN T!Known(p) /\ \A m : Latest(e0, m) => p.price = L[m].print.price
        ELSE ~T!Known(p)
    BY <1>7, <1>12 DEF late
  <2>4. CASE o # {}
    <3>1. PICK m \in o : Latest(o, m)
      BY <1>1, <2>4, HasLast
    <3>2. promised = L[m].print
      BY <1>1, <2>2, <2>4, <3>1, LastOfIs
    <3> QED BY <2>3, <2>4, <3>1, <3>2 DEF p, promised, un
  <2>5. CASE o = {} /\ f # {}
    <3>1. PICK m \in f : Earliest(f, m)
      BY <1>1, <2>5, HasFirst
    <3>2. promised = L[m].print
      BY <1>1, <2>2, <2>5, <3>1, FirstOfIs
    <3> QED BY <2>3, <2>5, <3>1, <3>2 DEF p, promised, un
  <2>6. CASE o = {} /\ f = {} /\ late /\ e0 # {}
    <3>1. PICK m \in e0 : Latest(e0, m)
      BY <1>1, <2>6, HasLast
    <3>2. promised = L[m].print
      BY <1>1, <2>2, <2>6, <3>1, LastOfIs
    <3> QED BY <2>3, <2>6, <3>1, <3>2 DEF p, promised, un
  <2>7. CASE o = {} /\ f = {} /\ ~(late /\ e0 # {})
    BY <2>1, <2>3, <2>7 DEF p, promised, un
  <2> QED BY <2>4, <2>5, <2>6, <2>7
<1> QED BY <1>9, <1>10, <1>11, <1>12

-----------------------------------------------------------------------------
(* What is settled is what is promised *)

Promises(a, d, L, t) ==
  /\ IsLog(L, t) /\ HasHeard(d, L) /\ a.prints \in [T!Dates -> AnyPrint]
  /\ \A date \in T!Dates : RecordedOn(a.prints[date], L, date, t, HoldsOn(a, date))
  /\ a.time = t /\ T!DateOf(t) <= venue.last
  /\ \A c \in T!Held(a) : t >= T!ExpiryTime(c) => Unpromised(L, c, t)
PromInv == Promises(account, desk, log, now)

SettledAs(a, b, L) ==
  \A c \in Contracts :
    /\ b.settled[c] # a.settled[c] /\ b.settled[c].source = "print" => b.settled[c].price = T!Promised(L, c, b.time).price
    /\ c \in T!Held(b) /\ b.time >= T!ExpiryTime(c) => ~T!Known(T!Promised(L, c, b.time))

LEMMA ExpiryComes == ASSUME NEW c \in Contracts, NEW t \in Nat
                     PROVE  /\ t >= T!ExpiryTime(c) => Terms[c].date <= T!DateOf(t)
                            /\ ~Terms[c].am /\ t >= T!At(Terms[c].date, T!Waited) => t >= T!ExpiryTime(c)
<1> DEFINE d == Terms[c].date
<1>1. d \in Nat
  BY SettlementAssumption DEF SettlementAssumption
<1>2. \E tick \in {0, 2, 3} : T!ExpiryTime(c) = T!At(d, tick)
  BY DEF T!ExpiryTime, T!Open, T!Close, T!LateClose
<1> HIDE DEF d
<1>3. PICK tick \in {0, 2, 3} : T!ExpiryTime(c) = d * 5 + tick
  BY <1>2 DEF T!At, T!DayTicks
<1>4. t >= d * 5 + tick => d <= t \div 5
  BY <1>1
<1>5. T!At(d, T!Waited) = d * 5 + 4
  BY DEF T!At, T!DayTicks, T!Waited
<1>6. t >= d * 5 + 4 => t >= d * 5 + tick
  BY <1>1
<1> QED BY <1>3, <1>4, <1>5, <1>6 DEF T!DateOf, T!DayTicks, d

LEMMA UnpromisedAre ==
  ASSUME NEW a, NEW L, NEW t, a.time = t, \A c \in T!Held(a) : t >= T!ExpiryTime(c) => Unpromised(L, c, t)
  PROVE  \A c \in T!Held(a) : a.time >= T!ExpiryTime(c) => ~T!Known(T!Promised(L, c, a.time))
BY UnpromisedIs

LEMMA BatchSettles ==
  ASSUME DaysInv, PromInv, NEW t \in Nat, now <= t, T!DateOf(t) <= venue.last, NEW event, IsEvent(event, t),
         NEW m, NEW assigned
  PROVE  LET d == T!Heard(desk, event)
             N == T!Logged(log, event)
             M == T!Remembered(N, t)
             b == T!Update(account, d, t, m, assigned)
         IN  Promises(b, d, M, t) /\ SettledAs(account, b, M)
<1> DEFINE d == T!Heard(desk, event)
           N == T!Logged(log, event)
           M == T!Remembered(N, t)
           b == T!Update(account, d, t, m, assigned)
<1>0. /\ now \in Nat /\ venue \in Markets /\ DOMAIN account = AccountFields /\ T!DateOf(t) \in Nat
      /\ IsLog(log, now) /\ HasHeard(desk, log) /\ account.prints \in [T!Dates -> AnyPrint]
      /\ \A date \in T!Dates : RecordedOn(account.prints[date], log, date, now, HoldsOn(account, date))
  BY Clock DEF DaysInv, InTime, PromInv, Promises
<1>1. /\ IsLog(N, t) /\ LogGrows(log, N, event) /\ \A i \in DOMAIN N : N[i].kept => i \in DOMAIN log /\ log[i].kept
      /\ IsLog(M, t) /\ LogGrows(log, M, event) /\ SameEntries(N, M)
      /\ \A date \in T!Dates : MarkedOn(N, M, date, t, HoldsOn(account, date))
  BY <1>0, RememberedGrows
<1>2. HasHeard(d, N) /\ HasHeard(d, M)
  BY <1>0, <1>1, HearingGrows
<1>3. PICK q : UpdatedFrom(account, q, b, d, t)
  BY <1>0, UpdateParts
<1> HIDE DEF d, N, M, b
<1>4. /\ q.prints = account.prints /\ T!Held(q) \subseteq T!Held(account)
      /\ \A c \in T!Held(account) : c \in T!Held(q) \/ Terms[c].date > T!DateOf(t)
      /\ b.prints = [date \in T!Dates |-> T!RecordedClose(q, d, date, t)] /\ b.time = t
      /\ T!Held(b) \subseteq T!Held(q)
      /\ \A c \in T!Held(b) : t >= T!ExpiryTime(c) => ~T!Known(T!SettlesOn(b, d, c))
      /\ \A c \in Contracts : b.settled[c] # account.settled[c] =>
           /\ c \in T!Held(q) /\ t >= T!ExpiryTime(c) /\ T!Known(T!SettlesOn(b, d, c))
           /\ b.settled[c].price = T!SettlesOn(b, d, c).price
  BY <1>3 DEF UpdatedFrom
<1>5. \A c \in T!Held(account) : c \in Contracts
  BY DEF T!Held
<1>6. ASSUME NEW date \in T!Dates
      PROVE  /\ RecordedOn(b.prints[date], M, date, t, HoldsOn(b, date))
             /\ HoldsOn(q, date) => PromisedOn(b.prints[date], M, date, t)
  <2> DEFINE p == account.prints[date]
             holds == HoldsOn(account, date)
             left == HoldsOn(b, date)
  <2>1. date \in Nat /\ p \in AnyPrint /\ p = q.prints[date] /\ b.prints[date] = T!RecordedClose(q, d, date, t)
    BY <1>0, <1>4, DatesAre
  <2>2. HoldsOn(q, date) => holds
    BY <1>4 DEF HoldsOn
  <2>3. holds /\ ~HoldsOn(q, date) => date > T!DateOf(t)
    BY <1>4 DEF HoldsOn
  <2>4. left => HoldsOn(q, date)
    BY <1>4 DEF HoldsOn
  <2>5. ASSUME left, t >= T!At(date, T!Waited) PROVE ~T!Known(T!RecordedClose(q, d, date, t))
    <3>1. PICK c \in T!Held(b) : ~Terms[c].am /\ Terms[c].date = date
      BY <2>5 DEF HoldsOn
    <3>2. t >= T!ExpiryTime(c)
      BY <1>4, <1>5, <2>5, <3>1, ExpiryComes
    <3>3. T!SettlesOn(b, d, c) = b.prints[date]
      BY <3>1 DEF T!SettlesOn
    <3> QED BY <1>4, <2>1, <3>1, <3>2, <3>3
  <2>6. RecordedOn(p, log, date, now, holds) /\ MarkedOn(N, M, date, t, holds) /\ HeardOn(d, N, date)
    BY <1>0, <1>1, <1>2 DEF HasHeard
  <2> HIDE DEF p, holds, left
  <2>7. RecordedOn(p, N, date, t, holds)
    <3>1. /\ now \in Nat /\ IsLog(log, now) /\ now <= t /\ LogGrows(log, N, event) /\ date \in Nat
          /\ \A i \in DOMAIN N : N[i].kept => i \in DOMAIN log /\ log[i].kept
      BY <1>0, <1>1, <2>1
    <3>2. RecordedOn(p, log, date, now, holds)
      BY <2>6
    <3>3. \A L, x, r, h : \A j \in Nat :
            IsLog(L, j) /\ j <= t /\ LogGrows(L, x, event) /\ (\A i \in DOMAIN x : x[i].kept => i \in DOMAIN L /\ L[i].kept)
            /\ RecordedOn(r, L, date, j, h) => RecordedOn(r, x, date, t, h)
      BY <2>1, RecordedStands
    <3> QED BY <3>1, <3>2, <3>3
  <2>8. /\ RecordedOn(T!RecordedClose(q, d, date, t), M, date, t, left)
        /\ HoldsOn(q, date) => PromisedOn(T!RecordedClose(q, d, date, t), M, date, t)
    BY <1>1, <2>1, <2>2, <2>3, <2>4, <2>5, <2>6, <2>7, RecordFollows
  <2> QED BY <2>1, <2>8 DEF left
<1>7. b.prints \in [T!Dates -> AnyPrint]
  <2>1. DeskTypes(d)
    BY <1>2 DEF HasHeard
  <2>2. ASSUME NEW date \in T!Dates PROVE T!RecordedClose(q, d, date, t) \in AnyPrint
    <3>1. /\ q.prints[date] \in AnyPrint /\ d.official[date] \in AnyPrint /\ d.closing[date] \in AnyPrint /\ d.before[date] \in AnyPrint
      BY <1>0, <1>4, <2>1 DEF DeskTypes, DeskFields
    <3>2. T!Nothing \in AnyPrint
      BY DEF T!Nothing, AnyPrint
    <3> QED BY <3>1, <3>2 DEF T!RecordedClose
  <2> QED BY <1>4, <2>2
<1>8. ASSUME NEW c \in T!Held(q), t >= T!ExpiryTime(c)
      PROVE  /\ T!Known(T!SettlesOn(b, d, c)) => T!SettlesOn(b, d, c).price = T!Promised(M, c, t).price
             /\ ~T!Known(T!SettlesOn(b, d, c)) => Unpromised(M, c, t)
  <2>1. c \in Contracts /\ Terms[c].date <= T!DateOf(t)
    BY <1>4, <1>5, <1>8, ExpiryComes
  <2>2. Terms[c].date \in Nat /\ venue.last \in Nat
    BY <1>0, <2>1, SettlementAssumption DEF SettlementAssumption
  <2>3. Terms[c].date \in T!Dates
    BY <1>0, <2>1, <2>2, DatesOf
  <2>4. ~Terms[c].am => PromisedOn(b.prints[Terms[c].date], M, Terms[c].date, t)
    BY <1>6, <2>3 DEF HoldsOn
  <2> QED BY <1>1, <1>2, <2>3, <2>4, SettlesOnPromised
<1>9. \A c \in T!Held(b) : t >= T!ExpiryTime(c) => Unpromised(M, c, t)
  BY <1>4, <1>8
<1>10. Promises(b, d, M, t)
  BY <1>1, <1>2, <1>4, <1>6, <1>7, <1>9 DEF Promises
<1>11. SettledAs(account, b, M)
  <2>1. \A c \in T!Held(b) : b.time >= T!ExpiryTime(c) => ~T!Known(T!Promised(M, c, b.time))
    BY <1>4, <1>9, UnpromisedAre
  <2>2. \A c \in Contracts : b.settled[c] # account.settled[c] => b.settled[c].price = T!Promised(M, c, b.time).price
    BY <1>4, <1>8
  <2> QED BY <2>1, <2>2 DEF SettledAs
<1> QED BY <1>10, <1>11 DEF d, N, M, b

LEMMA RecordHeld ==
  ASSUME NEW p, NEW L, NEW date, NEW t, NEW h, RecordedOn(p, L, date, t, h), NEW h2, h2 => h \/ ~(t >= T!At(date, T!Waited))
  PROVE  RecordedOn(p, L, date, t, h2)
BY DEF RecordedOn

\* An order that filled, or an import by hand, leaves what was recorded and heard.
LEMMA PromisesStand ==
  ASSUME NEW a, NEW d, NEW L, NEW t \in Nat, Promises(a, d, L, t), NEW b, b.prints = a.prints, b.time = t,
         \A c \in T!Held(b) : c \in T!Held(a) \/ (c \in Contracts /\ ~(t >= T!ExpiryTime(c)))
  PROVE  Promises(b, d, L, t)
<1>1. ASSUME NEW date \in T!Dates PROVE RecordedOn(b.prints[date], L, date, t, HoldsOn(b, date))
  <2>1. RecordedOn(a.prints[date], L, date, t, HoldsOn(a, date))
    BY DEF Promises
  <2>2. HoldsOn(b, date) => HoldsOn(a, date) \/ ~(t >= T!At(date, T!Waited))
    <3> SUFFICES ASSUME HoldsOn(b, date), ~HoldsOn(a, date) PROVE ~(t >= T!At(date, T!Waited))
      OBVIOUS
    <3>1. PICK c \in T!Held(b) : ~Terms[c].am /\ Terms[c].date = date
      BY DEF HoldsOn
    <3>2. c \in Contracts /\ ~(t >= T!ExpiryTime(c))
      BY <3>1 DEF HoldsOn
    <3> QED BY <3>1, <3>2, ExpiryComes
  <2> QED BY <2>1, <2>2, RecordHeld
<1>2. \A c \in T!Held(b) : t >= T!ExpiryTime(c) => Unpromised(L, c, t)
  BY DEF Promises
<1> QED BY <1>1, <1>2 DEF Promises

LEMMA PromisesSettled ==
  ASSUME NEW a, NEW d, NEW L, NEW t, Promises(a, d, L, t), NEW old,
         \A c \in Contracts : a.settled[c] = old.settled[c] \/ a.settled[c].source # "print"
  PROVE  SettledAs(old, a, L)
<1>1. a.time = t /\ \A c \in T!Held(a) : t >= T!ExpiryTime(c) => Unpromised(L, c, t)
  BY DEF Promises
<1>2. \A c \in T!Held(a) : a.time >= T!ExpiryTime(c) => ~T!Known(T!Promised(L, c, a.time))
  BY <1>1, UnpromisedAre
<1> QED BY <1>2 DEF SettledAs

LEMMA PromisesForgotten ==
  ASSUME NEW a, NEW d, NEW L, NEW t \in Nat, Promises(a, d, L, t),
         NEW R, Forgets(L, R)
  PROVE  Promises(a, T!EmptyDesk, R, t)
<1>1. IsLog(L, t)
  BY DEF Promises
<1>2. IsLog(R, t) /\ \A kind \in {"print", "official", "quotation"} : \A date, from, to :
                       T!Of(R, kind, date, from, to) = KeptOf(L, T!Of(L, kind, date, from, to))
  BY <1>1, ForgottenOf
<1>3. HasHeard(T!EmptyDesk, R) /\ \A date \in T!Dates : \A p, holds : RecordedOn(p, L, date, t, holds) => RecordedOn(p, R, date, t, holds)
  BY <1>1, ForgottenHeard
<1>4. ASSUME NEW c, Unpromised(L, c, t) PROVE Unpromised(R, c, t)
  <2>1. \A s : s = {} => KeptOf(L, s) = {}
    BY DEF KeptOf
  <2> QED BY <1>2, <1>4, <2>1 DEF Unpromised, Officials, After, Before, Openings, Quotations
<1> QED BY <1>2, <1>3, <1>4 DEF Promises

LEMMA PromisesStart == ASSUME T!Init PROVE PromInv
<1>1. /\ venue \in Markets /\ now = 0 /\ desk = T!EmptyDesk /\ log = <<>> /\ account.time = 0
      /\ account.positions = [c \in Contracts |-> 0] /\ account.prints = [date \in T!Dates |-> T!Nothing]
  BY DEF T!Init, T!NoPositions, T!NoPrints
<1>2. T!Held(account) = {}
  BY <1>1 DEF T!Held
<1>3. T!Nothing \in AnyPrint /\ ~T!Known(T!Nothing)
  BY DEF T!Nothing, T!Known, AnyPrint
<1>4. IsLog(log, now)
  BY <1>1 DEF IsLog
<1>5. \A kind, date, from, to : T!Of(log, kind, date, from, to) = {}
  BY <1>1 DEF T!Of
<1>6. HasHeard(desk, log)
  <2>1. Forgets(log, log)
    BY <1>1 DEF Forgets
  <2> QED BY <1>1, <1>4, <2>1, ForgottenHeard
<1>7. ASSUME NEW date \in T!Dates, NEW h PROVE RecordedOn(T!Nothing, log, date, now, h)
  BY <1>1, <1>3, <1>5 DEF RecordedOn, Officials, After, KeptOf, Latest, Earliest
<1>8. venue.last \in Nat /\ T!DateOf(now) <= venue.last
  <2>1. venue.last \in Nat
    BY <1>1, SettlementAssumption DEF SettlementAssumption
  <2> QED BY <1>1, <2>1 DEF T!DateOf, T!DayTicks
<1> QED BY <1>1, <1>2, <1>3, <1>4, <1>6, <1>7, <1>8 DEF PromInv, Promises

\* What comes at a time is of a date of the market, and not of a later time.
LEMMA EventsAre ==
  ASSUME venue \in Markets, NEW t \in Nat, T!DateOf(t) <= venue.last, NEW event \in T!Events(t),
         event.kind = "official" => T!TickOf(t) >= T!Close
  PROVE  IsEvent(event, t)
<1>1. event \in T!AllEvents(t)
  BY DEF T!Events
<1>2. T!DateOf(t) \in Nat /\ T!TickOf(t) \in 0 .. 4 /\ t = T!DateOf(t) * 5 + T!TickOf(t) /\ T!DateOf(t) \in T!Dates
  BY TicksOf, DatesOf
<1> DEFINE day == T!DateOf(t)
<1>3. \A k \in {T!Open, T!Close} : T!At(day, k) \in Nat /\ T!DateOf(T!At(day, k)) = day /\ T!TickOf(T!At(day, k)) = k
  BY TicksOf DEF T!Open, T!Close
<1>4. T!At(day, T!Open) <= t /\ (T!TickOf(t) >= T!Close => T!At(day, T!Close) <= t)
  BY <1>2 DEF T!At, T!DayTicks, T!Open, T!Close
<1>5. CASE event = [kind |-> "quotes"]
  BY <1>5 DEF IsEvent
<1>6. ASSUME NEW p \in DayPrices, NEW ts \in {t, t - 1} \intersect Nat, event = [kind |-> "print", print |-> [price |-> p, ts |-> ts]]
      PROVE  IsEvent(event, t)
  <2>1. ts \in Nat /\ ts <= t
    OBVIOUS
  <2>2. T!DateOf(ts) <= T!DateOf(t) /\ T!DateOf(ts) \in Nat
    BY <2>1, InOrder, TicksOf
  <2>3. venue.last \in Nat
    BY SettlementAssumption DEF SettlementAssumption
  <2>4. T!DateOf(ts) \in T!Dates
    BY <1>2, <2>2, <2>3, DatesOf
  <2> QED BY <1>6, <2>1, <2>4 DEF IsEvent
<1>7. ASSUME NEW p \in DayPrices, event = [kind |-> "official", print |-> [price |-> p, ts |-> T!At(day, T!Close)]]
      PROVE  IsEvent(event, t)
  BY <1>2, <1>3, <1>4, <1>7 DEF IsEvent
<1>8. ASSUME NEW p \in DayPrices, event = [kind |-> "quotation", print |-> [price |-> p, ts |-> T!At(day, T!Open)]]
      PROVE  IsEvent(event, t)
  BY <1>2, <1>3, <1>4, <1>8 DEF IsEvent
<1>9. \/ event = [kind |-> "quotes"]
      \/ \E p \in DayPrices, ts \in {t, t - 1} \intersect Nat : event = [kind |-> "print", print |-> [price |-> p, ts |-> ts]]
      \/ \E p \in DayPrices : event = [kind |-> "official", print |-> [price |-> p, ts |-> T!At(day, T!Close)]]
      \/ \E p \in DayPrices : event = [kind |-> "quotation", print |-> [price |-> p, ts |-> T!At(day, T!Open)]]
  BY <1>1 DEF T!AllEvents
<1> QED BY <1>5, <1>6, <1>7, <1>8, <1>9

LEMMA PromisesStep ==
  ASSUME DaysInv, PromInv, [T!Next]_T!vars
  PROVE  PromInv' /\ SettledAs(account, account', log')
<1>1. /\ InTime(account) /\ DOMAIN account = AccountFields /\ venue \in Markets /\ now \in Nat
      /\ Promises(account, desk, log, now) /\ account.time = now /\ T!DateOf(now) <= venue.last
  BY DEF DaysInv, InTime, PromInv, Promises
<1>2. ASSUME venue' = venue, Promises(account', desk', log', now') PROVE PromInv'
  BY <1>2 DEF PromInv, Promises, HasHeard, HeardOn, Unpromised
<1>3. CASE T!Batch
  <2>0. PICK t \in {now, now + 1, T!At(T!DateOf(now) + 1, T!Open)}, m \in BOOLEAN, assigned \in SUBSET venue.listed :
          \E event \in T!Events(t) :
            /\ T!DateOf(t) <= venue.last /\ (event.kind = "official" => T!TickOf(t) >= T!Close)
            /\ now' = t /\ desk' = T!Heard(desk, event) /\ account' = T!Update(account, desk', t, m, assigned)
            /\ log' = T!Remembered(T!Logged(log, event), t)
            /\ venue' = venue
    BY <1>3 DEF T!Batch
  <2>1. PICK event \in T!Events(t) :
          /\ T!DateOf(t) <= venue.last /\ (event.kind = "official" => T!TickOf(t) >= T!Close)
          /\ now' = t /\ desk' = T!Heard(desk, event) /\ account' = T!Update(account, desk', t, m, assigned)
          /\ log' = T!Remembered(T!Logged(log, event), t)
          /\ venue' = venue
    BY <2>0
  <2>2. t \in Nat /\ now <= t
    BY <1>1, <2>0 DEF T!DateOf, T!At, T!DayTicks, T!Open
  <2>3. IsEvent(event, t)
    BY <1>1, <2>1, <2>2, EventsAre
  <2> DEFINE N == T!Logged(log, event)
             d == T!Heard(desk, event)
             M == T!Remembered(N, t)
             b == T!Update(account, d, t, m, assigned)
  <2>4. Promises(b, d, M, t) /\ SettledAs(account, b, M)
    BY <2>1, <2>2, <2>3, BatchSettles
  <2>5. desk' = d /\ log' = M /\ account' = b
    BY <2>1
  <2> HIDE DEF N, d, M, b
  <2>6. Promises(account', desk', log', now')
    BY <2>1, <2>4, <2>5
  <2> QED BY <1>2, <2>1, <2>4, <2>5, <2>6
<1>4. CASE T!Trade
  <2>1. PICK c \in venue.listed, position \in {-1, 1} :
          /\ now < T!ExpiryTime(c) /\ account' = [account EXCEPT !.positions[c] = position, !.time = now]
          /\ venue' = venue /\ now' = now /\ desk' = desk /\ log' = log
    BY <1>4 DEF T!Trade
  <2>2. c \in Contracts
    BY <1>1, <2>1, SettlementAssumption DEF SettlementAssumption
  <2>3. /\ account'.prints = account.prints /\ account'.time = now /\ account'.settled = account.settled
        /\ account'.positions = [account.positions EXCEPT ![c] = position]
    BY <1>1, <2>1 DEF AccountFields
  <2>4. ~(now >= T!ExpiryTime(c))
    BY <1>1, <2>1, <2>2, TermsOf
  <2>5. \A x \in T!Held(account') : x \in T!Held(account) \/ (x \in Contracts /\ ~(now >= T!ExpiryTime(x)))
    BY <1>1, <2>3, <2>4 DEF T!Held, InTime
  <2>6. Promises(account', desk, log, now)
    BY <1>1, <2>3, <2>5, PromisesStand
  <2>7. SettledAs(account, account', log)
    BY <2>3, <2>6, PromisesSettled
  <2> QED BY <1>2, <2>1, <2>6, <2>7
<1>5. CASE T!Import
  <2>1. PICK c \in venue.listed, price \in DayPrices :
          /\ venue' = venue /\ now' = now /\ desk' = desk /\ log' = log
          /\ account' = T!Settle([account EXCEPT !.time = now], [one \in {c} |-> price], "hand")
    BY <1>5 DEF T!Import
  <2> DEFINE a == [account EXCEPT !.time = now]
             prices == [one \in {c} |-> price]
             b == T!Settle(a, prices, "hand")
             s == [x \in Contracts |-> IF x \in DOMAIN prices THEN [price |-> prices[x], day |-> a.day, source |-> "hand"]
                                       ELSE a.settled[x]]
             p == [x \in Contracts |-> IF x \in DOMAIN prices THEN 0 ELSE a.positions[x]]
  <2>2. /\ DOMAIN a = AccountFields /\ a.prints = account.prints /\ a.time = now /\ a.settled = account.settled
        /\ a.positions = account.positions
    BY <1>1 DEF AccountFields
  <2>3. account' = b
    BY <2>1
  <2> HIDE DEF a, prices
  <2>4. /\ b.prints = account.prints /\ b.time = now /\ b.settled = s /\ b.positions = p
    BY <2>2 DEF T!Settle, AccountFields
  <2> HIDE DEF b
  <2>5. \A x \in T!Held(b) : x \in T!Held(account)
    BY <2>2, <2>4 DEF T!Held
  <2>6. \A x \in Contracts : b.settled[x] = account.settled[x] \/ b.settled[x].source # "print"
    BY <2>2, <2>4
  <2>7. Promises(b, desk, log, now)
    BY <1>1, <2>4, <2>5, PromisesStand
  <2>8. SettledAs(account, b, log)
    BY <2>6, <2>7, PromisesSettled
  <2> QED BY <1>2, <2>1, <2>3, <2>7, <2>8
<1>6. CASE T!Restart
  <2>1. /\ account' = account /\ venue' = venue /\ now' = now /\ desk' = T!EmptyDesk
        /\ log' = [i \in DOMAIN log |-> IF log[i].kept THEN log[i] ELSE T!Forgotten]
    BY <1>6 DEF T!Restart
  <2>2. Forgets(log, log')
    BY <2>1 DEF Forgets
  <2>3. Promises(account', desk', log', now')
    BY <1>1, <2>1, <2>2, PromisesForgotten
  <2>4. SettledAs(account, account', log')
    BY <2>1, <2>3, PromisesSettled
  <2> QED BY <1>2, <2>1, <2>3, <2>4
<1>7. CASE UNCHANGED T!vars
  <2>1. account' = account /\ venue' = venue /\ now' = now /\ desk' = desk /\ log' = log
    BY <1>7 DEF T!vars
  <2>2. Promises(account', desk', log', now')
    BY <1>1, <2>1
  <2>3. SettledAs(account, account', log')
    BY <2>1, <2>2, PromisesSettled
  <2> QED BY <1>2, <2>1, <2>2, <2>3
<1> QED BY <1>3, <1>4, <1>5, <1>6, <1>7 DEF T!Next

(* A position settles on the close the documents name, whatever order the prints come in and       *)
(* however often the server restarts: on the latest official close, or else the first print after  *)
(* the close, or else after half an hour the last print before it, and it waits for no later one   *)
(* (session.cpp's settle_expired and record_session_closes, desk.cpp's captures): what an account  *)
(* recorded is what was promised when it recorded it, and it holds on to that.                     *)
THEOREM PositionsSettleAsPromised == DaySpec => SettlesAsPromised
<1>1. T!Init => DaysInv /\ PromInv
  BY DaysStart, PromisesStart
<1>2. DaysInv /\ PromInv /\ [T!Next]_T!vars => (DaysInv /\ PromInv)'
  BY DaysStep, PromisesStep
<1>3. DaysInv /\ PromInv /\ [T!Next]_T!vars =>
        [\A c \in Contracts :
           LET promised == T!Promised(log', c, account'.time)
           IN /\ account'.settled[c] # account.settled[c] /\ account'.settled[c].source = "print" =>
                   account'.settled[c].price = promised.price
              /\ c \in T!Held(account') /\ account'.time >= T!ExpiryTime(c) => ~T!Known(promised)]_T!vars
  BY PromisesStep DEF SettledAs
<1> QED BY <1>1, <1>2, <1>3, PTL DEF DaySpec, T!Spec, SettlesAsPromised, T!SettlesAsPromised
===============================================================================
