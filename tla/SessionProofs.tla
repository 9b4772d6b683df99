--------------------------- MODULE SessionProofs ----------------------------
(***************************************************************************)
(* What a session's journal is worth, for any clients, terms, bounds and   *)
(* number of crashes: its lines count the versions of the account that     *)
(* trades, rebuild that account, and keep every answer a client was given. *)
(*                                                                         *)
(* VInv says where the transaction in progress stands: its record is the   *)
(* next line until it is written, and the last one from then on.  SInv     *)
(* adds what the lines say: the states behind them only grow, in a sense   *)
(* that keeps every answer (Grown); the state behind the last is that of   *)
(* the account while it trades, and of the transaction from the moment its *)
(* line is written; and what was answered stands in the state behind the   *)
(* lines that are safe.  A transaction changes the account step by step;   *)
(* each step is shown to keep a state recovery would derive (Kempt) and to *)
(* grow, and the change it records to lead from the one to the other.      *)
(***************************************************************************)
EXTENDS Session, SequenceTheorems, FiniteSetTheorems, WellFoundedInduction, TLAPS

Fields == {"time", "version", "orders", "starts", "clients", "working", "indexed"}

IsSeq(s) == \E S : s \in Seq(S)

\* t is a state, of the version of s.
SameVersion(s, t) == DOMAIN t = Fields /\ t.version = s.version

Numbered ==
  /\ IsSeq(lines)
  /\ \A n \in 1 .. Len(lines) : lines[n].seq = n
  /\ durable \in Nat

Standing ==
  /\ DOMAIN account = Fields
  /\ Serving => account.version = Len(lines)

\* The transaction in progress and the line it adds.
Committing ==
  tx # None =>
    /\ DOMAIN tx = {"next", "answers", "step", "line"}
    /\ tx.step \in {"writing", "syncing", "publishing"}
    /\ DOMAIN tx.next = Fields /\ tx.next.version = tx.line.seq
    /\ tx.line.seq = IF tx.step = "writing" THEN Len(lines) + 1 ELSE Len(lines)

VInv == Numbered /\ Standing /\ Committing

-----------------------------------------------------------------------------
(* Sequences of anything *)

LEMMA AppendIsSeq ==
  ASSUME NEW s, IsSeq(s), NEW x
  PROVE  /\ IsSeq(Append(s, x)) /\ Len(s) \in Nat /\ Len(Append(s, x)) = Len(s) + 1
         /\ \A n \in 1 .. Len(s) : Append(s, x)[n] = s[n]
         /\ Append(s, x)[Len(s) + 1] = x
<1>1. PICK S : s \in Seq(S)
  BY DEF IsSeq
<1>2. s \in Seq(S \cup {x})
  <2>1. Len(s) \in Nat /\ \A n \in 1 .. Len(s) : s[n] \in S \cup {x}
    BY <1>1
  <2> QED
    BY <1>1, <2>1
<1>3. Append(s, x) \in Seq(S \cup {x})
  BY <1>2
<1> QED
  BY <1>2, <1>3 DEF IsSeq

LEMMA PrefixIsSeq ==
  ASSUME NEW s, IsSeq(s), NEW n \in 0 .. Len(s)
  PROVE  /\ IsSeq(SubSeq(s, 1, n)) /\ Len(SubSeq(s, 1, n)) = n
         /\ \A i \in 1 .. n : SubSeq(s, 1, n)[i] = s[i]
<1>1. PICK S : s \in Seq(S)
  BY DEF IsSeq
<1>2. SubSeq(s, 1, n) \in Seq(S)
  BY <1>1
<1> QED
  BY <1>1, <1>2 DEF IsSeq

LEMMA EmptyIsSeq == IsSeq(<<>>) /\ Len(<<>>) = 0
<1>1. <<>> \in Seq({})
  OBVIOUS
<1> QED
  BY <1>1 DEF IsSeq

\* A record is not the empty sequence.
LEMMA RecordIsSome ==
  ASSUME NEW r, "step" \in DOMAIN r
  PROVE  r # None
<1>1. DOMAIN <<>> = {}
  OBVIOUS
<1> QED
  BY <1>1 DEF None

-----------------------------------------------------------------------------
(* The commands keep the version; the commit counts it *)

LEMMA PlaceVersion ==
  ASSUME NEW s, DOMAIN s = Fields, NEW c, NEW t, NEW status
  PROVE  SameVersion(s, Place(s, c, t, status))
  BY DEF Place, SameVersion, Fields

LEMMA PlaceChainedVersion ==
  ASSUME NEW s, DOMAIN s = Fields
  PROVE  SameVersion(s, PlaceChained(s))
<1> DEFINE due == {i \in Ids(s) : /\ i \in s.working \/ i > s.indexed
                                  /\ s.orders[i].status = "Filled"
                                  /\ s.orders[i].request \in Chained /\ ~s.orders[i].chained}
           id == Min(due)
           placed == Place(s, ChildOf[s.orders[id].client], ChildTerms, "Working")
<1>1. SameVersion(s, placed)
  BY PlaceVersion
<1>2. PlaceChained(s) = IF due = {} THEN s ELSE [placed EXCEPT !.orders[id].chained = TRUE]
  BY DEF PlaceChained
<1> HIDE DEF due, placed, id
<1> QED
  BY <1>1, <1>2 DEF SameVersion, Fields

LEMMA ReindexedVersion ==
  ASSUME NEW s, DOMAIN s = Fields
  PROVE  SameVersion(s, Reindexed(s))
  BY DEF Reindexed, SameVersion, Fields

LEMMA TransactVersions ==
  ASSUME VInv, NEW effect, SameVersion(account, effect), NEW quiet, NEW told,
         Transact(effect, quiet, told)
  PROVE  VInv'
<1>1. /\ Serving /\ UNCHANGED <<process, account, stopped, lines, durable>>
  BY DEF Transact, file
<1>2. account.version = Len(lines) /\ Len(lines) \in Nat
  <2>1. Len(lines) \in Nat
    BY AppendIsSeq DEF VInv, Numbered
  <2> QED
    BY <1>1, <2>1 DEF VInv, Standing
<1>3. PICK time \in account.time .. MaxTime :
        LET next == Reindexed(PlaceChained([effect EXCEPT !.time = time]))
            change == StateChange(account, next)
        IN  IF recorder.based /\ quiet /\ Unchanged(change)
            THEN answers' = answers \cup told /\ UNCHANGED <<recorder, tx>>
            ELSE /\ Len(lines) < MaxLines
                 /\ Recording([next EXCEPT !.version = @ + 1], change, told)
                 /\ UNCHANGED answers
  BY DEF Transact
<1> DEFINE timed == [effect EXCEPT !.time = time]
           next == Reindexed(PlaceChained(timed))
           numbered == [next EXCEPT !.version = @ + 1]
           change == StateChange(account, next)
<1>4. SameVersion(account, timed)
  BY DEF SameVersion, Fields
<1>5. SameVersion(account, next)
  BY <1>4, PlaceChainedVersion, ReindexedVersion DEF SameVersion
<1>6. DOMAIN numbered = Fields /\ numbered.version = Len(lines) + 1
  BY <1>2, <1>5 DEF SameVersion, Fields
<1>7. UNCHANGED tx \/ Recording(numbered, change, told)
  BY <1>3
<1> HIDE DEF timed, next, numbered, change
<1>8. Numbered' /\ Standing'
  <2>1. Numbered'
    BY <1>1 DEF VInv, Numbered
  <2>2. Standing'
    BY <1>1, <1>2 DEF VInv, Standing
  <2> QED
    BY <2>1, <2>2
<1>9. CASE UNCHANGED tx
  BY <1>1, <1>8, <1>9 DEF VInv, Committing
<1>10. CASE Recording(numbered, change, told)
  <2>1. PICK whole \in BOOLEAN :
          tx' = [next |-> numbered, answers |-> told, step |-> "writing",
                 line |-> [seq |-> numbered.version, time |-> numbered.time, whole |-> whole,
                           data |-> IF whole THEN Core(numbered) ELSE Delta(change, numbered.version)]]
    BY <1>10 DEF Recording
  <2>2. /\ DOMAIN tx' = {"next", "answers", "step", "line"} /\ tx'.step = "writing"
        /\ tx'.next = numbered /\ tx'.line.seq = numbered.version
    BY <2>1
  <2>3. Committing'
    BY <1>1, <1>6, <2>2 DEF Committing
  <2> QED
    BY <1>8, <2>3 DEF VInv
<1> QED
  BY <1>7, <1>9, <1>10

\* Every command is a transaction on a state of the account's version.
LEMMA CommandVersions ==
  ASSUME VInv,
         \/ \E c \in Submissions : Submit(c[1], c[2])
         \/ \E id \in Ids(account) : Cancel(id) \/ \E t \in Terms \ Chained : Modify(id, t)
         \/ Refused \/ Market \/ Reset
  PROVE  VInv'
<1>0. DOMAIN account = Fields
  BY DEF VInv, Standing
<1>1. ASSUME NEW c, NEW t, Submit(c, t) PROVE VInv'
  <2>1. CASE Named(account, c) # NoId
    BY <1>1, <2>1 DEF Submit, file, VInv, Numbered, Standing, Serving, Committing
  <2>2. CASE Named(account, c) = NoId
    <3>1. PICK status \in {"Working", "Filled", "Rejected"} :
            Transact(Place(account, c, t, status), FALSE,
              {Answer(c, t, [order |-> Len(account.orders) + 1,
                             kind  |-> IF status = "Rejected" THEN "rejected" ELSE "accepted"])})
      BY <1>1, <2>2 DEF Submit
    <3>2. SameVersion(account, Place(account, c, t, status))
      BY <1>0, PlaceVersion
    <3> QED
      BY <3>1, <3>2, TransactVersions
  <2> QED
    BY <2>1, <2>2
<1>2. ASSUME NEW id, Cancel(id) PROVE VInv'
  <2>1. SameVersion(account, [account EXCEPT !.orders[id].status = "Cancelled"])
    BY <1>0 DEF SameVersion, Fields
  <2> QED
    BY <1>2, <2>1, TransactVersions DEF Cancel
<1>3. ASSUME NEW id, NEW t, Modify(id, t) PROVE VInv'
  <2>1. SameVersion(account, [account EXCEPT !.orders[id].request = t,
                                             !.orders[id].submitted = Submission(account.orders[id])])
    BY <1>0 DEF SameVersion, Fields
  <2> QED
    BY <1>3, <2>1, TransactVersions DEF Modify
<1>4. CASE Refused
  BY <1>0, <1>4, TransactVersions DEF Refused, SameVersion
<1>5. CASE Market
  <2>1. ASSUME NEW id, NEW status, Transact([account EXCEPT !.orders[id].status = status], FALSE, {})
        PROVE  VInv'
    <3>1. SameVersion(account, [account EXCEPT !.orders[id].status = status])
      BY <1>0 DEF SameVersion, Fields
    <3> QED
      BY <2>1, <3>1, TransactVersions
  <2>2. CASE Transact(account, TRUE, {})
    BY <1>0, <2>2, TransactVersions DEF SameVersion
  <2> QED
    BY <1>5, <2>1, <2>2 DEF Market
<1>6. CASE Reset
  <2> DEFINE Ended(o) == IF Open(o) THEN [o EXCEPT !.status = "Cancelled"] ELSE o
             fresh == [account EXCEPT !.orders = <<>> \o [i \in 1 .. Len(@) |-> Ended(@[i])],
                                      !.starts = Append(@, Len(account.orders) + 1)]
  <2>1. SameVersion(account, fresh)
    BY <1>0 DEF SameVersion, Fields
  <2>2. Transact(fresh, FALSE, {})
    BY <1>6 DEF Reset
  <2> QED
    BY <2>1, <2>2, TransactVersions
<1> QED
  BY <1>1, <1>2, <1>3, <1>4, <1>5, <1>6

\* A session starts with a record to write, and recovers with the version its
\* last line carries.
LEMMA OpenVersions ==
  ASSUME VInv, Start \/ Recover \/ Repair
  PROVE  VInv'
<1>0. Len(lines) \in Nat
  BY AppendIsSeq DEF VInv, Numbered
<1>1. CASE Start
  <2> DEFINE first == [Fresh EXCEPT !.version = 1]
  <2>1. DOMAIN Fresh = Fields /\ DOMAIN first = Fields /\ first.version = 1
    BY DEF Fresh, Loaded, Fields
  <2> HIDE DEF first
  <2>2. tx' = [next |-> first, answers |-> {}, step |-> "writing",
               line |-> [seq |-> 1, time |-> 0, whole |-> TRUE, data |-> Core(first)]]
    BY <1>1 DEF Start, first
  <2>3. Len(lines) = 0
    BY <1>1, EmptyIsSeq DEF Start
  <2>4. Committing'
    BY <1>1, <2>1, <2>2, <2>3 DEF Start, file, Committing
  <2>5. Numbered' /\ Standing'
    BY <1>1, <2>1 DEF Start, file, VInv, Numbered, Standing, Serving
  <2> QED
    BY <2>4, <2>5 DEF VInv
<1>2. CASE Recover
  <2> DEFINE walked == Walk(lines)
  <2>1. Len(lines) \in 1 .. Len(lines) /\ SubSeq(lines, 1, Len(lines)) = lines
    <3>1. PICK S : lines \in Seq(S)
      BY DEF VInv, Numbered, IsSeq
    <3>2. lines # <<>>
      BY <1>2 DEF Recover
    <3> QED
      BY <3>1, <3>2
  <2>2. walked.version = lines[Len(lines)].seq
    BY <1>2, <2>1 DEF Recover, Walks
  <2>3. walked.version = Len(lines)
    BY <2>1, <2>2 DEF VInv, Numbered
  <2> HIDE DEF walked
  <2>4. DOMAIN Loaded(walked) = Fields /\ Loaded(walked).version = walked.version
    BY DEF Loaded, Fields
  <2>5. account' = Loaded(walked)
    BY <1>2 DEF Recover, walked
  <2> QED
    BY <1>2, <2>3, <2>4, <2>5 DEF Recover, file, VInv, Numbered, Standing, Serving, Committing
<1>3. CASE Repair
  BY <1>0, <1>3 DEF Repair, VInv, Numbered, Standing, Serving, Committing
<1> QED
  BY <1>1, <1>2, <1>3

\* The steps of a commit move the transaction along the journal's end.
LEMMA CommitVersions ==
  ASSUME VInv, WriteLine \/ SyncLine \/ Publish \/ AppendFails
  PROVE  VInv'
<1>0. IsSeq(lines) /\ Len(lines) \in Nat
  BY AppendIsSeq DEF VInv, Numbered
<1>1. CASE WriteLine
  <2>1. /\ tx # None /\ tx.step = "writing" /\ lines' = Append(lines, tx.line)
        /\ tx' = [tx EXCEPT !.step = "syncing"]
        /\ UNCHANGED <<process, account, stopped, durable>>
    BY <1>1 DEF WriteLine, At, Step
  <2>2. /\ IsSeq(lines') /\ Len(lines') = Len(lines) + 1
        /\ \A n \in 1 .. Len(lines) : lines'[n] = lines[n]
        /\ lines'[Len(lines) + 1] = tx.line
    BY <1>0, <2>1, AppendIsSeq
  <2>3. /\ DOMAIN tx = {"next", "answers", "step", "line"} /\ tx.line.seq = Len(lines) + 1
        /\ DOMAIN tx.next = Fields /\ tx.next.version = tx.line.seq
    BY <2>1 DEF VInv, Committing
  <2>4. /\ DOMAIN tx' = {"next", "answers", "step", "line"} /\ tx'.step = "syncing"
        /\ tx'.line = tx.line /\ tx'.next = tx.next
    BY <2>1, <2>3
  <2>5. tx' # None
    BY <2>4, RecordIsSome
  <2>6. Numbered'
    <3> SUFFICES ASSUME NEW n \in 1 .. Len(lines') PROVE lines'[n].seq = n
      BY <2>1, <2>2 DEF VInv, Numbered
    <3>1. CASE n \in 1 .. Len(lines)
      BY <2>2, <3>1 DEF VInv, Numbered
    <3>2. CASE n = Len(lines) + 1
      BY <2>2, <2>3, <3>2
    <3> QED
      BY <1>0, <2>2, <3>1, <3>2
  <2>7. Standing' /\ Committing'
    BY <2>1, <2>2, <2>3, <2>4, <2>5 DEF VInv, Standing, Serving, Committing
  <2> QED
    BY <2>6, <2>7 DEF VInv
<1>2. CASE SyncLine
  <2>1. /\ tx # None /\ tx.step = "syncing" /\ durable' = Len(lines)
        /\ tx' = [tx EXCEPT !.step = "publishing"]
        /\ UNCHANGED <<process, account, stopped, lines>>
    BY <1>2 DEF SyncLine, At, Step
  <2>2. /\ DOMAIN tx = {"next", "answers", "step", "line"} /\ tx.line.seq = Len(lines)
        /\ DOMAIN tx.next = Fields /\ tx.next.version = tx.line.seq
    BY <2>1 DEF VInv, Committing
  <2>3. /\ DOMAIN tx' = {"next", "answers", "step", "line"} /\ tx'.step = "publishing"
        /\ tx'.line = tx.line /\ tx'.next = tx.next
    BY <2>1, <2>2
  <2>4. tx' # None
    BY <2>3, RecordIsSome
  <2> QED
    BY <1>0, <2>1, <2>2, <2>3, <2>4 DEF VInv, Numbered, Standing, Serving, Committing
<1>3. CASE Publish
  BY <1>3 DEF Publish, Publishable, file, VInv, Numbered, Standing, Serving, Committing
<1>4. CASE AppendFails
  <2>1. DOMAIN Fresh = Fields
    BY DEF Fresh, Loaded, Fields
  <2> QED
    BY <1>4, <2>1 DEF AppendFails, Down, VInv, Numbered, Standing, Serving, Committing
<1> QED
  BY <1>1, <1>2, <1>3, <1>4

\* A crash or a power loss leaves no account to trade, and a prefix of the lines.
LEMMA CrashVersions ==
  ASSUME VInv, Crash \/ PowerLoss
  PROVE  VInv'
<1>0. IsSeq(lines) /\ Len(lines) \in Nat /\ durable \in Nat
  BY AppendIsSeq DEF VInv, Numbered
<1>1. DOMAIN Fresh = Fields
  BY DEF Fresh, Loaded, Fields
<1>2. Standing' /\ Committing'
  BY <1>1 DEF Crash, PowerLoss, Down, Standing, Serving, Committing
<1>3. CASE Crash
  BY <1>2, <1>3 DEF Crash, VInv, Numbered
<1>4. CASE PowerLoss
  <2>1. durable' \in durable .. Len(lines) /\ lines' = SubSeq(lines, 1, durable')
    BY <1>4 DEF PowerLoss
  <2>2. durable' \in 0 .. Len(lines)
    BY <1>0, <2>1
  <2>3. /\ IsSeq(lines') /\ Len(lines') = durable'
        /\ \A i \in 1 .. Len(lines') : lines'[i] = lines[i]
    BY <1>0, <2>1, <2>2, PrefixIsSeq
  <2>4. Numbered'
    BY <1>0, <2>2, <2>3 DEF VInv, Numbered
  <2> QED
    BY <1>2, <2>4 DEF VInv
<1> QED
  BY <1>3, <1>4

-----------------------------------------------------------------------------

LEMMA InitVersions == Init => VInv
<1> SUFFICES ASSUME Init PROVE VInv
  OBVIOUS
<1>1. DOMAIN Fresh = Fields
  BY DEF Fresh, Loaded, Fields
<1> QED
  BY <1>1, EmptyIsSeq DEF Init, VInv, Numbered, Standing, Serving, Committing

LEMMA NextVersions == VInv /\ [Next]_vars => VInv'
<1> SUFFICES ASSUME VInv, [Next]_vars PROVE VInv'
  OBVIOUS
<1>1. CASE UNCHANGED vars
  BY <1>1 DEF vars, file, VInv, Numbered, Standing, Serving, Committing
<1>2. CASE Start \/ Recover \/ Repair
  BY <1>2, OpenVersions
<1>3. CASE WriteLine \/ SyncLine \/ Publish \/ AppendFails
  BY <1>3, CommitVersions
<1>4. CASE Crash \/ PowerLoss
  BY <1>4, CrashVersions
<1>5. CASE \/ \E c \in Submissions : Submit(c[1], c[2])
           \/ \E id \in Ids(account) : Cancel(id) \/ \E t \in Terms \ Chained : Modify(id, t)
           \/ Refused \/ Market \/ Reset
  BY <1>5, CommandVersions
<1> QED
  BY <1>1, <1>2, <1>3, <1>4, <1>5 DEF Next

\* The strengthened invariant holds of every behaviour of a session.
THEOREM SessionInvariant == Spec => []VInv
  BY InitVersions, NextVersions, PTL DEF Spec

\* An account that trades has the versions its journal holds, no more and no
\* fewer (Impl::transact, TradingSession::recover).
THEOREM VersionsCountLines == Spec => []VersionCountsLines
<1>1. VInv => VersionCountsLines
  BY DEF VInv, Numbered, Standing, VersionCountsLines
<1> QED
  BY <1>1, SessionInvariant, PTL

-----------------------------------------------------------------------------
(* Walking the lines: the state behind each line is the one before it with the *)
(* line's record applied *)

\* The state a record leaves after the state s.
Extended(s, r) == IF r.whole THEN r.data ELSE Applied(s, r.data)
\* The walk of the first n lines, state by state.
Fits(ls, g, n) == g = [m \in 0 .. n |-> IF m = 0 THEN NoState ELSE Extended(g[m - 1], ls[m])]
\* The first k lines are the same.
Alike(ls, others, k) == \A i \in 1 .. k : ls[i] = others[i]
\* The state the first n lines leave.
Behind(ls, n) == Walk(SubSeq(ls, 1, n))

\* A set of numbers has a least.
LEMMA Least == ASSUME NEW T, T \subseteq Nat, T # {} PROVE \E u \in T : \A v \in T : u <= v
<1> DEFINE less == OpToRel(<, Nat)
<1>1. IsWellFoundedOn(less, Nat)
  BY NatLessThanWellFounded
<1>2. less = {ss \in Nat \X Nat : ss[1] < ss[2]}
  BY DEF OpToRel
<1> HIDE DEF less
<1>3. PICK u \in T : \A y \in T : ~ (<<y, u>> \in less)
  BY <1>1, WFMin
<1>4. ASSUME NEW v \in T PROVE u <= v
  <2>1. <<v, u>> \in Nat \X Nat
    OBVIOUS
  <2>2. ~ (<<v, u>>[1] < <<v, u>>[2])
    BY <1>2, <1>3, <2>1, Zenon
  <2>3. ~ (v < u) /\ v \in Nat /\ u \in Nat
    BY <2>2
  <2> QED
    BY <2>3
<1> QED
  BY <1>4

LEMMA FitExists == ASSUME NEW ls, NEW n \in Nat PROVE \E g : Fits(ls, g, n)
<1> DEFINE T == {k \in Nat : ~ \E g : Fits(ls, g, k)}
<1> SUFFICES ASSUME T # {} PROVE FALSE
  OBVIOUS
<1>1. PICK k \in T : \A j \in T : k <= j
  BY Least
<1>2. k \in Nat /\ ~ \E g : Fits(ls, g, k)
  OBVIOUS
<1>3. CASE k = 0
  <2>1. Fits(ls, [m \in 0 .. 0 |-> NoState], 0)
    BY DEF Fits
  <2> QED
    BY <1>2, <1>3, <2>1
<1>4. CASE k # 0
  <2>1. k - 1 \in Nat /\ k - 1 \notin T
    BY <1>1, <1>2, <1>4
  <2>2. PICK g : Fits(ls, g, k - 1)
    BY <2>1
  <2> DEFINE h == [m \in 0 .. k |-> IF m = 0 THEN NoState ELSE Extended(g[m - 1], ls[m])]
  <2>3. \A m \in 0 .. k - 1 : h[m] = g[m]
    BY <1>2, <2>1, <2>2 DEF Fits
  <2>4. ASSUME NEW m \in 0 .. k, m # 0 PROVE Extended(g[m - 1], ls[m]) = Extended(h[m - 1], ls[m])
    <3>1. m - 1 \in 0 .. k - 1
      BY <1>2, <2>4
    <3>2. h[m - 1] = g[m - 1]
      BY <2>3, <3>1
    <3> QED
      BY <3>2
  <2>5. h = [m \in 0 .. k |-> IF m = 0 THEN NoState ELSE Extended(h[m - 1], ls[m])]
    BY <2>4
  <2> QED
    BY <1>2, <2>5 DEF Fits
<1> QED
  BY <1>3, <1>4

\* Two walks of the same lines agree.
LEMMA FitUnique ==
  ASSUME NEW ls, NEW others, NEW g, NEW h, NEW n \in Nat, NEW m \in Nat, Fits(ls, g, n), Fits(others, h, m),
         NEW k \in Nat, k <= n, k <= m, Alike(ls, others, k)
  PROVE  g[k] = h[k]
<1> DEFINE T == {j \in 0 .. k : g[j] # h[j]}
<1> SUFFICES ASSUME T # {} PROVE FALSE
  OBVIOUS
<1>0. T \subseteq Nat
  OBVIOUS
<1> HIDE DEF T
<1>1. PICK j \in T : \A i \in T : j <= i
  BY <1>0, Least
<1>2. j \in 0 .. k /\ g[j] # h[j]
  BY DEF T
<1>3. /\ g[j] = IF j = 0 THEN NoState ELSE Extended(g[j - 1], ls[j])
      /\ h[j] = IF j = 0 THEN NoState ELSE Extended(h[j - 1], others[j])
  BY <1>2 DEF Fits
<1>4. CASE j = 0
  BY <1>2, <1>3, <1>4
<1>5. CASE j # 0
  <2>1. j - 1 \in 0 .. k /\ j - 1 \notin T
    BY <1>1, <1>2, <1>5
  <2>2. g[j - 1] = h[j - 1] /\ ls[j] = others[j]
    BY <1>2, <1>5, <2>1 DEF T, Alike
  <2> QED
    BY <1>2, <1>3, <1>5, <2>2
<1> QED
  BY <1>4, <1>5

LEMMA WalkFits ==
  ASSUME NEW ls, Len(ls) \in Nat, NEW g, Fits(ls, g, Len(ls))
  PROVE  Walk(ls) = g[Len(ls)]
<1> DEFINE state == CHOOSE f : Fits(ls, f, Len(ls))
<1>1. Walk(ls) = state[Len(ls)]
  BY DEF Walk, Fits, Extended
<1>2. Fits(ls, state, Len(ls))
  BY FitExists
<1> HIDE DEF state
<1>3. g[Len(ls)] = state[Len(ls)]
  BY <1>2, FitUnique DEF Alike
<1> QED
  BY <1>1, <1>3

\* Nothing is behind no line.
LEMMA BehindNone == ASSUME NEW ls, IsSeq(ls) PROVE Behind(ls, 0) = NoState
<1> DEFINE none == SubSeq(ls, 1, 0)
<1>1. Len(none) = 0
  BY PrefixIsSeq, AppendIsSeq
<1>2. PICK g : Fits(none, g, 0)
  BY FitExists
<1>3. g[0] = NoState
  BY <1>2 DEF Fits
<1> HIDE DEF none
<1>4. Walk(none) = NoState
  BY <1>1, <1>2, <1>3, WalkFits
<1> QED
  BY <1>4 DEF Behind, none

\* A line leaves the state behind it, extended by its record.
LEMMA BehindLine ==
  ASSUME NEW ls, IsSeq(ls), NEW n \in 1 .. Len(ls)
  PROVE  Behind(ls, n) = Extended(Behind(ls, n - 1), ls[n])
<1>1. Len(ls) \in Nat /\ n \in 0 .. Len(ls) /\ n - 1 \in 0 .. Len(ls) /\ n \in Nat /\ n - 1 \in Nat
  BY AppendIsSeq
<1>2. PICK g : Fits(ls, g, Len(ls))
  BY <1>1, FitExists
<1>3. ASSUME NEW k \in 0 .. Len(ls) PROVE Behind(ls, k) = g[k]
  <2> DEFINE first == SubSeq(ls, 1, k)
  <2>1. Len(first) = k /\ k \in Nat /\ k <= Len(ls) /\ Alike(ls, first, k)
    BY <1>1, PrefixIsSeq DEF Alike
  <2> HIDE DEF first
  <2>2. PICK h : Fits(first, h, k)
    BY <2>1, FitExists
  <2>3. g[k] = h[k]
    BY <1>1, <1>2, <2>1, <2>2, FitUnique
  <2>4. Walk(first) = h[k]
    BY <2>1, <2>2, WalkFits
  <2> QED
    BY <2>3, <2>4 DEF Behind, first
<1>4. g[n] = Extended(g[n - 1], ls[n])
  BY <1>1, <1>2 DEF Fits
<1> QED
  BY <1>1, <1>3, <1>4

\* The states behind the first lines are those of any other lines that begin alike.
LEMMA BehindAlike ==
  ASSUME NEW ls, IsSeq(ls), NEW others, IsSeq(others), NEW n \in 0 .. Len(ls), n <= Len(others),
         Alike(ls, others, n)
  PROVE  Behind(ls, n) = Behind(others, n)
<1>1. Len(ls) \in Nat /\ Len(others) \in Nat /\ n \in Nat /\ n \in 0 .. Len(others)
  BY AppendIsSeq
<1> DEFINE first == SubSeq(ls, 1, n)
           second == SubSeq(others, 1, n)
<1>2. Len(first) = n /\ Len(second) = n /\ Alike(first, second, n)
  BY <1>1, PrefixIsSeq DEF Alike
<1> HIDE DEF first, second
<1>3. PICK g : Fits(first, g, n)
  BY <1>1, FitExists
<1>4. PICK h : Fits(second, h, n)
  BY <1>1, FitExists
<1>5. g[n] = h[n]
  BY <1>1, <1>2, <1>3, <1>4, FitUnique
<1>6. Walk(first) = g[n] /\ Walk(second) = h[n]
  BY <1>1, <1>2, <1>3, <1>4, WalkFits
<1> QED
  BY <1>5, <1>6 DEF Behind, first, second

LEMMA BehindAll == ASSUME NEW ls, IsSeq(ls) PROVE Behind(ls, Len(ls)) = Walk(ls)
<1>1. PICK S : ls \in Seq(S)
  BY DEF IsSeq
<1>2. SubSeq(ls, 1, Len(ls)) = ls
  BY <1>1
<1> QED
  BY <1>2 DEF Behind

-----------------------------------------------------------------------------
(* Orders, attempts and the IDs that name orders *)

Statuses == {"Working", "Filled", "Cancelled", "Rejected"}
Order == [client : Clients, request : Terms, submitted : Terms \cup {NoTerms}, status : Statuses, chained : BOOLEAN]
State == [time : Nat, version : Nat, orders : Seq(Order), starts : Seq(Nat),
          clients : [Clients -> Nat], working : SUBSET Nat, indexed : Nat]

\* Attempts begin in order, none after the next order; what chains has an ID for its child.
Orderly(s) ==
  /\ s.orders \in Seq(Order)
  /\ s.starts \in Seq(Nat) /\ Len(s.starts) > 0
  /\ \A n \in 1 .. Len(s.starts) : 0 < s.starts[n] /\ s.starts[n] <= Len(s.orders) + 1
  /\ \A m, n \in 1 .. Len(s.starts) : m <= n => s.starts[m] <= s.starts[n]
  /\ \A i \in 1 .. Len(s.orders) : s.orders[i].request \in Chained => s.orders[i].client \in DOMAIN ChildOf

\* What an order may become.
Kept(o, p) ==
  /\ p.client = o.client
  /\ Submission(p) = Submission(o)
  /\ p.status = "Rejected" <=> o.status = "Rejected"
  /\ Open(p) => Open(o)

\* t is a later state of the account: its orders keep who placed what, and an
\* attempt begun since begins after the orders of s.
Grown(s, t) ==
  /\ Len(s.orders) <= Len(t.orders)
  /\ \A i \in 1 .. Len(s.orders) : Kept(s.orders[i], t.orders[i])
  /\ Len(s.starts) <= Len(t.starts)
  /\ \A n \in 1 .. Len(s.starts) : t.starts[n] = s.starts[n]
  /\ \A n \in Len(s.starts) + 1 .. Len(t.starts) : t.starts[n] > Len(s.orders)

\* The incremental map from IDs to orders is the one recovery derives.
NamesFirst(s) == \A c \in Clients : s.clients[c] = FirstNamed(s, c)
\* The index, and what was placed since, holds whatever is open.
Watched(s) ==
  /\ s.indexed <= Len(s.orders)
  /\ \A i \in 1 .. Len(s.orders) : Open(s.orders[i]) => i \in s.working \/ i > s.indexed

\* A state between the steps of a transaction, and a step.
Kempt(s) == s \in State /\ Orderly(s) /\ NamesFirst(s) /\ Watched(s)
Moved(s, t) == Kempt(t) /\ Grown(s, t)

LEMMA MinOf ==
  ASSUME NEW T, T \subseteq Nat, T # {}
  PROVE  Min(T) \in T /\ \A x \in T : Min(T) <= x
<1>1. \E u \in T : \A v \in T : u <= v
  BY Least
<1> QED
  BY <1>1 DEF Min

LEMMA MinIs ==
  ASSUME NEW T, T \subseteq Nat, NEW m \in T, \A x \in T : m <= x
  PROVE  Min(T) = m
<1>1. Min(T) \in T /\ Min(T) <= m /\ m <= Min(T)
  BY MinOf
<1>2. Min(T) \in Nat /\ m \in Nat
  BY <1>1
<1> HIDE DEF Min
<1> QED
  BY <1>1, <1>2

LEMMA MaxOf ==
  ASSUME NEW n \in Nat, NEW T, T \subseteq 1 .. n, T # {}
  PROVE  Max(T) \in T /\ \A x \in T : x <= Max(T)
<1> DEFINE U == {n - x : x \in T}
<1>1. U \subseteq Nat /\ U # {}
  <2>1. \A x \in T : n - x \in Nat
    OBVIOUS
  <2>2. PICK x \in T : TRUE
    OBVIOUS
  <2>3. n - x \in U
    OBVIOUS
  <2> QED
    BY <2>1, <2>3
<1>2. PICK u \in U : \A v \in U : u <= v
  <2> HIDE DEF U
  <2> QED
    BY <1>1, Least
<1>3. PICK x \in T : u = n - x
  BY <1>2
<1>4. ASSUME NEW y \in T PROVE y <= x
  <2>1. n - x <= n - y
    BY <1>2, <1>3
  <2>2. x \in Nat /\ y \in Nat
    OBVIOUS
  <2> QED
    BY <2>1, <2>2
<1>5. \E z \in T : \A y \in T : z >= y
  <2>1. \A y \in T : x >= y
    BY <1>4
  <2> QED
    BY <2>1
<1>6. Max(T) \in T /\ \A y \in T : Max(T) >= y
  BY <1>5 DEF Max
<1> QED
  BY <1>6

LEMMA UpTo == ASSUME NEW n \in Nat PROVE IsFiniteSet(1 .. n) /\ Cardinality(1 .. n) = n
  BY FS_Interval

\* An order belongs to the current attempt when its number reaches the first.
LEMMA CurrentAttempt ==
  ASSUME NEW s, Orderly(s), NEW i \in Nat
  PROVE  /\ FirstOrder(s) \in Nat /\ FirstOrder(s) > 0 /\ FirstOrder(s) <= Len(s.orders) + 1
         /\ AttemptOf(s.starts, i) = Len(s.starts) <=> FirstOrder(s) <= i
<1> DEFINE L == Len(s.starts)
           begun == {n \in 1 .. L : s.starts[n] <= i}
<1>1. L \in Nat /\ L > 0 /\ s.starts[L] \in Nat /\ \A n \in 1 .. L : s.starts[n] \in Nat /\ s.starts[n] <= s.starts[L]
  BY DEF Orderly
<1>2. FirstOrder(s) = s.starts[L] /\ FirstOrder(s) > 0 /\ FirstOrder(s) <= Len(s.orders) + 1
  BY <1>1 DEF Orderly, FirstOrder
<1>3. AttemptOf(s.starts, i) = Cardinality(begun)
  BY DEF AttemptOf
<1>4. CASE s.starts[L] <= i
  <2>1. begun = 1 .. L
    BY <1>1, <1>4
  <2>2. Cardinality(1 .. L) = L
    BY <1>1, UpTo
  <2> QED
    BY <1>1, <1>2, <1>3, <1>4, <2>1, <2>2
<1>5. CASE i < s.starts[L]
  <2>1. begun \subseteq 1 .. L - 1
    BY <1>1, <1>5
  <2>2. IsFiniteSet(1 .. L - 1) /\ Cardinality(1 .. L - 1) = L - 1
    <3>1. L - 1 \in Nat
      BY <1>1
    <3> QED
      BY <3>1, UpTo
  <2>3. Cardinality(begun) <= L - 1 /\ Cardinality(begun) \in Nat
    BY <2>1, <2>2, FS_Subset, FS_CardinalityType
  <2> QED
    BY <1>1, <1>2, <1>3, <1>5, <2>3
<1> QED
  BY <1>1, <1>4, <1>5

\* The attempt of an order stays its own.
LEMMA AttemptStays ==
  ASSUME NEW s, NEW t, s.starts \in Seq(Nat), t.starts \in Seq(Nat), Len(s.orders) \in Nat, Grown(s, t),
         NEW i \in 1 .. Len(s.orders)
  PROVE  AttemptOf(t.starts, i) = AttemptOf(s.starts, i)
<1>1. {n \in 1 .. Len(t.starts) : t.starts[n] <= i} = {n \in 1 .. Len(s.starts) : s.starts[n] <= i}
  <2>1. ASSUME NEW n \in 1 .. Len(t.starts), t.starts[n] <= i PROVE n \in 1 .. Len(s.starts) /\ s.starts[n] <= i
    <3>1. t.starts[n] \in Nat
      OBVIOUS
    <3>2. n \notin Len(s.starts) + 1 .. Len(t.starts)
      BY <2>1, <3>1 DEF Grown
    <3>3. n \in 1 .. Len(s.starts)
      BY <3>2
    <3> QED
      BY <2>1, <3>3 DEF Grown
  <2>2. ASSUME NEW n \in 1 .. Len(s.starts), s.starts[n] <= i PROVE n \in 1 .. Len(t.starts) /\ t.starts[n] <= i
    BY <2>2 DEF Grown
  <2> QED
    BY <2>1, <2>2
<1> QED
  BY <1>1 DEF AttemptOf

LEMMA GrownTwice ==
  ASSUME NEW s, NEW t, NEW u, Len(s.orders) \in Nat, Len(t.orders) \in Nat, Len(u.orders) \in Nat,
         Len(s.starts) \in Nat, Len(t.starts) \in Nat, u.starts \in Seq(Nat), Grown(s, t), Grown(t, u)
  PROVE  Grown(s, u)
<1>1. \A i \in 1 .. Len(s.orders) : Kept(s.orders[i], u.orders[i])
  <2> SUFFICES ASSUME NEW i \in 1 .. Len(s.orders) PROVE Kept(s.orders[i], u.orders[i])
    OBVIOUS
  <2>1. i \in 1 .. Len(t.orders)
    BY DEF Grown
  <2>2. Kept(s.orders[i], t.orders[i]) /\ Kept(t.orders[i], u.orders[i])
    BY <2>1 DEF Grown
  <2> QED
    BY <2>2 DEF Kept
<1>2. \A n \in 1 .. Len(s.starts) : u.starts[n] = s.starts[n]
  BY DEF Grown
<1>3. \A n \in Len(s.starts) + 1 .. Len(u.starts) : u.starts[n] > Len(s.orders)
  <2> SUFFICES ASSUME NEW n \in Len(s.starts) + 1 .. Len(u.starts) PROVE u.starts[n] > Len(s.orders)
    OBVIOUS
  <2>0. u.starts[n] \in Nat
    OBVIOUS
  <2>1. CASE n <= Len(t.starts)
    <3>1. n \in 1 .. Len(t.starts) /\ n \in Len(s.starts) + 1 .. Len(t.starts)
      BY <2>1
    <3> QED
      BY <3>1 DEF Grown
  <2>2. CASE n > Len(t.starts)
    <3>1. n \in Len(t.starts) + 1 .. Len(u.starts)
      BY <2>2
    <3> QED
      BY <2>0, <3>1 DEF Grown
  <2> QED
    BY <2>1, <2>2
<1> QED
  BY <1>1, <1>2, <1>3 DEF Grown

LEMMA GrownSelf == ASSUME NEW s, Len(s.orders) \in Nat, Len(s.starts) \in Nat PROVE Grown(s, s)
  BY DEF Grown, Kept

\* The orders under an ID.
Under(s, c) == {i \in 1 .. Len(s.orders) : s.orders[i].client = c}

\* What the ID names in the current attempt, if anything.
LEMMA NamedNow ==
  ASSUME NEW s, Orderly(s), NEW c
  PROVE  /\ FirstNamed(s, c) \in Nat
         /\ FirstNamed(s, c) >= FirstOrder(s) =>
              /\ FirstNamed(s, c) \in Under(s, c)
              /\ \A i \in Under(s, c) : i >= FirstOrder(s) => FirstNamed(s, c) <= i
         /\ FirstNamed(s, c) < FirstOrder(s) => \A i \in Under(s, c) : i < FirstOrder(s)
<1> DEFINE ids == Under(s, c)
           first == FirstOrder(s)
           m == FirstNamed(s, c)
           alike == {i \in ids : AttemptOf(s.starts, i) = AttemptOf(s.starts, Max(ids))}
<1>0. Len(s.orders) \in Nat /\ ids \subseteq 1 .. Len(s.orders) /\ ids \subseteq Nat
  BY DEF Orderly, Under
<1>1. first \in Nat /\ first > 0
  BY CurrentAttempt, 0 \in Nat
<1>2. m = IF ids = {} THEN 0 ELSE Min(alike)
  BY DEF FirstNamed, Under, NoId
<1>3. CASE ids = {}
  BY <1>1, <1>2, <1>3
<1>4. CASE ids # {}
  <2> DEFINE top == Max(ids)
  <2>1. top \in ids /\ \A i \in ids : i <= top
    BY <1>0, <1>4, MaxOf
  <2>2. alike \subseteq Nat /\ top \in alike
    BY <1>0, <2>1
  <2>3. Min(alike) \in alike /\ \A i \in alike : Min(alike) <= i
    <3> HIDE DEF alike
    <3> QED
      BY <2>2, MinOf
  <2>4. m \in ids /\ AttemptOf(s.starts, m) = AttemptOf(s.starts, top) /\ \A i \in alike : m <= i
    BY <1>2, <1>4, <2>3
  <2>5. \A i \in ids : AttemptOf(s.starts, i) = Len(s.starts) <=> first <= i
    BY <1>0, CurrentAttempt
  <2>6. m \in Nat /\ top \in Nat /\ m <= top
    BY <1>0, <2>1, <2>4
  <2> HIDE DEF ids, first, m, top
  <2>7. CASE m >= first
    <3>1. first <= top
      BY <1>1, <2>6, <2>7
    <3>2. AttemptOf(s.starts, top) = Len(s.starts)
      BY <2>1, <2>5, <3>1
    <3>3. \A i \in ids : i >= first => i \in alike
      BY <2>5, <3>2 DEF top
    <3>4. m \in ids /\ \A i \in ids : i >= first => m <= i
      BY <2>4, <3>3
    <3>5. ~ (m < first)
      BY <1>1, <2>6, <2>7
    <3> HIDE DEF alike
    <3> QED
      BY <2>6, <3>4, <3>5 DEF ids, first, m
  <2>8. CASE m < first
    <3>1. ~ (first <= m)
      BY <1>1, <2>6, <2>8
    <3>2. ~ (first <= top)
      BY <2>1, <2>4, <2>5, <3>1
    <3>3. \A i \in ids : i < first
      BY <1>0, <1>1, <2>1, <2>6, <3>2
    <3>4. ~ (m >= first)
      BY <1>1, <2>6, <2>8
    <3> HIDE DEF alike
    <3> QED
      BY <2>6, <3>3, <3>4 DEF ids, first, m
  <2> QED
    BY <1>1, <2>6, <2>7, <2>8
<1> QED
  BY <1>3, <1>4

\* The first of the current attempt under an ID is what the ID names.
LEMMA NamesCurrent ==
  ASSUME NEW s, Orderly(s), NEW c, NEW m \in Under(s, c), m >= FirstOrder(s),
         \A i \in Under(s, c) : i >= FirstOrder(s) => m <= i
  PROVE  FirstNamed(s, c) = m
<1>0. m \in Nat /\ FirstOrder(s) \in Nat
  <2>1. m \in Nat
    BY DEF Under
  <2>2. FirstOrder(s) \in Nat
    BY CurrentAttempt, 0 \in Nat
  <2> QED
    BY <2>1, <2>2
<1>1. FirstNamed(s, c) \in Nat
  BY NamedNow
<1>2. ~ (FirstNamed(s, c) < FirstOrder(s))
  <2> SUFFICES ASSUME FirstNamed(s, c) < FirstOrder(s) PROVE FALSE
    OBVIOUS
  <2>1. m < FirstOrder(s)
    BY NamedNow
  <2> QED
    BY <1>0, <2>1
<1>3. FirstNamed(s, c) >= FirstOrder(s)
  BY <1>0, <1>1, <1>2
<1>4. FirstNamed(s, c) \in Under(s, c) /\ FirstNamed(s, c) <= m
  BY <1>3, NamedNow
<1>5. m <= FirstNamed(s, c)
  BY <1>3, <1>4
<1> QED
  BY <1>0, <1>1, <1>4, <1>5

\* An ID with the same orders in the same attempts names the same one.
LEMMA NamesAlike ==
  ASSUME NEW s, NEW t, NEW c, Len(s.orders) \in Nat, Under(t, c) = Under(s, c),
         \A i \in Under(s, c) : AttemptOf(t.starts, i) = AttemptOf(s.starts, i)
  PROVE  FirstNamed(t, c) = FirstNamed(s, c)
<1> DEFINE ids == Under(s, c)
<1>1. /\ FirstNamed(s, c) = IF ids = {} THEN NoId
                            ELSE Min({i \in ids : AttemptOf(s.starts, i) = AttemptOf(s.starts, Max(ids))})
      /\ FirstNamed(t, c) = IF ids = {} THEN NoId
                            ELSE Min({i \in ids : AttemptOf(t.starts, i) = AttemptOf(t.starts, Max(ids))})
  BY DEF FirstNamed, Under
<1>2. ids # {} => Max(ids) \in ids
  BY MaxOf DEF Under
<1> HIDE DEF ids
<1>3. ids # {} => {i \in ids : AttemptOf(t.starts, i) = AttemptOf(t.starts, Max(ids))}
                  = {i \in ids : AttemptOf(s.starts, i) = AttemptOf(s.starts, Max(ids))}
  BY <1>2 DEF ids
<1>4. CASE ids = {}
  BY <1>1, <1>4
<1>5. CASE ids # {}
  <2>1. /\ FirstNamed(s, c) = Min({i \in ids : AttemptOf(s.starts, i) = AttemptOf(s.starts, Max(ids))})
        /\ FirstNamed(t, c) = Min({i \in ids : AttemptOf(t.starts, i) = AttemptOf(t.starts, Max(ids))})
    BY <1>1, <1>5, Zenon
  <2> QED
    BY <1>3, <1>5, <2>1, Zenon
<1> QED
  BY <1>4, <1>5

-----------------------------------------------------------------------------
(* The steps of a transaction *)

LEMMA Parts ==
  ASSUME NEW s, Kempt(s)
  PROVE  /\ s \in State /\ Orderly(s) /\ NamesFirst(s) /\ Watched(s)
         /\ s.orders \in Seq(Order) /\ s.starts \in Seq(Nat) /\ Len(s.orders) \in Nat /\ Len(s.starts) \in Nat
<1>1. s \in State /\ Orderly(s) /\ NamesFirst(s) /\ Watched(s)
  BY DEF Kempt
<1>2. s.orders \in Seq(Order) /\ s.starts \in Seq(Nat)
  BY <1>1 DEF Orderly
<1> QED
  BY <1>1, <1>2

\* Orders rewritten where they stand, and perhaps an attempt begun.
LEMMA RewriteMoves ==
  ASSUME NEW s, Kempt(s), NEW t \in State, Orderly(t), Grown(s, t), Len(t.orders) = Len(s.orders),
         t.clients = s.clients, t.working = s.working, t.indexed = s.indexed
  PROVE  Moved(s, t)
<1>1. s.starts \in Seq(Nat) /\ t.starts \in Seq(Nat) /\ Len(s.orders) \in Nat
  BY DEF Kempt, Orderly
<1>2. NamesFirst(t)
  <2> SUFFICES ASSUME NEW c \in Clients PROVE t.clients[c] = FirstNamed(t, c)
    BY DEF NamesFirst
  <2>1. Under(t, c) = Under(s, c)
    BY DEF Under, Grown, Kept
  <2>2. \A i \in Under(s, c) : AttemptOf(t.starts, i) = AttemptOf(s.starts, i)
    BY <1>1, AttemptStays DEF Under
  <2>3. FirstNamed(t, c) = FirstNamed(s, c)
    BY <1>1, <2>1, <2>2, NamesAlike
  <2> QED
    BY <2>3 DEF Kempt, NamesFirst
<1>3. Watched(t)
  <2> SUFFICES ASSUME NEW i \in 1 .. Len(t.orders), Open(t.orders[i]) PROVE i \in t.working \/ i > t.indexed
    BY DEF Watched, Kempt
  <2>1. i \in 1 .. Len(s.orders)
    OBVIOUS
  <2>2. Open(s.orders[i])
    BY <2>1 DEF Grown, Kept
  <2> QED
    BY <2>1, <2>2 DEF Kempt, Watched
<1> QED
  BY <1>2, <1>3 DEF Moved, Kempt

\* What an order submitted on the state s is told.
Placed(s, c, t, status) == Place(s, c, t, status).orders[Len(s.orders) + 1]

LEMMA OrderTyped ==
  ASSUME NEW c \in Clients, NEW t \in Terms, NEW status \in Statuses
  PROVE  NewOrder(c, t, status) \in Order
  BY DEF NewOrder, Order

\* Each part of the state with a new order in it.
LEMMA PlaceParts ==
  ASSUME NEW s \in State, NEW c \in Clients, NEW t, NEW status
  PROVE  LET p == Place(s, c, t, status)
             free == Named(s, c) = NoId
         IN  /\ p.orders = Append(s.orders, NewOrder(c, t, IF free THEN status ELSE "Rejected"))
             /\ p.clients = [s.clients EXCEPT ![c] = IF free THEN Len(s.orders) + 1 ELSE @]
             /\ p.time = s.time /\ p.version = s.version /\ p.starts = s.starts
             /\ p.working = s.working /\ p.indexed = s.indexed
             /\ DOMAIN p = DOMAIN s /\ p = [f \in DOMAIN p |-> p[f]]
  BY DEF Place, State

LEMMA PlaceTime ==
  ASSUME NEW s \in State, NEW c, NEW t, NEW status
  PROVE  Place(s, c, t, status).time = s.time /\ Place(s, c, t, status).version = s.version
  BY DEF Place, State

\* A record with the parts of a state is one.
LEMMA StateTyped ==
  ASSUME NEW p, p = [f \in Fields |-> p[f]],
         p.time \in Nat, p.version \in Nat, p.orders \in Seq(Order), p.starts \in Seq(Nat),
         p.clients \in [Clients -> Nat], p.working \subseteq Nat, p.indexed \in Nat
  PROVE  p \in State
  BY DEF State, Fields

LEMMA PlaceMoves ==
  ASSUME NEW s, Kempt(s), NEW c \in Clients, NEW t \in Terms, NEW status \in Statuses,
         t \in Chained => c \in DOMAIN ChildOf
  PROVE  /\ Moved(s, Place(s, c, t, status))
         /\ Len(Place(s, c, t, status).orders) = Len(s.orders) + 1
<1> DEFINE p == Place(s, c, t, status)
           free == Named(s, c) = NoId
           id == Len(s.orders) + 1
           o == NewOrder(c, t, IF free THEN status ELSE "Rejected")
<1>0. s \in State /\ Orderly(s) /\ NamesFirst(s) /\ Watched(s) /\ s.orders \in Seq(Order) /\ Len(s.orders) \in Nat
  BY DEF Kempt, Orderly
<1>1. /\ p.orders = Append(s.orders, o)
      /\ p.clients = [s.clients EXCEPT ![c] = IF free THEN id ELSE @]
      /\ p.time = s.time /\ p.version = s.version /\ p.starts = s.starts
      /\ p.working = s.working /\ p.indexed = s.indexed
      /\ DOMAIN p = DOMAIN s /\ p = [f \in DOMAIN p |-> p[f]]
  BY <1>0, PlaceParts
<1>2. o \in Order /\ o.client = c /\ o.request = t
  <2>1. (IF free THEN status ELSE "Rejected") \in Statuses
    BY DEF Statuses
  <2> QED
    BY <2>1, OrderTyped DEF NewOrder
<1> HIDE DEF p, o
<1>3. /\ p.orders \in Seq(Order) /\ Len(p.orders) = id /\ p.orders[id] = o
      /\ \A i \in 1 .. Len(s.orders) : p.orders[i] = s.orders[i]
  BY <1>0, <1>1, <1>2
<1>4. DOMAIN s = Fields /\ s.clients \in [Clients -> Nat] /\ s.time \in Nat /\ s.version \in Nat
      /\ s.starts \in Seq(Nat) /\ s.working \subseteq Nat /\ s.indexed \in Nat
  BY <1>0 DEF State, Fields
<1>5. p \in State
  <2>1. p.clients \in [Clients -> Nat]
    BY <1>0, <1>1, <1>4
  <2> QED
    BY <1>1, <1>3, <1>4, <2>1, StateTyped
<1>6. Orderly(p)
  <2>1. \A n \in 1 .. Len(p.starts) : 0 < p.starts[n] /\ p.starts[n] <= Len(p.orders) + 1
    <3> SUFFICES ASSUME NEW n \in 1 .. Len(s.starts) PROVE 0 < s.starts[n] /\ s.starts[n] <= Len(s.orders) + 2
      BY <1>0, <1>1, <1>3
    <3>1. 0 < s.starts[n] /\ s.starts[n] <= Len(s.orders) + 1 /\ s.starts[n] \in Nat
      BY <1>0 DEF Orderly
    <3> QED
      BY <1>0, <3>1
  <2>2. \A i \in 1 .. Len(p.orders) : p.orders[i].request \in Chained => p.orders[i].client \in DOMAIN ChildOf
    <3> SUFFICES ASSUME NEW i \in 1 .. Len(p.orders), p.orders[i].request \in Chained
                 PROVE p.orders[i].client \in DOMAIN ChildOf
      OBVIOUS
    <3>1. CASE i \in 1 .. Len(s.orders)
      BY <1>0, <1>3, <3>1 DEF Orderly
    <3>2. CASE i = id
      BY <1>2, <1>3, <3>2
    <3> QED
      BY <1>0, <1>3, <3>1, <3>2
  <2>3. Len(p.starts) > 0 /\ \A m, n \in 1 .. Len(p.starts) : m <= n => p.starts[m] <= p.starts[n]
    BY <1>0, <1>1 DEF Orderly
  <2> QED
    BY <1>1, <1>3, <1>4, <2>1, <2>2, <2>3 DEF Orderly
<1>7. Grown(s, p)
  BY <1>0, <1>1, <1>3, <1>4 DEF Grown, Kept
<1>8. FirstOrder(p) = FirstOrder(s) /\ FirstOrder(s) \in Nat /\ FirstOrder(s) > 0 /\ FirstOrder(s) <= id
  <2>1. FirstOrder(p) = FirstOrder(s)
    BY <1>1 DEF FirstOrder
  <2> QED
    BY <1>0, <2>1, CurrentAttempt, 0 \in Nat
<1>9. NamesFirst(p)
  <2> SUFFICES ASSUME NEW d \in Clients PROVE p.clients[d] = FirstNamed(p, d)
    BY DEF NamesFirst
  <2>1. CASE d # c
    <3>1. Under(p, d) = Under(s, d)
      <4>1. \A i \in 1 .. id : i = id \/ i \in 1 .. Len(s.orders)
        BY <1>0
      <4>2. \A i \in 1 .. Len(s.orders) : i \in 1 .. id
        BY <1>0
      <4> QED
        BY <1>2, <1>3, <2>1, <4>1, <4>2 DEF Under
    <3>2. FirstNamed(p, d) = FirstNamed(s, d)
      BY <1>0, <1>1, <3>1, NamesAlike
    <3>3. p.clients[d] = s.clients[d]
      BY <1>1, <1>4, <2>1
    <3> QED
      BY <1>0, <3>2, <3>3 DEF NamesFirst
  <2>2. CASE d = c
    <3>0. s.clients[c] = FirstNamed(s, c) /\ s.clients[c] \in Nat
      BY <1>0, <1>4 DEF NamesFirst
    <3>1. \A i \in Under(p, c) : i = id \/ i \in Under(s, c)
      BY <1>0, <1>3 DEF Under
    <3>2. id \in Under(p, c) /\ \A i \in Under(s, c) : i \in Under(p, c) /\ i < id
      BY <1>0, <1>2, <1>3 DEF Under
    <3>3. CASE s.clients[c] >= FirstOrder(s)
      <4>1. ~ free
        BY <1>8, <3>0, <3>3 DEF Named, NoId
      <4>2. p.clients[c] = s.clients[c]
        BY <1>1, <1>4, <4>1
      <4>3. /\ s.clients[c] \in Under(s, c)
            /\ \A i \in Under(s, c) : i >= FirstOrder(s) => s.clients[c] <= i
        BY <1>0, <3>0, <3>3, NamedNow
      <4>4. s.clients[c] \in Under(p, c) /\ s.clients[c] <= id
        BY <1>0, <3>0, <3>2, <4>3
      <4>5. \A i \in Under(p, c) : i >= FirstOrder(p) => s.clients[c] <= i
        BY <1>8, <3>1, <4>3, <4>4
      <4>6. FirstNamed(p, c) = s.clients[c]
        BY <1>6, <1>8, <3>3, <4>4, <4>5, NamesCurrent
      <4> QED
        BY <2>2, <4>2, <4>6
    <3>4. CASE s.clients[c] < FirstOrder(s)
      <4>1. free
        BY <1>8, <3>0, <3>4 DEF Named, NoId
      <4>2. p.clients[c] = id
        BY <1>1, <1>4, <4>1
      <4>3. \A i \in Under(s, c) : i < FirstOrder(s)
        BY <1>0, <3>0, <3>4, NamedNow
      <4>4. \A i \in Under(p, c) : i >= FirstOrder(p) => id <= i
        <5> SUFFICES ASSUME NEW i \in Under(p, c), i >= FirstOrder(p) PROVE id <= i
          OBVIOUS
        <5>1. i \notin Under(s, c)
          BY <1>8, <4>3 DEF Under
        <5> QED
          BY <1>0, <3>1, <5>1
      <4>5. id >= FirstOrder(p)
        BY <1>0, <1>8
      <4>6. FirstNamed(p, c) = id
        BY <1>6, <3>2, <4>4, <4>5, NamesCurrent
      <4> QED
        BY <2>2, <4>2, <4>6
    <3> QED
      BY <1>8, <3>0, <3>3, <3>4
  <2> QED
    BY <2>1, <2>2
<1>10. Watched(p)
  <2> SUFFICES ASSUME NEW i \in 1 .. Len(p.orders), Open(p.orders[i]) PROVE i \in p.working \/ i > p.indexed
    <3>1. p.indexed <= Len(p.orders)
      BY <1>0, <1>1, <1>3, <1>4 DEF Watched
    <3> QED
      BY <3>1 DEF Watched
  <2>1. CASE i \in 1 .. Len(s.orders)
    BY <1>0, <1>1, <1>3, <2>1 DEF Watched
  <2>2. CASE i = id
    BY <1>0, <1>1, <1>4, <2>2 DEF Watched
  <2> QED
    BY <1>0, <1>3, <2>1, <2>2
<1> QED
  BY <1>3, <1>5, <1>6, <1>7, <1>9, <1>10 DEF Moved, Kempt, p

\* The current attempt's first order under an ID answers for it.
LEMMA PlaceNames ==
  ASSUME NEW s, Kempt(s), NEW c \in Clients, Named(s, c) # NoId
  PROVE  /\ Named(s, c) \in Under(s, c) /\ Named(s, c) >= FirstOrder(s)
         /\ \A i \in Under(s, c) : i >= FirstOrder(s) => Named(s, c) <= i
<1>1. Orderly(s) /\ s.clients[c] = FirstNamed(s, c)
  BY DEF Kempt, NamesFirst
<1>2. Named(s, c) = FirstNamed(s, c) /\ FirstNamed(s, c) >= FirstOrder(s)
  BY <1>1 DEF Named
<1> QED
  BY <1>1, <1>2, NamedNow

\* An order changed as none of its identity is.
LEMMA OrderMoves ==
  ASSUME NEW s, Kempt(s), NEW id \in 1 .. Len(s.orders), NEW o \in Order, Kept(s.orders[id], o),
         o.request \in Chained => o.client \in DOMAIN ChildOf
  PROVE  Moved(s, [s EXCEPT !.orders = [@ EXCEPT ![id] = o]])
<1> DEFINE t == [s EXCEPT !.orders = [@ EXCEPT ![id] = o]]
<1>1. s \in State /\ Orderly(s) /\ s.orders \in Seq(Order) /\ Len(s.orders) \in Nat
  BY DEF Kempt, Orderly
<1>2. /\ t.orders = [s.orders EXCEPT ![id] = o]
      /\ t.time = s.time /\ t.version = s.version /\ t.starts = s.starts
      /\ t.clients = s.clients /\ t.working = s.working /\ t.indexed = s.indexed
      /\ t = [f \in Fields |-> t[f]]
  BY <1>1 DEF State, Fields
<1> HIDE DEF t
<1>3. /\ t.orders \in Seq(Order) /\ Len(t.orders) = Len(s.orders) /\ t.orders[id] = o
      /\ \A i \in 1 .. Len(s.orders) : i # id => t.orders[i] = s.orders[i]
  BY <1>1, <1>2
<1>4. /\ s.clients \in [Clients -> Nat] /\ s.time \in Nat /\ s.version \in Nat
      /\ s.starts \in Seq(Nat) /\ s.working \subseteq Nat /\ s.indexed \in Nat
  BY <1>1 DEF State
<1>5. t \in State
  BY <1>2, <1>3, <1>4, StateTyped
<1>6. Orderly(t)
  <2>1. \A i \in 1 .. Len(t.orders) : t.orders[i].request \in Chained => t.orders[i].client \in DOMAIN ChildOf
    BY <1>1, <1>3 DEF Orderly
  <2> QED
    BY <1>1, <1>2, <1>3, <2>1 DEF Orderly
<1>7. Grown(s, t)
  <2>1. \A i \in 1 .. Len(s.orders) : Kept(s.orders[i], t.orders[i])
    BY <1>3 DEF Kept
  <2> QED
    BY <1>1, <1>2, <1>3, <1>4, <2>1 DEF Grown
<1>8. Moved(s, t)
  BY <1>2, <1>3, <1>5, <1>6, <1>7, RewriteMoves
<1> QED
  BY <1>8 DEF t

LEMMA TimeMoves ==
  ASSUME NEW s, Kempt(s), NEW time \in Nat
  PROVE  /\ Moved(s, [s EXCEPT !.time = time]) /\ [s EXCEPT !.time = time].time = time
<1> DEFINE t == [s EXCEPT !.time = time]
<1>1. s \in State /\ Orderly(s)
  BY DEF Kempt
<1>2. /\ t.time = time /\ t.version = s.version /\ t.orders = s.orders /\ t.starts = s.starts
      /\ t.clients = s.clients /\ t.working = s.working /\ t.indexed = s.indexed
      /\ t = [f \in Fields |-> t[f]]
  BY <1>1 DEF State, Fields
<1> HIDE DEF t
<1>3. /\ s.clients \in [Clients -> Nat] /\ s.version \in Nat /\ s.orders \in Seq(Order)
      /\ s.starts \in Seq(Nat) /\ s.working \subseteq Nat /\ s.indexed \in Nat
  BY <1>1 DEF State
<1>4. t \in State
  BY <1>2, <1>3, StateTyped
<1>5. Orderly(t) /\ Grown(s, t)
  <2>1. Orderly(t)
    BY <1>1, <1>2 DEF Orderly
  <2>2. Grown(s, t)
    BY <1>2, <1>3 DEF Grown, Kept
  <2> QED
    BY <2>1, <2>2
<1>6. Moved(s, t)
  BY <1>2, <1>4, <1>5, RewriteMoves
<1> QED
  BY <1>2, <1>6 DEF t

\* What moves on from a move.
LEMMA MovedTwice ==
  ASSUME NEW s, Kempt(s), NEW t, Moved(s, t), NEW u, Moved(t, u)
  PROVE  Moved(s, u)
<1>1. /\ Len(s.orders) \in Nat /\ Len(t.orders) \in Nat /\ Len(u.orders) \in Nat
      /\ Len(s.starts) \in Nat /\ Len(t.starts) \in Nat /\ u.starts \in Seq(Nat)
  <2>1. Kempt(s) /\ Kempt(t) /\ Kempt(u)
    BY DEF Moved
  <2> QED
    BY <2>1, Parts
<1>2. Grown(s, t) /\ Grown(t, u)
  BY DEF Moved
<1>3. Grown(s, u)
  BY <1>1, <1>2, GrownTwice
<1> QED
  BY <1>3 DEF Moved

\* An order changed once more keeps what it was.
LEMMA ChainedMoves ==
  ASSUME NEW s, Kempt(s)
  PROVE  Moved(s, PlaceChained(s)) /\ PlaceChained(s).time = s.time /\ PlaceChained(s).version = s.version
<1> DEFINE due == {i \in Ids(s) : /\ i \in s.working \/ i > s.indexed
                                  /\ s.orders[i].status = "Filled"
                                  /\ s.orders[i].request \in Chained /\ ~s.orders[i].chained}
           id == Min(due)
           p == Place(s, ChildOf[s.orders[id].client], ChildTerms, "Working")
<1>0. /\ s \in State /\ Orderly(s) /\ s.orders \in Seq(Order)
      /\ Len(s.orders) \in Nat /\ Len(s.starts) \in Nat /\ due \subseteq Ids(s) /\ due \subseteq Nat
  BY DEF Kempt, Orderly, Ids
<1>1. PlaceChained(s) = IF due = {} THEN s ELSE [p EXCEPT !.orders[id].chained = TRUE]
  BY DEF PlaceChained
<1>2. CASE due = {}
  BY <1>0, <1>1, <1>2, GrownSelf DEF Moved
<1>3. CASE due # {}
  <2>1. id \in due
    <3> HIDE DEF due
    <3> QED
      BY <1>0, <1>3, MinOf
  <2>2. id \in 1 .. Len(s.orders) /\ s.orders[id].request \in Chained
    BY <2>1 DEF Ids
  <2>3. ChildOf[s.orders[id].client] \in Clients
    BY <1>0, <2>2, SessionAssumption DEF Orderly
  <2>4. ChildTerms \in Terms /\ ChildTerms \notin Chained /\ "Working" \in Statuses
    BY SessionAssumption DEF Statuses
  <2>5. Moved(s, p) /\ Len(p.orders) = Len(s.orders) + 1
    BY <2>3, <2>4, PlaceMoves
  <2>6. p.time = s.time /\ p.version = s.version
    <3> HIDE DEF due, id
    <3> QED
      BY <1>0, PlaceTime
  <2> HIDE DEF due, id, p
  <2>7. Kempt(p) /\ p \in State /\ Orderly(p) /\ p.orders \in Seq(Order) /\ id \in 1 .. Len(p.orders)
    <3>1. Kempt(p) /\ id \in 1 .. Len(p.orders)
      BY <1>0, <2>2, <2>5 DEF Moved
    <3> QED
      BY <3>1, Parts
  <2>8. p.orders[id] \in Order
    BY <2>7
  <2> DEFINE o == [p.orders[id] EXCEPT !.chained = TRUE]
             u == [p EXCEPT !.orders = [@ EXCEPT ![id] = o]]
  <2>9. o \in Order /\ Kept(p.orders[id], o) /\ o.request = p.orders[id].request /\ o.client = p.orders[id].client
    BY <2>8 DEF Order, Kept, Submission, Open
  <2>10. o.request \in Chained => o.client \in DOMAIN ChildOf
    BY <2>7, <2>9 DEF Orderly
  <2>11. Moved(p, u)
    <3> HIDE DEF o
    <3> QED
      BY <2>7, <2>9, <2>10, OrderMoves
  <2>12. u = [p EXCEPT !.orders[id].chained = TRUE] /\ u.time = p.time /\ u.version = p.version
    BY <2>7 DEF State
  <2> HIDE DEF u
  <2>13. Moved(s, u)
    BY <2>5, <2>11, MovedTwice
  <2> QED
    BY <1>1, <1>3, <2>6, <2>12, <2>13
<1> QED
  BY <1>2, <1>3

\* The index rebuilt: the state is the one recovery would load.
LEMMA ReindexMoves ==
  ASSUME NEW s, Kempt(s)
  PROVE  LET t == Reindexed(s)
         IN  Moved(s, t) /\ t = Loaded(t) /\ t.time = s.time /\ t.version = s.version
<1> DEFINE t == Reindexed(s)
<1>0. /\ s \in State /\ Orderly(s) /\ NamesFirst(s) /\ Watched(s) /\ s.orders \in Seq(Order)
      /\ Len(s.orders) \in Nat /\ Len(s.starts) \in Nat
  BY DEF Kempt, Orderly
<1>1. /\ t.time = s.time /\ t.version = s.version /\ t.orders = s.orders /\ t.starts = s.starts
      /\ t.clients = s.clients /\ t.working = OpenIds(s) /\ t.indexed = Len(s.orders)
      /\ t = [f \in Fields |-> t[f]]
  BY <1>0 DEF State, Fields, Reindexed
<1> HIDE DEF t
<1>2. OpenIds(s) = {i \in 1 .. Len(s.orders) : Open(s.orders[i])}
  BY <1>0 DEF OpenIds, Ids, Watched
<1>3. /\ s.clients \in [Clients -> Nat] /\ s.time \in Nat /\ s.version \in Nat
      /\ s.starts \in Seq(Nat) /\ OpenIds(s) \subseteq Nat
  BY <1>0, <1>2 DEF State
<1>4. t \in State
  BY <1>0, <1>1, <1>3, StateTyped
<1>5. Orderly(t) /\ Grown(s, t) /\ Watched(t) /\ NamesFirst(t)
  <2>1. Orderly(t)
    BY <1>0, <1>1 DEF Orderly
  <2>2. Grown(s, t)
    BY <1>0, <1>1 DEF Grown, Kept
  <2>3. Watched(t)
    BY <1>0, <1>1, <1>2 DEF Watched
  <2>4. NamesFirst(t)
    <3>1. ASSUME NEW c \in Clients PROVE FirstNamed(t, c) = FirstNamed(s, c)
      BY <1>1, Zenon DEF FirstNamed
    <3> QED
      BY <1>0, <1>1, <3>1 DEF NamesFirst
  <2> QED
    BY <2>1, <2>2, <2>3, <2>4
<1>6. t = Loaded(t)
  <2>1. t.clients = [c \in Clients |-> FirstNamed(t, c)]
    BY <1>1, <1>3, <1>5 DEF NamesFirst
  <2>2. t.working = {i \in 1 .. Len(t.orders) : Open(t.orders[i])} /\ t.indexed = Len(t.orders)
    BY <1>1, <1>2
  <2> QED
    BY <1>1, <2>1, <2>2 DEF Loaded, Fields
<1> QED
  BY <1>1, <1>4, <1>5, <1>6 DEF Moved, Kempt, t

-----------------------------------------------------------------------------
(* What a change says, applied to the state before it, is the state after it *)

CoreState == [time : Nat, version : Nat, orders : Seq(Order), starts : Seq(Nat)]

\* A sequence rebuilt element by element is the sequence.
LEMMA Rebuilt ==
  ASSUME NEW S, NEW q \in Seq(S)
  PROVE  <<>> \o [i \in 1 .. Len(q) |-> q[i]] = q
<1>1. [i \in 1 .. Len(q) |-> q[i]] = q
  OBVIOUS
<1> QED
  BY <1>1

LEMMA CoreTyped ==
  ASSUME NEW s \in State
  PROVE  Core(s) \in CoreState /\ Core(Core(s)) = Core(s)
  BY DEF Core, CoreState, State

LEMMA ChangeApplies ==
  ASSUME NEW before \in State, NEW after \in State, NEW version \in Nat
  PROVE  Applied(Core(before), Delta(StateChange(before, after), version))
           = Core([after EXCEPT !.version = version])
<1> DEFINE change == StateChange(before, after)
           delta == Delta(change, version)
           core == Core(before)
           differ == {g \in {"time", "starts"} : before[g] # after[g]}
           touched == {j \in 1 .. Len(after.orders) : j > Len(before.orders) \/ before.orders[j] # after.orders[j]}
           Field(f) == IF f \in DOMAIN delta.fields THEN delta.fields[f] ELSE core[f]
<1>0. /\ before.orders \in Seq(Order) /\ after.orders \in Seq(Order)
      /\ Len(after.orders) \in Nat /\ Len(before.orders) \in Nat
  BY DEF State
<1>1. /\ change.fields = [f \in differ |-> after[f]]
      /\ change.orders = [i \in touched |-> after.orders[i]] /\ change.size = Len(after.orders)
  BY DEF StateChange
<1>2. /\ delta.fields = [f \in differ \cup {"version"} |-> IF f = "version" THEN version ELSE after[f]]
      /\ delta.orders = change.orders /\ delta.size = change.size
  <2>1. DOMAIN change.fields = differ
    BY <1>1
  <2>2. DOMAIN change = {"fields", "orders", "size"} /\ change = [f \in {"fields", "orders", "size"} |-> change[f]]
    BY DEF StateChange
  <2> HIDE DEF change
  <2>3. delta = [change EXCEPT !.fields = [f \in differ \cup {"version"} |->
                                             IF f = "version" THEN version ELSE change.fields[f]]]
    BY <2>1 DEF Delta
  <2>4. /\ delta.fields = [f \in differ \cup {"version"} |-> IF f = "version" THEN version ELSE change.fields[f]]
        /\ delta.orders = change.orders /\ delta.size = change.size
    BY <2>2, <2>3
  <2> QED
    BY <1>1, <2>4
<1>3. core.time = before.time /\ core.starts = before.starts /\ core.orders = before.orders
  BY DEF Core
<1> HIDE DEF delta, change, core
<1>4. Field("version") = version
  BY <1>2
<1>5. Field("time") = after.time
  <2>1. CASE before.time = after.time
    BY <1>2, <1>3, <2>1
  <2>2. CASE before.time # after.time
    BY <1>2, <2>2
  <2> QED
    BY <2>1, <2>2
<1>6. Field("starts") = after.starts
  <2>1. CASE before.starts = after.starts
    BY <1>2, <1>3, <2>1
  <2>2. CASE before.starts # after.starts
    BY <1>2, <2>2
  <2> QED
    BY <2>1, <2>2
<1>7. [i \in 1 .. delta.size |-> IF i \in DOMAIN delta.orders THEN delta.orders[i] ELSE core.orders[i]]
        = [i \in 1 .. Len(after.orders) |-> after.orders[i]]
  BY <1>0, <1>1, <1>2, <1>3
<1>8. Applied(core, delta) = [time |-> Field("time"), version |-> Field("version"),
         orders |-> <<>> \o [i \in 1 .. delta.size |-> IF i \in DOMAIN delta.orders THEN delta.orders[i] ELSE core.orders[i]],
         starts |-> Field("starts")]
  BY DEF Applied
<1>9. <<>> \o [i \in 1 .. Len(after.orders) |-> after.orders[i]] = after.orders
  BY <1>0, Rebuilt
<1>10. Core([after EXCEPT !.version = version])
         = [time |-> after.time, version |-> version, orders |-> after.orders, starts |-> after.starts]
  BY DEF Core, State
<1> HIDE DEF Field
<1> QED
  BY <1>4, <1>5, <1>6, <1>7, <1>8, <1>9, <1>10 DEF delta, change, core

-----------------------------------------------------------------------------
(* What clients were told *)

Replies == [attempt : Nat, client : Clients, terms : Terms, order : Nat, kind : {"accepted", "rejected"}]

\* The answer is true of the state, and names the order its ID got first.
Stands(a, s) ==
  /\ a.order \in 1 .. Len(s.orders)
  /\ s.orders[a.order].client = a.client /\ Submission(s.orders[a.order]) = a.terms
  /\ AttemptOf(s.starts, a.order) = a.attempt
  /\ a.kind = "rejected" <=> s.orders[a.order].status = "Rejected"
  /\ \A i \in Under(s, a.client) : AttemptOf(s.starts, i) = a.attempt => a.order <= i

LEMMA StandsOn ==
  ASSUME NEW s, NEW t, s.starts \in Seq(Nat), t.starts \in Seq(Nat), Len(s.orders) \in Nat, Len(t.orders) \in Nat,
         Grown(s, t), NEW a, Stands(a, s)
  PROVE  Stands(a, t)
<1>1. a.order \in 1 .. Len(s.orders) /\ a.order \in 1 .. Len(t.orders)
  BY DEF Stands, Grown
<1>2. Kept(s.orders[a.order], t.orders[a.order])
  BY <1>1 DEF Grown
<1>3. AttemptOf(t.starts, a.order) = AttemptOf(s.starts, a.order)
  BY <1>1, AttemptStays
<1>4. ASSUME NEW i \in Under(t, a.client), AttemptOf(t.starts, i) = a.attempt PROVE a.order <= i
  <2>0. i \in 1 .. Len(t.orders) /\ t.orders[i].client = a.client
    BY DEF Under
  <2>1. CASE i \in 1 .. Len(s.orders)
    <3>1. Kept(s.orders[i], t.orders[i])
      BY <2>1 DEF Grown
    <3>2. i \in Under(s, a.client)
      BY <2>0, <2>1, <3>1 DEF Under, Kept
    <3>3. AttemptOf(s.starts, i) = a.attempt
      BY <1>4, <2>1, AttemptStays
    <3> QED
      BY <3>2, <3>3 DEF Stands
  <2>2. CASE i > Len(s.orders)
    BY <1>1, <2>0, <2>2
  <2> QED
    BY <2>0, <2>1, <2>2
<1>5. /\ s.orders[a.order].client = a.client /\ Submission(s.orders[a.order]) = a.terms
      /\ AttemptOf(s.starts, a.order) = a.attempt
  BY DEF Stands
<1>6. t.orders[a.order].client = a.client /\ Submission(t.orders[a.order]) = a.terms
  BY <1>2, <1>5 DEF Kept
<1>7. a.kind = "rejected" <=> t.orders[a.order].status = "Rejected"
  BY <1>2 DEF Kept, Stands
<1> QED
  BY <1>1, <1>3, <1>4, <1>5, <1>6, <1>7 DEF Stands

\* The order an answer of this attempt names is the one its ID names.
LEMMA RepeatNames ==
  ASSUME NEW s, Kempt(s), NEW a \in Replies, Stands(a, s), a.attempt = Len(s.starts)
  PROVE  Named(s, a.client) = a.order /\ a.order # NoId
<1>0. Orderly(s) /\ NamesFirst(s) /\ Len(s.orders) \in Nat
  BY Parts
<1>1. a.client \in Clients /\ a.order \in 1 .. Len(s.orders) /\ a.order \in Nat /\ a.order # 0
  BY DEF Replies, Stands
<1>2. a.order \in Under(s, a.client)
  BY <1>1 DEF Stands, Under
<1>3. AttemptOf(s.starts, a.order) = Len(s.starts)
  BY DEF Stands
<1>4. FirstOrder(s) <= a.order
  BY <1>0, <1>1, <1>3, CurrentAttempt
<1>5. \A i \in Under(s, a.client) : i >= FirstOrder(s) => a.order <= i
  <2> SUFFICES ASSUME NEW i \in Under(s, a.client), i >= FirstOrder(s) PROVE a.order <= i
    OBVIOUS
  <2>1. i \in Nat /\ FirstOrder(s) \in Nat
    BY <1>0, CurrentAttempt, 0 \in Nat DEF Under
  <2>2. AttemptOf(s.starts, i) = Len(s.starts)
    BY <1>0, <2>1, CurrentAttempt
  <2> QED
    BY <2>2 DEF Stands
<1>6. FirstOrder(s) \in Nat
  BY <1>0, CurrentAttempt, 0 \in Nat
<1>7. FirstNamed(s, a.client) = a.order
  BY <1>0, <1>1, <1>2, <1>4, <1>5, <1>6, NamesCurrent
<1>8. s.clients[a.client] = a.order
  BY <1>0, <1>1, <1>7 DEF NamesFirst
<1> QED
  BY <1>1, <1>4, <1>6, <1>8 DEF Named, NoId

LEMMA Repeats ==
  ASSUME Kempt(account), NEW a \in Replies, Stands(a, account), a.attempt = Len(account.starts)
  PROVE  /\ Named(account, a.client) # NoId
         /\ Answer(a.client, a.terms, Reply(a.client, a.terms)) = a
<1>1. Named(account, a.client) = a.order /\ a.order # NoId
  BY RepeatNames
<1>2. Submission(account.orders[a.order]) = a.terms
  BY DEF Stands
<1>3. Reply(a.client, a.terms).order = a.order
  BY <1>1 DEF Reply
<1>4. Reply(a.client, a.terms).kind = IF account.orders[a.order].status = "Rejected" THEN "rejected" ELSE "accepted"
  BY <1>1, <1>2 DEF Reply
<1>5. Reply(a.client, a.terms).kind = a.kind
  <2>1. a.kind \in {"accepted", "rejected"}
    BY DEF Replies
  <2> QED
    BY <1>4, <2>1 DEF Stands
<1>6. Answer(a.client, a.terms, Reply(a.client, a.terms))
        = [attempt |-> a.attempt, client |-> a.client, terms |-> a.terms, order |-> a.order, kind |-> a.kind]
  BY <1>3, <1>5 DEF Answer
<1>7. a = [attempt |-> a.attempt, client |-> a.client, terms |-> a.terms, order |-> a.order, kind |-> a.kind]
  BY DEF Replies
<1> QED
  BY <1>1, <1>6, <1>7

LEMMA PlaceOrders ==
  ASSUME NEW s \in State, NEW c, NEW t, NEW status
  PROVE  /\ Place(s, c, t, status).orders
              = Append(s.orders, NewOrder(c, t, IF Named(s, c) = NoId THEN status ELSE "Rejected"))
         /\ Place(s, c, t, status).starts = s.starts
  BY DEF Place, State

\* A new order's answer stands, its ID being free.
LEMMA PlaceStands ==
  ASSUME Kempt(account), NEW c \in Clients, NEW t \in Terms, NEW status \in Statuses,
         t \in Chained => c \in DOMAIN ChildOf, Named(account, c) = NoId
  PROVE  LET a == Answer(c, t, [order |-> Len(account.orders) + 1,
                                kind  |-> IF status = "Rejected" THEN "rejected" ELSE "accepted"])
         IN  a \in Replies /\ Stands(a, Place(account, c, t, status))
<1> DEFINE a == Answer(c, t, [order |-> Len(account.orders) + 1,
                              kind  |-> IF status = "Rejected" THEN "rejected" ELSE "accepted"])
           p == Place(account, c, t, status)
           id == Len(account.orders) + 1
           o == NewOrder(c, t, status)
<1>0. /\ account \in State /\ Orderly(account) /\ NamesFirst(account) /\ Len(account.orders) \in Nat
      /\ account.orders \in Seq(Order) /\ Len(account.starts) \in Nat
  BY Parts
<1>1. /\ a.order = id /\ a.client = c /\ a.terms = t /\ a.attempt = Len(account.starts)
      /\ a.kind = IF status = "Rejected" THEN "rejected" ELSE "accepted"
      /\ a \in Replies
  BY <1>0 DEF Answer, Replies
<1>2. p.orders = Append(account.orders, o) /\ p.starts = account.starts
  <2>1. /\ p.orders = Append(account.orders, NewOrder(c, t, IF Named(account, c) = NoId THEN status ELSE "Rejected"))
        /\ p.starts = account.starts
    BY <1>0, PlaceOrders
  <2>2. (IF Named(account, c) = NoId THEN status ELSE "Rejected") = status
    OBVIOUS
  <2> QED
    BY <2>1, <2>2, Zenon
<1>3. o \in Order
  BY OrderTyped
<1>4. o.client = c /\ o.status = status /\ Submission(o) = t
  BY DEF NewOrder, Submission
<1> HIDE DEF a, p, o
<1>5. Len(p.orders) = id /\ p.orders[id] = o /\ \A i \in 1 .. Len(account.orders) : p.orders[i] = account.orders[i]
  BY <1>0, <1>2, <1>3
<1>6. FirstOrder(account) \in Nat /\ FirstOrder(account) > 0 /\ FirstOrder(account) <= id /\ id \in Nat
  BY <1>0, CurrentAttempt, 0 \in Nat
<1>7. AttemptOf(p.starts, id) = Len(account.starts)
  BY <1>0, <1>2, <1>6, CurrentAttempt
<1>8. \A i \in Under(account, c) : i < FirstOrder(account)
  <2>1. account.clients[c] = FirstNamed(account, c) /\ FirstNamed(account, c) \in Nat
    BY <1>0, NamedNow DEF NamesFirst
  <2>2. FirstNamed(account, c) < FirstOrder(account)
    BY <1>6, <2>1 DEF Named, NoId
  <2> QED
    BY <1>0, <2>2, NamedNow
<1>9. \A i \in Under(p, c) : AttemptOf(p.starts, i) = Len(account.starts) => id <= i
  <2> SUFFICES ASSUME NEW i \in Under(p, c), AttemptOf(p.starts, i) = Len(account.starts) PROVE id <= i
    OBVIOUS
  <2>1. i \in 1 .. id /\ i \in Nat
    BY <1>5 DEF Under
  <2>2. FirstOrder(account) <= i
    BY <1>0, <1>2, <2>1, CurrentAttempt
  <2>3. i \notin Under(account, c)
    BY <1>6, <1>8, <2>1, <2>2
  <2>4. i \notin 1 .. Len(account.orders)
    BY <1>5, <2>3 DEF Under
  <2> QED
    BY <1>0, <2>1, <2>4
<1>10. Stands(a, p)
  <2>1. a.order \in 1 .. Len(p.orders) /\ p.orders[a.order] = o
    BY <1>1, <1>5, <1>6
  <2>2. a.kind = "rejected" <=> o.status = "Rejected"
    BY <1>1, <1>4
  <2>3. \A i \in Under(p, a.client) : AttemptOf(p.starts, i) = a.attempt => a.order <= i
    BY <1>1, <1>9
  <2>4. AttemptOf(p.starts, a.order) = a.attempt
    BY <1>1, <1>7
  <2>5. p.orders[a.order].client = a.client /\ Submission(p.orders[a.order]) = a.terms
    BY <1>1, <1>4, <2>1
  <2> QED
    BY <2>1, <2>2, <2>3, <2>4, <2>5 DEF Stands
<1> QED
  BY <1>1, <1>10 DEF a, p

\* What an ID's order already was is what a repetition is told.
LEMMA ReplyStands ==
  ASSUME Kempt(account), NEW c \in Clients, NEW t \in Terms, Named(account, c) # NoId, Reply(c, t).kind # "duplicate"
  PROVE  Answer(c, t, Reply(c, t)) \in Replies /\ Stands(Answer(c, t, Reply(c, t)), account)
<1> DEFINE a == Answer(c, t, Reply(c, t))
           id == Named(account, c)
           o == account.orders[id]
<1>0. Orderly(account) /\ Len(account.orders) \in Nat /\ Len(account.starts) \in Nat
  BY Parts
<1>1. /\ id \in Under(account, c) /\ id >= FirstOrder(account)
      /\ \A i \in Under(account, c) : i >= FirstOrder(account) => id <= i
  BY PlaceNames
<1>2. id \in 1 .. Len(account.orders) /\ o.client = c /\ id \in Nat
  BY <1>1 DEF Under
<1>3. Submission(o) = t
  BY DEF Reply
<1>4. /\ Reply(c, t).order = id
      /\ Reply(c, t).kind = IF o.status = "Rejected" THEN "rejected" ELSE "accepted"
  BY <1>3 DEF Reply
<1>5. /\ a.order = id /\ a.client = c /\ a.terms = t /\ a.attempt = Len(account.starts)
      /\ a.kind = IF o.status = "Rejected" THEN "rejected" ELSE "accepted"
      /\ a \in Replies
  <2> HIDE DEF id, o
  <2> QED
    BY <1>0, <1>2, <1>4 DEF Answer, Replies
<1> HIDE DEF a, id
<1>6. FirstOrder(account) \in Nat
  BY <1>0, CurrentAttempt, 0 \in Nat
<1>7. AttemptOf(account.starts, id) = Len(account.starts)
  BY <1>0, <1>1, <1>2, <1>6, CurrentAttempt
<1>8. \A i \in Under(account, c) : AttemptOf(account.starts, i) = Len(account.starts) => id <= i
  <2> SUFFICES ASSUME NEW i \in Under(account, c), AttemptOf(account.starts, i) = Len(account.starts) PROVE id <= i
    OBVIOUS
  <2>1. i \in Nat
    BY DEF Under
  <2>2. FirstOrder(account) <= i
    BY <1>0, <2>1, CurrentAttempt
  <2> QED
    BY <1>1, <1>6, <2>1, <2>2
<1>9. Stands(a, account)
  <2>1. a.kind = "rejected" <=> account.orders[a.order].status = "Rejected"
    BY <1>5
  <2>2. \A i \in Under(account, a.client) : AttemptOf(account.starts, i) = a.attempt => a.order <= i
    BY <1>5, <1>8
  <2>3. a.order \in 1 .. Len(account.orders)
    BY <1>2, <1>5
  <2>4. account.orders[a.order].client = a.client /\ Submission(account.orders[a.order]) = a.terms
    BY <1>2, <1>3, <1>5
  <2>5. AttemptOf(account.starts, a.order) = a.attempt
    BY <1>5, <1>7
  <2> QED
    BY <2>1, <2>2, <2>3, <2>4, <2>5 DEF Stands
<1> QED
  BY <1>5, <1>9 DEF a

-----------------------------------------------------------------------------
(* The commands' effects are moves *)

\* An open order fills or ends.
LEMMA StatusMoves ==
  ASSUME NEW s, Kempt(s), NEW id \in 1 .. Len(s.orders), Open(s.orders[id]), NEW status \in {"Filled", "Cancelled"}
  PROVE  Moved(s, [s EXCEPT !.orders[id].status = status])
<1> DEFINE o == [s.orders[id] EXCEPT !.status = status]
<1>0. s \in State /\ Orderly(s) /\ s.orders \in Seq(Order) /\ s.orders[id] \in Order
  BY Parts
<1>1. o \in Order /\ o.request = s.orders[id].request /\ o.client = s.orders[id].client
  BY <1>0 DEF Order, Statuses
<1>2. Kept(s.orders[id], o)
  BY <1>0 DEF Order, Kept, Submission, Open
<1>3. o.request \in Chained => o.client \in DOMAIN ChildOf
  BY <1>0, <1>1 DEF Orderly
<1>4. [s EXCEPT !.orders = [@ EXCEPT ![id] = o]] = [s EXCEPT !.orders[id].status = status]
  BY <1>0 DEF State
<1> HIDE DEF o
<1> QED
  BY <1>1, <1>2, <1>3, <1>4, OrderMoves

\* An open order takes other terms, none that chain, and keeps the first.
LEMMA ModifyMoves ==
  ASSUME NEW s, Kempt(s), NEW id \in 1 .. Len(s.orders), Open(s.orders[id]), NEW t \in Terms \ Chained
  PROVE  Moved(s, [s EXCEPT !.orders[id].request = t, !.orders[id].submitted = Submission(s.orders[id])])
<1> DEFINE o == [s.orders[id] EXCEPT !.request = t, !.submitted = Submission(s.orders[id])]
<1>0. s \in State /\ s.orders \in Seq(Order) /\ s.orders[id] \in Order
  BY Parts
<1>1. Submission(s.orders[id]) \in Terms /\ Submission(s.orders[id]) # NoTerms
  BY <1>0, SessionAssumption DEF Submission, Order
<1>2. /\ o \in Order /\ o.request = t /\ o.submitted = Submission(s.orders[id])
      /\ o.client = s.orders[id].client /\ o.status = s.orders[id].status
  BY <1>0, <1>1 DEF Order
<1>3. [s EXCEPT !.orders = [@ EXCEPT ![id] = o]]
        = [s EXCEPT !.orders[id].request = t, !.orders[id].submitted = Submission(s.orders[id])]
  BY <1>0 DEF State, Order
<1> HIDE DEF o
<1>4. Submission(o) = Submission(s.orders[id])
  BY <1>1, <1>2 DEF Submission
<1>5. Kept(s.orders[id], o)
  BY <1>2, <1>4 DEF Kept, Open
<1> QED
  BY <1>2, <1>3, <1>5, OrderMoves

\* Open orders end with the attempt, and the next one begins after them.
LEMMA ResetMoves ==
  ASSUME NEW s, Kempt(s)
  PROVE  LET Ended(o) == IF Open(o) THEN [o EXCEPT !.status = "Cancelled"] ELSE o
         IN  Moved(s, [s EXCEPT !.orders = <<>> \o [i \in 1 .. Len(@) |-> Ended(@[i])],
                                !.starts = Append(@, Len(s.orders) + 1)])
<1> DEFINE Ended(o) == IF Open(o) THEN [o EXCEPT !.status = "Cancelled"] ELSE o
           orders == [i \in 1 .. Len(s.orders) |-> Ended(s.orders[i])]
           starts == Append(s.starts, Len(s.orders) + 1)
           t == [s EXCEPT !.orders = <<>> \o [i \in 1 .. Len(@) |-> Ended(@[i])],
                          !.starts = Append(@, Len(s.orders) + 1)]
           L == Len(s.starts)
<1>0. /\ s \in State /\ Orderly(s) /\ s.orders \in Seq(Order) /\ s.starts \in Seq(Nat)
      /\ Len(s.orders) \in Nat /\ L \in Nat
  BY Parts
<1>1. ASSUME NEW o \in Order
      PROVE  /\ Ended(o) \in Order /\ Kept(o, Ended(o))
             /\ Ended(o).request = o.request /\ Ended(o).client = o.client
  BY DEF Order, Statuses, Kept, Submission, Open
<1>2. ASSUME NEW i \in 1 .. Len(s.orders)
      PROVE  /\ Ended(s.orders[i]) \in Order /\ Kept(s.orders[i], Ended(s.orders[i]))
             /\ Ended(s.orders[i]).request = s.orders[i].request /\ Ended(s.orders[i]).client = s.orders[i].client
  <2>1. s.orders[i] \in Order
    BY <1>0
  <2> HIDE DEF Ended
  <2> QED
    BY <1>1, <2>1
<1> HIDE DEF Ended
<1>3. orders \in Seq(Order) /\ Len(orders) = Len(s.orders) /\ <<>> \o orders = orders
  <2>1. orders \in [1 .. Len(s.orders) -> Order]
    BY <1>2
  <2> HIDE DEF orders
  <2>2. orders \in Seq(Order) /\ Len(orders) = Len(s.orders)
    BY <1>0, <2>1
  <2> QED
    BY <2>2
<1>4. /\ t.orders = orders /\ t.starts = starts /\ t.time = s.time /\ t.version = s.version
      /\ t.clients = s.clients /\ t.working = s.working /\ t.indexed = s.indexed
      /\ t = [f \in Fields |-> t[f]]
  BY <1>0, <1>3 DEF State, Fields
<1>5. /\ starts \in Seq(Nat) /\ Len(starts) = L + 1 /\ starts[L + 1] = Len(s.orders) + 1
      /\ \A n \in 1 .. L : starts[n] = s.starts[n]
  BY <1>0
<1>6. \A i \in 1 .. Len(s.orders) : orders[i] = Ended(s.orders[i])
  OBVIOUS
<1> HIDE DEF t, orders, starts, L
<1>7. s.clients \in [Clients -> Nat] /\ s.time \in Nat /\ s.version \in Nat /\ s.working \subseteq Nat /\ s.indexed \in Nat
  BY <1>0 DEF State
<1>8. t \in State
  BY <1>3, <1>4, <1>5, <1>7, StateTyped
<1>9. \A n \in 1 .. L : 0 < s.starts[n] /\ s.starts[n] <= Len(s.orders) + 1 /\ s.starts[n] \in Nat
  BY <1>0 DEF Orderly, L
<1>10. Orderly(t)
  <2>1. \A n \in 1 .. Len(t.starts) : 0 < t.starts[n] /\ t.starts[n] <= Len(t.orders) + 1
    BY <1>0, <1>3, <1>4, <1>5, <1>9
  <2>2. \A m, n \in 1 .. Len(t.starts) : m <= n => t.starts[m] <= t.starts[n]
    <3> SUFFICES ASSUME NEW m \in 1 .. L + 1, NEW n \in 1 .. L + 1, m <= n PROVE starts[m] <= starts[n]
      BY <1>4, <1>5
    <3>1. CASE n \in 1 .. L
      <4>1. m \in 1 .. L
        BY <1>0, <3>1
      <4>2. s.starts[m] <= s.starts[n]
        BY <1>0, <3>1, <4>1 DEF Orderly, L
      <4> QED
        BY <1>5, <3>1, <4>1, <4>2
    <3>2. CASE n = L + 1
      <4>1. CASE m \in 1 .. L
        BY <1>5, <1>9, <3>2, <4>1
      <4>2. CASE m = L + 1
        BY <1>0, <1>5, <3>2, <4>2
      <4> QED
        BY <1>0, <4>1, <4>2
    <3> QED
      BY <1>0, <3>1, <3>2
  <2>3. \A i \in 1 .. Len(t.orders) : t.orders[i].request \in Chained => t.orders[i].client \in DOMAIN ChildOf
    <3> SUFFICES ASSUME NEW i \in 1 .. Len(s.orders), t.orders[i].request \in Chained
                 PROVE t.orders[i].client \in DOMAIN ChildOf
      BY <1>3, <1>4
    <3>1. t.orders[i].request = s.orders[i].request /\ t.orders[i].client = s.orders[i].client
      BY <1>2, <1>4, <1>6
    <3> QED
      BY <1>0, <3>1 DEF Orderly
  <2>4. Len(t.starts) > 0
    BY <1>0, <1>4, <1>5
  <2> QED
    BY <1>3, <1>4, <1>5, <2>1, <2>2, <2>3, <2>4 DEF Orderly
<1>11. Grown(s, t)
  <2>1. \A i \in 1 .. Len(s.orders) : Kept(s.orders[i], t.orders[i])
    BY <1>2, <1>4, <1>6
  <2>2. \A n \in Len(s.starts) + 1 .. Len(t.starts) : t.starts[n] > Len(s.orders)
    BY <1>0, <1>4, <1>5 DEF L
  <2>3. Len(s.starts) <= Len(t.starts) /\ \A n \in 1 .. Len(s.starts) : t.starts[n] = s.starts[n]
    BY <1>0, <1>4, <1>5 DEF L
  <2>4. Len(s.orders) <= Len(t.orders)
    BY <1>0, <1>3, <1>4
  <2> QED
    BY <2>1, <2>2, <2>3, <2>4 DEF Grown
<1>12. Moved(s, t)
  BY <1>3, <1>4, <1>8, <1>10, <1>11, RewriteMoves
<1> QED
  BY <1>12 DEF t, Ended

-----------------------------------------------------------------------------
(* The journal rebuilds the account *)

\* The lines are a walk of states that grow, each carrying its record's number and time.
Recorded(ls) ==
  /\ IsSeq(ls)
  /\ Len(ls) > 0 => ls[1].whole
  /\ \A n \in 1 .. Len(ls) : /\ Behind(ls, n) \in CoreState /\ Orderly(Behind(ls, n))
                             /\ Behind(ls, n).version = ls[n].seq /\ Behind(ls, n).time = ls[n].time
  /\ \A m, n \in 0 .. Len(ls) : m <= n => Grown(Behind(ls, m), Behind(ls, n))

\* A state recovery would load as it is.
Whole(s) == Kempt(s) /\ s = Loaded(s)

\* The record of the transaction takes the lines to its state, and once written has.
Bridging ==
  tx # None =>
    /\ Whole(tx.next) /\ tx.line.time = tx.next.time
    /\ tx.step = "writing" =>
         /\ Extended(Walk(lines), tx.line) = Core(tx.next) /\ Grown(Walk(lines), tx.next)
         /\ Len(lines) = 0 => tx.line.whole
    /\ tx.step # "writing" => Len(lines) > 0 /\ Walk(lines) = Core(tx.next)
    /\ tx.step = "publishing" => durable = Len(lines)
    /\ \A a \in tx.answers : a \in Replies /\ Stands(a, tx.next)

\* While the account trades, the lines describe it.
Describing == Serving => Len(lines) > 0 /\ Walk(lines) = Core(account) /\ Whole(account)

\* What was answered stands in what is safe.
Answering ==
  /\ durable \in 0 .. Len(lines)
  /\ \A a \in answers : a \in Replies /\ Stands(a, Behind(lines, durable))

SInv == VInv /\ Recorded(lines) /\ Bridging /\ Describing /\ Answering

LEMMA CoreAlike ==
  ASSUME NEW s
  PROVE  /\ Orderly(Core(s)) <=> Orderly(s)
         /\ \A t : Grown(t, Core(s)) <=> Grown(t, s)
         /\ \A t : Grown(Core(s), t) <=> Grown(s, t)
         /\ \A a : Stands(a, Core(s)) <=> Stands(a, s)
         /\ Loaded(Core(s)) = Loaded(s)
<1>1. Core(s).orders = s.orders /\ Core(s).starts = s.starts /\ Core(s).time = s.time /\ Core(s).version = s.version
  BY DEF Core
<1>2. Orderly(Core(s)) <=> Orderly(s)
  BY <1>1, Zenon DEF Orderly
<1>3. \A t : Grown(t, Core(s)) <=> Grown(t, s)
  BY <1>1, Zenon DEF Grown
<1>4. \A t : Grown(Core(s), t) <=> Grown(s, t)
  BY <1>1, Zenon DEF Grown
<1>5. \A a : Stands(a, Core(s)) <=> Stands(a, s)
  BY <1>1, Zenon DEF Stands, Under
<1>6. \A c : FirstNamed(Core(s), c) = FirstNamed(s, c)
  BY <1>1, Zenon DEF FirstNamed
<1>7. Loaded(Core(s)) = Loaded(s)
  BY <1>1, <1>6 DEF Loaded
<1> QED
  BY <1>2, <1>3, <1>4, <1>5, <1>7

\* Nothing is the beginning of everything.
LEMMA GrownFromNothing ==
  ASSUME NEW s, s.orders \in Seq(Order), s.starts \in Seq(Nat),
         \A n \in 1 .. Len(s.starts) : 0 < s.starts[n]
  PROVE  Grown(NoState, s)
<1>1. NoState.orders = <<>> /\ NoState.starts = <<>> /\ Len(<<>>) = 0
  BY DEF NoState
<1>2. \A n \in 1 .. Len(s.starts) : s.starts[n] \in Nat
  OBVIOUS
<1> QED
  BY <1>1, <1>2 DEF Grown

\* A line that follows from the last keeps the journal recorded.
LEMMA RecordedAppend ==
  ASSUME NEW ls, Recorded(ls), NEW r, NEW next, Extended(Walk(ls), r) = next, Grown(Walk(ls), next),
         next \in CoreState, Orderly(next), next.version = r.seq, next.time = r.time,
         Len(ls) = 0 => r.whole
  PROVE  /\ Recorded(Append(ls, r)) /\ Len(Append(ls, r)) = Len(ls) + 1 /\ Walk(Append(ls, r)) = next
         /\ \A n \in 0 .. Len(ls) : Behind(Append(ls, r), n) = Behind(ls, n)
<1> DEFINE new == Append(ls, r)
           L == Len(ls)
<1>1. /\ IsSeq(ls) /\ IsSeq(new) /\ L \in Nat /\ Len(new) = L + 1
      /\ \A n \in 1 .. L : new[n] = ls[n]
      /\ new[L + 1] = r
  BY AppendIsSeq DEF Recorded
<1> HIDE DEF new, L
<1>2. ASSUME NEW n \in 0 .. L PROVE Behind(new, n) = Behind(ls, n)
  <2>1. Alike(new, ls, n) /\ n \in 0 .. Len(new) /\ n <= Len(ls)
    BY <1>1 DEF Alike, L
  <2> QED
    BY <1>1, <2>1, BehindAlike
<1>3. Behind(ls, L) = Walk(ls)
  BY <1>1, BehindAll DEF L
<1>4. Behind(new, L + 1) = next
  <2>1. L + 1 \in 1 .. Len(new) /\ (L + 1) - 1 = L
    BY <1>1
  <2>2. Behind(new, L + 1) = Extended(Behind(new, L), new[L + 1])
    BY <1>1, <2>1, BehindLine
  <2> QED
    BY <1>1, <1>2, <1>3, <2>2
<1>5. Walk(new) = next
  BY <1>1, <1>4, BehindAll
<1>6. Len(new) > 0 => new[1].whole
  <2>1. CASE L = 0
    BY <1>1, <2>1 DEF L
  <2>2. CASE L # 0
    BY <1>1, <2>2 DEF L, Recorded
  <2> QED
    BY <2>1, <2>2
<1>7. ASSUME NEW n \in 1 .. Len(new)
      PROVE  /\ Behind(new, n) \in CoreState /\ Orderly(Behind(new, n))
             /\ Behind(new, n).version = new[n].seq /\ Behind(new, n).time = new[n].time
  <2>1. CASE n = L + 1
    BY <1>1, <1>4, <2>1
  <2>2. CASE n \in 1 .. L
    <3>1. Behind(new, n) = Behind(ls, n) /\ new[n] = ls[n]
      BY <1>1, <1>2, <2>2
    <3>2. /\ Behind(ls, n) \in CoreState /\ Orderly(Behind(ls, n))
          /\ Behind(ls, n).version = ls[n].seq /\ Behind(ls, n).time = ls[n].time
      BY <2>2 DEF Recorded, L
    <3> QED
      BY <3>1, <3>2
  <2> QED
    BY <1>1, <2>1, <2>2
<1>8. ASSUME NEW m \in 0 .. Len(new), NEW n \in 0 .. Len(new), m <= n
      PROVE  Grown(Behind(new, m), Behind(new, n))
  <2>1. CASE n \in 0 .. L
    <3>1. m \in 0 .. L
      BY <1>1, <1>8, <2>1
    <3>2. Grown(Behind(ls, m), Behind(ls, n))
      BY <1>8, <2>1, <3>1 DEF Recorded, L
    <3> QED
      BY <1>2, <2>1, <3>1, <3>2
  <2>2. CASE n = L + 1 /\ m \in 0 .. L
    <3>1. Grown(Behind(ls, m), Walk(ls))
      <4>1. L \in 0 .. L /\ m <= L
        BY <1>1, <2>2
      <4>2. Grown(Behind(ls, m), Behind(ls, L))
        BY <2>2, <4>1 DEF Recorded, L
      <4> QED
        BY <1>3, <4>2
    <3>2. \A k \in 0 .. L : Len(Behind(ls, k).orders) \in Nat /\ Len(Behind(ls, k).starts) \in Nat
      <4>1. ASSUME NEW k \in 0 .. L, k = 0 PROVE Len(Behind(ls, k).orders) \in Nat /\ Len(Behind(ls, k).starts) \in Nat
        BY <1>1, <4>1, BehindNone DEF NoState
      <4>2. ASSUME NEW k \in 0 .. L, k # 0 PROVE Len(Behind(ls, k).orders) \in Nat /\ Len(Behind(ls, k).starts) \in Nat
        <5>1. k \in 1 .. L
          BY <1>1, <4>2
        <5>2. Behind(ls, k) \in CoreState
          BY <5>1 DEF Recorded, L
        <5> QED
          BY <5>2 DEF CoreState
      <4> QED
        BY <4>1, <4>2
    <3>3. Len(next.orders) \in Nat /\ next.starts \in Seq(Nat)
      BY DEF CoreState
    <3>4. Len(Walk(ls).orders) \in Nat /\ Len(Walk(ls).starts) \in Nat
      BY <1>1, <1>3, <3>2
    <3>5. Grown(Behind(ls, m), next)
      BY <2>2, <3>1, <3>2, <3>3, <3>4, GrownTwice
    <3> QED
      BY <1>2, <1>4, <2>2, <3>5
  <2>3. CASE n = L + 1 /\ m = L + 1
    <3>1. Len(next.orders) \in Nat /\ Len(next.starts) \in Nat
      BY DEF CoreState
    <3> QED
      BY <1>4, <2>3, <3>1, GrownSelf
  <2> QED
    BY <1>1, <1>8, <2>1, <2>2, <2>3
<1>9. Recorded(new)
  BY <1>1, <1>6, <1>7, <1>8 DEF Recorded
<1> QED
  BY <1>1, <1>2, <1>5, <1>9 DEF new, L

\* A prefix of a journal is a journal.
LEMMA RecordedPrefix ==
  ASSUME NEW ls, Recorded(ls), NEW k \in 0 .. Len(ls)
  PROVE  /\ Recorded(SubSeq(ls, 1, k)) /\ Len(SubSeq(ls, 1, k)) = k
         /\ \A n \in 0 .. k : Behind(SubSeq(ls, 1, k), n) = Behind(ls, n)
<1> DEFINE new == SubSeq(ls, 1, k)
           L == Len(ls)
<1>1. /\ IsSeq(ls) /\ IsSeq(new) /\ L \in Nat /\ Len(new) = k /\ k \in 0 .. L
      /\ \A n \in 1 .. k : new[n] = ls[n]
  BY PrefixIsSeq, AppendIsSeq DEF Recorded
<1> HIDE DEF new, L
<1>2. ASSUME NEW n \in 0 .. k PROVE Behind(new, n) = Behind(ls, n)
  <2>1. Alike(new, ls, n) /\ n \in 0 .. Len(new) /\ n <= Len(ls)
    BY <1>1 DEF Alike, L
  <2> QED
    BY <1>1, <2>1, BehindAlike
<1>3. Len(new) > 0 => new[1].whole
  BY <1>1 DEF Recorded, L
<1>4. ASSUME NEW n \in 1 .. Len(new)
      PROVE  /\ Behind(new, n) \in CoreState /\ Orderly(Behind(new, n))
             /\ Behind(new, n).version = new[n].seq /\ Behind(new, n).time = new[n].time
  <2>1. n \in 0 .. k /\ n \in 1 .. k /\ n \in 1 .. L
    BY <1>1
  <2>2. Behind(new, n) = Behind(ls, n) /\ new[n] = ls[n]
    BY <1>1, <1>2, <2>1
  <2>3. /\ Behind(ls, n) \in CoreState /\ Orderly(Behind(ls, n))
        /\ Behind(ls, n).version = ls[n].seq /\ Behind(ls, n).time = ls[n].time
    BY <2>1 DEF Recorded, L
  <2> QED
    BY <2>2, <2>3
<1>5. ASSUME NEW m \in 0 .. Len(new), NEW n \in 0 .. Len(new), m <= n
      PROVE  Grown(Behind(new, m), Behind(new, n))
  <2>1. m \in 0 .. L /\ n \in 0 .. L /\ m \in 0 .. k /\ n \in 0 .. k
    BY <1>1
  <2>2. Grown(Behind(ls, m), Behind(ls, n))
    BY <1>5, <2>1 DEF Recorded, L
  <2> QED
    BY <1>2, <2>1, <2>2
<1>6. Recorded(new)
  BY <1>1, <1>3, <1>4, <1>5 DEF Recorded
<1> QED
  BY <1>1, <1>2, <1>6 DEF new

LEMMA NumberedMoves ==
  ASSUME NEW s, Whole(s), NEW v \in Nat
  PROVE  LET t == [s EXCEPT !.version = v]
         IN  /\ Moved(s, t) /\ Whole(t) /\ t \in State
             /\ t.version = v /\ t.time = s.time /\ t.orders = s.orders /\ t.starts = s.starts
<1> DEFINE t == [s EXCEPT !.version = v]
<1>0. Kempt(s) /\ s = Loaded(s)
  BY DEF Whole
<1>1. s \in State /\ Orderly(s)
  BY <1>0, Parts
<1>2. /\ t.time = s.time /\ t.version = v /\ t.orders = s.orders /\ t.starts = s.starts
      /\ t.clients = s.clients /\ t.working = s.working /\ t.indexed = s.indexed
      /\ t = [f \in Fields |-> t[f]]
  BY <1>1 DEF State, Fields
<1> HIDE DEF t
<1>3. /\ s.clients \in [Clients -> Nat] /\ s.time \in Nat /\ s.orders \in Seq(Order)
      /\ s.starts \in Seq(Nat) /\ s.working \subseteq Nat /\ s.indexed \in Nat
  BY <1>1 DEF State
<1>4. t \in State
  BY <1>2, <1>3, StateTyped
<1>5. Orderly(t) /\ Grown(s, t)
  <2>1. Orderly(t)
    BY <1>1, <1>2 DEF Orderly
  <2>2. Grown(s, t)
    BY <1>2, <1>3 DEF Grown, Kept
  <2> QED
    BY <2>1, <2>2
<1>6. Moved(s, t)
  BY <1>0, <1>2, <1>4, <1>5, RewriteMoves
<1>7. t = Loaded(t)
  <2>1. \A c : FirstNamed(t, c) = FirstNamed(s, c)
    BY <1>2, Zenon DEF FirstNamed
  <2>2. /\ s.clients = [c \in Clients |-> FirstNamed(s, c)]
        /\ s.working = {i \in 1 .. Len(s.orders) : Open(s.orders[i])} /\ s.indexed = Len(s.orders)
    BY <1>0 DEF Loaded
  <2>3. /\ t.clients = [c \in Clients |-> FirstNamed(t, c)]
        /\ t.working = {i \in 1 .. Len(t.orders) : Open(t.orders[i])} /\ t.indexed = Len(t.orders)
    BY <1>2, <2>1, <2>2
  <2> QED
    BY <1>2, <2>3 DEF Loaded, Fields
<1> QED
  BY <1>2, <1>4, <1>6, <1>7 DEF Whole, Moved, t

\* The record of the transaction and the answers it keeps to itself until then.
LEMMA TransactBridges ==
  ASSUME SInv, NEW effect, Moved(account, effect), NEW quiet \in BOOLEAN, NEW told,
         \A a \in told : a \in Replies /\ Stands(a, effect), quiet => told = {},
         Transact(effect, quiet, told)
  PROVE  Recorded(lines)' /\ Bridging' /\ Describing' /\ Answering'
<1>1. /\ Serving /\ UNCHANGED <<process, account, stopped, lines, durable>>
  BY DEF Transact, file
<1>2. /\ Len(lines) > 0 /\ Walk(lines) = Core(account) /\ Kempt(account)
      /\ tx = None
  BY <1>1 DEF SInv, Describing, Whole, Serving
<1>3. /\ account \in State /\ account.time \in Nat
  <2>1. account \in State
    BY <1>2, Parts
  <2> QED
    BY <2>1 DEF State
<1>4. PICK time \in account.time .. MaxTime :
        LET next == Reindexed(PlaceChained([effect EXCEPT !.time = time]))
            change == StateChange(account, next)
        IN  IF recorder.based /\ quiet /\ Unchanged(change)
            THEN answers' = answers \cup told /\ UNCHANGED <<recorder, tx>>
            ELSE /\ Len(lines) < MaxLines
                 /\ Recording([next EXCEPT !.version = @ + 1], change, told)
                 /\ UNCHANGED answers
  BY DEF Transact
<1> DEFINE timed == [effect EXCEPT !.time = time]
           chained == PlaceChained(timed)
           next == Reindexed(chained)
           v == next.version + 1
           numbered == [next EXCEPT !.version = v]
           change == StateChange(account, next)
<1>5. time \in Nat
  BY <1>3, SessionAssumption
<1>6. \/ answers' = answers \cup told /\ quiet /\ UNCHANGED tx
      \/ Recording(numbered, change, told) /\ UNCHANGED answers
  BY <1>4
<1>7. Kempt(effect) /\ Moved(effect, timed) /\ Kempt(timed)
  BY <1>5, TimeMoves DEF Moved
<1> HIDE DEF timed
<1>8. Moved(timed, chained) /\ Kempt(chained)
  BY <1>7, ChainedMoves DEF Moved
<1> HIDE DEF chained
<1>9. Moved(chained, next) /\ Whole(next)
  BY <1>8, ReindexMoves DEF Moved, Whole
<1> HIDE DEF next
<1>10. Moved(effect, next)
  BY <1>7, <1>8, <1>9, MovedTwice
<1>11. v \in Nat /\ next \in State
  <2>1. next \in State
    BY <1>9, Parts DEF Whole
  <2> QED
    BY <2>1 DEF State
<1>12. /\ Moved(next, numbered) /\ Whole(numbered) /\ numbered \in State /\ numbered.version = v
  BY <1>9, <1>11, NumberedMoves
<1>13. Core(numbered) = Applied(Core(account), Delta(change, v))
  BY <1>3, <1>11, ChangeApplies
<1> HIDE DEF v, numbered, change
<1>14. Kempt(next) /\ Moved(effect, numbered)
  BY <1>7, <1>9, <1>10, <1>12, MovedTwice DEF Whole
<1>15. Moved(account, numbered)
  BY <1>2, <1>7, <1>14, MovedTwice
<1>16. \A a \in told : a \in Replies /\ Stands(a, numbered)
  <2>1. Grown(effect, numbered) /\ Kempt(numbered)
    BY <1>14 DEF Moved
  <2>2. /\ effect.starts \in Seq(Nat) /\ Len(effect.orders) \in Nat
        /\ numbered.starts \in Seq(Nat) /\ Len(numbered.orders) \in Nat
    BY <1>7, <2>1, Parts
  <2> QED
    BY <2>1, <2>2, StandsOn
<1>17. Recorded(lines)'
  BY <1>1 DEF SInv
<1>18. CASE answers' = answers \cup told /\ quiet /\ UNCHANGED tx
  <2>1. answers' = answers
    BY <1>18
  <2>2. Bridging'
    BY <1>2, <1>18 DEF Bridging
  <2>3. Describing'
    BY <1>1, <1>18 DEF SInv, Describing, Serving
  <2>4. Answering'
    BY <1>1, <2>1 DEF SInv, Answering
  <2> QED
    BY <1>17, <2>2, <2>3, <2>4
<1>19. CASE Recording(numbered, change, told) /\ UNCHANGED answers
  <2>1. PICK whole \in BOOLEAN :
          tx' = [next |-> numbered, answers |-> told, step |-> "writing",
                 line |-> [seq |-> numbered.version, time |-> numbered.time, whole |-> whole,
                           data |-> IF whole THEN Core(numbered) ELSE Delta(change, numbered.version)]]
    BY <1>19 DEF Recording
  <2>2. /\ "step" \in DOMAIN tx' /\ tx'.step = "writing" /\ tx'.next = numbered /\ tx'.answers = told
        /\ tx'.line.time = numbered.time /\ tx'.line.whole = whole
        /\ tx'.line.data = IF whole THEN Core(numbered) ELSE Delta(change, v)
    BY <1>12, <2>1
  <2>3. tx' # None
    BY <2>2, RecordIsSome
  <2>4. Extended(Walk(lines), tx'.line) = Core(numbered)
    <3>1. CASE whole
      BY <2>2, <3>1 DEF Extended
    <3>2. CASE ~whole
      BY <1>2, <1>13, <2>2, <3>2 DEF Extended
    <3> QED
      BY <3>1, <3>2
  <2>5. Grown(Walk(lines), numbered)
    BY <1>2, <1>15, CoreAlike DEF Moved
  <2>6. Bridging'
    BY <1>1, <1>2, <1>12, <1>16, <2>2, <2>4, <2>5 DEF Bridging
  <2>7. Describing'
    BY <2>3 DEF Describing, Serving
  <2>8. Answering'
    BY <1>1, <1>19 DEF SInv, Answering
  <2> QED
    BY <1>17, <2>6, <2>7, <2>8
<1> QED
  BY <1>6, <1>18, <1>19

\* Every command is a transaction on a move, or an answer given again.
LEMMA CommandBridges ==
  ASSUME SInv,
         \/ \E c \in Submissions : Submit(c[1], c[2])
         \/ \E id \in Ids(account) : Cancel(id) \/ \E t \in Terms \ Chained : Modify(id, t)
         \/ Refused \/ Market \/ Reset
  PROVE  Recorded(lines)' /\ Bridging' /\ Describing' /\ Answering'
<1> DEFINE Goal == Recorded(lines)' /\ Bridging' /\ Describing' /\ Answering'
<1>0. Serving => Kempt(account) /\ Whole(account) /\ Len(lines) > 0 /\ Walk(lines) = Core(account)
  BY DEF SInv, Describing, Whole
<1> HIDE DEF Goal
<1>1. ASSUME NEW c \in Clients, NEW t \in Terms, t \in Chained => c \in DOMAIN ChildOf, Submit(c, t) PROVE Goal
  <2>0. Serving /\ Kempt(account)
    BY <1>0, <1>1 DEF Submit
  <2>1. ASSUME Named(account, c) # NoId PROVE Goal
    <3>1. /\ Reply(c, t).kind # "duplicate" /\ durable = Len(lines)
          /\ answers' = answers \cup {Answer(c, t, Reply(c, t))}
          /\ UNCHANGED <<process, account, stopped, tx, lines, durable>>
      BY <1>1, <2>1 DEF Submit, file
    <3>2. Answer(c, t, Reply(c, t)) \in Replies /\ Stands(Answer(c, t, Reply(c, t)), account)
      BY <2>0, <2>1, <3>1, ReplyStands
    <3>3. Behind(lines, durable) = Core(account)
      <4>1. IsSeq(lines)
        BY DEF SInv, Recorded
      <4> QED
        BY <1>0, <2>0, <3>1, <4>1, BehindAll
    <3>4. Stands(Answer(c, t, Reply(c, t)), Behind(lines, durable))
      BY <3>2, <3>3, CoreAlike
    <3>5. Answering'
      BY <3>1, <3>2, <3>4 DEF SInv, Answering
    <3>6. Recorded(lines)' /\ Bridging' /\ Describing'
      BY <3>1 DEF SInv, Bridging, Describing, Serving
    <3> QED
      BY <3>5, <3>6 DEF Goal
  <2>2. ASSUME Named(account, c) = NoId PROVE Goal
    <3>1. PICK status \in {"Working", "Filled", "Rejected"} :
            Transact(Place(account, c, t, status), FALSE,
              {Answer(c, t, [order |-> Len(account.orders) + 1,
                             kind  |-> IF status = "Rejected" THEN "rejected" ELSE "accepted"])})
      BY <1>1, <2>2 DEF Submit
    <3> DEFINE p == Place(account, c, t, status)
               a == Answer(c, t, [order |-> Len(account.orders) + 1,
                                  kind  |-> IF status = "Rejected" THEN "rejected" ELSE "accepted"])
    <3>2. status \in Statuses
      BY DEF Statuses
    <3>3. Moved(account, p)
      BY <1>1, <2>0, <3>2, PlaceMoves
    <3>4. a \in Replies /\ Stands(a, p)
      BY <1>1, <2>0, <2>2, <3>2, PlaceStands
    <3> HIDE DEF a, p
    <3> DEFINE told == {a}
               quiet == FALSE
    <3>5. /\ \A b \in told : b \in Replies /\ Stands(b, p)
          /\ quiet \in BOOLEAN
      BY <3>4
    <3>6. quiet => told = {}
      OBVIOUS
    <3>7. Transact(p, quiet, told)
      BY <3>1 DEF a, p
    <3> HIDE DEF told, quiet
    <3> QED
      BY <3>3, <3>5, <3>6, <3>7, TransactBridges DEF Goal
  <2> QED
    BY <2>1, <2>2
<1>2. ASSUME NEW effect, NEW quiet \in BOOLEAN, Serving => Moved(account, effect), Transact(effect, quiet, {})
      PROVE  Goal
  <2>1. Serving
    BY <1>2 DEF Transact
  <2> QED
    BY <1>2, <2>1, TransactBridges DEF Goal
<1>3. ASSUME NEW id \in Ids(account), Cancel(id) PROVE Goal
  <2>1. Serving => Moved(account, [account EXCEPT !.orders[id].status = "Cancelled"])
    BY <1>0, <1>3, StatusMoves DEF Cancel, Ids
  <2> QED
    BY <1>2, <1>3, <2>1 DEF Cancel
<1>4. ASSUME NEW id \in Ids(account), NEW t \in Terms \ Chained, Modify(id, t) PROVE Goal
  <2>1. Serving => Moved(account, [account EXCEPT !.orders[id].request = t,
                                                  !.orders[id].submitted = Submission(account.orders[id])])
    BY <1>0, <1>4, ModifyMoves DEF Modify, Ids
  <2> QED
    BY <1>2, <1>4, <2>1 DEF Modify
<1>5. Serving => Moved(account, account)
  <2> SUFFICES ASSUME Serving PROVE Moved(account, account)
    OBVIOUS
  <2>1. Kempt(account) /\ Len(account.orders) \in Nat /\ Len(account.starts) \in Nat
    BY <1>0, Parts
  <2> QED
    BY <2>1, GrownSelf DEF Moved
<1>6. ASSUME Refused PROVE Goal
  BY <1>2, <1>5, <1>6 DEF Refused
<1>7. ASSUME Market PROVE Goal
  <2>1. ASSUME NEW id \in OpenIds(account), NEW status \in {"Filled", "Cancelled"},
               Transact([account EXCEPT !.orders[id].status = status], FALSE, {})
        PROVE  Goal
    <3>1. id \in 1 .. Len(account.orders) /\ Open(account.orders[id])
      BY DEF OpenIds, Ids
    <3>2. Serving => Moved(account, [account EXCEPT !.orders[id].status = status])
      BY <1>0, <3>1, StatusMoves
    <3> QED
      BY <1>2, <2>1, <3>2
  <2>2. ASSUME Transact(account, TRUE, {}) PROVE Goal
    BY <1>2, <1>5, <2>2
  <2> QED
    BY <1>7, <2>1, <2>2 DEF Market
<1>8. ASSUME Reset PROVE Goal
  <2> DEFINE Ended(o) == IF Open(o) THEN [o EXCEPT !.status = "Cancelled"] ELSE o
             fresh == [account EXCEPT !.orders = <<>> \o [i \in 1 .. Len(@) |-> Ended(@[i])],
                                      !.starts = Append(@, Len(account.orders) + 1)]
  <2>1. Serving => Moved(account, fresh)
    BY <1>0, ResetMoves
  <2>2. Transact(fresh, FALSE, {})
    BY <1>8 DEF Reset
  <2> HIDE DEF fresh
  <2> QED
    BY <1>2, <2>1, <2>2
<1>9. ASSUME NEW c \in Submissions, Submit(c[1], c[2]) PROVE Goal
  <2>1. c[1] \in Clients /\ c[2] \in Terms /\ (c[2] \in Chained => c[1] \in DOMAIN ChildOf)
    BY DEF Submissions
  <2> QED
    BY <1>1, <1>9, <2>1
<1>10. Goal
  BY <1>3, <1>4, <1>6, <1>7, <1>8, <1>9
<1> QED
  BY <1>10 DEF Goal

\* What recovery loads is whole, and records as the state it was loaded from.
LEMMA LoadedWhole ==
  ASSUME NEW c \in CoreState, Orderly(c)
  PROVE  Whole(Loaded(c)) /\ Core(Loaded(c)) = c
<1> DEFINE t == Loaded(c)
<1>0. c.time \in Nat /\ c.version \in Nat /\ c.orders \in Seq(Order) /\ c.starts \in Seq(Nat) /\ Len(c.orders) \in Nat
  BY DEF CoreState
<1>1. /\ t.time = c.time /\ t.version = c.version /\ t.orders = c.orders /\ t.starts = c.starts
      /\ t.clients = [d \in Clients |-> FirstNamed(c, d)]
      /\ t.working = {i \in 1 .. Len(c.orders) : Open(c.orders[i])} /\ t.indexed = Len(c.orders)
      /\ t = [f \in Fields |-> t[f]]
  BY DEF Loaded, Fields
<1>2. Core(t) = c
  BY <1>1 DEF Core, CoreState
<1> HIDE DEF t
<1>3. t.clients \in [Clients -> Nat]
  BY <1>1, NamedNow
<1>4. t \in State
  <2>1. t.working \subseteq Nat /\ t.indexed \in Nat
    BY <1>0, <1>1
  <2>2. t = [f \in Fields |-> t[f]] /\ t.time \in Nat /\ t.version \in Nat /\ t.orders \in Seq(Order) /\ t.starts \in Seq(Nat)
    BY <1>0, <1>1
  <2> QED
    BY <1>3, <2>1, <2>2, StateTyped
<1>5. \A d : FirstNamed(t, d) = FirstNamed(c, d)
  <2>1. t.orders = c.orders /\ t.starts = c.starts
    BY <1>1
  <2> QED
    BY <2>1, Zenon DEF FirstNamed
<1>6. Orderly(t)
  BY <1>0, <1>1 DEF Orderly
<1>7. NamesFirst(t)
  BY <1>1, <1>5 DEF NamesFirst
<1>8. Watched(t)
  BY <1>0, <1>1 DEF Watched
<1>9. t = Loaded(t)
  <2>1. t.clients = [d \in Clients |-> FirstNamed(t, d)]
    BY <1>1, <1>5
  <2>2. t.working = {i \in 1 .. Len(t.orders) : Open(t.orders[i])} /\ t.indexed = Len(t.orders)
    BY <1>1
  <2> QED
    BY <1>1, <2>1, <2>2 DEF Loaded, Fields
<1> QED
  BY <1>2, <1>4, <1>6, <1>7, <1>8, <1>9 DEF Whole, Kempt, t

LEMMA FreshWhole == Whole(Fresh) /\ Fresh.time = 0
<1> DEFINE c == [time |-> 0, version |-> 0, orders |-> <<>>, starts |-> <<1>>]
<1>1. /\ c.time = 0 /\ c.version = 0 /\ c.orders = <<>> /\ c.starts = <<1>>
      /\ c.orders \in Seq(Order) /\ c.starts \in Seq(Nat) /\ Len(c.starts) = 1 /\ c.starts[1] = 1 /\ Len(c.orders) = 0
  OBVIOUS
<1>2. c \in CoreState
  BY <1>1 DEF CoreState
<1>3. \A d : FirstNamed(c, d) = NoId /\ FirstNamed(NoState, d) = NoId
  BY DEF FirstNamed, NoState
<1>4. Fresh = Loaded(c)
  <2> DEFINE named == [d \in Clients |-> FirstNamed(NoState, d)]
             open == {i \in 1 .. Len(<<>>) : Open(<<>>[i])}
  <2>1. [d \in Clients |-> FirstNamed(c, d)] = named
    BY <1>3
  <2>2. Loaded(c) = [time |-> 0, version |-> 0, orders |-> <<>>, starts |-> <<1>>,
                     clients |-> [d \in Clients |-> FirstNamed(c, d)], working |-> open, indexed |-> Len(<<>>)]
    BY <1>1 DEF Loaded
  <2>3. Loaded(NoState) = [time |-> 0, version |-> 0, orders |-> <<>>, starts |-> <<>>,
                           clients |-> named, working |-> open, indexed |-> Len(<<>>)]
    BY DEF Loaded, NoState
  <2> HIDE DEF c, named, open
  <2>4. Fresh = [time |-> 0, version |-> 0, orders |-> <<>>, starts |-> <<1>>,
                 clients |-> named, working |-> open, indexed |-> Len(<<>>)]
    BY <2>3 DEF Fresh
  <2> QED
    BY <2>1, <2>2, <2>4
<1>5. Orderly(c)
  <2> HIDE DEF c
  <2>1. \A n \in 1 .. Len(c.starts) : n = 1
    BY <1>1
  <2>2. \A i \in 1 .. Len(c.orders) : FALSE
    BY <1>1
  <2> QED
    BY <1>1, <2>1, <2>2 DEF Orderly
<1>6. Fresh.time = 0
  BY <1>4 DEF Loaded
<1> HIDE DEF c
<1> QED
  BY <1>2, <1>4, <1>5, <1>6, LoadedWhole

\* What stands behind some lines stands behind more.
LEMMA StandsBehind ==
  ASSUME NEW ls, Recorded(ls), NEW m \in 0 .. Len(ls), NEW n \in 0 .. Len(ls), m <= n, NEW a, Stands(a, Behind(ls, m))
  PROVE  Stands(a, Behind(ls, n))
<1>1. IsSeq(ls) /\ Len(ls) \in Nat
  BY AppendIsSeq DEF Recorded
<1>2. ASSUME NEW k \in 0 .. Len(ls) PROVE Behind(ls, k).starts \in Seq(Nat) /\ Len(Behind(ls, k).orders) \in Nat
  <2>1. CASE k = 0
    <3>1. Behind(ls, k) = NoState
      BY <1>1, <2>1, BehindNone
    <3>2. NoState.starts = <<>> /\ NoState.orders = <<>> /\ Len(<<>>) = 0 /\ <<>> \in Seq(Nat)
      BY DEF NoState
    <3> QED
      BY <3>1, <3>2
  <2>2. CASE k # 0
    <3>1. k \in 1 .. Len(ls)
      BY <1>1, <2>2
    <3>2. Behind(ls, k) \in CoreState
      BY <3>1 DEF Recorded
    <3> QED
      BY <3>2 DEF CoreState
  <2> QED
    BY <2>1, <2>2
<1>3. Grown(Behind(ls, m), Behind(ls, n))
  BY DEF Recorded
<1> QED
  BY <1>2, <1>3, StandsOn

\* A session starts with an account to record, or with the one its lines describe.
LEMMA OpenBridges ==
  ASSUME SInv, Start \/ Recover \/ Repair
  PROVE  Recorded(lines)' /\ Bridging' /\ Describing' /\ Answering'
<1>0. IsSeq(lines) /\ Len(lines) \in Nat /\ Recorded(lines) /\ Answering
  BY AppendIsSeq DEF SInv, Recorded
<1>1. CASE Start
  <2> DEFINE first == [Fresh EXCEPT !.version = 1]
  <2>1. Whole(Fresh) /\ Fresh.time = 0
    BY FreshWhole
  <2>2. Whole(first) /\ first.time = 0
    BY <2>1, NumberedMoves
  <2> HIDE DEF first
  <2>3. /\ tx' = [next |-> first, answers |-> {}, step |-> "writing",
                  line |-> [seq |-> 1, time |-> 0, whole |-> TRUE, data |-> Core(first)]]
        /\ lines = <<>> /\ UNCHANGED <<lines, durable, answers>>
    BY <1>1 DEF Start, first, file
  <2>4. /\ "step" \in DOMAIN tx' /\ tx'.step = "writing" /\ tx'.next = first /\ tx'.answers = {}
        /\ tx'.line.time = 0 /\ tx'.line.whole = TRUE /\ tx'.line.data = Core(first)
    BY <2>3
  <2>5. tx' # None
    BY <2>4, RecordIsSome
  <2>6. Walk(lines) = NoState
    <3>1. Len(lines) = 0
      BY <2>3
    <3> QED
      BY <1>0, <3>1, BehindAll, BehindNone
  <2>7. Grown(NoState, first)
    <3>1. Orderly(first) /\ first.orders \in Seq(Order) /\ first.starts \in Seq(Nat)
      BY <2>2, Parts DEF Whole
    <3>2. \A n \in 1 .. Len(first.starts) : 0 < first.starts[n]
      BY <3>1 DEF Orderly
    <3> QED
      BY <3>1, <3>2, GrownFromNothing
  <2>8. Bridging'
    BY <2>2, <2>3, <2>4, <2>6, <2>7 DEF Bridging, Extended
  <2>9. Describing' /\ Answering' /\ Recorded(lines)'
    BY <1>0, <2>3, <2>5 DEF Describing, Serving, Answering
  <2> QED
    BY <2>8, <2>9
<1>2. CASE Recover
  <2>1. /\ lines # <<>> /\ account' = Loaded(Walk(lines)) /\ UNCHANGED <<stopped, tx, lines, durable, answers>>
    BY <1>2 DEF Recover, file
  <2>2. Len(lines) > 0
    <3>1. PICK S : lines \in Seq(S)
      BY <1>0 DEF IsSeq
    <3> QED
      BY <2>1, <3>1
  <2>3. Walk(lines) \in CoreState /\ Orderly(Walk(lines))
    <3>1. Len(lines) \in 1 .. Len(lines)
      BY <1>0, <2>2
    <3>2. Behind(lines, Len(lines)) \in CoreState /\ Orderly(Behind(lines, Len(lines)))
      BY <1>0, <3>1 DEF Recorded
    <3> QED
      BY <1>0, <3>2, BehindAll
  <2>4. Whole(account') /\ Core(account') = Walk(lines)
    BY <2>1, <2>3, LoadedWhole
  <2>5. Describing'
    BY <2>1, <2>2, <2>4 DEF Describing
  <2>6. Bridging' /\ Answering' /\ Recorded(lines)'
    BY <2>1 DEF SInv, Bridging, Answering
  <2> QED
    BY <2>5, <2>6
<1>3. CASE Repair
  <2>1. durable' = Len(lines) /\ UNCHANGED <<process, account, stopped, tx, lines, answers>>
    BY <1>3 DEF Repair
  <2>2. \A a \in answers : a \in Replies /\ Stands(a, Behind(lines, Len(lines)))
    <3>1. durable \in 0 .. Len(lines) /\ Len(lines) \in 0 .. Len(lines) /\ durable <= Len(lines)
      BY <1>0 DEF Answering
    <3> QED
      BY <1>0, <3>1, StandsBehind DEF Answering
  <2>3. Answering'
    BY <1>0, <2>1, <2>2 DEF Answering
  <2>4. Bridging' /\ Describing' /\ Recorded(lines)'
    BY <2>1 DEF SInv, Bridging, Describing, Serving
  <2> QED
    BY <2>3, <2>4
<1> QED
  BY <1>1, <1>2, <1>3

\* The steps of a commit carry the transaction into the lines, the safe lines and the account.
LEMMA CommitBridges ==
  ASSUME SInv, WriteLine \/ SyncLine \/ Publish \/ AppendFails
  PROVE  Recorded(lines)' /\ Bridging' /\ Describing' /\ Answering'
<1>0. /\ IsSeq(lines) /\ Len(lines) \in Nat /\ Recorded(lines) /\ Bridging /\ Answering
      /\ durable \in 0 .. Len(lines)
  BY AppendIsSeq DEF SInv, Recorded, Answering
<1>1. CASE WriteLine
  <2>1. /\ tx # None /\ tx.step = "writing" /\ lines' = Append(lines, tx.line)
        /\ tx' = [tx EXCEPT !.step = "syncing"] /\ UNCHANGED <<durable, answers>>
    BY <1>1 DEF WriteLine, At, Step
  <2>2. /\ DOMAIN tx = {"next", "answers", "step", "line"} /\ tx.next.version = tx.line.seq
    BY <2>1 DEF SInv, VInv, Committing
  <2>3. /\ Whole(tx.next) /\ tx.line.time = tx.next.time
        /\ Extended(Walk(lines), tx.line) = Core(tx.next) /\ Grown(Walk(lines), tx.next)
        /\ Len(lines) = 0 => tx.line.whole
        /\ \A a \in tx.answers : a \in Replies /\ Stands(a, tx.next)
    BY <1>0, <2>1 DEF Bridging
  <2>4. /\ "step" \in DOMAIN tx' /\ tx'.step = "syncing" /\ tx'.line = tx.line /\ tx'.next = tx.next
        /\ tx'.answers = tx.answers
    BY <2>1, <2>2
  <2>5. tx' # None
    BY <2>4, RecordIsSome
  <2> DEFINE next == Core(tx.next)
  <2>6. next \in CoreState /\ Orderly(next) /\ Grown(Walk(lines), next)
    <3>1. tx.next \in State /\ Orderly(tx.next)
      BY <2>3, Parts DEF Whole
    <3> QED
      BY <2>3, <3>1, CoreTyped, CoreAlike
  <2>7. next.version = tx.line.seq /\ next.time = tx.line.time
    BY <2>2, <2>3 DEF Core
  <2>8. Len(lines) = 0 => tx.line.whole
    BY <2>3
  <2>9. Extended(Walk(lines), tx.line) = next
    BY <2>3
  <2> HIDE DEF next
  <2>10. /\ Recorded(lines') /\ Len(lines') = Len(lines) + 1 /\ Walk(lines') = next
         /\ \A n \in 0 .. Len(lines) : Behind(lines', n) = Behind(lines, n)
    BY <1>0, <2>1, <2>6, <2>7, <2>8, <2>9, RecordedAppend
  <2>11. Bridging'
    BY <1>0, <2>3, <2>4, <2>10 DEF Bridging, next
  <2>12. Answering'
    <3>1. durable \in 0 .. Len(lines') /\ Behind(lines', durable) = Behind(lines, durable)
      BY <1>0, <2>10
    <3> QED
      BY <1>0, <2>1, <3>1 DEF Answering
  <2>13. Describing' /\ Recorded(lines)'
    BY <2>5, <2>10 DEF Describing, Serving
  <2> QED
    BY <2>11, <2>12, <2>13
<1>2. CASE SyncLine
  <2>1. /\ tx # None /\ tx.step = "syncing" /\ durable' = Len(lines)
        /\ tx' = [tx EXCEPT !.step = "publishing"] /\ UNCHANGED <<lines, answers>>
    BY <1>2 DEF SyncLine, At, Step
  <2>2. DOMAIN tx = {"next", "answers", "step", "line"}
    BY <2>1 DEF SInv, VInv, Committing
  <2>3. /\ "step" \in DOMAIN tx' /\ tx'.step = "publishing" /\ tx'.line = tx.line /\ tx'.next = tx.next
        /\ tx'.answers = tx.answers
    BY <2>1, <2>2
  <2>4. tx' # None
    BY <2>3, RecordIsSome
  <2>5. Bridging'
    BY <1>0, <2>1, <2>3 DEF Bridging
  <2>6. Answering'
    <3>1. Len(lines) \in 0 .. Len(lines) /\ durable <= Len(lines)
      BY <1>0
    <3>2. \A a \in answers : a \in Replies /\ Stands(a, Behind(lines, Len(lines)))
      BY <1>0, <3>1, StandsBehind DEF Answering
    <3> QED
      BY <2>1, <3>1, <3>2 DEF Answering
  <2>7. Describing' /\ Recorded(lines)'
    BY <1>0, <2>1, <2>4 DEF Describing, Serving
  <2> QED
    BY <2>5, <2>6, <2>7
<1>3. CASE Publish
  <2>1. /\ tx # None /\ tx.step = "publishing" /\ account' = tx.next /\ tx' = None
        /\ answers' = answers \cup tx.answers /\ UNCHANGED <<lines, durable>>
    BY <1>3 DEF Publish, Publishable, file
  <2>2. /\ Whole(tx.next) /\ Len(lines) > 0 /\ Walk(lines) = Core(tx.next) /\ durable = Len(lines)
        /\ \A a \in tx.answers : a \in Replies /\ Stands(a, tx.next)
    BY <1>0, <2>1 DEF Bridging
  <2>3. Behind(lines, durable) = Core(tx.next)
    BY <1>0, <2>2, BehindAll
  <2>4. Answering'
    <3>1. \A a \in tx.answers : a \in Replies /\ Stands(a, Behind(lines, durable))
      BY <2>2, <2>3, CoreAlike
    <3> QED
      BY <1>0, <2>1, <3>1 DEF Answering
  <2>5. Describing' /\ Bridging' /\ Recorded(lines)'
    BY <1>0, <2>1, <2>2 DEF Describing, Bridging
  <2> QED
    BY <2>4, <2>5
<1>4. CASE AppendFails
  <2>1. tx' = None /\ UNCHANGED <<lines, durable, answers>> /\ (process' = "down" \/ stopped' = TRUE)
    BY <1>4 DEF AppendFails, Down
  <2> QED
    BY <1>0, <2>1 DEF Describing, Serving, Bridging, Answering
<1> QED
  BY <1>1, <1>2, <1>3, <1>4

\* What a crash or a power loss leaves is a journal that holds what was answered.
LEMMA CrashBridges ==
  ASSUME SInv, Crash \/ PowerLoss
  PROVE  Recorded(lines)' /\ Bridging' /\ Describing' /\ Answering'
<1>0. /\ IsSeq(lines) /\ Len(lines) \in Nat /\ Recorded(lines) /\ Answering
      /\ durable \in 0 .. Len(lines)
  BY AppendIsSeq DEF SInv, Recorded, Answering
<1>1. tx' = None /\ process' = "down" /\ answers' = answers
  BY DEF Crash, PowerLoss, Down
<1>2. Bridging' /\ Describing'
  BY <1>1 DEF Bridging, Describing, Serving
<1>3. CASE Crash
  <2>1. UNCHANGED <<lines, durable, answers>>
    BY <1>3 DEF Crash
  <2> QED
    BY <1>0, <1>2, <2>1 DEF Answering
<1>4. CASE PowerLoss
  <2>1. durable' \in durable .. Len(lines) /\ lines' = SubSeq(lines, 1, durable')
    BY <1>4 DEF PowerLoss
  <2>2. durable' \in 0 .. Len(lines) /\ durable <= durable'
    BY <1>0, <2>1
  <2>3. /\ Recorded(lines') /\ Len(lines') = durable'
        /\ \A n \in 0 .. durable' : Behind(lines', n) = Behind(lines, n)
    BY <1>0, <2>1, <2>2, RecordedPrefix
  <2>4. \A a \in answers : a \in Replies /\ Stands(a, Behind(lines, durable'))
    BY <1>0, <2>2, StandsBehind DEF Answering
  <2>5. durable' \in 0 .. Len(lines') /\ Behind(lines', durable') = Behind(lines, durable')
    BY <2>2, <2>3
  <2>6. Answering'
    BY <1>1, <2>4, <2>5 DEF Answering
  <2> QED
    BY <1>2, <2>3, <2>6
<1> QED
  BY <1>3, <1>4

-----------------------------------------------------------------------------

LEMMA InitBridges == Init => SInv
<1> SUFFICES ASSUME Init PROVE SInv
  OBVIOUS
<1>1. /\ tx = None /\ process = "down" /\ lines = <<>> /\ durable = 0 /\ answers = {}
  BY DEF Init
<1>2. VInv
  BY InitVersions
<1>3. Bridging /\ Describing
  BY <1>1 DEF Bridging, Describing, Serving
<1>4. IsSeq(lines) /\ Len(lines) = 0
  BY <1>1, EmptyIsSeq
<1>5. Recorded(lines)
  <2>1. Behind(lines, 0) = NoState
    BY <1>4, BehindNone
  <2>2. Grown(NoState, NoState)
    BY GrownSelf DEF NoState
  <2>3. \A m \in 0 .. Len(lines) : m = 0
    BY <1>4
  <2>4. \A m \in 1 .. Len(lines) : FALSE
    BY <1>4
  <2> QED
    BY <1>4, <2>1, <2>2, <2>3, <2>4 DEF Recorded
<1>6. Answering
  BY <1>1, <1>4 DEF Answering
<1> QED
  BY <1>2, <1>3, <1>5, <1>6 DEF SInv

LEMMA NextBridges == SInv /\ [Next]_vars => SInv'
<1> SUFFICES ASSUME SInv, [Next]_vars PROVE SInv'
  OBVIOUS
<1>0. VInv'
  BY NextVersions DEF SInv
<1>1. CASE UNCHANGED vars
  BY <1>0, <1>1 DEF vars, file, SInv, Bridging, Describing, Answering, Serving
<1>2. CASE Start \/ Recover \/ Repair
  BY <1>0, <1>2, OpenBridges DEF SInv
<1>3. CASE WriteLine \/ SyncLine \/ Publish \/ AppendFails
  BY <1>0, <1>3, CommitBridges DEF SInv
<1>4. CASE Crash \/ PowerLoss
  BY <1>0, <1>4, CrashBridges DEF SInv
<1>5. CASE \/ \E c \in Submissions : Submit(c[1], c[2])
           \/ \E id \in Ids(account) : Cancel(id) \/ \E t \in Terms \ Chained : Modify(id, t)
           \/ Refused \/ Market \/ Reset
  BY <1>0, <1>5, CommandBridges DEF SInv
<1> QED
  BY <1>1, <1>2, <1>3, <1>4, <1>5 DEF Next

\* The journal, the account and the answers agree in every behaviour of a session.
THEOREM JournalInvariant == Spec => []SInv
  BY InitBridges, NextBridges, PTL DEF Spec

LEMMA InvRecovers == SInv => RecoveryExact
<1> SUFFICES ASSUME SInv PROVE RecoveryExact
  OBVIOUS
<1>0. IsSeq(lines) /\ Len(lines) \in Nat /\ Recorded(lines) /\ Describing
  BY AppendIsSeq DEF SInv, Recorded
<1>1. lines # <<>> => Walks(lines)
  <2> SUFFICES ASSUME lines # <<>> PROVE Walks(lines)
    OBVIOUS
  <2>1. Len(lines) > 0
    <3>1. PICK S : lines \in Seq(S)
      BY <1>0 DEF IsSeq
    <3> QED
      BY <3>1
  <2>2. lines[1].whole
    BY <1>0, <2>1 DEF Recorded
  <2>3. \A n \in 1 .. Len(lines) : LET s == Walk(SubSeq(lines, 1, n)) IN s.version = lines[n].seq /\ s.time = lines[n].time
    BY <1>0 DEF Recorded, Behind
  <2> QED
    BY <2>2, <2>3 DEF Walks
<1>2. Serving => lines # <<>> /\ Loaded(Walk(lines)) = account
  <2> SUFFICES ASSUME Serving PROVE lines # <<>> /\ Loaded(Walk(lines)) = account
    OBVIOUS
  <2>1. Len(lines) > 0 /\ Walk(lines) = Core(account) /\ account = Loaded(account)
    BY <1>0 DEF Describing, Whole
  <2>2. Loaded(Core(account)) = Loaded(account)
    BY CoreAlike
  <2>3. lines # <<>>
    BY <2>1
  <2> QED
    BY <2>1, <2>2, <2>3
<1> QED
  BY <1>1, <1>2 DEF RecoveryExact

LEMMA InvHolds == SInv => AnswersHold
<1> SUFFICES ASSUME SInv PROVE AnswersHold
  OBVIOUS
<1> DEFINE kept == Walk(SubSeq(lines, 1, durable))
<1>0. /\ IsSeq(lines) /\ Len(lines) \in Nat /\ Recorded(lines) /\ Describing
      /\ durable \in 0 .. Len(lines) /\ durable <= Len(lines) /\ Len(lines) \in 0 .. Len(lines)
  <2>1. IsSeq(lines) /\ Recorded(lines) /\ Describing /\ durable \in 0 .. Len(lines)
    BY DEF SInv, Recorded, Answering
  <2>2. Len(lines) \in Nat
    BY <2>1, AppendIsSeq
  <2> QED
    BY <2>1, <2>2
<1> SUFFICES ASSUME NEW a \in answers
             PROVE  /\ a.order \in 1 .. Len(kept.orders)
                    /\ LET o == kept.orders[a.order]
                       IN  /\ o.client = a.client /\ Submission(o) = a.terms
                           /\ AttemptOf(kept.starts, a.order) = a.attempt
                           /\ (a.kind = "rejected") <=> (o.status = "Rejected")
                    /\ Told(a) => /\ Named(account, a.client) # NoId
                                  /\ Answer(a.client, a.terms, Reply(a.client, a.terms)) = a
  BY DEF AnswersHold
<1>1. a \in Replies /\ Stands(a, Behind(lines, durable))
  BY DEF SInv, Answering
<1>2. Stands(a, kept)
  BY <1>1 DEF Behind
<1>3. Told(a) => /\ Named(account, a.client) # NoId
                 /\ Answer(a.client, a.terms, Reply(a.client, a.terms)) = a
  <2> SUFFICES ASSUME Told(a) PROVE /\ Named(account, a.client) # NoId
                                    /\ Answer(a.client, a.terms, Reply(a.client, a.terms)) = a
    OBVIOUS
  <2>1. Serving /\ a.attempt = Len(account.starts)
    BY DEF Told
  <2>2. Kempt(account) /\ Walk(lines) = Core(account)
    BY <1>0, <2>1 DEF Describing, Whole
  <2>3. Stands(a, Behind(lines, Len(lines)))
    BY <1>0, <1>1, StandsBehind
  <2>4. Stands(a, account)
    BY <1>0, <2>2, <2>3, BehindAll, CoreAlike
  <2> QED
    BY <1>1, <2>1, <2>2, <2>4, Repeats
<1> HIDE DEF kept
<1> QED
  BY <1>2, <1>3 DEF Stands

\* Whatever fails or crashes wherever, the lines rebuild the account that trades, with
\* the IDs and open orders no record carries (Impl::transact, walk_states, from_json).
THEOREM RecoveryAlwaysExact == Spec => []RecoveryExact
<1>1. SInv => RecoveryExact
  BY InvRecovers
<1> QED
  BY <1>1, JournalInvariant, PTL

\* What a client was told of an order stays true, and a repeated submission is told it
\* again (TradingSession::submit), through changes, fills, failed appends, crashes,
\* power losses and recoveries.
THEOREM AnswersAlwaysHold == Spec => []AnswersHold
<1>1. SInv => AnswersHold
  BY InvHolds
<1> QED
  BY <1>1, JournalInvariant, PTL

=============================================================================
