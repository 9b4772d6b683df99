------------------------------ MODULE Session ------------------------------
(***************************************************************************)
(* A live trading session and its journal (src/src/trading/session.cpp):   *)
(* how a command becomes a transaction, a transaction a line, a line a     *)
(* published state, and how a restarted process rebuilds that state from   *)
(* the lines.  A client retries whatever it has no answer to.              *)
(*                                                                         *)
(* `account' is the session's State as far as identity reaches it: the     *)
(* orders with the client IDs and terms that name them, where attempts     *)
(* begin, the time and version, and the derived fields no record carries.  *)
(* The order reducer itself is the module Orders; here an order is         *)
(* accepted or refused, and filled, changed or ended, as it may be.        *)
(*                                                                         *)
(* Live accounts sync each line before it is published.  FileJournal has   *)
(* the steps of an append; here they are its outcomes.                     *)
(***************************************************************************)
EXTENDS Integers, FiniteSetsExt, SequencesExt

CONSTANTS
  Clients,          \* client order IDs, those of chained children included
  ChildOf,          \* the ID a chained order's child takes, for IDs that may chain
  Terms, Chained,   \* the terms of an order, and those that chain a child
  ChildTerms,       \* the child's own terms
  CheckpointEvery,  \* kCheckpointEvery
  MaxTime,          \* bound: market time
  MaxOrders,        \* bound: no command begins with this many orders
  MaxAttempts,      \* bound: evaluation attempts
  MaxLines,         \* bound: journal lines
  MaxRestarts       \* bound: crashes and power losses

NoTerms == "as submitted"

ASSUME SessionAssumption ==
  /\ NoTerms \notin Terms
  /\ Chained \subseteq Terms /\ ChildTerms \in Terms \ Chained
  /\ DOMAIN ChildOf \subseteq Clients /\ \A c \in DOMAIN ChildOf : ChildOf[c] \in Clients
  /\ CheckpointEvery \in Nat \ {0}
  /\ {MaxTime, MaxOrders, MaxAttempts, MaxLines, MaxRestarts} \subseteq Nat

VARIABLES
  process,    \* down, starting (in the constructor), up
  account,    \* Impl::state, and so the published snapshot
  stopped,    \* Impl::stopped
  recorder,   \* ChangeRecorder: based_ and since_
  tx,         \* the transaction being committed
  lines, torn, durable,  \* the journal file, as in FileJournal
  answers,    \* history: what clients were told of the orders they submitted, by a
              \* process whose lines were all synced
  restarts    \* history: crashes and power losses

file == <<lines, torn, durable>>
vars == <<process, account, stopped, recorder, tx, file, answers, restarts>>

None == <<>>
NoId == 0

-----------------------------------------------------------------------------
(* Orders and the IDs that name them *)

NewOrder(c, t, status) ==
  [client |-> c, request |-> t, submitted |-> NoTerms, status |-> status, chained |-> FALSE]

\* Mutation: the terms are compared as they stand.
SubmissionNow(o) == o.request
\* The terms a retry must repeat to be answered with this order.
Submission(o) == IF o.submitted = NoTerms THEN o.request ELSE o.submitted

FirstOrder(s) == s.starts[Len(s.starts)]
AttemptOf(starts, id) == Cardinality({n \in 1 .. Len(starts) : starts[n] <= id})

\* The order this ID names in the current attempt.
Named(s, c) == IF s.clients[c] >= FirstOrder(s) THEN s.clients[c] ELSE NoId

\* add_order and the acceptance check: the first order of an attempt to use an ID
\* holds it, and another one under it is recorded refused.
Place(s, c, t, status) ==
  LET id == Len(s.orders) + 1
      free == Named(s, c) = NoId
  IN  [s EXCEPT !.clients[c] = IF free THEN id ELSE @,
                !.orders = Append(@, NewOrder(c, t, IF free THEN status ELSE "Rejected"))]

Open(o) == o.status = "Working"
Ids(s) == 1 .. Len(s.orders)
\* Those of the last index still open, and the open ones placed since.
OpenIds(s) == {i \in Ids(s) : Open(s.orders[i]) /\ (i \in s.working \/ i > s.indexed)}
Reindexed(s) == [s EXCEPT !.working = OpenIds(s), !.indexed = Len(s.orders)]

\* One-triggers-other: a filled order places the order chained to it, once.  A
\* transaction of the model fills at most one.
PlaceChained(s) ==
  LET due == {i \in Ids(s) : /\ i \in s.working \/ i > s.indexed
                             /\ s.orders[i].status = "Filled"
                             /\ s.orders[i].request \in Chained /\ ~s.orders[i].chained}
  IN  IF due = {} THEN s
      ELSE LET id == Min(due)
               placed == Place(s, ChildOf[s.orders[id].client], ChildTerms, "Working")
           IN  [placed EXCEPT !.orders[id].chained = TRUE]

-----------------------------------------------------------------------------
(* What a record says of a state, and what recovery makes of it *)

\* The journaled fields.
Core(s) == [time |-> s.time, version |-> s.version, orders |-> s.orders, starts |-> s.starts]
NoState == [time |-> 0, version |-> 0, orders |-> <<>>, starts |-> <<>>]

\* state_change: the fields that differ, and of the orders the ones that do.  It
\* is found before the version advances.
StateChange(before, after) ==
  [fields |-> [f \in {g \in {"time", "starts"} : before[g] # after[g]} |-> after[f]],
   orders |-> [i \in {j \in 1 .. Len(after.orders) :
                        j > Len(before.orders) \/ before.orders[j] # after.orders[j]}
               |-> after.orders[i]],
   size   |-> Len(after.orders)]
Unchanged(change) == DOMAIN change.fields = {} /\ DOMAIN change.orders = {}

\* ChangeRecorder::add: a change carries the new version besides.
Delta(change, version) ==
  [change EXCEPT !.fields = [f \in DOMAIN @ \cup {"version"} |-> IF f = "version" THEN version ELSE @[f]]]

Applied(s, delta) ==
  LET Field(f) == IF f \in DOMAIN delta.fields THEN delta.fields[f] ELSE s[f]
  IN  [time |-> Field("time"), version |-> Field("version"),
       orders |-> <<>> \o [i \in 1 .. delta.size |->
                             IF i \in DOMAIN delta.orders THEN delta.orders[i] ELSE s.orders[i]],
       starts |-> Field("starts")]

\* walk_states: the state the last record leaves.
Walk(ls) ==
  LET state[n \in 0 .. Len(ls)] ==
        IF n = 0 THEN NoState
        ELSE IF ls[n].whole THEN ls[n].data ELSE Applied(state[n - 1], ls[n].data)
  IN  state[Len(ls)]

\* walk_states refuses a change before any checkpoint, and a state that does not
\* carry its record's sequence and time.
Walks(ls) ==
  /\ ls[1].whole
  /\ \A n \in 1 .. Len(ls) :
       LET s == Walk(SubSeq(ls, 1, n)) IN s.version = ls[n].seq /\ s.time = ls[n].time

\* Mutation: an ID names the first order that ever used it.
FirstNamedEver(s, c) ==
  LET ids == {i \in 1 .. Len(s.orders) : s.orders[i].client = c}
  IN  IF ids = {} THEN NoId ELSE Min(ids)
\* from_json: an ID names the first order of the latest attempt that used it.
FirstNamed(s, c) ==
  LET ids == {i \in 1 .. Len(s.orders) : s.orders[i].client = c}
  IN  IF ids = {} THEN NoId
      ELSE Min({i \in ids : AttemptOf(s.starts, i) = AttemptOf(s.starts, Max(ids))})

\* from_json: the derived fields are rebuilt.
Loaded(s) ==
  [time |-> s.time, version |-> s.version, orders |-> s.orders, starts |-> s.starts,
   clients |-> [c \in Clients |-> FirstNamed(s, c)],
   working |-> {i \in 1 .. Len(s.orders) : Open(s.orders[i])},
   indexed |-> Len(s.orders)]

-----------------------------------------------------------------------------
(* Transactions *)

Fresh == [Loaded(NoState) EXCEPT !.starts = <<1>>]
Unbased == [based |-> FALSE, since |-> 0]

\* Between two commands of an account that trades.
Serving == process = "up" /\ ~stopped /\ tx = None

\* The record of a transaction and the recorder after it.  A change too large
\* beside the checkpoint is written whole, whatever the count says.
Recording(next, change, told) ==
  \E whole \in BOOLEAN :
    /\ whole \/ (recorder.based /\ recorder.since + 1 < CheckpointEvery)
    /\ recorder' = [based |-> TRUE, since |-> IF whole THEN 0 ELSE recorder.since + 1]
    /\ tx' = [next |-> next, answers |-> told, step |-> "writing",
              line |-> [seq |-> next.version, time |-> next.time, whole |-> whole,
                        data |-> IF whole THEN Core(next) ELSE Delta(change, next.version)]]

\* transact: the command's effect on a copy, the orders chained to what filled,
\* the index, then the record.  A command that did nothing leaves no record once
\* a checkpoint stands behind the next change.
Transact(effect, quiet, told) ==
  /\ Serving
  /\ \E time \in account.time .. MaxTime :
       LET next == Reindexed(PlaceChained([effect EXCEPT !.time = time]))
           change == StateChange(account, next)
       IN  IF recorder.based /\ quiet /\ Unchanged(change)
           THEN answers' = answers \cup told /\ UNCHANGED <<recorder, tx>>
           ELSE /\ Len(lines) < MaxLines
                /\ Recording([next EXCEPT !.version = @ + 1], change, told)
                /\ UNCHANGED answers
  /\ UNCHANGED <<process, account, stopped, file, restarts>>

\* The constructor: an empty journal gets the account's first record.
Start ==
  /\ process = "down" /\ lines = <<>> /\ ~torn
  /\ process' = "starting"
  /\ account' = Fresh /\ recorder' = [based |-> TRUE, since |-> 0]
  /\ LET first == [Fresh EXCEPT !.version = 1]
     IN  tx' = [next |-> first, answers |-> {}, step |-> "writing",
                line |-> [seq |-> 1, time |-> 0, whole |-> TRUE, data |-> Core(first)]]
  /\ UNCHANGED <<stopped, file, answers, restarts>>

\* recover: the account its lines describe, with a recorder that starts over.
Recover ==
  /\ process = "down" /\ lines # <<>> /\ ~torn
  /\ Walks(lines)
  /\ process' = "up"
  /\ account' = Loaded(Walk(lines)) /\ recorder' = Unbased
  /\ UNCHANGED <<stopped, tx, file, answers, restarts>>

-----------------------------------------------------------------------------
(* The commit: write, sync, publish *)

At(step) == tx # None /\ tx.step = step

Step(to) ==
  /\ tx' = [tx EXCEPT !.step = to]
  /\ UNCHANGED <<process, account, stopped, recorder, answers, restarts>>

WriteLine ==
  /\ At("writing")
  /\ lines' = Append(lines, tx.line) /\ torn' = FALSE
  /\ Step("syncing")
  /\ UNCHANGED durable

Publishable == tx.step = "publishing"

SyncLine ==
  /\ At("syncing")
  /\ durable' = Len(lines)
  /\ Step("publishing")
  /\ UNCHANGED <<lines, torn>>

\* Only now does the state move, and the client get its answer.
Publish ==
  /\ tx # None /\ Publishable
  /\ account' = tx.next /\ process' = "up" /\ tx' = None
  /\ answers' = answers \cup tx.answers
  /\ UNCHANGED <<stopped, recorder, file, restarts>>

Down ==
  /\ process' = "down" /\ account' = Fresh /\ stopped' = FALSE /\ recorder' = Unbased
  /\ tx' = None

\* The append throws with nothing, half of the line or all of it in the file:
\* the session stops, or never starts.
AppendFails ==
  /\ At("writing") \/ At("syncing")
  /\ torn' \in (IF At("writing") THEN BOOLEAN ELSE {torn})
  /\ IF process = "starting" THEN Down
     ELSE stopped' = TRUE /\ tx' = None /\ UNCHANGED <<process, account, recorder>>
  /\ UNCHANGED <<lines, durable, answers, restarts>>

\* The process dies; an append in progress may leave part of its line.
Crash ==
  /\ process # "down" /\ restarts < MaxRestarts
  /\ Down
  /\ torn' \in {torn} \cup (IF At("writing") THEN {TRUE} ELSE {})
  /\ restarts' = restarts + 1
  /\ UNCHANGED <<lines, durable, answers>>

\* The machine dies and keeps some prefix that holds what was synced.
PowerLoss ==
  /\ restarts < MaxRestarts
  /\ Down
  /\ durable' \in durable .. Len(lines) /\ lines' = SubSeq(lines, 1, durable')
  /\ torn' \in (IF torn \/ durable' < Len(lines) \/ At("writing") THEN BOOLEAN ELSE {FALSE})
  /\ restarts' = restarts + 1
  /\ UNCHANGED answers

\* The operator's repair cuts an unterminated line and syncs what is left.
Repair ==
  /\ process = "down" /\ torn
  /\ torn' = FALSE /\ durable' = Len(lines)
  /\ UNCHANGED <<process, account, stopped, recorder, tx, lines, answers, restarts>>

-----------------------------------------------------------------------------
(* Commands *)

Answer(c, t, reply) ==
  [attempt |-> Len(account.starts), client |-> c, terms |-> t, order |-> reply.order, kind |-> reply.kind]

\* What the session says of a submission whose ID this attempt has used.
Reply(c, t) ==
  LET id == Named(account, c)
      o == account.orders[id]
  IN  [order |-> id,
       kind  |-> IF Submission(o) # t THEN "duplicate"
                 ELSE IF o.status = "Rejected" THEN "rejected" ELSE "accepted"]

\* submit: an ID this attempt has used is answered with the order it names, and
\* nothing is recorded; a free one places an order.
Submit(c, t) ==
  /\ Serving
  /\ IF Named(account, c) # NoId
     THEN /\ Reply(c, t).kind # "duplicate" /\ durable = Len(lines)
          /\ answers' = answers \cup {Answer(c, t, Reply(c, t))}
          /\ UNCHANGED <<process, account, stopped, recorder, tx, file, restarts>>
     ELSE /\ Len(account.orders) < MaxOrders
          /\ \E status \in {"Working", "Filled", "Rejected"} :
               Transact(Place(account, c, t, status), FALSE,
                 {Answer(c, t, [order |-> Len(account.orders) + 1,
                                kind  |-> IF status = "Rejected" THEN "rejected" ELSE "accepted"])})

\* The desk asks its opening gate first, and submits nothing that the gate
\* refuses unless it takes it for a retry.
TakenForRetry(c, t) ==
  \E i \in Ids(account) : /\ i >= FirstOrder(account)
                          /\ account.orders[i].client = c /\ account.orders[i].request = t

\* An open order takes other terms of its kind, and keeps those it was submitted with.
Modify(id, t) ==
  /\ Open(account.orders[id]) /\ account.orders[id].request \notin Chained
  /\ Transact([account EXCEPT !.orders[id].request = t, !.orders[id].submitted = Submission(account.orders[id])],
       FALSE, {})

Cancel(id) ==
  /\ Open(account.orders[id])
  /\ Transact([account EXCEPT !.orders[id].status = "Cancelled"], FALSE, {})

\* A command refused for what it names is recorded all the same.
Refused == Transact(account, FALSE, {})

\* A quote batch: an open order fills or ends, or nothing but time moves.
Market ==
  \/ \E id \in OpenIds(account) : \E status \in {"Filled", "Cancelled"} :
       Transact([account EXCEPT !.orders[id].status = status], FALSE, {})
  \/ Transact(account, TRUE, {})

\* reset_account: open orders end with the attempt, and its IDs are free.
Reset ==
  /\ Len(account.starts) < MaxAttempts
  /\ LET Ended(o) == IF Open(o) THEN [o EXCEPT !.status = "Cancelled"] ELSE o
     IN  Transact([account EXCEPT
                     !.orders = <<>> \o [i \in 1 .. Len(@) |-> Ended(@[i])],
                     !.starts = Append(@, Len(account.orders) + 1)], FALSE, {})

-----------------------------------------------------------------------------

Init ==
  /\ process = "down" /\ account = Fresh /\ stopped = FALSE /\ recorder = Unbased
  /\ tx = None /\ lines = <<>> /\ torn = FALSE /\ durable = 0
  /\ answers = {} /\ restarts = 0

Submissions == {s \in Clients \X Terms : s[2] \in Chained => s[1] \in DOMAIN ChildOf}

Next ==
  \/ Start \/ Recover \/ Repair
  \/ WriteLine \/ SyncLine \/ Publish \/ AppendFails
  \/ Crash \/ PowerLoss
  \/ \E s \in Submissions : Submit(s[1], s[2])
  \/ \E id \in Ids(account) : Cancel(id) \/ \E t \in Terms \ Chained : Modify(id, t)
  \/ Refused \/ Market \/ Reset

Spec == Init /\ [][Next]_vars

-----------------------------------------------------------------------------
(* Properties *)

\* Whatever crashed or failed wherever, the lines describe an account, and while
\* the session trades they describe the very one in memory: the orders, times and
\* attempts the records carry and the IDs and open orders recovery derives.
RecoveryExact ==
  /\ lines # <<>> => Walks(lines)
  /\ Serving => lines # <<>> /\ Loaded(Walk(lines)) = account

\* An account that trades has as many versions as its journal has records, and
\* each record the number of its version: no transition is shown that was not
\* recorded, and none recorded that was not shown.
VersionCountsLines ==
  /\ \A n \in 1 .. Len(lines) : lines[n].seq = n
  /\ Serving => account.version = Len(lines)

Told(a) == Serving /\ a.attempt = Len(account.starts)

\* What a client was told of an order stays true: the synced lines alone describe
\* the order with its ID, its terms, its attempt and whether it was refused, and a
\* client that repeats the submission is told it again, through changes, fills,
\* crashes, failed appends and power losses.
AnswersHold ==
  LET kept == Walk(SubSeq(lines, 1, durable))
  IN  \A a \in answers :
        /\ a.order \in 1 .. Len(kept.orders)
        /\ LET o == kept.orders[a.order]
           IN  /\ o.client = a.client /\ Submission(o) = a.terms
               /\ AttemptOf(kept.starts, a.order) = a.attempt
               /\ (a.kind = "rejected") <=> (o.status = "Rejected")
        /\ Told(a) => Named(account, a.client) # NoId /\ Answer(a.client, a.terms, Reply(a.client, a.terms)) = a

=============================================================================
