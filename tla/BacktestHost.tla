----------------------------- MODULE BacktestHost -----------------------------
(***************************************************************************)
(* Batch backtests (src/src/server/backtest_host.cpp): one job at a time   *)
(* on a worker thread, each in a directory of its own that outlives the    *)
(* server, with pins, retention of the newest, deletion and restarts.      *)
(*                                                                         *)
(* Requests and the worker's callbacks hold one mutex, so each is a step.  *)
(* A file is written aside, synced and renamed (backtest.cpp:784): whole   *)
(* or not at all, and it may fail.  A run's directory is Missing, Bare     *)
(* (without its state) or holds [status, keep].  What a job computes is    *)
(* not modelled, only how it ends.                                         *)
(***************************************************************************)
EXTENDS Integers, FiniteSetsExt

CONSTANTS
  MaxRuns,    \* bound: runs started
  Keep,       \* finished unpinned runs retained; 0 keeps all
  MaxStops,   \* bound: crashes and orderly stops
  MaxFailures \* bound: writes and removals that fail

VARIABLES
  sequence, \* sequence.json: the next run's number
  saved,    \* each run's directory
  current,  \* the run in memory: [id, status, keep], or NoRun
  running,  \* a job is running
  cancel,   \* it was told to stop
  job,      \* where its thread is: "none", "starting", "working", or how it ended
  up,       \* the server runs, "leaving" while its destructor joins the worker
  pinned,   \* runs whose pin was answered and not released or deleted since
  held,     \* those of them that were saved when it was answered
  started,  \* runs whose start was answered
  reused,   \* a start answered an earlier run's number
  stops, failures

vars == <<sequence, saved, current, running, cancel, job, up, pinned, held, started, reused, stops, failures>>

Ids == 1..MaxRuns
Missing == [status |-> "missing", keep |-> FALSE]
Bare == [status |-> "bare", keep |-> FALSE]
NoRun == [id |-> 0, status |-> "none", keep |-> FALSE]
IsSaved(id) == saved[id] \notin {Missing, Bare}
FinishedStatus == {"completed", "cancelled", "failed", "interrupted"}

\* What a listing reads: the run in memory, or its file, whose run died with its server.
Read(id) ==
  IF current.id = id THEN [status |-> current.status, keep |-> current.keep]
  ELSE [saved[id] EXCEPT !.status = IF @ \in {"running", "cancelling"} THEN "interrupted" ELSE @]
Removable == {id \in Ids : IsSaved(id) /\ Read(id).status \in FinishedStatus /\ ~Read(id).keep}
\* The oldest finished unpinned runs beyond the limit.
Outdated ==
  IF Keep = 0 THEN {}
  ELSE {id \in Removable : Cardinality({r \in Removable : r > id}) >= Keep}
Purged(ids) ==
  /\ saved' = [id \in Ids |-> IF id \in ids THEN Missing ELSE saved[id]]
  /\ pinned' = pinned \ ids /\ held' = held \ ids

Init ==
  /\ sequence = 1 /\ saved = [id \in Ids |-> Missing] /\ current = NoRun
  /\ running = FALSE /\ cancel = FALSE /\ job = "none" /\ up = "up"
  /\ pinned = {} /\ held = {} /\ started = {} /\ reused = FALSE /\ stops = 0 /\ failures = 0

Fails == failures < MaxFailures /\ failures' = failures + 1
Number == Max({sequence} \union {id + 1 : id \in {r \in Ids : saved[r] # Missing}})
\* POST: the number is taken on disk first, then old runs make room.
Post ==
  /\ up = "up" /\ ~running /\ Number \in Ids
  /\ sequence' = Number + 1
  /\ Purged(Outdated) /\ cancel' = FALSE
  /\ \/ /\ current' = [id |-> Number, status |-> "running", keep |-> FALSE]
        /\ running' = TRUE /\ job' = "starting"
        /\ started' = started \union {Number} /\ reused' = (reused \/ Number \in started)
        /\ UNCHANGED failures
     \* no thread for it
     \/ /\ Fails /\ current' = [id |-> Number, status |-> "failed", keep |-> FALSE]
        /\ UNCHANGED <<running, job, started, reused>>
  /\ UNCHANGED <<up, stops>>
\* A removal fails, half done: the number is spent and nothing starts.
PostFails ==
  /\ up = "up" /\ ~running /\ Number \in Ids /\ Outdated # {} /\ Fails
  /\ sequence' = Number + 1
  /\ \E id \in Outdated :
       LET gone == {r \in Outdated : r < id} IN
       /\ saved' = [r \in Ids |-> IF r \in gone THEN Missing ELSE IF r = id THEN Bare ELSE saved[r]]
       /\ current' = IF current.id \in gone THEN NoRun ELSE current
  /\ UNCHANGED <<running, cancel, job, up, pinned, held, started, reused, stops>>

\* DELETE of the running job.
CancelRun ==
  /\ up = "up" /\ running
  /\ cancel' = TRUE /\ current' = [current EXCEPT !.status = "cancelling"]
  /\ UNCHANGED <<sequence, saved, running, job, up, pinned, held, started, reused, stops, failures>>
\* DELETE with purge, of a finished run; or it fails half way.
Purge(id) ==
  /\ up = "up" /\ ~(running /\ current.id = id)
  /\ IsSaved(id) /\ Read(id).status \in FinishedStatus
  /\ \/ /\ Purged({id}) /\ current' = IF current.id = id THEN NoRun ELSE current
        /\ UNCHANGED failures
     \/ /\ Fails /\ saved' = [saved EXCEPT ![id] = Bare]
        /\ pinned' = pinned \ {id} /\ held' = held \ {id} /\ UNCHANGED current
  /\ UNCHANGED <<sequence, running, cancel, job, up, started, reused, stops>>

\* What an answered PUT promises.
Promised(id, keep) ==
  /\ pinned' = IF keep THEN pinned \union {id} ELSE pinned \ {id}
  /\ held' = IF keep /\ saved'[id] \notin {Missing, Bare} THEN held \union {id} ELSE held \ {id}
\* Mutation: the pin of the run in memory waits for the job's next progress.
PutCurrentLater(id, keep) ==
  /\ current' = [current EXCEPT !.keep = keep] /\ UNCHANGED saved
\* PUT on the run in memory: its file first, when it has a directory.
PutCurrent(id, keep) ==
  /\ saved' = IF saved[id] = Missing THEN saved ELSE [saved EXCEPT ![id] = [status |-> current.status, keep |-> keep]]
  /\ current' = [current EXCEPT !.keep = keep]
\* PUT on a run of an earlier job or server.
PutSaved(id, keep) ==
  /\ IsSaved(id) /\ saved' = [saved EXCEPT ![id] = [status |-> Read(id).status, keep |-> keep]]
  /\ UNCHANGED current
Put(id, keep) ==
  /\ up = "up" /\ IF current.id = id THEN PutCurrent(id, keep) ELSE PutSaved(id, keep)
  /\ Promised(id, keep)
  /\ UNCHANGED <<sequence, running, cancel, job, up, started, reused, stops, failures>>

-----------------------------------------------------------------------------
(* The worker *)

Write(id) == saved' = [saved EXCEPT ![id] = [status |-> current.status, keep |-> current.keep]]
WorkerSame == UNCHANGED <<sequence, up, pinned, held, started, reused, stops>>
\* run_backtest makes the directory, which must be new, and reports its first progress.
MakeDirectory ==
  /\ job = "starting"
  /\ \/ saved[current.id] = Missing /\ saved' = [saved EXCEPT ![current.id] = Bare] /\ job' = "working" /\ UNCHANGED failures
     \/ saved[current.id] # Missing /\ job' = "failed" /\ UNCHANGED <<saved, failures>>
     \/ Fails /\ job' = "failed" /\ UNCHANGED saved
  /\ UNCHANGED <<current, running, cancel>> /\ WorkerSame
Progress ==
  /\ job = "working"
  /\ \/ Write(current.id) /\ UNCHANGED <<job, failures>>
     \/ Fails /\ job' = "failed" /\ UNCHANGED saved
  /\ UNCHANGED <<current, running, cancel>> /\ WorkerSame
Compute ==
  /\ job = "working" /\ IsSaved(current.id)
  /\ job' \in {"completed", "failed"} \union (IF cancel THEN {"cancelled"} ELSE {})
  /\ UNCHANGED <<saved, current, running, cancel, failures>> /\ WorkerSame
\* The last write: where it fails the run reads as failed.
Finish ==
  /\ job \in FinishedStatus
  /\ LET done == [current EXCEPT !.status = job] IN
     \/ /\ saved[current.id] # Missing
        /\ saved' = [saved EXCEPT ![current.id] = [status |-> job, keep |-> current.keep]]
        /\ current' = done /\ UNCHANGED failures
     \/ /\ IF saved[current.id] = Missing THEN UNCHANGED failures ELSE Fails
        /\ current' = [done EXCEPT !.status = "failed"] /\ UNCHANGED saved
  /\ running' = FALSE /\ job' = "none"
  /\ UNCHANGED cancel /\ WorkerSame

-----------------------------------------------------------------------------
(* Stops and restarts *)

Down == current' = NoRun /\ running' = FALSE /\ cancel' = FALSE /\ job' = "none"
Crash ==
  /\ up # "down" /\ stops < MaxStops /\ stops' = stops + 1
  /\ up' = "down" /\ Down
  /\ UNCHANGED <<sequence, saved, pinned, held, started, reused, failures>>
\* The destructor cancels the job and joins it.
Leave ==
  /\ up = "up" /\ stops < MaxStops /\ stops' = stops + 1
  /\ up' = "leaving" /\ cancel' = TRUE
  /\ UNCHANGED <<sequence, saved, current, running, job, pinned, held, started, reused, failures>>
Left ==
  /\ up = "leaving" /\ job = "none"
  /\ up' = "down" /\ Down
  /\ UNCHANGED <<sequence, saved, pinned, held, started, reused, stops, failures>>
Restart ==
  /\ up = "down" /\ up' = "up"
  /\ UNCHANGED <<sequence, saved, current, running, cancel, job, pinned, held, started, reused, stops, failures>>

Next ==
  \/ Post \/ PostFails \/ CancelRun \/ \E id \in Ids : Purge(id) \/ \E keep \in BOOLEAN : Put(id, keep)
  \/ MakeDirectory \/ Progress \/ Compute \/ Finish
  \/ Crash \/ Leave \/ Left \/ Restart
Spec == Init /\ [][Next]_vars

(* A saved run is what its user was told, across failed writes, restarts and the starts of
   later runs: a pin that was answered stays until it is released or the run is deleted on
   request (docs/playbooks.md:605), a run shown as completed is completed on disk, unless its
   deletion failed half way, and no number is given twice. *)
SavedRunsStand ==
  /\ \A id \in pinned : IsSaved(id) => saved[id].keep
  /\ \A id \in held : IsSaved(id)
  /\ current.status = "completed" => saved[current.id].status \in {"completed", "bare"}
  /\ ~reused
=============================================================================
