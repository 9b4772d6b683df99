# OpenPort in TLA+

OpenPort is a market-data and paper-trading server in C++: feeds (live
providers, recordings, a demo market) publish option events; one engine thread
applies them to a book and to the paper-trading accounts; HTTP and WebSocket
clients read what it publishes and post trading commands; every account is an
append-only, hash-chained journal from which it is recovered.

The modules here specify the parts of that program where the order of steps, or
the exactness of a rule, matters: queues and threads, the journal and its locks,
how a session commits and recovers, the order reducers, the rules an account
trades under, its books and its margin, and the services around the core. TLC
checks them on small instances; TLAPS proves what matters most for every
instance. Paths below are relative to the repository (`include/`, `src/`,
`docs/`).

    tlc -config MCRules.cfg MCRules          check a run
    tlapm BooksProofs.tla                    check the proofs of a module

`PROJECT.json` lists the components, the runs, the source lines each definition
stands for, a mutation each property detects, the hazards, the findings and the
theorems.

## 1. The system

### Components, their state and their operations

| Component | Source | State | Operations |
|---|---|---|---|
| Event queue | `md/event_queue.hpp` | retained events with tombstones, latest positions per contract and symbol under a generation, trade cursor, depth, counters, wake flag | publish, wake, drain, status |
| Engine | `server/engine.cpp`, `server/paper_engine.cpp` | command queue, replay batches, barriers, three stop flags, the provider and worker threads | start, stop, post_trading, consume_replay, synchronize, run's rounds |
| Journal | `trading/journal.cpp` | the file, its position, sync and failure flags, the lock | create, resume, inspect, append, flush, repair, remove, compact |
| Session | `trading/session.cpp` | orders, positions, cash, kill latch, guardrails, evaluation, recent answers | submit, modify, cancel, close, exercise, quotes, kill, settings, reset, payout, rollover, recover |
| Share orders | `trading/stock_orders.inc` | resting limits, stops, pairs and brackets of shares | submit, modify, cancel, work, trade, close |
| Ledger | `trading/ledger.cpp` | cash, realised profit, fees, lots per contract and symbol | buy, sell, reverse, settle, split, pay, fund, restore |
| Evaluation | `trading/evaluation.cpp` | floor, decision, day lock, qualifying days, payouts | ratchet, decide, lock day, roll day, payout, reset |
| Settlement | `server/desk.cpp`, `trading/session.cpp` | prints, closes and openings of a date; what an account holds through it | observe, settle, assign, exercise, roll |
| Strategy margin | `trading/margin.cpp`, `margin_exact.inc` | none of its own | the requirement of a book of options and shares |
| Playbooks | `server/playbooks.cpp`, `desk_playbooks.cpp` | versions, mode, forward-test windows, stages | create, set mode, archive, evaluate, stage, send, dismiss |
| Desk | `server/desk.cpp` | accounts with their files, halts, published snapshot | create, archive and delete accounts, circuit breakers, rollover, sandbox expiry |
| Sandboxes | `server/sandboxes.cpp` | entries with leases, order allowances | create, touch, order, expire |
| Failover | `providers/failover.cpp` | a route per underlying, two caches, the backup's state | observe, evaluate, switch, vouch, start backup, stop |
| Notifications | `server/notifications.cpp` | bounded queue, message in flight, rate window, floor latches | enqueue, deliver, retry, configure, forget, stop |
| Replay provider | `providers/replay.cpp` | cursor, pause, step and play-to requests, a dozen flags | hand over, pause, step, until, abort |
| Replay host | `server/replay_host.cpp` | the session that plays, journals, metadata, sidecars | start, resume, restart, stop, delete, recover |
| Backtests | `server/backtest_host.cpp` | one job, retained results, pins | submit, cancel, pin, delete, retain, recover |
| Request budget | `providers/request_budget.hpp` | timestamps of the last window | acquire, spend |
| Web server | `server/web_server.cpp`, `web_policy.hpp` | tick queue per socket, slots, tokens | broadcast, write, lease, reload |
| Risk, pricing, calendars | `analytics/`, `md/`, `trading/portfolio_margin*` | none of their own | functions |

### How they interact

* **Calls under one thread.** The desk, its sessions and their journals belong
  to the engine thread. A session's command is a *transaction*: `transact`
  copies the whole state, advances the copy to the command's time, applies the
  command, appends one journal record, and only then publishes the copy
  (`session.cpp:5774-5846`).
* **Messages.** Feeds publish into the event queue; clients post commands with a
  completion; a replay hands over whole batches and waits for each; hosts ask
  for barriers. All are taken by swapping a container under the engine's mutex.
* **Callbacks and futures.** Completions run on the engine thread after the
  publication they answer for; a replay waits on a future, a host on another,
  and `stop` interrupts and joins.
* **Shared files.** Several processes (daemon, tools, replays) may open one
  journal path; an advisory lock belongs to the file, not to its name. Accounts,
  replays and backtests each keep directories that a restart reads back.
* **One latch, several owners.** Within a session the trader, the daily loss and
  four guardrails trip and release the same kill latch.
* **Books, then rules.** Fills, assignments, splits and dividends are ledger
  entries; margin and the plan's rules read the equity they leave.

### What is hard about it

1. *Interleavings:* producers notify outside the queue's mutex; a command may be
   accepted as the loop exits; a barrier may be asked for in the middle of a
   round; two processes may create, remove or rewrite one journal; a replay's
   controls meet a thread that gives up its mutex in every wait.
2. *Crashes:* the machine or the process may stop between the write of a line,
   its sync, its bookkeeping, and the answer; a repair may itself be cut short;
   a directory may be moved while its metadata is not.
3. *Waiting on each other:* `stop` joins a provider that waits for the engine,
   which may already have gone when `start` failed half way; a backup is started
   outside the mutex while another thread stops it.
4. *Cascades:* one quote batch can fill an entry, create its exits, trigger one
   of them, cancel its sibling, trip the kill switch, shrink what remains and
   place a chained order, in a fixed order of passes over changing lists.
5. *Long legal sequences:* guardrails that tighten at once and loosen at
   rollover, with resets, missing marks and expiries in between; floors that
   trail, lock and restart with payouts.

The `hazards` of `PROJECT.json` name each of these at its line, with the
properties that would catch it.

### What makes each component correct

* Event queue: whatever the overload, only trades are lost; a quote is never
  merged across a redefinition of its contract; what is retained is drained.
* Engine: an answer follows the publication of its effect; answers keep the
  order of acceptance; a barrier covers everything handed over before it; stop
  returns, and strands nothing.
* Journal: complete lines always verify; an acknowledged record survives; the
  owner of the lock owns the file the path names.
* Session: nothing is visible that the journal does not hold; a repeated
  submission has one effect; recovery reproduces the published state.
* Orders: what must be protected stays protected; what may only close never
  opens; pairs fill once; chains are placed once; no trigger is missed.
* Guardrails: the latch agrees with the rules that own it; nothing but its owner
  releases it; a day's discipline cannot be handed back.
* Evaluation: the floor never falls within an attempt except by an unlocked
  payout; what the trader paid in is not profit; who crosses the floor never
  passes.
* Settlement: a position settles once, at the price its kind promises.
* Books: cash, cost and profit balance to the micro-dollar after any entry, and
  what is saved can be restored.
* Margin: the requirement is the least the allocations allow, and what the
  fallback answers is an allocation.
* Desk: a deletion that was answered is final, an account that was answered is
  found again, with its setting; no restart undoes a halt.
* Failover: no quote of a feed that was left behind is shown as the other's; no
  underlying waits for a backup that cannot start; no backup left running.
* Notifications: the queue keeps its bound and its filters.
* Replay: a step plays every batch through its target and none past it; a pause
  that was answered is still; a run that was interrupted can be resumed.
* Backtests: a saved run whose pin was answered stays.

## 2. Modules

| Module | Models | State and actions |
|---|---|---|
| `EventQueue` | `include/openport/md/event_queue.hpp` | The variables are the class's members plus `notifying`, `consumer`, `batch` (threads between the mutex and the condition variable) and the histories `sent`, `published`, `handedOver`. `Publish`, `Wake`: a producer's critical section; `Notify`: its notification after the mutex; `DrainNow`, `BeginWait`, `WakeUp`, `KeepWaiting`, `Timeout`: the consumer's `wait_drain`. A payload is its serial number. |
| `LatestQueue` | what the header of the queue promises | `pending`, `lost`: a publication replaces the latest value it supersedes, an overloaded queue may discard its oldest trades, a drain hands everything over. |
| `FileJournal` | `src/trading/journal.cpp`, one file and one writer | The members of `FileJournal`, the file as complete lines with a torn suffix, and how many lines survive a power loss. An append is `AppendBegin`, `WritePart`, `WriteDone` or `WriteFails`, `SyncDone` or `SyncFails`, `AppendReturns`; `Crash` and `PowerLoss` fall between any two. `Create`, `Resume`, `Inspect`, `FlushBegin`/`FlushDone`, the repair steps, `Close`. |
| `JournalLock` | `open_locked`, `open_journal` and `remove` of `src/trading/journal.cpp`, `start_trading`'s removal of empty journals, `discard`, and `compact_journal` of `src/server/desk.cpp` | Names, inodes, lock holders; each system call is an action of a process. |
| `Engine` | `src/server/engine.cpp`, `post_trading` of `src/server/paper_engine.cpp` | The queues, flags and threads of the engine; every section of `run()` between two releases of the mutex is an action of the worker. The desk is the sequence of inputs that reached it (`applied`) and how much of it is published (`shown`) and synced (`durable`). |
| `Session` | `transact`, `submit`, `recover` of `src/trading/session.cpp`, the derived state of `state.hpp`, the records' deltas | `account` is the session's `State` as far as identity reaches it: orders, the IDs that name them, where attempts begin, time, version, the index of open orders. A command is `Transact(effect, quiet, told)`: the effect on a copy, the chained orders, the index, the record; then `WriteLine`, `SyncLine`, `Publish` or `AppendFails`. `Start`, `Recover`, `Repair`, `Crash`, `PowerLoss` open and lose it. `answers` remembers what clients were told. |
| `Orders` | the order reducer of `src/trading/session.cpp` | `book` is the session's `State` as far as orders reach it; an operator stands for each function and takes a state to the next, a loop over the orders is a `Folded` step; an action is one whole transaction (`TransactOrders`): advance, command, chained orders, the loss monitor, what a walk moved. `OrderRequests` are the requests the program accepts (`ValidRequest`). |
| `Guardrails` | the kill latch and the guardrails of `src/trading/session.cpp` and `guardrails.cpp` | Same form: `state` is the latch, its history, the guardrails' own state, the position and the working openings. |
| `Evaluation`, `EvaluationPlans` | `src/trading/evaluation.cpp` and the transactions of `session.cpp` that move money or the day | Money in cents, at most one position with its open profit; an action is a whole transaction: a trade, a mark, the date change, the rollover, a payout, a transfer, a reset. The plans explored, each with other rules on. |
| `Settlement` | prints, closes and openings of `desk.cpp`, the rollover of `session.cpp` | What the desk saw of a date (print, close, opening print, opening quotation) and what an account recorded of it; settlement of expired positions, early assignment, deliveries, rollover, restarts between them. `log` remembers what was heard and in which order; a restart forgets the entries no account holds on to. |
| `Ledger` | `src/trading/ledger.cpp`, `Money::prorate` | `book` (cash, realised, fees, holdings) after every kind of entry, with the rounding of a part of an amount. |
| `Shares` | `src/trading/stock_orders.inc` and the commands that reach it | Share orders from acceptance to their end; a command is a function of the whole state; `luck` is what the checks on money and data answer. |
| `Margin` | `src/trading/margin.cpp`, `margin_exact.inc` | Units and their naked requirements, pairs, straddles, expiry pools; the integer program, the min-cost flow and the fallback's local moves. |
| `Playbooks` | `src/server/playbooks.cpp`, `desk_playbooks.cpp` | One playbook: versions, mode, windows, stages, and one evaluation as the handler's steps in `todo`, between which the process may stop. |
| `Desk` | account lifecycle of `src/server/desk.cpp` | `disk` is what the process sees of the accounts' files, `stable` what survives a power loss; every command is the sequence of its file operations, any of which may fail. |
| `Breaker` | market-wide halts of `desk.cpp` | The state saved in `market-halts.json`, dirty or not; prints, halts, days, authored halts, publication, stop and load. |
| `Sandboxes` | `src/server/sandboxes.cpp`, `Desk::create_account`, `expire_sandboxes` | Entries reserved under the lock, the command they post, the account and its directory, idle expiry with removals that fail. |
| `Failover` | `src/providers/failover.cpp` | Routes, caches, what the book shows (`quoted`), dwell times, the backup's start outside the mutex, stop. |
| `Notifications` | `src/server/notifications.cpp` | The queue, the message being sent, channels with filters, the floor band, retries, reconfiguration, forgotten accounts, stop. |
| `ReplayProvider` | `run_deterministic` and the controls of `src/providers/replay.cpp` | The playback thread, where it waits, and the flags it shares under `control_mutex_`; a batch is its market time. |
| `ReplayHost` | `src/server/replay_host.cpp` | Runs as journals, metadata, sidecars and set-aside files; start, resume, restart, replace, stop, delete and the finished session, step by step, with crashes. |
| `BacktestHost` | `src/server/backtest_host.cpp` | The job, the directories on disk, pins and retention; writes that fail, crashes, restarts. |
| `Outliving` | | Names the state, the assumptions and the promises of `FileJournal` and `Playbooks`, what outlives the server, so that both are checked in one run and proved in one module. |
| `Rules` | | Names the state, the assumptions and the promises of `Evaluation` and `Settlement`, so that they are checked in one run and proved in one module. |
| `Books` | | Names the state, the assumptions and the promises of `Shares` beside those of `Ledger`, so that both are proved about in one module. |
| `Services` | | Names the state of the eight services from `Desk` to `BacktestHost`, instantiates them, and names the promise of each, so that they are checked in one run and proved in one module. |
| `EventQueueProofs`, `FileJournalProofs`, `EngineProofs`, `SessionProofs`, `OrdersProofs` | | The theorems about the modules they are named after; `FileJournalProofs` also those about `JournalLock` and `Playbooks`. |
| `BooksProofs`, `RulesProofs`, `ServicesProofs` | | The theorems about the parts of `Books`, of `Rules` and `Guardrails`, and of `Services`. |
| `MC*` | | Model values, small sets and compositions for TLC. |

`EventQueue` implements `LatestQueue` under the refinement mapping at its end
(`pending` is the retained events without tombstones): `event_queue` checks it
and `QueueRefinement` proves it. What a drain hands over is written with the
ranks of the places that are kept, which can be reasoned about; an assumption of
`MCEventQueue` has TLC compare it with the library's filter on every sequence
up to length 4.

**Compositions.** `MCRules` puts `Guardrails`, the two parts of `Rules`
(`Evaluation`, `Settlement`) and `Orders` into one run; `MCServices` the
services, `Books` (`Ledger`, `Shares`) and `Margin`; `MCFileJournal` the two of `Outliving` (`FileJournal`, `Playbooks`). Their parts share no
variable: an initial choice `part` says which one moves, and the others stay at
one initial state each, so the states of a run are the sum of its parts' and
not their product. They are one run because each asks one question of the
system (what rules an account, what the services promise, what outlives the
server), and the parts remain modules of their own with their own properties.

### What the models leave out, and why it is sound to

* A payload, message or price that no property distinguishes is a model value
  or a small integer. Formatting, parsing and logging are left out.
* `EventQueue`: the mutex makes each critical section one step; only what
  happens outside it is split.
* `FileJournal`: the hash of a record is its identity, which assumes SHA-256
  does not collide. A sync is external: it makes everything written before it
  survive, and a power loss keeps some prefix of the rest.
* `JournalLock`: locks and links behave as POSIX says, and a process that dies
  releases its locks.
* `Engine`: the desk's own work (accounts, risk) happens inside one action of the
  worker, as it does between two releases of the mutex in the code.
* `Session`: what a command does to an order is the reducer's choice (accepted,
  refused, filled, changed, ended), for which `Orders` is the model; a client ID
  and the terms behind it are model values, and a change leaves the kind of the
  order alone. Whether a delta is small enough to record is a choice. Answers
  given from lines that no sync covered are not remembered (section 5 says what
  may become of them). A transaction fills at most one order, so at most one
  chained child is placed at a time.
* `Orders`: one contract, one price for both sides with a displayed size on
  each, no fees, single-leg orders; buying-power and exposure checks pass.
* `Guardrails`: one position, closed whole; what a close realised and whether
  the marks are fresh is the market's choice. A transaction runs on a time the
  desk can give it, and the daily rollover is a transaction of the first batch
  of a date when its marks are complete.
* `Ledger`: amounts are integers; the overflow errors of 64-bit amounts are left
  out, since nothing in reach of TLC's bounds overflows.
* `Margin`: money is in tenths of a price times the lot. The simplex steps and
  certificates inside the exact solver are abstracted: it answers the optimum or
  gives up. The percentage a house adds, fractional buy-back values, odd shares
  and the portfolio scan are left out. A short lot counts both as short and as
  cover of puts, as `book_of` counts it. The fallback's moves may come in any
  order, but one is made only when no merge is accepted.
* `Shares`: cash, buying power and loss limits appear as what they answer
  (`luck`); a retry of a client ID changes nothing and is left out.
* `BacktestHost`: only crashes of the process; listings, symbolic links, sweeps
  and states that cannot be read are left out.
* `ReplayProvider`: speeds and the gaps of a recording are left out; a wait ends
  when its deadline comes, at any time.
* `Playbooks`: one live account trading one symbol.

## 3. Runs

| Run | Shows | Bounds |
|---|---|---|
| `event_queue` | The queue implements `LatestQueue`; nothing but trades is lost, no wakeup is lost, and what is retained is drained. | capacity 2, 4 publications, 2 producers, 1 contract, 1 symbol, generation modulo 3 |
| `journal` | What outlives the server: complete lines verify, an acknowledged record survives a power loss, and every entry of a playbook belongs to one version that was entitled to make it. | both sync policies, 4 records, 2 restarts, 2 times; playbooks with 2 prices, 2 ex-dates, 2 events, 1 trade, 1 restart |
| `journal_lock` | Whoever owns the journal owns the file its path names; acknowledged records stay under the path. | 3 processes, 4 inodes, 1 record, 1 backup |
| `engine` | Answers follow publication, in order; barriers cover; stop strands nothing and returns. | both loops, capacity 1, 2 events or 1 batch, 2 commands, 2 barriers |
| `session` | The lines always rebuild the account in memory, IDs and open orders included; an answer holds in the state the synced lines describe, and a repeated submission gets it again. | 2 IDs (one a chained child's), 3 kinds of terms, 4 lines, checkpoint every 3, 1 crash or power loss besides a failed append, 2 attempts |
| `rules` | What an account may do: the latch and its owners, the plan's floor and passes, what ends a day, and the orders under both latches. | two traders, 4 transactions, 6 time units of 2-unit dates; 12 plans with 2 rollovers, one opening fill a day; four settlement markets, each with one side to trade; four order accounts |
| `services` | What the services promise: accounts, sandboxes, halts, feeds, notifications, replays, backtests, the books, share orders and margin. | 2 account names, 2 crashes, 1 failed operation; 3 sandbox ids; 2 halts on 4 market times; 1 underlying with 2 contracts on 3 clock ticks; queue 2 with 2 attempts; 2 replay runs of length 2; recordings of 2 batches, 4 targets, 3 controls; 3 backtests; 3 ledger entries |
| `orders_walk`, `evaluation_lock`, `services_late`, `replay_until`, `shares_stale` | One statement of the documentation each that the code does not keep (section 5). | small instances of `Orders`, `Evaluation`, `Breaker`, `ReplayProvider`, `Shares` |

Why the bounds suffice. A queue of two with four publications overflows twice
and evicts through a tombstone; a generation modulo 3 wraps within a run.
Three processes are the two that race and the one that replaced the file
between them; four inodes let a released one be used again. One batch, or two
events, and two commands put every pair of inputs into every order with the
exit. Four lines with a checkpoint every three hold a checkpoint, two deltas and
the checkpoint after a recovery; a failed append may leave an unsynced line that
the one power loss takes; two attempts let an ID be used again. Each account of
`Orders` reaches its case in two or three commands; sizes 1 and 2 tell a partial
fill from a whole one. Four transactions over six time units cross a date, a
cooldown and a rollover that waits for its marks. Twelve plans turn each rule of
an evaluation on in at least two combinations, and two rollovers let a floor
trail, lock and be reset; one opening
a day keeps every fill a change of the position. Two crashes let a restart be cut short by another; one
failed operation is the one whose answer was an error. Three sandbox ids with a
capacity of two put a third visitor behind one that expires. Three clock ticks
are a dwell out and a dwell back. Targets before,
between, on and past two batches are every place a step may end. Three backtests
with one kept make retention choose.

Every passing run reports no error within its time, each property has a mutation
of the code it detects, and between them the runs take every action.

Deadlock is not checked: every run stops when its bounds are reached.

### Fairness

`EventQueue!FairSpec` assumes weak fairness of the consumer's steps and of the
notification of a producer that has left the mutex: both are threads that are
running code without blocking. Nothing is assumed of the timeout, so
`EventuallyDrained` shows that the consumer never depends on it.

`Engine!Fairness` assumes weak fairness of the engine thread, of `stop`'s steps
once it has begun, and of a provider or host whose future is set or whose
interruption was asked for. Nothing is assumed of clients, of providers
publishing, or of the owner calling stop.

The other specifications have no fairness: what they promise is safety.

## 4. Proofs

TLAPS proves the theorems below for every value of the constants, under the
assumptions named beside the constants (`QueueAssumption`, `JournalAssumption`,
`LockAssumption`, `EngineAssumption`, `GuardrailsAssumption`, `IdsAssumption`,
`SessionAssumption`, `SetupAssumption`, `OrdersAssumption`, and those of `Books`, `Rules` and `Services`). They say what the
code's types and checks say: a capacity is positive, an identifier is not the
absent one, a plan is one `validate_rules` accepts, a request one
`order_check` takes,
contracts and markets are finitely many, prices and ex-dates are positive, and an
option that settles on an opening delivers no shares. TLC evaluates each on the
constants of a run. Every proof has the same shape: an inductive invariant whose
parts have names, a lemma for what each operator or group of steps keeps of a
part, one lemma per action, and a temporal step.

| Module | Theorems | The inductive invariant, and why it is needed |
|---|---|---|
| `EventQueueProofs` | `QueueRefinement`; only trades are lost, the accounting is exact, slots are never stale, no wakeup is lost | *Indexes* (positions and the trade cursor lead to what they name, no slot is of a later generation) make an overwrite hit its own contract. *Histories* relate what is retained to all that was sent: an index is exact only while no redefinition stands between. The refinement adds what an index says of the barriers behind it (*SlotsBehindBarriers*, *OthersBarred*), and follows each retained event by its rank among the retained (`Ranks`): a publication replaces the event of that rank, appends one, or drops the oldest trade. |
| `FileJournalProofs` | complete lines verify, a writer that has not failed stands at the end, an acknowledged record is durable; of `JournalLock`, the owner owns the file under the path, acknowledged records stay, a rewrite is whole; `EntriesAccountedFor` | *Resting*, *Writing*, *Written*, *Placed* say, for each step of an append, how the file's end relates to the writer's position. `AckedDurable` needs in addition that what was answered lies in what was synced (*Recorded*). *Locks:* what each step of a process has behind it: an inode (*HasFile*), its lock (*HasLock*), the path's own inode (*HasPath*), its rewrite (*HasRewrite*, *Verified*). *Playbooks* (*Consistent*): attempts are in the order of time, and so are the windows, of which the last runs exactly while the playbook is automatic; a step only adds to the record, a saved change keeps what each window covers, and a new automatic entry falls in the one that runs, where the counts of the live check are those of the report. |
| `EngineProofs` | `AnsweredInOrder`, `BarriersCover` | Every input is followed from its number: *Tracked* puts the commands answered, taken and waiting in one contiguous order; *Ordered* says the desk's inputs and answers agree with it; *Barriers* says, for each place of the round, what a barrier taken in this round already covers. Types, bounds and what the places of the round imply (*Typed*, *Bounded*, *Placed*) come first, and *Changes* reduces thirty actions to what they do to the queues. |
| `SessionProofs` | versions count lines, `RecoveryExact`, `AnswersHold` | Recovery walks the journal by a recursive function, so the walk is described by the functions that *fit* it, which exist and are unique. On it: the states behind the lines only grow (*Grown*: an order, once named, keeps its name, terms and attempt), the last is the account's or the transaction's in progress (*Bridging*, *Describing*), what was told a client stands in what no loss can take (*Answering*), and each change of the transaction is one the record reproduces (`ChangeApplies`). |
| `OrdersProofs` | `PairFillsOnce`, `NoTriggerMissed`, `ChainPlacedOnce` | A transaction is a composition of functions, some of them passes over a list that grows meanwhile. Two relations say what a function may do: *Rests*, where nothing fills, and *Works*, a fill with all that follows it; both are transitive, so a pass keeps what its step keeps, by the least visit that would not (`LeastNumber`). *Pairs:* partners name each other (*Linked*) and nothing that may only close asks for more than the position (*Fits*), so the fill that comes first ends the other. *Triggers:* what a pass visited stays unreached (*Visited*), since displayed sizes only shrink and nothing but an exit arms again. *Chains:* after a command every order but an exit is *Calm* (ended, or without size or price to trade at, or its trigger is out of reach) and stays so while the price does, so no step after the pass that places chained orders fills one it left behind. |
| `BooksProofs` | `BooksSound`, `SharePairsFillOnce`, `StopsCover` | *Books:* lemmas about the rounding of a part (`Prorate`), then about a trade, and every holding's sign and basis with the balance. *Shares:* orders that are partners name each other and end with each other's fill (*Matched*); exits that are partners are of two kinds for the same shares while both are open (*Linked*), so that what a fill takes from the open stops it takes from the shares held; the stops of a side are a running sum, and `StopsCompare` bounds what ending one order takes from it. |
| `RulesProofs` | `LatchMatchesGuardrail`, `OpeningsStop`, `DisciplineHolds`; `CapitalIsNotProfit`, `CrossedNeverPasses`, `FloorStands`; `DaysEndSettled`, `SettlesAsPromised` | *Guardrails:* one lemma per operator of the transaction: what keeps latch and guardrails agreed (*Keeps*, *Agrees*), what stays at least as tight (*Tight*, *Stays*), what the history only adds (*Grows*). *Plan:* the day's opening moves with everything that is not trading; the floor is the floor of the peak unless account size reviews raised it (*Follows*), and an active attempt's marked equity is never above a peak that marks ratchet (*PeakCovers*), so that what a payout or a review leaves is still the floor of a peak the next mark can only raise. *Days:* a day does not end before what expired in it has settled (*InTime*), so what a settlement delivers is held into a later day than the account's, once (*Delivers*); an account's shares are the sum of its deliveries, a sum over a finite set, and what was held into a day that began stays what it was (`HeldStays`), so that its dividend is paid on the right shares and not again (*Pays*). *Closes:* the desk keeps the first or the last of what it heard since it started (*HeardOn*); what an account recorded is what the entries it holds on to promise, whichever of them a restart leaves (*RecordedOn*), and a position that has expired and is still held is one nothing promises a close for (*Unpromised*). |
| `ServicesProofs` | `AnswersOutliveRestarts`, `HaltsSurviveRestart`, `NoSandboxOrphaned`, `RoutesAccountedFor`, `QueueKept`, `InterruptedCanResume`, `StepsExactly`, `PauseIsStill`, `SavedRunsStand` | One invariant per service: the desk's files as seen and as safe, for each step of an operation; what the halts' file still tells; what holds a sandbox's entry; what the provider's thread and the controls know of each other at each place it waits. |

Five theorems are conditional, and a run shows for each that the condition is
needed: `ChainsArePlacedOnce` on requests that do not walk (`orders_walk`),
`HaltsKept` on prints that arrive in order (`services_late`),
`StepsAlwaysExact` and `PausesAlwaysStill` on no target set during a play-to's
barrier (`replay_until`), `FloorsStand` on plans whose floors have a level at
which a payout can lock them (`evaluation_lock`).

What is only model-checked, and why:

* *Liveness* (`EventuallyDrained`, `WaitsEnd`): the prover knows no fairness and
  no `ENABLED`.
* *The stops of a position* (`StaysProtected`): the open stops together cover what
  is held, a sum over orders that every step of every pass changes. `Shares` makes
  the same promise of share orders, where one pass changes two stops at most and
  the sum is compared by hand (`StopsCompare`).
* *The allocations* (`RequirementIsLeast`, `FallbackIsLegal`): `Margin` is
  recursive, and the least over all allocations is an optimisation.
* The books' integers are unbounded in the proof as in the model: a sum that
  leaves 64 bits is refused by `Money` and is not modelled.

## 5. Where code and documentation disagree

With a run that shows it:

* `orders_walk`: a walking limit that fills on a command other than a quote batch
  never places its chained order: chained orders are placed (`session.cpp:5792`)
  before the walked ones are matched (`session.cpp:5796`).
  `docs/paper-trading.md:1094` promises it.
* `evaluation_lock`: under `after_payout` starting_balance a plan with no lock
  level of its own gets its floor raised to the starting balance and marked
  locked, and the next ratchet takes it down again to the peak less the drawdown
  (`session.cpp:7233`, `evaluation.cpp:203`; `docs/paper-trading.md:3098`).
* `services_late`: an index print that arrives late and trips a higher level than
  the halt before it gets the earlier start; the file saved with it is one the
  next start refuses (`desk.cpp:1245`; `docs/paper-trading.md:946`).
* `replay_until`: a step whose target is set while the barrier of a play-to runs
  is settled without its batches (`replay.cpp:422`).
* `shares_stale`: shares sold by hand and bought again before the next price find
  the first bracket's stop still open, and it sells the new ones
  (`stock_orders.inc:369`; `docs/paper-trading.md:379`).

Met while reading, without a run of their own:

* Under `after_payout` reset with a reset balance at or below a static floor, the
  first payout leaves the account under its floor and the same transaction fails
  it (`session.cpp:7226`; `types.cpp:404` refuses a static floor only for
  starting_balance; `openapi.yaml:12361`).
* Under the balance basis the floor announced for tomorrow differs from the one
  the rollover sets (`desk.cpp:992`, `desk.cpp:1078`, `equity.cpp:87`,
  `session.cpp:4338` against `evaluation.cpp:220`; `docs/paper-trading.md:2902`).
* After a crash between write and sync the restarted process publishes the line
  it found (`journal.cpp:189`) with no sync, and a power loss may still take it;
  `docs/paper-trading.md:4132` says every line is synced before its transaction
  is published.
* An entry that fills again after its exits ended with the position, which a sale
  by hand closed, is left without a stop (`session.cpp:3305`), though later fills
  grow the exits (`docs/paper-trading.md:1042`). The run `rules` reaches it with an
  entry of two, half filled, sold and filled again, and `StaysProtected` names it as
  the one step that may leave a covered position bare.
* An account reset on a date whose rollover waits for marks carries the previous
  date's opening trades into the new count (`session.cpp:7320`;
  `docs/paper-trading.md:1606`).
* A retry whose original terms the opening gate refuses gets the gate's answer
  once the order was changed: the desk compares present terms (`desk.cpp:1965`),
  the session those submitted (`docs/paper-trading.md:4676`).
* A refused deletion leaves a tombstone, and the account is gone after the next
  start (`desk.cpp:916-920`); a failed creation discards its directory without a
  sync (`desk.cpp:844`).
* A message in flight to an account that is removed may be tried up to three more
  times.
* A command past `handle()`'s gate (`replay_host.cpp:1066-1084`) that reaches the
  engine after the run's end makes the final checkpoint disagree, and a restart
  refuses the run. A crash during a resume leaves `.resuming` files; a second
  resume that is refused restores them over newer sidecars.
* `submit_stock_order` answers the retry of a rejected share order with success
  (`session.cpp:7654-7667`); the identical retry of a pair whose partner was
  refused is called a duplicate (`docs/paper-trading.md:384-386`); two exits of a
  pair against held shares both count as working sells.
* Options that expire on the new day are exempt from early assignment too
  (`session.cpp:6852`; `docs/paper-trading.md:172`).
* Playbooks: the adherence report can count a close of the same market second as
  the entry's (`playbooks.cpp:147-152`); removing an account again at start
  passes time 0 (`desk.cpp:753`, `playbooks.cpp:617-620`); the rename of
  `playbooks.json` is not followed by a sync of its directory; windows can
  overlap in market time after a restart (`desk.cpp:738`); a time stop cancels
  the protection before its second preview (`desk_playbooks.cpp:141-175`);
  refusals of the gate enter no journal, so what they suppress is lost with the
  process.
* Sandbox modes whose save failed stay after a restart (`desk.cpp:792-793`).
* A backtest whose first write failed leaves a directory that nothing lists or
  removes.

## 6. Plan

Next, each first checked, then proved about where that pays:

1. **Theorems**: the sums over open stops that `StaysProtected` compares.
2. **Portfolio margin**: the scan over scenarios, and the certificates of the
   exact solver.
3. **Buying power and reservations**, queue-position fills, combinations.
4. **Tick queue** (`web_policy.hpp:138-198`), request budget, recordings,
   alerts, plans, deliveries of shares, the checks of account types.

## 7. Not modelled

Vendor protocols and HTTP transport (their threads appear as producers of
events and posters of commands), the HTTP API and JSON (parsing and formatting
around commands), analytics and pricing (floating-point numerics), calendars and
symbol parsing (tables), the terminal, Python clients, benchmarks and packaging
(no server state). `PROJECT.json` lists each with its reason. By lines these are
most of the repository: the share of the implementation that a definition stands
for stays small however far the plan goes, and what is covered is where control
state lives.
