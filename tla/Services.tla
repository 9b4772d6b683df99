------------------------------ MODULE Services ------------------------------
(***************************************************************************)
(* The services around the trading core, each a component of its own with  *)
(* its own state: the desk's account book and its circuit breaker, the     *)
(* visitors' sandboxes, the failover provider, notifications, the playback *)
(* of a recording with the host of replay runs, and backtests.  This       *)
(* module names their state, their specifications and what each promises,  *)
(* for any sizes, so that they can be checked together and proved apart.   *)
(***************************************************************************)
EXTENDS Integers, FiniteSets

CONSTANTS
  NameIds, DeskCrashes, DeskFails,                       \* Desk
  SandboxIds, Clients, Capacity, PerClient, Global,      \* Sandboxes
  Orders, Window, OrderWindow, IdleAfter, MaxTime,
  DayTicks, HaltTicks, Falls,                            \* Breaker
  MaxLate,  \* how far behind the market an index print may arrive
  MaxMarket, MaxBreaks,
  Underlyings, Contracts, ContractsOf(_), BackupPrices,  \* Failover
  FailAfter, QuietFor, MaxClock,
  Channels, Traders, NoteCapacity, MaxAttempts,  \* Notifications
  Runs, MaxLength, HostCrashes,                          \* ReplayHost
  Times, Targets, Prepares, MaxControls,                 \* ReplayProvider
  Overtakes, \* whether a step's target may be set while the barrier of a play-to runs
  MaxRuns, Keep, MaxStops, MaxFailures                   \* BacktestHost

ASSUME DeskAssumption == NameIds \in Nat \ {0}
ASSUME SandboxesAssumption == Capacity \in Nat /\ IdleAfter \in Nat
ASSUME BreakerAssumption == DayTicks \in Nat \ {0} /\ HaltTicks \in Nat /\ Falls \subseteq 0..3 /\ MaxLate \in Nat
ASSUME FailoverAssumption ==  \* a contract has one underlying
  /\ \A u \in Underlyings : ContractsOf(u) \subseteq Contracts
  /\ \A u, v \in Underlyings : u # v => ContractsOf(u) \cap ContractsOf(v) = {}
ASSUME NotificationsAssumption == IsFiniteSet(Channels) /\ NoteCapacity \in Nat
ASSUME HostAssumption == Runs \subseteq Nat \ {0}
ASSUME PlaybackAssumption == Times \subseteq Nat \ {0} /\ Targets \subseteq Nat /\ Prepares \subseteq Nat
ASSUME BacktestsAssumption == MaxRuns \in Nat

VARIABLES
  disk, stable, accounts, unopened, op, answered, setting, released, refused, crashes, fails,
  entries, creations, time, drawn, inbox, boxes, folders, expiring,
  market, breaker, dirty, halting, halted, told, lost, breaks,
  clock, routes, caches, published, quoted, want, backup, starting, stopping, vouched,
  settings, near, notes, sending, telling, seen, ended, dropped,
  journals, metadata, sidecars, asides, session, playback, finalized, view, commands, restarting,
  stage, subject, verifying, created, over, hostCrashes,
  thread, next, inFlight, playedTo, paced, flags, interrupted, leaving, finished, prepare,
  host, target, wakes, limit, controls,
  sequence, saved, current, running, cancel, job, up, pinned, held, started, reused, stops, failures

deskVars == <<disk, stable, accounts, unopened, op, answered, setting, released, refused, crashes, fails>>
sandboxVars == <<entries, creations, time, drawn, inbox, boxes, folders, expiring>>
breakerVars == <<market, breaker, dirty, halting, halted, told, lost, breaks>>
failoverVars == <<clock, routes, caches, published, quoted, want, backup, starting, stopping, vouched>>
noteVars == <<settings, near, notes, sending, telling, seen, ended, dropped>>
hostVars == <<journals, metadata, sidecars, asides, session, playback, finalized, view, commands, restarting,
              stage, subject, verifying, created, over, hostCrashes>>
playbackVars == <<thread, next, inFlight, playedTo, paced, flags, interrupted, leaving, finished, prepare,
                  host, target, wakes, limit, controls>>
backtestVars == <<sequence, saved, current, running, cancel, job, up, pinned, held, started, reused, stops, failures>>

D == INSTANCE Desk WITH N <- NameIds, MaxCrashes <- DeskCrashes, MaxFails <- DeskFails
S == INSTANCE Sandboxes
B == INSTANCE Breaker
F == INSTANCE Failover WITH After <- FailAfter, Quiet <- QuietFor, book <- quoted
N == INSTANCE Notifications
H == INSTANCE ReplayHost WITH MaxCrashes <- HostCrashes, crashes <- hostCrashes
P == INSTANCE ReplayProvider WITH market <- playedTo, stopping <- leaving
K == INSTANCE BacktestHost

DeskSpec == D!Init /\ [][D!Next]_deskVars
SandboxesSpec == S!Init /\ [][S!Next]_sandboxVars
BreakerSpec == B!Init /\ [][B!Next]_breakerVars
FailoverSpec == F!Init /\ [][F!Next]_failoverVars
NotificationsSpec == N!Init /\ [][N!Next]_noteVars
HostSpec == H!Init /\ [][H!Next]_hostVars
PlaybackSpec == P!Init /\ [][P!Next]_playbackVars
BacktestsSpec == K!Init /\ [][K!Next]_backtestVars

(* Deleted accounts stay deleted and answered ones stay; see Desk. *)
AnswersOutliveRestarts == D!AnswersOutliveRestarts
(* No sandbox outlives its entry; see Sandboxes. *)
NoSandboxOrphaned == S!NoSandboxOrphaned
(* Halts survive restarts; see Breaker. *)
HaltsSurviveRestart == B!HaltsSurviveRestart
(* No quote of the feed left behind, no route to a backup that failed; see Failover. *)
RoutesAccountedFor == F!RoutesAccountedFor
(* The notification queue keeps its bound and its filters; see Notifications. *)
QueueKept == N!QueueKept
(* Interrupted replays can be resumed; see ReplayHost. *)
InterruptedCanResume == H!InterruptedCanResume
(* Steps end where they were told to; see ReplayProvider. *)
StepsExactly == P!StepsExactly
(* Nothing moves during a pause; see ReplayProvider. *)
PauseIsStill == P!PauseIsStill
(* Saved backtests are what their user was told; see BacktestHost. *)
SavedRunsStand == K!SavedRunsStand
=============================================================================
