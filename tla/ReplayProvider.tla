---------------------------- MODULE ReplayProvider ----------------------------
(***************************************************************************)
(* The playback of a recording for an engine that trades on it             *)
(* (providers/replay.cpp, run_deterministic): one thread hands over batch  *)
(* after batch and waits for each, while requests pause it, step it to a   *)
(* time, let it play to a time, or interrupt it.  They share a dozen flags *)
(* under control_mutex_, which the thread gives up for every wait: a batch *)
(* being consumed, a barrier, a gap of the recording, a pause.             *)
(*                                                                         *)
(* A batch is its market time.  Speeds and gaps are left out: a wait ends  *)
(* when its deadline comes, which is any time, or when a control           *)
(* interrupts it.                                                          *)
(***************************************************************************)
EXTENDS Naturals, FiniteSets

CONSTANTS
  Times,       \* market times of the recording's batches
  Targets,     \* times a request may name
  Prepares,    \* start_through: the times a run may be prepared through, 0 for none
  Overtakes,   \* whether a step's target may be set while the barrier of a play-to runs
  MaxControls  \* bound: requests

VARIABLES
  thread,       \* where run_deterministic is
  next,         \* the next batch, None at the end
  inFlight,     \* in_flight_time_
  market,       \* market_time_, and with it settled_
  paced,        \* its local paced_target
  flags,        \* the controls under control_mutex_, see Flags
  interrupted,  \* interrupted_: a wait for a deadline ends early
  stopping,     \* stopping_
  finished,     \* finished_
  prepare,      \* options_.start_through
  host,         \* the control thread: what it waits for
  target,       \* the time its until named
  wakes,        \* controls that have set their flags and not called wake() yet
  limit,        \* history: the time no batch may pass until it is lifted, None without one
  controls      \* requests so far

loop == <<thread, next, inFlight, market, paced>>
caller == <<host, target>>
vars == <<loop, flags, interrupted, stopping, finished, prepare, caller, wakes, limit, controls>>

-----------------------------------------------------------------------------
None == 0

\* paused_, pause_settled_, pause_at_, seeking_, preparing_, stepping_,
\* step_pending_, step_target_, abort_requested_, step_aborted_
Flags(paused, preparing) ==
  [paused |-> paused, settled |-> FALSE, pauseAt |-> None, seeking |-> paused \/ preparing,
   preparing |-> paused \/ preparing, stepping |-> FALSE, pending |-> FALSE, stepTarget |-> None,
   abort |-> FALSE, aborted |-> FALSE]

Later(t) == {u \in Times : u > t}
After(t) == IF Later(t) = {} THEN None ELSE CHOOSE u \in Later(t) : \A v \in Later(t) : u <= v

Init ==
  /\ thread = "top" /\ next = After(None) /\ inFlight = None /\ market = None /\ paced = None
  /\ prepare \in Prepares
  /\ \E paused \in BOOLEAN : flags = Flags(paused, prepare # None)
  /\ interrupted = FALSE /\ stopping = FALSE /\ finished = FALSE
  /\ host = "free" /\ target = None /\ wakes = 0 /\ limit = None /\ controls = 0

Idle == UNCHANGED <<interrupted, stopping, finished, prepare, caller, wakes, limit, controls>>
Goes(place) == thread' = place

-----------------------------------------------------------------------------
(* The playback thread *)

\* Mutation: a step stops before a batch at its very target.
StepDueEarly == flags.pending /\ (flags.abort \/ next >= flags.stepTarget)
StepDue == flags.pending /\ (flags.abort \/ next > flags.stepTarget)
PlayToDue == flags.pauseAt # None /\ next > flags.pauseAt
PrepareDue == flags.preparing /\ prepare # None /\ next > prepare

\* The loop's head: at a stop it gives up the lock and asks the engine for a barrier.
Top ==
  /\ thread = "top" /\ ~stopping
  /\ IF next = None THEN Goes("ending") /\ UNCHANGED paced
     ELSE IF PrepareDue THEN Goes("prepared") /\ UNCHANGED paced
     ELSE IF StepDue \/ PlayToDue THEN Goes("barrier") /\ paced' = flags.pauseAt
     ELSE Goes("pace") /\ UNCHANGED paced
  /\ UNCHANGED <<next, inFlight, market, flags>> /\ Idle

\* The start state is reached: trading opens at the time the run was prepared through.
Prepared ==
  /\ thread = "prepared" /\ ~stopping
  /\ market' = prepare
  /\ flags' = [flags EXCEPT !.seeking = FALSE, !.preparing = FALSE]
  /\ Goes("pace")
  /\ UNCHANGED <<next, inFlight, paced>> /\ Idle

\* A control has superseded the play-to while its barrier ran.
Superseded == ~flags.pending /\ flags.pauseAt # paced

\* Whether the stop settles the time that was asked for.
Claims == ~flags.pending \/ ~flags.abort

Stopped ==
  /\ thread = "barrier" /\ ~stopping
  /\ IF Superseded THEN Goes("top") /\ UNCHANGED <<market, flags>>
     ELSE /\ market' = IF ~Claims THEN market ELSE IF flags.pending THEN flags.stepTarget ELSE paced
          /\ flags' = [flags EXCEPT !.aborted = flags.abort, !.paused = TRUE, !.settled = TRUE,
                         !.pauseAt = None, !.seeking = FALSE, !.pending = FALSE]
          /\ Goes("pace")
  /\ UNCHANGED <<next, inFlight, paced>> /\ Idle

\* pace(): controls are read and the interrupt cleared under the same lock.
Pace ==
  /\ thread = "pace" /\ ~stopping
  /\ IF flags.preparing THEN Goes("chosen") /\ UNCHANGED interrupted
     ELSE /\ interrupted' = FALSE
          /\ IF flags.seeking THEN Goes("chosen") ELSE IF flags.paused THEN Goes("settling") ELSE Goes("waiting")
  /\ UNCHANGED <<next, inFlight, market, paced, flags, stopping, finished, prepare, caller, wakes, limit, controls>>

\* A pause is settled once the engine has answered the barrier.
Settled ==
  /\ thread = "settling" /\ ~stopping
  /\ flags' = [flags EXCEPT !.settled = TRUE]
  /\ Goes("resting")
  /\ UNCHANGED <<next, inFlight, market, paced>> /\ Idle

Rested ==
  /\ thread = "resting" /\ ~stopping
  /\ ~flags.paused \/ ~flags.settled \/ flags.seeking
  /\ Goes("pace")
  /\ UNCHANGED <<next, inFlight, market, paced, flags>> /\ Idle

\* The wait for the deadline ends: it came, or a control interrupted it.
Waited ==
  /\ thread = "waiting" /\ ~stopping
  /\ IF interrupted THEN Goes("pace") ELSE Goes("chosen")
  /\ UNCHANGED <<next, inFlight, market, paced, flags>> /\ Idle

\* What a control may have changed since the thread let go of the lock.
Held == StepDue \/ PlayToDue \/ (flags.paused /\ ~flags.seeking)

Consume ==
  /\ thread = "chosen" /\ ~stopping
  /\ IF Held THEN Goes("top") /\ UNCHANGED inFlight
     ELSE Goes("consuming") /\ inFlight' = next
  /\ UNCHANGED <<next, market, paced, flags>> /\ Idle

\* The engine has answered the batch.  Without start_through a run that starts paused is
\* ready after its first batch, at once or after a barrier.
Consumed ==
  /\ thread = "consuming" /\ ~stopping
  /\ market' = inFlight /\ inFlight' = None /\ next' = After(inFlight)
  /\ flags' = IF flags.preparing /\ prepare = None
                THEN [flags EXCEPT !.seeking = FALSE, !.preparing = FALSE] ELSE flags
  /\ Goes("top")
  /\ UNCHANGED paced /\ Idle

\* The end of the recording, after a barrier, or stop(), without one.
Finish ==
  /\ thread # "done" /\ (thread = "ending" \/ stopping)
  /\ flags' = [flags EXCEPT !.paused = @ \/ flags.pending \/ flags.pauseAt # None,
                 !.aborted = IF flags.pending THEN flags.abort ELSE @, !.pending = FALSE, !.pauseAt = None,
                 !.settled = TRUE, !.seeking = FALSE, !.preparing = FALSE]
  /\ finished' = TRUE /\ inFlight' = None
  /\ Goes("done")
  /\ UNCHANGED <<next, market, paced, interrupted, stopping, prepare, caller, wakes, limit, controls>>

-----------------------------------------------------------------------------
(* Requests: each changes the flags under the lock and then calls wake() *)

Request == controls < MaxControls /\ controls' = controls + 1
Wakes == wakes' = wakes + 1
Elsewhere == UNCHANGED <<loop, interrupted, stopping, finished, prepare>>

\* wake(): the interrupt flag, and both condition variables.
Wake ==
  /\ wakes > 0 /\ wakes' = wakes - 1
  /\ interrupted' = TRUE
  /\ UNCHANGED <<loop, flags, stopping, finished, prepare, caller, limit, controls>>

\* set_paused(true)
Paused == [flags EXCEPT !.settled = @ /\ flags.paused, !.paused = TRUE, !.pauseAt = None,
             !.abort = @ \/ flags.stepping]

\* set_paused(false), set_speed: a play-to is lifted.
Resumed == [flags EXCEPT !.settled = FALSE, !.paused = FALSE, !.pauseAt = None]

\* The control thread serves one request at a time, none while the start state is prepared,
\* and is the one that stops the engine and with it the provider.
Free == host = "free" /\ ~stopping /\ ~flags.preparing /\ Request

\* PUT {paused: true} and PUT {abort}: the request waits until the pause is settled.
Pause ==
  /\ Free /\ flags' = Paused /\ Wakes /\ host' = "pausing"
  /\ UNCHANGED <<target, limit>> /\ Elsewhere

\* Mutation: the request waits for paused_, not for pause_settled_.
WaitPausedOnly ==
  /\ host = "pausing" /\ (flags.paused \/ finished \/ stopping)
  /\ host' = "paused"
  /\ UNCHANGED <<target, flags, wakes, limit, controls>> /\ Elsewhere
WaitPaused ==
  /\ host = "pausing" /\ (flags.settled \/ finished \/ stopping)
  /\ host' = "paused"
  /\ UNCHANGED <<target, flags, wakes, limit, controls>> /\ Elsewhere

\* PUT {paused: false}
Resume ==
  /\ Free /\ flags' = Resumed /\ Wakes /\ limit' = None
  /\ UNCHANGED caller /\ Elsewhere

\* PUT {speed}
SetSpeed ==
  /\ Free /\ flags' = [flags EXCEPT !.pauseAt = None] /\ Wakes
  /\ limit' = IF flags.pauseAt # None THEN None ELSE limit
  /\ UNCHANGED caller /\ Elsewhere

\* validate_target; end_time has been checked.
Valid(t) == t >= market /\ t >= inFlight /\ ~finished /\ ~stopping /\ \E u \in Times : t <= u

\* PUT {play_until}
PlayUntil(t) ==
  /\ Free /\ Valid(t) /\ ~flags.stepping
  /\ flags' = [flags EXCEPT !.pauseAt = t, !.paused = FALSE, !.settled = FALSE]
  /\ Wakes /\ limit' = t
  /\ UNCHANGED caller /\ Elsewhere

\* PUT {until}: first the step is claimed,
Until ==
  /\ Free
  /\ flags' = [flags EXCEPT !.stepping = TRUE, !.abort = FALSE, !.aborted = FALSE]
  /\ host' = "claimed"
  /\ UNCHANGED <<target, wakes, limit>> /\ Elsewhere

\* then, the end looked up, its target is set.
Step(t) ==
  /\ host = "claimed" /\ Valid(t)
  /\ Overtakes \/ thread # "barrier"
  /\ flags' = [flags EXCEPT !.pauseAt = None, !.settled = FALSE, !.stepTarget = t,
                 !.pending = TRUE, !.seeking = TRUE]
  /\ Wakes /\ host' = "stepping" /\ target' = t /\ limit' = t
  /\ UNCHANGED controls /\ Elsewhere

\* An invalid target, or the end of the wait with nothing settled.
Refused ==
  /\ \/ host = "claimed"
     \/ host = "stepping" /\ (~flags.pending \/ finished \/ stopping) /\ ~flags.aborted /\ market < target
  /\ flags' = [flags EXCEPT !.stepping = FALSE]
  /\ host' = "free"
  /\ UNCHANGED <<target, wakes, limit, controls>> /\ Elsewhere

\* until returns: aborted, or settled through its target.
Stepped ==
  /\ host = "stepping" /\ (~flags.pending \/ finished \/ stopping)
  /\ flags.aborted \/ market >= target
  /\ host' = IF flags.aborted THEN "aborted" ELSE "settled"
  /\ flags' = [flags EXCEPT !.stepping = FALSE]
  /\ UNCHANGED <<target, wakes, limit, controls>> /\ Elsewhere

Answer ==
  /\ host \in {"paused", "aborted", "settled"} /\ host' = "free"
  /\ UNCHANGED <<target, flags, wakes, limit, controls>> /\ Elsewhere

\* Any thread may interrupt, before its own request is queued behind the step.
Abort ==
  /\ ~flags.preparing /\ Request /\ flags' = Paused /\ Wakes
  /\ UNCHANGED <<caller, limit>> /\ Elsewhere

Stop ==
  /\ ~stopping /\ host = "free" /\ stopping' = TRUE
  /\ UNCHANGED <<loop, flags, interrupted, finished, prepare, caller, wakes, limit, controls>>

Next ==
  \/ Top \/ Prepared \/ Stopped \/ Pace \/ Settled \/ Rested \/ Waited \/ Consume \/ Consumed \/ Finish
  \/ Wake \/ Pause \/ WaitPaused \/ Resume \/ SetSpeed \/ Until \/ Refused \/ Stepped \/ Answer
  \/ \E t \in Targets : PlayUntil(t) \/ Step(t)
  \/ Abort \/ Stop
Spec == Init /\ [][Next]_vars

-----------------------------------------------------------------------------
(* A lockstep advance that reports success has played every batch through its target and
   none past it (replay.hpp: until "returns only after all complete input through the target
   is settled"); and no batch passes the time a step or a play-to named before a request
   lifts it. *)
StepsExactly ==
  /\ host = "settled" => inFlight = None /\ (next = None \/ next > target) /\ market = target
  /\ limit # None => inFlight <= limit

(* Once a pause has been answered no batch is under way and none starts. *)
PauseIsStill == host = "paused" => inFlight = None /\ (flags.paused \/ finished)
=============================================================================
