-------------------------------- MODULE Engine --------------------------------
(***************************************************************************)
(* The engine thread and the threads that feed it (server/engine.cpp and   *)
(* post_trading in server/paper_engine.cpp).  One thread owns the desk.    *)
(* Providers publish events, a replay or the demo market hands over whole  *)
(* batches and waits for each, clients post commands, and a replay or its  *)
(* host asks for a barrier (synchronize).  The owner starts and stops it.  *)
(*                                                                         *)
(* `driven' tells the two loops apart: a replay or the demo drives the     *)
(* engine with batches; a live feed only publishes events.                 *)
(*                                                                         *)
(* What the desk does with an input is abstracted to the order in which    *)
(* inputs reach it; "shown" is how much of that order readers can see.     *)
(***************************************************************************)
EXTENDS Integers, Sequences, FiniteSets

CONSTANTS
  Loops,             \* the values of `driven' explored
  CommandCapacity,   \* options_.command_capacity
  MaxEvents,         \* bound per loop: events a provider publishes before it stops
  MaxBatches,        \* bound: batches a driving provider hands over
  MaxCommands,       \* bound: commands clients post
  MaxSyncs           \* bound: barriers asked for

ASSUME EngineAssumption ==
  /\ Loops \subseteq BOOLEAN
  /\ MaxEvents \in [Loops -> Nat]
  /\ {CommandCapacity, MaxBatches, MaxCommands, MaxSyncs} \subseteq Nat

VARIABLES
  driven,     \* replay_ || demo_
  owner,      \* where the thread that calls start and stop is
  stopping,   \* stopping_
  accepting,  \* accepting_commands_
  provider,   \* the provider's thread: "off", "on", "waiting"
  waitsFor,   \* the future it waits for, <<kind, number>>
  host,       \* the barrier a replay host waits for, 0 when none
  queue,      \* queue_: published events, in order
  commands,   \* commands_
  batches,    \* replay_batches_
  syncs,      \* synchronizations_
  worker,     \* where the engine thread is in run()
  taken,      \* run()'s locals: what this round took, and whether it is the last
  halted,     \* Desk::stopping_
  applied,    \* the desk: inputs that reached it, in order
  shown,      \* how many of them publish_desk has published
  durable,    \* how many of them the journals have synced
  replies,    \* completions called: <<command, outcome>>, in order
  acks,       \* futures set: <<kind, number, outcome>>
  sent,       \* history: events, batches, commands and barriers so far
  covers      \* history: per barrier, the inputs handed over before it

control == <<owner, stopping, accepting>>
feed == <<provider, waitsFor, host>>
inputs == <<queue, commands, batches, syncs>>
desk == <<halted, applied, shown, durable>>
answers == <<replies, acks>>
history == <<sent, covers>>
moving == <<control, feed, inputs, worker, taken, desk, answers, history>>
vars == <<driven, moving>>

-----------------------------------------------------------------------------
NoWait == <<"none", 0>>
Nothing == [syncs |-> <<>>, events |-> <<>>, commands |-> <<>>,
            batches |-> <<>>, last |-> FALSE]

Acked(kind, n) == \E outcome \in {"done", "failed"} : <<kind, n, outcome>> \in acks
Numbered(kind, n) == {<<kind, i>> : i \in 1 .. n}
HandedOver == Numbered("event", sent.events) \cup Numbered("batch", sent.batches)
                \cup Numbered("command", sent.commands)
AsItems(kind, s) == [i \in DOMAIN s |-> <<kind, s[i]>>]

-----------------------------------------------------------------------------
(* The provider's threads *)

\* EventSink::publish; Stopped is published the same way.
Publish ==
  /\ sent' = [sent EXCEPT !.events = @ + 1]
  /\ queue' = Append(queue, sent.events + 1)

ProviderPublishes ==
  /\ provider = "on" /\ sent.events < MaxEvents[driven]
  /\ Publish
  /\ UNCHANGED <<control, feed, commands, batches, syncs, worker, taken, desk, answers, covers>>

\* consume_replay, whose future the provider then polls.
ProviderDrives ==
  /\ driven /\ provider = "on" /\ sent.batches < MaxBatches
  /\ sent' = [sent EXCEPT !.batches = @ + 1]
  /\ batches' = Append(batches, sent.batches + 1)
  /\ provider' = "waiting"
  /\ waitsFor' = <<"batch", sent.batches + 1>>
  /\ UNCHANGED <<control, host, queue, commands, syncs, worker, taken, desk, answers, covers>>

\* synchronize: the barrier is for everything handed over before it.
Synchronize ==
  /\ sent.syncs < MaxSyncs
  /\ sent' = [sent EXCEPT !.syncs = @ + 1]
  /\ syncs' = Append(syncs, sent.syncs + 1)
  /\ covers' = Append(covers, HandedOver)

ProviderSynchronizes ==
  /\ driven /\ provider = "on"
  /\ Synchronize
  /\ provider' = "waiting"
  /\ waitsFor' = <<"sync", sent.syncs + 1>>
  /\ UNCHANGED <<control, host, queue, commands, batches, worker, taken, desk, answers>>

ProviderResumes ==
  /\ provider = "waiting" /\ Acked(waitsFor[1], waitsFor[2])
  /\ provider' = "on"
  /\ waitsFor' = NoWait
  /\ UNCHANGED <<control, host, inputs, worker, taken, desk, answers, history>>

\* Its waits poll the flag that stop() sets.
MayLeave == provider \in {"on", "waiting"}

\* The provider's stop(): its thread publishes Stopped and is joined.
ProviderLeaves ==
  /\ owner \in {"interrupting", "failing"} /\ MayLeave
  /\ provider' = "off"
  /\ waitsFor' = NoWait
  /\ Publish
  /\ UNCHANGED <<control, host, commands, batches, syncs, worker, taken, desk, answers, covers>>

-----------------------------------------------------------------------------
(* Clients and hosts, which know the engine only once start() has returned *)

HasRoom == Len(commands) < CommandCapacity

\* post_trading; a refusal returns false and changes nothing.
PostTrading ==
  /\ owner \in {"running", "interrupting", "joining", "stopped"}
  /\ sent.commands < MaxCommands
  /\ accepting /\ ~stopping /\ HasRoom
  /\ sent' = [sent EXCEPT !.commands = @ + 1]
  /\ commands' = Append(commands, sent.commands + 1)
  /\ UNCHANGED <<control, feed, queue, batches, syncs, worker, taken, desk, answers, covers>>

\* A host's control request waits without a deadline; its lock also covers the
\* host's stop of the engine, so the engine is not stopped meanwhile.
HostSynchronizes ==
  /\ owner = "running" /\ host = 0
  /\ Synchronize
  /\ host' = sent.syncs + 1
  /\ UNCHANGED <<control, provider, waitsFor, queue, commands, batches, worker, taken, desk, answers>>

HostResumes ==
  /\ host # 0 /\ Acked("sync", host)
  /\ host' = 0
  /\ UNCHANGED <<control, provider, waitsFor, inputs, worker, taken, desk, answers, history>>

-----------------------------------------------------------------------------
(* The owner: start() and stop() *)

StartProvider ==
  /\ owner = "new"
  /\ owner' = "recovering"
  /\ provider' = "on"
  /\ UNCHANGED <<stopping, accepting, waitsFor, host, inputs, worker, taken, desk, answers, history>>

\* start_trading has recovered the journals, and the desk is published.
AcceptCommands ==
  /\ owner = "recovering"
  /\ owner' = "accepting"
  /\ accepting' = TRUE
  /\ shown' = Len(applied)
  /\ UNCHANGED <<stopping, feed, inputs, worker, taken, halted, applied, durable, answers, history>>

Launch ==
  /\ owner = "accepting"
  /\ owner' = "launched"
  /\ worker' = "check"
  /\ UNCHANGED <<stopping, accepting, feed, inputs, taken, desk, answers, history>>

Started ==
  /\ owner = "launched"
  /\ owner' = "running"
  /\ UNCHANGED <<stopping, accepting, feed, inputs, worker, taken, desk, answers, history>>

\* The provider, the recovery, the launch or the series worker threw: the handler
\* raises stopping_ before it stops the provider.
StartFails ==
  /\ owner \in {"new", "recovering", "accepting", "launched"}
  /\ owner' = "failing"
  /\ stopping' = TRUE
  /\ UNCHANGED <<accepting, feed, inputs, worker, taken, desk, answers, history>>

CleanUp ==
  /\ owner = "failing" /\ provider = "off" /\ worker \in {"none", "exited"}
  /\ owner' = "failed"
  /\ accepting' = FALSE
  /\ halted' = TRUE
  /\ durable' = Len(applied)
  /\ UNCHANGED <<stopping, feed, inputs, worker, taken, applied, shown, answers, history>>

Stop ==
  /\ owner = "running" /\ host = 0
  /\ owner' = "interrupting"
  /\ UNCHANGED <<stopping, accepting, feed, inputs, worker, taken, desk, answers, history>>

\* The provider has been joined, so nothing more is published.
RaiseStopping ==
  /\ owner = "interrupting" /\ provider = "off"
  /\ owner' = "joining"
  /\ stopping' = TRUE
  /\ UNCHANGED <<accepting, feed, inputs, worker, taken, desk, answers, history>>

Join ==
  /\ owner = "joining" /\ worker = "exited"
  /\ owner' = "stopped"
  /\ UNCHANGED <<stopping, accepting, feed, inputs, worker, taken, desk, answers, history>>

-----------------------------------------------------------------------------
(* The engine thread: run() *)

At(place) == worker = place
Goto(place) == worker' = place

Drained == queue = <<>>

\* Two separate looks: at the queue's depth, then at the batches under their lock.
CheckQueue ==
  /\ At("check")
  /\ Goto(IF stopping /\ Drained THEN "check batches" ELSE "take syncs")
  /\ UNCHANGED <<control, feed, inputs, taken, desk, answers, history>>

MayExit == batches = <<>>

CheckBatches ==
  /\ At("check batches")
  /\ Goto(IF MayExit THEN "close" ELSE "take syncs")
  /\ UNCHANGED <<control, feed, inputs, taken, desk, answers, history>>

\* Barriers are taken before the inputs they are for.
TakeSyncs ==
  /\ At("take syncs")
  /\ taken' = [taken EXCEPT !.syncs = syncs]
  /\ syncs' = <<>>
  /\ Goto("drain")
  /\ UNCHANGED <<control, feed, queue, commands, batches, desk, answers, history>>

\* It returns with nothing after 50 ms, or at once when there are barriers.
Drain ==
  /\ At("drain")
  /\ taken' = [taken EXCEPT !.events = queue]
  /\ queue' = <<>>
  /\ Goto("swap")
  /\ UNCHANGED <<control, feed, commands, batches, syncs, desk, answers, history>>

\* Mutation: barriers asked for during the drain are cleared with the inputs.
TakenBySwapClears ==
  /\ taken' = [taken EXCEPT !.commands = commands, !.batches = batches]
  /\ syncs' = <<>>

TakenBySwap ==
  /\ taken' = [taken EXCEPT !.commands = commands, !.batches = batches]
  /\ syncs' = syncs

Swap ==
  /\ At("swap")
  /\ TakenBySwap
  /\ commands' = <<>>
  /\ batches' = <<>>
  /\ Goto(IF driven THEN "command" ELSE "observe")
  /\ UNCHANGED <<control, feed, queue, desk, answers, history>>

\* Live only: the batch reaches the desk, which may be published here already;
\* a stopping engine stops trading before this round's commands.
Observe ==
  /\ At("observe")
  /\ applied' = applied \o AsItems("event", taken.events)
  /\ shown' \in {shown, Len(applied')}
  /\ halted' = (halted \/ stopping)
  /\ taken' = [taken EXCEPT !.events = <<>>]
  /\ Goto("command")
  /\ UNCHANGED <<control, feed, inputs, durable, answers, history>>

AfterCommands == IF taken.last THEN "finish" ELSE IF driven THEN "batch" ELSE "show"

\* Desk::command and apply_command, up to the completion; a halted desk refuses.
Execute ==
  /\ At("command") /\ taken.commands # <<>>
  /\ applied' = IF halted THEN applied ELSE Append(applied, <<"command", Head(taken.commands)>>)
  /\ Goto("show command")
  /\ UNCHANGED <<control, feed, inputs, taken, halted, shown, durable, answers, history>>

\* Mutation: the completion answers before it publishes.
PublishedForCommandLate == shown

\* The completion post_trading wrapped: it publishes, then it answers.
PublishedForCommand == Len(applied)

ShowCommand ==
  /\ At("show command")
  /\ shown' = PublishedForCommand
  /\ Goto("answer")
  /\ UNCHANGED <<control, feed, inputs, taken, halted, applied, durable, answers, history>>

Answer ==
  /\ At("answer")
  /\ replies' = Append(replies, <<Head(taken.commands), IF halted THEN "refused" ELSE "done">>)
  /\ taken' = [taken EXCEPT !.commands = Tail(@)]
  /\ Goto("command")
  /\ UNCHANGED <<control, feed, inputs, desk, acks, history>>

CommandsDone ==
  /\ At("command") /\ taken.commands = <<>>
  /\ Goto(AfterCommands)
  /\ UNCHANGED <<control, feed, inputs, taken, desk, answers, history>>

-----------------------------------------------------------------------------
(* Driven rounds: batches, health, the journals *)

ReplayBatch ==
  /\ At("batch") /\ taken.batches # <<>>
  /\ applied' = Append(applied, <<"batch", Head(taken.batches)>>)
  /\ Goto("show batch")
  /\ UNCHANGED <<control, feed, inputs, taken, halted, shown, durable, answers, history>>

\* replay_batch throws: the exception goes to whoever waits.
ReplayBatchFails ==
  /\ At("batch") /\ taken.batches # <<>>
  /\ acks' = acks \cup {<<"batch", Head(taken.batches), "failed">>}
  /\ taken' = [taken EXCEPT !.batches = Tail(@)]
  /\ Goto("batch")
  /\ UNCHANGED <<control, feed, inputs, desk, replies, history>>

PublishedForBatch == Len(applied)

ShowBatch ==
  /\ At("show batch")
  /\ shown' = PublishedForBatch
  /\ Goto("ack")
  /\ UNCHANGED <<control, feed, inputs, taken, halted, applied, durable, answers, history>>

AckBatch ==
  /\ At("ack")
  /\ acks' = acks \cup {<<"batch", Head(taken.batches), "done">>}
  /\ taken' = [taken EXCEPT !.batches = Tail(@)]
  /\ Goto("batch")
  /\ UNCHANGED <<control, feed, inputs, desk, replies, history>>

\* A driven queue carries feed health only.
UpdateHealth ==
  /\ At("batch") /\ taken.batches = <<>>
  /\ applied' = applied \o AsItems("event", taken.events)
  /\ taken' = [taken EXCEPT !.events = <<>>]
  /\ Goto("flush")
  /\ UNCHANGED <<control, feed, inputs, halted, shown, durable, answers, history>>

\* Mutation: only a paused replay has its journals flushed.
MustFlushWhenPaused == FALSE

MustFlush == taken.syncs # <<>>

\* A paused replay is flushed too, which may happen in any round.
Flush ==
  /\ At("flush")
  /\ durable' \in IF MustFlush THEN {Len(applied)} ELSE {durable, Len(applied)}
  /\ Goto("show")
  /\ UNCHANGED <<control, feed, inputs, taken, halted, applied, shown, answers, history>>

Show ==
  /\ At("show")
  /\ shown' = Len(applied)
  /\ Goto("release")
  /\ UNCHANGED <<control, feed, inputs, taken, halted, applied, durable, answers, history>>

Release ==
  /\ At("release")
  /\ acks' = acks \cup {<<"sync", taken.syncs[i], "done">> : i \in DOMAIN taken.syncs}
  /\ taken' = Nothing
  /\ Goto("check")
  /\ UNCHANGED <<control, feed, inputs, desk, replies, history>>

-----------------------------------------------------------------------------
(* The end of run() *)

LeftOver == commands

\* One critical section stops acceptance and takes what was accepted; then halt.
Close ==
  /\ At("close")
  /\ accepting' = FALSE
  /\ taken' = [taken EXCEPT !.commands = LeftOver, !.last = TRUE]
  /\ commands' = <<>>
  /\ halted' = TRUE
  /\ Goto("command")
  /\ UNCHANGED <<owner, stopping, feed, queue, batches, syncs, applied, shown, durable, answers, history>>

\* Desk::stop flushes and releases the journals; the last publication follows.
Finish ==
  /\ At("finish")
  /\ durable' = Len(applied)
  /\ shown' = Len(applied)
  /\ Goto("exited")
  /\ UNCHANGED <<control, feed, inputs, taken, halted, applied, answers, history>>

-----------------------------------------------------------------------------
Init ==
  /\ driven \in Loops
  /\ owner = "new" /\ stopping = FALSE /\ accepting = FALSE
  /\ provider = "off" /\ waitsFor = NoWait /\ host = 0
  /\ queue = <<>> /\ commands = <<>> /\ batches = <<>> /\ syncs = <<>>
  /\ worker = "none" /\ taken = Nothing
  /\ halted = FALSE /\ applied = <<>> /\ shown = 0 /\ durable = 0
  /\ replies = <<>> /\ acks = {}
  /\ sent = [events |-> 0, batches |-> 0, commands |-> 0, syncs |-> 0]
  /\ covers = <<>>

Worker ==
  \/ CheckQueue \/ CheckBatches \/ TakeSyncs \/ Drain \/ Swap \/ Observe
  \/ Execute \/ ShowCommand \/ Answer \/ CommandsDone
  \/ ReplayBatch \/ ReplayBatchFails \/ ShowBatch \/ AckBatch \/ UpdateHealth
  \/ Flush \/ Show \/ Release \/ Close \/ Finish

Ending == CleanUp \/ RaiseStopping \/ Join
Owner == StartProvider \/ AcceptCommands \/ Launch \/ Started \/ StartFails \/ Stop \/ Ending
Provider == ProviderPublishes \/ ProviderDrives \/ ProviderSynchronizes \/ ProviderResumes \/ ProviderLeaves
Clients == PostTrading \/ HostSynchronizes \/ HostResumes

Next == (Worker \/ Owner \/ Provider \/ Clients) /\ UNCHANGED driven

\* The engine thread runs, stop() goes on once it may, and waits notice their answer.
Fairness ==
  /\ WF_moving(Worker)
  /\ WF_moving(Ending)
  /\ WF_moving(ProviderLeaves)
  /\ WF_moving(ProviderResumes)
  /\ WF_moving(HostResumes)

\* driven never changes, so fairness is about the rest of the state.
Spec == Init /\ [][Next]_vars /\ Fairness

-----------------------------------------------------------------------------
(* Properties *)

AppliedUpTo(n) == {applied[i] : i \in 1 .. n}
Answered == {replies[i][1] : i \in DOMAIN replies}

TypeOK ==
  /\ owner \in {"new", "recovering", "accepting", "launched", "running", "interrupting",
                "joining", "stopped", "failing", "failed"}
  /\ {stopping, accepting, halted} \subseteq BOOLEAN
  /\ provider \in {"off", "on", "waiting"}
  /\ (provider = "waiting") = (waitsFor # NoWait)
  /\ host \in 0 .. MaxSyncs
  /\ Len(commands) <= CommandCapacity
  /\ shown \in 0 .. Len(applied) /\ durable \in 0 .. Len(applied)
  /\ (worker # "none" /\ worker # "exited") => owner \notin {"new", "recovering", "accepting", "stopped", "failed"}
  /\ Len(covers) = sent.syncs

\* Every accepted command is answered once, in the order of acceptance, none is
\* left without an answer when stop() returns, and a client that has its answer
\* finds the command's effect in what is published.
AnsweredInOrder ==
  /\ \A i \in DOMAIN replies :
       /\ replies[i][1] = i
       /\ replies[i][2] = "done" => <<"command", i>> \in AppliedUpTo(shown)
  /\ owner = "stopped" => Len(replies) = sent.commands

\* What a barrier waits for: an input the desk has not failed or refused.
Reached(item, upTo) ==
  \/ item \in AppliedUpTo(upTo)
  \/ item[1] = "batch" /\ <<"batch", item[2], "failed">> \in acks
  \/ item[1] = "command" /\ <<item[2], "refused">> \in {replies[i] : i \in DOMAIN replies}

\* A barrier is released only when everything handed over before it is applied and
\* published; in a driven engine it is in synced journals too.
BarriersCover ==
  \A s \in 1 .. sent.syncs : Acked("sync", s) =>
    \A item \in covers[s] : /\ Reached(item, shown)
                            /\ driven => Reached(item, durable)

\* Every wait ends: stop() returns, and so does a start() that failed, whatever the
\* provider waits for, and so does a host's control request, which waits without a
\* deadline; and every command accepted is answered.
WaitsEnd ==
  /\ owner = "interrupting" ~> owner = "stopped"
  /\ owner = "failing" ~> owner = "failed"
  /\ host # 0 ~> host = 0
  /\ \A c \in 1 .. MaxCommands : (sent.commands >= c) ~> (c \in Answered)

=============================================================================
