---------------------------- MODULE EngineProofs ----------------------------
(***************************************************************************)
(* What the engine promises its clients and hosts, for all capacities and  *)
(* any number of events, batches, commands and barriers: accepted commands *)
(* are answered in order, and a released barrier covers what it was for.   *)
(* The invariant follows every input on its way: numbered when it is       *)
(* handed over, then in its queue, then in what the round took, then in    *)
(* the desk.                                                               *)
(***************************************************************************)
EXTENDS Engine, SequenceTheorems, TLAPS

(* What the clients, the provider and the driving host hand to the engine. *)
Inputs == {"event", "batch", "command"}
(* n waits in queue s. *)
In(n, s) == \E i \in 1 .. Len(s) : s[i] = n
(* The first upTo entries of the desk's log have the item. *)
Has(log, upTo, item) == \E i \in 1 .. upTo : log[i] = item
(* The item is among them, or the desk has failed or refused it. *)
Reach(log, upTo, item) ==
  \/ Has(log, upTo, item)
  \/ item[1] = "batch" /\ <<"batch", item[2], "failed">> \in acks
  \/ item[1] = "command" /\ <<item[2], "refused">> \in {replies[i] : i \in DOMAIN replies}

(* The places of the engine thread, in the order of a round. *)
Before == {"none", "check", "check batches", "take syncs", "close"}
Trading == {"command", "show command", "answer"}
Batching == {"batch", "show batch", "ack"}
Closing == {"flush", "show", "release"}
Places == Before \cup {"drain", "swap", "observe"} \cup Trading \cup Batching \cup Closing \cup {"finish", "exited"}
(* The types of what is handed over, taken, answered and logged. *)
Item == Inputs \X Nat
Reply == Nat \X {"done", "refused"}
Taken == [syncs : Seq(Nat), events : Seq(Nat), commands : Seq(Nat), batches : Seq(Nat), last : BOOLEAN]
Sent == [events : Nat, batches : Nat, commands : Nat, syncs : Nat]
(* The type of every variable the round works on. *)
Typed ==
  /\ queue \in Seq(Nat) /\ commands \in Seq(Nat) /\ batches \in Seq(Nat) /\ syncs \in Seq(Nat)
  /\ taken \in Taken
  /\ applied \in Seq(Item) /\ shown \in Nat /\ durable \in Nat
  /\ replies \in Seq(Reply)
  /\ acks \subseteq {"batch", "sync"} \X Nat \X {"done", "failed"}
  /\ sent \in Sent
  /\ covers \in Seq(SUBSET Item) /\ Len(covers) = sent.syncs
(* Nothing is shown or durable that was not applied; only a driver sends batches. *)
Bounded ==
  /\ shown <= Len(applied) /\ durable <= Len(applied)
  /\ ~driven => sent.batches = 0
(* What the round has taken, by where the engine thread is. *)
Placed ==
  /\ worker \in Places
  /\ worker \in Before => taken = Nothing
  /\ worker \in {"drain", "swap"} => taken.commands = <<>> /\ taken.batches = <<>>
  /\ worker = "drain" => taken.events = <<>>
  /\ worker \in {"drain", "swap", "observe"} \cup Batching \cup Closing => ~taken.last
  /\ worker \in {"show command", "answer"} => taken.commands # <<>>
  /\ worker \in {"show batch", "ack"} => taken.batches # <<>>
  /\ worker \in Batching \cup Closing \cup {"finish", "exited"} => taken.commands = <<>>
  /\ worker \in Closing => taken.events = <<>> /\ taken.batches = <<>>
  /\ worker \in Batching \cup {"flush"} => driven
  /\ (worker \in Trading /\ ~driven) => taken.events = <<>>
  /\ (worker \in Trading /\ taken.last) => taken.events = <<>> /\ taken.batches = <<>>
  /\ worker \in {"finish", "exited"} => taken.last
  /\ taken.last => ~accepting /\ commands = <<>>
  /\ owner \in {"new", "recovering", "accepting"} => worker = "none"
  /\ owner = "stopped" => worker = "exited"
(* Commands in the order of acceptance: answered, taken, waiting. *)
Ordered ==
  /\ sent.commands = Len(replies) + Len(taken.commands) + Len(commands)
  /\ \A i \in 1 .. Len(taken.commands) : taken.commands[i] = Len(replies) + i
  /\ \A i \in 1 .. Len(commands) : commands[i] = Len(replies) + Len(taken.commands) + i
  /\ \A i \in 1 .. Len(replies) : replies[i][1] = i /\ (replies[i][2] = "done" => Has(applied, shown, <<"command", i>>))
  /\ (worker = "show command" /\ ~halted) => Has(applied, Len(applied), <<"command", Head(taken.commands)>>)
  /\ (worker = "answer" /\ ~halted) => Has(applied, shown, <<"command", Head(taken.commands)>>)
(* No event or batch is dropped on its way. *)
Tracked ==
  /\ \A n \in 1 .. sent.events : In(n, queue) \/ In(n, taken.events) \/ Has(applied, Len(applied), <<"event", n>>)
  /\ \A n \in 1 .. sent.batches : In(n, batches) \/ In(n, taken.batches) \/ Reach(applied, Len(applied), <<"batch", n>>)
  /\ worker \in {"show batch", "ack"} => Has(applied, Len(applied), <<"batch", Head(taken.batches)>>)
  /\ ~driven => batches = <<>> /\ taken.batches = <<>>
(* A barrier covers what was handed over before it; what it covers was taken with it or
   before it; and it is released when that is shown and, in a driven engine, durable. *)
Numbering(s) == \A item \in covers[s] :
  \/ item[1] = "event" /\ item[2] \in 1 .. sent.events
  \/ item[1] = "batch" /\ item[2] \in 1 .. sent.batches
  \/ item[1] = "command" /\ item[2] \in 1 .. sent.commands
(* What barrier s is for and the round has taken is with the round or in the desk. *)
EventsTaken(s) == \A n \in Nat : <<"event", n>> \in covers[s] =>
  In(n, taken.events) \/ Has(applied, Len(applied), <<"event", n>>)
BatchesTaken(s) == \A n \in Nat : <<"batch", n>> \in covers[s] =>
  In(n, taken.batches) \/ Reach(applied, Len(applied), <<"batch", n>>)
CommandsTaken(s) == \A n \in Nat : <<"command", n>> \in covers[s] => n <= Len(replies) + Len(taken.commands)
(* The log, up to there, has all that barrier s is for. *)
Covered(s, upTo) == \A item \in covers[s] : Reach(applied, upTo, item)
(* What holds of a barrier the round has taken, at each place. *)
Taking(s) ==
  /\ s \in 1 .. sent.syncs
  /\ worker # "drain" => EventsTaken(s)
  /\ worker \notin {"drain", "swap"} => BatchesTaken(s) /\ CommandsTaken(s)
  /\ worker \in {"show", "release"} /\ driven => Covered(s, durable)
  /\ worker = "release" => Covered(s, shown)
(* What holds of a barrier that was released. *)
Released(s) == Covered(s, shown) /\ (driven => Covered(s, durable))
Barriers ==
  /\ \A s \in 1 .. sent.syncs : Numbering(s)
  /\ \A s \in Nat : In(s, syncs) => s \in 1 .. sent.syncs
  /\ \A s \in Nat : In(s, taken.syncs) => Taking(s)
  /\ \A s \in Nat : (<<"sync", s, "done">> \in acks \/ <<"sync", s, "failed">> \in acks) => s \in 1 .. sent.syncs /\ Released(s)
(* The invariant. *)
EngineInv == Typed /\ Bounded /\ Placed /\ Ordered /\ Tracked /\ Barriers

-----------------------------------------------------------------------------
(* Sequences *)

(* The length of a sequence. *)
LEMMA Lengths == \A T : \A s \in Seq(T) : Len(s) \in Nat /\ Len(s) <= Len(s)
OBVIOUS

(* One moves from the taken to the answered, or one more is accepted. *)
LEMMA Counts ==
  ASSUME NEW r \in Nat, NEW t \in Nat, NEW c \in Nat, NEW total, total = r + t + c
  PROVE  total + 1 = r + t + (c + 1) /\ total = (r + 1) + (t - 1) + c
         /\ \A i \in Nat : r + t + i = (r + 1) + (t - 1) + i
OBVIOUS

(* Arithmetic for the commands answered and taken together. *)
LEMMA OneOver == \A r, t \in Nat : r + t <= (r + 1) + (t - 1)
OBVIOUS

(* At most, step by step. *)
LEMMA Onwards == \A n, m, k \in Nat : n <= m /\ m <= k => n <= k
OBVIOUS

(* With nothing waiting, every number given is answered or taken. *)
LEMMA NoMore == \A r, t \in Nat : \A n, total, rest : n \in 1 .. total /\ rest = 0 /\ total = r + t + rest => n <= r + t
OBVIOUS

(* A longer range holds the shorter. *)
LEMMA Wider == \A m, k \in Nat : m <= k => \A s \in 1 .. m : s \in 1 .. k
OBVIOUS

(* A sequence with one more at its end. *)
LEMMA Appended ==
  ASSUME NEW T, NEW s \in Seq(T), NEW m \in T
  PROVE  /\ Append(s, m) \in Seq(T) /\ Len(Append(s, m)) = Len(s) + 1 /\ Len(s) \in Nat
         /\ \A i \in 1 .. Len(s) : Append(s, m)[i] = s[i]
         /\ Append(s, m)[Len(s) + 1] = m
OBVIOUS

(* A sequence without its first. *)
LEMMA Tailed ==
  ASSUME NEW T, NEW s \in Seq(T), s # <<>>
  PROVE  /\ Tail(s) \in Seq(T) /\ Len(Tail(s)) = Len(s) - 1 /\ Len(s) \in Nat \ {0} /\ Head(s) = s[1] /\ Head(s) \in T
         /\ \A i \in 1 .. Len(Tail(s)) : Tail(s)[i] = s[i + 1]
BY HeadTailProperties

(* Two sequences, one after the other. *)
LEMMA Joined ==
  ASSUME NEW T, NEW s \in Seq(T), NEW t \in Seq(T)
  PROVE  /\ s \o t \in Seq(T) /\ Len(s \o t) = Len(s) + Len(t) /\ Len(s) \in Nat /\ Len(t) \in Nat
         /\ \A i \in 1 .. Len(s) : (s \o t)[i] = s[i]
         /\ \A i \in 1 .. Len(t) : (s \o t)[Len(s) + i] = t[i]
BY ConcatProperties

(* What is not first is in the rest. *)
LEMMA InTail ==
  ASSUME NEW s \in Seq(Nat), s # <<>>, NEW n, In(n, s)
  PROVE  n = Head(s) \/ In(n, Tail(s))
<1>1. PICK i \in 1 .. Len(s) : s[i] = n
  BY DEF In
<1>2. CASE i = 1
  BY <1>1, <1>2, Tailed
<1>3. CASE i # 1
  <2>1. i - 1 \in 1 .. Len(Tail(s)) /\ Tail(s)[i - 1] = s[i]
    BY <1>3, Tailed
  <2> QED BY <1>1, <2>1 DEF In
<1> QED BY <1>2, <1>3

(* What was put at the end is in, and what was in stays in. *)
LEMMA InAppended ==
  ASSUME NEW s \in Seq(Nat), NEW m \in Nat
  PROVE  In(m, Append(s, m)) /\ \A n : In(n, s) => In(n, Append(s, m))
BY Appended DEF In

(* The log entries of a queue, in its order. *)
LEMMA Items ==
  ASSUME NEW kind \in Inputs, NEW s \in Seq(Nat)
  PROVE  /\ AsItems(kind, s) \in Seq(Item) /\ Len(AsItems(kind, s)) = Len(s)
         /\ \A i \in 1 .. Len(s) : AsItems(kind, s)[i] = <<kind, s[i]>>
BY DEF AsItems, Item

-----------------------------------------------------------------------------
(* What every step does: the desk's log, the answers and the histories only grow. *)

(* Nothing the desk, the answers and the histories hold is taken back. *)
Growing ==
  /\ Len(applied) <= Len(applied') /\ \A i \in 1 .. Len(applied) : applied'[i] = applied[i]
  /\ Len(replies) <= Len(replies') /\ \A i \in 1 .. Len(replies) : replies'[i] = replies[i]
  /\ acks \subseteq acks' /\ shown <= shown' /\ durable <= durable'
  /\ sent.events <= sent'.events /\ sent.batches <= sent'.batches /\ sent.commands <= sent'.commands
  /\ sent.syncs <= sent'.syncs /\ \A s \in 1 .. sent.syncs : covers'[s] = covers[s]

\* Numbered as it is handed over, put in its queue, or taken from it whole.
Passed(q, n, new) == new \in {q, <<>>, Append(q, n + 1)}
(* What a step does to the queues and to what was handed over. *)
HandsOver ==
  /\ Passed(queue, sent.events, queue') /\ Passed(batches, sent.batches, batches')
  /\ Passed(commands, sent.commands, commands')
  /\ \/ /\ sent' \in {sent, [sent EXCEPT !.events = @ + 1], [sent EXCEPT !.commands = @ + 1]}
        /\ covers' = covers /\ syncs' \in {syncs, <<>>}
     \/ /\ driven /\ sent' = [sent EXCEPT !.batches = @ + 1] /\ covers' = covers /\ syncs' = syncs
     \/ /\ sent' = [sent EXCEPT !.syncs = @ + 1] /\ covers' = Append(covers, HandedOver)
        /\ syncs' = Append(syncs, sent.syncs + 1)
(* What a step does to the desk's log, the answers and the acknowledgements. *)
Logs ==
  /\ \/ applied' \in {applied, applied \o AsItems("event", taken.events)}
     \/ taken.commands # <<>> /\ applied' = Append(applied, <<"command", Head(taken.commands)>>)
     \/ taken.batches # <<>> /\ applied' = Append(applied, <<"batch", Head(taken.batches)>>)
  /\ shown' \in {shown, Len(applied')} /\ durable' \in {durable, Len(applied')}
  /\ \/ replies' = replies
     \/ /\ taken.commands # <<>>
        /\ \E outcome \in {"done", "refused"} : replies' = Append(replies, <<Head(taken.commands), outcome>>)
  /\ \/ acks' = acks
     \/ taken.batches # <<>> /\ \E outcome \in {"done", "failed"} : acks' = acks \cup {<<"batch", Head(taken.batches), outcome>>}
     \/ /\ worker = "release"
        /\ acks' = acks \cup {<<"sync", taken.syncs[i], "done">> : i \in DOMAIN taken.syncs}
(* What a step does to what the round has taken. *)
Takes ==
  \/ taken' \in {taken, Nothing, [taken EXCEPT !.syncs = syncs], [taken EXCEPT !.events = queue],
                [taken EXCEPT !.commands = commands, !.batches = batches], [taken EXCEPT !.events = <<>>],
                [taken EXCEPT !.commands = commands, !.last = TRUE]}
  \/ taken.commands # <<>> /\ taken' = [taken EXCEPT !.commands = Tail(@)]
  \/ taken.batches # <<>> /\ taken' = [taken EXCEPT !.batches = Tail(@)]

(* Every step does one of these. *)
LEMMA Changes == ASSUME Next, Placed PROVE HandsOver /\ Logs /\ Takes /\ driven' = driven
<1>0. driven' = driven
  BY DEF Next
<1> SUFFICES HandsOver /\ Logs /\ Takes
  BY <1>0
<1> USE DEF HandsOver, Passed, Logs, Takes, control, feed, inputs, desk, answers, history, At, Goto, Placed
<1>1. CASE ProviderPublishes
  BY <1>1 DEF ProviderPublishes, Publish
<1>2. CASE ProviderDrives
  BY <1>2 DEF ProviderDrives
<1>3. CASE ProviderSynchronizes
  BY <1>3 DEF ProviderSynchronizes, Synchronize
<1>4. CASE ProviderResumes
  BY <1>4 DEF ProviderResumes
<1>5. CASE ProviderLeaves
  BY <1>5 DEF ProviderLeaves, Publish
<1>6. CASE PostTrading
  BY <1>6 DEF PostTrading
<1>7. CASE HostSynchronizes
  BY <1>7 DEF HostSynchronizes, Synchronize
<1>8. CASE HostResumes
  BY <1>8 DEF HostResumes
<1>9. CASE StartProvider
  BY <1>9 DEF StartProvider
<1>10. CASE AcceptCommands
  BY <1>10 DEF AcceptCommands
<1>11. CASE Launch
  BY <1>11 DEF Launch
<1>12. CASE Started
  BY <1>12 DEF Started
<1>13. CASE StartFails
  BY <1>13 DEF StartFails
<1>14. CASE CleanUp
  BY <1>14 DEF CleanUp
<1>15. CASE Stop
  BY <1>15 DEF Stop
<1>16. CASE RaiseStopping
  BY <1>16 DEF RaiseStopping
<1>17. CASE Join
  BY <1>17 DEF Join
<1>18. CASE CheckQueue
  BY <1>18 DEF CheckQueue, Drained
<1>19. CASE CheckBatches
  BY <1>19 DEF CheckBatches, MayExit
<1>20. CASE TakeSyncs
  BY <1>20 DEF TakeSyncs
<1>21. CASE Drain
  BY <1>21 DEF Drain
<1>22. CASE Swap
  BY <1>22 DEF Swap, TakenBySwap
<1>23. CASE Observe
  BY <1>23 DEF Observe
<1>24. CASE Execute
  BY <1>24 DEF Execute
<1>25. CASE ShowCommand
  BY <1>25 DEF ShowCommand, PublishedForCommand
<1>26. CASE Answer
  BY <1>26 DEF Answer
<1>27. CASE CommandsDone
  BY <1>27 DEF CommandsDone, AfterCommands
<1>28. CASE ReplayBatch
  BY <1>28 DEF ReplayBatch
<1>29. CASE ReplayBatchFails
  BY <1>29 DEF ReplayBatchFails
<1>30. CASE ShowBatch
  BY <1>30 DEF ShowBatch, PublishedForBatch
<1>31. CASE AckBatch
  BY <1>31 DEF AckBatch
<1>32. CASE UpdateHealth
  BY <1>32 DEF UpdateHealth
<1>33. CASE Flush
  BY <1>33 DEF Flush, MustFlush
<1>34. CASE Show
  BY <1>34 DEF Show
<1>35. CASE Release
  BY <1>35 DEF Release
<1>36. CASE Close
  BY <1>36 DEF Close, LeftOver
<1>37. CASE Finish
  BY <1>37 DEF Finish
<1> QED BY <1>1, <1>2, <1>3, <1>4, <1>5, <1>6, <1>7, <1>8, <1>9, <1>10, <1>11, <1>12, <1>13, <1>14, <1>15,
           <1>16, <1>17, <1>18, <1>19, <1>20, <1>21, <1>22, <1>23, <1>24, <1>25, <1>26, <1>27, <1>28, <1>29,
           <1>30, <1>31, <1>32, <1>33, <1>34, <1>35, <1>36, <1>37
   DEF Next, Worker, Owner, Ending, Provider, Clients

(* A queue of numbers stays one. *)
LEMMA PassedTyped ==
  ASSUME NEW q \in Seq(Nat), NEW n \in Nat, NEW new, Passed(q, n, new)
  PROVE  new \in Seq(Nat)
<1>1. n + 1 \in Nat
  OBVIOUS
<1>2. Append(q, n + 1) \in Seq(Nat) /\ <<>> \in Seq(Nat)
  BY <1>1, Appended
<1> QED BY <1>2 DEF Passed

(* Counts of what was sent stay counts. *)
LEMMA SentTyped ==
  ASSUME NEW s \in Sent
  PROVE  /\ s.events \in Nat /\ s.batches \in Nat /\ s.commands \in Nat /\ s.syncs \in Nat
         /\ [s EXCEPT !.events = @ + 1] \in Sent /\ [s EXCEPT !.batches = @ + 1] \in Sent
         /\ [s EXCEPT !.commands = @ + 1] \in Sent /\ [s EXCEPT !.syncs = @ + 1] \in Sent
BY DEF Sent

(* What the round has taken keeps its type in every way a step changes it. *)
LEMMA TakenTyped ==
  ASSUME NEW t \in Taken
  PROVE  /\ t.syncs \in Seq(Nat) /\ t.events \in Seq(Nat) /\ t.commands \in Seq(Nat) /\ t.batches \in Seq(Nat)
         /\ \A q \in Seq(Nat) : /\ [t EXCEPT !.syncs = q] \in Taken /\ [t EXCEPT !.events = q] \in Taken
                              /\ [t EXCEPT !.commands = q] \in Taken /\ [t EXCEPT !.batches = q] \in Taken
                              /\ [t EXCEPT !.commands = q, !.last = TRUE] \in Taken
                              /\ \A p \in Seq(Nat) : [t EXCEPT !.commands = q, !.batches = p] \in Taken
BY DEF Taken

(* Types, bounds, and that nothing logged, answered or handed over is forgotten. *)
LEMMA TypesKept == ASSUME EngineInv, Next PROVE Typed' /\ Bounded' /\ Growing
<1>1. HandsOver /\ Logs /\ Takes /\ driven' = driven
  BY Changes DEF EngineInv
<1>2. Typed /\ Bounded
  BY DEF EngineInv
<1>3. /\ queue' \in Seq(Nat) /\ commands' \in Seq(Nat) /\ batches' \in Seq(Nat) /\ syncs' \in Seq(Nat)
  <2>1. sent.events \in Nat /\ sent.batches \in Nat /\ sent.commands \in Nat /\ sent.syncs \in Nat
    BY <1>2, SentTyped DEF Typed
  <2>2. queue' \in Seq(Nat) /\ commands' \in Seq(Nat) /\ batches' \in Seq(Nat)
    BY <1>1, <1>2, <2>1, PassedTyped DEF HandsOver, Typed
  <2>3. Passed(syncs, sent.syncs, syncs')
    BY <1>1 DEF HandsOver, Passed
  <2> QED BY <1>2, <2>1, <2>2, <2>3, PassedTyped DEF Typed
<1>4. /\ sent' \in Sent /\ sent.events <= sent'.events /\ sent.batches <= sent'.batches
      /\ sent.commands <= sent'.commands /\ sent.syncs <= sent'.syncs
      /\ ~driven => sent'.batches = sent.batches
  <2>1. sent \in Sent
    BY <1>2 DEF Typed
  <2> QED BY <1>1, <2>1 DEF HandsOver, Sent
<1>5. covers' \in Seq(SUBSET Item) /\ Len(covers') = sent'.syncs /\ \A s \in 1 .. sent.syncs : covers'[s] = covers[s]
  <2>1. CASE covers' = covers /\ sent'.syncs = sent.syncs
    BY <1>2, <2>1 DEF Typed
  <2>2. CASE covers' = Append(covers, HandedOver) /\ sent'.syncs = sent.syncs + 1
    <3>1. HandedOver \in SUBSET Item
      <4>1. sent.events \in Nat /\ sent.batches \in Nat /\ sent.commands \in Nat
        BY <1>2, SentTyped DEF Typed
      <4>2. ASSUME NEW kind \in Inputs, NEW n \in Nat PROVE Numbered(kind, n) \subseteq Item
        BY DEF Numbered, Item
      <4> QED BY <4>1, <4>2 DEF HandedOver, Inputs
    <3> QED BY <1>2, <2>2, <3>1, Appended DEF Typed
  <2>3. sent \in Sent
    BY <1>2 DEF Typed
  <2>4. \/ covers' = covers /\ sent'.syncs = sent.syncs
        \/ covers' = Append(covers, HandedOver) /\ sent'.syncs = sent.syncs + 1
    BY <1>1, <2>3 DEF HandsOver, Sent
  <2> QED BY <2>1, <2>2, <2>4
<1>6. /\ applied' \in Seq(Item) /\ Len(applied) \in Nat /\ Len(applied') \in Nat /\ Len(applied) <= Len(applied')
      /\ \A i \in 1 .. Len(applied) : applied'[i] = applied[i]
  <2>1. applied \in Seq(Item) /\ taken \in Taken /\ Len(applied) \in Nat
    BY <1>2 DEF Typed
  <2>2. CASE applied' = applied
    BY <2>1, <2>2
  <2>3. CASE applied' = applied \o AsItems("event", taken.events)
    <3>1. AsItems("event", taken.events) \in Seq(Item)
      BY <2>1, Items, TakenTyped DEF Inputs
    <3> QED BY <2>1, <2>3, <3>1, Joined
  <2>4. CASE taken.commands # <<>> /\ applied' = Append(applied, <<"command", Head(taken.commands)>>)
    <3>1. Head(taken.commands) \in Nat
      BY <2>1, <2>4, TakenTyped, Tailed
    <3>2. <<"command", Head(taken.commands)>> \in Item
      BY <3>1 DEF Item, Inputs
    <3> QED BY <2>1, <2>4, <3>2, Appended
  <2>5. CASE taken.batches # <<>> /\ applied' = Append(applied, <<"batch", Head(taken.batches)>>)
    <3>1. Head(taken.batches) \in Nat
      BY <2>1, <2>5, TakenTyped, Tailed
    <3>2. <<"batch", Head(taken.batches)>> \in Item
      BY <3>1 DEF Item, Inputs
    <3> QED BY <2>1, <2>5, <3>2, Appended
  <2> QED BY <1>1, <2>2, <2>3, <2>4, <2>5 DEF Logs
<1>7. /\ shown' \in Nat /\ durable' \in Nat /\ shown <= shown' /\ durable <= durable'
      /\ shown' <= Len(applied') /\ durable' <= Len(applied')
  BY <1>1, <1>2, <1>6 DEF Logs, Typed, Bounded
<1>8. /\ replies' \in Seq(Reply) /\ Len(replies) <= Len(replies')
      /\ \A i \in 1 .. Len(replies) : replies'[i] = replies[i]
  <2>1. replies \in Seq(Reply) /\ taken \in Taken /\ Len(replies) \in Nat
    BY <1>2 DEF Typed
  <2>2. CASE replies' = replies
    BY <2>1, <2>2
  <2>3. ASSUME taken.commands # <<>>, NEW outcome \in {"done", "refused"},
               replies' = Append(replies, <<Head(taken.commands), outcome>>)
        PROVE  /\ replies' \in Seq(Reply) /\ Len(replies) <= Len(replies')
               /\ \A i \in 1 .. Len(replies) : replies'[i] = replies[i]
    <3>1. Head(taken.commands) \in Nat
      BY <2>1, <2>3, TakenTyped, Tailed
    <3>2. <<Head(taken.commands), outcome>> \in Reply
      BY <3>1 DEF Reply
    <3> QED BY <2>1, <2>3, <3>2, Appended
  <2> QED BY <1>1, <2>2, <2>3 DEF Logs
<1>9. acks \subseteq acks' /\ acks' \subseteq {"batch", "sync"} \X Nat \X {"done", "failed"}
  <2>1. acks \subseteq {"batch", "sync"} \X Nat \X {"done", "failed"} /\ taken \in Taken
    BY <1>2 DEF Typed
  <2>2. CASE acks' = acks
    BY <2>1, <2>2
  <2>3. ASSUME taken.batches # <<>>, NEW outcome \in {"done", "failed"},
               acks' = acks \cup {<<"batch", Head(taken.batches), outcome>>}
        PROVE  acks \subseteq acks' /\ acks' \subseteq {"batch", "sync"} \X Nat \X {"done", "failed"}
    <3>1. Head(taken.batches) \in Nat
      BY <2>1, <2>3, TakenTyped, Tailed
    <3> QED BY <2>1, <2>3, <3>1
  <2>4. CASE acks' = acks \cup {<<"sync", taken.syncs[i], "done">> : i \in DOMAIN taken.syncs}
    <3>1. taken.syncs \in Seq(Nat)
      BY <2>1, TakenTyped
    <3>2. \A i \in DOMAIN taken.syncs : taken.syncs[i] \in Nat
      BY <3>1
    <3> QED BY <2>1, <2>4, <3>2
  <2> QED BY <1>1, <2>2, <2>3, <2>4 DEF Logs
<1>10. taken' \in Taken
  <2>1. taken \in Taken /\ queue \in Seq(Nat) /\ commands \in Seq(Nat) /\ batches \in Seq(Nat) /\ syncs \in Seq(Nat)
    BY <1>2 DEF Typed
  <2>2. Nothing \in Taken /\ <<>> \in Seq(Nat)
    BY DEF Nothing, Taken
  <2>3. taken.commands # <<>> => Tail(taken.commands) \in Seq(Nat)
    BY <2>1, TakenTyped, Tailed
  <2>4. taken.batches # <<>> => Tail(taken.batches) \in Seq(Nat)
    BY <2>1, TakenTyped, Tailed
  <2>5. /\ [taken EXCEPT !.syncs = syncs] \in Taken /\ [taken EXCEPT !.events = queue] \in Taken
        /\ [taken EXCEPT !.commands = commands, !.batches = batches] \in Taken
        /\ [taken EXCEPT !.events = <<>>] \in Taken /\ [taken EXCEPT !.commands = commands, !.last = TRUE] \in Taken
    BY <2>1, <2>2, TakenTyped
  <2>6. taken.commands # <<>> => [taken EXCEPT !.commands = Tail(@)] \in Taken
    BY <2>1, <2>3, TakenTyped
  <2>7. taken.batches # <<>> => [taken EXCEPT !.batches = Tail(@)] \in Taken
    BY <2>1, <2>4, TakenTyped
  <2> QED BY <1>1, <2>1, <2>2, <2>5, <2>6, <2>7 DEF Takes
<1>11. Typed'
  BY <1>3, <1>4, <1>5, <1>6, <1>7, <1>8, <1>9, <1>10 DEF Typed
<1>12. Bounded'
  BY <1>1, <1>2, <1>4, <1>7 DEF Bounded
<1>13. Growing
  BY <1>4, <1>5, <1>6, <1>7, <1>8, <1>9 DEF Growing
<1> QED BY <1>11, <1>12, <1>13

(* A step leaves the engine thread where the round says it may be with what it has taken. *)
LEMMA PlacedKept == ASSUME EngineInv, Next PROVE Placed'
<1>0. Placed /\ taken \in Taken /\ commands \in Seq(Nat) /\ driven' = driven
      /\ (~driven => taken.batches = <<>> /\ batches = <<>>)
  BY DEF EngineInv, Typed, Next, Tracked
<1> USE DEF Placed, Places, Before, Trading, Batching, Closing, Taken, Nothing, At, Goto,
       control, feed, inputs, desk, answers, history
<1>1. CASE ProviderPublishes
  BY <1>0, <1>1 DEF ProviderPublishes, Publish
<1>2. CASE ProviderDrives
  BY <1>0, <1>2 DEF ProviderDrives
<1>3. CASE ProviderSynchronizes
  BY <1>0, <1>3 DEF ProviderSynchronizes, Synchronize
<1>4. CASE ProviderResumes
  BY <1>0, <1>4 DEF ProviderResumes
<1>5. CASE ProviderLeaves
  BY <1>0, <1>5 DEF ProviderLeaves, Publish
<1>6. CASE PostTrading
  BY <1>0, <1>6 DEF PostTrading
<1>7. CASE HostSynchronizes
  BY <1>0, <1>7 DEF HostSynchronizes, Synchronize
<1>8. CASE HostResumes
  BY <1>0, <1>8 DEF HostResumes
<1>9. CASE StartProvider
  BY <1>0, <1>9 DEF StartProvider
<1>10. CASE AcceptCommands
  BY <1>0, <1>10 DEF AcceptCommands
<1>11. CASE Launch
  BY <1>0, <1>11 DEF Launch
<1>12. CASE Started
  BY <1>0, <1>12 DEF Started
<1>13. CASE StartFails
  BY <1>0, <1>13 DEF StartFails
<1>14. CASE CleanUp
  BY <1>0, <1>14 DEF CleanUp
<1>15. CASE Stop
  BY <1>0, <1>15 DEF Stop
<1>16. CASE RaiseStopping
  BY <1>0, <1>16 DEF RaiseStopping
<1>17. CASE Join
  BY <1>0, <1>17 DEF Join
<1>18. CASE CheckQueue
  BY <1>0, <1>18 DEF CheckQueue, Drained
<1>19. CASE CheckBatches
  BY <1>0, <1>19 DEF CheckBatches, MayExit
<1>20. CASE TakeSyncs
  <2>1. taken' = [taken EXCEPT !.syncs = syncs] /\ worker' = "drain" /\ taken = Nothing
    BY <1>0, <1>20 DEF TakeSyncs
  <2>2. taken'.commands = <<>> /\ taken'.batches = <<>> /\ taken'.events = <<>> /\ ~taken'.last
    BY <2>1
  <2>3. UNCHANGED <<driven, accepting, commands, owner>>
    BY <1>0, <1>20 DEF TakeSyncs
  <2> QED BY <1>0, <1>20, <2>1, <2>2, <2>3 DEF TakeSyncs
<1>21. CASE Drain
  BY <1>0, <1>21 DEF Drain
<1>22. CASE Swap
  BY <1>0, <1>22 DEF Swap, TakenBySwap
<1>23. CASE Observe
  BY <1>0, <1>23 DEF Observe
<1>24. CASE Execute
  BY <1>0, <1>24 DEF Execute
<1>25. CASE ShowCommand
  BY <1>0, <1>25 DEF ShowCommand, PublishedForCommand
<1>26. CASE Answer
  BY <1>0, <1>26 DEF Answer
<1>27. CASE CommandsDone
  BY <1>0, <1>27 DEF CommandsDone, AfterCommands
<1>28. CASE ReplayBatch
  BY <1>0, <1>28 DEF ReplayBatch
<1>29. CASE ReplayBatchFails
  BY <1>0, <1>29 DEF ReplayBatchFails
<1>30. CASE ShowBatch
  BY <1>0, <1>30 DEF ShowBatch, PublishedForBatch
<1>31. CASE AckBatch
  BY <1>0, <1>31 DEF AckBatch
<1>32. CASE UpdateHealth
  BY <1>0, <1>32 DEF UpdateHealth
<1>33. CASE Flush
  BY <1>0, <1>33 DEF Flush, MustFlush
<1>34. CASE Show
  BY <1>0, <1>34 DEF Show
<1>35. CASE Release
  BY <1>0, <1>35 DEF Release
<1>36. CASE Close
  BY <1>0, <1>36 DEF Close, LeftOver
<1>37. CASE Finish
  BY <1>0, <1>37 DEF Finish
<1> QED BY <1>1, <1>2, <1>3, <1>4, <1>5, <1>6, <1>7, <1>8, <1>9, <1>10, <1>11, <1>12, <1>13, <1>14, <1>15,
           <1>16, <1>17, <1>18, <1>19, <1>20, <1>21, <1>22, <1>23, <1>24, <1>25, <1>26, <1>27, <1>28, <1>29,
           <1>30, <1>31, <1>32, <1>33, <1>34, <1>35, <1>36, <1>37
   DEF Next, Worker, Owner, Ending, Provider, Clients

(* What is in the log up to a point is in the grown log up to any later one. *)
LEMMA HasStays ==
  ASSUME Typed, Bounded, Growing, NEW upTo \in Nat, upTo <= Len(applied), NEW on \in Nat, upTo <= on, NEW item,
         Has(applied, upTo, item)
  PROVE  Has(applied', on, item)
<1>1. PICK i \in 1 .. upTo : applied[i] = item
  BY DEF Has
<1>2. Len(applied) \in Nat
  BY DEF Typed
<1>3. i \in 1 .. Len(applied) /\ i \in 1 .. on
  BY <1>2
<1>4. applied'[i] = item
  BY <1>1, <1>3 DEF Growing
<1> QED BY <1>3, <1>4 DEF Has

(* What was reached stays reached. *)
LEMMA ReachStays ==
  ASSUME Typed, Bounded, Growing, NEW upTo \in Nat, upTo <= Len(applied), NEW on \in Nat, upTo <= on, NEW item,
         Reach(applied, upTo, item)
  PROVE  Reach(applied, on, item)'
<1>1. CASE Has(applied, upTo, item)
  BY <1>1, HasStays DEF Reach
<1>2. CASE item[1] = "batch" /\ <<"batch", item[2], "failed">> \in acks
  BY <1>2 DEF Reach, Growing
<1>3. CASE item[1] = "command" /\ <<item[2], "refused">> \in {replies[i] : i \in DOMAIN replies}
  <2>1. replies \in Seq(Reply)
    BY DEF Typed
  <2>2. PICK i \in 1 .. Len(replies) : replies[i] = <<item[2], "refused">>
    BY <1>3, <2>1
  <2>3. i \in DOMAIN replies' /\ replies'[i] = <<item[2], "refused">>
    BY <2>1, <2>2 DEF Growing
  <2> QED BY <1>3, <2>3 DEF Reach
<1> QED BY <1>1, <1>2, <1>3 DEF Reach

(* What was answered "done" stays shown. *)
LEMMA RepliesStay ==
  ASSUME EngineInv, Typed', Growing, replies' = replies
  PROVE  \A i \in 1 .. Len(replies) :
           replies[i][1] = i /\ (replies[i][2] = "done" => Has(applied', shown', <<"command", i>>))
<1>1. Typed /\ Bounded /\ Ordered /\ shown \in Nat /\ shown' \in Nat /\ shown <= shown' /\ shown <= Len(applied)
  BY DEF EngineInv, Typed, Bounded, Growing
<1> SUFFICES ASSUME NEW i \in 1 .. Len(replies)
             PROVE  replies[i][1] = i /\ (replies[i][2] = "done" => Has(applied', shown', <<"command", i>>))
  OBVIOUS
<1>2. replies[i][1] = i /\ (replies[i][2] = "done" => Has(applied, shown, <<"command", i>>))
  BY <1>1 DEF Ordered
<1>3. ASSUME Has(applied, shown, <<"command", i>>) PROVE Has(applied', shown', <<"command", i>>)
  BY <1>1, <1>3, HasStays
<1> QED BY <1>2, <1>3

(* A step that neither takes, answers nor accepts commands. *)
LEMMA OrderStays ==
  ASSUME EngineInv, Typed', Bounded', Growing, commands' = commands, replies' = replies,
         taken'.commands = taken.commands, sent'.commands = sent.commands,
         worker' \in {"show command", "answer"} => worker' = worker /\ halted' = halted
  PROVE  Ordered'
<1>1. Typed /\ Bounded /\ Ordered
  BY DEF EngineInv
<1>2. /\ sent'.commands = Len(replies') + Len(taken'.commands) + Len(commands')
      /\ \A i \in 1 .. Len(taken'.commands) : taken'.commands[i] = Len(replies') + i
      /\ \A i \in 1 .. Len(commands') : commands'[i] = Len(replies') + Len(taken'.commands) + i
  BY <1>1 DEF Ordered
<1>3. shown \in Nat /\ shown' \in Nat /\ shown <= shown' /\ shown <= Len(applied) /\ Len(applied) \in Nat
      /\ Len(applied') \in Nat /\ Len(applied) <= Len(applied')
  <2>1. applied \in Seq(Item) /\ applied' \in Seq(Item) /\ shown \in Nat /\ shown' \in Nat
    BY <1>1 DEF Typed
  <2>2. Len(applied) \in Nat /\ Len(applied') \in Nat
    BY <2>1, Lengths
  <2> QED BY <1>1, <2>1, <2>2 DEF Bounded, Growing
<1>4. \A i \in 1 .. Len(replies') :
        replies'[i][1] = i /\ (replies'[i][2] = "done" => Has(applied', shown', <<"command", i>>))
  BY RepliesStay
<1>5. (worker' = "show command" /\ ~halted') => Has(applied', Len(applied'), <<"command", Head(taken'.commands)>>)
  <2>1. Ordered /\ taken'.commands = taken.commands
    BY <1>1
  <2>2. ASSUME worker' = "show command", ~halted' PROVE Has(applied, Len(applied), <<"command", Head(taken.commands)>>)
    BY <2>1, <2>2 DEF Ordered
  <2>3. ASSUME Has(applied, Len(applied), <<"command", Head(taken.commands)>>)
        PROVE  Has(applied', Len(applied'), <<"command", Head(taken.commands)>>)
    <3> DEFINE n == Len(applied)
    <3>0. Len(applied) \in Nat /\ Len(applied') \in Nat /\ Len(applied) <= Len(applied')
      BY <1>3, Zenon
    <3>1. n \in Nat /\ Len(applied') \in Nat /\ n <= Len(applied')
      BY <3>0, Zenon
    <3> HIDE DEF n
    <3>2. Has(applied, n, <<"command", Head(taken.commands)>>)
      BY <2>3 DEF n
    <3>3. n <= Len(applied)
      <4>1. applied \in Seq(Item)
        BY <1>1 DEF Typed
      <4> QED BY <4>1, Lengths DEF n
    <3> QED BY <1>1, <3>1, <3>2, <3>3, HasStays
  <2> QED BY <2>1, <2>2, <2>3
<1>6. (worker' = "answer" /\ ~halted') => Has(applied', shown', <<"command", Head(taken'.commands)>>)
  BY <1>1, <1>3, HasStays DEF Ordered
<1> QED BY <1>2, <1>4, <1>5, <1>6 DEF Ordered

(* Commands stay in the order of acceptance, each shown before it is answered as done. *)
LEMMA OrderedKept == ASSUME EngineInv, Next PROVE Ordered'
<1>0. /\ Typed' /\ Bounded' /\ Growing /\ taken \in Taken /\ sent \in Sent /\ Placed
  BY TypesKept DEF EngineInv, Typed
<1>a. ASSUME commands' = commands, replies' = replies, taken'.commands = taken.commands, sent'.commands = sent.commands,
             worker' \in {"show command", "answer"} => worker' = worker /\ halted' = halted
      PROVE  Ordered'
  BY <1>0, <1>a, OrderStays
<1>e. replies' = replies => \A i \in 1 .. Len(replies) :
        replies'[i][1] = i /\ (replies'[i][2] = "done" => Has(applied', shown', <<"command", i>>))
  BY <1>0, RepliesStay DEF EngineInv
<1>b. ASSUME commands' = Append(commands, sent.commands + 1), sent' = [sent EXCEPT !.commands = @ + 1],
             UNCHANGED <<replies, taken, worker, halted, applied, shown>>
      PROVE  Ordered'
  <2>1. Ordered /\ commands \in Seq(Nat) /\ sent.commands \in Nat /\ sent'.commands = sent.commands + 1
    BY <1>0, <1>b DEF EngineInv, Typed, Sent
  <2>2. /\ Len(commands') = Len(commands) + 1 /\ Len(commands) \in Nat /\ commands'[Len(commands) + 1] = sent.commands + 1
        /\ \A i \in 1 .. Len(commands) : commands'[i] = commands[i]
    BY <1>b, <2>1, Appended
  <2>3. Len(replies) \in Nat /\ Len(taken.commands) \in Nat
    <3>1. replies \in Seq(Reply) /\ taken.commands \in Seq(Nat)
      BY <1>0, TakenTyped DEF EngineInv, Typed
    <3> QED BY <3>1, Lengths
  <2>4. sent'.commands = Len(replies') + Len(taken'.commands) + Len(commands')
    <3>1. sent.commands = Len(replies) + Len(taken.commands) + Len(commands)
      BY <2>1 DEF Ordered
    <3>2. replies' = replies /\ taken'.commands = taken.commands
      BY <1>b
    <3>3. sent.commands + 1 = Len(replies) + Len(taken.commands) + (Len(commands) + 1)
      <4>1. Len(commands) \in Nat /\ Len(replies) \in Nat /\ Len(taken.commands) \in Nat
        BY <2>2, <2>3, Zenon
      <4> DEFINE r == Len(replies)
                 t == Len(taken.commands)
                 c == Len(commands)
      <4>2. sent.commands = r + t + c /\ r \in Nat /\ t \in Nat /\ c \in Nat
        BY <3>1, <4>1, Zenon
      <4> HIDE DEF r, t, c
      <4>3. sent.commands + 1 = r + t + (c + 1)
        BY <4>2, Counts
      <4> QED BY <4>3, Zenon DEF r, t, c
    <3>4. sent'.commands = sent.commands + 1 /\ Len(commands') = Len(commands) + 1
      BY <2>1, <2>2
    <3> QED BY <3>2, <3>3, <3>4, Zenon
  <2>5. \A i \in 1 .. Len(commands') : commands'[i] = Len(replies) + Len(taken.commands) + i
    <3>1. /\ sent.commands = Len(replies) + Len(taken.commands) + Len(commands)
          /\ \A i \in 1 .. Len(commands) : commands[i] = Len(replies) + Len(taken.commands) + i
      BY <2>1 DEF Ordered
    <3> QED BY <2>2, <2>3, <3>1
  <2>6. replies' = replies /\ taken' = taken /\ worker' = worker /\ halted' = halted
    BY <1>b
  <2>7. /\ \A i \in 1 .. Len(taken'.commands) : taken'.commands[i] = Len(replies') + i
        /\ \A i \in 1 .. Len(commands') : commands'[i] = Len(replies') + Len(taken'.commands) + i
    BY <2>1, <2>5, <2>6 DEF Ordered
  <2>8. \A i \in 1 .. Len(replies') :
        replies'[i][1] = i /\ (replies'[i][2] = "done" => Has(applied', shown', <<"command", i>>))
    BY <1>e, <2>6
  <2>9. /\ (worker' = "show command" /\ ~halted') => Has(applied', Len(applied'), <<"command", Head(taken'.commands)>>)
        /\ (worker' = "answer" /\ ~halted') => Has(applied', shown', <<"command", Head(taken'.commands)>>)
    <3>1. applied' = applied /\ shown' = shown
      BY <1>b
    <3> QED BY <2>1, <2>6, <3>1 DEF Ordered
  <2> QED BY <2>4, <2>7, <2>8, <2>9 DEF Ordered
<1>c. ASSUME taken'.commands = commands, commands' = <<>>, UNCHANGED <<replies, sent>>, taken.commands = <<>>,
             worker' \notin {"show command", "answer"}
      PROVE  Ordered'
  <2>1. commands \in Seq(Nat) /\ replies \in Seq(Reply) /\ Ordered
    BY DEF EngineInv, Typed
  <2>2. Len(commands) \in Nat /\ Len(replies) \in Nat
    BY <2>1, Lengths
  <2>3. /\ sent'.commands = Len(replies') + Len(taken'.commands) + Len(commands')
        /\ \A i \in 1 .. Len(taken'.commands) : taken'.commands[i] = Len(replies') + i
        /\ \A i \in 1 .. Len(commands') : commands'[i] = Len(replies') + Len(taken'.commands) + i
    <3>1. /\ sent.commands = Len(replies) + Len(taken.commands) + Len(commands)
          /\ \A i \in 1 .. Len(commands) : commands[i] = Len(replies) + Len(taken.commands) + i
      BY <2>1 DEF Ordered
    <3>2. /\ Len(taken.commands) = 0 /\ Len(commands') = 0 /\ taken'.commands = commands
          /\ replies' = replies /\ sent' = sent
      BY <1>c
    <3>3. /\ sent.commands = Len(replies) + Len(commands)
          /\ \A i \in 1 .. Len(commands) : commands[i] = Len(replies) + i
      BY <2>2, <3>1, <3>2
    <3> QED BY <2>2, <3>2, <3>3
  <2> QED BY <1>c, <1>e, <2>3 DEF Ordered
<1>d. ASSUME UNCHANGED <<commands, replies, taken, sent>>,
             worker' = "show command" /\ ~halted' => Has(applied', Len(applied'), <<"command", Head(taken.commands)>>),
             worker' = "answer" /\ ~halted' => Has(applied', shown', <<"command", Head(taken.commands)>>)
      PROVE  Ordered'
  BY <1>d, <1>e DEF EngineInv, Ordered
<1> USE DEF Placed, Places, Before, Trading, Batching, Closing, Taken, Sent, Nothing, At, Goto,
       control, feed, inputs, desk, answers, history
<1>1. CASE ProviderPublishes
  BY <1>0, <1>a, <1>1 DEF ProviderPublishes, Publish
<1>2. CASE ProviderDrives
  BY <1>0, <1>a, <1>2 DEF ProviderDrives
<1>3. CASE ProviderSynchronizes
  BY <1>0, <1>a, <1>3 DEF ProviderSynchronizes, Synchronize
<1>4. CASE ProviderResumes
  BY <1>0, <1>a, <1>4 DEF ProviderResumes
<1>5. CASE ProviderLeaves
  BY <1>0, <1>a, <1>5 DEF ProviderLeaves, Publish
<1>6. CASE PostTrading
  <2>1. /\ commands' = Append(commands, sent.commands + 1) /\ sent' = [sent EXCEPT !.commands = @ + 1]
        /\ UNCHANGED <<replies, taken, worker, halted, applied, shown>> /\ ~taken.last
    BY <1>0, <1>6 DEF PostTrading
  <2> QED BY <1>b, <2>1
<1>7. CASE HostSynchronizes
  BY <1>0, <1>a, <1>7 DEF HostSynchronizes, Synchronize
<1>8. CASE HostResumes
  BY <1>0, <1>a, <1>8 DEF HostResumes
<1>9. CASE StartProvider
  BY <1>0, <1>a, <1>9 DEF StartProvider
<1>10. CASE AcceptCommands
  BY <1>0, <1>a, <1>10 DEF AcceptCommands
<1>11. CASE Launch
  BY <1>0, <1>a, <1>11 DEF Launch
<1>12. CASE Started
  BY <1>0, <1>a, <1>12 DEF Started
<1>13. CASE StartFails
  BY <1>0, <1>a, <1>13 DEF StartFails
<1>14. CASE CleanUp
  BY <1>0, <1>a, <1>14 DEF CleanUp
<1>15. CASE Stop
  BY <1>0, <1>a, <1>15 DEF Stop
<1>16. CASE RaiseStopping
  BY <1>0, <1>a, <1>16 DEF RaiseStopping
<1>17. CASE Join
  BY <1>0, <1>a, <1>17 DEF Join
<1>18. CASE CheckQueue
  BY <1>0, <1>a, <1>18 DEF CheckQueue, Drained
<1>19. CASE CheckBatches
  BY <1>0, <1>a, <1>19 DEF CheckBatches, MayExit
<1>20. CASE TakeSyncs
  BY <1>0, <1>a, <1>20 DEF TakeSyncs
<1>21. CASE Drain
  BY <1>0, <1>a, <1>21 DEF Drain
<1>22. CASE Swap
  <2>1. taken' = [taken EXCEPT !.commands = commands, !.batches = batches] /\ commands' = <<>>
        /\ UNCHANGED <<replies, sent>> /\ worker' \notin {"show command", "answer"} /\ taken.commands = <<>>
    BY <1>0, <1>22 DEF Swap, TakenBySwap
  <2>2. taken'.commands = commands
    BY <1>0, <2>1
  <2> QED BY <1>c, <2>1, <2>2
<1>23. CASE Observe
  BY <1>0, <1>a, <1>23 DEF Observe
<1>24. CASE Execute
  <2>1. /\ applied' = IF halted THEN applied ELSE Append(applied, <<"command", Head(taken.commands)>>)
        /\ worker' = "show command" /\ UNCHANGED <<commands, replies, taken, sent, shown, halted>>
    BY <1>0, <1>24 DEF Execute
  <2>2. ~halted => Has(applied', Len(applied'), <<"command", Head(taken.commands)>>)
    <3>1. applied \in Seq(Item) /\ applied' \in Seq(Item)
      BY <1>0 DEF EngineInv, Typed
    <3>2. Len(applied) \in Nat /\ Head(taken.commands) \in Nat
      <4>1. taken.commands \in Seq(Nat) /\ taken.commands # <<>>
        BY <1>0, <1>24, TakenTyped DEF Execute
      <4> QED BY <3>1, <4>1, Lengths, Tailed
    <3>3. <<"command", Head(taken.commands)>> \in Item
      BY <3>2 DEF Item, Inputs
    <3>4. ~halted => Len(applied') = Len(applied) + 1 /\ applied'[Len(applied) + 1] = <<"command", Head(taken.commands)>>
      BY <2>1, <3>1, <3>3, Appended
    <3> QED BY <3>2, <3>4 DEF Has
  <2> QED BY <1>d, <2>1, <2>2
<1>25. CASE ShowCommand
  <2>1. /\ shown' = Len(applied) /\ worker = "show command" /\ worker' = "answer"
        /\ UNCHANGED <<commands, replies, taken, sent, applied, halted>>
    BY <1>0, <1>25 DEF ShowCommand, PublishedForCommand
  <2>2. ~halted => Has(applied', shown', <<"command", Head(taken.commands)>>)
    BY <2>1 DEF EngineInv, Ordered
  <2> QED BY <1>d, <2>1, <2>2
<1>26. CASE Answer
  <2>1. /\ taken.commands # <<>> /\ worker = "answer" /\ worker' = "command"
        /\ replies' = Append(replies, <<Head(taken.commands), IF halted THEN "refused" ELSE "done">>)
        /\ taken' = [taken EXCEPT !.commands = Tail(@)]
        /\ UNCHANGED <<commands, sent, applied, shown>>
    BY <1>0, <1>26 DEF Answer
  <2>2. taken'.commands = Tail(taken.commands) /\ taken.commands \in Seq(Nat)
    BY <1>0, <2>1, TakenTyped
  <2>3. /\ Tail(taken.commands) \in Seq(Nat) /\ Len(Tail(taken.commands)) = Len(taken.commands) - 1
        /\ Len(taken.commands) \in Nat \ {0} /\ Head(taken.commands) = taken.commands[1]
        /\ \A i \in 1 .. Len(Tail(taken.commands)) : Tail(taken.commands)[i] = taken.commands[i + 1]
    BY <2>1, <2>2, Tailed
  <2>4. Ordered /\ replies \in Seq(Reply) /\ Len(replies) \in Nat
    BY Lengths DEF EngineInv, Typed
  <2>5. Head(taken.commands) = Len(replies) + 1 /\ Head(taken.commands) \in Nat
    <3>1. \A i \in 1 .. Len(taken.commands) : taken.commands[i] = Len(replies) + i
      BY <2>4 DEF Ordered
    <3> QED BY <2>3, <2>4, <3>1
  <2> DEFINE answer == <<Head(taken.commands), IF halted THEN "refused" ELSE "done">>
  <2>6. answer \in Reply
    BY <2>5 DEF Reply
  <2>7. Len(replies') = Len(replies) + 1 /\ replies'[Len(replies) + 1] = answer
        /\ \A i \in 1 .. Len(replies) : replies'[i] = replies[i]
    BY <2>1, <2>4, <2>6, Appended
  <2>8. /\ sent'.commands = Len(replies') + Len(taken'.commands) + Len(commands')
        /\ \A i \in 1 .. Len(taken'.commands) : taken'.commands[i] = Len(replies') + i
        /\ \A i \in 1 .. Len(commands') : commands'[i] = Len(replies') + Len(taken'.commands) + i
    <3>1. Len(commands) \in Nat
      BY Lengths DEF EngineInv, Typed
    <3>2. /\ sent.commands = Len(replies) + Len(taken.commands) + Len(commands)
          /\ \A i \in 1 .. Len(taken.commands) : taken.commands[i] = Len(replies) + i
          /\ \A i \in 1 .. Len(commands) : commands[i] = Len(replies) + Len(taken.commands) + i
      BY <2>4 DEF Ordered
    <3>3. UNCHANGED <<commands, sent>>
      BY <2>1
    <3> HIDE DEF answer
    <3>4. Len(taken'.commands) = Len(taken.commands) - 1 /\ Len(replies') = Len(replies) + 1
      BY <2>2, <2>3, <2>7
    <3>5. sent'.commands = Len(replies') + Len(taken'.commands) + Len(commands')
      <4>1. sent' = sent /\ commands' = commands
        BY <3>3
      <4>3. sent.commands = Len(replies) + Len(taken.commands) + Len(commands)
        BY <3>2
      <4>4. Len(taken.commands) \in Nat
        BY <2>3
      <4>5. sent.commands = (Len(replies) + 1) + (Len(taken.commands) - 1) + Len(commands)
        BY <2>4, <3>1, <4>3, <4>4, Counts
      <4> QED BY <3>4, <4>1, <4>5, Zenon
    <3>6. \A i \in 1 .. Len(taken'.commands) : taken'.commands[i] = Len(replies') + i
      BY <2>2, <2>3, <2>4, <3>2, <3>4
    <3>7. \A i \in 1 .. Len(commands') : commands'[i] = Len(replies') + Len(taken'.commands) + i
      <4>1. commands' = commands
        BY <3>3
      <4>2. Len(taken.commands) \in Nat /\ \A i \in 1 .. Len(commands) : commands[i] = Len(replies) + Len(taken.commands) + i
        BY <2>3, <3>2
      <4>3. \A i \in 1 .. Len(commands) : commands[i] = (Len(replies) + 1) + (Len(taken.commands) - 1) + i
        <5>1. \A i \in 1 .. Len(commands) : i \in Nat
          BY <3>1
        <5>2. Len(replies) \in Nat /\ Len(taken.commands) \in Nat /\ Len(commands) \in Nat
          BY <2>4, <3>1, <4>2, Zenon
        <5>3. \A i \in Nat :
                Len(replies) + Len(taken.commands) + i = (Len(replies) + 1) + (Len(taken.commands) - 1) + i
          BY <5>2, Counts, Zenon
        <5> QED BY <4>2, <5>1, <5>3, Zenon
      <4> QED BY <3>4, <4>1, <4>3, Zenon
    <3> QED BY <3>5, <3>6, <3>7
  <2>9. \A i \in 1 .. Len(replies') :
          replies'[i][1] = i /\ (replies'[i][2] = "done" => Has(applied', shown', <<"command", i>>))
    <3> SUFFICES ASSUME NEW i \in 1 .. (Len(replies) + 1)
                 PROVE  replies'[i][1] = i /\ (replies'[i][2] = "done" => Has(applied, shown, <<"command", i>>))
      BY <2>1, <2>7
    <3>1. CASE i = Len(replies) + 1
      <4>1. ~halted => Has(applied, shown, <<"command", i>>)
        BY <2>1, <2>4, <2>5, <3>1 DEF Ordered
      <4>2. replies'[i][1] = i /\ (replies'[i][2] = "done" => ~halted)
        BY <2>5, <2>7, <3>1
      <4> QED BY <4>1, <4>2
    <3>2. CASE i # Len(replies) + 1
      <4>1. i \in 1 .. Len(replies)
        BY <2>4, <3>2
      <4> QED BY <2>4, <2>7, <4>1 DEF Ordered
    <3> QED BY <3>1, <3>2
  <2> HIDE DEF answer
  <2> QED BY <2>1, <2>8, <2>9 DEF Ordered
<1>27. CASE CommandsDone
  BY <1>0, <1>a, <1>27 DEF CommandsDone, AfterCommands
<1>28. CASE ReplayBatch
  BY <1>0, <1>a, <1>28 DEF ReplayBatch
<1>29. CASE ReplayBatchFails
  BY <1>0, <1>a, <1>29 DEF ReplayBatchFails
<1>30. CASE ShowBatch
  BY <1>0, <1>a, <1>30 DEF ShowBatch, PublishedForBatch
<1>31. CASE AckBatch
  BY <1>0, <1>a, <1>31 DEF AckBatch
<1>32. CASE UpdateHealth
  BY <1>0, <1>a, <1>32 DEF UpdateHealth
<1>33. CASE Flush
  BY <1>0, <1>a, <1>33 DEF Flush, MustFlush
<1>34. CASE Show
  BY <1>0, <1>a, <1>34 DEF Show
<1>35. CASE Release
  BY <1>0, <1>a, <1>35 DEF Release
<1>36. CASE Close
  <2>1. taken' = [taken EXCEPT !.commands = commands, !.last = TRUE] /\ commands' = <<>>
        /\ UNCHANGED <<replies, sent>> /\ worker' \notin {"show command", "answer"} /\ taken.commands = <<>>
    BY <1>0, <1>36 DEF Close, LeftOver
  <2>2. taken'.commands = commands
    BY <1>0, <2>1
  <2> QED BY <1>c, <2>1, <2>2
<1>37. CASE Finish
  BY <1>0, <1>a, <1>37 DEF Finish
<1> QED BY <1>1, <1>2, <1>3, <1>4, <1>5, <1>6, <1>7, <1>8, <1>9, <1>10, <1>11, <1>12, <1>13, <1>14, <1>15,
           <1>16, <1>17, <1>18, <1>19, <1>20, <1>21, <1>22, <1>23, <1>24, <1>25, <1>26, <1>27, <1>28, <1>29,
           <1>30, <1>31, <1>32, <1>33, <1>34, <1>35, <1>36, <1>37
   DEF Next, Worker, Owner, Ending, Provider, Clients

-----------------------------------------------------------------------------
(* Every input goes on: out of its queue into what the round took, from there to the desk. *)

(* No event, batch or command is lost between its queue, the round and the desk. *)
EventsOn ==
  /\ \A n \in Nat : In(n, taken.events) => In(n, taken'.events) \/ Has(applied', Len(applied'), <<"event", n>>)
  /\ \A n \in Nat : In(n, queue) => In(n, queue') \/ In(n, taken'.events)
  /\ sent'.events # sent.events => sent'.events = sent.events + 1 /\ In(sent.events + 1, queue')
BatchesOn ==
  /\ \A n \in Nat : In(n, taken.batches) => In(n, taken'.batches) \/ Reach(applied, Len(applied), <<"batch", n>>)'
  /\ \A n \in Nat : In(n, batches) => In(n, batches') \/ In(n, taken'.batches)
  /\ sent'.batches # sent.batches => sent'.batches = sent.batches + 1 /\ In(sent.batches + 1, batches')
CommandsOn == Len(replies) + Len(taken.commands) <= Len(replies') + Len(taken'.commands)

(* Nothing waits in an empty queue. *)
LEMMA Empty == ASSUME NEW n PROVE ~In(n, <<>>)
BY DEF In

(* Events applied to the desk are in its log. *)
LEMMA EventsApplied ==
  ASSUME applied \in Seq(Item), taken \in Taken, applied' = applied \o AsItems("event", taken.events),
         NEW n \in Nat, In(n, taken.events)
  PROVE  Has(applied', Len(applied'), <<"event", n>>)
<1>1. PICK i \in 1 .. Len(taken.events) : taken.events[i] = n
  BY DEF In
<1>2. taken.events \in Seq(Nat)
  BY TakenTyped
<1>3. /\ AsItems("event", taken.events) \in Seq(Item) /\ Len(AsItems("event", taken.events)) = Len(taken.events)
      /\ AsItems("event", taken.events)[i] = <<"event", n>>
  BY <1>1, <1>2, Items DEF Inputs
<1>4. /\ Len(applied') = Len(applied) + Len(taken.events) /\ Len(applied) \in Nat /\ Len(taken.events) \in Nat
      /\ applied'[Len(applied) + i] = <<"event", n>>
  <2> DEFINE more == AsItems("event", taken.events)
  <2>1. more \in Seq(Item) /\ applied' = applied \o more /\ Len(more) = Len(taken.events) /\ more[i] = <<"event", n>>
    BY <1>3
  <2> HIDE DEF more
  <2>2. /\ Len(applied') = Len(applied) + Len(more) /\ Len(applied) \in Nat /\ Len(more) \in Nat
        /\ \A j \in 1 .. Len(more) : applied'[Len(applied) + j] = more[j]
    <3>1. applied \in Seq(Item) /\ more \in Seq(Item)
      BY <2>1
    <3>2. /\ Len(applied \o more) = Len(applied) + Len(more) /\ Len(applied) \in Nat /\ Len(more) \in Nat
          /\ \A j \in 1 .. Len(more) : (applied \o more)[Len(applied) + j] = more[j]
      BY <3>1, Joined
    <3> QED BY <2>1, <3>2, Zenon
  <2> QED BY <1>1, <2>1, <2>2
<1>5. Len(applied) + i \in 1 .. Len(applied')
  BY <1>4
<1> QED BY <1>4, <1>5 DEF Has

(* Events go on. *)
LEMMA EventsGoOn == ASSUME EngineInv, Next PROVE EventsOn
<1>0. /\ taken \in Taken /\ sent \in Sent /\ queue \in Seq(Nat) /\ applied \in Seq(Item) /\ sent.events \in Nat
      /\ \A n : ~In(n, <<>>)
      /\ Placed
  BY Empty, SentTyped DEF EngineInv, Typed
<1>a. ASSUME taken'.events = taken.events, queue' = queue, sent'.events = sent.events PROVE EventsOn
  BY <1>a DEF EventsOn
<1>b. ASSUME taken' = taken, Publish PROVE EventsOn
  <2>1. sent.events + 1 \in Nat /\ queue' = Append(queue, sent.events + 1) /\ sent'.events = sent.events + 1
    BY <1>0, <1>b DEF Publish, Sent
  <2> QED BY <1>0, <1>b, <2>1, InAppended DEF EventsOn
<1>c. ASSUME applied' = applied \o AsItems("event", taken.events), taken' = [taken EXCEPT !.events = <<>>],
             queue' = queue, sent' = sent
      PROVE  EventsOn
  BY <1>0, <1>c, EventsApplied DEF EventsOn
<1> USE DEF Placed, Places, Before, Trading, Batching, Closing, Taken, Sent, Nothing, At, Goto,
       control, feed, inputs, desk, answers, history
<1>1. CASE ProviderPublishes
  BY <1>0, <1>a, <1>b, <1>c, <1>1 DEF ProviderPublishes, Publish
<1>2. CASE ProviderDrives
  BY <1>0, <1>a, <1>b, <1>c, <1>2 DEF ProviderDrives
<1>3. CASE ProviderSynchronizes
  BY <1>0, <1>a, <1>b, <1>c, <1>3 DEF ProviderSynchronizes, Synchronize
<1>4. CASE ProviderResumes
  BY <1>0, <1>a, <1>b, <1>c, <1>4 DEF ProviderResumes
<1>5. CASE ProviderLeaves
  BY <1>0, <1>a, <1>b, <1>c, <1>5 DEF ProviderLeaves, Publish
<1>6. CASE PostTrading
  BY <1>0, <1>a, <1>b, <1>c, <1>6 DEF PostTrading
<1>7. CASE HostSynchronizes
  BY <1>0, <1>a, <1>b, <1>c, <1>7 DEF HostSynchronizes, Synchronize
<1>8. CASE HostResumes
  BY <1>0, <1>a, <1>b, <1>c, <1>8 DEF HostResumes
<1>9. CASE StartProvider
  BY <1>0, <1>a, <1>b, <1>c, <1>9 DEF StartProvider
<1>10. CASE AcceptCommands
  BY <1>0, <1>a, <1>b, <1>c, <1>10 DEF AcceptCommands
<1>11. CASE Launch
  BY <1>0, <1>a, <1>b, <1>c, <1>11 DEF Launch
<1>12. CASE Started
  BY <1>0, <1>a, <1>b, <1>c, <1>12 DEF Started
<1>13. CASE StartFails
  BY <1>0, <1>a, <1>b, <1>c, <1>13 DEF StartFails
<1>14. CASE CleanUp
  BY <1>0, <1>a, <1>b, <1>c, <1>14 DEF CleanUp
<1>15. CASE Stop
  BY <1>0, <1>a, <1>b, <1>c, <1>15 DEF Stop
<1>16. CASE RaiseStopping
  BY <1>0, <1>a, <1>b, <1>c, <1>16 DEF RaiseStopping
<1>17. CASE Join
  BY <1>0, <1>a, <1>b, <1>c, <1>17 DEF Join
<1>18. CASE CheckQueue
  BY <1>0, <1>a, <1>b, <1>c, <1>18 DEF CheckQueue, Drained
<1>19. CASE CheckBatches
  BY <1>0, <1>a, <1>b, <1>c, <1>19 DEF CheckBatches, MayExit
<1>20. CASE TakeSyncs
  BY <1>0, <1>a, <1>b, <1>c, <1>20 DEF TakeSyncs
<1>21. CASE Drain
  <2>1. taken' = [taken EXCEPT !.events = queue] /\ taken.events = <<>> /\ sent' = sent
    BY <1>0, <1>21 DEF Drain
  <2>2. taken'.events = queue
    BY <1>0, <2>1
  <2> QED BY <1>0, <2>1, <2>2 DEF EventsOn
<1>22. CASE Swap
  BY <1>0, <1>a, <1>b, <1>c, <1>22 DEF Swap, TakenBySwap
<1>23. CASE Observe
  BY <1>0, <1>a, <1>b, <1>c, <1>23 DEF Observe
<1>24. CASE Execute
  BY <1>0, <1>a, <1>b, <1>c, <1>24 DEF Execute
<1>25. CASE ShowCommand
  BY <1>0, <1>a, <1>b, <1>c, <1>25 DEF ShowCommand, PublishedForCommand
<1>26. CASE Answer
  BY <1>0, <1>a, <1>b, <1>c, <1>26 DEF Answer
<1>27. CASE CommandsDone
  BY <1>0, <1>a, <1>b, <1>c, <1>27 DEF CommandsDone, AfterCommands
<1>28. CASE ReplayBatch
  BY <1>0, <1>a, <1>b, <1>c, <1>28 DEF ReplayBatch
<1>29. CASE ReplayBatchFails
  BY <1>0, <1>a, <1>b, <1>c, <1>29 DEF ReplayBatchFails
<1>30. CASE ShowBatch
  BY <1>0, <1>a, <1>b, <1>c, <1>30 DEF ShowBatch, PublishedForBatch
<1>31. CASE AckBatch
  BY <1>0, <1>a, <1>b, <1>c, <1>31 DEF AckBatch
<1>32. CASE UpdateHealth
  BY <1>0, <1>a, <1>b, <1>c, <1>32 DEF UpdateHealth
<1>33. CASE Flush
  BY <1>0, <1>a, <1>b, <1>c, <1>33 DEF Flush, MustFlush
<1>34. CASE Show
  BY <1>0, <1>a, <1>b, <1>c, <1>34 DEF Show
<1>35. CASE Release
  BY <1>0, <1>a, <1>b, <1>c, <1>35 DEF Release
<1>36. CASE Close
  BY <1>0, <1>a, <1>b, <1>c, <1>36 DEF Close, LeftOver
<1>37. CASE Finish
  BY <1>0, <1>a, <1>b, <1>c, <1>37 DEF Finish
<1> QED BY <1>1, <1>2, <1>3, <1>4, <1>5, <1>6, <1>7, <1>8, <1>9, <1>10, <1>11, <1>12, <1>13, <1>14, <1>15,
           <1>16, <1>17, <1>18, <1>19, <1>20, <1>21, <1>22, <1>23, <1>24, <1>25, <1>26, <1>27, <1>28, <1>29,
           <1>30, <1>31, <1>32, <1>33, <1>34, <1>35, <1>36, <1>37
   DEF Next, Worker, Owner, Ending, Provider, Clients

(* Batches go on, to the desk or to their failure. *)
LEMMA BatchesGoOn == ASSUME EngineInv, Next PROVE BatchesOn
<1>0. /\ taken \in Taken /\ sent \in Sent /\ batches \in Seq(Nat) /\ applied \in Seq(Item) /\ sent.batches \in Nat
      /\ \A n : ~In(n, <<>>)
      /\ Placed /\ Tracked /\ taken.batches \in Seq(Nat)
  BY Empty, SentTyped, TakenTyped DEF EngineInv, Typed
<1>a. ASSUME taken'.batches = taken.batches, batches' = batches, sent'.batches = sent.batches PROVE BatchesOn
  BY <1>a DEF BatchesOn
<1>b. ASSUME taken' = taken, batches' = Append(batches, sent.batches + 1), sent' = [sent EXCEPT !.batches = @ + 1]
      PROVE  BatchesOn
  <2>1. sent.batches + 1 \in Nat /\ sent'.batches = sent.batches + 1
    BY <1>0, <1>b DEF Sent
  <2> QED BY <1>0, <1>b, <2>1, InAppended DEF BatchesOn
<1>c. ASSUME taken.batches # <<>>, taken' = [taken EXCEPT !.batches = Tail(@)], batches' = batches, sent' = sent,
             NEW h, h = Head(taken.batches), Reach(applied, Len(applied), <<"batch", h>>)'
      PROVE  BatchesOn
  <2>1. taken'.batches = Tail(taken.batches)
    BY <1>0, <1>c DEF Taken
  <2>2. \A n : In(n, taken.batches) => n = h \/ In(n, Tail(taken.batches))
    BY <1>0, <1>c, InTail
  <2>3. \A n \in Nat : In(n, taken.batches) => In(n, taken'.batches) \/ Reach(applied, Len(applied), <<"batch", n>>)'
    BY <1>c, <2>1, <2>2, Zenon
  <2>4. batches' = batches /\ sent'.batches = sent.batches
    BY <1>c
  <2> QED BY <2>3, <2>4 DEF BatchesOn
<1> USE DEF Placed, Places, Before, Trading, Batching, Closing, Taken, Sent, Nothing, At, Goto,
       control, feed, inputs, desk, answers, history
<1>1. CASE ProviderPublishes
  BY <1>0, <1>a, <1>b, <1>c, <1>1 DEF ProviderPublishes, Publish
<1>2. CASE ProviderDrives
  BY <1>0, <1>a, <1>b, <1>c, <1>2 DEF ProviderDrives
<1>3. CASE ProviderSynchronizes
  BY <1>0, <1>a, <1>b, <1>c, <1>3 DEF ProviderSynchronizes, Synchronize
<1>4. CASE ProviderResumes
  BY <1>0, <1>a, <1>b, <1>c, <1>4 DEF ProviderResumes
<1>5. CASE ProviderLeaves
  BY <1>0, <1>a, <1>b, <1>c, <1>5 DEF ProviderLeaves, Publish
<1>6. CASE PostTrading
  BY <1>0, <1>a, <1>b, <1>c, <1>6 DEF PostTrading
<1>7. CASE HostSynchronizes
  BY <1>0, <1>a, <1>b, <1>c, <1>7 DEF HostSynchronizes, Synchronize
<1>8. CASE HostResumes
  BY <1>0, <1>a, <1>b, <1>c, <1>8 DEF HostResumes
<1>9. CASE StartProvider
  BY <1>0, <1>a, <1>b, <1>c, <1>9 DEF StartProvider
<1>10. CASE AcceptCommands
  BY <1>0, <1>a, <1>b, <1>c, <1>10 DEF AcceptCommands
<1>11. CASE Launch
  BY <1>0, <1>a, <1>b, <1>c, <1>11 DEF Launch
<1>12. CASE Started
  BY <1>0, <1>a, <1>b, <1>c, <1>12 DEF Started
<1>13. CASE StartFails
  BY <1>0, <1>a, <1>b, <1>c, <1>13 DEF StartFails
<1>14. CASE CleanUp
  BY <1>0, <1>a, <1>b, <1>c, <1>14 DEF CleanUp
<1>15. CASE Stop
  BY <1>0, <1>a, <1>b, <1>c, <1>15 DEF Stop
<1>16. CASE RaiseStopping
  BY <1>0, <1>a, <1>b, <1>c, <1>16 DEF RaiseStopping
<1>17. CASE Join
  BY <1>0, <1>a, <1>b, <1>c, <1>17 DEF Join
<1>18. CASE CheckQueue
  BY <1>0, <1>a, <1>b, <1>c, <1>18 DEF CheckQueue, Drained
<1>19. CASE CheckBatches
  BY <1>0, <1>a, <1>b, <1>c, <1>19 DEF CheckBatches, MayExit
<1>20. CASE TakeSyncs
  BY <1>0, <1>a, <1>b, <1>c, <1>20 DEF TakeSyncs
<1>21. CASE Drain
  BY <1>0, <1>a, <1>b, <1>c, <1>21 DEF Drain
<1>22. CASE Swap
  <2>1. /\ taken' = [taken EXCEPT !.commands = commands, !.batches = batches] /\ taken.batches = <<>>
        /\ sent' = sent
    BY <1>0, <1>22 DEF Swap, TakenBySwap
  <2>2. taken'.batches = batches
    BY <1>0, <2>1
  <2> QED BY <1>0, <2>1, <2>2 DEF BatchesOn
<1>23. CASE Observe
  BY <1>0, <1>a, <1>b, <1>c, <1>23 DEF Observe
<1>24. CASE Execute
  BY <1>0, <1>a, <1>b, <1>c, <1>24 DEF Execute
<1>25. CASE ShowCommand
  BY <1>0, <1>a, <1>b, <1>c, <1>25 DEF ShowCommand, PublishedForCommand
<1>26. CASE Answer
  BY <1>0, <1>a, <1>b, <1>c, <1>26 DEF Answer
<1>27. CASE CommandsDone
  BY <1>0, <1>a, <1>b, <1>c, <1>27 DEF CommandsDone, AfterCommands
<1>28. CASE ReplayBatch
  BY <1>0, <1>a, <1>b, <1>c, <1>28 DEF ReplayBatch
<1>29. CASE ReplayBatchFails
  <2>1. <<"batch", Head(taken.batches), "failed">> \in acks'
    BY <1>29 DEF ReplayBatchFails
  <2>2. PICK h : h = Head(taken.batches)
    OBVIOUS
  <2>3. Reach(applied, Len(applied), <<"batch", h>>)'
    BY <2>1, <2>2 DEF Reach
  <2>4. taken.batches # <<>> /\ taken' = [taken EXCEPT !.batches = Tail(@)] /\ batches' = batches /\ sent' = sent
    BY <1>29 DEF ReplayBatchFails
  <2> QED BY <1>c, <2>2, <2>3, <2>4
<1>30. CASE ShowBatch
  BY <1>0, <1>a, <1>b, <1>c, <1>30 DEF ShowBatch, PublishedForBatch
<1>31. CASE AckBatch
  <2>1. applied' = applied /\ Has(applied, Len(applied), <<"batch", Head(taken.batches)>>)
    BY <1>0, <1>31 DEF AckBatch, Tracked
  <2>2. PICK h : h = Head(taken.batches)
    OBVIOUS
  <2>3. Reach(applied, Len(applied), <<"batch", h>>)'
    BY <2>1, <2>2 DEF Reach
  <2>4. taken.batches # <<>> /\ taken' = [taken EXCEPT !.batches = Tail(@)] /\ batches' = batches /\ sent' = sent
    BY <1>0, <1>31 DEF AckBatch
  <2> QED BY <1>c, <2>2, <2>3, <2>4
<1>32. CASE UpdateHealth
  BY <1>0, <1>a, <1>b, <1>c, <1>32 DEF UpdateHealth
<1>33. CASE Flush
  BY <1>0, <1>a, <1>b, <1>c, <1>33 DEF Flush, MustFlush
<1>34. CASE Show
  BY <1>0, <1>a, <1>b, <1>c, <1>34 DEF Show
<1>35. CASE Release
  BY <1>0, <1>a, <1>b, <1>c, <1>35 DEF Release
<1>36. CASE Close
  BY <1>0, <1>a, <1>b, <1>c, <1>36 DEF Close, LeftOver
<1>37. CASE Finish
  BY <1>0, <1>a, <1>b, <1>c, <1>37 DEF Finish
<1> QED BY <1>1, <1>2, <1>3, <1>4, <1>5, <1>6, <1>7, <1>8, <1>9, <1>10, <1>11, <1>12, <1>13, <1>14, <1>15,
           <1>16, <1>17, <1>18, <1>19, <1>20, <1>21, <1>22, <1>23, <1>24, <1>25, <1>26, <1>27, <1>28, <1>29,
           <1>30, <1>31, <1>32, <1>33, <1>34, <1>35, <1>36, <1>37
   DEF Next, Worker, Owner, Ending, Provider, Clients

(* Commands go on: answered and taken together never grow fewer. *)
LEMMA CommandsGoOn == ASSUME EngineInv, Next PROVE CommandsOn
<1>0. /\ taken \in Taken /\ replies \in Seq(Reply) /\ taken.commands \in Seq(Nat) /\ Len(taken.commands) \in Nat
      /\ Len(replies) \in Nat /\ Len(taken.commands) <= Len(taken.commands)
  BY TakenTyped, Lengths DEF EngineInv, Typed
<1>1. CASE replies' = replies /\ taken'.commands = taken.commands
  <2>1. Len(replies) + Len(taken.commands) <= Len(replies) + Len(taken.commands)
    BY <1>0
  <2> QED BY <1>1, <2>1, Zenon DEF CommandsOn
<1>2. CASE replies' = replies /\ taken.commands = <<>> /\ Len(taken'.commands) \in Nat
  <2>1. Len(replies) + Len(taken.commands) <= Len(replies) + Len(taken'.commands)
    BY <1>0, <1>2
  <2> QED BY <1>2, <2>1, Zenon DEF CommandsOn
<1>3. CASE Answer
  <2>1. taken.commands # <<>> /\ taken' = [taken EXCEPT !.commands = Tail(@)]
        /\ replies' = Append(replies, <<Head(taken.commands), IF halted THEN "refused" ELSE "done">>)
    BY <1>3 DEF Answer, EngineInv, Placed, At
  <2>2. Head(taken.commands) \in Nat /\ Len(Tail(taken.commands)) = Len(taken.commands) - 1
    BY <1>0, <2>1, Tailed
  <2>3. <<Head(taken.commands), IF halted THEN "refused" ELSE "done">> \in Reply
    BY <2>2 DEF Reply
  <2>4. Len(replies') = Len(replies) + 1
    BY <1>0, <2>1, <2>3, Appended
  <2>5. taken'.commands = Tail(taken.commands)
    BY <1>0, <2>1 DEF Taken
  <2>6. Len(replies) + Len(taken.commands) <= (Len(replies) + 1) + (Len(taken.commands) - 1)
    BY <1>0, OneOver, Zenon
  <2> QED BY <2>2, <2>4, <2>5, <2>6, Zenon DEF CommandsOn
<1>4. ~Answer => replies' = replies
  BY DEF Next, Worker, Owner, Ending, Provider, Clients, answers, ProviderPublishes, ProviderDrives,
     ProviderSynchronizes,
         ProviderResumes, ProviderLeaves, PostTrading, HostSynchronizes, HostResumes, StartProvider, AcceptCommands, Launch,
         Started, StartFails, CleanUp, Stop, RaiseStopping, Join, CheckQueue, CheckBatches, TakeSyncs, Drain, Swap, Observe,
         Execute, ShowCommand, CommandsDone, ReplayBatch, ReplayBatchFails, ShowBatch, AckBatch, UpdateHealth, Flush, Show,
         Release, Close, Finish
<1>5. CASE ~Answer /\ taken.commands = <<>>
  <2>1. taken' \in Taken
    BY TypesKept DEF Typed
  <2>2. Len(taken'.commands) \in Nat
    BY <2>1, TakenTyped, Lengths
  <2> QED BY <1>2, <1>4, <1>5, <2>2
<1>6. CASE ~Answer /\ taken.commands # <<>>
  <2>1. worker \in Trading \cup {"observe"}
    <3>1. Placed
      BY DEF EngineInv
    <3>2. worker \notin Before \cup {"drain", "swap"}
      <4>1. taken.commands # <<>> /\ Nothing.commands = <<>>
        BY <1>6 DEF Nothing
      <4>2. worker \notin Before
        BY <3>1, <4>1 DEF Placed
      <4>3. worker \notin {"drain", "swap"}
        BY <3>1, <4>1 DEF Placed
      <4> QED BY <4>2, <4>3
    <3>3. worker \notin Batching \cup Closing \cup {"finish", "exited"}
      BY <1>6, <3>1 DEF Placed
    <3> QED BY <3>1, <3>2, <3>3 DEF Placed, Places
  <2>a. Placed
    BY DEF EngineInv
  <2>2. taken' = taken \/ taken' = [taken EXCEPT !.events = <<>>]
    BY <1>6, <2>1, <2>a DEF Next, Worker, Owner, Ending, Provider, Clients, ProviderPublishes,
       ProviderDrives, ProviderSynchronizes,
         ProviderResumes, ProviderLeaves, PostTrading, HostSynchronizes, HostResumes, StartProvider, AcceptCommands, Launch,
         Started, StartFails, CleanUp, Stop, RaiseStopping, Join, CheckQueue, CheckBatches, TakeSyncs, Drain, Swap, Observe,
         Execute, ShowCommand, CommandsDone, ReplayBatch, ReplayBatchFails, ShowBatch, AckBatch, UpdateHealth, Flush, Show,
         Release, Close, Finish, At, Trading, Placed, history
  <2>3. taken'.commands = taken.commands
    BY <1>0, <2>2 DEF Taken
  <2> QED BY <1>1, <1>4, <1>6, <2>3
<1> QED BY <1>3, <1>5, <1>6

(* No event or batch is dropped on its way. *)
LEMMA TrackedKept == ASSUME EngineInv, Next PROVE Tracked'
<1>1. /\ EventsOn /\ BatchesOn /\ Growing /\ Typed /\ Bounded /\ Typed' /\ Tracked /\ Placed /\ driven' = driven
      /\ sent.events \in Nat /\ sent.batches \in Nat /\ Len(applied) \in Nat /\ Len(applied') \in Nat
      /\ Len(applied) <= Len(applied) /\ Len(applied) <= Len(applied')
  BY EventsGoOn, BatchesGoOn, TypesKept, SentTyped, Lengths DEF EngineInv, Next, Typed, Growing
<1>2. ASSUME NEW n \in 1 .. sent'.events
      PROVE  In(n, queue') \/ In(n, taken'.events) \/ Has(applied', Len(applied'), <<"event", n>>)
  <2>1. CASE n \in 1 .. sent.events
    <3>1. In(n, queue) \/ In(n, taken.events) \/ Has(applied, Len(applied), <<"event", n>>)
      BY <1>1, <2>1 DEF Tracked
    <3>2. Has(applied, Len(applied), <<"event", n>>) => Has(applied', Len(applied'), <<"event", n>>)
      BY <1>1, HasStays
    <3> QED BY <1>1, <2>1, <3>1, <3>2 DEF EventsOn
  <2>2. CASE n \notin 1 .. sent.events
    BY <1>1, <2>2 DEF EventsOn
  <2> QED BY <2>1, <2>2
<1>3. ASSUME NEW n \in 1 .. sent'.batches
      PROVE  In(n, batches') \/ In(n, taken'.batches) \/ Reach(applied, Len(applied), <<"batch", n>>)'
  <2>1. CASE n \in 1 .. sent.batches
    <3>1. In(n, batches) \/ In(n, taken.batches) \/ Reach(applied, Len(applied), <<"batch", n>>)
      BY <1>1, <2>1 DEF Tracked
    <3>2. ASSUME Reach(applied, Len(applied), <<"batch", n>>) PROVE Reach(applied, Len(applied), <<"batch", n>>)'
      <4>1. \A on \in Nat : Len(applied) <= on => Reach(applied, on, <<"batch", n>>)'
        BY <1>1, <3>2, ReachStays
      <4> QED BY <1>1, <4>1
    <3> QED BY <1>1, <2>1, <3>1, <3>2 DEF BatchesOn
  <2>2. CASE n \notin 1 .. sent.batches
    BY <1>1, <2>2 DEF BatchesOn
  <2> QED BY <2>1, <2>2
<1>4. (worker' \in {"show batch", "ack"}) => Has(applied', Len(applied'), <<"batch", Head(taken'.batches)>>)
  <2>1. ReplayBatch => Has(applied', Len(applied'), <<"batch", Head(taken'.batches)>>)
    <3> SUFFICES ASSUME ReplayBatch PROVE Has(applied', Len(applied'), <<"batch", Head(taken'.batches)>>)
      OBVIOUS
    <3>1. taken' = taken /\ taken.batches # <<>> /\ applied' = Append(applied, <<"batch", Head(taken.batches)>>)
      BY DEF ReplayBatch
    <3>2. taken.batches \in Seq(Nat) /\ applied \in Seq(Item)
      BY <1>1, TakenTyped DEF Typed
    <3>3. <<"batch", Head(taken.batches)>> \in Item
      <4>1. Head(taken.batches) \in Nat
        BY <3>1, <3>2, Tailed
      <4> QED BY <4>1 DEF Item, Inputs
    <3>4. Len(applied') = Len(applied) + 1 /\ applied'[Len(applied) + 1] = <<"batch", Head(taken.batches)>>
      BY <3>1, <3>2, <3>3, Appended
    <3> QED BY <1>1, <3>1, <3>4 DEF Has
  <2>2. (worker' \in {"show batch", "ack"} /\ ~ReplayBatch) => taken' = taken /\ worker \in {"show batch", "ack"}
    BY <1>1 DEF Next, Worker, Owner, Ending, Provider, Clients, ProviderPublishes, ProviderDrives,
       ProviderSynchronizes,
         ProviderResumes, ProviderLeaves, PostTrading, HostSynchronizes, HostResumes, StartProvider, AcceptCommands, Launch,
         Started, StartFails, CleanUp, Stop, RaiseStopping, Join, CheckQueue, CheckBatches, TakeSyncs, Drain, Swap, Observe,
         Execute, ShowCommand, Answer, CommandsDone, ReplayBatchFails, ShowBatch, AckBatch, UpdateHealth, Flush, Show,
         Release, Close, Finish, At, Goto, AfterCommands, Placed, history
  <2>3. worker \in {"show batch", "ack"} => Has(applied, Len(applied), <<"batch", Head(taken.batches)>>)
    BY <1>1 DEF Tracked
  <2>4. \A item : Has(applied, Len(applied), item) => Has(applied', Len(applied'), item)
    BY <1>1, HasStays
  <2> QED BY <2>1, <2>2, <2>3, <2>4
<1>5. ~driven' => batches' = <<>> /\ taken'.batches = <<>>
  <2>1. ASSUME ~driven PROVE batches' \in {batches, <<>>}
    BY <2>1 DEF Next, Worker, Owner, Ending, Provider, Clients, ProviderPublishes, ProviderDrives,
       ProviderSynchronizes,
         ProviderResumes, ProviderLeaves, PostTrading, HostSynchronizes, HostResumes, StartProvider, AcceptCommands, Launch,
         Started, StartFails, CleanUp, Stop, RaiseStopping, Join, CheckQueue, CheckBatches, TakeSyncs, Drain, Swap, Observe,
         Execute, ShowCommand, Answer, CommandsDone, ReplayBatch, ReplayBatchFails, ShowBatch, AckBatch, UpdateHealth, Flush,
         Show, Release, Close, Finish, inputs
  <2>2. Takes /\ taken \in Taken
    BY <1>1, Changes DEF Typed
  <2>3. ASSUME ~driven PROVE taken'.batches = <<>>
    <3>1. taken.batches = <<>> /\ batches = <<>>
      BY <1>1, <2>3 DEF Tracked
    <3>2. /\ Nothing.batches = <<>> /\ [taken EXCEPT !.syncs = syncs].batches = taken.batches
          /\ [taken EXCEPT !.events = queue].batches = taken.batches
          /\ [taken EXCEPT !.commands = commands, !.batches = batches].batches = batches
          /\ [taken EXCEPT !.events = <<>>].batches = taken.batches
          /\ [taken EXCEPT !.commands = commands, !.last = TRUE].batches = taken.batches
          /\ [taken EXCEPT !.commands = Tail(@)].batches = taken.batches
      BY <2>2 DEF Taken, Nothing
    <3> QED BY <2>2, <3>1, <3>2 DEF Takes
  <2> QED BY <1>1, <2>1, <2>3 DEF Tracked
<1> QED BY <1>2, <1>3, <1>4, <1>5 DEF Tracked

-----------------------------------------------------------------------------
(* Barriers *)

(* A later step leaves what was numbered numbered, and what was reached reached. *)
LEMMA NumberingStays ==
  ASSUME EngineInv, Next, NEW s \in 1 .. sent.syncs PROVE Numbering(s)'
<1>1. /\ Growing /\ Typed /\ Typed' /\ sent.events \in Nat /\ sent.batches \in Nat /\ sent.commands \in Nat
      /\ sent'.events \in Nat /\ sent'.batches \in Nat /\ sent'.commands \in Nat
  BY TypesKept, SentTyped DEF EngineInv, Typed
<1>2. covers'[s] = covers[s] /\ Numbering(s)
  BY <1>1 DEF Growing, EngineInv, Barriers
<1>3. \A item \in covers[s] :
        \/ item[1] = "event" /\ item[2] \in 1 .. sent'.events
        \/ item[1] = "batch" /\ item[2] \in 1 .. sent'.batches
        \/ item[1] = "command" /\ item[2] \in 1 .. sent'.commands
  <2>1. /\ \A n \in 1 .. sent.events : n \in 1 .. sent'.events
        /\ \A n \in 1 .. sent.batches : n \in 1 .. sent'.batches
        /\ \A n \in 1 .. sent.commands : n \in 1 .. sent'.commands
    <3>1. sent.events <= sent'.events /\ sent.batches <= sent'.batches /\ sent.commands <= sent'.commands
      BY <1>1 DEF Growing
    <3> QED BY <1>1, <3>1, SMT
  <2>2. \A item \in covers[s] :
          \/ item[1] = "event" /\ item[2] \in 1 .. sent.events
          \/ item[1] = "batch" /\ item[2] \in 1 .. sent.batches
          \/ item[1] = "command" /\ item[2] \in 1 .. sent.commands
    BY <1>2, Zenon DEF Numbering
  <2> QED BY <2>1, <2>2, Zenon
<1> QED BY <1>2, <1>3 DEF Numbering

(* What the log covered the grown log covers. *)
LEMMA CoverStays ==
  ASSUME EngineInv, Next, NEW s \in 1 .. sent.syncs, NEW upTo \in Nat, upTo <= Len(applied), NEW on \in Nat, upTo <= on,
         Covered(s, upTo)
  PROVE  Covered(s, on)'
<1>1. Growing /\ Typed /\ Bounded
  BY TypesKept DEF EngineInv
<1>2. covers'[s] = covers[s]
  BY <1>1 DEF Growing
<1>3. \A item : Reach(applied, upTo, item) => Reach(applied, on, item)'
  BY <1>1, ReachStays
<1> QED BY <1>2, <1>3 DEF Covered

(* A barrier rightly released stays so. *)
LEMMA ReleaseStays == ASSUME EngineInv, Next, NEW s \in 1 .. sent.syncs, Released(s) PROVE Released(s)'
<1>1. /\ driven' = driven /\ shown \in Nat /\ shown <= Len(applied) /\ shown' \in Nat /\ shown <= shown'
      /\ durable \in Nat /\ durable <= Len(applied) /\ durable' \in Nat /\ durable <= durable'
  BY TypesKept DEF EngineInv, Typed, Bounded, Growing, Next
<1>2. \A on \in Nat : shown <= on => Covered(s, on)'
  BY <1>1, CoverStays DEF Released
<1>3. driven => \A on \in Nat : durable <= on => Covered(s, on)'
  BY <1>1, CoverStays DEF Released
<1> QED BY <1>1, <1>2, <1>3 DEF Released

(* When the round has handed on all it took, the desk has reached all the barrier is for. *)
LEMMA RoundCovers ==
  ASSUME EngineInv, NEW s \in 1 .. sent.syncs, EventsTaken(s), BatchesTaken(s), CommandsTaken(s),
         taken.events = <<>>, taken.batches = <<>>, taken.commands = <<>>
  PROVE  Covered(s, Len(applied))
<1>1. /\ Typed /\ Bounded /\ Ordered /\ covers[s] \subseteq Item /\ Len(replies) \in Nat /\ Len(applied) \in Nat
      /\ shown \in Nat /\ shown <= Len(applied) /\ replies \in Seq(Reply) /\ Numbering(s)
  BY Lengths DEF EngineInv, Typed, Bounded, Barriers
<1> SUFFICES ASSUME NEW item \in covers[s] PROVE Reach(applied, Len(applied), item)
  BY DEF Covered
<1>2. PICK kind \in Inputs, n \in Nat : item = <<kind, n>>
  BY <1>1 DEF Item
<1>3. CASE kind = "event"
  <2>1. Has(applied, Len(applied), <<"event", n>>)
    BY <1>2, <1>3, Empty DEF EventsTaken
  <2> QED BY <1>2, <1>3, <2>1 DEF Reach
<1>4. CASE kind = "batch"
  BY <1>2, <1>4, Empty DEF BatchesTaken
<1>5. CASE kind = "command"
  <2>1. n \in 1 .. Len(replies)
    <3>1. n \in 1 .. sent.commands
      BY <1>1, <1>2, <1>5 DEF Numbering
    <3>2. n <= Len(replies) + 0
      BY <1>2, <1>5 DEF CommandsTaken
    <3> QED BY <1>1, <3>1, <3>2
  <2>2. replies[n] \in Reply /\ replies[n][1] = n /\ (replies[n][2] = "done" => Has(applied, shown, <<"command", n>>))
    <3>1. replies[n] \in Reply
      BY <1>1, <2>1
    <3> QED BY <1>1, <2>1, <3>1 DEF Ordered
  <2>3. CASE replies[n][2] = "done"
    <3>1. Has(applied, Len(applied), <<"command", n>>)
      BY <1>1, <2>2, <2>3 DEF Has
    <3> QED BY <1>2, <1>5, <3>1 DEF Reach
  <2>4. CASE replies[n][2] # "done"
    <3>1. replies[n] = <<n, "refused">>
      BY <2>2, <2>4 DEF Reply
    <3> QED BY <1>1, <1>2, <1>5, <2>1, <3>1 DEF Reach
  <2> QED BY <2>3, <2>4
<1> QED BY <1>2, <1>3, <1>4, <1>5 DEF Inputs

(* What a barrier's round took stays taken or goes on to the desk. *)
LEMMA TakenStays ==
  ASSUME EngineInv, Next, NEW s \in 1 .. sent.syncs
  PROVE  /\ (EventsTaken(s) => EventsTaken(s)')
         /\ (BatchesTaken(s) => BatchesTaken(s)')
         /\ (CommandsTaken(s) => CommandsTaken(s)')
<1>1. /\ EventsOn /\ BatchesOn /\ CommandsOn /\ Growing /\ Typed /\ Bounded
      /\ Len(applied) \in Nat /\ Len(applied') \in Nat /\ Len(applied) <= Len(applied) /\ Len(applied) <= Len(applied')
  BY EventsGoOn, BatchesGoOn, CommandsGoOn, TypesKept, Lengths DEF EngineInv, Typed, Growing
<1>2. covers'[s] = covers[s]
  BY <1>1 DEF Growing
<1>3. \A item : Has(applied, Len(applied), item) => Has(applied', Len(applied'), item)
  BY <1>1, HasStays
<1>4. \A item : Reach(applied, Len(applied), item) => Reach(applied, Len(applied), item)'
  <2> SUFFICES ASSUME NEW item, Reach(applied, Len(applied), item) PROVE Reach(applied, Len(applied), item)'
    OBVIOUS
  <2>1. \A on \in Nat : Len(applied) <= on => Reach(applied, on, item)'
    BY <1>1, ReachStays
  <2> QED BY <1>1, <2>1
<1>5. EventsTaken(s) => EventsTaken(s)'
  BY <1>1, <1>2, <1>3 DEF EventsTaken, EventsOn
<1>6. BatchesTaken(s) => BatchesTaken(s)'
  BY <1>1, <1>2, <1>4 DEF BatchesTaken, BatchesOn
<1>7. CommandsTaken(s) => CommandsTaken(s)'
  <2>1. /\ Len(replies) + Len(taken.commands) \in Nat /\ Len(replies') + Len(taken'.commands) \in Nat
    <3>1. Typed' /\ Typed
      BY <1>1, TypesKept
    <3>2. replies \in Seq(Reply) /\ replies' \in Seq(Reply) /\ taken.commands \in Seq(Nat) /\ taken'.commands \in Seq(Nat)
      BY <3>1, TakenTyped DEF Typed
    <3>3. Len(replies) \in Nat /\ Len(replies') \in Nat /\ Len(taken.commands) \in Nat /\ Len(taken'.commands) \in Nat
      BY <3>2, Lengths
    <3> QED BY <3>3
  <2>2. Len(replies) + Len(taken.commands) <= Len(replies') + Len(taken'.commands)
    BY <1>1 DEF CommandsOn
  <2> SUFFICES ASSUME CommandsTaken(s), NEW n \in Nat, <<"command", n>> \in covers[s]
               PROVE  n <= Len(replies') + Len(taken'.commands)
    BY <1>2 DEF CommandsTaken
  <2> DEFINE m == Len(replies) + Len(taken.commands)
             k == Len(replies') + Len(taken'.commands)
  <2>3. n <= m
    BY DEF CommandsTaken
  <2> HIDE DEF m, k
  <2>4. n <= k
    BY <2>1, <2>2, <2>3, Onwards DEF m, k
  <2> QED BY <2>4 DEF k
<1> QED BY <1>5, <1>6, <1>7

(* The places of a round, in their order, and what the engine thread does between them. *)
Rounds ==
  /\ worker' # worker =>
       /\ worker = "take syncs" => worker' = "drain" /\ taken'.syncs = syncs
       /\ worker = "drain" => worker' = "swap" /\ queue' = <<>>
       /\ worker = "swap" => commands' = <<>> /\ batches' = <<>>
       /\ worker' = "drain" => worker = "take syncs"
       /\ worker' = "swap" => worker = "drain"
       /\ worker' = "show" => \/ worker = "flush" /\ applied' = applied /\ (taken.syncs # <<>> => durable' = Len(applied))
                              \/ worker = "command" /\ ~driven
       /\ worker' = "release" => worker = "show" /\ applied' = applied /\ shown' = Len(applied)
       /\ worker = "release" => taken' = Nothing
  /\ worker' = worker => worker # "release" \/ taken' = taken
  /\ worker' = worker \/ worker \notin {"take syncs", "release"} => taken'.syncs = taken.syncs

(* Every step keeps to the order of the round. *)
LEMMA RoundsKept == ASSUME EngineInv, Next PROVE Rounds
<1>0. /\ taken \in Taken /\ Placed /\ driven' = driven
  BY DEF EngineInv, Typed, Next
<1>a. ASSUME worker' = worker, taken' = taken PROVE Rounds
  BY <1>a DEF Rounds
<1> USE DEF Rounds, Placed, Places, Before, Trading, Batching, Closing, Taken, At, Goto,
       control, feed, inputs, desk, answers, history
<1>1. CASE ProviderPublishes
  BY <1>0, <1>a, <1>1 DEF ProviderPublishes, Publish
<1>2. CASE ProviderDrives
  BY <1>0, <1>a, <1>2 DEF ProviderDrives
<1>3. CASE ProviderSynchronizes
  BY <1>0, <1>a, <1>3 DEF ProviderSynchronizes, Synchronize
<1>4. CASE ProviderResumes
  BY <1>0, <1>a, <1>4 DEF ProviderResumes
<1>5. CASE ProviderLeaves
  BY <1>0, <1>a, <1>5 DEF ProviderLeaves, Publish
<1>6. CASE PostTrading
  BY <1>0, <1>a, <1>6 DEF PostTrading
<1>7. CASE HostSynchronizes
  BY <1>0, <1>a, <1>7 DEF HostSynchronizes, Synchronize
<1>8. CASE HostResumes
  BY <1>0, <1>a, <1>8 DEF HostResumes
<1>9. CASE StartProvider
  BY <1>0, <1>a, <1>9 DEF StartProvider
<1>10. CASE AcceptCommands
  BY <1>0, <1>a, <1>10 DEF AcceptCommands
<1>11. CASE Launch
  BY <1>0, <1>a, <1>11 DEF Launch
<1>12. CASE Started
  BY <1>0, <1>a, <1>12 DEF Started
<1>13. CASE StartFails
  BY <1>0, <1>a, <1>13 DEF StartFails
<1>14. CASE CleanUp
  BY <1>0, <1>a, <1>14 DEF CleanUp
<1>15. CASE Stop
  BY <1>0, <1>a, <1>15 DEF Stop
<1>16. CASE RaiseStopping
  BY <1>0, <1>a, <1>16 DEF RaiseStopping
<1>17. CASE Join
  BY <1>0, <1>a, <1>17 DEF Join
<1>18. CASE CheckQueue
  BY <1>0, <1>a, <1>18 DEF CheckQueue, Drained
<1>19. CASE CheckBatches
  BY <1>0, <1>a, <1>19 DEF CheckBatches, MayExit
<1>20. CASE TakeSyncs
  BY <1>0, <1>a, <1>20 DEF TakeSyncs
<1>21. CASE Drain
  BY <1>0, <1>a, <1>21 DEF Drain
<1>22. CASE Swap
  BY <1>0, <1>a, <1>22 DEF Swap, TakenBySwap
<1>23. CASE Observe
  BY <1>0, <1>a, <1>23 DEF Observe
<1>24. CASE Execute
  BY <1>0, <1>a, <1>24 DEF Execute
<1>25. CASE ShowCommand
  BY <1>0, <1>a, <1>25 DEF ShowCommand, PublishedForCommand
<1>26. CASE Answer
  BY <1>0, <1>a, <1>26 DEF Answer
<1>27. CASE CommandsDone
  BY <1>0, <1>a, <1>27 DEF CommandsDone, AfterCommands
<1>28. CASE ReplayBatch
  BY <1>0, <1>a, <1>28 DEF ReplayBatch
<1>29. CASE ReplayBatchFails
  BY <1>0, <1>a, <1>29 DEF ReplayBatchFails
<1>30. CASE ShowBatch
  BY <1>0, <1>a, <1>30 DEF ShowBatch, PublishedForBatch
<1>31. CASE AckBatch
  BY <1>0, <1>a, <1>31 DEF AckBatch
<1>32. CASE UpdateHealth
  BY <1>0, <1>a, <1>32 DEF UpdateHealth
<1>33. CASE Flush
  BY <1>0, <1>a, <1>33 DEF Flush, MustFlush
<1>34. CASE Show
  BY <1>0, <1>a, <1>34 DEF Show
<1>35. CASE Release
  BY <1>0, <1>a, <1>35 DEF Release
<1>36. CASE Close
  BY <1>0, <1>a, <1>36 DEF Close, LeftOver
<1>37. CASE Finish
  BY <1>0, <1>a, <1>37 DEF Finish
<1> QED BY <1>1, <1>2, <1>3, <1>4, <1>5, <1>6, <1>7, <1>8, <1>9, <1>10, <1>11, <1>12, <1>13, <1>14, <1>15,
           <1>16, <1>17, <1>18, <1>19, <1>20, <1>21, <1>22, <1>23, <1>24, <1>25, <1>26, <1>27, <1>28, <1>29,
           <1>30, <1>31, <1>32, <1>33, <1>34, <1>35, <1>36, <1>37
   DEF Next, Worker, Owner, Ending, Provider, Clients

(* A barrier the round holds, at every place of the round. *)
LEMMA TakingKept ==
  ASSUME EngineInv, Next, NEW s \in 1 .. sent.syncs, Taking(s) \/ (worker = "take syncs" /\ worker' # worker),
         worker # "release", taken.syncs # <<>> \/ worker' = "drain"
  PROVE  Taking(s)'
<1>1. /\ Typed' /\ Typed /\ Bounded /\ Bounded' /\ Growing /\ driven' = driven /\ Placed /\ Placed' /\ Tracked' /\ Ordered'
      /\ Numbering(s)' /\ Rounds
      /\ taken \in Taken /\ sent \in Sent /\ taken' \in Taken
  BY TypesKept, PlacedKept, TrackedKept, OrderedKept, RoundsKept, NumberingStays DEF EngineInv, Next, Typed
<1>2. s \in 1 .. sent'.syncs /\ covers'[s] = covers[s]
  <2>1. sent.syncs \in Nat /\ sent'.syncs \in Nat /\ sent.syncs <= sent'.syncs
    BY <1>1, SentTyped DEF Typed, Growing
  <2>2. s \in 1 .. sent'.syncs
    BY <2>1, Wider
  <2>3. covers'[s] = covers[s]
    BY <1>1 DEF Growing
  <2> QED BY <2>2, <2>3
<1>3. /\ (EventsTaken(s) => EventsTaken(s)') /\ (BatchesTaken(s) => BatchesTaken(s)')
      /\ (CommandsTaken(s) => CommandsTaken(s)')
  BY TakenStays
<1>4. ASSUME worker' # "drain" PROVE EventsTaken(s)'
  <2>1. CASE worker = "drain"
    <3>1. queue' = <<>>
      BY <1>1, <1>4, <2>1 DEF Rounds
    <3>2. ASSUME NEW n \in Nat, <<"event", n>> \in covers'[s]
          PROVE  In(n, taken'.events) \/ Has(applied', Len(applied'), <<"event", n>>)
      <4>1. n \in 1 .. sent'.events
        BY <1>1, <3>2 DEF Numbering
      <4> QED BY <1>1, <3>1, <4>1, Empty DEF Tracked
    <3> QED BY <3>2 DEF EventsTaken
  <2>2. CASE worker # "drain"
    <3>1. Taking(s)
      BY <1>1, <1>4 DEF Rounds
    <3> QED BY <1>3, <2>2, <3>1 DEF Taking
  <2> QED BY <2>1, <2>2
<1>5. ASSUME worker' \notin {"drain", "swap"} PROVE BatchesTaken(s)' /\ CommandsTaken(s)'
  <2>1. CASE worker = "swap"
    <3>1. commands' = <<>> /\ batches' = <<>>
      BY <1>1, <1>5, <2>1 DEF Rounds
    <3>2. ASSUME NEW n \in Nat, <<"batch", n>> \in covers'[s]
          PROVE  In(n, taken'.batches) \/ Reach(applied, Len(applied), <<"batch", n>>)'
      <4>1. n \in 1 .. sent'.batches
        BY <1>1, <3>2 DEF Numbering
      <4> QED BY <1>1, <3>1, <4>1, Empty DEF Tracked
    <3>3. ASSUME NEW n \in Nat, <<"command", n>> \in covers'[s]
          PROVE  n <= Len(replies') + Len(taken'.commands)
      <4>1. n \in 1 .. sent'.commands
        BY <1>1, <3>3 DEF Numbering
      <4>2. /\ replies' \in Seq(Reply) /\ taken'.commands \in Seq(Nat)
        BY <1>1, TakenTyped DEF Typed
      <4>3. Len(replies') \in Nat /\ Len(taken'.commands) \in Nat
        BY <4>2, Lengths
      <4>4. sent'.commands = Len(replies') + Len(taken'.commands) + Len(commands') /\ Len(commands') = 0
        BY <1>1, <3>1 DEF Ordered
      <4> QED BY <4>1, <4>3, <4>4, NoMore
    <3> QED BY <3>2, <3>3 DEF BatchesTaken, CommandsTaken
  <2>2. CASE worker # "swap"
    <3>1. worker # "drain" /\ Taking(s)
      BY <1>1, <1>5 DEF Rounds
    <3> QED BY <1>3, <2>2, <3>1 DEF Taking
  <2> QED BY <2>1, <2>2
<1>6. Len(applied) \in Nat /\ shown \in Nat /\ shown' \in Nat /\ shown <= Len(applied) /\ shown <= shown'
      /\ durable \in Nat /\ durable' \in Nat /\ durable <= Len(applied) /\ durable <= durable'
      /\ Len(applied) <= Len(applied)
  BY <1>1, Lengths DEF Typed, Bounded, Growing
<1>7. ASSUME worker \in Closing, worker # "release", Taking(s) PROVE \A on \in Nat : Len(applied) <= on => Covered(s, on)'
  <2>1. EventsTaken(s) /\ BatchesTaken(s) /\ CommandsTaken(s)
    BY <1>7 DEF Taking, Closing
  <2>2. taken.events = <<>> /\ taken.batches = <<>> /\ taken.commands = <<>>
    BY <1>1, <1>7 DEF Placed
  <2>3. Covered(s, Len(applied))
    BY <2>1, <2>2, RoundCovers
  <2> QED BY <1>6, <2>3, CoverStays
<1>8. ASSUME worker' \in {"show", "release"}, driven PROVE Covered(s, durable)'
  <2>1. worker # "take syncs" /\ Taking(s)
    BY <1>1, <1>8 DEF Rounds
  <2>2. CASE worker = "flush" /\ worker' # worker
    <3>1. durable' = Len(applied)
      BY <1>1, <1>8, <2>2 DEF Rounds
    <3>2. \A on \in Nat : Len(applied) <= on => Covered(s, on)'
      BY <1>7, <2>1, <2>2 DEF Closing
    <3> QED BY <1>6, <3>1, <3>2
  <2>3. CASE worker \in {"show", "release"}
    <3>1. Covered(s, durable)
      BY <1>8, <2>1, <2>3 DEF Taking
    <3>2. \A on \in Nat : durable <= on => Covered(s, on)'
      BY <1>6, <3>1, CoverStays
    <3> QED BY <1>6, <3>2
  <2>4. (worker = "flush" /\ worker' # worker) \/ worker \in {"show", "release"}
    BY <1>1, <1>8 DEF Rounds
  <2> QED BY <2>2, <2>3, <2>4
<1>9. ASSUME worker' = "release" PROVE Covered(s, shown)'
  <2>1. worker = "show" /\ shown' = Len(applied) /\ Taking(s)
    BY <1>1, <1>9 DEF Rounds
  <2>2. \A on \in Nat : Len(applied) <= on => Covered(s, on)'
    BY <1>7, <2>1 DEF Closing
  <2> QED BY <1>6, <2>1, <2>2
<1>10. (worker' \in {"show", "release"} /\ driven') => Covered(s, durable)'
  BY <1>1, <1>8
<1> QED BY <1>2, <1>4, <1>5, <1>9, <1>10 DEF Taking

(* While the round releases its barriers, what was shown and synced for them stays so. *)
LEMMA ReleasingStays ==
  ASSUME EngineInv, Next, NEW s \in 1 .. sent.syncs, Taking(s), worker = "release", worker' = worker
  PROVE  Taking(s)'
<1>1. /\ (EventsTaken(s) => EventsTaken(s)') /\ (BatchesTaken(s) => BatchesTaken(s)')
      /\ (CommandsTaken(s) => CommandsTaken(s)')
  BY TakenStays
<1>2. Released(s)
  BY DEF Taking, Released
<1>3. Released(s)' /\ driven' = driven
  BY <1>2, ReleaseStays DEF Next
<1>4. s \in 1 .. sent'.syncs
  <2>1. sent.syncs \in Nat /\ sent'.syncs \in Nat /\ sent.syncs <= sent'.syncs
    BY TypesKept, SentTyped DEF EngineInv, Typed, Growing
  <2> QED BY <2>1
<1> QED BY <1>1, <1>3, <1>4 DEF Taking, Released

(* A barrier is released only when it covers what it is for. *)
LEMMA BarriersKept == ASSUME EngineInv, Next PROVE Barriers'
<1>1. /\ HandsOver /\ Logs /\ Typed /\ Typed' /\ Growing /\ Rounds /\ Barriers /\ Placed /\ Placed'
      /\ taken \in Taken /\ sent \in Sent /\ sent.syncs \in Nat /\ sent'.syncs \in Nat /\ sent.syncs <= sent'.syncs
      /\ sent.events \in Nat /\ sent.batches \in Nat /\ sent.commands \in Nat
  BY Changes, TypesKept, RoundsKept, PlacedKept, SentTyped DEF EngineInv, Typed, Growing
<1>2. ASSUME NEW s \in 1 .. sent'.syncs PROVE Numbering(s)'
  <2>1. CASE s \in 1 .. sent.syncs
    BY <2>1, NumberingStays
  <2>2. CASE s \notin 1 .. sent.syncs
    <3>1. sent' = [sent EXCEPT !.syncs = @ + 1] /\ covers' = Append(covers, HandedOver)
      BY <1>1, <2>2 DEF HandsOver, Sent
    <3>2. sent'.syncs = sent.syncs + 1 /\ sent'.events = sent.events /\ sent'.batches = sent.batches
          /\ sent'.commands = sent.commands
      BY <1>1, <3>1 DEF Sent
    <3>3. s = Len(covers) + 1 /\ covers \in Seq(SUBSET Item) /\ Len(covers) = sent.syncs
      <4>1. covers \in Seq(SUBSET Item) /\ Len(covers) = sent.syncs
        BY <1>1 DEF Typed
      <4>2. s \in 1 .. (sent.syncs + 1) /\ s \notin 1 .. sent.syncs /\ sent.syncs \in Nat
        BY <1>1, <2>2, <3>2
      <4>3. s = sent.syncs + 1
        BY <4>2
      <4> QED BY <4>1, <4>3
    <3>4. HandedOver \in SUBSET Item
      <4>2. ASSUME NEW kind \in Inputs, NEW n \in Nat PROVE Numbered(kind, n) \subseteq Item
        BY DEF Numbered, Item
      <4> QED BY <1>1, <4>2 DEF HandedOver, Inputs
    <3>5. covers'[s] = HandedOver
      BY <3>1, <3>3, <3>4, Appended
    <3>6. \A item \in HandedOver :
            \/ item[1] = "event" /\ item[2] \in 1 .. sent.events
            \/ item[1] = "batch" /\ item[2] \in 1 .. sent.batches
            \/ item[1] = "command" /\ item[2] \in 1 .. sent.commands
      BY DEF HandedOver, Numbered
    <3> QED BY <3>2, <3>5, <3>6 DEF Numbering
  <2> QED BY <2>1, <2>2
<1>3. ASSUME NEW s \in Nat, In(s, syncs') PROVE s \in 1 .. sent'.syncs
  <2>1. CASE syncs' \in {syncs, <<>>}
    <3>1. In(s, syncs)
      BY <1>3, <2>1, Empty
    <3> QED BY <1>1, <3>1 DEF Barriers
  <2>2. CASE sent' = [sent EXCEPT !.syncs = @ + 1] /\ syncs' = Append(syncs, sent.syncs + 1)
    <3>1. sent'.syncs = sent.syncs + 1 /\ syncs \in Seq(Nat) /\ sent.syncs + 1 \in Nat
      BY <1>1, <2>2 DEF Sent, Typed
    <3>2. In(s, syncs) \/ s = sent.syncs + 1
      BY <1>3, <2>2, <3>1, Appended DEF In
    <3>3. In(s, syncs) => s \in 1 .. sent.syncs
      BY <1>1 DEF Barriers
    <3> QED BY <1>1, <3>1, <3>2, <3>3
  <2>3. syncs' = syncs \/ syncs' = <<>> \/ (sent' = [sent EXCEPT !.syncs = @ + 1] /\ syncs' = Append(syncs, sent.syncs + 1))
    BY <1>1 DEF HandsOver
  <2> QED BY <2>1, <2>2, <2>3
<1>4. ASSUME NEW s \in Nat, In(s, taken'.syncs) PROVE Taking(s)'
  <2>1. CASE worker' = worker \/ worker \notin {"take syncs", "release"}
    <3>1. taken'.syncs = taken.syncs
      BY <1>1, <2>1 DEF Rounds
    <3>2. taken.syncs # <<>> /\ In(s, taken.syncs)
      BY <1>4, <3>1, Empty
    <3>3. Taking(s) /\ s \in 1 .. sent.syncs
      BY <1>1, <3>2 DEF Barriers, Taking
    <3>4. CASE worker # "release"
      BY <3>2, <3>3, <3>4, TakingKept
    <3>5. CASE worker = "release"
      <4>1. worker' = worker
        BY <2>1, <3>5
      <4> QED BY <3>3, <3>5, <4>1, ReleasingStays
    <3> QED BY <3>4, <3>5
  <2>2. CASE worker' # worker /\ worker = "take syncs"
    <3>1. taken'.syncs = syncs /\ worker' = "drain"
      BY <1>1, <2>2 DEF Rounds
    <3>2. s \in 1 .. sent.syncs
      BY <1>1, <1>4, <3>1 DEF Barriers
    <3> QED BY <2>2, <3>1, <3>2, TakingKept
  <2>3. CASE worker' # worker /\ worker = "release"
    <3>1. taken'.syncs = <<>>
      BY <1>1, <2>3 DEF Rounds, Nothing
    <3> QED BY <1>4, <3>1, Empty
  <2> QED BY <2>1, <2>2, <2>3
<1>5. ASSUME NEW s \in Nat, NEW outcome \in {"done", "failed"}, <<"sync", s, outcome>> \in acks'
      PROVE  s \in 1 .. sent'.syncs /\ Released(s)'
  <2>1. CASE <<"sync", s, outcome>> \in acks
    <3>1. s \in 1 .. sent.syncs /\ Released(s)
      BY <1>1, <2>1 DEF Barriers
    <3>2. Released(s)'
      BY <3>1, ReleaseStays
    <3> QED BY <1>1, <3>1, <3>2
  <2>2. CASE <<"sync", s, outcome>> \notin acks
    <3>1. worker = "release" /\ In(s, taken.syncs)
      <4>1. taken.syncs \in Seq(Nat)
        BY <1>1, TakenTyped
      <4>2. acks' # acks /\ \A n, o : acks' # acks \cup {<<"batch", n, o>>}
        BY <1>5, <2>2
      <4>3. /\ worker = "release"
            /\ acks' = acks \cup {<<"sync", taken.syncs[i], "done">> : i \in DOMAIN taken.syncs}
        BY <1>1, <4>2 DEF Logs
      <4>4. PICK i \in DOMAIN taken.syncs : <<"sync", s, outcome>> = <<"sync", taken.syncs[i], "done">>
        BY <1>5, <2>2, <4>3
      <4>5. i \in 1 .. Len(taken.syncs) /\ taken.syncs[i] = s
        BY <4>1, <4>4
      <4> QED BY <4>3, <4>5 DEF In
    <3>2. Taking(s)
      BY <1>1, <3>1 DEF Barriers
    <3>3. s \in 1 .. sent.syncs /\ Released(s)
      BY <3>1, <3>2 DEF Taking, Released
    <3>4. Released(s)'
      BY <3>3, ReleaseStays
    <3> QED BY <1>1, <3>3, <3>4
  <2> QED BY <2>1, <2>2
<1> QED BY <1>2, <1>3, <1>4, <1>5 DEF Barriers

-----------------------------------------------------------------------------
(* The invariant holds at the start. *)
LEMMA EngineInitial == Init => EngineInv
<1> SUFFICES ASSUME Init PROVE EngineInv
  OBVIOUS
<1> USE DEF Init
<1>1. Typed
  <2>1. Nothing \in Taken
    BY DEF Nothing, Taken
  <2>2. [events |-> 0, batches |-> 0, commands |-> 0, syncs |-> 0] \in Sent
    BY DEF Sent
  <2>3. sent.syncs = 0
    OBVIOUS
  <2>4. applied \in Seq(Item) /\ replies \in Seq(Reply) /\ covers \in Seq(SUBSET Item) /\ Len(covers) = 0
    OBVIOUS
  <2> QED BY <2>1, <2>2, <2>3, <2>4 DEF Typed
<1>2. Bounded
  BY DEF Bounded
<1>3. Placed
  BY DEF Placed, Places, Before, Trading, Batching, Closing, Nothing
<1>4. Ordered
  BY DEF Ordered, Nothing
<1>5. Tracked
  BY DEF Tracked, Nothing
<1>6. Barriers
  BY Empty DEF Barriers, Nothing
<1> QED BY <1>1, <1>2, <1>3, <1>4, <1>5, <1>6 DEF EngineInv

(* A step that changes nothing keeps the invariant. *)
LEMMA EngineStill == ASSUME EngineInv, UNCHANGED vars PROVE EngineInv'
<1> USE DEF vars, moving, control, feed, inputs, desk, answers, history
<1>1. Typed' /\ Bounded' /\ Placed'
  BY DEF EngineInv, Typed, Bounded, Placed
<1>2. Ordered' /\ Tracked'
  BY DEF EngineInv, Ordered, Tracked, Has, In, Reach
<1>3. Barriers'
  <2>1. /\ covers' = covers /\ sent' = sent /\ taken' = taken /\ acks' = acks /\ applied' = applied /\ replies' = replies
        /\ worker' = worker /\ driven' = driven /\ shown' = shown /\ durable' = durable /\ syncs' = syncs
    OBVIOUS
  <2> HIDE DEF vars, moving, control, feed, inputs, desk, answers, history
  <2>2. Barriers
    BY DEF EngineInv
  <2>3. ASSUME NEW n, NEW s PROVE In(n, s)' <=> In(n, s)
    BY DEF In
  <2>4. ASSUME NEW s, Numbering(s) PROVE Numbering(s)'
    BY <2>1, <2>4 DEF Numbering
  <2>5. ASSUME NEW s, Released(s) PROVE Released(s)'
    BY <2>1, <2>5 DEF Released, Covered, Reach, Has
  <2>6. ASSUME NEW s, EventsTaken(s) PROVE EventsTaken(s)'
    BY <2>1, <2>6 DEF EventsTaken, In, Has
  <2>7. ASSUME NEW s, BatchesTaken(s) PROVE BatchesTaken(s)'
    BY <2>1, <2>7 DEF BatchesTaken, In, Reach, Has
  <2>8. ASSUME NEW s, CommandsTaken(s) PROVE CommandsTaken(s)'
    BY <2>1, <2>8 DEF CommandsTaken
  <2>9. ASSUME NEW s, Taking(s) PROVE Taking(s)'
    <3>1. Covered(s, durable) => Covered(s, durable)'
      BY <2>1 DEF Covered, Reach, Has
    <3>2. Covered(s, shown) => Covered(s, shown)'
      BY <2>1 DEF Covered, Reach, Has
    <3> QED BY <2>1, <2>6, <2>7, <2>8, <2>9, <3>1, <3>2 DEF Taking
  <2>10. \A s \in 1 .. sent'.syncs : Numbering(s)'
    BY <2>1, <2>2, <2>4 DEF Barriers
  <2>11. ASSUME NEW s \in Nat, In(s, syncs)' PROVE s \in 1 .. sent'.syncs
    BY <2>1, <2>2, <2>11 DEF Barriers, In
  <2>12. ASSUME NEW s \in Nat, In(s, taken.syncs)' PROVE Taking(s)'
    BY <2>1, <2>2, <2>9, <2>12 DEF Barriers, In
  <2>13. ASSUME NEW s \in Nat, <<"sync", s, "done">> \in acks' \/ <<"sync", s, "failed">> \in acks'
         PROVE  s \in 1 .. sent'.syncs /\ Released(s)'
    BY <2>1, <2>2, <2>5, <2>13 DEF Barriers
  <2> HIDE DEF Numbering, Taking, Released, In
  <2> QED BY <2>10, <2>11, <2>12, <2>13 DEF Barriers
<1> QED BY <1>1, <1>2, <1>3 DEF EngineInv

(* Every step of the engine keeps the invariant. *)
LEMMA EngineStep == ASSUME EngineInv, [Next]_vars PROVE EngineInv'
<1>1. CASE Next
  BY <1>1, TypesKept, PlacedKept, OrderedKept, TrackedKept, BarriersKept DEF EngineInv
<1>2. CASE UNCHANGED vars
  BY <1>2, EngineStill
<1> QED BY <1>1, <1>2

(* The invariant is stronger than what the engine promises. *)
LEMMA EngineSafe == EngineInv => AnsweredInOrder /\ BarriersCover
<1> SUFFICES ASSUME EngineInv PROVE AnsweredInOrder /\ BarriersCover
  OBVIOUS
<1>1. /\ Typed /\ Bounded /\ Placed /\ Ordered /\ Barriers /\ Len(replies) \in Nat /\ DOMAIN replies = 1 .. Len(replies)
  BY Lengths DEF EngineInv, Typed
<1>2. ASSUME NEW upTo \in Nat, NEW item, Has(applied, upTo, item) PROVE item \in AppliedUpTo(upTo)
  BY <1>2 DEF Has, AppliedUpTo
<1>3. AnsweredInOrder
  <2>1. ASSUME NEW i \in DOMAIN replies
        PROVE  /\ replies[i][1] = i
               /\ replies[i][2] = "done" => <<"command", i>> \in AppliedUpTo(shown)
    <3>1. replies[i][1] = i /\ (replies[i][2] = "done" => Has(applied, shown, <<"command", i>>))
      BY <1>1 DEF Ordered
    <3> QED BY <1>1, <1>2, <3>1 DEF Typed
  <2>2. owner = "stopped" => Len(replies) = sent.commands
    <3> SUFFICES ASSUME owner = "stopped" PROVE Len(replies) = sent.commands
      OBVIOUS
    <3>1. worker = "exited" /\ taken.last /\ taken.commands = <<>> /\ commands = <<>>
      BY <1>1 DEF Placed
    <3>2. sent.commands = Len(replies) + Len(taken.commands) + Len(commands)
      BY <1>1 DEF Ordered
    <3> QED BY <1>1, <3>1, <3>2
  <2> QED BY <2>1, <2>2 DEF AnsweredInOrder
<1>4. BarriersCover
  <2> SUFFICES ASSUME NEW s \in 1 .. sent.syncs, Acked("sync", s), NEW item \in covers[s]
               PROVE  Reached(item, shown) /\ (driven => Reached(item, durable))
    BY DEF BarriersCover
  <2>1. s \in Nat /\ shown \in Nat /\ durable \in Nat
    BY <1>1, SentTyped DEF Typed
  <2>2. Released(s)
    BY <1>1, <2>1 DEF Acked, Barriers
  <2>3. ASSUME NEW upTo \in Nat, Reach(applied, upTo, item) PROVE Reached(item, upTo)
    BY <1>2, <2>3 DEF Reach, Reached
  <2> QED BY <2>1, <2>2, <2>3 DEF Released, Covered
<1> QED BY <1>3, <1>4

(* In every behaviour of the engine, for any capacity and any numbers of events, batches,
   commands and barriers: each accepted command is answered once and in its order, its effect
   published before its answer, and none is left when stop() has returned
   (src/src/server/engine.cpp run(), paper_engine.cpp post_trading). *)
THEOREM CommandsAnsweredInOrder == Spec => []AnsweredInOrder
<1>1. EngineInv /\ [Next]_vars => EngineInv'
  BY EngineStep
<1>2. EngineInv => AnsweredInOrder
  BY EngineSafe
<1> QED BY EngineInitial, <1>1, <1>2, PTL DEF Spec

(* In every behaviour of the engine: a released barrier covers every input handed over before
   it was asked for, published, and in a driven engine in synced journals
   (src/src/server/engine.cpp synchronize and run()). *)
THEOREM BarriersAlwaysCover == Spec => []BarriersCover
<1>1. EngineInv /\ [Next]_vars => EngineInv'
  BY EngineStep
<1>2. EngineInv => BarriersCover
  BY EngineSafe
<1> QED BY EngineInitial, <1>1, <1>2, PTL DEF Spec
=============================================================================
