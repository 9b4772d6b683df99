----------------------------- MODULE EventQueue -----------------------------
(***************************************************************************)
(* The queue between the provider threads and the engine thread            *)
(* (include/openport/md/event_queue.hpp).  Any number of producers publish *)
(* events under one mutex; one consumer drains everything that is retained.*)
(*                                                                         *)
(* The critical section of publish, wake and drain is one action each; the *)
(* notification a producer sends after it has left the mutex is an action  *)
(* of its own, and so are the consumer's wait, its wake-up and its timeout.*)
(*                                                                         *)
(* Data is abstracted to what the queue looks at: the kind of an event and *)
(* the instrument or symbol it is about.  "serial" numbers the publications*)
(* and stands for the payload.  Status events and snapshot markers, which  *)
(* the queue treats alike, are both "status".                              *)
(***************************************************************************)
EXTENDS Integers, Sequences, FiniteSets

CONSTANTS
  Ids,               \* contracts, by dense id
  Symbols,           \* subscribed underlyings
  Kinds,             \* latest-value option kinds: quote, greeks, interest, volume
  Capacity,          \* capacity_
  PreserveSpotPrints,\* preserve_spot_prints_
  Generations,       \* generation_ is an integer modulo this (2^64 in the build)
  Producers,         \* threads that may be inside publish or wake at once
  MaxPublished       \* bound: publications per behaviour

ASSUME QueueAssumption ==
  /\ Kinds \subseteq {"quote", "greeks", "interest", "volume"}
  /\ Capacity \in Nat
  /\ PreserveSpotPrints \in BOOLEAN
  /\ Generations \in Nat /\ Generations > 1
  /\ Producers \in Nat
  /\ MaxPublished \in Nat

VARIABLES
  events,            \* events_: retained events and tombstones, in order
  latest,            \* latest_: per contract, the positions of its latest values
  spots,             \* spots_: per symbol, the position of its latest print
  generation,        \* generation_: positions of another generation are void
  trades,            \* trades_: positions of every trade since the drain
  nextTrade,         \* next_trade_: the first trade that is not a tombstone
  depth,             \* depth_
  coalesced,         \* coalesced_
  dropped,           \* dropped_
  droppedSinceDrain, \* dropped_since_drain_
  wakeRequested,     \* wake_requested_
  notifying,         \* producers past the mutex that still have to notify
  consumer,          \* "working", "waiting" in wait_for, "notified" in it
  batch,             \* what the last drain appended to its output
  sent,              \* history: publications since the last drain, in order
  published,         \* history: publications so far
  handedOver         \* history: events drained so far

storage == <<events, latest, spots, trades, nextTrade, depth>>
counters == <<coalesced, dropped, droppedSinceDrain>>
vars == <<storage, generation, counters, wakeRequested, notifying, consumer,
          batch, sent, published, handedOver>>

-----------------------------------------------------------------------------
(* Events *)

OptionShapes == ({"definition", "trade"} \cup Kinds) \X Ids
SpotShapes == {"spot"} \X Symbols
StatusShape == <<"status", "feed">>
Shapes == OptionShapes \cup SpotShapes \cup {StatusShape}

Events == [shape : Shapes, serial : 1 .. MaxPublished]
Tombstone == [shape |-> <<"none", "none">>, serial |-> 0]

KindOf(e) == e.shape[1]
About(e) == e.shape[2]

\* Kinds of which only the latest value matters, one slot for each.
HasSlot(e) == \/ KindOf(e) \in Kinds
              \/ KindOf(e) = "spot" /\ ~PreserveSpotPrints

-----------------------------------------------------------------------------
(* Coalescing slots *)

NoPosition == 0                                                 \* kNone
NoPositions == [k \in Kinds |-> NoPosition]

\* The positions of an entry, void when another generation wrote them.
Positions(id) == IF latest[id].generation = generation
                   THEN latest[id].positions ELSE NoPositions
SpotPosition(s) == IF spots[s].generation = generation
                     THEN spots[s].position ELSE NoPosition

\* coalescing_slot: where the latest value e supersedes is retained, if anywhere.
Slot(e) == IF KindOf(e) = "spot" THEN SpotPosition(About(e))
           ELSE Positions(About(e))[KindOf(e)]

\* Mutation: a definition is not a barrier.
LatestAfterNoBarrier(e, position) ==
  IF KindOf(e) \in Kinds
    THEN [latest EXCEPT ![About(e)] =
            [generation |-> generation,
             positions |-> [Positions(About(e)) EXCEPT ![KindOf(e)] = position]]]
    ELSE latest

LatestAfter(e, position) ==
  IF KindOf(e) = "definition"
    THEN [latest EXCEPT ![About(e)] =
            [generation |-> latest[About(e)].generation, positions |-> NoPositions]]
  ELSE IF KindOf(e) \in Kinds
    THEN [latest EXCEPT ![About(e)] =
            [generation |-> generation,
             positions |-> [Positions(About(e)) EXCEPT ![KindOf(e)] = position]]]
  ELSE latest

SpotsAfter(e, position) ==
  IF KindOf(e) = "spot" /\ HasSlot(e)
    THEN [spots EXCEPT ![About(e)] =
            [generation |-> generation, position |-> position]]
    ELSE spots

NoLatest == [id \in Ids |-> [generation |-> 0, positions |-> NoPositions]]
NoSpots == [s \in Symbols |-> [generation |-> 0, position |-> NoPosition]]

-----------------------------------------------------------------------------
(* publish *)

\* A newer value takes the place of the one it supersedes, without a notification.
Coalesce(e) ==
  /\ HasSlot(e)
  /\ Slot(e) # NoPosition
  /\ events' = [events EXCEPT ![Slot(e)] = e]
  /\ coalesced' = coalesced + 1
  /\ UNCHANGED <<latest, spots, trades, nextTrade, depth, dropped,
                 droppedSinceDrain, notifying>>

Full == depth >= Capacity

\* At capacity an incoming trade is discarded.
DropTrade(e) ==
  /\ KindOf(e) = "trade" /\ Full
  /\ dropped' = dropped + 1
  /\ droppedSinceDrain' = TRUE
  /\ UNCHANGED <<storage, coalesced, notifying>>

\* At capacity an event that must survive evicts the oldest retained trade, if
\* any; the tombstone keeps the positions of everything behind it.
Evicts == Full /\ nextTrade <= Len(trades)
EventsAfter(e) ==
  Append(IF Evicts THEN [events EXCEPT ![trades[nextTrade]] = Tombstone] ELSE events, e)

CursorAfter == IF Evicts THEN nextTrade + 1 ELSE nextTrade

DepthAfter == IF Evicts THEN depth ELSE depth + 1

\* Mutation: only a producer that finds the queue occupied notifies.
NotifyOccupied == IF depth = 0 THEN notifying ELSE notifying + 1
NotifyAfter == notifying + 1

Retain(e) ==
  /\ HasSlot(e) => Slot(e) = NoPosition
  /\ ~(KindOf(e) = "trade" /\ Full)
  /\ events' = EventsAfter(e)
  /\ latest' = LatestAfter(e, Len(events) + 1)
  /\ spots' = SpotsAfter(e, Len(events) + 1)
  /\ trades' = IF KindOf(e) = "trade" THEN Append(trades, Len(events) + 1) ELSE trades
  /\ nextTrade' = CursorAfter
  /\ dropped' = IF Evicts THEN dropped + 1 ELSE dropped
  /\ droppedSinceDrain' = (droppedSinceDrain \/ Evicts)
  /\ depth' = DepthAfter
  /\ notifying' = NotifyAfter
  /\ UNCHANGED coalesced

Publish(shape) ==
  /\ published < MaxPublished
  /\ notifying < Producers
  /\ LET e == [shape |-> shape, serial |-> published + 1]
     IN /\ Coalesce(e) \/ DropTrade(e) \/ Retain(e)
        /\ sent' = Append(sent, e)
  /\ published' = published + 1
  /\ UNCHANGED <<generation, wakeRequested, consumer, batch, handedOver>>

\* Mutation: wake does not notify.
WakeSilently ==
  /\ notifying < Producers
  /\ wakeRequested' = TRUE
  /\ UNCHANGED <<storage, generation, counters, notifying, consumer, batch, sent,
                 published, handedOver>>

\* wake: a control barrier without a market event.
Wake ==
  /\ notifying < Producers
  /\ wakeRequested' = TRUE
  /\ notifying' = notifying + 1
  /\ UNCHANGED <<storage, generation, counters, consumer, batch, sent,
                 published, handedOver>>

\* ready_.notify_one, after the mutex is released.  It is lost unless the
\* consumer is already waiting.
Notify ==
  /\ notifying > 0
  /\ notifying' = notifying - 1
  /\ consumer' = IF consumer = "waiting" THEN "notified" ELSE consumer
  /\ UNCHANGED <<storage, generation, counters, wakeRequested, batch, sent,
                 published, handedOver>>

-----------------------------------------------------------------------------
(* drain *)

IsRetained(e) == e # Tombstone

\* The events retained in a storage, without its tombstones, in their order.
Places(stored) == {i \in DOMAIN stored : IsRetained(stored[i])}
Rank(stored, i) == Cardinality({j \in Places(stored) : j <= i})
Retained(stored) ==
  [n \in 1 .. Cardinality(Places(stored)) |->
     stored[CHOOSE i \in Places(stored) : Rank(stored, i) = n]]

\* Mutation: the wrapped generation leaves the old positions in place.
NewGenerationKeepsPositions ==
  /\ generation' = IF generation + 1 = Generations THEN 1 ELSE generation + 1
  /\ UNCHANGED <<latest, spots>>

\* Every position is void from here on; zero is reserved for unused entries.
NewGeneration ==
  IF generation + 1 = Generations
    THEN generation' = 1 /\ latest' = NoLatest /\ spots' = NoSpots
    ELSE generation' = generation + 1 /\ UNCHANGED <<latest, spots>>

\* The body of drain once the wait is over.
Collect ==
  /\ batch' = Retained(events)
  /\ events' = <<>>
  /\ trades' = <<>>
  /\ nextTrade' = 1
  /\ NewGeneration
  /\ depth' = 0
  /\ droppedSinceDrain' = FALSE
  /\ wakeRequested' = FALSE
  /\ consumer' = "working"
  /\ sent' = <<>>
  /\ handedOver' = handedOver + depth
  /\ UNCHANGED <<coalesced, dropped, notifying, published>>

\* What wait_for waits for.
Ready == depth # 0 \/ wakeRequested

\* With events retained, or a wake requested before the wait began, drain does
\* not wait; otherwise it releases the mutex and waits.
DrainNow == consumer = "working" /\ Ready /\ Collect
BeginWait ==
  /\ consumer = "working" /\ ~Ready
  /\ consumer' = "waiting"
  /\ UNCHANGED <<storage, generation, counters, wakeRequested, notifying, batch,
                 sent, published, handedOver>>

\* A notified consumer retakes the mutex and looks at the predicate again.
WakeUp == consumer = "notified" /\ Ready /\ Collect
KeepWaiting ==
  /\ consumer = "notified" /\ ~Ready
  /\ consumer' = "waiting"
  /\ UNCHANGED <<storage, generation, counters, wakeRequested, notifying, batch,
                 sent, published, handedOver>>

\* The wait gives up: drain takes whatever there is, which may be nothing.
Timeout == consumer \in {"waiting", "notified"} /\ Collect

-----------------------------------------------------------------------------

Init ==
  /\ events = <<>> /\ trades = <<>> /\ nextTrade = 1 /\ depth = 0
  /\ latest = NoLatest /\ spots = NoSpots
  /\ generation = 1
  /\ coalesced = 0 /\ dropped = 0 /\ droppedSinceDrain = FALSE
  /\ wakeRequested = FALSE /\ notifying = 0 /\ consumer = "working"
  /\ batch = <<>> /\ sent = <<>> /\ published = 0 /\ handedOver = 0

Next == \/ \E shape \in Shapes : Publish(shape)
        \/ Wake \/ Notify
        \/ DrainNow \/ BeginWait \/ WakeUp \/ KeepWaiting \/ Timeout

Spec == Init /\ [][Next]_vars

\* The consumer thread runs and a producer past the mutex reaches its notify.
\* Nothing is assumed of the timeout.
Fairness == /\ WF_vars(DrainNow) /\ WF_vars(BeginWait)
            /\ WF_vars(WakeUp) /\ WF_vars(KeepWaiting)
            /\ WF_vars(Notify)

FairSpec == Spec /\ Fairness

-----------------------------------------------------------------------------
(* Properties *)

Live == {i \in DOMAIN events : events[i] # Tombstone}
LiveTrades == {i \in Live : KindOf(events[i]) = "trade"}

\* status().overloaded.
Overloaded == depth > Capacity \/ droppedSinceDrain

\* Every variable keeps its type.
TypeOK ==
  /\ events \in Seq(Events \cup {Tombstone})
  /\ latest \in [Ids -> [generation : 0 .. Generations - 1,
                         positions : [Kinds -> Nat]]]
  /\ spots \in [Symbols -> [generation : 0 .. Generations - 1, position : Nat]]
  /\ generation \in 1 .. Generations - 1
  /\ trades \in Seq(Nat)
  /\ nextTrade \in Nat \ {0}
  /\ depth \in Nat
  /\ coalesced \in Nat /\ dropped \in Nat
  /\ droppedSinceDrain \in BOOLEAN
  /\ wakeRequested \in BOOLEAN
  /\ notifying \in 0 .. Producers
  /\ consumer \in {"working", "waiting", "notified"}
  /\ sent \in Seq(Events)
  /\ published \in 0 .. MaxPublished
  /\ handedOver \in Nat

\* A position that is still of this generation leads to a retained event of
\* exactly its kind and contract: neither a tombstone, a definition, a position
\* of an earlier drain nor a wrapped-around generation can redirect an update.
SlotsPointHome ==
  /\ \A id \in Ids, k \in Kinds :
       Positions(id)[k] # NoPosition =>
         /\ Positions(id)[k] \in DOMAIN events
         /\ events[Positions(id)[k]].shape = <<k, id>>
  /\ \A s \in Symbols :
       SpotPosition(s) # NoPosition =>
         /\ SpotPosition(s) \in DOMAIN events
         /\ events[SpotPosition(s)].shape = <<"spot", s>>

\* The index of trades and its cursor describe the storage: what lies before
\* the cursor was evicted, what lies after it are the retained trades, oldest first.
TradeIndex ==
  /\ nextTrade <= Len(trades) + 1
  /\ \A i \in 1 .. Len(trades) :
       /\ trades[i] \in DOMAIN events
       /\ i < nextTrade => events[trades[i]] = Tombstone
       /\ i >= nextTrade => KindOf(events[trades[i]]) = "trade"
  /\ \A i, j \in 1 .. Len(trades) : i < j => trades[i] < trades[j]
  /\ \A p \in LiveTrades : \E i \in nextTrade .. Len(trades) : trades[i] = p

\* depth_ counts the retained events, which is what drain returns.
DepthCountsRetained == depth = Cardinality(Live)

\* The storage grows past its capacity only when no trade is left to discard.
GrowsOnlyWithoutTrades == depth > Capacity => LiveTrades = {}

SameKey(d, e) == d.shape = e.shape
IsBarrier(d, e) == KindOf(d) = "definition" /\ KindOf(e) # "spot" /\ About(d) = About(e)

\* Publication i was replaced: a later one has its slot, and no definition of
\* its contract came between the two.
Superseded(i) ==
  /\ HasSlot(sent[i])
  /\ \E j \in i + 1 .. Len(sent) :
       /\ SameKey(sent[i], sent[j])
       /\ ~ \E k \in i + 1 .. j - 1 : IsBarrier(sent[k], sent[i])

\* "Only trades may be discarded at capacity.  Latest-value state, definitions
\* and status must survive overload": every publication since the drain that is
\* not a trade and was not superseded is retained.
OnlyTradesAreLost ==
  \A i \in DOMAIN sent :
    (KindOf(sent[i]) # "trade" /\ ~Superseded(i)) =>
      \E p \in DOMAIN events : events[p] = sent[i]

(* Strengthenings of OnlyTradesAreLost and SlotsPointHome, for the proofs. *)

\* No entry is of a generation still to come.
NoFutureGeneration ==
  /\ \A id \in Ids : latest[id].generation <= generation
  /\ \A s \in Symbols : spots[s].generation <= generation

\* The serials of the publications since the drain are consecutive.
SerialsConsecutive ==
  /\ Len(sent) <= published
  /\ \A i \in DOMAIN sent : sent[i].serial = published - Len(sent) + i

\* No barrier of e was sent after it; so for every event a slot leads to.
Unbarred(e, history) ==
  \E i \in DOMAIN history :
    /\ history[i] = e
    /\ \A j \in i + 1 .. Len(history) : ~IsBarrier(history[j], e)
SlotsUnbarred ==
  /\ \A id \in Ids, k \in Kinds :
       Positions(id)[k] # NoPosition => Unbarred(events[Positions(id)[k]], sent)
  /\ \A s \in Symbols :
       SpotPosition(s) # NoPosition => Unbarred(events[SpotPosition(s)], sent)

\* No definition of its contract is retained behind a value a slot leads to.
SlotsBehindBarriers ==
  \A id \in Ids, k \in Kinds : Positions(id)[k] # NoPosition =>
    \A p \in DOMAIN events : p > Positions(id)[k] => events[p].shape # <<"definition", id>>

\* A retained value without a slot has a definition of its contract behind it.
OthersBarred ==
  \A p \in DOMAIN events :
    /\ \A id \in Ids, k \in Kinds : events[p].shape = <<k, id>> =>
         \/ Positions(id)[k] = p
         \/ \E q \in DOMAIN events : q > p /\ events[q].shape = <<"definition", id>>
    /\ \A s \in Symbols : (events[p].shape = <<"spot", s>> /\ ~PreserveSpotPrints) =>
         SpotPosition(s) = p

\* Every publication is accounted for exactly once.
EveryPublicationCounted ==
  published = handedOver + depth + coalesced + dropped

\* No lost wake-up: a consumer sleeps on work only while a notification is
\* still on its way, although coalescing and drops send none.
NoLostWakeup ==
  (consumer = "waiting" /\ Ready) => notifying > 0

\* The queue's storage without its tombstones is the abstract pending sequence.
Abstract == INSTANCE LatestQueue WITH
  LatestKinds <- Kinds \cup (IF PreserveSpotPrints THEN {} ELSE {"spot"}),
  Room <- Capacity,
  Publications <- Events,
  pending <- Retained(events)

\* Positions, tombstones, trade cursor and generations implement the abstract queue.
ImplementsLatestQueue == Abstract!Spec

\* What is retained is drained without help from the timeout.
EventuallyDrained == depth # 0 ~> depth = 0

=============================================================================
