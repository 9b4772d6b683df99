-------------------------- MODULE EventQueueProofs --------------------------
(***************************************************************************)
(* For every set of contracts and symbols, every capacity and every width  *)
(* of the generation: the queue's indexes stay right, its depth counts     *)
(* what it retains, nothing but a trade is lost, and what it retains, read *)
(* in order without the tombstones, is the pending sequence of LatestQueue.*)
(***************************************************************************)
EXTENDS EventQueue, FiniteSetTheorems, SequenceTheorems, TLAPS

(* What the kind of an event says about its subject; kinds are disjoint. *)
LEMMA EventShape ==
  ASSUME NEW e \in Events
  PROVE  /\ e.serial \in 1 .. MaxPublished
         /\ e # Tombstone
         /\ e.shape = <<KindOf(e), About(e)>>
         /\ KindOf(e) \in {"definition", "trade", "spot", "status"} \cup Kinds
         /\ KindOf(e) \in {"definition", "trade"} \cup Kinds => About(e) \in Ids
         /\ KindOf(e) = "spot" => About(e) \in Symbols
<1> USE QueueAssumption
<1>1. e.shape \in Shapes /\ e.serial \in 1 .. MaxPublished
  BY DEF Events
<1>2. e # Tombstone
  BY <1>1 DEF Tombstone
<1>3. CASE e.shape \in OptionShapes
  BY <1>1, <1>2, <1>3 DEF OptionShapes, KindOf, About
<1>4. CASE e.shape \in SpotShapes
  BY <1>1, <1>2, <1>4 DEF SpotShapes, KindOf, About
<1>5. CASE e.shape = StatusShape
  BY <1>1, <1>2, <1>5 DEF StatusShape, KindOf, About
<1>6. QED BY <1>1, <1>3, <1>4, <1>5 DEF Shapes

(* Only a kind with a slot is ever looked up in one. *)
LEMMA KindsDisjoint == Kinds \cap {"definition", "trade", "spot", "status", "none"} = {}
BY QueueAssumption

(* The inductive invariant, without the history of publications. *)
Indexes == /\ TypeOK /\ SlotsPointHome /\ TradeIndex /\ NoFutureGeneration
           /\ DepthCountsRetained /\ GrowsOnlyWithoutTrades /\ NoLostWakeup

(* The retained events are finitely many positions. *)
LEMMA LiveFinite ==
  ASSUME events \in Seq(Events \cup {Tombstone})
  PROVE  /\ Len(events) \in Nat /\ DOMAIN events = 1 .. Len(events)
         /\ IsFiniteSet(Live) /\ Cardinality(Live) \in Nat
<1>1. Len(events) \in Nat /\ DOMAIN events = 1 .. Len(events)
  OBVIOUS
<1>2. Live \subseteq 1 .. Len(events)
  BY <1>1 DEF Live
<1>3. IsFiniteSet(1 .. Len(events))
  BY <1>1, FS_Interval
<1>4. QED BY <1>1, <1>2, <1>3, FS_Subset, FS_CardinalityType

-----------------------------------------------------------------------------
(* The three ways of publishing, seen through the indexes *)

(* What appending an event does to the storage. *)
LEMMA RetainStorage ==
  ASSUME TypeOK, TradeIndex, NEW e \in Events, Retain(e)
  PROVE  /\ events' \in Seq(Events \cup {Tombstone})
         /\ Len(events') = Len(events) + 1
         /\ events'[Len(events) + 1] = e
         /\ \A p \in 1 .. Len(events) :
              events'[p] = IF Evicts /\ p = trades[nextTrade] THEN Tombstone ELSE events[p]
         /\ Evicts => /\ nextTrade \in 1 .. Len(trades)
                      /\ trades[nextTrade] \in LiveTrades
                      /\ trades[nextTrade] \in 1 .. Len(events)
<1>1. Evicts => /\ nextTrade \in 1 .. Len(trades)
                /\ trades[nextTrade] \in LiveTrades
                /\ trades[nextTrade] \in 1 .. Len(events)
  <2>1. SUFFICES ASSUME Evicts
                 PROVE  /\ nextTrade \in 1 .. Len(trades)
                        /\ trades[nextTrade] \in LiveTrades
                        /\ trades[nextTrade] \in 1 .. Len(events)
    OBVIOUS
  <2>2. nextTrade \in 1 .. Len(trades)
    BY <2>1 DEF Evicts, TypeOK
  <2>3. trades[nextTrade] \in DOMAIN events /\ KindOf(events[trades[nextTrade]]) = "trade"
    BY <2>2 DEF TradeIndex, TypeOK
  <2>4. KindOf(Tombstone) = "none"
    BY DEF KindOf, Tombstone
  <2>5. QED BY <2>2, <2>3, <2>4 DEF TypeOK, LiveTrades, Live
<1> DEFINE kept == IF Evicts THEN [events EXCEPT ![trades[nextTrade]] = Tombstone] ELSE events
<1>2. /\ kept \in Seq(Events \cup {Tombstone}) /\ Len(kept) = Len(events)
      /\ \A p \in 1 .. Len(events) :
           kept[p] = IF Evicts /\ p = trades[nextTrade] THEN Tombstone ELSE events[p]
  <2>1. CASE Evicts
    <3>1. trades[nextTrade] \in 1 .. Len(events)
      BY <1>1, <2>1
    <3>2. Tombstone \in Events \cup {Tombstone} /\ events \in Seq(Events \cup {Tombstone})
      BY DEF TypeOK
    <3>3. /\ [events EXCEPT ![trades[nextTrade]] = Tombstone] \in Seq(Events \cup {Tombstone})
          /\ Len([events EXCEPT ![trades[nextTrade]] = Tombstone]) = Len(events)
          /\ \A p \in 1 .. Len(events) :
               [events EXCEPT ![trades[nextTrade]] = Tombstone][p] =
                 IF p = trades[nextTrade] THEN Tombstone ELSE events[p]
      BY <3>1, <3>2, ExceptSeq
    <3>4. QED BY <2>1, <3>3
  <2>2. CASE ~Evicts
    BY <2>2 DEF TypeOK
  <2>3. QED BY <2>1, <2>2
<1>3. events' = Append(kept, e)
  BY DEF Retain, EventsAfter
<1> HIDE DEF kept
<1>4. QED BY <1>1, <1>2, <1>3 DEF TypeOK

(* Appending an event keeps every type. *)
LEMMA RetainType ==
  ASSUME TypeOK, TradeIndex, DepthCountsRetained, NEW e \in Events, Retain(e), notifying < Producers
  PROVE  /\ events' \in Seq(Events \cup {Tombstone})
         /\ latest' \in [Ids -> [generation : 0 .. Generations - 1,
                                 positions : [Kinds -> Nat]]]
         /\ spots' \in [Symbols -> [generation : 0 .. Generations - 1, position : Nat]]
         /\ trades' \in Seq(Nat) /\ nextTrade' \in Nat \ {0} /\ depth' \in Nat
         /\ coalesced' \in Nat /\ dropped' \in Nat /\ droppedSinceDrain' \in BOOLEAN
         /\ notifying' \in 0 .. Producers
<1> USE QueueAssumption
<1>1. events' \in Seq(Events \cup {Tombstone}) /\ Len(events) + 1 \in Nat
  BY RetainStorage DEF TypeOK
<1>2. latest' \in [Ids -> [generation : 0 .. Generations - 1, positions : [Kinds -> Nat]]]
  <2>1. \A id \in Ids : Positions(id) \in [Kinds -> Nat]
    BY DEF TypeOK, Positions, NoPositions, NoPosition
  <2>2. generation \in 0 .. Generations - 1
    BY DEF TypeOK
  <2>3. CASE KindOf(e) = "definition"
    BY <2>3, EventShape DEF Retain, LatestAfter, TypeOK, NoPositions, NoPosition
  <2>4. CASE KindOf(e) \in Kinds
    <3>1. About(e) \in Ids /\ KindOf(e) # "definition"
      BY <2>4, EventShape, KindsDisjoint
    <3>2. [Positions(About(e)) EXCEPT ![KindOf(e)] = Len(events) + 1] \in [Kinds -> Nat]
      BY <2>1, <3>1, <1>1
    <3>3. latest' = [latest EXCEPT ![About(e)] =
                       [generation |-> generation,
                        positions |-> [Positions(About(e)) EXCEPT ![KindOf(e)] = Len(events) + 1]]]
      BY <2>4, <3>1 DEF Retain, LatestAfter
    <3>4. QED BY <2>2, <3>2, <3>3 DEF TypeOK
  <2>5. CASE KindOf(e) # "definition" /\ KindOf(e) \notin Kinds
    BY <2>5 DEF Retain, LatestAfter, TypeOK
  <2>6. QED BY <2>3, <2>4, <2>5
<1>3. spots' \in [Symbols -> [generation : 0 .. Generations - 1, position : Nat]]
  <2>1. spots' = IF KindOf(e) = "spot" /\ HasSlot(e)
                   THEN [spots EXCEPT ![About(e)] =
                           [generation |-> generation, position |-> Len(events) + 1]]
                   ELSE spots
    BY DEF Retain, SpotsAfter
  <2>2. generation \in 0 .. Generations - 1
    BY DEF TypeOK
  <2>3. QED BY <1>1, <2>1, <2>2 DEF TypeOK
<1>4. trades' \in Seq(Nat)
  BY <1>1 DEF Retain, TypeOK
<1>5. nextTrade' \in Nat \ {0} /\ depth' \in Nat /\ notifying' \in 0 .. Producers
  BY DEF Retain, TypeOK, CursorAfter, DepthAfter, NotifyAfter
<1>6. coalesced' \in Nat /\ dropped' \in Nat /\ droppedSinceDrain' \in BOOLEAN
  BY DEF Retain, TypeOK
<1>7. QED BY <1>1, <1>2, <1>3, <1>4, <1>5, <1>6

(* After an event is appended a slot leads to it, or where it led before: no
   further than the last definition of its contract. *)
LEMMA RetainPositions ==
  ASSUME TypeOK, NEW e \in Events, Retain(e), generation' = generation
  PROVE  /\ \A id \in Ids, k \in Kinds : Positions(id)'[k] # NoPosition =>
              \/ Positions(id)'[k] = Len(events) + 1 /\ e.shape = <<k, id>>
              \/ /\ Positions(id)'[k] = Positions(id)[k]
                 /\ ~(KindOf(e) = "definition" /\ About(e) = id)
         /\ \A s \in Symbols : SpotPosition(s)' # NoPosition =>
              \/ SpotPosition(s)' = Len(events) + 1 /\ e.shape = <<"spot", s>>
              \/ SpotPosition(s)' = SpotPosition(s)
<1>1. ASSUME NEW id \in Ids, NEW k \in Kinds, Positions(id)'[k] # NoPosition
      PROVE  \/ Positions(id)'[k] = Len(events) + 1 /\ e.shape = <<k, id>>
             \/ /\ Positions(id)'[k] = Positions(id)[k]
                /\ ~(KindOf(e) = "definition" /\ About(e) = id)
  <2>1. CASE KindOf(e) = "definition"
    <3>1. latest' = [latest EXCEPT ![About(e)] =
                       [generation |-> latest[About(e)].generation, positions |-> NoPositions]]
      BY <2>1 DEF Retain, LatestAfter
    <3>2. CASE id = About(e)
      <4>1. Positions(id)' = NoPositions
        BY <3>1, <3>2 DEF Positions, TypeOK
      <4>2. QED BY <1>1, <4>1 DEF NoPositions
    <3>3. CASE id # About(e)
      BY <3>1, <3>3 DEF Positions, TypeOK
    <3>4. QED BY <3>2, <3>3
  <2>2. CASE KindOf(e) \in Kinds
    <3>1. About(e) \in Ids /\ KindOf(e) # "definition" /\ e.shape = <<KindOf(e), About(e)>>
      BY <2>2, EventShape, KindsDisjoint
    <3>2. latest' = [latest EXCEPT ![About(e)] =
                       [generation |-> generation,
                        positions |-> [Positions(About(e)) EXCEPT ![KindOf(e)] = Len(events) + 1]]]
      BY <2>2, <3>1 DEF Retain, LatestAfter
    <3>3. CASE id # About(e)
      BY <3>2, <3>3 DEF Positions, TypeOK
    <3>4. CASE id = About(e)
      <4>1. Positions(id)' = [Positions(id) EXCEPT ![KindOf(e)] = Len(events) + 1]
        BY <3>1, <3>2, <3>4 DEF Positions, TypeOK
      <4>2. Positions(id) \in [Kinds -> Nat]
        BY DEF TypeOK, Positions, NoPositions, NoPosition
      <4>3. CASE k = KindOf(e)
        BY <3>1, <3>4, <4>1, <4>2, <4>3
      <4>4. CASE k # KindOf(e)
        BY <3>1, <4>1, <4>2, <4>4
      <4>5. QED BY <4>3, <4>4
    <3>5. QED BY <3>3, <3>4
  <2>3. CASE KindOf(e) # "definition" /\ KindOf(e) \notin Kinds
    BY <2>3 DEF Retain, LatestAfter, Positions
  <2>4. QED BY <2>1, <2>2, <2>3
<1>2. ASSUME NEW s \in Symbols, SpotPosition(s)' # NoPosition
      PROVE  \/ SpotPosition(s)' = Len(events) + 1 /\ e.shape = <<"spot", s>>
             \/ SpotPosition(s)' = SpotPosition(s)
  <2>1. CASE KindOf(e) = "spot" /\ HasSlot(e) /\ s = About(e)
    BY <2>1, EventShape DEF Retain, SpotsAfter, SpotPosition, TypeOK
  <2>2. CASE ~(KindOf(e) = "spot" /\ HasSlot(e) /\ s = About(e))
    BY <2>2 DEF Retain, SpotsAfter, SpotPosition, TypeOK
  <2>3. QED BY <2>1, <2>2
<1>3. QED BY <1>1, <1>2

(* The values slots lead to are not evicted. *)
LEMMA RetainKeepsValues ==
  ASSUME TypeOK, TradeIndex, NEW e \in Events, Retain(e),
         NEW p \in 1 .. Len(events), KindOf(events[p]) # "trade"
  PROVE  events'[p] = events[p]
BY RetainStorage DEF LiveTrades

(* Appending an event leaves every slot leading to a value of its own key. *)
LEMMA RetainSlots ==
  ASSUME TypeOK, TradeIndex, SlotsPointHome, NEW e \in Events, Retain(e), generation' = generation
  PROVE  SlotsPointHome'
<1>0. /\ Len(events) \in Nat /\ DOMAIN events = 1 .. Len(events)
      /\ DOMAIN events' = 1 .. Len(events) + 1
      /\ events'[Len(events) + 1] = e
  <2>1. Len(events) \in Nat /\ DOMAIN events = 1 .. Len(events)
    BY DEF TypeOK
  <2>2. /\ events' \in Seq(Events \cup {Tombstone}) /\ Len(events') = Len(events) + 1
        /\ events'[Len(events) + 1] = e
    BY RetainStorage
  <2> QED
    BY <2>1, <2>2
<1>1. ASSUME NEW k, NEW a, k \in Kinds \cup {"spot"},
             NEW p \in 1 .. Len(events), events[p].shape = <<k, a>>
      PROVE  p \in DOMAIN events' /\ events'[p].shape = <<k, a>>
  BY <1>0, <1>1, KindsDisjoint, RetainKeepsValues DEF KindOf
<1>2. ASSUME NEW id \in Ids, NEW k \in Kinds, Positions(id)'[k] # NoPosition
      PROVE  Positions(id)'[k] \in DOMAIN events' /\ events'[Positions(id)'[k]].shape = <<k, id>>
  <2>1. CASE Positions(id)'[k] = Len(events) + 1 /\ e.shape = <<k, id>>
    BY <1>0, <2>1
  <2>2. CASE Positions(id)'[k] = Positions(id)[k]
    <3>1. Positions(id)[k] \in 1 .. Len(events) /\ events[Positions(id)[k]].shape = <<k, id>>
      BY <1>0, <1>2, <2>2 DEF SlotsPointHome
    <3>2. QED BY <1>1, <2>2, <3>1
  <2>3. QED BY <1>2, <2>1, <2>2, RetainPositions
<1>3. ASSUME NEW s \in Symbols, SpotPosition(s)' # NoPosition
      PROVE  SpotPosition(s)' \in DOMAIN events' /\ events'[SpotPosition(s)'].shape = <<"spot", s>>
  <2>1. CASE SpotPosition(s)' = Len(events) + 1 /\ e.shape = <<"spot", s>>
    BY <1>0, <2>1
  <2>2. CASE SpotPosition(s)' = SpotPosition(s)
    <3>1. SpotPosition(s) \in 1 .. Len(events) /\ events[SpotPosition(s)].shape = <<"spot", s>>
      BY <1>0, <1>3, <2>2 DEF SlotsPointHome
    <3>2. QED BY <1>1, <2>2, <3>1
  <2>3. QED BY <1>3, <2>1, <2>2, RetainPositions
<1>4. QED BY <1>2, <1>3 DEF SlotsPointHome

(* Appending an event keeps the index of trades and its cursor right. *)
LEMMA RetainTrades ==
  ASSUME TypeOK, TradeIndex, NEW e \in Events, Retain(e)
  PROVE  TradeIndex'
<1> USE QueueAssumption
<1>0. /\ Len(events) \in Nat /\ DOMAIN events = 1 .. Len(events)
      /\ DOMAIN events' = 1 .. Len(events) + 1
      /\ Len(trades) \in Nat /\ nextTrade \in Nat \ {0}
      /\ \A i \in 1 .. Len(trades) : trades[i] \in 1 .. Len(events)
  <2>1. /\ Len(events) \in Nat /\ DOMAIN events = 1 .. Len(events)
        /\ Len(trades) \in Nat /\ nextTrade \in Nat \ {0}
    BY DEF TypeOK
  <2>2. events' \in Seq(Events \cup {Tombstone}) /\ Len(events') = Len(events) + 1
    BY RetainStorage
  <2>3. DOMAIN events' = 1 .. Len(events) + 1
    BY <2>2
  <2>4. \A i \in 1 .. Len(trades) : trades[i] \in 1 .. Len(events)
    BY <2>1 DEF TradeIndex
  <2> QED
    BY <2>1, <2>3, <2>4
<1>1. nextTrade' = IF Evicts THEN nextTrade + 1 ELSE nextTrade
  BY DEF Retain, CursorAfter
<1>2. /\ Len(trades') = IF KindOf(e) = "trade" THEN Len(trades) + 1 ELSE Len(trades)
      /\ \A i \in 1 .. Len(trades) : trades'[i] = trades[i]
      /\ KindOf(e) = "trade" => trades'[Len(trades) + 1] = Len(events) + 1
  BY DEF Retain, TypeOK
<1>3. KindOf(e) = "trade" => ~Evicts
  BY DEF Retain, Evicts
<1>4. nextTrade' <= Len(trades') + 1
  BY <1>0, <1>1, <1>2, <1>3 DEF TradeIndex, Evicts
<1>5. ASSUME NEW i \in 1 .. Len(trades), NEW j \in 1 .. Len(trades), i # j
      PROVE  trades[i] # trades[j]
  BY <1>0, <1>5 DEF TradeIndex
<1>6. ASSUME NEW i \in 1 .. Len(trades')
      PROVE  /\ trades'[i] \in DOMAIN events'
             /\ i < nextTrade' => events'[trades'[i]] = Tombstone
             /\ i >= nextTrade' => KindOf(events'[trades'[i]]) = "trade"
  <2>1. CASE i = Len(trades) + 1
    <3>1. KindOf(e) = "trade" /\ trades'[i] = Len(events) + 1 /\ nextTrade' = nextTrade
      BY <1>0, <1>1, <1>2, <1>3, <1>6, <2>1
    <3>2. events'[trades'[i]] = e /\ trades'[i] \in DOMAIN events'
      BY <1>0, <3>1, RetainStorage
    <3>3. ~(i < nextTrade')
      BY <1>0, <2>1, <3>1 DEF TradeIndex
    <3>4. QED BY <3>1, <3>2, <3>3
  <2>2. CASE i \in 1 .. Len(trades)
    <3>1. trades'[i] = trades[i] /\ trades[i] \in 1 .. Len(events)
      BY <1>0, <1>2, <2>2
    <3>2. events'[trades[i]] =
            IF Evicts /\ trades[i] = trades[nextTrade] THEN Tombstone ELSE events[trades[i]]
      BY <3>1, RetainStorage
    <3>3. Evicts => (trades[i] = trades[nextTrade] <=> i = nextTrade)
      BY <1>0, <1>5, <2>2 DEF Evicts
    <3>4. /\ i < nextTrade => events[trades[i]] = Tombstone
          /\ i >= nextTrade => KindOf(events[trades[i]]) = "trade"
      BY <2>2 DEF TradeIndex
    <3>5. CASE Evicts
      BY <1>0, <1>1, <2>2, <3>1, <3>2, <3>3, <3>4, <3>5
    <3>6. CASE ~Evicts
      BY <1>0, <1>1, <2>2, <3>1, <3>2, <3>4, <3>6
    <3>7. QED BY <3>5, <3>6
  <2>3. QED BY <1>0, <1>2, <1>6, <2>1, <2>2
<1>7. \A i, j \in 1 .. Len(trades') : i < j => trades'[i] < trades'[j]
  BY <1>0, <1>2 DEF TradeIndex
<1>8. ASSUME NEW p \in LiveTrades'
      PROVE  \E i \in nextTrade' .. Len(trades') : trades'[i] = p
  <2>0. p \in 1 .. Len(events) + 1 /\ events'[p] # Tombstone /\ KindOf(events'[p]) = "trade"
    BY <1>0, <1>8 DEF LiveTrades, Live
  <2>1. CASE p = Len(events) + 1
    <3>1. KindOf(e) = "trade"
      BY <2>0, <2>1, RetainStorage
    <3>2. Len(trades) + 1 \in nextTrade' .. Len(trades') /\ trades'[Len(trades) + 1] = p
      BY <1>0, <1>1, <1>2, <1>3, <2>1, <3>1 DEF TradeIndex
    <3>3. QED BY <3>2
  <2>2. CASE p \in 1 .. Len(events)
    <3>1. events'[p] = events[p] /\ ~(Evicts /\ p = trades[nextTrade])
      BY <2>0, <2>2, RetainStorage
    <3>2. p \in LiveTrades
      BY <1>0, <2>0, <2>2, <3>1 DEF LiveTrades, Live
    <3>3. PICK i \in nextTrade .. Len(trades) : trades[i] = p
      BY <3>2 DEF TradeIndex
    <3>4. Evicts => i # nextTrade
      BY <3>1, <3>3
    <3>5. i \in nextTrade' .. Len(trades') /\ trades'[i] = p
      BY <1>0, <1>1, <1>2, <3>3, <3>4
    <3>6. QED BY <3>5
  <2>3. QED BY <1>0, <2>0, <2>1, <2>2
<1>9. QED BY <1>4, <1>6, <1>7, <1>8 DEF TradeIndex

(* Appending an event, with or without an eviction, keeps the depth equal to
   the number of retained events. *)
LEMMA RetainDepth ==
  ASSUME TypeOK, TradeIndex, DepthCountsRetained, NEW e \in Events, Retain(e)
  PROVE  DepthCountsRetained'
<1>0. /\ Len(events) \in Nat /\ DOMAIN events = 1 .. Len(events)
      /\ DOMAIN events' = 1 .. Len(events) + 1
      /\ IsFiniteSet(Live) /\ Cardinality(Live) \in Nat
  BY RetainStorage, LiveFinite DEF TypeOK
<1>1. Len(events) + 1 \notin Live /\ e # Tombstone
  BY <1>0, EventShape DEF Live
<1>2. CASE Evicts
  <2>1. trades[nextTrade] \in Live
    BY <1>2, RetainStorage DEF LiveTrades
  <2>2. Live' = (Live \ {trades[nextTrade]}) \cup {Len(events) + 1}
    BY <1>0, <1>1, <1>2, <2>1, RetainStorage DEF Live
  <2>3. /\ IsFiniteSet(Live \ {trades[nextTrade]})
        /\ Cardinality(Live \ {trades[nextTrade]}) = Cardinality(Live) - 1
    BY <1>0, <2>1, FS_RemoveElement
  <2>4. Len(events) + 1 \notin Live \ {trades[nextTrade]}
    BY <1>1
  <2> DEFINE rest == Live \ {trades[nextTrade]}
  <2>a. Cardinality(rest \cup {Len(events) + 1}) = Cardinality(rest) + 1
    <3> HIDE DEF rest
    <3>1. IsFiniteSet(rest) /\ Len(events) + 1 \notin rest
      BY <2>3, <2>4 DEF rest
    <3>2. QED BY <3>1, FS_AddElement
  <2>5. Cardinality(Live') = Cardinality(Live)
    BY <1>0, <2>2, <2>3, <2>a
  <2>6. depth' = depth
    BY <1>2 DEF Retain, DepthAfter
  <2>7. QED BY <2>5, <2>6 DEF DepthCountsRetained
<1>3. CASE ~Evicts
  <2>1. Live' = Live \cup {Len(events) + 1}
    BY <1>0, <1>1, <1>3, RetainStorage DEF Live
  <2>2. Cardinality(Live') = Cardinality(Live) + 1
    BY <1>0, <1>1, <2>1, FS_AddElement
  <2>3. depth' = depth + 1
    BY <1>3 DEF Retain, DepthAfter
  <2>4. QED BY <2>2, <2>3 DEF DepthCountsRetained
<1>4. QED BY <1>2, <1>3

(* Appending an event outgrows the capacity only without a trade retained. *)
LEMMA RetainGrowth ==
  ASSUME TypeOK, TradeIndex, TradeIndex', GrowsOnlyWithoutTrades, NEW e \in Events, Retain(e)
  PROVE  GrowsOnlyWithoutTrades'
<1> USE QueueAssumption
<1>1. CASE Evicts
  <2>1. depth' = depth /\ LiveTrades # {}
    BY <1>1, RetainStorage DEF Retain, DepthAfter
  <2>2. QED BY <2>1 DEF GrowsOnlyWithoutTrades, TypeOK
<1>2. CASE ~Full
  BY <1>2 DEF Retain, DepthAfter, Evicts, Full, GrowsOnlyWithoutTrades, TypeOK
<1>3. CASE ~Evicts /\ Full
  <2>1. KindOf(e) # "trade" /\ nextTrade > Len(trades) /\ nextTrade' = nextTrade /\ trades' = trades
    BY <1>3 DEF Retain, Evicts, CursorAfter, TypeOK
  <2>2. LiveTrades' = {}
    BY <2>1 DEF TradeIndex, TypeOK
  <2>3. QED BY <2>2 DEF GrowsOnlyWithoutTrades
<1>4. QED BY <1>1, <1>2, <1>3

(* Appending an event stamps no entry with a generation still to come. *)
LEMMA RetainGenerations ==
  ASSUME TypeOK, NoFutureGeneration, NEW e \in Events, Retain(e), generation' = generation
  PROVE  NoFutureGeneration'
<1>1. \A id \in Ids : latest'[id].generation <= generation
  BY DEF Retain, LatestAfter, NoFutureGeneration, TypeOK
<1>2. \A s \in Symbols : spots'[s].generation <= generation
  BY DEF Retain, SpotsAfter, NoFutureGeneration, TypeOK
<1>3. QED BY <1>1, <1>2 DEF NoFutureGeneration

(* Coalescing replaces a value by one of the same key, and moves nothing. *)
LEMMA CoalesceStorage ==
  ASSUME TypeOK, SlotsPointHome, NEW e \in Events, Coalesce(e)
  PROVE  /\ events' \in Seq(Events \cup {Tombstone}) /\ Len(events') = Len(events)
         /\ Slot(e) \in 1 .. Len(events) /\ events[Slot(e)].shape = e.shape
         /\ events'[Slot(e)] = e
         /\ \A p \in 1 .. Len(events) : p # Slot(e) => events'[p] = events[p]
         /\ KindOf(e) \in Kinds \cup {"spot"}
<1>1. KindOf(e) \in Kinds \cup {"spot"}
  BY DEF Coalesce, HasSlot
<1>2. Slot(e) \in 1 .. Len(events) /\ events[Slot(e)].shape = e.shape
  <2>1. CASE KindOf(e) = "spot"
    <3>1. About(e) \in Symbols /\ e.shape = <<"spot", About(e)>>
      BY <2>1, EventShape
    <3>2. Slot(e) = SpotPosition(About(e)) /\ SpotPosition(About(e)) # NoPosition
      BY <2>1 DEF Coalesce, Slot
    <3>3. SpotPosition(About(e)) \in DOMAIN events
          /\ events[SpotPosition(About(e))].shape = <<"spot", About(e)>>
      BY <3>1, <3>2 DEF SlotsPointHome
    <3>4. QED BY <3>1, <3>2, <3>3 DEF TypeOK
  <2>2. CASE KindOf(e) \in Kinds
    <3>1. About(e) \in Ids /\ KindOf(e) # "spot"
      BY <2>2, EventShape, KindsDisjoint
    <3>2. e.shape = <<KindOf(e), About(e)>>
      BY EventShape
    <3>3. /\ Slot(e) = Positions(About(e))[KindOf(e)]
          /\ Positions(About(e))[KindOf(e)] # NoPosition
      BY <3>1 DEF Coalesce, Slot
    <3>4. /\ Positions(About(e))[KindOf(e)] \in DOMAIN events
          /\ events[Positions(About(e))[KindOf(e)]].shape = <<KindOf(e), About(e)>>
      BY <2>2, <3>1, <3>3 DEF SlotsPointHome
    <3>5. QED BY <3>2, <3>3, <3>4 DEF TypeOK
  <2>3. QED BY <1>1, <2>1, <2>2
<1>3. events' = [events EXCEPT ![Slot(e)] = e]
  BY DEF Coalesce
<1>4. QED BY <1>1, <1>2, <1>3, ExceptSeq DEF TypeOK

(* Coalescing keeps every index: the position it writes is no trade's. *)
LEMMA CoalesceIndexes ==
  ASSUME Indexes, NEW e \in Events, Coalesce(e), generation' = generation
  PROVE  /\ SlotsPointHome' /\ TradeIndex' /\ NoFutureGeneration'
         /\ DepthCountsRetained' /\ GrowsOnlyWithoutTrades'
<1> USE DEF Indexes
<1>0. UNCHANGED <<latest, spots, trades, nextTrade, depth, generation>>
  BY DEF Coalesce
<1>1. /\ DOMAIN events = 1 .. Len(events) /\ DOMAIN events' = DOMAIN events
      /\ \A p \in 1 .. Len(events) : events'[p].shape = events[p].shape
      /\ \A p \in 1 .. Len(events) : KindOf(events'[p]) = KindOf(events[p])
  <2>1. /\ DOMAIN events = 1 .. Len(events) /\ DOMAIN events' = DOMAIN events
    BY CoalesceStorage DEF TypeOK
  <2>2. \A p \in 1 .. Len(events) : events'[p].shape = events[p].shape
    BY CoalesceStorage
  <2>3. QED BY <2>1, <2>2 DEF KindOf
<1>2. \A p \in 1 .. Len(events) : events'[p] = Tombstone <=> events[p] = Tombstone
  <2>1. e # Tombstone /\ KindOf(e) # "none" /\ KindOf(Tombstone) = "none"
    BY EventShape, CoalesceStorage, KindsDisjoint DEF KindOf, Tombstone
  <2>2. events[Slot(e)] # Tombstone
    BY <2>1, CoalesceStorage DEF KindOf
  <2>3. QED BY <2>1, <2>2, CoalesceStorage
<1>3. Live' = Live /\ LiveTrades' = LiveTrades
  <2>1. Live' = Live
    BY <1>1, <1>2 DEF Live
  <2>2. QED BY <1>1, <2>1 DEF LiveTrades, Live
<1>4. SlotsPointHome'
  <2>1. \A id \in Ids : Positions(id)' = Positions(id)
    BY <1>0 DEF Positions
  <2>2. \A s \in Symbols : SpotPosition(s)' = SpotPosition(s)
    BY <1>0 DEF SpotPosition
  <2>3. QED BY <1>1, <2>1, <2>2 DEF SlotsPointHome
<1>5. TradeIndex'
  BY <1>0, <1>1, <1>2, <1>3 DEF TradeIndex
<1>6. QED BY <1>0, <1>3, <1>4, <1>5
          DEF NoFutureGeneration, DepthCountsRetained, GrowsOnlyWithoutTrades

(* After a drain no position of an earlier one is of the current generation,
   whether or not the generation wrapped around. *)
LEMMA CollectVoids ==
  ASSUME TypeOK, NoFutureGeneration, Collect
  PROVE  /\ latest' \in [Ids -> [generation : 0 .. Generations - 1,
                                 positions : [Kinds -> Nat]]]
         /\ spots' \in [Symbols -> [generation : 0 .. Generations - 1, position : Nat]]
         /\ generation' \in 1 .. Generations - 1
         /\ NoFutureGeneration'
         /\ \A id \in Ids, k \in Kinds : Positions(id)'[k] = NoPosition
         /\ \A s \in Symbols : SpotPosition(s)' = NoPosition
<1> USE QueueAssumption
<1>1. CASE generation + 1 = Generations
  <2>1. generation' = 1 /\ latest' = NoLatest /\ spots' = NoSpots
    BY <1>1 DEF Collect, NewGeneration
  <2>2. /\ \A id \in Ids : latest'[id] = [generation |-> 0, positions |-> NoPositions]
        /\ \A s \in Symbols : spots'[s] = [generation |-> 0, position |-> NoPosition]
    BY <2>1 DEF NoLatest, NoSpots
  <2>3. NoPositions \in [Kinds -> Nat] /\ NoPosition \in Nat
    BY DEF NoPositions, NoPosition
  <2>4. /\ \A id \in Ids, k \in Kinds : Positions(id)'[k] = NoPosition
        /\ \A s \in Symbols : SpotPosition(s)' = NoPosition
    BY <2>1, <2>2 DEF Positions, SpotPosition, NoPositions
  <2>5. QED BY <2>1, <2>2, <2>3, <2>4 DEF NoLatest, NoSpots, NoFutureGeneration
<1>2. CASE generation + 1 # Generations
  <2>1. generation' = generation + 1 /\ latest' = latest /\ spots' = spots
    BY <1>2 DEF Collect, NewGeneration
  <2>2. generation' \in 1 .. Generations - 1
    BY <1>2, <2>1 DEF TypeOK
  <2>3. NoFutureGeneration'
    BY <2>1 DEF NoFutureGeneration, TypeOK
  <2>4. /\ \A id \in Ids : latest[id].generation # generation'
        /\ \A s \in Symbols : spots[s].generation # generation'
    BY <2>1 DEF NoFutureGeneration, TypeOK
  <2>5. /\ \A id \in Ids, k \in Kinds : Positions(id)'[k] = NoPosition
        /\ \A s \in Symbols : SpotPosition(s)' = NoPosition
    BY <2>1, <2>4 DEF Positions, SpotPosition, NoPositions
  <2>6. QED BY <2>1, <2>2, <2>3, <2>5 DEF TypeOK
<1>3. QED BY <1>1, <1>2

(* A drain leaves an empty, consistent queue. *)
LEMMA CollectIndexes ==
  ASSUME Indexes, Collect
  PROVE  Indexes'
<1> USE QueueAssumption DEF Indexes
<1>1. events' = <<>> /\ trades' = <<>> /\ nextTrade' = 1 /\ depth' = 0 /\ sent' = <<>>
  BY DEF Collect
<1>2. Live' = {} /\ LiveTrades' = {}
  BY <1>1 DEF Live, LiveTrades
<1>3. TypeOK'
  <2>1. /\ droppedSinceDrain' = FALSE /\ wakeRequested' = FALSE /\ consumer' = "working"
        /\ handedOver' = handedOver + depth
        /\ UNCHANGED <<coalesced, dropped, notifying, published>>
    BY DEF Collect
  <2>2. /\ events' \in Seq(Events \cup {Tombstone}) /\ trades' \in Seq(Nat) /\ sent' \in Seq(Events)
        /\ nextTrade' \in Nat \ {0} /\ depth' \in Nat
    BY <1>1
  <2>3. handedOver' \in Nat
    BY <2>1 DEF TypeOK
  <2>4. /\ coalesced' \in Nat /\ dropped' \in Nat /\ notifying' \in 0 .. Producers
        /\ published' \in 0 .. MaxPublished
    BY <2>1 DEF TypeOK
  <2>5. QED BY <2>1, <2>2, <2>3, <2>4, CollectVoids DEF TypeOK
<1>4. SlotsPointHome'
  BY CollectVoids DEF SlotsPointHome
<1>5. TradeIndex'
  BY <1>1, <1>2 DEF TradeIndex
<1>6. DepthCountsRetained'
  BY <1>1, <1>2, FS_EmptySet DEF DepthCountsRetained
<1>7. GrowsOnlyWithoutTrades' /\ NoLostWakeup'
  BY <1>2 DEF GrowsOnlyWithoutTrades, NoLostWakeup, Collect
<1>8. QED BY <1>3, <1>4, <1>5, <1>6, <1>7, CollectVoids

-----------------------------------------------------------------------------
(* Publishing, seen through the history of publications *)

\* What the history adds to the inductive invariant.
Histories == SerialsConsecutive /\ SlotsUnbarred /\ OnlyTradesAreLost /\ EveryPublicationCounted

(* A later publication that is no barrier of e leaves it unbarred. *)
LEMMA UnbarredStays ==
  ASSUME NEW s \in Seq(Events), NEW d \in Events, NEW e, Unbarred(e, s), ~IsBarrier(d, e)
  PROVE  Unbarred(e, Append(s, d))
<1>1. PICK i \in 1 .. Len(s) : s[i] = e /\ \A j \in i + 1 .. Len(s) : ~IsBarrier(s[j], e)
  BY DEF Unbarred
<1>2. i \in DOMAIN Append(s, d) /\ Append(s, d)[i] = e
  BY <1>1
<1>3. \A j \in i + 1 .. Len(Append(s, d)) : ~IsBarrier(Append(s, d)[j], e)
  BY <1>1
<1>4. QED BY <1>2, <1>3 DEF Unbarred

(* What was just published is unbarred. *)
LEMMA UnbarredNow ==
  ASSUME NEW s \in Seq(Events), NEW d \in Events
  PROVE  Unbarred(d, Append(s, d))
<1>1. Len(s) + 1 \in DOMAIN Append(s, d) /\ Append(s, d)[Len(s) + 1] = d
  OBVIOUS
<1>2. \A j \in Len(s) + 2 .. Len(Append(s, d)) : FALSE
  OBVIOUS
<1>3. QED BY <1>1, <1>2 DEF Unbarred

(* Publications keep consecutive serials. *)
LEMMA SerialsStep ==
  ASSUME TypeOK, SerialsConsecutive, NEW e \in Events, e.serial = published + 1,
         sent' = Append(sent, e), published' = published + 1
  PROVE  SerialsConsecutive'
<1>1. Len(sent') = Len(sent) + 1 /\ DOMAIN sent' = 1 .. Len(sent) + 1 /\ DOMAIN sent = 1 .. Len(sent)
  BY DEF TypeOK
<1>2. \A i \in 1 .. Len(sent) : sent'[i] = sent[i]
  BY DEF TypeOK
<1>3. sent'[Len(sent) + 1] = e
  BY DEF TypeOK
<1>4. QED BY <1>1, <1>2, <1>3 DEF SerialsConsecutive, TypeOK

(* What was superseded stays superseded. *)
LEMMA SupersededStays ==
  ASSUME TypeOK, NEW e \in Events, sent' = Append(sent, e),
         NEW i \in 1 .. Len(sent), Superseded(i)
  PROVE  Superseded(i)'
<1>0. Len(sent') = Len(sent) + 1 /\ \A j \in 1 .. Len(sent) : sent'[j] = sent[j]
  BY DEF TypeOK
<1>1. PICK j \in i + 1 .. Len(sent) :
        SameKey(sent[i], sent[j]) /\ ~ \E k \in i + 1 .. j - 1 : IsBarrier(sent[k], sent[i])
  BY DEF Superseded
<1>2. HasSlot(sent'[i]) /\ j \in i + 1 .. Len(sent') /\ SameKey(sent'[i], sent'[j])
  BY <1>0, <1>1 DEF Superseded, TypeOK
<1>3. ~ \E k \in i + 1 .. j - 1 : IsBarrier(sent'[k], sent'[i])
  BY <1>0, <1>1 DEF TypeOK
<1>4. QED BY <1>2, <1>3 DEF Superseded

(* Slots lead to values no barrier has been sent after, whichever way an event
   is published. *)
LEMMA UnbarredStep ==
  ASSUME Indexes, SlotsUnbarred, NEW e \in Events, sent' = Append(sent, e),
         generation' = generation, Coalesce(e) \/ DropTrade(e) \/ Retain(e)
  PROVE  SlotsUnbarred'
<1> USE DEF Indexes
<1>0. sent \in Seq(Events) /\ DOMAIN events = 1 .. Len(events) /\ Len(events) \in Nat
  BY DEF TypeOK
<1>1. ASSUME NEW p, Unbarred(events[p], sent), ~IsBarrier(e, events[p])
      PROVE  Unbarred(events[p], sent')
  BY <1>0, <1>1, UnbarredStays
<1>2. Unbarred(e, sent')
  BY <1>0, UnbarredNow
<1>3. CASE Coalesce(e)
  <2>1. UNCHANGED <<latest, spots>> /\ KindOf(e) # "definition"
    BY <1>3, CoalesceStorage, KindsDisjoint DEF Coalesce
  <2>2. /\ \A id \in Ids : Positions(id)' = Positions(id)
        /\ \A s \in Symbols : SpotPosition(s)' = SpotPosition(s)
    BY <2>1 DEF Positions, SpotPosition
  <2>3. ASSUME NEW p \in 1 .. Len(events), Unbarred(events[p], sent)
        PROVE  Unbarred(events'[p], sent')
    <3>1. CASE p = Slot(e)
      BY <1>2, <1>3, <3>1, CoalesceStorage
    <3>2. CASE p # Slot(e)
      <4>1. events'[p] = events[p]
        BY <1>3, <3>2, CoalesceStorage
      <4>2. ~IsBarrier(e, events[p])
        BY <2>1 DEF IsBarrier
      <4>3. QED BY <1>1, <2>3, <4>1, <4>2
    <3>3. QED BY <3>1, <3>2
  <2>4. QED BY <1>0, <2>2, <2>3 DEF SlotsUnbarred, SlotsPointHome
<1>4. CASE DropTrade(e)
  <2>1. UNCHANGED <<events, latest, spots>> /\ KindOf(e) = "trade"
    BY <1>4 DEF DropTrade, storage
  <2>2. \A p : ~IsBarrier(e, events[p])
    BY <2>1 DEF IsBarrier
  <2>3. /\ \A id \in Ids : Positions(id)' = Positions(id)
        /\ \A s \in Symbols : SpotPosition(s)' = SpotPosition(s)
    BY <2>1 DEF Positions, SpotPosition
  <2>4. QED BY <1>1, <2>1, <2>2, <2>3 DEF SlotsUnbarred
<1>5. CASE Retain(e)
  <2>0. events'[Len(events) + 1] = e
    BY <1>5, RetainStorage
  <2>1. ASSUME NEW id \in Ids, NEW k \in Kinds, Positions(id)'[k] # NoPosition
        PROVE  Unbarred(events'[Positions(id)'[k]], sent')
    <3>1. CASE Positions(id)'[k] = Len(events) + 1
      BY <1>2, <2>0, <3>1
    <3>2. CASE /\ Positions(id)'[k] = Positions(id)[k]
               /\ ~(KindOf(e) = "definition" /\ About(e) = id)
      <4>1. Positions(id)[k] \in 1 .. Len(events) /\ events[Positions(id)[k]].shape = <<k, id>>
        BY <1>0, <2>1, <3>2 DEF SlotsPointHome
      <4>2. KindOf(events[Positions(id)[k]]) # "trade" /\ About(events[Positions(id)[k]]) = id
        BY <4>1, KindsDisjoint DEF KindOf, About
      <4>3. events'[Positions(id)[k]] = events[Positions(id)[k]]
        BY <1>5, <4>1, <4>2, RetainKeepsValues
      <4>4. ~IsBarrier(e, events[Positions(id)[k]])
        BY <3>2, <4>2 DEF IsBarrier
      <4>5. Unbarred(events[Positions(id)[k]], sent)
        BY <2>1, <3>2 DEF SlotsUnbarred
      <4>6. QED BY <1>1, <3>2, <4>3, <4>4, <4>5
    <3>3. QED BY <1>5, <2>1, <3>1, <3>2, RetainPositions
  <2>2. ASSUME NEW s \in Symbols, SpotPosition(s)' # NoPosition
        PROVE  Unbarred(events'[SpotPosition(s)'], sent')
    <3>1. CASE SpotPosition(s)' = Len(events) + 1
      BY <1>2, <2>0, <3>1
    <3>2. CASE SpotPosition(s)' = SpotPosition(s)
      <4>1. SpotPosition(s) \in 1 .. Len(events) /\ events[SpotPosition(s)].shape = <<"spot", s>>
        BY <1>0, <2>2, <3>2 DEF SlotsPointHome
      <4>2. KindOf(events[SpotPosition(s)]) = "spot"
        BY <4>1 DEF KindOf
      <4>3. events'[SpotPosition(s)] = events[SpotPosition(s)]
        BY <1>5, <4>1, <4>2, RetainKeepsValues
      <4>4. ~IsBarrier(e, events[SpotPosition(s)])
        BY <4>2 DEF IsBarrier
      <4>5. Unbarred(events[SpotPosition(s)], sent)
        BY <2>2, <3>2 DEF SlotsUnbarred
      <4>6. QED BY <1>1, <3>2, <4>3, <4>4, <4>5
    <3>3. QED BY <1>5, <2>2, <3>1, <3>2, RetainPositions
  <2>3. QED BY <2>1, <2>2 DEF SlotsUnbarred
<1>6. QED BY <1>3, <1>4, <1>5

(* The value a coalesced event replaces is superseded from then on. *)
LEMMA CoalesceSupersedes ==
  ASSUME Indexes, SerialsConsecutive, SlotsUnbarred, NEW e \in Events, Coalesce(e),
         sent' = Append(sent, e), NEW i \in 1 .. Len(sent), sent[i] = events[Slot(e)]
  PROVE  Superseded(i)'
<1> USE DEF Indexes
<1>0. /\ Len(sent) \in Nat /\ DOMAIN sent = 1 .. Len(sent) /\ Len(sent') = Len(sent) + 1
      /\ sent'[Len(sent) + 1] = e /\ \A j \in 1 .. Len(sent) : sent'[j] = sent[j]
  BY DEF TypeOK
<1>1. Unbarred(events[Slot(e)], sent)
  <2>1. CASE KindOf(e) = "spot"
    BY <2>1, EventShape DEF Coalesce, Slot, SlotsUnbarred
  <2>2. CASE KindOf(e) \in Kinds
    <3>1. About(e) \in Ids /\ KindOf(e) # "spot"
      BY <2>2, EventShape, KindsDisjoint
    <3>2. QED BY <2>2, <3>1 DEF Coalesce, Slot, SlotsUnbarred
  <2>3. QED BY <2>1, <2>2, CoalesceStorage
<1>2. PICK j \in 1 .. Len(sent) : /\ sent[j] = events[Slot(e)]
                                  /\ \A k \in j + 1 .. Len(sent) : ~IsBarrier(sent[k], events[Slot(e)])
  BY <1>0, <1>1 DEF Unbarred
<1>3. j = i
  <2>1. /\ sent[i].serial = published - Len(sent) + i
        /\ sent[j].serial = published - Len(sent) + j
    BY <1>0 DEF SerialsConsecutive
  <2>2. sent[i] = sent[j] /\ published \in Int
    BY <1>2 DEF TypeOK
  <2>3. QED BY <1>0, <2>1, <2>2
<1>4. sent[i].shape = e.shape
  BY CoalesceStorage
<1>5. HasSlot(sent'[i]) /\ SameKey(sent'[i], sent'[Len(sent) + 1])
  BY <1>0, <1>4 DEF SameKey, HasSlot, Coalesce, KindOf
<1>6. ~ \E k \in i + 1 .. Len(sent) : IsBarrier(sent'[k], sent'[i])
  BY <1>0, <1>2, <1>3
<1>7. Len(sent) + 1 \in i + 1 .. Len(sent') /\ (Len(sent) + 1) - 1 = Len(sent)
  BY <1>0
<1>8. QED BY <1>5, <1>6, <1>7 DEF Superseded

(* However an event is published, nothing but a trade is lost. *)
LEMMA LossStep ==
  ASSUME Indexes, SerialsConsecutive, SlotsUnbarred, OnlyTradesAreLost,
         NEW e \in Events, sent' = Append(sent, e),
         Coalesce(e) \/ DropTrade(e) \/ Retain(e)
  PROVE  OnlyTradesAreLost'
<1> USE DEF Indexes
<1>0. /\ Len(sent) \in Nat /\ DOMAIN sent = 1 .. Len(sent) /\ DOMAIN sent' = 1 .. Len(sent) + 1
      /\ sent'[Len(sent) + 1] = e /\ \A j \in 1 .. Len(sent) : sent'[j] = sent[j]
      /\ DOMAIN events = 1 .. Len(events) /\ Len(events) \in Nat
  BY DEF TypeOK
<1>1. SUFFICES ASSUME NEW i \in 1 .. Len(sent) + 1, KindOf(sent'[i]) # "trade", ~Superseded(i)'
               PROVE  \E p \in DOMAIN events' : events'[p] = sent'[i]
  BY <1>0 DEF OnlyTradesAreLost
<1>2. CASE i = Len(sent) + 1
  <2>1. CASE Coalesce(e)
    BY <1>0, <1>2, <2>1, CoalesceStorage
  <2>2. CASE DropTrade(e)
    BY <1>0, <1>1, <1>2, <2>2 DEF DropTrade
  <2>3. CASE Retain(e)
    BY <1>0, <1>2, <2>3, RetainStorage
  <2>4. QED BY <2>1, <2>2, <2>3
<1>3. CASE i \in 1 .. Len(sent)
  <2>1. ~Superseded(i) /\ KindOf(sent[i]) # "trade" /\ sent'[i] = sent[i]
    BY <1>0, <1>1, <1>3, SupersededStays
  <2>2. PICK p \in 1 .. Len(events) : events[p] = sent[i]
    BY <1>0, <1>3, <2>1 DEF OnlyTradesAreLost
  <2>3. CASE Coalesce(e)
    <3>1. p # Slot(e)
      BY <1>1, <1>3, <2>2, <2>3, CoalesceSupersedes
    <3>2. events'[p] = events[p] /\ p \in DOMAIN events'
      BY <2>3, <3>1, CoalesceStorage
    <3>3. QED BY <2>1, <2>2, <3>2
  <2>4. CASE DropTrade(e)
    BY <1>0, <2>1, <2>2, <2>4 DEF DropTrade, storage
  <2>5. CASE Retain(e)
    <3>1. events'[p] = events[p] /\ p \in DOMAIN events'
      BY <2>1, <2>2, <2>5, RetainKeepsValues, RetainStorage
    <3>2. QED BY <2>1, <2>2, <3>1
  <2>6. QED BY <2>3, <2>4, <2>5
<1>4. QED BY <1>0, <1>2, <1>3

-----------------------------------------------------------------------------
(* The inductive invariant *)

IInv == Indexes /\ Histories

(* Initially nothing is retained and nothing was sent. *)
LEMMA InitIInv == Init => IInv
<1> SUFFICES ASSUME Init PROVE IInv
  OBVIOUS
<1> USE QueueAssumption DEF Init
<1>1. Live = {} /\ LiveTrades = {}
  BY DEF Live, LiveTrades
<1>2. NoPositions \in [Kinds -> Nat] /\ NoPosition \in Nat
  BY DEF NoPositions, NoPosition
<1>3. TypeOK
  <2>1. /\ NoLatest \in [Ids -> [generation : 0 .. Generations - 1, positions : [Kinds -> Nat]]]
        /\ NoSpots \in [Symbols -> [generation : 0 .. Generations - 1, position : Nat]]
    BY <1>2 DEF NoLatest, NoSpots
  <2>2. events \in Seq(Events \cup {Tombstone}) /\ trades \in Seq(Nat) /\ sent \in Seq(Events)
    OBVIOUS
  <2>3. /\ generation \in 1 .. Generations - 1 /\ nextTrade \in Nat \ {0} /\ depth \in Nat
        /\ coalesced \in Nat /\ dropped \in Nat /\ notifying \in 0 .. Producers
        /\ published \in 0 .. MaxPublished /\ handedOver \in Nat
    OBVIOUS
  <2>4. QED BY <2>1, <2>2, <2>3 DEF TypeOK
<1>4. SlotsPointHome /\ SlotsUnbarred
  BY DEF SlotsPointHome, SlotsUnbarred, Positions, SpotPosition, NoLatest, NoSpots,
         NoPositions
<1>5. TradeIndex
  BY <1>1 DEF TradeIndex
<1>6. NoFutureGeneration
  BY DEF NoFutureGeneration, NoLatest, NoSpots
<1>7. DepthCountsRetained
  BY <1>1, FS_EmptySet DEF DepthCountsRetained
<1>8. GrowsOnlyWithoutTrades /\ NoLostWakeup
  BY <1>1 DEF GrowsOnlyWithoutTrades, NoLostWakeup
<1>9. SerialsConsecutive /\ OnlyTradesAreLost /\ EveryPublicationCounted
  BY DEF SerialsConsecutive, OnlyTradesAreLost, EveryPublicationCounted
<1>10. QED BY <1>3, <1>4, <1>5, <1>6, <1>7, <1>8, <1>9 DEF IInv, Indexes, Histories

(* A publication, whichever way it goes, keeps the invariant. *)
LEMMA PublishIInv ==
  ASSUME IInv, NEW shape \in Shapes, Publish(shape)
  PROVE  IInv'
<1> USE QueueAssumption DEF IInv, Indexes, Histories
<1> DEFINE e == [shape |-> shape, serial |-> published + 1]
<1>1. /\ e \in Events /\ e.serial = published + 1
      /\ Coalesce(e) \/ DropTrade(e) \/ Retain(e)
      /\ sent' = Append(sent, e) /\ published' = published + 1
      /\ notifying < Producers
      /\ published' \in 0 .. MaxPublished
      /\ UNCHANGED <<generation, wakeRequested, consumer, batch, handedOver>>
  BY DEF Publish, Events, TypeOK
<1> HIDE DEF e
<1>2. sent' \in Seq(Events)
  BY <1>1 DEF TypeOK
<1>3. /\ TypeOK' /\ SlotsPointHome' /\ TradeIndex' /\ NoFutureGeneration'
      /\ DepthCountsRetained' /\ GrowsOnlyWithoutTrades'
  <2>1. CASE Coalesce(e)
    <3>1. TypeOK'
      <4>1. /\ UNCHANGED <<latest, spots, trades, nextTrade, depth, dropped, droppedSinceDrain, notifying>>
            /\ coalesced' = coalesced + 1
        BY <2>1 DEF Coalesce
      <4>a. coalesced \in Nat
        BY DEF TypeOK
      <4>2. coalesced' \in Nat /\ events' \in Seq(Events \cup {Tombstone})
        BY <1>1, <2>1, <4>1, <4>a, CoalesceStorage
      <4>3. QED BY <1>1, <1>2, <4>1, <4>2 DEF TypeOK
    <3>2. QED BY <1>1, <2>1, <3>1, CoalesceIndexes
  <2>2. CASE DropTrade(e)
    <3>1. /\ UNCHANGED <<events, latest, spots, trades, nextTrade, depth, coalesced, notifying, generation>>
          /\ dropped' = dropped + 1 /\ droppedSinceDrain' = TRUE
      BY <1>1, <2>2 DEF DropTrade, storage
    <3>2. TypeOK'
      BY <1>1, <1>2, <3>1 DEF TypeOK
    <3>3. /\ Live' = Live /\ LiveTrades' = LiveTrades
          /\ \A id \in Ids : Positions(id)' = Positions(id)
          /\ \A s \in Symbols : SpotPosition(s)' = SpotPosition(s)
      BY <3>1 DEF Live, LiveTrades, Positions, SpotPosition
    <3>4. SlotsPointHome' /\ TradeIndex' /\ NoFutureGeneration'
      BY <3>1, <3>3 DEF SlotsPointHome, TradeIndex, NoFutureGeneration
    <3>5. DepthCountsRetained' /\ GrowsOnlyWithoutTrades'
      BY <3>1, <3>3 DEF DepthCountsRetained, GrowsOnlyWithoutTrades
    <3>6. QED BY <3>2, <3>4, <3>5
  <2>3. CASE Retain(e)
    <3>1. TypeOK'
      <4>1. /\ events' \in Seq(Events \cup {Tombstone})
            /\ latest' \in [Ids -> [generation : 0 .. Generations - 1,
                                    positions : [Kinds -> Nat]]]
            /\ spots' \in [Symbols -> [generation : 0 .. Generations - 1, position : Nat]]
            /\ trades' \in Seq(Nat) /\ nextTrade' \in Nat \ {0} /\ depth' \in Nat
            /\ coalesced' \in Nat /\ dropped' \in Nat /\ droppedSinceDrain' \in BOOLEAN
            /\ notifying' \in 0 .. Producers
        BY <1>1, <2>3, RetainType
      <4>2. /\ generation' \in 1 .. Generations - 1 /\ wakeRequested' \in BOOLEAN
            /\ consumer' \in {"working", "waiting", "notified"} /\ handedOver' \in Nat
        BY <1>1 DEF TypeOK
      <4>3. QED BY <1>1, <1>2, <4>1, <4>2 DEF TypeOK
    <3>2. SlotsPointHome' /\ TradeIndex' /\ NoFutureGeneration' /\ DepthCountsRetained'
      BY <1>1, <2>3, RetainSlots, RetainTrades, RetainGenerations, RetainDepth
    <3>3. GrowsOnlyWithoutTrades'
      BY <1>1, <2>3, <3>2, RetainGrowth
    <3>4. QED BY <3>1, <3>2, <3>3
  <2>4. QED BY <1>1, <2>1, <2>2, <2>3
<1>4. NoLostWakeup'
  <2>1. CASE Coalesce(e) \/ DropTrade(e)
    BY <1>1, <2>1 DEF NoLostWakeup, Ready, Coalesce, DropTrade, storage
  <2>2. CASE Retain(e)
    BY <1>1, <2>2 DEF NoLostWakeup, Retain, NotifyAfter, TypeOK
  <2>3. QED BY <1>1, <2>1, <2>2
<1>5. EveryPublicationCounted'
  <2>1. CASE Coalesce(e)
    BY <1>1, <2>1 DEF EveryPublicationCounted, Coalesce, TypeOK
  <2>2. CASE DropTrade(e)
    BY <1>1, <2>2 DEF EveryPublicationCounted, DropTrade, storage, TypeOK
  <2>3. CASE Retain(e)
    <3>1. /\ published' = published + 1 /\ handedOver' = handedOver
          /\ handedOver \in Nat /\ published \in Nat
          /\ depth \in Nat /\ dropped \in Nat /\ coalesced \in Nat
      BY <1>1 DEF TypeOK
    <3>2. CASE Evicts
      BY <2>3, <3>1, <3>2 DEF Retain, DepthAfter, EveryPublicationCounted
    <3>3. CASE ~Evicts
      BY <2>3, <3>1, <3>3 DEF Retain, DepthAfter, EveryPublicationCounted
    <3>4. QED BY <3>2, <3>3
  <2>4. QED BY <1>1, <2>1, <2>2, <2>3
<1>6. SerialsConsecutive' /\ SlotsUnbarred' /\ OnlyTradesAreLost'
  BY <1>1, SerialsStep, UnbarredStep, LossStep
<1>7. QED BY <1>3, <1>4, <1>5, <1>6

(* A drain keeps the invariant: it starts a new, empty history. *)
LEMMA CollectIInv ==
  ASSUME IInv, Collect
  PROVE  IInv'
<1> USE DEF IInv, Histories
<1>1. Indexes'
  BY CollectIndexes
<1>2. /\ sent' = <<>> /\ depth' = 0 /\ handedOver' = handedOver + depth
      /\ coalesced' = coalesced /\ dropped' = dropped /\ published' = published
  BY DEF Collect
<1>3. SlotsUnbarred'
  BY CollectVoids DEF SlotsUnbarred, Indexes
<1>4. SerialsConsecutive' /\ OnlyTradesAreLost'
  BY <1>2 DEF SerialsConsecutive, OnlyTradesAreLost, Indexes, TypeOK
<1>5. EveryPublicationCounted'
  BY <1>2 DEF EveryPublicationCounted, Indexes, TypeOK
<1>6. QED BY <1>1, <1>3, <1>4, <1>5

(* A step that leaves the storage and the history alone keeps what is said of them. *)
LEMMA QuietIInv ==
  ASSUME IInv, UNCHANGED <<storage, generation, counters, batch, sent, published, handedOver>>,
         wakeRequested' \in BOOLEAN, notifying' \in 0 .. Producers,
         consumer' \in {"working", "waiting", "notified"}, NoLostWakeup'
  PROVE  IInv'
<1> USE DEF IInv, Indexes, Histories, storage, counters
<1>1. TypeOK'
  BY DEF TypeOK
<1>2. /\ Live' = Live /\ LiveTrades' = LiveTrades
      /\ \A id \in Ids : Positions(id)' = Positions(id)
      /\ \A s \in Symbols : SpotPosition(s)' = SpotPosition(s)
  BY DEF Live, LiveTrades, Positions, SpotPosition
<1>3. SlotsPointHome' /\ TradeIndex' /\ NoFutureGeneration' /\ SlotsUnbarred'
  BY <1>2 DEF SlotsPointHome, TradeIndex, NoFutureGeneration, SlotsUnbarred
<1>4. DepthCountsRetained' /\ GrowsOnlyWithoutTrades'
  BY <1>2 DEF DepthCountsRetained, GrowsOnlyWithoutTrades
<1>5. SerialsConsecutive' /\ EveryPublicationCounted'
  BY DEF SerialsConsecutive, EveryPublicationCounted
<1>6. OnlyTradesAreLost'
  <2>1. \A i \in DOMAIN sent : Superseded(i)' <=> Superseded(i)
    BY DEF Superseded
  <2>2. QED BY <2>1 DEF OnlyTradesAreLost
<1>7. QED BY <1>1, <1>3, <1>4, <1>5, <1>6

(* Every step keeps the invariant. *)
LEMMA NextIInv == IInv /\ [Next]_vars => IInv'
<1> SUFFICES ASSUME IInv, [Next]_vars PROVE IInv'
  OBVIOUS
<1> USE QueueAssumption
<1>0. TypeOK /\ NoLostWakeup
  BY DEF IInv, Indexes
<1>1. ASSUME NEW shape \in Shapes, Publish(shape) PROVE IInv'
  BY <1>1, PublishIInv
<1>2. CASE Wake
  <2>1. notifying' \in 0 .. Producers /\ NoLostWakeup'
    BY <1>0, <1>2 DEF Wake, NoLostWakeup, TypeOK
  <2>2. QED BY <1>0, <1>2, <2>1, QuietIInv DEF Wake, TypeOK
<1>3. CASE Notify
  <2>1. /\ notifying' \in 0 .. Producers /\ NoLostWakeup'
        /\ consumer' \in {"working", "waiting", "notified"}
    BY <1>0, <1>3 DEF Notify, NoLostWakeup, TypeOK
  <2>2. QED BY <1>0, <1>3, <2>1, QuietIInv DEF Notify, TypeOK
<1>4. CASE DrainNow \/ WakeUp \/ Timeout
  BY <1>4, CollectIInv DEF DrainNow, WakeUp, Timeout
<1>5. CASE BeginWait \/ KeepWaiting
  <2>1. NoLostWakeup'
    BY <1>0, <1>5 DEF BeginWait, KeepWaiting, NoLostWakeup, Ready, storage
  <2>2. QED BY <1>0, <1>5, <2>1, QuietIInv DEF BeginWait, KeepWaiting, TypeOK
<1>6. CASE UNCHANGED vars
  <2>1. NoLostWakeup'
    BY <1>0, <1>6 DEF vars, storage, NoLostWakeup, Ready
  <2>2. QED BY <1>0, <1>6, <2>1, QuietIInv DEF vars, TypeOK
<1>7. QED BY <1>1, <1>2, <1>3, <1>4, <1>5, <1>6 DEF Next

(* The invariant holds throughout. *)
THEOREM QueueInvariant == Spec => []IInv
BY InitIInv, NextIInv, PTL DEF Spec

(* Every variable keeps its type, for all constants. *)
THEOREM TypeCorrect == Spec => []TypeOK
BY QueueInvariant, PTL DEF IInv, Indexes

(* Coalescing positions always lead to a value of their own key, through any
   number of drains and generation wrap-arounds (coalescing_slot). *)
THEOREM SlotsNeverStale == Spec => []SlotsPointHome
BY QueueInvariant, PTL DEF IInv, Indexes

(* depth_ is the number of retained events (publish, drain). *)
THEOREM DepthExact == Spec => []DepthCountsRetained
BY QueueInvariant, PTL DEF IInv, Indexes

(* The storage outgrows any capacity only when no trade is retained (publish). *)
THEOREM GrowthJustified == Spec => []GrowsOnlyWithoutTrades
BY QueueInvariant, PTL DEF IInv, Indexes

(* Only trades may be discarded: definitions, status and unsuperseded values
   survive overload, for every capacity (publish). *)
THEOREM OverloadLosesOnlyTrades == Spec => []OnlyTradesAreLost
BY QueueInvariant, PTL DEF IInv, Histories

(* Each publication is pending, drained, coalesced or a dropped trade. *)
THEOREM AccountingExact == Spec => []EveryPublicationCounted
BY QueueInvariant, PTL DEF IInv, Histories

(* The consumer never sleeps on work without a notification on its way, for any
   number of producers. *)
THEOREM WakeupsNotLost == Spec => []NoLostWakeup
BY QueueInvariant, PTL DEF IInv, Indexes

-----------------------------------------------------------------------------
(* The retained events, as a sequence *)

Storages == Seq(Events \cup {Tombstone})

(* Ranks number the places of the retained events, in order and without gaps. *)
LEMMA Ranks ==
  ASSUME NEW s \in Storages
  PROVE  /\ Places(s) \subseteq 1 .. Len(s) /\ Len(s) \in Nat /\ IsFiniteSet(Places(s))
         /\ Cardinality(Places(s)) \in Nat
         /\ \A i \in Places(s) : Rank(s, i) \in 1 .. Cardinality(Places(s))
         /\ \A i, j \in Places(s) : i < j => Rank(s, i) < Rank(s, j)
         /\ \A n \in 1 .. Cardinality(Places(s)) : \E i \in Places(s) : Rank(s, i) = n
<1> DEFINE P == Places(s)
           upto(i) == {j \in P : j <= i}
<1>1. P \subseteq 1 .. Len(s) /\ Len(s) \in Nat
  BY DEF Places, Storages
<1>2. IsFiniteSet(P) /\ Cardinality(P) \in Nat
  <2>1. IsFiniteSet(1 .. Len(s))
    BY <1>1, FS_Interval
  <2>2. QED BY <1>1, <2>1, FS_Subset, FS_CardinalityType
<1>3. \A i : Rank(s, i) = Cardinality(upto(i))
  BY DEF Rank
<1> HIDE DEF P
<1>4. \A i \in P : IsFiniteSet(upto(i)) /\ Cardinality(upto(i)) \in 1 .. Cardinality(P)
  <2>1. TAKE i \in P
  <2>2. upto(i) \in SUBSET P /\ i \in upto(i)
    BY <1>1
  <2> HIDE DEF upto
  <2>3. IsFiniteSet(upto(i)) /\ Cardinality(upto(i)) <= Cardinality(P)
    BY <1>2, <2>2, FS_Subset
  <2>4. Cardinality(upto(i)) \in Nat /\ Cardinality(upto(i)) # 0
    BY <2>2, <2>3, FS_CardinalityType, FS_EmptySet
  <2>5. QED BY <1>2, <2>3, <2>4
<1>5. ASSUME NEW i \in P, NEW j \in P, i < j
      PROVE  Cardinality(upto(i)) < Cardinality(upto(j))
  <2>0. \A k \in P : k \in Int
    BY <1>1
  <2>1. upto(i) \in SUBSET upto(j) /\ j \in upto(j) /\ j \notin upto(i)
    <3>1. \A k \in upto(i) : k \in upto(j)
      BY <1>5, <2>0
    <3>2. QED BY <1>5, <2>0, <3>1
  <2>2. IsFiniteSet(upto(j)) /\ Cardinality(upto(i)) \in Nat /\ Cardinality(upto(j)) \in Nat
    BY <1>4
  <2> HIDE DEF upto
  <2>3. /\ Cardinality(upto(i)) <= Cardinality(upto(j))
        /\ Cardinality(upto(j)) = Cardinality(upto(i)) => upto(j) = upto(i)
    BY <2>1, <2>2, FS_Subset
  <2>4. QED BY <2>1, <2>2, <2>3
<1>6. ASSUME NEW n \in 1 .. Cardinality(P) PROVE \E i \in P : Cardinality(upto(i)) = n
  <2> DEFINE f == [i \in P |-> Cardinality(upto(i))]
             T == 1 .. Cardinality(P)
  <2>1. f \in Injection(P, T)
    <3>1. \A i, j \in P : i = j \/ i < j \/ j < i
      BY <1>1
    <3>2. \A i, j \in P : f[i] = f[j] => i = j
      BY <1>4, <1>5, <3>1
    <3>3. f \in [P -> T]
      BY <1>4
    <3>4. QED BY <3>2, <3>3 DEF Injection, IsInjective
  <2>2. IsFiniteSet(T) /\ Cardinality(T) = Cardinality(P)
    BY <1>2, FS_Interval
  <2> HIDE DEF f, T
  <2>3. f \in Surjection(P, T)
    BY <2>1, <2>2, FS_Injection
  <2>4. n \in T
    BY DEF T
  <2>5. PICK i \in P : f[i] = n
    BY <2>3, <2>4 DEF Surjection
  <2>6. QED BY <2>5 DEF f
<1> HIDE DEF upto
<1>7. /\ \A i \in P : Rank(s, i) \in 1 .. Cardinality(P)
      /\ \A i, j \in P : i < j => Rank(s, i) < Rank(s, j)
      /\ \A n \in 1 .. Cardinality(P) : \E i \in P : Rank(s, i) = n
  BY <1>3, <1>4, <1>5, <1>6
<1>8. QED BY <1>1, <1>2, <1>7 DEF P

(* Each retained event stands in the sequence at the rank of its place. *)
LEMMA RetainedAt ==
  ASSUME NEW s \in Storages
  PROVE  /\ Retained(s) \in Seq(Events) /\ Len(Retained(s)) = Cardinality(Places(s))
         /\ \A i \in Places(s) : Retained(s)[Rank(s, i)] = s[i]
<1> DEFINE P == Places(s)
           at(n) == CHOOSE i \in P : Rank(s, i) = n
<1>1. /\ P \subseteq 1 .. Len(s) /\ Len(s) \in Nat /\ Cardinality(P) \in Nat
      /\ \A i \in P : Rank(s, i) \in 1 .. Cardinality(P)
      /\ \A i, j \in P : i < j => Rank(s, i) < Rank(s, j)
      /\ \A n \in 1 .. Cardinality(P) : \E i \in P : Rank(s, i) = n
  BY Ranks
<1>2. Retained(s) = [n \in 1 .. Cardinality(P) |-> s[at(n)]]
  BY DEF Retained
<1>3. \A i \in P : s[i] \in Events
  BY DEF Places, Storages, IsRetained
<1> HIDE DEF P
<1>4. \A n \in 1 .. Cardinality(P) : at(n) \in P /\ Rank(s, at(n)) = n
  BY <1>1
<1>5. \A i \in P : at(Rank(s, i)) = i
  <2>1. \A i, j \in P : i = j \/ i < j \/ j < i
    BY <1>1
  <2>2. TAKE i \in P
  <2>3. at(Rank(s, i)) \in P /\ Rank(s, at(Rank(s, i))) = Rank(s, i)
    BY <1>1, <1>4
  <2> DEFINE x == at(Rank(s, i))
  <2>4. x \in P /\ Rank(s, x) = Rank(s, i)
    BY <2>3
  <2> HIDE DEF x
  <2>5. x = i
    <3>1. Rank(s, x) \in Int /\ Rank(s, i) \in Int
      BY <1>1, <2>4
    <3>2. QED BY <1>1, <2>1, <2>4, <3>1
  <2>6. QED BY <2>5 DEF x
<1> HIDE DEF at
<1>6. Retained(s) \in Seq(Events) /\ Len(Retained(s)) = Cardinality(P)
  <2>1. \A n \in 1 .. Cardinality(P) : s[at(n)] \in Events
    BY <1>3, <1>4
  <2>2. QED BY <1>1, <1>2, <2>1
<1>7. \A i \in P : Retained(s)[Rank(s, i)] = s[i]
  BY <1>1, <1>2, <1>5
<1>8. QED BY <1>6, <1>7 DEF P

(* A value replaced in the storage is replaced where it stands. *)
LEMMA RetainedReplaces ==
  ASSUME NEW s \in Storages, NEW p \in Places(s), NEW e \in Events
  PROVE  /\ [s EXCEPT ![p] = e] \in Storages
         /\ Places([s EXCEPT ![p] = e]) = Places(s)
         /\ Retained([s EXCEPT ![p] = e]) = [Retained(s) EXCEPT ![Rank(s, p)] = e]
<1> DEFINE t == [s EXCEPT ![p] = e]
<1>1. t \in Storages /\ Len(t) = Len(s) /\ p \in 1 .. Len(s)
      /\ \A i \in 1 .. Len(s) : t[i] = IF i = p THEN e ELSE s[i]
  BY Ranks DEF Storages
<1>2. e # Tombstone
  BY EventShape
<1>3. Places(t) = Places(s)
  BY <1>1, <1>2 DEF Places, Storages, IsRetained
<1>4. \A i : Rank(t, i) = Rank(s, i)
  BY <1>3 DEF Rank
<1> HIDE DEF t
<1> DEFINE N == Cardinality(Places(s))
           u == [Retained(s) EXCEPT ![Rank(s, p)] = e]
<1>5. /\ Retained(s) \in Seq(Events) /\ Len(Retained(s)) = N /\ N \in Nat
      /\ Retained(t) \in Seq(Events) /\ Len(Retained(t)) = N
      /\ Rank(s, p) \in 1 .. N
  BY <1>1, <1>3, RetainedAt, Ranks
<1>6. \A n \in 1 .. N : Retained(t)[n] = IF n = Rank(s, p) THEN e ELSE Retained(s)[n]
  <2>1. TAKE n \in 1 .. N
  <2>2. PICK i \in Places(s) : Rank(s, i) = n
    BY Ranks
  <2>3. Retained(t)[Rank(t, i)] = t[i] /\ Retained(s)[Rank(s, i)] = s[i]
    BY <1>1, <1>3, RetainedAt
  <2>4. i = p <=> n = Rank(s, p)
    <3>1. i \in 1 .. Len(s) /\ Rank(s, i) \in Int /\ Rank(s, p) \in Int
      BY Ranks
    <3>2. i = p \/ i < p \/ p < i
      BY <1>1, <3>1
    <3>3. QED BY <2>2, <3>1, <3>2, Ranks
  <2>5. i \in 1 .. Len(s)
    BY Ranks
  <2>6. QED BY <1>1, <1>4, <2>2, <2>3, <2>4, <2>5
<1>7. Retained(t) = u
  <2>1. u \in Seq(Events) /\ Len(u) = N
    BY <1>5
  <2>2. \A n \in 1 .. N : u[n] = IF n = Rank(s, p) THEN e ELSE Retained(s)[n]
    BY <1>5
  <2> HIDE DEF u, N
  <2>3. QED BY <1>5, <1>6, <2>1, <2>2, SeqEqual
<1>8. QED BY <1>1, <1>3, <1>7 DEF t

(* An event retained at the end of the storage is the last of the sequence. *)
LEMMA RetainedAppends ==
  ASSUME NEW s \in Storages, NEW e \in Events
  PROVE  Retained(Append(s, e)) = Append(Retained(s), e)
<1> DEFINE t == Append(s, e)
           last == Len(s) + 1
<1>1. t \in Storages /\ Len(t) = last /\ t[last] = e
      /\ \A i \in 1 .. Len(s) : t[i] = s[i]
  BY DEF Storages
<1>2. e # Tombstone
  BY EventShape
<1>3. /\ Places(s) \subseteq 1 .. Len(s) /\ Len(s) \in Nat /\ IsFiniteSet(Places(s))
      /\ Cardinality(Places(s)) \in Nat
  BY Ranks
<1> HIDE DEF t
<1>4. Places(t) = Places(s) \cup {last} /\ last \notin Places(s)
  <2>1. DOMAIN t = 1 .. last /\ DOMAIN s = 1 .. Len(s)
    BY <1>1 DEF Storages
  <2>2. QED BY <1>1, <1>2, <1>3, <2>1 DEF Places, IsRetained
<1>5. Cardinality(Places(t)) = Cardinality(Places(s)) + 1
  BY <1>3, <1>4, FS_AddElement
<1>6. \A i \in Places(s) : Rank(t, i) = Rank(s, i)
  <2>1. TAKE i \in Places(s)
  <2>2. {j \in Places(t) : j <= i} = {j \in Places(s) : j <= i}
    BY <1>3, <1>4
  <2>3. QED BY <2>2 DEF Rank
<1>7. Rank(t, last) = Cardinality(Places(s)) + 1
  <2>1. {j \in Places(t) : j <= last} = Places(t)
    BY <1>3, <1>4
  <2>2. QED BY <1>5, <2>1 DEF Rank
<1> DEFINE N == Cardinality(Places(s))
           u == Append(Retained(s), e)
<1>8. /\ Retained(s) \in Seq(Events) /\ Len(Retained(s)) = N /\ N \in Nat
      /\ Retained(t) \in Seq(Events) /\ Len(Retained(t)) = N + 1
  BY <1>1, <1>3, <1>5, RetainedAt
<1>9. \A n \in 1 .. N : Retained(t)[n] = Retained(s)[n]
  <2>1. TAKE n \in 1 .. N
  <2>2. PICK i \in Places(s) : Rank(s, i) = n
    BY Ranks
  <2>3. Retained(t)[Rank(t, i)] = t[i] /\ Retained(s)[Rank(s, i)] = s[i]
    BY <1>1, <1>4, RetainedAt
  <2>4. QED BY <1>1, <1>3, <1>6, <2>2, <2>3
<1>10. Retained(t)[N + 1] = e
  <2>1. Retained(t)[Rank(t, last)] = t[last]
    BY <1>1, <1>4, RetainedAt
  <2>2. QED BY <1>1, <1>7, <2>1
<1>11. Retained(t) = u
  <2>1. u \in Seq(Events) /\ Len(u) = N + 1 /\ u[N + 1] = e
    BY <1>8
  <2>2. \A n \in 1 .. N : u[n] = Retained(s)[n]
    BY <1>8
  <2> HIDE DEF u, N
  <2>3. \A n \in 1 .. N + 1 : Retained(t)[n] = u[n]
    BY <1>8, <1>9, <1>10, <2>1, <2>2
  <2>4. QED BY <1>8, <2>1, <2>3, SeqEqual
<1>12. QED BY <1>11 DEF t

(* A sequence without its element at one position. *)
Dropping(q, r) == [n \in 1 .. Len(q) - 1 |-> q[IF n < r THEN n ELSE n + 1]]

(* A tombstone takes one event out of the sequence. *)
LEMMA RetainedDrops ==
  ASSUME NEW s \in Storages, NEW p \in Places(s)
  PROVE  /\ [s EXCEPT ![p] = Tombstone] \in Storages
         /\ Retained([s EXCEPT ![p] = Tombstone]) = Dropping(Retained(s), Rank(s, p))
<1> DEFINE t == [s EXCEPT ![p] = Tombstone]
<1>1. t \in Storages /\ Len(t) = Len(s) /\ p \in 1 .. Len(s)
      /\ \A i \in 1 .. Len(s) : t[i] = IF i = p THEN Tombstone ELSE s[i]
  BY Ranks DEF Storages
<1>2. Places(t) = Places(s) \ {p}
  BY <1>1 DEF Places, Storages, IsRetained
<1>3. /\ Places(s) \subseteq 1 .. Len(s) /\ Len(s) \in Nat /\ IsFiniteSet(Places(s))
      /\ Cardinality(Places(s)) \in Nat /\ Rank(s, p) \in 1 .. Cardinality(Places(s))
  BY Ranks
<1> HIDE DEF t
<1>4. Cardinality(Places(t)) = Cardinality(Places(s)) - 1
  BY <1>2, <1>3, FS_RemoveElement
<1>5. ASSUME NEW i \in Places(t)
      PROVE  Rank(t, i) = IF i < p THEN Rank(s, i) ELSE Rank(s, i) - 1
  <2> DEFINE S == {j \in Places(s) : j <= i}
  <2>1. {j \in Places(t) : j <= i} = S \ {p}
    BY <1>2
  <2>2. IsFiniteSet(S)
    BY <1>3, FS_Subset
  <2>3. p \in S <=> ~(i < p)
    BY <1>1, <1>2, <1>3
  <2>4. Rank(s, i) = Cardinality(S) /\ Rank(t, i) = Cardinality(S \ {p})
    BY <2>1 DEF Rank
  <2> HIDE DEF S
  <2>5. QED BY <2>2, <2>3, <2>4, FS_RemoveElement
<1> DEFINE N == Cardinality(Places(s))
           u == Dropping(Retained(s), Rank(s, p))
<1>6. /\ Retained(s) \in Seq(Events) /\ Len(Retained(s)) = N /\ N \in Nat
      /\ Retained(t) \in Seq(Events) /\ Len(Retained(t)) = N - 1
      /\ Rank(s, p) \in 1 .. N
  BY <1>1, <1>3, <1>4, RetainedAt
<1>7. \A n \in 1 .. N - 1 : Retained(t)[n] = u[n]
  <2>1. TAKE n \in 1 .. N - 1
  <2>2. PICK i \in Places(t) : Rank(t, i) = n
    BY <1>1, <1>4, Ranks
  <2>3. i \in Places(s) /\ i # p /\ i \in 1 .. Len(s)
    BY <1>2, <1>3, <2>2
  <2>4. Retained(t)[Rank(t, i)] = t[i] /\ Retained(s)[Rank(s, i)] = s[i]
    BY <1>1, <2>2, <2>3, RetainedAt
  <2>5. Retained(t)[n] = Retained(s)[Rank(s, i)]
    BY <1>1, <2>2, <2>3, <2>4
  <2>6. u[n] = Retained(s)[IF n < Rank(s, p) THEN n ELSE n + 1]
    BY <1>6 DEF Dropping
  <2>7. Rank(s, i) = IF n < Rank(s, p) THEN n ELSE n + 1
    <3>1. Rank(s, i) \in Int /\ Rank(s, p) \in Int /\ p \in Int /\ i \in Int
      BY <1>1, <1>3, <2>3, Ranks
    <3>2. CASE i < p
      BY <1>5, <2>2, <2>3, <3>1, <3>2, Ranks
    <3>3. CASE p < i
      BY <1>5, <2>2, <2>3, <3>1, <3>3, Ranks
    <3>4. QED BY <2>3, <3>1, <3>2, <3>3
  <2>8. QED BY <2>5, <2>6, <2>7
<1>8. Retained(t) = u
  <2>1. u \in Seq(Events) /\ Len(u) = N - 1
    BY <1>6 DEF Dropping
  <2> HIDE DEF u, N
  <2>2. QED BY <1>6, <1>7, <2>1, SeqEqual
<1>9. QED BY <1>1, <1>8 DEF t

-----------------------------------------------------------------------------
(* Values and the definitions that separate them *)

\* What the refinement adds to the inductive invariant.
Barriers == SlotsBehindBarriers /\ OthersBarred

(* Appending a definition voids the slots of its contract, appending a value
   sets its own, and every other slot stays. *)
LEMMA RetainSlotsExactly ==
  ASSUME TypeOK, NEW e \in Events, Retain(e), generation' = generation
  PROVE  /\ \A id \in Ids, k \in Kinds :
              Positions(id)'[k] = IF e.shape = <<"definition", id>> THEN NoPosition
                                  ELSE IF e.shape = <<k, id>> THEN Len(events) + 1
                                  ELSE Positions(id)[k]
         /\ \A s \in Symbols :
              SpotPosition(s)' = IF e.shape = <<"spot", s>> /\ ~PreserveSpotPrints
                                   THEN Len(events) + 1 ELSE SpotPosition(s)
<1>0. e.shape = <<KindOf(e), About(e)>>
  BY EventShape
<1>1. ASSUME NEW id \in Ids, NEW k \in Kinds
      PROVE  Positions(id)'[k] = IF e.shape = <<"definition", id>> THEN NoPosition
                                 ELSE IF e.shape = <<k, id>> THEN Len(events) + 1
                                 ELSE Positions(id)[k]
  <2>1. CASE KindOf(e) = "definition"
    <3>1. latest' = [latest EXCEPT ![About(e)] =
                       [generation |-> latest[About(e)].generation, positions |-> NoPositions]]
      BY <2>1 DEF Retain, LatestAfter
    <3>2. e.shape # <<k, id>>
      BY <1>0, <2>1, KindsDisjoint
    <3>3. CASE id = About(e)
      <4>1. Positions(id)' = NoPositions
        BY <3>1, <3>3 DEF Positions, TypeOK
      <4>2. e.shape = <<"definition", id>>
        BY <1>0, <2>1, <3>3
      <4>3. QED BY <4>1, <4>2 DEF NoPositions
    <3>4. CASE id # About(e)
      <4>1. Positions(id)' = Positions(id)
        BY <3>1, <3>4 DEF Positions, TypeOK
      <4>2. e.shape # <<"definition", id>>
        BY <1>0, <3>4
      <4>3. QED BY <3>2, <4>1, <4>2
    <3>5. QED BY <3>3, <3>4
  <2>2. CASE KindOf(e) \in Kinds
    <3>1. About(e) \in Ids /\ KindOf(e) # "definition"
      BY <2>2, EventShape, KindsDisjoint
    <3>2. latest' = [latest EXCEPT ![About(e)] =
                       [generation |-> generation,
                        positions |-> [Positions(About(e)) EXCEPT ![KindOf(e)] = Len(events) + 1]]]
      BY <2>2, <3>1 DEF Retain, LatestAfter
    <3>3. e.shape # <<"definition", id>>
      BY <1>0, <3>1
    <3>4. CASE id # About(e)
      <4>1. Positions(id)' = Positions(id)
        BY <3>2, <3>4 DEF Positions, TypeOK
      <4>2. e.shape # <<k, id>>
        BY <1>0, <3>4
      <4>3. QED BY <3>3, <4>1, <4>2
    <3>5. CASE id = About(e)
      <4>1. Positions(id)' = [Positions(id) EXCEPT ![KindOf(e)] = Len(events) + 1]
        BY <3>1, <3>2, <3>5 DEF Positions, TypeOK
      <4>2. Positions(id) \in [Kinds -> Nat]
        BY DEF TypeOK, Positions, NoPositions, NoPosition
      <4>3. Positions(id)'[k] = IF k = KindOf(e) THEN Len(events) + 1 ELSE Positions(id)[k]
        BY <4>1, <4>2
      <4>4. e.shape = <<k, id>> <=> k = KindOf(e)
        BY <1>0, <3>5
      <4>5. QED BY <3>3, <4>3, <4>4
    <3>6. QED BY <3>4, <3>5
  <2>3. CASE KindOf(e) # "definition" /\ KindOf(e) \notin Kinds
    <3>1. Positions(id)' = Positions(id)
      BY <2>3 DEF Retain, LatestAfter, Positions
    <3>2. e.shape # <<"definition", id>> /\ e.shape # <<k, id>>
      BY <1>0, <2>3
    <3>3. QED BY <3>1, <3>2
  <2>4. QED BY <2>1, <2>2, <2>3
<1>2. ASSUME NEW s \in Symbols
      PROVE  SpotPosition(s)' = IF e.shape = <<"spot", s>> /\ ~PreserveSpotPrints
                                  THEN Len(events) + 1 ELSE SpotPosition(s)
  <2>0. HasSlot(e) /\ KindOf(e) = "spot" <=> KindOf(e) = "spot" /\ ~PreserveSpotPrints
    BY KindsDisjoint DEF HasSlot
  <2>1. spots' = IF KindOf(e) = "spot" /\ ~PreserveSpotPrints
                   THEN [spots EXCEPT ![About(e)] =
                           [generation |-> generation, position |-> Len(events) + 1]]
                   ELSE spots
    BY <2>0 DEF Retain, SpotsAfter
  <2>2. CASE e.shape = <<"spot", s>> /\ ~PreserveSpotPrints
    <3>1. KindOf(e) = "spot" /\ About(e) = s
      BY <2>2 DEF KindOf, About
    <3>2. QED BY <2>1, <2>2, <3>1 DEF SpotPosition, TypeOK
  <2>3. CASE ~(e.shape = <<"spot", s>> /\ ~PreserveSpotPrints)
    <3>1. ~(KindOf(e) = "spot" /\ About(e) = s /\ ~PreserveSpotPrints)
      BY <1>0, <2>3
    <3>2. spots'[s] = spots[s]
      BY <2>1, <3>1 DEF TypeOK
    <3>3. QED BY <2>3, <3>2 DEF SpotPosition
  <2>4. QED BY <2>2, <2>3
<1>3. QED BY <1>1, <1>2

(* Appending an event keeps values and definitions in their order. *)
LEMMA RetainBarriers ==
  ASSUME Indexes, Barriers, NEW e \in Events, Retain(e), generation' = generation
  PROVE  Barriers'
<1> USE DEF Indexes
<1>0. /\ Len(events) \in Nat /\ DOMAIN events = 1 .. Len(events)
      /\ DOMAIN events' = 1 .. Len(events) + 1 /\ events'[Len(events) + 1] = e
      /\ \A p \in 1 .. Len(events) : events'[p] = events[p] \/ events'[p] = Tombstone
  <2>1. /\ Len(events) \in Nat /\ DOMAIN events = 1 .. Len(events)
    BY DEF TypeOK
  <2>2. /\ events' \in Seq(Events \cup {Tombstone}) /\ Len(events') = Len(events) + 1
        /\ events'[Len(events) + 1] = e
        /\ \A p \in 1 .. Len(events) : events'[p] = events[p] \/ events'[p] = Tombstone
    BY RetainStorage
  <2>3. DOMAIN events' = 1 .. Len(events) + 1
    BY <2>2
  <2>4. QED BY <2>1, <2>2, <2>3
<1>1. Tombstone.shape = <<"none", "none">>
  BY DEF Tombstone
<1>2. ASSUME NEW id \in Ids, NEW k \in Kinds, Positions(id)'[k] # NoPosition,
             NEW p \in DOMAIN events', p > Positions(id)'[k]
      PROVE  events'[p].shape # <<"definition", id>>
  <2>1. Positions(id)'[k] = IF e.shape = <<"definition", id>> THEN NoPosition
                            ELSE IF e.shape = <<k, id>> THEN Len(events) + 1
                            ELSE Positions(id)[k]
    BY RetainSlotsExactly
  <2>2. e.shape # <<"definition", id>> /\ Positions(id)'[k] # Len(events) + 1
        /\ Positions(id)'[k] = Positions(id)[k]
    BY <1>0, <1>2, <2>1
  <2>3. CASE p = Len(events) + 1
    BY <1>0, <2>2, <2>3
  <2>4. CASE p \in 1 .. Len(events)
    <3>1. events[p].shape # <<"definition", id>>
      BY <1>0, <1>2, <2>2, <2>4 DEF Barriers, SlotsBehindBarriers
    <3>2. QED BY <1>0, <1>1, <2>4, <3>1
  <2>5. QED BY <1>0, <2>3, <2>4
<1>3. ASSUME NEW p \in 1 .. Len(events), NEW k, k # "none", NEW a, events'[p].shape = <<k, a>>
      PROVE  events'[p] = events[p]
  BY <1>0, <1>1, <1>3
<1>4. ASSUME NEW p \in 1 .. Len(events), NEW a, events[p].shape = <<"definition", a>>
      PROVE  events'[p] = events[p]
  <2>1. KindOf(events[p]) # "trade"
    BY <1>4 DEF KindOf
  <2>2. QED BY <2>1, RetainKeepsValues
<1>5. ASSUME NEW p \in DOMAIN events', NEW id \in Ids, NEW k \in Kinds, events'[p].shape = <<k, id>>
      PROVE  \/ Positions(id)'[k] = p
             \/ \E q \in DOMAIN events' : q > p /\ events'[q].shape = <<"definition", id>>
  <2>0. k # "none" /\ k # "definition"
    BY KindsDisjoint
  <2>1. Positions(id)'[k] = IF e.shape = <<"definition", id>> THEN NoPosition
                            ELSE IF e.shape = <<k, id>> THEN Len(events) + 1
                            ELSE Positions(id)[k]
    BY RetainSlotsExactly
  <2>2. CASE p = Len(events) + 1
    <3>1. e.shape = <<k, id>> /\ e.shape # <<"definition", id>>
      BY <1>0, <1>5, <2>0, <2>2
    <3>2. QED BY <2>1, <2>2, <3>1
  <2>3. CASE p \in 1 .. Len(events)
    <3>1. events[p].shape = <<k, id>>
      BY <1>3, <1>5, <2>0, <2>3
    <3>2. CASE \E q \in DOMAIN events : q > p /\ events[q].shape = <<"definition", id>>
      <4>1. PICK q \in 1 .. Len(events) : q > p /\ events[q].shape = <<"definition", id>>
        BY <1>0, <3>2
      <4>2. q \in DOMAIN events' /\ events'[q].shape = <<"definition", id>>
        BY <1>0, <1>4, <4>1
      <4>3. QED BY <4>1, <4>2
    <3>3. CASE e.shape = <<"definition", id>>
      <4>1. Len(events) + 1 \in DOMAIN events' /\ Len(events) + 1 > p
            /\ events'[Len(events) + 1].shape = <<"definition", id>>
        BY <1>0, <2>3, <3>3
      <4>2. QED BY <4>1
    <3>4. CASE Positions(id)[k] = p /\ e.shape # <<"definition", id>>
      <4>1. e.shape # <<k, id>>
        <5>1. SUFFICES ASSUME e.shape = <<k, id>> PROVE FALSE
          OBVIOUS
        <5>2. KindOf(e) = k /\ About(e) = id
          BY <5>1 DEF KindOf, About
        <5>3. HasSlot(e) /\ Slot(e) = Positions(id)[k]
          BY <5>2, KindsDisjoint DEF HasSlot, Slot
        <5>4. QED BY <1>0, <2>3, <3>4, <5>3 DEF Retain, NoPosition
      <4>2. QED BY <2>1, <3>4, <4>1
    <3>5. QED BY <1>0, <2>3, <3>1, <3>2, <3>3, <3>4 DEF Barriers, OthersBarred
  <2>4. QED BY <1>0, <2>2, <2>3
<1>6. ASSUME NEW p \in DOMAIN events', NEW s \in Symbols,
             events'[p].shape = <<"spot", s>>, ~PreserveSpotPrints
      PROVE  SpotPosition(s)' = p
  <2>1. SpotPosition(s)' = IF e.shape = <<"spot", s>> /\ ~PreserveSpotPrints
                             THEN Len(events) + 1 ELSE SpotPosition(s)
    BY RetainSlotsExactly
  <2>2. CASE p = Len(events) + 1
    BY <1>0, <1>6, <2>1, <2>2
  <2>3. CASE p \in 1 .. Len(events)
    <3>1. events[p].shape = <<"spot", s>>
      BY <1>3, <1>6, <2>3
    <3>2. SpotPosition(s) = p
      BY <1>0, <1>6, <2>3, <3>1 DEF Barriers, OthersBarred
    <3>3. e.shape # <<"spot", s>>
      <4>1. SUFFICES ASSUME e.shape = <<"spot", s>> PROVE FALSE
        OBVIOUS
      <4>2. KindOf(e) = "spot" /\ About(e) = s
        BY <4>1 DEF KindOf, About
      <4>3. HasSlot(e) /\ Slot(e) = SpotPosition(s)
        BY <1>6, <4>2 DEF HasSlot, Slot
      <4>4. QED BY <1>0, <2>3, <3>2, <4>3 DEF Retain, NoPosition
    <3>4. QED BY <2>1, <3>2, <3>3
  <2>4. QED BY <1>0, <2>2, <2>3
<1>7. SlotsBehindBarriers'
  BY <1>2 DEF SlotsBehindBarriers
<1>8. OthersBarred'
  BY <1>5, <1>6 DEF OthersBarred
<1>9. QED BY <1>7, <1>8 DEF Barriers

(* Every step keeps values and definitions in their order. *)
LEMMA NextBarriers ==
  ASSUME IInv, Barriers, [Next]_vars
  PROVE  Barriers'
<1> USE DEF IInv, Indexes
<1>1. ASSUME NEW shape \in Shapes, Publish(shape) PROVE Barriers'
  <2> DEFINE e == [shape |-> shape, serial |-> published + 1]
  <2>1. /\ e \in Events /\ generation' = generation
        /\ Coalesce(e) \/ DropTrade(e) \/ Retain(e)
    BY <1>1, QueueAssumption DEF Publish, Events, TypeOK
  <2> HIDE DEF e
  <2>2. CASE Coalesce(e)
    <3>1. UNCHANGED <<latest, spots>>
      BY <2>2 DEF Coalesce
    <3>2. /\ \A id \in Ids : Positions(id)' = Positions(id)
          /\ \A s \in Symbols : SpotPosition(s)' = SpotPosition(s)
      BY <2>1, <3>1 DEF Positions, SpotPosition
    <3>3. DOMAIN events' = DOMAIN events
      BY <2>1, <2>2, CoalesceStorage DEF TypeOK
    <3>4. \A p \in DOMAIN events : events'[p].shape = events[p].shape
      BY <2>1, <2>2, CoalesceStorage DEF TypeOK
    <3>5. QED BY <3>2, <3>3, <3>4 DEF Barriers, SlotsBehindBarriers, OthersBarred
  <2>3. CASE DropTrade(e)
    <3>1. /\ events' = events
          /\ \A id \in Ids : Positions(id)' = Positions(id)
          /\ \A s \in Symbols : SpotPosition(s)' = SpotPosition(s)
      BY <2>1, <2>3 DEF DropTrade, storage, Positions, SpotPosition
    <3>2. QED BY <3>1 DEF Barriers, SlotsBehindBarriers, OthersBarred
  <2>4. CASE Retain(e)
    BY <2>1, <2>4, RetainBarriers
  <2>5. QED BY <2>1, <2>2, <2>3, <2>4
<1>2. CASE DrainNow \/ WakeUp \/ Timeout
  <2>1. Collect
    BY <1>2 DEF DrainNow, WakeUp, Timeout
  <2>2. events' = <<>> /\ \A id \in Ids, k \in Kinds : Positions(id)'[k] = NoPosition
    BY <2>1, CollectVoids DEF Collect
  <2>3. QED BY <2>2 DEF Barriers, SlotsBehindBarriers, OthersBarred
<1>3. CASE Wake \/ Notify \/ BeginWait \/ KeepWaiting \/ UNCHANGED vars
  <2>1. UNCHANGED <<events, latest, spots, generation>>
    BY <1>3 DEF Wake, Notify, BeginWait, KeepWaiting, vars, storage
  <2>2. /\ events' = events
        /\ \A id \in Ids : Positions(id)' = Positions(id)
        /\ \A s \in Symbols : SpotPosition(s)' = SpotPosition(s)
    BY <2>1 DEF Positions, SpotPosition
  <2>3. QED BY <2>2 DEF Barriers, SlotsBehindBarriers, OthersBarred
<1>4. QED BY <1>1, <1>2, <1>3 DEF Next

-----------------------------------------------------------------------------
(* The abstract queue *)

(* The places of the retained events are those of the index Live. *)
LEMMA PendingLength ==
  ASSUME IInv
  PROVE  /\ events \in Storages /\ Places(events) = Live
         /\ Retained(events) \in Seq(Events) /\ Len(Retained(events)) = depth
         /\ \A i \in Live : Retained(events)[Rank(events, i)] = events[i]
         /\ \A n \in DOMAIN Retained(events) :
              \E i \in Live : Rank(events, i) = n /\ Retained(events)[n] = events[i]
<1>1. events \in Storages /\ Places(events) = Live /\ Cardinality(Live) = depth
  BY DEF IInv, Indexes, TypeOK, Storages, Places, Live, IsRetained, DepthCountsRetained
<1>2. /\ Retained(events) \in Seq(Events) /\ Len(Retained(events)) = depth
      /\ \A i \in Live : Retained(events)[Rank(events, i)] = events[i]
  BY <1>1, RetainedAt
<1>3. \A n \in 1 .. depth : \E i \in Live : Rank(events, i) = n
  BY <1>1, Ranks
<1>4. DOMAIN Retained(events) = 1 .. depth
  BY <1>2
<1>5. QED BY <1>1, <1>2, <1>3, <1>4

(* The kinds with a slot are the abstract queue's latest-value kinds. *)
LEMMA LatestKindsHaveSlots ==
  ASSUME NEW e
  PROVE  HasSlot(e) <=> e.shape[1] \in Kinds \cup (IF PreserveSpotPrints THEN {} ELSE {"spot"})
BY DEF HasSlot, KindOf

(* Without a slot for its key, an event supersedes nothing that is pending. *)
LEMMA NothingSuperseded ==
  ASSUME IInv, Barriers, NEW e \in Events, HasSlot(e) => Slot(e) = NoPosition
  PROVE  Abstract!Replaceable(e) = {}
<1> SUFFICES ASSUME NEW n \in DOMAIN Retained(events), Abstract!Supersedes(e, n) PROVE FALSE
  BY DEF Abstract!Replaceable
<1>1. /\ HasSlot(e) /\ Retained(events)[n].shape = e.shape
      /\ \A m \in n + 1 .. Len(Retained(events)) : ~Abstract!Separates(Retained(events)[m], e)
  BY LatestKindsHaveSlots DEF Abstract!Supersedes, Abstract!KindOf
<1>2. PICK i \in Live : Rank(events, i) = n /\ Retained(events)[n] = events[i]
  BY PendingLength
<1>3. i \in DOMAIN events /\ i \in 1 .. Len(events) /\ events[i].shape = e.shape
  BY <1>1, <1>2 DEF Live, IInv, Indexes, TypeOK
<1>4. CASE KindOf(e) = "spot"
  <2>1. About(e) \in Symbols /\ e.shape = <<"spot", About(e)>> /\ ~PreserveSpotPrints
    BY <1>1, <1>4, EventShape, KindsDisjoint DEF HasSlot
  <2>2. SpotPosition(About(e)) = i
    BY <1>3, <2>1 DEF Barriers, OthersBarred
  <2>3. Slot(e) = i
    BY <1>4, <2>2 DEF Slot
  <2>4. QED BY <1>1, <1>3, <2>3 DEF NoPosition
<1>5. CASE KindOf(e) \in Kinds
  <2>1. About(e) \in Ids /\ e.shape = <<KindOf(e), About(e)>> /\ KindOf(e) # "spot"
    BY <1>5, EventShape, KindsDisjoint
  <2>2. Positions(About(e))[KindOf(e)] # i
    BY <1>1, <1>3, <2>1 DEF Slot, NoPosition
  <2>3. PICK q \in DOMAIN events : q > i /\ events[q].shape = <<"definition", About(e)>>
    BY <1>3, <1>5, <2>1, <2>2 DEF Barriers, OthersBarred
  <2>4. q \in Live
    BY <2>3 DEF Live, Tombstone
  <2>5. Rank(events, q) > n /\ Rank(events, q) \in 1 .. Len(Retained(events)) /\ n \in Nat
    <3>1. /\ events \in Storages /\ Places(events) = Live /\ i \in Live /\ i < q
          /\ Len(Retained(events)) = depth
      BY <1>2, <1>3, <2>3, PendingLength DEF IInv, Indexes, TypeOK
    <3>2. /\ Rank(events, i) \in 1 .. Cardinality(Live) /\ Rank(events, q) \in 1 .. Cardinality(Live)
          /\ Rank(events, i) < Rank(events, q) /\ Cardinality(Live) \in Nat
      BY <2>4, <3>1, Ranks
    <3>3. Cardinality(Live) = depth
      BY DEF IInv, Indexes, DepthCountsRetained
    <3>4. QED BY <1>2, <3>1, <3>2, <3>3
  <2>6. Retained(events)[Rank(events, q)] = events[q]
    BY <2>4, PendingLength
  <2>7. Abstract!Separates(events[q], e)
    BY <2>1, <2>3 DEF Abstract!Separates, Abstract!KindOf, Abstract!About, KindOf, About
  <2>8. Rank(events, q) \in n + 1 .. Len(Retained(events))
    BY <2>5, PendingLength
  <2>9. QED BY <1>1, <2>6, <2>7, <2>8
<1>6. QED BY <1>1, <1>4, <1>5 DEF HasSlot

(* Coalescing an event replaces the value it supersedes. *)
LEMMA CoalesceReplaces ==
  ASSUME IInv, Barriers, NEW e \in Events, Coalesce(e)
  PROVE  Abstract!Replace(e)
<1> DEFINE p == Slot(e)
           n == Rank(events, p)
<1>1. /\ p \in 1 .. Len(events) /\ events[p].shape = e.shape
      /\ KindOf(e) \in Kinds \cup {"spot"} /\ HasSlot(e) /\ p # NoPosition
  BY CoalesceStorage DEF IInv, Indexes, Coalesce
<1>2. p \in Live
  <2>1. KindOf(events[p]) # "none" /\ KindOf(Tombstone) = "none"
    BY <1>1, KindsDisjoint DEF KindOf, Tombstone
  <2>2. QED BY <1>1, <2>1 DEF Live, IInv, Indexes, TypeOK
<1>3. events' = [events EXCEPT ![p] = e]
  BY DEF Coalesce
<1> HIDE DEF p
<1>4. /\ Retained([events EXCEPT ![p] = e]) = [Retained(events) EXCEPT ![n] = e]
      /\ n \in DOMAIN Retained(events) /\ Retained(events)[n] = events[p]
  <2>1. events \in Storages /\ p \in Places(events)
    BY <1>2, PendingLength
  <2>2. Rank(events, p) \in 1 .. Cardinality(Places(events))
    BY <2>1, Ranks
  <2>3. /\ Retained(events) \in Seq(Events) /\ Len(Retained(events)) = Cardinality(Places(events))
        /\ Retained(events)[Rank(events, p)] = events[p]
    BY <2>1, RetainedAt
  <2>4. Retained([events EXCEPT ![p] = e]) = [Retained(events) EXCEPT ![Rank(events, p)] = e]
    BY <2>1, RetainedReplaces
  <2>5. Rank(events, p) \in DOMAIN Retained(events)
    BY <2>2, <2>3
  <2>6. QED BY <2>3, <2>4, <2>5
<1>5. Abstract!Supersedes(e, n)
  <2>1. e.shape[1] \in Kinds \cup (IF PreserveSpotPrints THEN {} ELSE {"spot"})
    BY <1>1, LatestKindsHaveSlots
  <2>2. ASSUME NEW m \in n + 1 .. Len(Retained(events)) PROVE ~Abstract!Separates(Retained(events)[m], e)
    <3>1. n \in Nat /\ Len(Retained(events)) \in Nat /\ m \in DOMAIN Retained(events) /\ m > n
      BY <1>4, PendingLength
    <3>2. PICK i \in Live : Rank(events, i) = m /\ Retained(events)[m] = events[i]
      BY <3>1, PendingLength
    <3>3. i > p
      <4>1. i \in Int /\ p \in Int
        BY <1>1, <3>2 DEF Live, IInv, Indexes, TypeOK
      <4>2. i # p /\ ~(i < p)
        BY <1>2, <3>1, <3>2, PendingLength, Ranks
      <4>3. QED BY <4>1, <4>2
    <3>4. CASE KindOf(e) = "spot"
      BY <3>4 DEF Abstract!Separates, Abstract!KindOf, KindOf
    <3>5. CASE KindOf(e) \in Kinds
      <4>1. About(e) \in Ids /\ KindOf(e) # "spot"
        BY <3>5, EventShape, KindsDisjoint
      <4>2. Positions(About(e))[KindOf(e)] = p /\ p # NoPosition
        BY <1>1, <4>1 DEF Slot, p
      <4>3. i \in DOMAIN events
        BY <3>2 DEF Live
      <4>4. events[i].shape # <<"definition", About(e)>>
        BY <3>3, <3>5, <4>1, <4>2, <4>3 DEF Barriers, SlotsBehindBarriers
      <4>5. QED BY <3>2, <4>4 DEF Abstract!Separates, Abstract!About, About
    <3>6. QED BY <1>1, <3>4, <3>5
  <2>3. QED BY <1>1, <1>4, <2>1, <2>2 DEF Abstract!Supersedes, Abstract!KindOf
<1>6. Retained(events)' = [Retained(events) EXCEPT ![n] = e]
  <2>1. Retained(events)' = Retained(events')
    BY DEF Retained, Places, Rank
  <2>2. QED BY <1>3, <1>4, <2>1
<1>7. n \in Abstract!Replaceable(e)
  BY <1>4, <1>5 DEF Abstract!Replaceable
<1> HIDE DEF n
<1>8. QED BY <1>6, <1>7 DEF Abstract!Replace

(* Appending an event adds it, or puts it in the place of the oldest trade. *)
LEMMA RetainAddsOrEvicts ==
  ASSUME IInv, Barriers, NEW e \in Events, Retain(e)
  PROVE  Abstract!Add(e) \/ Abstract!Evict(e)
<1>0. events \in Storages /\ Places(events) = Live /\ TradeIndex /\ TypeOK
  BY PendingLength DEF IInv, Indexes
<1>1. Abstract!Replaceable(e) = {}
  BY NothingSuperseded DEF Retain
<1>2. Abstract!Full <=> Full
  BY PendingLength DEF Abstract!Full, Full
<1>3. \A n \in DOMAIN Retained(events) : n \in Abstract!PendingTrades <=>
        \E i \in LiveTrades : Rank(events, i) = n
  <2>1. TAKE n \in DOMAIN Retained(events)
  <2>2. PICK i \in Live : Rank(events, i) = n /\ Retained(events)[n] = events[i]
    BY PendingLength
  <2>3. n \in Abstract!PendingTrades <=> KindOf(events[i]) = "trade"
    BY <2>2 DEF Abstract!PendingTrades, Abstract!KindOf, KindOf
  <2>4. \A j \in Live : Rank(events, j) = n => events[j] = events[i]
    BY <2>2, PendingLength
  <2>5. QED BY <2>2, <2>3, <2>4 DEF LiveTrades
<1>4. events' = EventsAfter(e) /\ Retained(events)' = Retained(events')
  BY DEF Retain, Retained, Places, Rank
<1>5. CASE Evicts
  <2> DEFINE p == trades[nextTrade]
             n == Rank(events, p)
  <2>1. p \in LiveTrades /\ p \in Live /\ KindOf(e) # "trade" /\ Full
    BY <1>0, <1>5, RetainStorage DEF LiveTrades, Retain, Evicts
  <2>2. events' = Append([events EXCEPT ![p] = Tombstone], e)
    BY <1>4, <1>5 DEF EventsAfter
  <2>3. \A i \in LiveTrades : p <= i
    <3>1. TAKE i \in LiveTrades
    <3>2. PICK j \in nextTrade .. Len(trades) : trades[j] = i
      BY <1>0 DEF TradeIndex
    <3>3. /\ nextTrade \in 1 .. Len(trades) /\ j \in 1 .. Len(trades)
          /\ nextTrade = j \/ nextTrade < j
      BY <1>0, <1>5, <3>2, RetainStorage DEF TypeOK
    <3>4. trades[j] \in Nat /\ trades[nextTrade] \in Nat
      BY <1>0, <3>3 DEF TypeOK
    <3>5. QED BY <1>0, <3>2, <3>3, <3>4 DEF TradeIndex
  <2> HIDE DEF p
  <2>4. /\ [events EXCEPT ![p] = Tombstone] \in Storages
        /\ Retained([events EXCEPT ![p] = Tombstone]) = Dropping(Retained(events), n)
        /\ n \in DOMAIN Retained(events)
    <3>1. p \in Places(events)
      BY <1>0, <2>1
    <3>2. /\ [events EXCEPT ![p] = Tombstone] \in Storages
          /\ Retained([events EXCEPT ![p] = Tombstone]) = Dropping(Retained(events), Rank(events, p))
      BY <1>0, <3>1, RetainedDrops
    <3>3. Rank(events, p) \in 1 .. Cardinality(Places(events))
      BY <1>0, <3>1, Ranks
    <3>4. /\ Retained(events) \in Seq(Events)
          /\ Len(Retained(events)) = Cardinality(Places(events))
      BY <1>0, RetainedAt
    <3>5. Rank(events, p) \in DOMAIN Retained(events)
      BY <3>3, <3>4
    <3>6. QED BY <3>2, <3>5
  <2>5. Retained(events)' = Append(Dropping(Retained(events), n), e)
    BY <1>4, <2>2, <2>4, RetainedAppends
  <2>6. n \in Abstract!PendingTrades
    BY <1>3, <2>1, <2>4
  <2>7. ASSUME NEW m \in Abstract!PendingTrades PROVE n <= m
    <3>1. m \in DOMAIN Retained(events)
      BY DEF Abstract!PendingTrades
    <3>2. PICK i \in LiveTrades : Rank(events, i) = m
      BY <1>3, <3>1
    <3>3. i \in Live /\ p <= i /\ i \in Int /\ p \in Int /\ m \in Int /\ n \in Int
      BY <1>0, <2>1, <2>3, <2>4, <3>1, <3>2, PendingLength, Ranks DEF LiveTrades
    <3>4. i = p \/ p < i
      BY <3>3
    <3>5. QED BY <1>0, <2>1, <3>2, <3>3, <3>4, Ranks
  <2> HIDE DEF n
  <2>8. Abstract!Without(n) = Dropping(Retained(events), n)
    BY DEF Abstract!Without, Dropping
  <2>9. e.shape[1] # "trade" /\ Abstract!Full
    BY <1>2, <2>1 DEF KindOf
  <2>10. Abstract!Evict(e)
    BY <1>1, <2>5, <2>6, <2>7, <2>8, <2>9 DEF Abstract!Evict, Abstract!KindOf
  <2>11. QED BY <2>10
<1>6. CASE ~Evicts
  <2>1. events' = Append(events, e)
    BY <1>4, <1>6 DEF EventsAfter
  <2>2. Retained(events)' = Append(Retained(events), e)
    BY <1>0, <1>4, <2>1, RetainedAppends
  <2>3. ~Full \/ (e.shape[1] # "trade" /\ Abstract!PendingTrades = {})
    <3>1. CASE ~Full
      BY <3>1
    <3>2. CASE Full
      <4>1. KindOf(e) # "trade" /\ nextTrade > Len(trades)
        BY <1>0, <1>6, <3>2 DEF Retain, Evicts, TypeOK
      <4>2. LiveTrades = {}
        BY <1>0, <4>1 DEF TradeIndex, TypeOK
      <4>3. Abstract!PendingTrades = {}
        BY <1>3, <4>2 DEF Abstract!PendingTrades
      <4>4. QED BY <4>1, <4>3 DEF KindOf
    <3>3. QED BY <3>1, <3>2
  <2>4. Abstract!Add(e)
    BY <1>1, <1>2, <2>2, <2>3 DEF Abstract!Add, Abstract!KindOf
  <2>5. QED BY <2>4
<1>7. QED BY <1>5, <1>6

(* Every step is one of the abstract queue, or leaves it alone. *)
LEMMA StepRefines ==
  ASSUME IInv, Barriers, [Next]_vars
  PROVE  [Abstract!Next]_<<Retained(events), batch>>
<1>0. Retained(events)' = Retained(events')
  BY DEF Retained, Places, Rank
<1>1. ASSUME NEW shape \in Shapes, Publish(shape) PROVE Abstract!Publish
  <2> DEFINE e == [shape |-> shape, serial |-> published + 1]
  <2>1. /\ e \in Events /\ batch' = batch
        /\ Coalesce(e) \/ DropTrade(e) \/ Retain(e)
    BY <1>1, QueueAssumption DEF Publish, Events, TypeOK, IInv, Indexes
  <2> HIDE DEF e
  <2>2. CASE Coalesce(e)
    BY <2>1, <2>2, CoalesceReplaces DEF Abstract!Publish
  <2>3. CASE DropTrade(e)
    <3>1. e.shape[1] = "trade" /\ Full /\ events' = events
      BY <2>3 DEF DropTrade, storage, KindOf
    <3>2. Abstract!Discard(e)
      BY <1>0, <3>1, PendingLength DEF Abstract!Discard, Abstract!KindOf, Abstract!Full, Full
    <3>3. QED BY <2>1, <3>2 DEF Abstract!Publish
  <2>4. CASE Retain(e)
    BY <2>1, <2>4, RetainAddsOrEvicts DEF Abstract!Publish
  <2>5. QED BY <2>1, <2>2, <2>3, <2>4
<1>2. CASE DrainNow \/ WakeUp \/ Timeout
  <2>1. batch' = Retained(events) /\ events' = <<>>
    BY <1>2 DEF DrainNow, WakeUp, Timeout, Collect
  <2>2. Retained(<<>>) = <<>>
    <3>1. Places(<<>>) = {}
      BY DEF Places
    <3>2. QED BY <3>1, FS_EmptySet DEF Retained
  <2>3. Abstract!Drain
    BY <1>0, <2>1, <2>2 DEF Abstract!Drain
  <2>4. QED BY <2>3 DEF Abstract!Next
<1>3. CASE Wake \/ Notify \/ BeginWait \/ KeepWaiting \/ UNCHANGED vars
  <2>1. UNCHANGED <<events, batch>>
    BY <1>3 DEF Wake, Notify, BeginWait, KeepWaiting, vars, storage
  <2>2. QED BY <1>0, <2>1
<1>4. QED BY <1>1, <1>2, <1>3 DEF Next, Abstract!Next

(* Positions, tombstones, the trade cursor and the generations implement the
   abstract queue: a drain hands over exactly the values it promises, in their
   order (publish, drain). *)
THEOREM QueueRefinement == Spec => ImplementsLatestQueue
<1>1. Init => Barriers /\ Abstract!Init
  <2>1. SUFFICES ASSUME Init PROVE Barriers /\ Abstract!Init
    OBVIOUS
  <2>2. Barriers
    BY <2>1 DEF Init, Barriers, SlotsBehindBarriers, OthersBarred, Positions, NoLatest,
                NoPositions
  <2>3. Places(<<>>) = {}
    BY DEF Places
  <2>4. Retained(<<>>) = <<>>
    BY <2>3, FS_EmptySet DEF Retained
  <2>5. QED BY <2>1, <2>2, <2>4 DEF Init, Abstract!Init
<1>2. IInv /\ Barriers /\ [Next]_vars => Barriers'
  BY NextBarriers
<1>3. IInv /\ Barriers /\ [Next]_vars => [Abstract!Next]_<<Retained(events), batch>>
  BY StepRefines
<1>4. QED BY <1>1, <1>2, <1>3, QueueInvariant, PTL DEF Spec, ImplementsLatestQueue, Abstract!Spec

=============================================================================
