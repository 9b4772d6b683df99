----------------------------- MODULE LatestQueue ----------------------------
(***************************************************************************)
(* What the event queue promises its consumer, without positions, indexes, *)
(* tombstones, generations or threads: a sequence of pending events in     *)
(* which a newer value replaces the one it supersedes where that one       *)
(* stands, definitions of a contract separate its values, and a full queue *)
(* gives up trades, the oldest first, and nothing else.                    *)
(***************************************************************************)
EXTENDS Integers, Sequences

CONSTANTS LatestKinds,  \* kinds of which only the latest value matters
          Room,         \* the capacity
          Publications  \* every event that may be published

VARIABLES pending, batch

KindOf(e) == e.shape[1]
About(e) == e.shape[2]

\* A definition of its contract separates the values before it from e.
Separates(d, e) == KindOf(e) # "spot" /\ d.shape = <<"definition", About(e)>>

\* The pending value e supersedes is at position i.
Supersedes(e, i) ==
  /\ KindOf(e) \in LatestKinds
  /\ pending[i].shape = e.shape
  /\ \A j \in i + 1 .. Len(pending) : ~Separates(pending[j], e)

Replaceable(e) == {i \in DOMAIN pending : Supersedes(e, i)}
PendingTrades == {i \in DOMAIN pending : KindOf(pending[i]) = "trade"}
Full == Len(pending) >= Room
Without(i) == [n \in 1 .. Len(pending) - 1 |-> pending[IF n < i THEN n ELSE n + 1]]

Replace(e) ==
  \E i \in Replaceable(e) : pending' = [pending EXCEPT ![i] = e]

Discard(e) ==
  KindOf(e) = "trade" /\ Full /\ UNCHANGED pending

Evict(e) ==
  /\ Replaceable(e) = {} /\ KindOf(e) # "trade" /\ Full
  /\ \E i \in PendingTrades :
       /\ \A j \in PendingTrades : i <= j
       /\ pending' = Append(Without(i), e)

Add(e) ==
  /\ Replaceable(e) = {}
  /\ ~Full \/ (KindOf(e) # "trade" /\ PendingTrades = {})
  /\ pending' = Append(pending, e)

Publish == /\ \E e \in Publications : Replace(e) \/ Discard(e) \/ Evict(e) \/ Add(e)
           /\ UNCHANGED batch

Drain == batch' = pending /\ pending' = <<>>

Init == pending = <<>> /\ batch = <<>>
Next == Publish \/ Drain
Spec == Init /\ [][Next]_<<pending, batch>>

=============================================================================
