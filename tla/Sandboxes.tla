------------------------------ MODULE Sandboxes ------------------------------
(***************************************************************************)
(* Visitor sandboxes (src/server/sandboxes.cpp with Desk::create_account   *)
(* and Desk::expire_sandboxes): a web thread reserves an entry under a     *)
(* lock and posts a command; the engine thread creates the account and its *)
(* directory, and deletes both once the entry has been idle.  Ids are      *)
(* random, so an id is never drawn twice.                                  *)
(***************************************************************************)
EXTENDS Integers, FiniteSets, Sequences

CONSTANTS SandboxIds, Clients,
          Capacity, PerClient, Global, Orders, \* options_.capacity, .per_client, .global, .orders
          Window, OrderWindow, IdleAfter,      \* the creation and order windows and the idle time, in ticks
          MaxTime                              \* bound: the clock

VARIABLES
  entries,    \* entries_: id -> [ready, used, orders], under mutex_
  creations,  \* creations_ and clients_: the [client, time] of each reservation in the window
  time,       \* options_.clock()
  drawn,      \* ids drawn so far
  inbox,      \* commands posted to the engine thread: [kind, id]
  boxes,      \* sandbox_ids_: the accounts the desk trades
  folders,    \* directories under sandboxes/
  expiring    \* the ids expire_sandboxes still has to delete in this turn

sandboxVars == <<entries, creations, time, drawn, inbox, boxes, folders, expiring>>

Taken == DOMAIN entries
Fresh(t) == [ready |-> FALSE, used |-> t, orders |-> <<>>]
Recent(times, window) == SelectSeq(times, LAMBDA t : t > time - window)
InWindow == SelectSeq(creations, LAMBDA c : c.time > time - Window)
Active(i) == i \in Taken /\ entries[i].ready /\ time - entries[i].used < IdleAfter
Expired == {i \in Taken : entries[i].ready /\ time - entries[i].used >= IdleAfter}
With(i, e) == [j \in Taken \cup {i} |-> IF j = i THEN e ELSE entries[j]]
Without(i) == [j \in Taken \ {i} |-> entries[j]]

(* create: reserve under the lock; the three limits refuse without a trace. *)
Admits(client) ==
  /\ Cardinality(Taken) < Capacity /\ Len(InWindow) < Global
  /\ Len(SelectSeq(InWindow, LAMBDA c : c.client = client)) < PerClient
Reserve == \E client \in Clients, i \in SandboxIds \ drawn :
  /\ \A j \in SandboxIds \ drawn : i <= j \* which one is drawn does not matter
  /\ Admits(client) /\ drawn' = drawn \cup {i}
  /\ creations' = Append(InWindow, [client |-> client, time |-> time])
  /\ \/ /\ entries' = With(i, Fresh(time)) /\ inbox' = Append(inbox, [kind |-> "create", id |-> i])
     \/ UNCHANGED <<entries, inbox>> \* the inbox is full or trading stopped: removed(id)
  /\ UNCHANGED <<time, boxes, folders, expiring>>

(* An authenticated request keeps the entry in use; an order also takes a place in its window. *)
Order == \E i \in Taken :
  /\ Active(i) /\ Len(inbox) < Capacity + 1
  /\ LET recent == Recent(entries[i].orders, OrderWindow) IN
     IF Len(recent) >= Orders
       THEN entries' = [entries EXCEPT ![i].used = time, ![i].orders = recent] /\ UNCHANGED inbox
       ELSE /\ entries' = [entries EXCEPT ![i].used = time, ![i].orders = Append(recent, time)]
            /\ inbox' = Append(inbox, [kind |-> "order", id |-> i])
  /\ UNCHANGED <<creations, time, drawn, boxes, folders, expiring>>

(* The engine thread creates the account, or discards what a failed creation made,
   ignoring errors; then the reply makes the entry ready, or ready and already idle. *)
Ready(i, used) == entries' = [entries EXCEPT ![i].ready = TRUE, ![i].used = used]
Created(i) == boxes' = boxes \cup {i} /\ folders' = folders \cup {i} /\ Ready(i, time)
\* Mutation: a failed creation gives its entry back at once.
FailedForgets(i) ==
  UNCHANGED boxes /\ folders' \in {folders, folders \cup {i}} /\ entries' = Without(i)

FailedCreation(i) ==
  UNCHANGED boxes /\ folders' \in {folders, folders \cup {i}} /\ Ready(i, time - IdleAfter)
Command ==
  /\ inbox # <<>> /\ expiring = {} /\ inbox' = Tail(inbox)
  /\ LET c == Head(inbox) IN
     CASE c.kind = "create" -> Created(c.id) \/ FailedCreation(c.id)
       [] OTHER -> UNCHANGED <<entries, boxes, folders>> \* an order: the account's, or refused as unknown
  /\ UNCHANGED <<creations, time, drawn, expiring>>

(* The engine's turn: the ids idle now ... *)
Expire == expiring = {} /\ Expired # {} /\ expiring' = Expired
          /\ UNCHANGED <<entries, creations, time, drawn, inbox, boxes, folders>>
(* ... each leaves the desk, and gives its place back when its directory is gone;
   one that cannot be removed is tried again in a later turn. *)
RemoveOne == \E i \in expiring :
  /\ boxes' = boxes \ {i} /\ expiring' = expiring \ {i}
  /\ \/ folders' = folders \ {i} /\ entries' = Without(i)
     \/ i \in folders /\ UNCHANGED <<folders, entries>>
  /\ UNCHANGED <<creations, time, drawn, inbox>>

Advance == time < MaxTime /\ time' = time + 1
           /\ UNCHANGED <<entries, creations, drawn, inbox, boxes, folders, expiring>>

Init == /\ entries = <<>> /\ creations = <<>> /\ time = 0 /\ drawn = {} /\ inbox = <<>>
        /\ boxes = {} /\ folders = {} /\ expiring = {}

Next == Reserve \/ Order \/ Command \/ Expire \/ RemoveOne \/ Advance

(* The disk never holds more sandboxes than the capacity, and none outlives its
   entry: an account or a directory without one would never be expired, whatever
   creations and removals failed. *)
NoSandboxOrphaned == boxes \cup folders \subseteq Taken /\ Cardinality(folders) <= Capacity
=============================================================================
