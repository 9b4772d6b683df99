---------------------------- MODULE Notifications ----------------------------
(***************************************************************************)
(* Outbound notifications (src/server/notifications.cpp): the engine's     *)
(* thread observes each account and publishes what changed; web threads    *)
(* test, reconfigure and forget; one worker takes a message out of the     *)
(* bounded queue, sends it outside the mutex, and puts it back to be tried *)
(* again.  Which queued message is due is a matter of clocks and rate      *)
(* limits: any may be.                                                     *)
(***************************************************************************)
EXTENDS Naturals, FiniteSets, Sequences, SequencesExt

CONSTANTS Channels, Traders,   \* the configured channels, the accounts observed
          NoteCapacity,        \* capacity_
          MaxAttempts          \* 4: sends of one message

Kinds == {"fill", "floor"}

VARIABLES
  settings,   \* channels_: [enabled, events] of each
  near,       \* near_floor: the <<channel, account>> pairs inside the warning band
  notes,      \* queue_: messages [channel, kind, account, attempts]
  sending,    \* the message the worker has taken: a sequence of at most one
  telling,    \* the events the running observation has still to publish: [kind, account, room]
  seen,       \* seen_: the accounts observed before
  ended,      \* stopping_, and then that stop() has returned: "no", "stopping", "yes"
  dropped     \* whether anything was dropped

noteVars == <<settings, near, notes, sending, telling, seen, ended, dropped>>

Note(c, kind, a, n) == [channel |-> c, kind |-> kind, account |-> a, attempts |-> n]
Wants(c, kind) == settings[c].enabled /\ (kind = "test" \/ kind \in settings[c].events)

\* Mutation: the message in flight is not counted.
RoomForgets == IF ended = "no" THEN NoteCapacity - Len(notes) ELSE 0

(* enqueue: the message in flight still counts against the capacity. *)
Room == IF ended = "no" THEN NoteCapacity - Len(notes) - Len(sending) ELSE 0
Fitting(messages) == IF Len(messages) <= Room THEN messages ELSE SubSeq(messages, 1, Room)
Enqueue(messages) ==
  /\ notes' = notes \o Fitting(messages)
  /\ dropped' = (dropped \/ Len(Fitting(messages)) < Len(messages))

(* observe, with the accounts' observations one at a time: what changed since the last one is
   told event by event; the first observation, or one of recovered history, only remembers. *)
Observe == \E a \in Traders, fill, history \in BOOLEAN, room \in {"near", "away", "unknown"} :
  /\ telling = <<>> /\ seen' = seen \cup {a}
  /\ telling' = IF history \/ a \notin seen THEN <<>>
                ELSE (IF fill THEN <<[kind |-> "fill", account |-> a, room |-> room]>> ELSE <<>>)
                     \o <<[kind |-> "floor", account |-> a, room |-> room]>>
  /\ UNCHANGED <<settings, near, notes, sending, ended, dropped>>

(* publish, for one event: the floor is a message only to the channels whose account entered the
   band, and an unknown room changes nothing.  The channels' order does not matter. *)
Wanting(kind) == {c \in Channels : Wants(c, kind)}
Informed(e) ==
  {c \in Wanting(e.kind) : e.kind = "floor" => e.room = "near" /\ <<c, e.account>> \notin near}
Latched(e) ==
  CASE e.kind # "floor" \/ e.room = "unknown" -> near
    [] e.kind = "floor" /\ e.room = "near" -> near \cup (Wanting("floor") \X {e.account})
    [] OTHER -> near \ (Wanting("floor") \X {e.account})
Publish ==
  /\ telling # <<>> /\ telling' = Tail(telling)
  /\ \/ ended # "no" /\ UNCHANGED <<near, notes, dropped>>
     \/ /\ ended = "no" /\ near' = Latched(Head(telling))
        /\ \E order \in SetToSeqs(Informed(Head(telling))) :
             Enqueue([i \in DOMAIN order |-> Note(order[i], Head(telling).kind, Head(telling).account, 0)])
  /\ UNCHANGED <<settings, sending, seen, ended>>

(* test: one message to an enabled channel. *)
Test == \E c \in Channels :
  /\ ended = "no" /\ settings[c].enabled /\ Enqueue(<<Note(c, "test", "", 0)>>)
  /\ UNCHANGED <<settings, near, sending, telling, seen, ended>>

(* erase_if: the messages at the places in `kept` stay, in their order. *)
Picks(kept) == {f \in [1..Cardinality(kept) -> kept] : \A j, k \in DOMAIN f : j < k => f[j] < f[k]}
KeepOnly(kept) == \E f \in Picks(kept) : notes' = [k \in DOMAIN f |-> notes[f[k]]]

(* configure: queued messages follow the new filters too. *)
Configure == \E c \in Channels, enabled \in BOOLEAN, events \in SUBSET Kinds :
  /\ settings' = [settings EXCEPT ![c] = [enabled |-> enabled, events |-> events]]
  /\ settings' # settings
  /\ near' = {p \in near : p[1] # c}
  /\ KeepOnly({i \in DOMAIN notes : notes[i].channel = c => enabled /\ notes[i].kind \in events \cup {"test"}})
  /\ UNCHANGED <<sending, telling, seen, ended, dropped>>

(* remove_account: an account is forgotten, between observations, and if it was deleted its
   queued messages with it. *)
Forget == \E a \in Traders, discard \in BOOLEAN :
  /\ telling = <<>> /\ seen' = seen \ {a} /\ near' = {p \in near : p[2] # a}
  /\ KeepOnly({i \in DOMAIN notes : discard => notes[i].account # a})
  /\ UNCHANGED <<settings, sending, telling, ended, dropped>>

(* deliver_one takes a message that is due and sends it with the lock released ... *)
Take == \E i \in 1..Len(notes) :
  /\ ended = "no" /\ sending = <<>>
  /\ sending' = <<notes[i]>> /\ notes' = RemoveAt(notes, i)
  /\ UNCHANGED <<settings, near, telling, seen, ended, dropped>>

(* ... and a failure that may pass is tried again, if the channel still wants it. *)
Again(m) == m.attempts + 1 < MaxAttempts /\ ended = "no" /\ Wants(m.channel, m.kind)
Settle == \E outcome \in {"delivered", "refused", "later"} :
  /\ sending # <<>> /\ sending' = <<>>
  /\ LET m == Head(sending) IN
     notes' = IF outcome = "later" /\ Again(m) THEN Append(notes, Note(m.channel, m.kind, m.account, m.attempts + 1))
              ELSE notes
  /\ UNCHANGED <<settings, near, telling, seen, ended, dropped>>

(* stop: no more is taken or queued; the worker finishes its send and what is left is dropped. *)
StopNotes == ended = "no" /\ ended' = "stopping" /\ UNCHANGED <<settings, near, notes, sending, telling, seen, dropped>>
Stopped ==
  /\ ended = "stopping" /\ sending = <<>> /\ ended' = "yes" /\ notes' = <<>>
  /\ dropped' = (dropped \/ notes # <<>>) /\ UNCHANGED <<settings, near, sending, telling, seen>>

Init ==
  /\ settings = [c \in Channels |-> [enabled |-> TRUE, events |-> Kinds]]
  /\ near = {} /\ notes = <<>> /\ sending = <<>> /\ ended = "no" /\ dropped = FALSE
  /\ telling = <<>> /\ seen = {}
Next == Observe \/ Publish \/ Test \/ Configure \/ Forget \/ Take \/ Settle \/ StopNotes \/ Stopped

(* Whatever is reconfigured, forgotten or stopped while a message is in flight,
   the queue never outgrows its capacity, holds nothing its channel's current
   settings exclude, and is empty once stop has returned. *)
QueueKept ==
  /\ Len(notes) + Len(sending) <= NoteCapacity
  /\ \A i \in 1..Len(notes) : Wants(notes[i].channel, notes[i].kind)
  /\ ended = "yes" => notes = <<>> /\ sending = <<>>
=============================================================================
