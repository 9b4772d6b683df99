---------------------------- MODULE FileJournal -----------------------------
(***************************************************************************)
(* The hash-chained account journal (src/trading/journal.cpp): one writer  *)
(* appends a line per transaction, syncs it at once or batched, latches    *)
(* every failure, and is recovered after a process crash or a power loss.  *)
(*                                                                         *)
(* A line is [seq, time, prev, hash]; the hash of a record is its own      *)
(* identity, so equal hashes mean equal records.  An append is a sequence  *)
(* of steps, for a crash can fall between any two of them: begin, partial  *)
(* writes, the complete line, the sync, the bookkeeping.                   *)
(*                                                                         *)
(* External: a sync makes every line written before it survive a power     *)
(* loss, and a power loss keeps some prefix of what was written.           *)
(***************************************************************************)
EXTENDS Integers, Sequences

CONSTANTS
  Policies,      \* sync policies a journal may have: TRUE is SyncPolicy::PerRecord,
                 \* of live accounts, FALSE is Batched, of replays
  Interval,      \* sync_interval, in ticks of the steady clock
  Times,         \* transaction times a caller may pass
  MaxRecords,    \* bound: records begun per behaviour
  MaxClock,      \* bound: the steady clock
  MaxRestarts    \* bound: crashes, power losses and closes

ASSUME JournalAssumption ==
  /\ Policies \subseteq BOOLEAN
  /\ Interval \in Nat
  /\ Times \subseteq Nat
  /\ MaxRecords \in Nat /\ MaxClock \in Nat /\ MaxRestarts \in Nat

VARIABLES
  perRecord,  \* the sync policy of this journal
  exists,     \* the file is there
  lines,      \* its newline-terminated lines, as a reader sees them
  torn,       \* an unterminated suffix follows them
  durable,    \* how many of the lines survive a power loss
  handle,     \* the open FileJournal: closed, or a writer
  step,       \* where the append, flush or repair in progress is
  line,       \* the record being appended
  sequence, head, lastTime,         \* sequence_, head_, last_time_
  failed, pending, synced, lastSync,\* failed_, pending_, synced_, last_sync_
  clock,      \* steady clock
  begun,      \* history: records begun, the source of fresh hashes
  acked,      \* history: records whose append returned
  shown,      \* history: records in the account a caller was shown
  opened,     \* history: lines found when the handle was opened
  lastWrite,  \* history: clock of the last complete write
  restarts    \* history: handles lost or closed

file == <<exists, lines, torn, durable>>
position == <<sequence, head, lastTime>>
flags == <<failed, pending, synced, lastSync>>
history == <<begun, acked, shown, opened, lastWrite, restarts>>
vars == <<perRecord, file, handle, step, line, position, flags, clock, history>>

-----------------------------------------------------------------------------
(* Lines and their verification *)

Genesis == 0
Records == [seq : Nat, time : Nat, prev : Nat, hash : Nat]
Damaged == [seq |-> 0, time |-> 0, prev |-> 0, hash |-> 0]

HeadOf(s) == IF s = <<>> THEN Genesis ELSE s[Len(s)].hash
TimeOf(s) == IF s = <<>> THEN 0 ELSE s[Len(s)].time

\* verify_prefix: consecutive sequence numbers, monotone times, chained hashes.
Verifies(s) ==
  \A i \in 1 .. Len(s) :
    /\ s[i].seq = i
    /\ s[i].hash # Genesis
    /\ s[i].prev = (IF i = 1 THEN Genesis ELSE s[i - 1].hash)
    /\ i > 1 => s[i - 1].time <= s[i].time

Hashes(s) == {s[i].hash : i \in 1 .. Len(s)}

-----------------------------------------------------------------------------
(* Opening *)

NoLine == Damaged

Opened(recovered) ==
  /\ handle' = "writer" /\ step' = "idle" /\ line' = NoLine
  /\ sequence' = Len(recovered) /\ head' = HeadOf(recovered) /\ lastTime' = TimeOf(recovered)
  /\ pending' = FALSE /\ synced' = FALSE /\ lastSync' = 0
  /\ opened' = Len(recovered) /\ lastWrite' = clock

\* create: O_EXCL, an empty file, nothing to show yet.
Create ==
  /\ handle = "closed" /\ step = "idle" /\ ~exists
  /\ exists' = TRUE /\ lines' = <<>> /\ torn' = FALSE /\ durable' = 0
  /\ Opened(<<>>) /\ failed' = FALSE
  /\ shown' = {}
  /\ UNCHANGED <<clock, begun, acked, restarts>>

\* Mutation: resume accepts a torn suffix.
ResumesTorn == Verifies(lines)
\* resume refuses a torn suffix and whatever does not verify.
Resumable == ~torn /\ Verifies(lines)

\* resume, then the recovered account is published.
Resume ==
  /\ handle = "closed" /\ step = "idle" /\ exists
  /\ Resumable
  /\ Opened(lines) /\ failed' = FALSE
  /\ shown' = Hashes(lines)
  /\ UNCHANGED <<file, clock, begun, acked, restarts>>

\* inspect: a damaged file is shown at its verified prefix, by a handle that is
\* latched from the start.
Inspect ==
  /\ handle = "closed" /\ step = "idle" /\ exists
  /\ torn /\ Verifies(lines)
  /\ Opened(lines) /\ failed' = TRUE
  /\ shown' = Hashes(lines)
  /\ UNCHANGED <<file, clock, begun, acked, restarts>>

-----------------------------------------------------------------------------
(* append *)

Writable == handle = "writer" /\ ~failed

\* The time is checked and the disk asked for room before anything is written;
\* either refusal latches the journal like any failure.
AppendRefused ==
  /\ Writable /\ step = "idle"
  /\ failed' = TRUE
  /\ UNCHANGED <<file, handle, step, line, position, pending, synced, lastSync, clock,
                 history>>

Appendable == Writable /\ step = "idle"

AppendBegin(time) ==
  /\ Appendable
  /\ time >= lastTime
  /\ begun < MaxRecords
  /\ step' = "writing"
  /\ begun' = begun + 1
  \* A line written behind an unterminated one is part of that line.
  /\ line' = IF torn THEN Damaged
             ELSE [seq |-> sequence + 1, time |-> time, prev |-> head, hash |-> begun + 1]
  /\ UNCHANGED <<file, handle, position, flags, clock, acked, shown, opened, lastWrite, restarts>>

\* write returned short.
WritePart ==
  /\ step = "writing" /\ ~torn
  /\ torn' = TRUE
  /\ UNCHANGED <<exists, lines, durable, handle, step, line, position, flags, clock,
                 history>>

\* write failed, with or without part of the line in the file.
WriteFails ==
  /\ step = "writing"
  /\ failed' = TRUE /\ step' = "idle"
  /\ UNCHANGED <<file, handle, line, position, pending, synced, lastSync, clock, history>>

\* Mutation: records are never synced at once.
SyncDueBatched == ~synced \/ clock - lastSync >= Interval
SyncDue == perRecord \/ ~synced \/ clock - lastSync >= Interval

WriteDone ==
  /\ step = "writing"
  /\ lines' = Append(lines, line) /\ torn' = FALSE
  /\ pending' = TRUE
  /\ lastWrite' = clock
  /\ step' = IF SyncDue THEN "syncing" ELSE "recording"
  /\ UNCHANGED <<exists, durable, handle, line, position, failed, synced, lastSync, clock,
                 begun, acked, shown, opened, restarts>>

Synced ==
  /\ durable' = Len(lines)
  /\ lastSync' = clock /\ synced' = TRUE /\ pending' = FALSE

SyncDone ==
  /\ step = "syncing"
  /\ Synced
  /\ step' = "recording"
  /\ UNCHANGED <<exists, lines, torn, handle, line, position, failed, clock, history>>

SyncFails ==
  /\ step \in {"syncing", "flushing"}
  /\ failed' = TRUE /\ step' = "idle"
  /\ UNCHANGED <<file, handle, line, position, pending, synced, lastSync, clock, history>>

\* The append returns, and the caller publishes the transaction.
AppendReturns ==
  /\ step = "recording"
  /\ step' = "idle"
  /\ sequence' = sequence + 1 /\ head' = line.hash /\ lastTime' = line.time
  /\ acked' = acked \cup {line.hash}
  /\ shown' = shown \cup {line.hash}
  /\ UNCHANGED <<file, handle, line, flags, clock, begun, opened, lastWrite, restarts>>

-----------------------------------------------------------------------------
(* flush and the destructor *)

FlushBegin ==
  /\ Writable /\ step = "idle" /\ pending
  /\ step' = "flushing"
  /\ UNCHANGED <<file, handle, line, position, flags, clock, history>>

FlushDone ==
  /\ step = "flushing"
  /\ Synced
  /\ step' = "idle"
  /\ UNCHANGED <<exists, lines, torn, handle, line, position, failed, clock, history>>

Lost ==
  /\ handle' = "closed" /\ step' = "idle" /\ line' = NoLine
  /\ restarts' = restarts + 1
  /\ UNCHANGED <<position, flags, clock, begun, acked, shown, opened, lastWrite>>

\* The destructor tries to sync what is pending and closes whatever comes of it.
Close ==
  /\ handle = "writer" /\ step = "idle" /\ restarts < MaxRestarts
  /\ durable' \in {durable} \cup (IF pending /\ ~failed THEN {Len(lines)} ELSE {})
  /\ Lost
  /\ UNCHANGED <<exists, lines, torn>>

-----------------------------------------------------------------------------
(* repair *)

\* The torn original is copied aside and synced before the line is cut.
RepairCopy ==
  /\ handle = "closed" /\ step = "idle" /\ exists
  /\ torn /\ Verifies(lines)
  /\ step' = "cutting"
  /\ UNCHANGED <<file, handle, line, position, flags, clock, history>>

\* Everything up to the last newline.
Kept == lines

RepairCut ==
  /\ step = "cutting"
  /\ torn' = FALSE /\ step' = "cut"
  /\ lines' = Kept
  /\ UNCHANGED <<exists, durable, handle, line, position, flags, clock, history>>

RepairSync ==
  /\ step = "cut"
  /\ durable' = Len(lines) /\ step' = "idle"
  /\ UNCHANGED <<exists, lines, torn, handle, line, position, flags, clock, history>>

\* The repair gives up on an error of the copy, the cut or the sync.
RepairFails ==
  /\ step \in {"cutting", "cut"}
  /\ step' = "idle"
  /\ UNCHANGED <<file, handle, line, position, flags, clock, history>>

-----------------------------------------------------------------------------
(* Crashes *)

\* The process dies: complete and partial writes stay in the file.
Crash ==
  /\ (handle = "writer" \/ step # "idle") /\ restarts < MaxRestarts
  /\ Lost
  /\ UNCHANGED file

\* The machine dies: any prefix that includes what was synced is left.
PowerLoss ==
  /\ exists /\ restarts < MaxRestarts
  /\ \E n \in durable .. Len(lines) :
       /\ lines' = SubSeq(lines, 1, n) /\ durable' = n
       /\ torn' \in (IF torn \/ n < Len(lines) \/ step = "cut" THEN BOOLEAN ELSE {FALSE})
  /\ Lost
  /\ UNCHANGED exists

Tick ==
  /\ clock < MaxClock
  /\ clock' = clock + 1
  /\ UNCHANGED <<file, handle, step, line, position, flags, history>>

-----------------------------------------------------------------------------

Init ==
  /\ perRecord \in Policies
  /\ exists = FALSE /\ lines = <<>> /\ torn = FALSE /\ durable = 0
  /\ handle = "closed" /\ step = "idle" /\ line = NoLine
  /\ sequence = 0 /\ head = Genesis /\ lastTime = 0
  /\ failed = FALSE /\ pending = FALSE /\ synced = FALSE /\ lastSync = 0
  /\ clock = 0
  /\ begun = 0 /\ acked = {} /\ shown = {} /\ opened = 0
  /\ lastWrite = 0 /\ restarts = 0

Step ==
  \/ Create \/ Resume \/ Inspect
  \/ AppendRefused \/ (\E time \in Times : AppendBegin(time))
  \/ WritePart \/ WriteFails \/ WriteDone \/ SyncDone \/ SyncFails \/ AppendReturns
  \/ FlushBegin \/ FlushDone \/ Close
  \/ RepairCopy \/ RepairCut \/ RepairSync \/ RepairFails
  \/ Crash \/ PowerLoss \/ Tick

Next == Step /\ UNCHANGED perRecord

Spec == Init /\ [][Next]_vars

-----------------------------------------------------------------------------
(* Properties *)

\* Every variable keeps its type.
TypeOK ==
  /\ perRecord \in BOOLEAN /\ exists \in BOOLEAN /\ torn \in BOOLEAN
  /\ lines \in Seq(Records)
  /\ durable \in Nat
  /\ handle \in {"closed", "writer"}
  /\ step \in {"idle", "writing", "syncing", "recording", "flushing", "cutting", "cut"}
  /\ line \in Records
  /\ sequence \in Nat /\ head \in Nat /\ lastTime \in Nat
  /\ failed \in BOOLEAN /\ pending \in BOOLEAN /\ synced \in BOOLEAN
  /\ lastSync \in Nat /\ clock \in Nat
  /\ begun \in Nat /\ acked \subseteq Nat /\ shown \subseteq Nat
  /\ opened \in Nat /\ lastWrite \in Nat /\ restarts \in Nat

\* Whatever fails or dies wherever, the complete lines verify: damage is never
\* anything but an unterminated last line, so recovery always has the records.
ChainIntact == Verifies(lines)

\* A writer that has not failed stands exactly at the end of the file.
WriterAtTheEnd ==
  (Writable /\ step = "idle") =>
    /\ ~torn
    /\ sequence = Len(lines) /\ head = HeadOf(lines) /\ lastTime = TimeOf(lines)

\* Under per-record sync a record whose append returned is in the file and on
\* disk, after any crash, power loss, failed write or repair.
AckedDurable == perRecord => acked \subseteq Hashes(SubSeq(lines, 1, durable))

=============================================================================
