------------------------- MODULE FileJournalProofs -------------------------
(***************************************************************************)
(* Proofs about the account journal, for every bound, interval and set of  *)
(* times; about the catalogue of playbooks, for every setup; and about the *)
(* lock on a journal's path, for any number of processes and files.  The   *)
(* journal's strengthening IInv says where the file stands relative to the *)
(* step the writer is in: in "writing" the line under construction fits    *)
(* the end of the file, from "syncing" on it is the end of the file.  The  *)
(* catalogue's is Consistent, of Playbooks.                                *)
(*                                                                         *)
(* The lock's says that a process past its lock still holds it, that one   *)
(* past its check has the file the path names, and that a verified rewrite *)
(* stays equal to the journal until it is installed: the only process that *)
(* could change either is the one that verified it.                        *)
(***************************************************************************)
EXTENDS Outliving, JournalLock, FiniteSetTheorems, SequenceTheorems, WellFoundedInduction, TLAPS

USE DEF Genesis

AtTheEnd(s) ==
  /\ sequence = Len(s) /\ head = HeadOf(s) /\ lastTime = TimeOf(s)

\* r extends the chain s.
Fits(s, r) ==
  /\ r.seq = Len(s) + 1 /\ r.hash # Genesis
  /\ r.prev = HeadOf(s) /\ r.time >= TimeOf(s)

Resting ==
  (handle = "writer" /\ ~failed /\ step \in {"idle", "flushing"}) => ~torn /\ AtTheEnd(lines)

Writing ==
  step = "writing" =>
    /\ handle = "writer" /\ ~failed
    /\ AtTheEnd(lines) /\ Fits(lines, line)

Written ==
  step \in {"syncing", "recording"} =>
    /\ handle = "writer" /\ ~failed /\ ~torn
    /\ Len(lines) > 0 /\ lines[Len(lines)] = line /\ sequence + 1 = Len(lines)

Placed ==
  /\ durable <= Len(lines)
  /\ ~exists => lines = <<>> /\ handle = "closed" /\ step = "idle"
  /\ step = "flushing" => handle = "writer" /\ ~failed
  /\ step \in {"cutting", "cut"} => handle = "closed"

IInv == TypeOK /\ ChainIntact /\ Resting /\ Writing /\ Written /\ Placed

-----------------------------------------------------------------------------
(* Chains *)

\* A line that fits the end of a verified file keeps it verified.
LEMMA AppendVerifies ==
  ASSUME NEW s \in Seq(Records), NEW r \in Records, Verifies(s), Fits(s, r)
  PROVE  Verifies(Append(s, r))
<1> DEFINE t == Append(s, r)
<1>1. Len(s) \in Nat /\ Len(t) = Len(s) + 1
  OBVIOUS
<1>2. \A i \in 1 .. Len(s) : t[i] = s[i]
  OBVIOUS
<1>3. t[Len(s) + 1] = r
  OBVIOUS
<1> SUFFICES ASSUME NEW i \in 1 .. Len(t)
             PROVE  /\ t[i].seq = i
                    /\ t[i].hash # Genesis
                    /\ t[i].prev = (IF i = 1 THEN Genesis ELSE t[i - 1].hash)
                    /\ i > 1 => t[i - 1].time <= t[i].time
  BY DEF Verifies
<1> HIDE DEF t
<1>4. CASE i <= Len(s)
  <2>1. i \in 1 .. Len(s) /\ (i > 1 => i - 1 \in 1 .. Len(s))
    BY <1>1, <1>4
  <2>2. t[i] = s[i] /\ (i > 1 => t[i - 1] = s[i - 1])
    BY <1>2, <2>1
  <2> QED
    BY <2>1, <2>2, Verifies(s) DEF Verifies
<1>5. CASE i = Len(s) + 1 /\ Len(s) = 0
  <2>1. s = <<>>
    BY <1>5
  <2> QED
    BY <1>3, <1>5, <2>1, Fits(s, r) DEF Fits, HeadOf
<1>6. CASE i = Len(s) + 1 /\ Len(s) > 0
  <2>1. s # <<>> /\ i - 1 = Len(s) /\ i # 1 /\ Len(s) \in 1 .. Len(s)
    BY <1>1, <1>6
  <2>2. t[i - 1] = s[Len(s)] /\ t[i] = r
    BY <1>2, <1>3, <1>6, <2>1
  <2>3. HeadOf(s) = s[Len(s)].hash /\ TimeOf(s) = s[Len(s)].time
    BY <2>1 DEF HeadOf, TimeOf
  <2>4. s[Len(s)] \in Records
    BY <2>1
  <2> QED
    BY <1>6, <2>1, <2>2, <2>3, <2>4, Fits(s, r) DEF Fits, Records
<1> QED
  BY <1>1, <1>4, <1>5, <1>6

\* What a power loss leaves of a verified file is verified.
LEMMA PrefixVerifies ==
  ASSUME NEW s \in Seq(Records), NEW n \in 0 .. Len(s), Verifies(s)
  PROVE  /\ SubSeq(s, 1, n) \in Seq(Records) /\ Len(SubSeq(s, 1, n)) = n
         /\ Verifies(SubSeq(s, 1, n))
<1> DEFINE t == SubSeq(s, 1, n)
<1>1. t \in Seq(Records) /\ Len(t) = n /\ \A i \in 1 .. n : t[i] = s[i]
  OBVIOUS
<1> HIDE DEF t
<1>2. ASSUME NEW i \in 1 .. Len(t)
      PROVE  /\ t[i].seq = i
             /\ t[i].hash # Genesis
             /\ t[i].prev = (IF i = 1 THEN Genesis ELSE t[i - 1].hash)
             /\ i > 1 => t[i - 1].time <= t[i].time
  <2>1. i \in 1 .. Len(s) /\ i \in 1 .. n /\ (i > 1 => i - 1 \in 1 .. n)
    BY <1>1
  <2>2. t[i] = s[i] /\ (i > 1 => t[i - 1] = s[i - 1])
    BY <1>1, <2>1
  <2> QED
    BY <2>1, <2>2, Verifies(s) DEF Verifies
<1>3. Verifies(t)
  BY <1>2 DEF Verifies
<1> QED
  BY <1>1, <1>3 DEF t

LEMMA EndTypes ==
  ASSUME NEW s \in Seq(Records)
  PROVE  HeadOf(s) \in Nat /\ TimeOf(s) \in Nat
<1>1. CASE s = <<>>
  BY <1>1 DEF HeadOf, TimeOf
<1>2. CASE s # <<>>
  <2>1. Len(s) \in 1 .. Len(s)
    BY <1>2
  <2>2. s[Len(s)] \in Records
    BY <2>1
  <2> QED
    BY <1>2, <2>2 DEF HeadOf, TimeOf, Records
<1> QED
  BY <1>1, <1>2

LEMMA NoLineTypes == NoLine \in Records /\ <<>> \in Seq(Records)
<1>1. NoLine \in Records
  BY DEF NoLine, Damaged, Records
<1>2. <<>> \in Seq(Records)
  OBVIOUS
<1> QED
  BY <1>1, <1>2

-----------------------------------------------------------------------------
(* The inductive invariant *)

LEMMA InitInvariant == Init => IInv
<1> SUFFICES ASSUME Init PROVE IInv
  OBVIOUS
<1>0. perRecord \in BOOLEAN
  BY JournalAssumption DEF Init, JournalAssumption
<1>1. TypeOK
  BY <1>0, NoLineTypes DEF Init, TypeOK
<1>2. ChainIntact
  BY DEF Init, ChainIntact, Verifies
<1> QED
  BY <1>1, <1>2 DEF Init, IInv, Resting, Writing, Written, Placed

\* Opening a verified file puts the writer at its end.
LEMMA OpenInvariant ==
  ASSUME IInv, UNCHANGED perRecord, JournalAssumption, Create \/ Resume \/ Inspect
  PROVE  IInv'
<1>1. CASE Create
  <2>1. TypeOK'
    <3>1. Len(<<>>) = 0 /\ HeadOf(<<>>) = 0 /\ TimeOf(<<>>) = 0
      BY DEF HeadOf, TimeOf
    <3>2. /\ line' \in Records /\ lines' \in Seq(Records)
          /\ sequence' \in Nat /\ head' \in Nat /\ lastTime' \in Nat /\ opened' \in Nat
      BY <1>1, <3>1, NoLineTypes DEF Create, Opened
    <3> QED
      BY <1>1, <3>2 DEF IInv, TypeOK, Create, Opened
  <2>2. ChainIntact'
    BY <1>1 DEF Create, ChainIntact, Verifies
  <2>3. Resting' /\ Writing' /\ Written' /\ Placed'
    BY <1>1 DEF IInv, Create, Opened, Resting, Writing, Written, Placed, AtTheEnd, HeadOf, TimeOf
  <2> QED
    BY <2>1, <2>2, <2>3 DEF IInv
<1>2. CASE Resume \/ Inspect
  <2>1. /\ lines \in Seq(Records) /\ Len(lines) \in Nat
        /\ HeadOf(lines) \in Nat /\ TimeOf(lines) \in Nat
    BY EndTypes DEF IInv, TypeOK
  <2>2. Hashes(lines) \subseteq Nat
    <3> SUFFICES ASSUME NEW i \in 1 .. Len(lines) PROVE lines[i].hash \in Nat
      BY DEF Hashes
    <3>1. lines[i] \in Records
      BY <2>1
    <3> QED
      BY <3>1 DEF Records
  <2>3. TypeOK'
    <3>1. /\ line' \in Records /\ shown' \subseteq Nat
          /\ sequence' \in Nat /\ head' \in Nat /\ lastTime' \in Nat /\ opened' \in Nat
      BY <1>2, <2>1, <2>2, NoLineTypes DEF Resume, Inspect, Opened
    <3>2. CASE Resume
      BY <3>1, <3>2 DEF IInv, TypeOK, Resume, Opened, file
    <3>3. CASE Inspect
      BY <3>1, <3>3 DEF IInv, TypeOK, Inspect, Opened, file
    <3> QED
      BY <1>2, <3>2, <3>3
  <2>4. ChainIntact'
    BY <1>2 DEF IInv, Resume, Inspect, ChainIntact, file, Verifies
  <2>5. Resting' /\ Writing' /\ Written' /\ Placed'
    BY <1>2, <2>1 DEF IInv, Resume, Resumable, Inspect, Opened, file, Resting, Writing, Written, Placed,
                      AtTheEnd, HeadOf, TimeOf
  <2> QED
    BY <2>3, <2>4, <2>5 DEF IInv
<1> QED
  BY <1>1, <1>2

\* The steps of an append keep the file verified and the writer placed.
LEMMA AppendInvariant ==
  ASSUME IInv, JournalAssumption, UNCHANGED perRecord,
         \/ AppendRefused \/ (\E time \in Times : AppendBegin(time))
         \/ WritePart \/ WriteFails \/ WriteDone \/ SyncDone \/ SyncFails \/ AppendReturns
  PROVE  IInv'
<1> USE DEF file, position, flags, history
<1>0. /\ lines \in Seq(Records) /\ Len(lines) \in Nat /\ line \in Records
      /\ HeadOf(lines) \in Nat /\ TimeOf(lines) \in Nat
  BY EndTypes DEF IInv, TypeOK
<1>1. CASE AppendRefused
  BY <1>1 DEF AppendRefused, IInv, TypeOK, ChainIntact, Verifies, Resting, Writing, Written, Placed,
              AtTheEnd, Fits, HeadOf, TimeOf
<1>2. ASSUME NEW time \in Times, AppendBegin(time) PROVE IInv'
  <2>1. /\ ~torn /\ AtTheEnd(lines) /\ handle = "writer" /\ ~failed
        /\ time \in Nat
    BY <1>2, JournalAssumption DEF AppendBegin, Appendable, Writable, IInv, Resting, JournalAssumption
  <2>2. line' = [seq |-> sequence + 1, time |-> time, prev |-> head, hash |-> begun + 1]
    BY <1>2, <2>1 DEF AppendBegin
  <2>3. line' \in Records
    BY <2>1, <2>2 DEF IInv, TypeOK, Records
  <2>4. TypeOK'
    BY <1>2, <2>3 DEF AppendBegin, IInv, TypeOK
  <2>5. ChainIntact'
    BY <1>2 DEF AppendBegin, IInv, ChainIntact, Verifies
  <2>6. AtTheEnd(lines)' /\ Fits(lines, line)'
    BY <1>2, <2>1, <2>2 DEF AppendBegin, AtTheEnd, Fits, HeadOf, TimeOf, IInv, TypeOK
  <2>7. Resting' /\ Writing' /\ Written' /\ Placed'
    BY <1>2, <2>1, <2>6 DEF AppendBegin, IInv, Resting, Writing, Written, Placed
  <2> QED
    BY <2>4, <2>5, <2>7 DEF IInv
<1>3. CASE WritePart \/ WriteFails
  <2>1. CASE WritePart
    <3>1. TypeOK' /\ ChainIntact'
      BY <2>1 DEF WritePart, IInv, TypeOK, ChainIntact, Verifies
    <3> QED
      BY <2>1, <3>1 DEF WritePart, IInv, Resting, Writing, Written, Placed, AtTheEnd, Fits, HeadOf, TimeOf
  <2>2. CASE WriteFails
    <3>1. TypeOK' /\ ChainIntact'
      BY <2>2 DEF WriteFails, IInv, TypeOK, ChainIntact, Verifies
    <3> QED
      BY <2>2, <3>1 DEF WriteFails, IInv, Resting, Writing, Written, Placed
  <2> QED
    BY <1>3, <2>1, <2>2
<1>4. CASE WriteDone
  <2>1. /\ handle = "writer" /\ ~failed /\ AtTheEnd(lines) /\ Fits(lines, line)
        /\ exists /\ durable <= Len(lines)
    BY <1>4 DEF WriteDone, IInv, Writing, Placed
  <2>2. /\ lines' = Append(lines, line) /\ lines' \in Seq(Records) /\ Len(lines') = Len(lines) + 1
        /\ lines'[Len(lines')] = line
    BY <1>0, <1>4 DEF WriteDone
  <2>3. Verifies(lines')
    BY <1>0, <2>1, <2>2, AppendVerifies DEF IInv, ChainIntact
  <2>4. ChainIntact'
    BY <2>3 DEF ChainIntact, Verifies
  <2>5. TypeOK'
    BY <1>4, <2>2 DEF WriteDone, IInv, TypeOK
  <2>6. step' \in {"syncing", "recording"} /\ ~torn'
    BY <1>4 DEF WriteDone
  <2>7. Resting' /\ Writing'
    BY <2>6 DEF Resting, Writing
  <2>8. Written'
    BY <1>0, <1>4, <2>1, <2>2, <2>6 DEF WriteDone, Written, AtTheEnd
  <2>9. Placed'
    BY <1>0, <1>4, <2>1, <2>2, <2>6 DEF WriteDone, Placed, IInv, TypeOK
  <2> QED
    BY <2>4, <2>5, <2>7, <2>8, <2>9 DEF IInv
<1>5. CASE SyncDone
  <2>1. TypeOK'
    BY <1>0, <1>5 DEF SyncDone, Synced, IInv, TypeOK
  <2>2. ChainIntact'
    BY <1>5 DEF SyncDone, IInv, ChainIntact, Verifies
  <2> QED
    BY <1>0, <1>5, <2>1, <2>2 DEF SyncDone, Synced, IInv, Resting, Writing, Written, Placed
<1>6. CASE SyncFails
  <2>1. TypeOK' /\ ChainIntact'
    BY <1>6 DEF SyncFails, IInv, TypeOK, ChainIntact, Verifies
  <2> QED
    BY <1>6, <2>1 DEF SyncFails, IInv, Resting, Writing, Written, Placed
<1>7. CASE AppendReturns
  <2>1. /\ handle = "writer" /\ ~failed /\ ~torn /\ Len(lines) > 0 /\ lines[Len(lines)] = line
        /\ sequence + 1 = Len(lines)
    BY <1>7 DEF AppendReturns, IInv, Written
  <2>2. line.hash \in Nat /\ line.time \in Nat
    BY <1>0 DEF Records
  <2>3. TypeOK'
    <3>1. acked' \subseteq Nat /\ shown' \subseteq Nat
      BY <1>7, <2>2 DEF AppendReturns, IInv, TypeOK
    <3>2. sequence' \in Nat /\ head' \in Nat /\ lastTime' \in Nat
      BY <1>7, <2>2 DEF AppendReturns, IInv, TypeOK
    <3> QED
      BY <1>7, <3>1, <3>2 DEF AppendReturns, IInv, TypeOK
  <2>4. ChainIntact'
    BY <1>7 DEF AppendReturns, IInv, ChainIntact, Verifies
  <2>5. HeadOf(lines) = line.hash /\ TimeOf(lines) = line.time
    BY <1>0, <2>1 DEF HeadOf, TimeOf
  <2>6. AtTheEnd(lines)'
    BY <1>7, <2>1, <2>5 DEF AppendReturns, AtTheEnd, HeadOf, TimeOf
  <2>7. Resting' /\ Writing' /\ Written' /\ Placed'
    BY <1>7, <2>1, <2>6 DEF AppendReturns, IInv, Resting, Writing, Written, Placed
  <2> QED
    BY <2>3, <2>4, <2>7 DEF IInv
<1> QED
  BY <1>1, <1>2, <1>3, <1>4, <1>5, <1>6, <1>7

\* So do flush, destruction and repair.
LEMMA UpkeepInvariant ==
  ASSUME IInv, UNCHANGED perRecord,
         \/ FlushBegin \/ FlushDone \/ Close
         \/ RepairCopy \/ RepairCut \/ RepairSync \/ RepairFails \/ Tick
  PROVE  IInv'
<1> USE DEF file, position, flags, history
<1>0. lines \in Seq(Records) /\ Len(lines) \in Nat
  BY DEF IInv, TypeOK
<1>1. lines' = lines /\ exists' = exists
  BY DEF FlushBegin, FlushDone, Close, RepairCopy, RepairCut, RepairSync, RepairFails, Tick, Kept
<1>2. ChainIntact'
  BY <1>1 DEF IInv, ChainIntact, Verifies
<1>3. CASE FlushBegin \/ RepairCopy \/ RepairFails \/ Tick
  <2>1. TypeOK'
    <3>1. CASE FlushBegin \/ RepairCopy \/ RepairFails
      BY <3>1 DEF FlushBegin, RepairCopy, RepairFails, IInv, TypeOK
    <3>2. CASE Tick
      BY <3>2 DEF Tick, IInv, TypeOK
    <3> QED
      BY <1>3, <3>1, <3>2
  <2>2. Resting' /\ Writing' /\ Written' /\ Placed'
    BY <1>3 DEF FlushBegin, Writable, RepairCopy, RepairFails, Tick, IInv, Resting, Writing, Written, Placed,
                AtTheEnd, Fits, HeadOf, TimeOf
  <2> QED
    BY <1>2, <2>1, <2>2 DEF IInv
<1>4. CASE FlushDone
  <2>1. TypeOK'
    BY <1>0, <1>4 DEF FlushDone, Synced, IInv, TypeOK
  <2>2. Resting' /\ Writing' /\ Written' /\ Placed'
    BY <1>0, <1>4 DEF FlushDone, Synced, IInv, Resting, Writing, Written, Placed, AtTheEnd, HeadOf, TimeOf
  <2> QED
    BY <1>2, <2>1, <2>2 DEF IInv
<1>5. CASE Close
  <2>1. durable' \in Nat /\ durable' <= Len(lines)
    BY <1>0, <1>5 DEF Close, IInv, TypeOK, Placed
  <2>2. TypeOK'
    BY <1>5, <2>1 DEF Close, Lost, IInv, TypeOK, NoLine, Damaged, Records
  <2>3. Resting' /\ Writing' /\ Written' /\ Placed'
    BY <1>1, <1>5, <2>1 DEF Close, Lost, IInv, Resting, Writing, Written, Placed
  <2> QED
    BY <1>2, <2>2, <2>3 DEF IInv
<1>6. CASE RepairCut \/ RepairSync
  <2>1. TypeOK'
    BY <1>0, <1>1, <1>6 DEF RepairCut, RepairSync, IInv, TypeOK
  <2>2. handle' = "closed" /\ step' \in {"cut", "idle"} /\ exists
    BY <1>6 DEF RepairCut, RepairSync, IInv, Placed
  <2>3. Resting' /\ Writing' /\ Written'
    BY <2>2 DEF Resting, Writing, Written
  <2>4. Placed'
    BY <1>0, <1>1, <1>6, <2>2 DEF RepairCut, RepairSync, IInv, Placed, TypeOK
  <2> QED
    BY <1>2, <2>1, <2>3, <2>4 DEF IInv
<1> QED
  BY <1>3, <1>4, <1>5, <1>6

\* And a process crash or a power loss at any point.
LEMMA CrashInvariant ==
  ASSUME IInv, UNCHANGED perRecord, Crash \/ PowerLoss
  PROVE  IInv'
<1> USE DEF file, position, flags, history
<1>1. CASE Crash
  <2>1. TypeOK' /\ ChainIntact'
    BY <1>1 DEF Crash, Lost, IInv, TypeOK, ChainIntact, Verifies, NoLine, Damaged, Records
  <2> QED
    BY <1>1, <2>1 DEF Crash, Lost, IInv, Resting, Writing, Written, Placed
<1>2. CASE PowerLoss
  <2>0. lines \in Seq(Records) /\ Len(lines) \in Nat /\ durable \in Nat /\ durable <= Len(lines)
    BY DEF IInv, TypeOK, Placed
  <2>1. PICK n \in durable .. Len(lines) :
          /\ lines' = SubSeq(lines, 1, n) /\ durable' = n
          /\ torn' \in (IF torn \/ n < Len(lines) \/ step = "cut" THEN BOOLEAN ELSE {FALSE})
    BY <1>2 DEF PowerLoss
  <2>2. n \in 0 .. Len(lines)
    BY <2>0, <2>1
  <2>3. lines' \in Seq(Records) /\ Len(lines') = n /\ Verifies(lines')
    BY <2>0, <2>1, <2>2, PrefixVerifies DEF IInv, ChainIntact
  <2>4. ChainIntact'
    BY <2>3 DEF ChainIntact, Verifies
  <2>5. torn' \in BOOLEAN
    BY <2>1
  <2>6. TypeOK'
    <3>1. durable' \in Nat /\ line' \in Records /\ restarts' \in Nat
      BY <1>2, <2>1, <2>2, NoLineTypes DEF PowerLoss, Lost, IInv, TypeOK
    <3> QED
      BY <1>2, <2>3, <2>5, <3>1 DEF PowerLoss, Lost, IInv, TypeOK
  <2>7. Resting' /\ Writing' /\ Written'
    BY <1>2 DEF PowerLoss, Lost, Resting, Writing, Written
  <2>8. Placed'
    BY <1>2, <2>1, <2>2, <2>3 DEF PowerLoss, Lost, Placed
  <2> QED
    BY <2>4, <2>6, <2>7, <2>8 DEF IInv
<1> QED
  BY <1>1, <1>2

LEMMA StutterInvariant == IInv /\ UNCHANGED vars => IInv'
  BY DEF vars, file, position, flags, history, IInv, TypeOK, ChainIntact, Verifies, Resting, Writing, Written,
         Placed, AtTheEnd, Fits, HeadOf, TimeOf

LEMMA NextInvariant == ASSUME IInv, JournalAssumption, [Next]_vars PROVE IInv'
  BY OpenInvariant, AppendInvariant, UpkeepInvariant, CrashInvariant, StutterInvariant DEF Next, Step

\* The strengthened invariant holds of every behaviour of the journal.
THEOREM JournalInvariant == Spec => []IInv
<1>1. IInv /\ [Next]_vars => IInv'
  BY NextInvariant, JournalAssumption
<1> QED
  BY <1>1, InitInvariant, PTL DEF Spec

\* Type correctness of the journal.
THEOREM JournalTypes == Spec => []TypeOK
<1>1. IInv => TypeOK
  BY DEF IInv
<1> QED
  BY <1>1, JournalInvariant, PTL

\* The complete lines of the file verify whatever fails, crashes or is repaired
\* (FileJournal::append, flush, repair, ~FileJournal).
THEOREM ChainAlwaysIntact == Spec => []ChainIntact
<1>1. IInv => ChainIntact
  BY DEF IInv
<1> QED
  BY <1>1, JournalInvariant, PTL

\* A writer that has not latched a failure stands at the end of the file.
THEOREM WriterNeverLost == Spec => []WriterAtTheEnd
<1>1. IInv => WriterAtTheEnd
  BY DEF IInv, Resting, WriterAtTheEnd, Writable, AtTheEnd
<1> QED
  BY <1>1, JournalInvariant, PTL

-----------------------------------------------------------------------------
(* Durability under the live policy *)

\* Synced as far as the step the writer is in says.
Recorded ==
  perRecord /\ step = "recording" => durable = Len(lines)

DurableInv == IInv /\ Recorded /\ AckedDurable

LEMMA HashesGrow ==
  ASSUME NEW s \in Seq(Records), NEW r \in Records, NEW n \in 0 .. Len(s)
  PROVE  Hashes(SubSeq(Append(s, r), 1, n)) = Hashes(SubSeq(s, 1, n))
<1>1. SubSeq(Append(s, r), 1, n) = SubSeq(s, 1, n)
  OBVIOUS
<1> QED
  BY <1>1

\* Hashes of a longer prefix include those of a shorter one.
LEMMA HashesMonotone ==
  ASSUME NEW s \in Seq(Records), NEW m \in 0 .. Len(s), NEW n \in m .. Len(s)
  PROVE  Hashes(SubSeq(s, 1, m)) \subseteq Hashes(SubSeq(s, 1, n))
<1> SUFFICES ASSUME NEW i \in 1 .. Len(SubSeq(s, 1, m))
             PROVE  SubSeq(s, 1, m)[i].hash \in Hashes(SubSeq(s, 1, n))
  BY DEF Hashes
<1>1. Len(SubSeq(s, 1, m)) = m /\ Len(SubSeq(s, 1, n)) = n
  OBVIOUS
<1>2. i \in 1 .. m /\ i \in 1 .. n
  BY <1>1
<1>3. SubSeq(s, 1, m)[i] = s[i] /\ SubSeq(s, 1, n)[i] = s[i]
  BY <1>2
<1> QED
  BY <1>1, <1>2, <1>3 DEF Hashes

LEMMA DurableStep ==
  ASSUME DurableInv, JournalAssumption, [Next]_vars
  PROVE  DurableInv'
<1> USE DEF file, position, flags, history
<1>p. perRecord' = perRecord
  BY DEF Next, vars
<1>s. CASE ~perRecord
  BY <1>p, <1>s, NextInvariant DEF DurableInv, Recorded, AckedDurable
<1> SUFFICES ASSUME perRecord PROVE DurableInv'
  BY <1>s
<1>0. /\ IInv' /\ lines \in Seq(Records) /\ line \in Records
      /\ Len(lines) \in Nat /\ durable \in 0 .. Len(lines)
      /\ acked \subseteq Hashes(SubSeq(lines, 1, durable))
  BY NextInvariant DEF DurableInv, IInv, TypeOK, Placed, AckedDurable
<1>1. CASE Create
  <2>1. lines = <<>>
    BY <1>1 DEF Create, DurableInv, IInv, Placed
  <2> QED
    BY <1>0, <1>1, <2>1 DEF Create, Opened, DurableInv, Recorded, AckedDurable
<1>2. CASE \/ Resume \/ Inspect \/ AppendRefused \/ (\E time \in Times : AppendBegin(time))
           \/ WritePart \/ WriteFails \/ SyncFails \/ FlushBegin \/ RepairCopy \/ RepairCut
           \/ RepairFails \/ Crash \/ Tick \/ UNCHANGED vars
  <2>1. /\ lines' = lines /\ durable' = durable /\ acked' = acked
    BY <1>2 DEF Resume, Inspect, AppendRefused, AppendBegin, WritePart, WriteFails, SyncFails,
                FlushBegin, RepairCopy, RepairCut, Kept, RepairFails, Crash, Lost, Tick, vars
  <2>2. step' # "recording" \/ step' = step
    BY <1>2 DEF Resume, Inspect, Opened, AppendRefused, AppendBegin, WritePart, WriteFails, SyncFails,
                FlushBegin, RepairCopy, RepairCut, RepairFails, Crash, Lost, Tick, vars
  <2> QED
    BY <1>0, <2>1, <2>2 DEF DurableInv, Recorded, AckedDurable
<1>3. CASE WriteDone
  <2>1. lines' = Append(lines, line) /\ durable' = durable /\ acked' = acked /\ step' = "syncing"
    BY <1>3, perRecord DEF WriteDone, SyncDue
  <2>2. Hashes(SubSeq(Append(lines, line), 1, durable)) = Hashes(SubSeq(lines, 1, durable))
    BY <1>0, HashesGrow
  <2>3. AckedDurable'
    BY <1>0, <2>1, <2>2 DEF AckedDurable, Hashes
  <2> QED
    BY <1>0, <2>1, <2>3 DEF DurableInv, Recorded
<1>4. CASE SyncDone \/ FlushDone \/ Close \/ RepairSync
  <2>1. /\ lines' = lines /\ durable' \in {durable, Len(lines)} /\ acked' = acked
        /\ step' = "recording" => durable' = Len(lines)
    BY <1>4 DEF SyncDone, FlushDone, Synced, Close, Lost, RepairSync
  <2>2. Len(lines) \in durable .. Len(lines)
    BY <1>0
  <2>3. /\ Hashes(SubSeq(lines, 1, durable)) \subseteq Hashes(SubSeq(lines, 1, Len(lines)))
    BY <1>0, <2>2, HashesMonotone
  <2>4. AckedDurable'
    <3>1. CASE durable' = durable
      BY <1>0, <2>1, <3>1 DEF AckedDurable, Hashes
    <3>2. CASE durable' = Len(lines)
      <4>1. acked \subseteq Hashes(SubSeq(lines, 1, Len(lines)))
        BY <1>0, <2>3
      <4> QED
        BY <2>1, <3>2, <4>1 DEF AckedDurable, Hashes
    <3> QED
      BY <2>1, <3>1, <3>2
  <2> QED
    BY <1>0, <2>1, <2>4 DEF DurableInv, Recorded
<1>5. CASE AppendReturns
  <2>1. /\ durable = Len(lines) /\ Len(lines) > 0 /\ lines[Len(lines)] = line
        /\ lines' = lines /\ durable' = durable /\ acked' = acked \cup {line.hash} /\ step' = "idle"
    BY <1>5 DEF AppendReturns, DurableInv, Recorded, IInv, Written
  <2>2. SubSeq(lines, 1, durable) = lines
    BY <1>0, <2>1
  <2>3. Len(lines) \in 1 .. Len(lines)
    BY <1>0, <2>1
  <2>4. line.hash \in Hashes(lines)
    BY <2>1, <2>3 DEF Hashes
  <2>5. AckedDurable'
    BY <1>0, <2>1, <2>2, <2>4 DEF AckedDurable, Hashes
  <2> QED
    BY <1>0, <2>1, <2>5 DEF DurableInv, Recorded
<1>6. CASE PowerLoss
  <2>1. PICK n \in durable .. Len(lines) :
          lines' = SubSeq(lines, 1, n) /\ durable' = n
    BY <1>6 DEF PowerLoss
  <2>2. acked' = acked /\ step' = "idle"
    BY <1>6 DEF PowerLoss, Lost
  <2>3. n \in 0 .. Len(lines)
    BY <1>0, <2>1
  <2>4. Hashes(SubSeq(lines, 1, durable)) \subseteq Hashes(SubSeq(lines, 1, n))
    BY <1>0, <2>1, HashesMonotone
  <2>5. SubSeq(SubSeq(lines, 1, n), 1, n) = SubSeq(lines, 1, n)
    BY <1>0, <2>3
  <2>6. AckedDurable'
    BY <1>0, <2>1, <2>2, <2>4, <2>5 DEF AckedDurable, Hashes
  <2> QED
    BY <1>0, <2>2, <2>6 DEF DurableInv, Recorded
<1> QED
  BY <1>1, <1>2, <1>3, <1>4, <1>5, <1>6 DEF Next, Step

\* Under the live policy a record whose append returned is on disk: no process
\* crash, power loss, failed write or repair takes it away.
THEOREM AcknowledgedIsDurable == Spec => []AckedDurable
<1>1. Init => DurableInv
  <2> SUFFICES ASSUME Init PROVE DurableInv
    OBVIOUS
  <2> QED
    BY InitInvariant DEF Init, DurableInv, Recorded, AckedDurable
<1>2. DurableInv /\ [Next]_vars => DurableInv'
  BY DurableStep, JournalAssumption
<1>3. DurableInv => AckedDurable
  BY DEF DurableInv
<1> QED
  BY <1>1, <1>2, <1>3, PTL DEF Spec

-----------------------------------------------------------------------------
(* The catalogue of playbooks, under every setup.  A step of the market, of an evaluation or
   of a reset only moves the record on (Grows), which leaves every verdict of the report on
   earlier entries as it was; a saved change of the catalogue keeps each window covering what
   it covered; and an entry made automatically falls in the one window that runs. *)

Of == DOMAIN Setup

(* A nonempty set of bounded numbers has a largest, which Latest chooses. *)
LEMMA LatestIs ==
  ASSUME NEW name \in Of, NEW S, NEW x \in S, \A y \in S : y <= x, S \subseteq Int
  PROVE  P(name)!Latest(S) = x
<1>1. P(name)!Latest(S) \in S /\ \A y \in S : y <= P(name)!Latest(S)
  BY DEF P!Latest
<1> HIDE DEF P!Latest
<1>2. P(name)!Latest(S) <= x /\ x <= P(name)!Latest(S) /\ P(name)!Latest(S) \in Int /\ x \in Int
  BY <1>1
<1> DEFINE z == P(name)!Latest(S)
<1> HIDE DEF z
<1>3. z <= x /\ x <= z /\ z \in Int /\ x \in Int
  BY <1>2 DEF z
<1>4. z = x
  BY <1>3
<1>5. QED BY <1>4 DEF z

LEMMA LatestBounds ==
  ASSUME NEW name \in Of, NEW S, S \subseteq Nat, S # {}, NEW n \in Nat, \A y \in S : y <= n
  PROVE  P(name)!Latest(S) \in S /\ \A y \in S : y <= P(name)!Latest(S)
<1> DEFINE less == OpToRel(<, Nat)
           Behind == {n - y : y \in S}
<1>1. IsWellFoundedOn(less, Nat) /\ less = {ss \in Nat \X Nat : ss[1] < ss[2]}
  BY NatLessThanWellFounded DEF OpToRel
<1> HIDE DEF less
<1>2. Behind \subseteq Nat /\ Behind # {}
  <2>1. \A y \in S : n - y \in Nat
    OBVIOUS
  <2> QED BY <2>1
<1>3. PICK u \in Behind : \A y \in Behind : ~ (<<y, u>> \in less)
  <2> HIDE DEF Behind
  <2> QED BY <1>1, <1>2, WFMin
<1>4. PICK x \in S : u = n - x
  OBVIOUS
<1>5. ASSUME NEW y \in S PROVE y <= x
  <2>1. <<n - y, u>> \in Nat \X Nat /\ n - y \in Behind
    BY <1>2
  <2>2. ~ (<<n - y, u>>[1] < <<n - y, u>>[2])
    BY <1>1, <1>3, <2>1, Zenon
  <2>3. ~ (n - y < n - x) /\ x \in Nat /\ y \in Nat
    BY <1>4, <2>2
  <2> QED BY <2>3
<1>6. P(name)!Latest(S) = x
  <2>1. S \subseteq Int
    OBVIOUS
  <2> QED BY <1>5, <2>1, LatestIs
<1> QED BY <1>5, <1>6

LEMMA LatestOfTwo ==
  ASSUME NEW name \in Of, NEW a \in Nat, NEW b \in Nat
  PROVE  P(name)!Latest({a, b}) \in Nat /\ a <= P(name)!Latest({a, b}) /\ b <= P(name)!Latest({a, b})
         /\ P(name)!Latest({a, b}) \in {a, b}
<1>1. CASE a <= b
  <2>1. P(name)!Latest({a, b}) = b
    BY <1>1, LatestIs
  <2> QED BY <1>1, <2>1
<1>2. CASE b <= a
  <2>1. P(name)!Latest({a, b}) = a
    BY <1>2, LatestIs
  <2> QED BY <1>2, <2>1
<1> QED BY <1>1, <1>2

LEMMA CardinalityOf ==
  ASSUME NEW name \in Of, NEW S
  PROVE  P(name)!Cardinality(S) = Cardinality(S)
BY DEF P!Cardinality, Cardinality

(* What an order on the record may become: it keeps its version and its time, and a trade
   is closed at the market's time, by itself or by what is not yet on the record. *)
Onward(o, p, i) ==
  /\ p.kind = o.kind /\ p.time = o.time
  /\ o.kind = "entry" =>
       /\ p.version = o.version /\ p.actor = o.actor /\ p.automatic = o.automatic
       /\ p.status = "rejected" <=> o.status = "rejected"
       /\ o.status = "cancelled" => p.status = "cancelled"
       /\ p.opened = o.opened \/ p.opened = market
       /\ \/ p.closed = o.closed /\ p.closedBy = o.closedBy /\ p.lost = o.lost
          \/ /\ o.closed = 0 /\ p.closed = market /\ market > 0
             /\ p.closedBy <= i \/ p.closedBy > Len(orders)

(* A step of an evaluation, of the market or of a reset: orders move on, new ones are of now. *)
Grows(name) ==
  /\ orders' \in Seq(P(name)!EntryOrders \cup P(name)!CloseOrders)
  /\ Len(orders') >= Len(orders)
  /\ \A i \in DOMAIN orders : Onward(orders[i], orders'[i], i)
  /\ \A i \in DOMAIN orders' : i > Len(orders) =>
       /\ orders'[i].time = market
       /\ orders'[i].kind = "entry" =>
            /\ orders'[i].opened <= market /\ orders'[i].closed = 0 /\ orders'[i].closedBy = 0
  /\ attempts' = attempts \/ attempts' = Append(attempts, Len(orders) + 1)
  /\ UNCHANGED <<catalogue, market, feed, priced>>

(* An order is an entry or a close, each with its fields. *)
LEMMA OrderTypes ==
  ASSUME NEW name \in Of, P(name)!PlaybooksTypeOK, NEW i \in DOMAIN orders
  PROVE  /\ i \in 1 .. Len(orders) /\ orders[i].kind \in {"entry", "close"} /\ orders[i].time \in Nat
         /\ orders[i].kind = "entry" =>
              /\ orders[i] \in P(name)!EntryOrders
              /\ orders[i].version \in Nat /\ orders[i].actor \in {"system", "trader"}
              /\ orders[i].automatic \in BOOLEAN
              /\ orders[i].status \in {"working", "filled", "rejected", "cancelled"}
              /\ orders[i].opened \in Nat /\ orders[i].closed \in Nat /\ orders[i].closedBy \in Nat
              /\ orders[i].lost \in BOOLEAN
         /\ orders[i].kind = "close" => orders[i] \in P(name)!CloseOrders
<1>1. i \in 1 .. Len(orders) /\ orders[i] \in P(name)!EntryOrders \cup P(name)!CloseOrders
  BY DEF P!PlaybooksTypeOK
<1>2. CASE orders[i] \in P(name)!EntryOrders
  BY <1>1, <1>2 DEF P!EntryOrders
<1>3. CASE orders[i] \in P(name)!CloseOrders
  BY <1>1, <1>3 DEF P!CloseOrders
<1> QED BY <1>1, <1>2, <1>3

(* The attempt an order belongs to is not changed by a later reset. *)
LEMMA FirstOrderStays ==
  ASSUME NEW name \in Of, P(name)!PlaybooksTypeOK, P(name)!AttemptsInOrder,
         NEW i \in 1 .. Len(orders),
         attempts' = attempts \/ attempts' = Append(attempts, Len(orders) + 1)
  PROVE  P(name)!FirstOrder(i)' = P(name)!FirstOrder(i) /\ P(name)!FirstOrder(i) \in Nat
<1> DEFINE S == {attempts[k] : k \in {j \in DOMAIN attempts : attempts[j] <= i}}
           T == {attempts'[k] : k \in {j \in DOMAIN attempts' : attempts'[j] <= i}}
           last == attempts[Len(attempts)]
<1>1. /\ Len(attempts) \in Nat /\ Len(attempts) >= 1 /\ DOMAIN attempts = 1 .. Len(attempts)
      /\ \A k \in 1 .. Len(attempts) : attempts[k] \in Nat /\ attempts[k] <= last
      /\ attempts[1] = 1 /\ Len(orders) \in Nat /\ last \in Nat
  BY DEF P!PlaybooksTypeOK, P!AttemptsInOrder
<1>2. S \subseteq Nat /\ 1 \in S /\ \A y \in S : y <= i
  BY <1>1
<1>3. i >= last => P(name)!Latest(S) = last
  <2>1. SUFFICES ASSUME i >= last PROVE P(name)!Latest(S) = last
    OBVIOUS
  <2>2. last \in S /\ \A y \in S : y <= last
    BY <1>1, <2>1
  <2>3. S \subseteq Int
    BY <1>2
  <2> HIDE DEF S, last
  <2> QED BY <2>2, <2>3, LatestIs
<1>4. P(name)!FirstOrder(i) = P(name)!Latest(S) /\ P(name)!Latest(S) \in Nat
  <2>1. P(name)!FirstOrder(i) = IF i = 0 \/ i >= last THEN last ELSE P(name)!Latest(S)
    BY DEF P!FirstOrder
  <2>2. P(name)!Latest(S) \in Nat
    <3>0. i \in Nat /\ S # {}
      BY <1>2
    <3> HIDE DEF S
    <3>1. P(name)!Latest(S) \in S
      BY <1>2, <3>0, LatestBounds
    <3> QED BY <1>2, <3>1
  <2> QED BY <1>3, <2>1, <2>2
<1>5. CASE attempts' = attempts
  <2>1. P(name)!FirstOrder(i)' = P(name)!FirstOrder(i)
    BY <1>5 DEF P!FirstOrder, P!Latest
  <2> QED BY <1>4, <2>1
<1>6. CASE attempts' = Append(attempts, Len(orders) + 1)
  <2>1. /\ Len(attempts') = Len(attempts) + 1 /\ attempts'[Len(attempts')] = Len(orders) + 1
        /\ DOMAIN attempts' = 1 .. Len(attempts) + 1
        /\ \A k \in 1 .. Len(attempts) : attempts'[k] = attempts[k]
    BY <1>1, <1>6 DEF P!PlaybooksTypeOK
  <2>2. T = S
    BY <1>1, <2>1
  <2>3. P(name)!FirstOrder(i)' = IF i = 0 \/ i >= Len(orders) + 1 THEN Len(orders) + 1 ELSE P(name)!Latest(T)
    BY <2>1 DEF P!FirstOrder, P!Latest
  <2> HIDE DEF S, T
  <2>4. P(name)!FirstOrder(i)' = P(name)!Latest(S)
    BY <1>1, <2>2, <2>3
  <2> QED BY <1>4, <2>4
<1> QED BY <1>5, <1>6

(* An entry the report found within the guardrails stays so: what the record adds was not
   yet there, and a close in its second leaves it undecided. *)
LEMMA ScoreStays ==
  ASSUME NEW name \in Of, P(name)!PlaybooksTypeOK, P(name)!AttemptsInOrder, P(name)!TimesPassed,
         Grows(name), NEW i \in DOMAIN orders, P(name)!Automatic(i), P(name)!ScoredAsChecked(i)
  PROVE  P(name)!ScoredAsChecked(i)'
<1>0. /\ Len(orders) \in Nat /\ Len(orders') \in Nat /\ i \in 1 .. Len(orders)
      /\ DOMAIN orders = 1 .. Len(orders) /\ DOMAIN orders' = 1 .. Len(orders')
      /\ Len(orders) <= Len(orders') /\ market \in Nat
  <2>1. Len(orders) \in Nat /\ DOMAIN orders = 1 .. Len(orders) /\ market \in Nat
    BY DEF P!PlaybooksTypeOK
  <2>2. orders' \in Seq(P(name)!EntryOrders \cup P(name)!CloseOrders) /\ Len(orders) <= Len(orders')
    BY DEF Grows
  <2>3. Len(orders') \in Nat /\ DOMAIN orders' = 1 .. Len(orders')
    BY <2>2
  <2> QED BY <2>1, <2>2, <2>3
<1>1. ASSUME NEW j \in 1 .. Len(orders)
      PROVE  j \in DOMAIN orders /\ j \in DOMAIN orders' /\ Onward(orders[j], orders'[j], j)
  <2>1. \A k \in DOMAIN orders : Onward(orders[k], orders'[k], k)
    BY DEF Grows
  <2> QED BY <1>0, <2>1
<1>2. orders[i].kind = "entry" /\ orders[i].time > 0 /\ orders[i].time <= market /\ orders[i].time \in Nat
  <2>1. orders[i].kind = "entry"
    BY DEF P!Automatic, P!IsEntry
  <2>2. orders[i].time > 0 /\ orders[i].time <= market
    BY <2>1 DEF P!TimesPassed, P!IsEntry
  <2> QED BY <2>1, <2>2, OrderTypes
<1>3. orders'[i].time = orders[i].time /\ (orders'[i].status = "rejected" <=> orders[i].status = "rejected")
  BY <1>0, <1>1, <1>2 DEF Onward
<1>4. CASE orders[i].status = "rejected"
  BY <1>3, <1>4 DEF P!ScoredAsChecked
<1>5. CASE P(name)!Undecided(i)
  <2>1. PICK j \in 1 .. i - 1 :
          orders[j].kind = "entry" /\ orders[j].closed = orders[i].time /\ orders[j].closedBy <= j
    BY <1>5 DEF P!Undecided, P!IsEntry
  <2>2. j \in 1 .. Len(orders)
    BY <1>0
  <2>3. /\ orders'[j].kind = "entry" /\ orders'[j].closed = orders[j].closed
        /\ orders'[j].closedBy = orders[j].closedBy
    BY <1>1, <1>2, <2>1, <2>2 DEF Onward
  <2>4. P(name)!Undecided(i)'
    BY <1>3, <2>1, <2>3 DEF P!Undecided, P!IsEntry
  <2> QED BY <2>4 DEF P!ScoredAsChecked
<1>6. CASE P(name)!GuardrailsAllow(orders[i].time, i) /\ ~P(name)!Undecided(i)'
  <2> DEFINE t == orders[i].time
             C == P(name)!Considered(i)
             E == P(name)!EntriesOf(P(name)!Day(t), i)
             F == P(name)!EntriesOf(P(name)!Day(t), i)'
  <2>1. P(name)!FirstOrder(i)' = P(name)!FirstOrder(i)
    BY <1>0, FirstOrderStays DEF Grows
  <2>2. P(name)!Considered(i)' = C
    <3>1. C = {j \in DOMAIN orders : orders[j].kind = "entry" /\ j >= P(name)!FirstOrder(i) /\ j < i}
      BY <1>0 DEF P!Considered, P!IsEntry
    <3>2. P(name)!Considered(i)' =
            {j \in DOMAIN orders' : orders'[j].kind = "entry" /\ j >= P(name)!FirstOrder(i)' /\ j < i}
      BY <1>0 DEF P!Considered, P!IsEntry
    <3>3. \A j \in 1 .. Len(orders) : orders'[j].kind = orders[j].kind
      BY <1>1 DEF Onward
    <3>4. {j \in DOMAIN orders' : orders'[j].kind = "entry" /\ j >= P(name)!FirstOrder(i) /\ j < i}
            = {j \in DOMAIN orders : orders[j].kind = "entry" /\ j >= P(name)!FirstOrder(i) /\ j < i}
      BY <1>0, <3>3
    <3> QED BY <2>1, <3>1, <3>2, <3>4
  <2>3. C \subseteq 1 .. i - 1 /\ \A j \in C : j \in 1 .. Len(orders) /\ orders[j].kind = "entry"
    BY <1>0 DEF P!Considered, P!IsEntry
  <2>4. E = {j \in C : orders[j].status \notin {"rejected", "cancelled"} /\ P(name)!Day(orders[j].time) = P(name)!Day(t)}
        /\ F = {j \in C : orders'[j].status \notin {"rejected", "cancelled"} /\ P(name)!Day(orders'[j].time) = P(name)!Day(t)}
    <3>1. P(name)!EntriesOf(P(name)!Day(t), i) =
            {j \in P(name)!Considered(i) : orders[j].status \notin {"rejected", "cancelled"}
                                            /\ P(name)!Day(orders[j].time) = P(name)!Day(t)}
      BY DEF P!EntriesOf
    <3>2. P(name)!EntriesOf(P(name)!Day(t), i)' =
            {j \in P(name)!Considered(i)' : orders'[j].status \notin {"rejected", "cancelled"}
                                             /\ P(name)!Day(orders'[j].time) = P(name)!Day(t)}
      BY <1>3 DEF P!EntriesOf, P!Day
    <3> QED BY <2>2, <3>1, <3>2
  <2>5. F \subseteq E
    <3>1. ASSUME NEW j \in C, orders'[j].status \notin {"rejected", "cancelled"}
          PROVE  orders[j].status \notin {"rejected", "cancelled"} /\ orders'[j].time = orders[j].time
      BY <1>1, <2>3, <3>1 DEF Onward
    <3> HIDE DEF C, E, F, t
    <3> QED BY <2>4, <3>1
  <2>6. Cardinality(F) < Setup[name].perDay
    <3>1. IsFiniteSet(1 .. i - 1)
      BY <1>0, FS_Interval
    <3>2. E \subseteq 1 .. i - 1
      BY <2>3, <2>4
    <3>3. Cardinality(E) < Setup[name].perDay
      BY <1>6, CardinalityOf DEF P!GuardrailsAllow
    <3> HIDE DEF E, F
    <3>4. IsFiniteSet(E) /\ Cardinality(E) \in Nat
      BY <3>1, <3>2, FS_Subset, FS_CardinalityType
    <3>5. IsFiniteSet(F) /\ Cardinality(F) <= Cardinality(E) /\ Cardinality(F) \in Nat
      BY <2>5, <3>4, FS_Subset, FS_CardinalityType
    <3>6. Setup[name].perDay \in Nat
      BY SetupAssumption DEF Of
    <3> QED BY <3>3, <3>4, <3>5, <3>6
  <2>7. P(name)!Losses(t, i) = {}
    BY <1>6 DEF P!GuardrailsAllow
  <2>8. ASSUME NEW j \in C, orders'[j].lost, orders'[j].closed > 0,
               orders'[j].closed < t \/ (orders'[j].closed = t /\ orders'[j].closedBy < i),
               t < orders'[j].closed + Setup[name].cooldown
        PROVE  FALSE
    <3>1. j \in 1 .. Len(orders) /\ j \in 1 .. i - 1 /\ orders[j].kind = "entry"
      BY <2>3
    <3>2. Onward(orders[j], orders'[j], j)
      BY <1>1, <3>1
    <3>3. CASE orders'[j].closed = orders[j].closed /\ orders'[j].closedBy = orders[j].closedBy
               /\ orders'[j].lost = orders[j].lost
      <4>1. P(name)!ClosedFirst(j, t, i)
        BY <2>8, <3>3 DEF P!ClosedFirst
      <4>2. j \in P(name)!Losses(t, i)
        BY <2>8, <3>3, <4>1 DEF P!Losses
      <4> QED BY <2>7, <4>2
    <3>4. CASE orders'[j].closed = market /\ (orders'[j].closedBy <= j \/ orders'[j].closedBy > Len(orders))
      <4>1. orders'[j].closed = t /\ orders'[j].closedBy < i
        BY <1>0, <1>2, <2>8, <3>4
      <4>2. orders'[j].closedBy <= j
        <5>1. orders'[j].closedBy \in Nat
          <6>0. j \in DOMAIN orders' /\ orders' \in Seq(P(name)!EntryOrders \cup P(name)!CloseOrders)
            BY <1>1, <3>1 DEF Grows
          <6>1. orders'[j] \in P(name)!EntryOrders \cup P(name)!CloseOrders
            BY <6>0
          <6>2. orders'[j].kind = "entry"
            BY <3>1, <3>2 DEF Onward
          <6> QED BY <6>1, <6>2 DEF P!EntryOrders, P!CloseOrders
        <5> QED BY <1>0, <3>4, <4>1, <5>1
      <4>3. orders'[j].kind = "entry" /\ orders'[j].closed = orders'[i].time
        BY <1>3, <3>1, <3>2, <4>1 DEF Onward
      <4>4. P(name)!Undecided(i)'
        BY <3>1, <4>2, <4>3 DEF P!Undecided, P!IsEntry
      <4> QED BY <1>6, <4>4
    <3> QED BY <3>1, <3>2, <3>3, <3>4 DEF Onward
  <2>9. P(name)!Losses(t, i)' = {}
    <3>1. P(name)!Losses(t, i)' = {j \in P(name)!Considered(i)' : orders'[j].lost /\ P(name)!ClosedFirst(j, t, i)'
                                     /\ t' < orders'[j].closed + Setup[name].cooldown}
      BY DEF P!Losses
    <3>2. t' = t
      BY <1>3
    <3>3. ASSUME NEW j \in C, orders'[j].lost, P(name)!ClosedFirst(j, t, i)', t' < orders'[j].closed + Setup[name].cooldown
          PROVE  FALSE
      <4>1. orders'[j].closed > 0 /\ (orders'[j].closed < t \/ (orders'[j].closed = t /\ orders'[j].closedBy < i))
        BY <1>0, <3>2, <3>3 DEF P!ClosedFirst
      <4>2. t < orders'[j].closed + Setup[name].cooldown
        BY <3>2, <3>3
      <4> QED BY <2>8, <3>3, <4>1, <4>2
    <3> HIDE DEF C, t
    <3> QED BY <2>2, <3>1, <3>3
  <2>10. P(name)!GuardrailsAllow(orders[i].time, i)'
    <3>1. P(name)!GuardrailsAllow(orders[i].time, i)' <=>
            P(name)!Cardinality(P(name)!EntriesOf(P(name)!Day(t), i))' < Setup[name].perDay /\ P(name)!Losses(t, i)' = {}
      BY DEF P!GuardrailsAllow
    <3>2. P(name)!Cardinality(P(name)!EntriesOf(P(name)!Day(t), i))' = Cardinality(F)
      BY DEF P!Cardinality, Cardinality
    <3> QED BY <2>6, <2>9, <3>1, <3>2
  <2> QED BY <1>3, <2>10 DEF P!ScoredAsChecked
<1> QED BY <1>4, <1>5, <1>6 DEF P!ScoredAsChecked

(* What Grows leaves to show: what the report says of the entries that are new. *)
LEMMA GrowingStaysConsistent ==
  ASSUME NEW name \in Of, P(name)!Consistent, Grows(name),
         \A i \in DOMAIN orders' : i > Len(orders) /\ P(name)!Automatic(i)' =>
           market > 0 /\ P(name)!CountedOnce(i)' /\ P(name)!NotAfterRefusal(i)' /\ P(name)!ScoredAsChecked(i)'
  PROVE  P(name)!Consistent'
<1>0. /\ Len(orders) \in Nat /\ Len(orders') \in Nat
      /\ DOMAIN orders = 1 .. Len(orders) /\ DOMAIN orders' = 1 .. Len(orders')
      /\ Len(orders) <= Len(orders') /\ market \in Nat /\ feed \in Nat
      /\ P(name)!PlaybooksTypeOK /\ P(name)!TimesPassed /\ P(name)!AttemptsInOrder
      /\ P(name)!WindowsInOrder /\ P(name)!EntriesAccountedFor
  <2>1. Len(orders) \in Nat /\ DOMAIN orders = 1 .. Len(orders) /\ market \in Nat /\ feed \in Nat
    BY DEF P!Consistent, P!PlaybooksTypeOK
  <2>2. orders' \in Seq(P(name)!EntryOrders \cup P(name)!CloseOrders) /\ Len(orders) <= Len(orders')
    BY DEF Grows
  <2>3. Len(orders') \in Nat /\ DOMAIN orders' = 1 .. Len(orders')
    BY <2>2
  <2>4. /\ P(name)!PlaybooksTypeOK /\ P(name)!TimesPassed /\ P(name)!AttemptsInOrder
        /\ P(name)!WindowsInOrder /\ P(name)!EntriesAccountedFor
    BY DEF P!Consistent
  <2> QED BY <2>1, <2>2, <2>3, <2>4
<1>1. ASSUME NEW j \in 1 .. Len(orders)
      PROVE  j \in DOMAIN orders /\ j \in DOMAIN orders' /\ Onward(orders[j], orders'[j], j)
  <2>1. \A k \in DOMAIN orders : Onward(orders[k], orders'[k], k)
    BY DEF Grows
  <2> QED BY <1>0, <2>1
<1>2. UNCHANGED <<catalogue, market, feed, priced>>
      /\ (attempts' = attempts \/ attempts' = Append(attempts, Len(orders) + 1))
  BY DEF Grows
<1>3. P(name)!PlaybooksTypeOK'
  <2>1. attempts' \in Seq(Nat)
    <3>1. attempts \in Seq(Nat) /\ Len(orders) + 1 \in Nat
      BY <1>0 DEF P!PlaybooksTypeOK
    <3>2. Append(attempts, Len(orders) + 1) \in Seq(Nat)
      BY <3>1
    <3> QED BY <1>2, <3>1, <3>2
  <2>2. orders' \in Seq(P(name)!EntryOrders \cup P(name)!CloseOrders)
    BY DEF Grows
  <2>3. orders' \in Seq(P(name)!EntryOrders' \cup P(name)!CloseOrders')
    BY <2>2 DEF P!EntryOrders, P!CloseOrders
  <2> QED BY <1>0, <1>2, <2>1, <2>3 DEF P!PlaybooksTypeOK, P!Windows
<1>4. P(name)!TimesPassed'
  <2>1. ASSUME NEW j \in 1 .. Len(orders'), j <= Len(orders)
        PROVE  /\ orders'[j].time <= market
               /\ orders'[j].kind = "entry" =>
                    /\ orders'[j].opened <= market /\ orders'[j].closed <= market
                    /\ orders'[j].closed = 0 => orders'[j].closedBy = 0
                    /\ P(name)!Automatic(j)' => orders'[j].time > 0
    <3>1. j \in 1 .. Len(orders) /\ j \in DOMAIN orders
      BY <1>0, <2>1
    <3>2. Onward(orders[j], orders'[j], j)
      BY <1>1, <3>1
    <3>3. /\ orders[j].time <= market
          /\ orders[j].kind = "entry" =>
               /\ orders[j].opened <= market /\ orders[j].closed <= market
               /\ orders[j].closed = 0 => orders[j].closedBy = 0
               /\ P(name)!Automatic(j) => orders[j].time > 0
      BY <1>0, <3>1 DEF P!TimesPassed, P!IsEntry
    <3>4. P(name)!Automatic(j)' => P(name)!Automatic(j)
      BY <3>2 DEF Onward, P!Automatic, P!IsEntry
    <3> QED BY <1>0, <3>2, <3>3, <3>4 DEF Onward
  <2>2. ASSUME NEW j \in 1 .. Len(orders'), ~ (j <= Len(orders))
        PROVE  /\ orders'[j].time <= market
               /\ orders'[j].kind = "entry" =>
                    /\ orders'[j].opened <= market /\ orders'[j].closed <= market
                    /\ orders'[j].closed = 0 => orders'[j].closedBy = 0
                    /\ P(name)!Automatic(j)' => orders'[j].time > 0
    <3>1. j \in DOMAIN orders' /\ j > Len(orders)
      BY <1>0, <2>2
    <3>2. /\ orders'[j].time = market
          /\ orders'[j].kind = "entry" =>
               /\ orders'[j].opened <= market /\ orders'[j].closed = 0 /\ orders'[j].closedBy = 0
      BY <3>1 DEF Grows
    <3>3. P(name)!Automatic(j)' => market > 0
      BY <3>1
    <3> QED BY <1>0, <3>2, <3>3
  <2>3. market <= feed /\ (priced => market = feed /\ market > 0)
    BY <1>0 DEF P!TimesPassed
  <2> QED BY <1>0, <1>2, <2>1, <2>2, <2>3 DEF P!TimesPassed, P!IsEntry
<1>5. P(name)!AttemptsInOrder'
  <2>1. /\ Len(attempts) \in Nat /\ Len(attempts) >= 1 /\ DOMAIN attempts = 1 .. Len(attempts) /\ attempts[1] = 1
        /\ attempts \in Seq(Nat)
        /\ \A k \in 1 .. Len(attempts) : attempts[k] \in Nat /\ attempts[k] <= Len(orders) + 1
        /\ \A j, k \in 1 .. Len(attempts) : j <= k => attempts[j] <= attempts[k]
    BY <1>0 DEF P!PlaybooksTypeOK, P!AttemptsInOrder, P!NextOrder
  <2>2. CASE attempts' = attempts
    BY <1>0, <2>1, <2>2 DEF P!AttemptsInOrder, P!NextOrder
  <2>3. CASE attempts' = Append(attempts, Len(orders) + 1)
    <3>1. /\ Len(attempts') = Len(attempts) + 1 /\ DOMAIN attempts' = 1 .. Len(attempts) + 1
          /\ attempts'[Len(attempts) + 1] = Len(orders) + 1
          /\ \A k \in 1 .. Len(attempts) : attempts'[k] = attempts[k]
      BY <2>1, <2>3
    <3>2. \A k \in 1 .. Len(attempts) + 1 : attempts'[k] <= Len(orders) + 1 /\ attempts'[k] \in Nat
      BY <1>0, <2>1, <3>1
    <3>3. \A j, k \in 1 .. Len(attempts) + 1 : j <= k => attempts'[j] <= attempts'[k]
      BY <1>0, <2>1, <3>1
    <3> QED BY <1>0, <2>1, <3>1, <3>2, <3>3 DEF P!AttemptsInOrder, P!NextOrder
  <2> QED BY <1>2, <2>2, <2>3
<1>6. P(name)!WindowsInOrder'
  <2>1. ASSUME NEW k \in DOMAIN catalogue.windows
        PROVE  P(name)!WellFormed(catalogue.windows[k])'
    <3>1. P(name)!WellFormed(catalogue.windows[k])
      BY <1>0 DEF P!WindowsInOrder
    <3>2. catalogue.windows[k] \in P(name)!Windows /\ feed \in Nat /\ Len(orders) \in Nat
      BY <1>0 DEF P!PlaybooksTypeOK
    <3>3. catalogue.windows[k].started \in Nat /\ catalogue.windows[k].first \in Nat /\ catalogue.windows[k].end \in Nat
      BY <3>2 DEF P!Windows
    <3> QED BY <1>0, <1>2, <3>1, <3>2, <3>3 DEF P!WellFormed, P!NextOrder, P!StillRuns
  <2>2. /\ \A k, l \in DOMAIN catalogue.windows : k < l =>
             catalogue.windows[k].ended > 0 /\ catalogue.windows[k].end <= catalogue.windows[l].first
        /\ (catalogue.mode = "auto" /\ ~catalogue.deleted) =>
             market > 0 /\ \E k \in DOMAIN catalogue.windows : catalogue.windows[k].ended = 0
    BY <1>0 DEF P!WindowsInOrder
  <2>3. catalogue' = catalogue /\ (market > 0 => market' > 0)
    BY <1>0, <1>2
  <2>4. \A k \in DOMAIN catalogue.windows : P(name)!WellFormed(catalogue.windows[k])'
    BY <2>1
  <2>5. \A k \in DOMAIN catalogue'.windows : P(name)!WellFormed(catalogue.windows[k])'
    BY <2>3, <2>4
  <2> QED BY <2>2, <2>3, <2>5 DEF P!WindowsInOrder
<1>7. P(name)!EntriesAccountedFor'
  <2>1. ASSUME NEW i \in 1 .. Len(orders), P(name)!Automatic(i)'
        PROVE  P(name)!CountedOnce(i)' /\ P(name)!NotAfterRefusal(i)' /\ P(name)!ScoredAsChecked(i)'
    <3>1. Onward(orders[i], orders'[i], i) /\ i \in DOMAIN orders
      BY <1>1
    <3>2. P(name)!Automatic(i)
      BY <2>1, <3>1 DEF Onward, P!Automatic, P!IsEntry
    <3>3. P(name)!CountedOnce(i) /\ P(name)!NotAfterRefusal(i) /\ P(name)!ScoredAsChecked(i)
      BY <1>0, <3>1, <3>2 DEF P!EntriesAccountedFor
    <3>4. orders'[i].time = orders[i].time /\ orders'[i].version = orders[i].version
      BY <3>1, <3>2 DEF Onward, P!Automatic, P!IsEntry
    <3>5. P(name)!CountedOnce(i)'
      <4>1. \A k \in DOMAIN catalogue.windows :
              P(name)!Covers(catalogue.windows[k], i)' <=> P(name)!Covers(catalogue.windows[k], i)
        BY <1>2, <3>4 DEF P!Covers
      <4>2. {k \in DOMAIN catalogue.windows : P(name)!Covers(catalogue.windows[k], i)}'
              = {k \in DOMAIN catalogue.windows : P(name)!Covers(catalogue.windows[k], i)}
        BY <1>2, <4>1
      <4> QED BY <3>3, <4>2 DEF P!CountedOnce, P!Cardinality
    <3>6. P(name)!NotAfterRefusal(i)'
      <4>1. ASSUME NEW j \in 1 .. i - 1, P(name)!Automatic(j)', orders'[j].status = "rejected"
            PROVE  P(name)!Automatic(j) /\ orders[j].status = "rejected" /\ orders'[j].time = orders[j].time
        <5>1. j \in 1 .. Len(orders)
          BY <1>0
        <5>2. Onward(orders[j], orders'[j], j)
          BY <1>1, <5>1
        <5> QED BY <4>1, <5>2 DEF Onward, P!Automatic, P!IsEntry
      <4> QED BY <3>3, <3>4, <4>1 DEF P!NotAfterRefusal, P!Day
    <3> QED BY <1>0, <3>1, <3>2, <3>3, <3>5, <3>6, ScoreStays
  <2>2. ASSUME NEW i \in 1 .. Len(orders'), ~ (i <= Len(orders)), P(name)!Automatic(i)'
        PROVE  P(name)!CountedOnce(i)' /\ P(name)!NotAfterRefusal(i)' /\ P(name)!ScoredAsChecked(i)'
    <3>1. i \in DOMAIN orders' /\ i > Len(orders)
      BY <1>0, <2>2
    <3> QED BY <2>2, <3>1
  <2>3. ASSUME NEW i \in 1 .. Len(orders'), P(name)!Automatic(i)'
        PROVE  P(name)!CountedOnce(i)' /\ P(name)!NotAfterRefusal(i)' /\ P(name)!ScoredAsChecked(i)'
    <3>1. i <= Len(orders) => i \in 1 .. Len(orders)
      BY <1>0
    <3> QED BY <2>1, <2>2, <2>3, <3>1
  <2> QED BY <1>0, <2>3 DEF P!EntriesAccountedFor
<1> QED BY <1>3, <1>4, <1>5, <1>6, <1>7 DEF P!Consistent

(* The report does not depend on the market: what changes only the time, the feed and what
   is not on the record leaves it consistent. *)
LEMMA QuietStaysConsistent ==
  ASSUME NEW name \in Of, P(name)!Consistent, UNCHANGED <<catalogue, orders, attempts>>,
         market' \in Nat, feed' \in Nat, priced' \in BOOLEAN, market' <= feed', feed <= feed',
         priced' => market' = feed' /\ market' > 0, market > 0 => market' > 0,
         \A i \in DOMAIN orders :
           /\ orders[i].time <= market'
           /\ orders[i].kind = "entry" => orders[i].opened <= market' /\ orders[i].closed <= market'
  PROVE  P(name)!Consistent'
<1>0. /\ P(name)!PlaybooksTypeOK /\ P(name)!TimesPassed /\ P(name)!AttemptsInOrder
      /\ P(name)!WindowsInOrder /\ P(name)!EntriesAccountedFor
  BY DEF P!Consistent
<1>1. P(name)!PlaybooksTypeOK'
  <2>1. P(name)!EntryOrders' = P(name)!EntryOrders /\ P(name)!CloseOrders' = P(name)!CloseOrders
        /\ P(name)!Windows' = P(name)!Windows
    BY DEF P!EntryOrders, P!CloseOrders, P!Windows
  <2> QED BY <1>0, <2>1 DEF P!PlaybooksTypeOK
<1>2. P(name)!TimesPassed'
  BY <1>0 DEF P!TimesPassed, P!IsEntry, P!Automatic
<1>3. P(name)!AttemptsInOrder'
  BY <1>0 DEF P!AttemptsInOrder, P!NextOrder
<1>4. P(name)!WindowsInOrder'
  <2>1. ASSUME NEW k \in DOMAIN catalogue.windows
        PROVE  P(name)!WellFormed(catalogue.windows[k])'
    <3>1. P(name)!WellFormed(catalogue.windows[k])
      BY <1>0 DEF P!WindowsInOrder
    <3>2. catalogue.windows[k] \in P(name)!Windows /\ feed \in Nat /\ Len(orders) \in Nat
      BY <1>0 DEF P!PlaybooksTypeOK
    <3>3. catalogue.windows[k].started \in Nat /\ catalogue.windows[k].first \in Nat /\ catalogue.windows[k].end \in Nat
      BY <3>2 DEF P!Windows
    <3> QED BY <1>0, <3>1, <3>2, <3>3 DEF P!WellFormed, P!NextOrder, P!StillRuns
  <2>2. /\ \A k, l \in DOMAIN catalogue.windows : k < l =>
             catalogue.windows[k].ended > 0 /\ catalogue.windows[k].end <= catalogue.windows[l].first
        /\ (catalogue.mode = "auto" /\ ~catalogue.deleted) =>
             market > 0 /\ \E k \in DOMAIN catalogue.windows : catalogue.windows[k].ended = 0
    BY <1>0 DEF P!WindowsInOrder
  <2>3. catalogue' = catalogue /\ (market > 0 => market' > 0)
    BY <1>0
  <2>4. \A k \in DOMAIN catalogue.windows : P(name)!WellFormed(catalogue.windows[k])'
    BY <2>1
  <2>5. \A k \in DOMAIN catalogue'.windows : P(name)!WellFormed(catalogue.windows[k])'
    BY <2>3, <2>4
  <2> QED BY <2>2, <2>3, <2>5 DEF P!WindowsInOrder
<1>5. P(name)!EntriesAccountedFor'
  <2>1. ASSUME NEW i \in DOMAIN orders, P(name)!Automatic(i)'
        PROVE  P(name)!CountedOnce(i)' /\ P(name)!NotAfterRefusal(i)' /\ P(name)!ScoredAsChecked(i)'
    <3>1. P(name)!Automatic(i)
      BY <2>1 DEF P!Automatic, P!IsEntry
    <3>2. P(name)!CountedOnce(i) /\ P(name)!NotAfterRefusal(i) /\ P(name)!ScoredAsChecked(i)
      BY <1>0, <3>1 DEF P!EntriesAccountedFor
    <3>3. P(name)!CountedOnce(i)'
      BY <3>2 DEF P!CountedOnce, P!Covers, P!Cardinality
    <3>4. P(name)!NotAfterRefusal(i)'
      BY <3>2 DEF P!NotAfterRefusal, P!Automatic, P!IsEntry, P!Day
    <3>5. P(name)!Undecided(i) => P(name)!Undecided(i)'
      BY DEF P!Undecided, P!IsEntry
    <3>6. P(name)!GuardrailsAllow(orders[i].time, i) => P(name)!GuardrailsAllow(orders[i].time, i)'
      <4>1. P(name)!Considered(i)' = P(name)!Considered(i)
        BY DEF P!Considered, P!IsEntry, P!FirstOrder, P!Latest
      <4>2. P(name)!EntriesOf(P(name)!Day(orders[i].time), i)' = P(name)!EntriesOf(P(name)!Day(orders[i].time), i)
        BY <4>1 DEF P!EntriesOf, P!Day
      <4>3. P(name)!Losses(orders[i].time, i)' = P(name)!Losses(orders[i].time, i)
        BY <4>1 DEF P!Losses, P!ClosedFirst
      <4> QED BY <4>2, <4>3 DEF P!GuardrailsAllow, P!Cardinality
    <3> QED BY <3>2, <3>3, <3>4, <3>5, <3>6 DEF P!ScoredAsChecked
  <2> QED BY <2>1 DEF P!EntriesAccountedFor
<1> QED BY <1>1, <1>2, <1>3, <1>4, <1>5 DEF P!Consistent

(* A window closed: it keeps its version and start, and covers what it covered. *)
LEMMA EndedWindows ==
  ASSUME NEW name \in Of, P(name)!Consistent, NEW w \in P(name)!Windows, P(name)!WellFormed(w), w.ended = 0
  PROVE  /\ P(name)!Ended(w) \in P(name)!Windows
         /\ P(name)!Ended(w).version = w.version /\ P(name)!Ended(w).started = w.started
         /\ P(name)!Ended(w).first = w.first /\ P(name)!Ended(w).end = Len(orders) + 1
         /\ P(name)!Ended(w).ended > 0 /\ w.started <= P(name)!Ended(w).ended
         /\ P(name)!WellFormed(P(name)!Ended(w))
         /\ \A i \in DOMAIN orders : P(name)!Covers(P(name)!Ended(w), i) <=> P(name)!Covers(w, i)
<1> DEFINE l == P(name)!Latest({market, w.started})
           v == P(name)!Ended(w)
<1>1. /\ market \in Nat /\ Len(orders) \in Nat /\ DOMAIN orders = 1 .. Len(orders)
      /\ w.version \in Nat /\ w.started \in Nat /\ w.first \in Nat
      /\ w.started > 0 /\ w.started <= feed /\ w.first <= Len(orders) + 1
  BY DEF P!Consistent, P!PlaybooksTypeOK, P!Windows, P!WellFormed, P!NextOrder
<1>2. l \in Nat /\ market <= l /\ w.started <= l
  BY <1>1, LatestOfTwo
<1>3. /\ v \in P(name)!Windows
      /\ v.version = w.version /\ v.started = w.started /\ v.first = w.first
      /\ v.end = Len(orders) + 1 /\ v.ended = l
  <2> HIDE DEF l
  <2>1. v = [w EXCEPT !.ended = l, !.end = Len(orders) + 1]
    BY DEF P!Ended, P!NextOrder, l
  <2> HIDE DEF v
  <2>2. w \in [version : Nat, started : Nat, ended : Nat, first : Nat, end : Nat] /\ Len(orders) + 1 \in Nat
    BY <1>1 DEF P!Windows
  <2>3. v \in [version : Nat, started : Nat, ended : Nat, first : Nat, end : Nat]
    BY <1>2, <2>1, <2>2
  <2>4. /\ v.version = w.version /\ v.started = w.started /\ v.first = w.first
        /\ v.end = Len(orders) + 1 /\ v.ended = l
    BY <2>1, <2>2
  <2> QED BY <2>3, <2>4 DEF P!Windows
<1> HIDE DEF l, v
<1>4. P(name)!WellFormed(v)
  BY <1>1, <1>2, <1>3 DEF P!WellFormed, P!NextOrder
<1>5. ASSUME NEW i \in DOMAIN orders
      PROVE  P(name)!Covers(v, i) <=> P(name)!Covers(w, i)
  <2>1. orders[i].time <= market /\ orders[i].time \in Nat
    BY OrderTypes DEF P!Consistent, P!TimesPassed
  <2>2. orders[i].time <= l /\ i < Len(orders) + 1 /\ l > 0
    BY <1>1, <1>2, <2>1
  <2> QED BY <1>3, <2>2 DEF P!Covers
<1> QED BY <1>1, <1>2, <1>3, <1>4, <1>5 DEF v

(* A saved change of the catalogue: its windows keep counting what is on the record. *)
LEMMA ChangeStaysConsistent ==
  ASSUME NEW name \in Of, P(name)!Consistent, NEW c, P(name)!Change(c),
         c \in [version : Nat, deleted : BOOLEAN, mode : {"off", "stage", "auto"}, windows : Seq(P(name)!Windows)],
         c.windows = catalogue.windows, c.mode = "auto" /\ ~c.deleted => market > 0
  PROVE  P(name)!Consistent'
<1> DEFINE W == catalogue.windows
           Still(k) == W[k].ended = 0 /\ ~P(name)!StillRuns(c, W[k])
           closed == [k \in DOMAIN W |-> IF Still(k) THEN P(name)!Ended(W[k]) ELSE W[k]]
           opens == c.mode = "auto" /\ ~c.deleted /\ ~(\E k \in DOMAIN closed : closed[k].ended = 0) /\ market > 0
           V == IF opens THEN Append(closed, P(name)!Opened(c)) ELSE <<>> \o closed
<1>0. /\ P(name)!PlaybooksTypeOK /\ P(name)!TimesPassed /\ P(name)!AttemptsInOrder
      /\ P(name)!WindowsInOrder /\ P(name)!EntriesAccountedFor
  BY DEF P!Consistent
<1>1. UNCHANGED <<orders, attempts, market, feed, priced>>
  BY DEF P!Change
<1>2. catalogue' = [c EXCEPT !.windows = V]
  BY DEF P!Change, P!WithWindows
<1>3. /\ W \in Seq(P(name)!Windows) /\ Len(W) \in Nat /\ DOMAIN W = 1 .. Len(W)
      /\ \A k \in 1 .. Len(W) : W[k] \in P(name)!Windows /\ P(name)!WellFormed(W[k])
      /\ market \in Nat /\ feed \in Nat /\ Len(orders) \in Nat /\ DOMAIN orders = 1 .. Len(orders)
  BY <1>0 DEF P!PlaybooksTypeOK, P!WindowsInOrder
<1>4. ASSUME NEW k \in 1 .. Len(W)
      PROVE  /\ closed[k] \in P(name)!Windows /\ P(name)!WellFormed(W[k])
             /\ closed[k].version = W[k].version /\ closed[k].started = W[k].started
             /\ closed[k].first = W[k].first
             /\ 0 < closed[k].started /\ closed[k].started <= feed /\ closed[k].first <= Len(orders) + 1
             /\ closed[k].ended = 0 => P(name)!StillRuns(c, closed[k])
             /\ closed[k].ended > 0 => closed[k].started <= closed[k].ended /\ closed[k].first <= closed[k].end
                                         /\ closed[k].end <= Len(orders) + 1
             /\ W[k].ended > 0 => closed[k] = W[k]
             /\ \A i \in DOMAIN orders : P(name)!Covers(closed[k], i) <=> P(name)!Covers(W[k], i)
  <2>1. closed[k] = IF Still(k) THEN P(name)!Ended(W[k]) ELSE W[k]
    BY <1>3
  <2>2. W[k] \in P(name)!Windows /\ P(name)!WellFormed(W[k])
    BY <1>3
  <2> HIDE DEF closed
  <2>3. CASE Still(k)
    <3>1. closed[k] = P(name)!Ended(W[k]) /\ W[k].ended = 0
      BY <2>1, <2>3
    <3> HIDE DEF Still, W
    <3>2. /\ closed[k] \in P(name)!Windows
          /\ closed[k].version = W[k].version /\ closed[k].started = W[k].started
          /\ closed[k].first = W[k].first /\ closed[k].end = Len(orders) + 1
          /\ closed[k].ended > 0
          /\ P(name)!WellFormed(closed[k])
          /\ \A i \in DOMAIN orders : P(name)!Covers(closed[k], i) <=> P(name)!Covers(W[k], i)
      BY <2>2, <3>1, EndedWindows
    <3> QED BY <1>3, <2>2, <3>1, <3>2 DEF P!WellFormed, P!NextOrder, P!Windows
  <2>4. CASE ~Still(k)
    <3>1. closed[k] = W[k] /\ (W[k].ended = 0 => P(name)!StillRuns(c, W[k]))
      BY <2>1, <2>4
    <3> HIDE DEF Still, W
    <3> QED BY <1>3, <2>2, <3>1 DEF P!WellFormed, P!NextOrder, P!Windows
  <2> QED BY <2>3, <2>4
<1>5. closed \in Seq(P(name)!Windows) /\ DOMAIN closed = 1 .. Len(W) /\ Len(closed) = Len(W)
  <2>1. DOMAIN closed = 1 .. Len(W) /\ closed = [k \in 1 .. Len(W) |-> closed[k]]
    BY <1>3
  <2>2. \A k \in 1 .. Len(W) : closed[k] \in P(name)!Windows
    BY <1>4
  <2> HIDE DEF closed
  <2>3. closed \in [1 .. Len(W) -> P(name)!Windows]
    BY <2>1, <2>2
  <2>4. Len(W) \in Nat
    BY <1>3
  <2> HIDE DEF W
  <2>5. closed \in Seq(P(name)!Windows)
    BY <2>3, <2>4
  <2> QED BY <1>3, <2>1, <2>5
<1>6. /\ V \in Seq(P(name)!Windows) /\ DOMAIN V = 1 .. Len(V) /\ Len(V) = IF opens THEN Len(W) + 1 ELSE Len(W)
      /\ \A k \in 1 .. Len(W) : V[k] = closed[k]
      /\ opens => V[Len(W) + 1] = P(name)!Opened(c)
  <2>1. P(name)!Opened(c) \in P(name)!Windows
    BY <1>3 DEF P!Opened, P!Windows, P!NextOrder
  <2> HIDE DEF closed
  <2>2. CASE opens
    <3>1. V = Append(closed, P(name)!Opened(c))
      BY <2>2
    <3> HIDE DEF V, opens
    <3> QED BY <1>3, <1>5, <2>1, <2>2, <3>1
  <2>3. CASE ~opens
    <3>1. V = <<>> \o closed
      BY <2>3
    <3>2. <<>> \o closed = closed
      BY <1>5, ConcatEmptySeq
    <3> HIDE DEF V, opens
    <3> QED BY <1>3, <1>5, <2>3, <3>1, <3>2
  <2> QED BY <2>2, <2>3
<1>7. /\ catalogue'.version = c.version /\ catalogue'.deleted = c.deleted /\ catalogue'.mode = c.mode
      /\ catalogue'.windows = V /\ c.version \in Nat
      /\ catalogue' \in [version : Nat, deleted : BOOLEAN, mode : {"off", "stage", "auto"}, windows : Seq(P(name)!Windows)]
  <2> HIDE DEF V
  <2> QED BY <1>2, <1>6
<1>8. opens => LET w == P(name)!Opened(c) IN
        /\ w.version = c.version /\ w.started = market /\ w.ended = 0 /\ w.first = Len(orders) + 1 /\ w.end = 0
        /\ P(name)!StillRuns(c, w) /\ market > 0
  BY DEF P!Opened, P!StillRuns, P!NextOrder
<1>9. ASSUME NEW k \in 1 .. Len(V)
      PROVE  k \in 1 .. Len(W) \/ (opens /\ k = Len(W) + 1)
  <2> HIDE DEF V, closed, opens
  <2> QED BY <1>3, <1>6
<1>10. P(name)!PlaybooksTypeOK'
  <2>1. P(name)!EntryOrders' = P(name)!EntryOrders /\ P(name)!CloseOrders' = P(name)!CloseOrders
        /\ P(name)!Windows' = P(name)!Windows
    BY DEF P!EntryOrders, P!CloseOrders, P!Windows
  <2> HIDE DEF V
  <2> QED BY <1>0, <1>1, <1>7, <2>1 DEF P!PlaybooksTypeOK
<1>11. P(name)!TimesPassed'
  BY <1>0, <1>1 DEF P!TimesPassed, P!IsEntry, P!Automatic
<1>12. P(name)!AttemptsInOrder'
  BY <1>0, <1>1 DEF P!AttemptsInOrder, P!NextOrder
<1>13. P(name)!WindowsInOrder'
  <2>0. market <= feed
    BY <1>0 DEF P!TimesPassed
  <2>1. ASSUME NEW k \in 1 .. Len(V)
        PROVE  /\ 0 < V[k].started /\ V[k].started <= feed /\ V[k].first <= Len(orders) + 1
               /\ V[k].ended = 0 => P(name)!StillRuns(c, V[k])
               /\ V[k].ended > 0 => V[k].started <= V[k].ended /\ V[k].first <= V[k].end /\ V[k].end <= Len(orders) + 1
    <3>1. CASE k \in 1 .. Len(W)
      <4>1. V[k] = closed[k]
        BY <1>6, <3>1
      <4> HIDE DEF V, closed
      <4> QED BY <1>4, <3>1, <4>1
    <3>2. CASE opens /\ k = Len(W) + 1
      <4>1. V[k] = P(name)!Opened(c)
        BY <1>6, <3>2
      <4> HIDE DEF V, closed, opens
      <4> QED BY <1>3, <1>8, <2>0, <3>2, <4>1
    <3>3. k \in 1 .. Len(W) \/ (opens /\ k = Len(W) + 1)
          BY <1>9
    <3> QED BY <3>1, <3>2, <3>3
  <2>2. ASSUME NEW k \in 1 .. Len(V), NEW l \in 1 .. Len(V), k < l
        PROVE  V[k].ended > 0 /\ V[k].end <= V[l].first
    <3>1. k \in 1 .. Len(W) /\ (l \in 1 .. Len(W) \/ (opens /\ l = Len(W) + 1))
      <4> HIDE DEF V, closed, opens
      <4> QED BY <1>3, <1>6, <2>2
    <3>2. V[k] = closed[k] /\ closed[k] \in P(name)!Windows
      BY <1>4, <1>6, <3>1
    <3>3. CASE l \in 1 .. Len(W)
      <4>1. W[k].ended > 0 /\ W[k].end <= W[l].first
        BY <1>0, <1>3, <2>2, <3>1, <3>3 DEF P!WindowsInOrder
      <4>2. closed[k] = W[k] /\ closed[l].first = W[l].first /\ V[l] = closed[l]
        <5> HIDE DEF closed, V, opens
        <5> QED BY <1>4, <1>6, <3>1, <3>3, <4>1
      <4> HIDE DEF closed, V, opens
      <4> QED BY <3>2, <4>1, <4>2
    <3>4. CASE opens /\ l = Len(W) + 1
      <4>1. V[l] = P(name)!Opened(c) /\ closed[k].ended # 0
        BY <1>5, <1>6, <3>1, <3>4
      <4>2. closed[k].ended \in Nat
        <5> HIDE DEF closed, V, opens
        <5> QED BY <3>2 DEF P!Windows
      <4>3. closed[k].end <= Len(orders) + 1
        <5> HIDE DEF closed, V, opens
        <5> QED BY <1>4, <3>1, <4>1, <4>2
      <4> HIDE DEF closed, V, opens
      <4> QED BY <1>8, <3>2, <3>4, <4>1, <4>2, <4>3
    <3> QED BY <3>1, <3>3, <3>4
  <2>3. ASSUME c.mode = "auto", ~c.deleted
        PROVE  market > 0 /\ \E k \in 1 .. Len(V) : V[k].ended = 0
    <3>1. market > 0
      BY <2>3
    <3>2. CASE opens
      <4> HIDE DEF V, closed, opens
      <4>1. Len(W) + 1 \in 1 .. Len(V)
        BY <1>3, <1>6, <3>2
      <4> QED BY <1>6, <1>8, <3>1, <3>2, <4>1
    <3>3. CASE ~opens
      <4>1. PICK k \in 1 .. Len(W) : closed[k].ended = 0
        BY <1>5, <2>3, <3>1, <3>3
      <4> HIDE DEF V, closed, opens
      <4>2. k \in 1 .. Len(V) /\ V[k] = closed[k]
        BY <1>3, <1>6, <3>3, <4>1
      <4> QED BY <3>1, <4>1, <4>2
    <3> QED BY <3>2, <3>3
  <2> HIDE DEF V, closed, opens
  <2>4. ASSUME NEW w, P(name)!StillRuns(c, w)
        PROVE  ~c.deleted /\ c.mode = "auto" /\ c.version = w.version
    BY <2>4 DEF P!StillRuns
  <2>5. \A k \in 1 .. Len(V) : V[k].ended = 0 => ~c.deleted /\ c.mode = "auto" /\ c.version = V[k].version
    BY <2>1, <2>4
  <2>6. ASSUME NEW k \in 1 .. Len(V)
        PROVE  P(name)!WellFormed(catalogue.windows[k])'
    BY <1>1, <1>7, <2>1, <2>5 DEF P!WellFormed, P!NextOrder, P!StillRuns
  <2>7. \A k \in 1 .. Len(V) : P(name)!WellFormed(catalogue.windows[k])'
    BY <2>6
  <2>8. DOMAIN catalogue'.windows = 1 .. Len(V)
    BY <1>6, <1>7
  <2>9. \A k, l \in 1 .. Len(V) : k < l => V[k].ended > 0 /\ V[k].end <= V[l].first
    BY <2>2
  <2> QED BY <1>1, <1>7, <2>3, <2>7, <2>8, <2>9 DEF P!WindowsInOrder
<1>14. P(name)!EntriesAccountedFor'
  <2>1. ASSUME NEW i \in DOMAIN orders, P(name)!Automatic(i)'
        PROVE  P(name)!CountedOnce(i)' /\ P(name)!NotAfterRefusal(i)' /\ P(name)!ScoredAsChecked(i)'
    <3>1. P(name)!Automatic(i)
      BY <1>1, <2>1 DEF P!Automatic, P!IsEntry
    <3>2. P(name)!CountedOnce(i) /\ P(name)!NotAfterRefusal(i) /\ P(name)!ScoredAsChecked(i)
      BY <1>0, <3>1 DEF P!EntriesAccountedFor
    <3>3. P(name)!CountedOnce(i)'
      <4>1. ASSUME NEW k \in 1 .. Len(V)
            PROVE  P(name)!Covers(V[k], i) <=> k \in 1 .. Len(W) /\ P(name)!Covers(W[k], i)
        <5>1. CASE k \in 1 .. Len(W)
          BY <1>4, <1>6, <5>1
        <5>2. CASE opens /\ k = Len(W) + 1
          <6>1. V[k].first = Len(orders) + 1
            BY <1>6, <1>8, <5>2
          <6>2. ~(i >= Len(orders) + 1)
            BY <1>3
          <6> HIDE DEF V, closed, opens
          <6> QED BY <1>3, <5>2, <6>1, <6>2 DEF P!Covers
        <5>3. k \in 1 .. Len(W) \/ (opens /\ k = Len(W) + 1)
          BY <1>9
        <5> QED BY <5>1, <5>2, <5>3
      <4>2. 1 .. Len(W) \subseteq 1 .. Len(V)
        <5> HIDE DEF V, closed, opens
        <5> QED BY <1>3, <1>6
      <4>3. {k \in 1 .. Len(V) : P(name)!Covers(V[k], i)} = {k \in 1 .. Len(W) : P(name)!Covers(W[k], i)}
        <5> HIDE DEF V, closed, opens, W
        <5> QED BY <4>1, <4>2
      <4>4. {k \in DOMAIN catalogue.windows : P(name)!Covers(catalogue.windows[k], i)}'
              = {k \in 1 .. Len(V) : P(name)!Covers(V[k], i)}
        <5>1. DOMAIN catalogue'.windows = 1 .. Len(V) /\ catalogue'.windows = V
          BY <1>6, <1>7
        <5> HIDE DEF V, closed, opens, W
        <5> QED BY <1>1, <5>1 DEF P!Covers
      <4>5. {k \in DOMAIN catalogue.windows : P(name)!Covers(catalogue.windows[k], i)}
              = {k \in 1 .. Len(W) : P(name)!Covers(W[k], i)}
        BY <1>3
      <4>6. {k \in DOMAIN catalogue.windows : P(name)!Covers(catalogue.windows[k], i)}'
              = {k \in DOMAIN catalogue.windows : P(name)!Covers(catalogue.windows[k], i)}
        <5> HIDE DEF V, closed, opens, W
        <5> QED BY <4>3, <4>4, <4>5
      <4> QED BY <3>2, <4>6 DEF P!CountedOnce, P!Cardinality
    <3>4. P(name)!NotAfterRefusal(i)'
      BY <1>1, <3>2 DEF P!NotAfterRefusal, P!Automatic, P!IsEntry, P!Day
    <3>5. P(name)!Undecided(i) => P(name)!Undecided(i)'
      BY <1>1 DEF P!Undecided, P!IsEntry
    <3>6. P(name)!GuardrailsAllow(orders[i].time, i) => P(name)!GuardrailsAllow(orders[i].time, i)'
      <4>1. P(name)!Considered(i)' = P(name)!Considered(i)
        BY <1>1 DEF P!Considered, P!IsEntry, P!FirstOrder, P!Latest
      <4>2. P(name)!EntriesOf(P(name)!Day(orders[i].time), i)' = P(name)!EntriesOf(P(name)!Day(orders[i].time), i)
        BY <1>1, <4>1 DEF P!EntriesOf, P!Day
      <4>3. P(name)!Losses(orders[i].time, i)' = P(name)!Losses(orders[i].time, i)
        BY <1>1, <4>1 DEF P!Losses, P!ClosedFirst
      <4> QED BY <1>1, <4>2, <4>3 DEF P!GuardrailsAllow, P!Cardinality
    <3> QED BY <1>1, <3>2, <3>3, <3>4, <3>5, <3>6 DEF P!ScoredAsChecked
  <2> QED BY <1>1, <2>1 DEF P!EntriesAccountedFor
<1> QED BY <1>10, <1>11, <1>12, <1>13, <1>14 DEF P!Consistent

(* An entry of an automatic playbook just recorded: the running window counts it, and what
   the live check read is what the report reads. *)
LEMMA EnteredIsAccountedFor ==
  ASSUME NEW name \in Of, P(name)!Consistent, P(name)!MayEnter, catalogue.mode = "auto",
         NEW status \in {"working", "filled", "rejected"},
         orders' = Append(orders, P(name)!Entry("system", status)),
         UNCHANGED <<catalogue, attempts, market, feed, priced>>,
         NEW i \in DOMAIN orders', i > Len(orders)
  PROVE  market > 0 /\ P(name)!CountedOnce(i)' /\ P(name)!NotAfterRefusal(i)' /\ P(name)!ScoredAsChecked(i)'
<1> DEFINE e == P(name)!Entry("system", status)
           W == catalogue.windows
<1>0. /\ P(name)!PlaybooksTypeOK /\ P(name)!TimesPassed /\ P(name)!AttemptsInOrder
      /\ P(name)!WindowsInOrder /\ P(name)!EntriesAccountedFor
  BY DEF P!Consistent
<1>1. /\ market \in Nat /\ feed \in Nat /\ Len(orders) \in Nat /\ DOMAIN orders = 1 .. Len(orders)
      /\ orders \in Seq(P(name)!EntryOrders \cup P(name)!CloseOrders)
      /\ market > 0 /\ market = feed /\ ~catalogue.deleted
  BY <1>0 DEF P!PlaybooksTypeOK, P!MayEnter, P!TimesPassed
<1>2. /\ e.kind = "entry" /\ e.version = catalogue.version /\ e.time = market /\ e.status = status
      /\ e.closed = 0 /\ e.closedBy = 0 /\ e.lost = FALSE
  BY DEF P!Entry
<1>3. /\ Len(orders') = Len(orders) + 1 /\ DOMAIN orders' = 1 .. Len(orders) + 1 /\ orders'[Len(orders) + 1] = e
      /\ \A j \in 1 .. Len(orders) : orders'[j] = orders[j]
  <2> HIDE DEF e
  <2>1. orders' = Append(orders, e)
    BY DEF e
  <2> QED BY <1>1, <2>1
<1> HIDE DEF e
<1>4. i = Len(orders) + 1 /\ orders'[i] = e /\ i \in Nat
  BY <1>1, <1>3
<1>5. P(name)!CountedOnce(i)'
  <2>1. PICK k \in DOMAIN W : W[k].ended = 0
    BY <1>0, <1>1 DEF P!WindowsInOrder
  <2>2. \A l \in DOMAIN W : /\ W[l] \in P(name)!Windows /\ W[l].first \in Nat /\ W[l].end \in Nat
                           /\ W[l].ended \in Nat /\ l \in Nat /\ P(name)!WellFormed(W[l])
    <3>1. \A l \in DOMAIN W : l \in Nat /\ W[l] \in P(name)!Windows
      BY <1>0 DEF P!PlaybooksTypeOK
    <3>2. \A l \in DOMAIN W : P(name)!WellFormed(W[l])
      BY <1>0 DEF P!WindowsInOrder
    <3>3. \A w \in P(name)!Windows : w.first \in Nat /\ w.end \in Nat /\ w.ended \in Nat
      BY DEF P!Windows
    <3> QED BY <3>1, <3>2, <3>3
  <2>3. /\ W[k].version = catalogue.version /\ W[k].started <= feed /\ W[k].first <= i /\ W[k].started \in Nat
    BY <1>1, <1>4, <2>1, <2>2 DEF P!WellFormed, P!StillRuns, P!NextOrder, P!Windows
  <2>4. ASSUME NEW l \in DOMAIN W, l # k
        PROVE  W[l].ended # 0 /\ ~(i < W[l].end)
    <3>1. ~(k < l)
      BY <1>0, <2>1 DEF P!WindowsInOrder
    <3>2. l < k
      BY <2>2, <2>4, <3>1
    <3>3. W[l].ended > 0 /\ W[l].end <= W[k].first
      BY <1>0, <3>2 DEF P!WindowsInOrder
    <3> QED BY <1>4, <2>2, <2>3, <3>3
  <2>5. \A l \in DOMAIN W : P(name)!Covers(W[l], i)' <=> l = k
    <3>1. ASSUME NEW l \in DOMAIN W, l # k PROVE ~P(name)!Covers(W[l], i)'
      BY <2>4, <3>1 DEF P!Covers
    <3>2. P(name)!Covers(W[k], i)'
      BY <1>1, <1>2, <1>4, <2>1, <2>2, <2>3 DEF P!Covers
    <3> QED BY <3>1, <3>2
  <2>6. {l \in DOMAIN catalogue.windows : P(name)!Covers(catalogue.windows[l], i)}' = {k}
    BY <2>5
  <2>7. Cardinality({k}) = 1
    BY FS_Singleton
  <2> QED BY <2>6, <2>7 DEF P!CountedOnce, P!Cardinality, Cardinality
<1>6. P(name)!NotAfterRefusal(i)'
  <2>1. \A j \in 1 .. Len(orders) :
          ~(P(name)!Automatic(j) /\ orders[j].status = "rejected" /\ P(name)!Day(orders[j].time) = P(name)!Day(market))
    BY <1>1 DEF P!MayEnter, P!RefusedToday
  <2>2. \A j \in 1 .. Len(orders) : P(name)!Automatic(j)' <=> P(name)!Automatic(j)
    BY <1>3 DEF P!Automatic, P!IsEntry
  <2>3. 1 .. i - 1 = 1 .. Len(orders) /\ orders'[i].time = market
    BY <1>1, <1>2, <1>4
  <2> QED BY <1>3, <2>1, <2>2, <2>3 DEF P!NotAfterRefusal, P!Day
<1>7. P(name)!ScoredAsChecked(i)'
  <2> DEFINE C == P(name)!Considered(0)
  <2>1. P(name)!FirstOrder(i)' = P(name)!FirstOrder(0)
    <3>1. Len(attempts) \in DOMAIN attempts
      BY <1>0 DEF P!PlaybooksTypeOK, P!AttemptsInOrder
    <3>2. i >= attempts[Len(attempts)]
      BY <1>0, <1>4, <3>1 DEF P!AttemptsInOrder, P!NextOrder
    <3> QED BY <3>2 DEF P!FirstOrder
  <2>2. P(name)!Considered(i)' = C
    <3>1. C = {j \in 1 .. Len(orders) : orders[j].kind = "entry" /\ j >= P(name)!FirstOrder(0)}
      BY <1>1 DEF P!Considered, P!IsEntry
    <3>2. P(name)!Considered(i)' =
            {j \in DOMAIN orders' : orders'[j].kind = "entry" /\ j >= P(name)!FirstOrder(i)' /\ (i = 0 \/ j < i)}
      BY DEF P!Considered, P!IsEntry
    <3>3. {j \in 1 .. Len(orders) + 1 : orders'[j].kind = "entry" /\ j >= P(name)!FirstOrder(0) /\ (i = 0 \/ j < i)}
            = {j \in 1 .. Len(orders) : orders[j].kind = "entry" /\ j >= P(name)!FirstOrder(0)}
      BY <1>1, <1>3, <1>4
    <3> QED BY <1>3, <2>1, <3>1, <3>2, <3>3
  <2>3. \A j \in C : orders'[j] = orders[j]
    BY <1>1, <1>3 DEF P!Considered
  <2>4. P(name)!Cardinality(P(name)!EntriesOf(P(name)!Day(market), 0)) < Setup[name].perDay
        /\ P(name)!Losses(market, 0) = {}
    BY DEF P!MayEnter, P!GuardrailsAllow
  <2>5. P(name)!EntriesOf(P(name)!Day(market), i)' = P(name)!EntriesOf(P(name)!Day(market), 0)
    <3>1. P(name)!EntriesOf(P(name)!Day(market), 0) =
            {j \in C : orders[j].status \notin {"rejected", "cancelled"} /\ P(name)!Day(orders[j].time) = P(name)!Day(market)}
      BY DEF P!EntriesOf
    <3>2. P(name)!EntriesOf(P(name)!Day(market), i)' =
            {j \in P(name)!Considered(i)' : orders'[j].status \notin {"rejected", "cancelled"}
                                             /\ P(name)!Day(orders'[j].time) = P(name)!Day(market)}
      BY DEF P!EntriesOf, P!Day
    <3> HIDE DEF C
    <3> QED BY <2>2, <2>3, <3>1, <3>2
  <2>6. P(name)!Losses(market, i)' = {}
    <3>1. P(name)!Losses(market, i)' = {j \in P(name)!Considered(i)' : orders'[j].lost /\ P(name)!ClosedFirst(j, market, i)'
                                          /\ market < orders'[j].closed + Setup[name].cooldown}
      BY DEF P!Losses
    <3>2. ASSUME NEW j \in C, orders'[j].lost, P(name)!ClosedFirst(j, market, i)',
                 market < orders'[j].closed + Setup[name].cooldown
          PROVE  FALSE
      <4>1. orders'[j] = orders[j]
        BY <2>3
      <4>2. P(name)!ClosedFirst(j, market, 0)
        BY <3>2, <4>1 DEF P!ClosedFirst
      <4>3. j \in P(name)!Losses(market, 0)
        BY <3>2, <4>1, <4>2 DEF P!Losses
      <4> QED BY <2>4, <4>3
    <3> HIDE DEF C
    <3> QED BY <2>2, <3>1, <3>2
  <2>7. P(name)!GuardrailsAllow(market, i)'
    <3>1. P(name)!Cardinality(P(name)!EntriesOf(P(name)!Day(market), i))' < Setup[name].perDay
      BY <2>4, <2>5 DEF P!Cardinality
    <3> QED BY <2>6, <3>1 DEF P!GuardrailsAllow
  <2>8. orders'[i].time = market
    BY <1>2, <1>4
  <2>9. P(name)!GuardrailsAllow(orders[i].time, i)'
    BY <2>7, <2>8
  <2> QED BY <2>9 DEF P!ScoredAsChecked
<1> QED BY <1>1, <1>5, <1>6, <1>7

(* How an order may differ from the record and still be Onward: not at all, or a closed trade. *)
LEMMA SameIsOnward ==
  ASSUME NEW o, NEW i PROVE Onward(o, o, i)
BY DEF Onward

LEMMA ClosedIsOnward ==
  ASSUME NEW name \in Of, P(name)!Consistent, NEW i \in DOMAIN orders, P(name)!Held(i),
         NEW by \in {0, i, Len(orders) + 1}, NEW lost \in BOOLEAN, NEW k \in DOMAIN orders
  PROVE  /\ P(name)!Closed(i, by, lost) \in Seq(P(name)!EntryOrders \cup P(name)!CloseOrders)
         /\ Len(P(name)!Closed(i, by, lost)) = Len(orders)
         /\ Onward(orders[k], P(name)!Closed(i, by, lost)[k], k)
<1> DEFINE f == P(name)!Closed(i, by, lost)
           p == [[[orders[i] EXCEPT !.closed = market] EXCEPT !.closedBy = by] EXCEPT !.lost = lost]
<1>1. /\ orders \in Seq(P(name)!EntryOrders \cup P(name)!CloseOrders) /\ market \in Nat
      /\ Len(orders) \in Nat /\ DOMAIN orders = 1 .. Len(orders)
  BY DEF P!Consistent, P!PlaybooksTypeOK
<1>2. /\ orders[i] \in P(name)!EntryOrders /\ orders[i].kind = "entry" /\ orders[i].closed = 0
      /\ market > 0 /\ by \in Nat
  <2>1. orders[i].kind = "entry" /\ orders[i].opened > 0 /\ orders[i].closed = 0
    BY DEF P!Held, P!IsEntry
  <2>2. orders[i].opened <= market
    BY <2>1 DEF P!Consistent, P!TimesPassed, P!IsEntry
  <2>3. orders[i] \in P(name)!EntryOrders /\ orders[i].opened \in Nat
    BY <2>1, OrderTypes DEF P!Consistent
  <2> QED BY <1>1, <2>1, <2>2, <2>3
<1>3. f = [orders EXCEPT ![i] = p]
  BY <1>1, <1>2 DEF P!Closed, P!EntryOrders
<1>4. p \in P(name)!EntryOrders
  BY <1>1, <1>2 DEF P!EntryOrders
<1>5. /\ p.kind = "entry" /\ p.time = orders[i].time /\ p.version = orders[i].version
      /\ p.actor = orders[i].actor /\ p.automatic = orders[i].automatic /\ p.status = orders[i].status
      /\ p.opened = orders[i].opened /\ p.closed = market /\ p.closedBy = by /\ p.lost = lost
  BY <1>2 DEF P!EntryOrders
<1>6. by <= i \/ by > Len(orders)
  BY <1>1
<1>7. Onward(orders[i], p, i)
  <2> HIDE DEF p
  <2> QED BY <1>2, <1>5, <1>6 DEF Onward
<1> HIDE DEF f, p
<1>8. f \in Seq(P(name)!EntryOrders \cup P(name)!CloseOrders) /\ Len(f) = Len(orders)
  BY <1>1, <1>3, <1>4
<1>9. f[k] = IF k = i THEN p ELSE orders[k]
  BY <1>1, <1>3
<1>10. Onward(orders[k], f[k], k)
  BY <1>7, <1>9, SameIsOnward
<1> QED BY <1>8, <1>10 DEF f

(* A record of the same orders, each moved on, and perhaps one more, grows. *)
LEMMA GrowsFrom ==
  ASSUME NEW name \in Of, P(name)!Consistent,
         NEW f \in Seq(P(name)!EntryOrders \cup P(name)!CloseOrders), Len(f) = Len(orders),
         \A k \in DOMAIN orders : Onward(orders[k], f[k], k),
         NEW r \in P(name)!EntryOrders \cup P(name)!CloseOrders, r.time = market,
         r.kind = "entry" => r.opened <= market /\ r.closed = 0 /\ r.closedBy = 0,
         orders' = f \/ orders' = Append(f, r),
         attempts' = attempts \/ attempts' = Append(attempts, Len(orders) + 1),
         UNCHANGED <<catalogue, market, feed, priced>>
  PROVE  Grows(name) /\ \A i \in DOMAIN orders' : i > Len(orders) => orders'[i] = r
<1>1. Len(orders) \in Nat /\ DOMAIN orders = 1 .. Len(orders)
  BY DEF P!Consistent, P!PlaybooksTypeOK
<1>2. CASE orders' = f
  BY <1>1, <1>2 DEF Grows
<1>3. CASE orders' = Append(f, r)
  <2>1. /\ orders' \in Seq(P(name)!EntryOrders \cup P(name)!CloseOrders)
        /\ Len(orders') = Len(orders) + 1 /\ DOMAIN orders' = 1 .. Len(orders) + 1
        /\ orders'[Len(orders) + 1] = r
        /\ \A k \in 1 .. Len(orders) : orders'[k] = f[k]
    BY <1>1, <1>3
  <2>2. \A i \in DOMAIN orders' : i > Len(orders) => orders'[i] = r
    BY <1>1, <2>1
  <2>3. \A k \in DOMAIN orders : Onward(orders[k], orders'[k], k)
    BY <1>1, <2>1
  <2> QED BY <1>1, <2>1, <2>2, <2>3 DEF Grows
<1> QED BY <1>2, <1>3

(* A close is none of the entries, and an entry is of now. *)
LEMMA NewOrders ==
  ASSUME NEW name \in Of, P(name)!Consistent
  PROVE  /\ \A i \in DOMAIN orders : /\ P(name)!CloseOf(i) \in P(name)!CloseOrders
                                     /\ P(name)!CloseOf(i).time = market /\ P(name)!CloseOf(i).kind = "close"
         /\ \A actor \in {"system", "trader"}, status \in {"working", "filled", "rejected"} :
              LET e == P(name)!Entry(actor, status) IN
              /\ e \in P(name)!EntryOrders /\ e.time = market /\ e.kind = "entry" /\ e.actor = actor
              /\ e.opened <= market /\ e.closed = 0 /\ e.closedBy = 0
<1>1. market \in Nat /\ catalogue.version \in Nat /\ DOMAIN orders \subseteq Nat
  BY DEF P!Consistent, P!PlaybooksTypeOK
<1>2. ASSUME NEW i \in DOMAIN orders
      PROVE  /\ P(name)!CloseOf(i) \in P(name)!CloseOrders
             /\ P(name)!CloseOf(i).time = market /\ P(name)!CloseOf(i).kind = "close"
  BY <1>1 DEF P!CloseOf, P!CloseOrders
<1>3. ASSUME NEW actor \in {"system", "trader"}, NEW status \in {"working", "filled", "rejected"}
      PROVE  LET e == P(name)!Entry(actor, status) IN
             /\ e \in P(name)!EntryOrders /\ e.time = market /\ e.kind = "entry" /\ e.actor = actor
             /\ e.opened <= market /\ e.closed = 0 /\ e.closedBy = 0
  BY <1>1 DEF P!Entry, P!EntryOrders
<1> QED BY <1>2, <1>3

(* Steps that record no automatic entry. *)
LEMMA MovingOnStaysConsistent ==
  ASSUME NEW name \in Of, P(name)!Consistent,
         NEW f \in Seq(P(name)!EntryOrders \cup P(name)!CloseOrders), Len(f) = Len(orders),
         \A k \in DOMAIN orders : Onward(orders[k], f[k], k),
         NEW r \in P(name)!EntryOrders \cup P(name)!CloseOrders, r.time = market,
         r.kind = "close" \/ (r.actor = "trader" /\ r.opened <= market /\ r.closed = 0 /\ r.closedBy = 0),
         orders' = f \/ orders' = Append(f, r),
         attempts' = attempts \/ attempts' = Append(attempts, Len(orders) + 1),
         UNCHANGED <<catalogue, market, feed, priced>>
  PROVE  P(name)!Consistent'
<1>1. r.kind = "entry" => r.actor = "trader" /\ r.opened <= market /\ r.closed = 0 /\ r.closedBy = 0
  OBVIOUS
<1>2. Grows(name) /\ \A i \in DOMAIN orders' : i > Len(orders) => orders'[i] = r
  BY <1>1, GrowsFrom
<1>3. \A i \in DOMAIN orders' : i > Len(orders) => ~P(name)!Automatic(i)'
  BY <1>1, <1>2 DEF P!Automatic, P!IsEntry
<1> QED BY <1>2, <1>3, GrowingStaysConsistent

LEMMA EditedStaysConsistent ==
  ASSUME NEW name \in Of, P(name)!Consistent,
         NEW f \in Seq(P(name)!EntryOrders \cup P(name)!CloseOrders), Len(f) = Len(orders),
         \A k \in DOMAIN orders : Onward(orders[k], f[k], k), orders' = f,
         attempts' = attempts \/ attempts' = Append(attempts, Len(orders) + 1),
         UNCHANGED <<catalogue, market, feed, priced>>
  PROVE  P(name)!Consistent'
<1> DEFINE r == P(name)!Entry("trader", "rejected")
<1>1. /\ r \in P(name)!EntryOrders /\ r.time = market /\ r.actor = "trader"
      /\ r.opened <= market /\ r.closed = 0 /\ r.closedBy = 0
  BY NewOrders
<1> HIDE DEF r
<1> QED BY <1>1, MovingOnStaysConsistent

(* An evaluation cancels entries past their deadline. *)
LEMMA CancelsStaysConsistent ==
  ASSUME NEW name \in Of, P(name)!Consistent, P(name)!Cancels
  PROVE  P(name)!Consistent'
<1> DEFINE f == P(name)!Cancelled
           g == IF catalogue.mode = "auto" THEN <<>> \o f ELSE orders
<1>1. /\ orders \in Seq(P(name)!EntryOrders \cup P(name)!CloseOrders) /\ DOMAIN orders = 1 .. Len(orders)
      /\ Len(orders) \in Nat
  BY DEF P!Consistent, P!PlaybooksTypeOK
<1>2. ASSUME NEW k \in 1 .. Len(orders)
      PROVE  f[k] \in P(name)!EntryOrders \cup P(name)!CloseOrders /\ Onward(orders[k], f[k], k)
  <2> DEFINE p == [orders[k] EXCEPT !.status = "cancelled"]
             late == P(name)!IsEntry(k) /\ orders[k].status = "working" /\ market >= P(name)!Deadline(orders[k].time)
  <2>1. f[k] = IF late THEN p ELSE orders[k]
    BY <1>1 DEF P!Cancelled
  <2>2. CASE late
    <3>1. orders[k].kind = "entry" /\ orders[k].status = "working"
      BY <2>2 DEF P!IsEntry
    <3>2. orders[k] \in P(name)!EntryOrders
      BY <1>1, <3>1, OrderTypes DEF P!Consistent
    <3>3. /\ p \in P(name)!EntryOrders /\ p.status = "cancelled" /\ p.kind = "entry" /\ p.time = orders[k].time
          /\ p.version = orders[k].version /\ p.actor = orders[k].actor /\ p.automatic = orders[k].automatic
          /\ p.opened = orders[k].opened /\ p.closed = orders[k].closed /\ p.closedBy = orders[k].closedBy
          /\ p.lost = orders[k].lost
      BY <3>2 DEF P!EntryOrders
    <3>4. f[k] = p
      BY <2>1, <2>2
    <3> HIDE DEF p, late, f
    <3> QED BY <3>1, <3>3, <3>4 DEF Onward
  <2>3. CASE ~late
    <3>1. f[k] = orders[k]
      BY <2>1, <2>3
    <3> HIDE DEF f, late
    <3> QED BY <1>1, <3>1, SameIsOnward
  <2> QED BY <2>2, <2>3
<1>3. DOMAIN f = 1 .. Len(orders) /\ f = [k \in 1 .. Len(orders) |-> f[k]]
  BY <1>1 DEF P!Cancelled
<1> HIDE DEF f
<1>4. f \in Seq(P(name)!EntryOrders \cup P(name)!CloseOrders) /\ Len(f) = Len(orders)
  <2>1. f \in [1 .. Len(orders) -> P(name)!EntryOrders \cup P(name)!CloseOrders]
    BY <1>2, <1>3
  <2>2. f \in Seq(P(name)!EntryOrders \cup P(name)!CloseOrders)
    BY <1>1, <2>1
  <2> QED BY <1>1, <1>3, <2>2
<1>5. <<>> \o f = f
  BY <1>4, ConcatEmptySeq
<1>6. /\ g \in Seq(P(name)!EntryOrders \cup P(name)!CloseOrders) /\ Len(g) = Len(orders)
      /\ \A k \in DOMAIN orders : Onward(orders[k], g[k], k)
  BY <1>1, <1>2, <1>4, <1>5, SameIsOnward
<1>7. orders' = g
  BY DEF P!Cancels, f
<1>8. UNCHANGED <<catalogue, market, feed, priced, attempts>>
  BY DEF P!Cancels, P!Kept
<1> HIDE DEF g
<1> QED BY <1>6, <1>7, <1>8, EditedStaysConsistent

(* A trade is closed by the playbook, by its own exits, by a settlement or by the trader. *)
LEMMA CloseOneStaysConsistent ==
  ASSUME NEW name \in Of, P(name)!Consistent, P(name)!CloseOne
  PROVE  P(name)!Consistent'
<1>1. PICK i \in DOMAIN orders : /\ P(name)!MustClose(i)
         /\ \E lost \in Setup[name].outcomes :
              orders' \in {Append(orders, P(name)!CloseOf(i)), Append(P(name)!Closed(i, P(name)!NextOrder, lost), P(name)!CloseOf(i))}
         /\ P(name)!Kept
  BY DEF P!CloseOne
<1>2. P(name)!Held(i) /\ Len(orders) \in Nat
  BY <1>1 DEF P!MustClose, P!Consistent, P!PlaybooksTypeOK
<1> DEFINE r == P(name)!CloseOf(i)
<1>3. r \in P(name)!CloseOrders /\ r.time = market /\ r.kind = "close"
  BY NewOrders
<1>4. UNCHANGED <<catalogue, market, feed, priced, attempts>>
  BY <1>1 DEF P!Kept
<1>5. CASE orders' = Append(orders, r)
  <2>1. \A k \in DOMAIN orders : Onward(orders[k], orders[k], k)
    BY SameIsOnward
  <2>2. orders \in Seq(P(name)!EntryOrders \cup P(name)!CloseOrders)
    BY DEF P!Consistent, P!PlaybooksTypeOK
  <2> HIDE DEF r
  <2> QED BY <1>3, <1>4, <1>5, <2>1, <2>2, MovingOnStaysConsistent
<1>6. ASSUME NEW lost \in Setup[name].outcomes, orders' = Append(P(name)!Closed(i, P(name)!NextOrder, lost), r)
      PROVE  P(name)!Consistent'
  <2> DEFINE f == P(name)!Closed(i, Len(orders) + 1, lost)
  <2>1. lost \in BOOLEAN
    BY SetupAssumption DEF Of
  <2>2. /\ f \in Seq(P(name)!EntryOrders \cup P(name)!CloseOrders) /\ Len(f) = Len(orders)
        /\ \A k \in DOMAIN orders : Onward(orders[k], f[k], k)
    BY <1>2, <2>1, ClosedIsOnward
  <2>3. orders' = Append(f, r)
    BY <1>6 DEF P!NextOrder
  <2> HIDE DEF r, f
  <2> QED BY <1>3, <1>4, <2>2, <2>3, MovingOnStaysConsistent
<1> QED BY <1>1, <1>5, <1>6

LEMMA CloseStaysConsistent ==
  ASSUME NEW name \in Of, P(name)!Consistent, P(name)!Close
  PROVE  P(name)!Consistent'
<1>1. PICK i \in DOMAIN orders, lost \in Setup[name].outcomes :
        /\ P(name)!Market /\ P(name)!Held(i) /\ UNCHANGED attempts
        /\ \/ \E by \in {0, i} : orders' = P(name)!Closed(i, by, lost)
           \/ orders' = Append(P(name)!Closed(i, P(name)!NextOrder, lost), P(name)!CloseOf(i))
  BY DEF P!Close
<1> DEFINE r == P(name)!CloseOf(i)
<1>2. r \in P(name)!CloseOrders /\ r.time = market /\ r.kind = "close"
  BY NewOrders
<1>3. UNCHANGED <<catalogue, market, feed, priced>> /\ attempts' = attempts
  BY <1>1 DEF P!Market
<1>4. lost \in BOOLEAN
  BY SetupAssumption DEF Of
<1>5. ASSUME NEW by \in {0, i, Len(orders) + 1},
             orders' = P(name)!Closed(i, by, lost) \/ orders' = Append(P(name)!Closed(i, by, lost), r)
      PROVE  P(name)!Consistent'
  <2> DEFINE f == P(name)!Closed(i, by, lost)
  <2>1. /\ f \in Seq(P(name)!EntryOrders \cup P(name)!CloseOrders) /\ Len(f) = Len(orders)
        /\ \A k \in DOMAIN orders : Onward(orders[k], f[k], k)
    BY <1>1, <1>4, ClosedIsOnward
  <2>2. orders' = f \/ orders' = Append(f, r)
    BY <1>5
  <2> HIDE DEF r, f
  <2> QED BY <1>2, <1>3, <2>1, <2>2, MovingOnStaysConsistent
<1> QED BY <1>1, <1>5 DEF P!NextOrder

LEMMA FillStaysConsistent ==
  ASSUME NEW name \in Of, P(name)!Consistent, P(name)!Fill
  PROVE  P(name)!Consistent'
<1>1. PICK i \in DOMAIN orders :
        /\ P(name)!Market /\ P(name)!IsEntry(i) /\ orders[i].status = "working" /\ UNCHANGED attempts
        /\ orders' = [orders EXCEPT ![i].status = "filled", ![i].opened = market]
  BY DEF P!Fill
<1> DEFINE p == [[orders[i] EXCEPT !.status = "filled"] EXCEPT !.opened = market]
           f == [orders EXCEPT ![i] = p]
<1>2. /\ orders \in Seq(P(name)!EntryOrders \cup P(name)!CloseOrders) /\ DOMAIN orders = 1 .. Len(orders)
      /\ Len(orders) \in Nat /\ market \in Nat
  BY DEF P!Consistent, P!PlaybooksTypeOK
<1>3. orders[i] \in P(name)!EntryOrders /\ orders[i].kind = "entry"
  BY <1>1, OrderTypes DEF P!Consistent, P!IsEntry
<1>4. /\ p \in P(name)!EntryOrders /\ p.status = "filled" /\ p.kind = "entry" /\ p.time = orders[i].time
      /\ p.version = orders[i].version /\ p.actor = orders[i].actor /\ p.automatic = orders[i].automatic
      /\ p.opened = market /\ p.closed = orders[i].closed /\ p.closedBy = orders[i].closedBy
      /\ p.lost = orders[i].lost
  BY <1>2, <1>3 DEF P!EntryOrders
<1>5. orders' = f
  BY <1>1, <1>2, <1>3 DEF P!EntryOrders
<1> HIDE DEF p
<1>6. Onward(orders[i], p, i)
  BY <1>1, <1>3, <1>4 DEF Onward
<1>7. /\ f \in Seq(P(name)!EntryOrders \cup P(name)!CloseOrders) /\ Len(f) = Len(orders)
      /\ \A k \in DOMAIN orders : f[k] = IF k = i THEN p ELSE orders[k]
  BY <1>2, <1>4
<1> HIDE DEF f
<1>8. \A k \in DOMAIN orders : Onward(orders[k], f[k], k)
  BY <1>6, <1>7, SameIsOnward
<1>9. UNCHANGED <<catalogue, market, feed, priced, attempts>>
  BY <1>1 DEF P!Market
<1> QED BY <1>5, <1>7, <1>8, <1>9, EditedStaysConsistent

(* A reset closes what is held and cancels what works, and begins an attempt. *)
LEMMA ResetStaysConsistent ==
  ASSUME NEW name \in Of, P(name)!Consistent, P(name)!Reset
  PROVE  P(name)!Consistent'
<1>1. PICK lost \in Setup[name].outcomes :
        orders' = <<>> \o [i \in DOMAIN orders |->
          IF P(name)!Held(i) THEN [orders[i] EXCEPT !.closed = market, !.lost = lost]
          ELSE IF P(name)!Live(i) THEN [orders[i] EXCEPT !.status = "cancelled"] ELSE orders[i]]
  BY DEF P!Reset
<1> DEFINE f == [i \in DOMAIN orders |->
          IF P(name)!Held(i) THEN [orders[i] EXCEPT !.closed = market, !.lost = lost]
          ELSE IF P(name)!Live(i) THEN [orders[i] EXCEPT !.status = "cancelled"] ELSE orders[i]]
<1>2. /\ orders \in Seq(P(name)!EntryOrders \cup P(name)!CloseOrders) /\ DOMAIN orders = 1 .. Len(orders)
      /\ Len(orders) \in Nat /\ market \in Nat /\ lost \in BOOLEAN
  BY SetupAssumption DEF P!Consistent, P!PlaybooksTypeOK, Of
<1>3. ASSUME NEW k \in 1 .. Len(orders)
      PROVE  f[k] \in P(name)!EntryOrders \cup P(name)!CloseOrders /\ Onward(orders[k], f[k], k)
  <2> DEFINE p == [[orders[k] EXCEPT !.closed = market] EXCEPT !.lost = lost]
             q == [orders[k] EXCEPT !.status = "cancelled"]
  <2>1. f[k] = IF P(name)!Held(k) THEN p ELSE IF P(name)!Live(k) THEN q ELSE orders[k]
    BY <1>2
  <2>2. CASE P(name)!Held(k)
    <3>1. orders[k].kind = "entry" /\ orders[k].closed = 0 /\ orders[k].opened > 0
      BY <2>2 DEF P!Held, P!IsEntry
    <3>2. orders[k] \in P(name)!EntryOrders /\ orders[k].opened \in Nat
      BY <1>2, <3>1, OrderTypes DEF P!Consistent
    <3>3. orders[k].opened <= market /\ orders[k].closedBy = 0
      BY <1>2, <3>1 DEF P!Consistent, P!TimesPassed, P!IsEntry
    <3>4. /\ p \in P(name)!EntryOrders /\ p.status = orders[k].status /\ p.kind = "entry" /\ p.time = orders[k].time
          /\ p.version = orders[k].version /\ p.actor = orders[k].actor /\ p.automatic = orders[k].automatic
          /\ p.opened = orders[k].opened /\ p.closed = market /\ p.closedBy = orders[k].closedBy
      BY <1>2, <3>1, <3>2 DEF P!EntryOrders
    <3>5. f[k] = p
      BY <2>1, <2>2
    <3> HIDE DEF p, q, f
    <3> QED BY <1>2, <3>1, <3>2, <3>3, <3>4, <3>5 DEF Onward
  <2>3. CASE ~P(name)!Held(k) /\ P(name)!Live(k)
    <3>1. orders[k].kind = "entry" /\ orders[k].status = "working"
      BY <2>3 DEF P!Live, P!IsEntry
    <3>2. orders[k] \in P(name)!EntryOrders
      BY <1>2, <3>1, OrderTypes DEF P!Consistent
    <3>3. /\ q \in P(name)!EntryOrders /\ q.status = "cancelled" /\ q.kind = "entry" /\ q.time = orders[k].time
          /\ q.version = orders[k].version /\ q.actor = orders[k].actor /\ q.automatic = orders[k].automatic
          /\ q.opened = orders[k].opened /\ q.closed = orders[k].closed /\ q.closedBy = orders[k].closedBy
          /\ q.lost = orders[k].lost
      BY <3>2 DEF P!EntryOrders
    <3>4. f[k] = q
      BY <2>1, <2>3
    <3> HIDE DEF p, q, f
    <3> QED BY <3>1, <3>3, <3>4 DEF Onward
  <2>4. CASE ~P(name)!Held(k) /\ ~P(name)!Live(k)
    <3>1. f[k] = orders[k]
      BY <2>1, <2>4
    <3> HIDE DEF f
    <3> QED BY <1>2, <3>1, SameIsOnward
  <2> QED BY <2>2, <2>3, <2>4
<1>4. DOMAIN f = 1 .. Len(orders) /\ f = [k \in 1 .. Len(orders) |-> f[k]]
  BY <1>2
<1>5. orders' = <<>> \o f
  BY <1>1
<1> HIDE DEF f
<1>6. f \in Seq(P(name)!EntryOrders \cup P(name)!CloseOrders) /\ Len(f) = Len(orders)
  <2>1. f \in [1 .. Len(orders) -> P(name)!EntryOrders \cup P(name)!CloseOrders]
    BY <1>3, <1>4
  <2>2. f \in Seq(P(name)!EntryOrders \cup P(name)!CloseOrders)
    BY <1>2, <2>1
  <2> QED BY <1>2, <1>4, <2>2
<1>7. orders' = f
  BY <1>5, <1>6, ConcatEmptySeq
<1>8. \A k \in DOMAIN orders : Onward(orders[k], f[k], k)
  BY <1>2, <1>3
<1>9. UNCHANGED <<catalogue, market, feed, priced>> /\ attempts' = Append(attempts, Len(orders) + 1)
  BY DEF P!Reset, P!Market, P!NextOrder
<1> QED BY <1>6, <1>7, <1>8, <1>9, EditedStaysConsistent

(* What changes neither the record nor the market. *)
LEMMA UnmovedStaysConsistent ==
  ASSUME NEW name \in Of, P(name)!Consistent,
         UNCHANGED <<catalogue, orders, attempts, market, feed, priced>>
  PROVE  P(name)!Consistent'
<1>1. /\ market \in Nat /\ feed \in Nat /\ priced \in BOOLEAN
      /\ market <= feed /\ (priced => market = feed /\ market > 0)
      /\ \A i \in DOMAIN orders :
           /\ orders[i].time <= market
           /\ orders[i].kind = "entry" => orders[i].opened <= market /\ orders[i].closed <= market
  BY DEF P!Consistent, P!PlaybooksTypeOK, P!TimesPassed, P!IsEntry
<1> QED BY <1>1, QuietStaysConsistent

(* The trader's commands: an edit, a switch, a stage dismissed or sent. *)
LEMMA CommandStaysConsistent ==
  ASSUME NEW name \in Of, P(name)!Consistent, P(name)!Command
  PROVE  P(name)!Consistent'
<1> DEFINE C == [version : Nat, deleted : BOOLEAN, mode : {"off", "stage", "auto"}, windows : Seq(P(name)!Windows)]
<1>1. /\ catalogue \in C
      /\ catalogue.mode = "auto" /\ ~catalogue.deleted => market > 0
  BY DEF P!Consistent, P!PlaybooksTypeOK, P!WindowsInOrder
<1>2. ASSUME NEW c \in C, P(name)!Change(c), c.windows = catalogue.windows,
             c.mode = "auto" /\ ~c.deleted => market > 0
      PROVE  P(name)!Consistent'
  BY <1>2, ChangeStaysConsistent
<1>3. CASE P(name)!Create
  <2> DEFINE c == [catalogue EXCEPT !.version = 1]
  <2>1. c \in C /\ c.windows = catalogue.windows /\ c.mode = catalogue.mode /\ c.deleted = catalogue.deleted
    BY <1>1
  <2>2. P(name)!Change(c)
    BY <1>3 DEF P!Create
  <2> HIDE DEF c, C
  <2> QED BY <1>1, <1>2, <2>1, <2>2
<1>4. CASE P(name)!Update
  <2> DEFINE c == [catalogue EXCEPT !.version = @ + 1]
  <2>1. c \in C /\ c.windows = catalogue.windows /\ c.mode = catalogue.mode /\ c.deleted = catalogue.deleted
    BY <1>1
  <2>2. P(name)!Change(c)
    BY <1>4 DEF P!Update
  <2> HIDE DEF c, C
  <2> QED BY <1>1, <1>2, <2>1, <2>2
<1>5. CASE P(name)!Delete
  <2> DEFINE c == [catalogue EXCEPT !.deleted = TRUE, !.mode = "off"]
  <2>1. c \in C /\ c.windows = catalogue.windows /\ c.mode = "off"
    BY <1>1
  <2>2. P(name)!Change(c)
    BY <1>5 DEF P!Delete
  <2> HIDE DEF c, C
  <2> QED BY <1>1, <1>2, <2>1, <2>2
<1>6. CASE P(name)!SetMode
  <2>1. PICK mode \in Setup[name].modes :
          /\ mode = "auto" => market > 0
          /\ P(name)!Change([catalogue EXCEPT !.mode = mode])
    BY <1>6 DEF P!SetMode
  <2> DEFINE c == [catalogue EXCEPT !.mode = mode]
  <2>2. mode \in {"off", "stage", "auto"}
    BY SetupAssumption DEF Of
  <2>3. c \in C /\ c.windows = catalogue.windows /\ c.mode = mode
    BY <1>1, <2>2
  <2>4. P(name)!Change(c)
    BY <2>1
  <2> HIDE DEF c, C
  <2> QED BY <1>2, <2>1, <2>3, <2>4
<1>7. CASE P(name)!Dismiss \/ P(name)!Signal \/ P(name)!Send
  <2>1. UNCHANGED <<catalogue, orders, attempts, market, feed, priced>>
    BY <1>7 DEF P!Dismiss, P!Signal, P!Send
  <2> QED BY <2>1, UnmovedStaysConsistent
<1> QED BY <1>3, <1>4, <1>5, <1>6, <1>7 DEF P!Command

(* An entry sent by the system, or a trader's order for a stage. *)
LEMMA EntriesStaysConsistent ==
  ASSUME NEW name \in Of, P(name)!Consistent, P(name)!Entries
  PROVE  P(name)!Consistent'
<1>1. UNCHANGED <<catalogue, attempts, market, feed, priced>>
  BY DEF P!Entries, P!Kept
<1>2. CASE orders' = orders
  BY <1>1, <1>2, UnmovedStaysConsistent
<1>3. ASSUME NEW status \in {"working", "filled", "rejected"}, P(name)!MayEnter, catalogue.mode = "auto",
             orders' = Append(orders, P(name)!Entry("system", status))
      PROVE  P(name)!Consistent'
  <2> DEFINE e == P(name)!Entry("system", status)
  <2>1. /\ e \in P(name)!EntryOrders /\ e.time = market
        /\ e.opened <= market /\ e.closed = 0 /\ e.closedBy = 0
    BY NewOrders
  <2>2. /\ orders \in Seq(P(name)!EntryOrders \cup P(name)!CloseOrders)
        /\ \A k \in DOMAIN orders : Onward(orders[k], orders[k], k)
    BY SameIsOnward DEF P!Consistent, P!PlaybooksTypeOK
  <2>3. orders' = Append(orders, e)
    BY <1>3
  <2>4. Grows(name)
    <3> HIDE DEF e
    <3> QED BY <1>1, <2>1, <2>2, <2>3, GrowsFrom
  <2>5. ASSUME NEW i \in DOMAIN orders', i > Len(orders)
        PROVE  market > 0 /\ P(name)!CountedOnce(i)' /\ P(name)!NotAfterRefusal(i)' /\ P(name)!ScoredAsChecked(i)'
    BY <1>1, <1>3, <2>5, EnteredIsAccountedFor
  <2> QED BY <2>4, <2>5, GrowingStaysConsistent
<1> QED BY <1>2, <1>3 DEF P!Entries, P!Stage, P!Enter, P!Accepted, P!Rejected, P!Refused

LEMMA SubmitStaysConsistent ==
  ASSUME NEW name \in Of, P(name)!Consistent, P(name)!Submit
  PROVE  P(name)!Consistent'
<1>1. UNCHANGED <<catalogue, attempts, market, feed, priced>>
  BY DEF P!Submit, P!Kept
<1>2. CASE orders' = orders
  BY <1>1, <1>2, UnmovedStaysConsistent
<1>3. ASSUME NEW status \in {"working", "filled", "rejected"},
             orders' = Append(orders, P(name)!Entry("trader", status))
      PROVE  P(name)!Consistent'
  <2> DEFINE e == P(name)!Entry("trader", status)
  <2>1. /\ e \in P(name)!EntryOrders /\ e.time = market /\ e.actor = "trader"
        /\ e.opened <= market /\ e.closed = 0 /\ e.closedBy = 0
    BY NewOrders
  <2>2. /\ orders \in Seq(P(name)!EntryOrders \cup P(name)!CloseOrders)
        /\ \A k \in DOMAIN orders : Onward(orders[k], orders[k], k)
    BY SameIsOnward DEF P!Consistent, P!PlaybooksTypeOK
  <2>3. orders' = Append(orders, e)
    BY <1>3
  <2> HIDE DEF e
  <2> QED BY <1>1, <2>1, <2>2, <2>3, MovingOnStaysConsistent
<1> QED BY <1>2, <1>3 DEF P!Submit, P!Accepted, P!Rejected, P!Refused

(* The feed moves on; a restart puts the market back at the account's last record. *)
LEMMA BatchStaysConsistent ==
  ASSUME NEW name \in Of, P(name)!Consistent, P(name)!Batch
  PROVE  P(name)!Consistent'
<1>1. PICK t \in (IF feed = 0 THEN 1 ELSE feed) .. MaxTime :
        market' = P(name)!Latest({t, market}) /\ feed' = t /\ priced' = TRUE
  BY DEF P!Batch
<1>2. /\ market \in Nat /\ feed \in Nat /\ market <= feed /\ MaxTime \in Nat
      /\ \A i \in DOMAIN orders :
           /\ orders[i].time <= market /\ orders[i].time \in Nat
           /\ orders[i].kind = "entry" => /\ orders[i].opened <= market /\ orders[i].closed <= market
                                          /\ orders[i].opened \in Nat /\ orders[i].closed \in Nat
  BY OrderTypes, SetupAssumption DEF P!Consistent, P!PlaybooksTypeOK, P!TimesPassed, P!IsEntry
<1>3. t \in Nat /\ t >= feed /\ t > 0 /\ market <= t
  BY <1>2
<1>4. P(name)!Latest({t, market}) \in {t, market} /\ t <= P(name)!Latest({t, market})
  BY <1>2, <1>3, LatestOfTwo
<1>5. market' = t
  BY <1>1, <1>2, <1>3, <1>4
<1>6. UNCHANGED <<catalogue, orders, attempts>>
  BY DEF P!Batch
<1>7. \A i \in DOMAIN orders :
        /\ orders[i].time <= market'
        /\ orders[i].kind = "entry" => orders[i].opened <= market' /\ orders[i].closed <= market'
  BY <1>2, <1>3, <1>5
<1>8. /\ market' \in Nat /\ feed' \in Nat /\ priced' \in BOOLEAN /\ market' <= feed' /\ feed <= feed'
      /\ (priced' => market' = feed' /\ market' > 0) /\ (market > 0 => market' > 0)
  BY <1>1, <1>2, <1>3, <1>5
<1> QED BY <1>6, <1>7, <1>8, QuietStaysConsistent

LEMMA RestartStaysConsistent ==
  ASSUME NEW name \in Of, P(name)!Consistent, P(name)!Restart
  PROVE  P(name)!Consistent'
<1> DEFINE R == P(name)!Recorded
<1>1. /\ market \in Nat /\ feed \in Nat /\ market <= feed
      /\ \A i \in DOMAIN orders :
           /\ orders[i].time <= market /\ orders[i].time \in Nat
           /\ orders[i].kind = "entry" => /\ orders[i].opened <= market /\ orders[i].closed <= market
                                          /\ orders[i].opened \in Nat /\ orders[i].closed \in Nat
  BY OrderTypes DEF P!Consistent, P!PlaybooksTypeOK, P!TimesPassed, P!IsEntry
<1>2. UNCHANGED <<catalogue, orders, attempts, feed>> /\ priced' = FALSE
      /\ market' \in (IF market = 0 THEN {0} ELSE P(name)!Latest(R) .. market)
  BY DEF P!Restart
<1>3. CASE market = 0
  <2>1. market' = market
    BY <1>2, <1>3
  <2>2. /\ market' \in Nat /\ feed' \in Nat /\ priced' \in BOOLEAN /\ market' <= feed' /\ feed <= feed'
        /\ (priced' => market' = feed' /\ market' > 0) /\ (market > 0 => market' > 0)
    <3>1. feed' = feed /\ priced' = FALSE
      BY <1>2
    <3>2. priced' \in BOOLEAN /\ ~priced'
      BY <3>1, Zenon
    <3>3. market' \in Nat /\ feed' \in Nat /\ market' <= feed' /\ feed <= feed' /\ (market > 0 => market' > 0)
      BY <1>1, <2>1, <3>1
    <3> QED BY <3>2, <3>3
  <2>3. \A i \in DOMAIN orders :
          /\ orders[i].time <= market'
          /\ orders[i].kind = "entry" => orders[i].opened <= market' /\ orders[i].closed <= market'
    BY <1>1, <2>1
  <2> QED BY <1>2, <2>2, <2>3, QuietStaysConsistent
<1>4. CASE market > 0
  <2>1. /\ 1 \in R
        /\ \A i \in DOMAIN orders :
             /\ orders[i].time \in R
             /\ orders[i].kind = "entry" => orders[i].opened \in R /\ orders[i].closed \in R
    BY DEF P!Recorded, P!IsEntry
  <2>2. \A y \in R : y \in Nat /\ y <= market
    BY <1>1, <1>4 DEF P!Recorded, P!IsEntry
  <2> HIDE DEF R
  <2>3. R \subseteq Nat /\ R # {}
    BY <2>1, <2>2
  <2>4. P(name)!Latest(R) \in R /\ \A y \in R : y <= P(name)!Latest(R)
    BY <1>1, <2>2, <2>3, LatestBounds
  <2>5. market' \in P(name)!Latest(R) .. market /\ P(name)!Latest(R) \in Nat
    BY <1>1, <1>2, <1>4, <2>2, <2>4
  <2>6. market' \in Nat /\ market' <= market /\ P(name)!Latest(R) <= market' /\ market' > 0
    BY <1>1, <2>1, <2>4, <2>5
  <2>7. \A i \in DOMAIN orders :
          /\ orders[i].time <= market'
          /\ orders[i].kind = "entry" => orders[i].opened <= market' /\ orders[i].closed <= market'
    <3>1. \A y \in R : y <= market'
      <4>1. ASSUME NEW y \in R PROVE y <= market'
        <5>1. y \in Nat /\ y <= P(name)!Latest(R)
          BY <2>2, <2>4
        <5> QED BY <2>5, <2>6, <5>1
      <4> QED BY <4>1
    <3> QED BY <2>1, <3>1
  <2>8. feed' = feed /\ priced' = FALSE
    BY <1>2
  <2>9. feed' \in Nat /\ priced' \in BOOLEAN /\ market' <= feed' /\ feed <= feed' /\ ~priced'
    <3>1. priced' \in BOOLEAN /\ ~priced'
      BY <2>8, Zenon
    <3>2. feed' \in Nat /\ market' <= feed' /\ feed <= feed'
      BY <1>1, <2>6, <2>8
    <3> QED BY <3>1, <3>2
  <2> QED BY <1>2, <2>6, <2>7, <2>9, QuietStaysConsistent
<1> QED BY <1>1, <1>3, <1>4

LEMMA CatalogueBegins ==
  ASSUME NEW name \in Of, P(name)!Init
  PROVE  P(name)!Consistent
<1>1. P(name)!PlaybooksTypeOK
  <2>1. <<>> \in Seq(P(name)!Windows) /\ <<>> \in Seq(P(name)!EntryOrders \cup P(name)!CloseOrders)
        /\ <<1>> \in Seq(Nat)
    OBVIOUS
  <2> QED BY <2>1 DEF P!Init, P!PlaybooksTypeOK
<1>2. P(name)!TimesPassed
  BY DEF P!Init, P!TimesPassed
<1>3. P(name)!AttemptsInOrder
  BY DEF P!Init, P!AttemptsInOrder, P!NextOrder
<1>4. P(name)!WindowsInOrder
  BY DEF P!Init, P!WindowsInOrder
<1>5. P(name)!EntriesAccountedFor
  BY DEF P!Init, P!EntriesAccountedFor
<1> QED BY <1>1, <1>2, <1>3, <1>4, <1>5 DEF P!Consistent

LEMMA CatalogueStepsConsistent ==
  ASSUME NEW name \in Of, P(name)!Consistent, P(name)!Next
  PROVE  P(name)!Consistent'
<1>1. CASE P(name)!Command BY <1>1, CommandStaysConsistent
<1>2. CASE P(name)!Cancels BY <1>2, CancelsStaysConsistent
<1>3. CASE P(name)!CloseOne BY <1>3, CloseOneStaysConsistent
<1>4. CASE P(name)!Closes
  <2>1. UNCHANGED <<catalogue, orders, attempts, market, feed, priced>>
    BY <1>4 DEF P!Closes, P!Kept
  <2> QED BY <2>1, UnmovedStaysConsistent
<1>5. CASE P(name)!Entries BY <1>5, EntriesStaysConsistent
<1>6. CASE P(name)!Submit BY <1>6, SubmitStaysConsistent
<1>7. CASE P(name)!Batch BY <1>7, BatchStaysConsistent
<1>8. CASE P(name)!Fill BY <1>8, FillStaysConsistent
<1>9. CASE P(name)!Close BY <1>9, CloseStaysConsistent
<1>10. CASE P(name)!Reset BY <1>10, ResetStaysConsistent
<1>11. CASE P(name)!Restart BY <1>11, RestartStaysConsistent
<1> QED BY <1>1, <1>2, <1>3, <1>4, <1>5, <1>6, <1>7, <1>8, <1>9, <1>10, <1>11 DEF P!Next

(* Whatever was edited, switched, closed, reset or restarted in between, every automatic
   entry on the record is counted by one forward test, follows no refusal of its day, and is
   found within the guardrails. *)
THEOREM PlaybookEntriesAreAccountedFor == OutlivingSpec => []EntriesAccountedFor
<1> DEFINE all == <<part, vars, playbookVars>>
<1>1. OutlivingInit => CatalogueInvariant
  <2>1. SUFFICES ASSUME OutlivingInit, NEW name \in Of, part = name PROVE P(name)!Consistent
    BY DEF CatalogueInvariant, Of
  <2>2. PICK s \in Of : part \in {"journal", s} /\ P(s)!Init
    BY <2>1 DEF OutlivingInit, Of
  <2>3. P(name)!Init
    BY <2>2 DEF P!Init
  <2> QED BY <2>3, CatalogueBegins
<1>2. CatalogueInvariant /\ [OutlivingNext]_all => CatalogueInvariant'
  <2>0. SUFFICES ASSUME CatalogueInvariant, [OutlivingNext]_all, NEW name \in Of, part' = name
                 PROVE  P(name)!Consistent'
    BY DEF CatalogueInvariant, Of
  <2>1. CASE UNCHANGED <<part, playbookVars>>
    <3>1. UNCHANGED <<catalogue, orders, attempts, market, feed, priced>> /\ part = name
      BY <2>0, <2>1 DEF playbookVars
    <3> QED BY <2>0, <3>1, UnmovedStaysConsistent DEF CatalogueInvariant, Of
  <2>2. ASSUME NEW s \in Of, part = s, P(s)!Next, part' = part
        PROVE  P(name)!Consistent'
    <3>1. s = name /\ P(name)!Consistent
      BY <2>0, <2>2 DEF CatalogueInvariant, Of
    <3> QED BY <2>2, <3>1, CatalogueStepsConsistent
  <2> QED BY <2>0, <2>1, <2>2 DEF OutlivingNext, Of, playbookVars
<1>3. CatalogueInvariant => EntriesAccountedFor
  BY DEF CatalogueInvariant, EntriesAccountedFor, P!Consistent
<1> QED BY <1>1, <1>2, <1>3, PTL DEF OutlivingSpec

-----------------------------------------------------------------------------
(* The lock on the path *)

LockedAt == {"lost", "check", "holding", "gone", "cleared", "copying", "verified", "installed"}
OpenAt == LockedAt \cup {"lock", "contending"}

HasFile == \A p \in Procs : pc[p] \in OpenAt => fd[p] \in Inodes
HasLock == \A p \in Procs : pc[p] \in LockedAt => holder[fd[p]] = p
HasPath == \A p \in Procs : pc[p] \in Owning => fd[p] = path
HasRewrite == \A p \in Procs : pc[p] = "copying" => out[p] \in Inodes
Verified ==
  \A p \in Procs : pc[p] = "verified" /\ temp # NoFile => content[temp] = content[path]

LInv == LockTypeOK /\ HasFile /\ HasLock /\ HasPath /\ HasRewrite /\ Verified /\ AckedStay

-----------------------------------------------------------------------------

LEMMA InitLocks == LockAssumption => (LockInit => LInv)
<1> SUFFICES ASSUME LockAssumption, LockInit PROVE LInv
  OBVIOUS
<1>1. LockTypeOK
  BY DEF LockInit, LockTypeOK, Files, Labels, Ops
<1> QED
  BY <1>1 DEF LockInit, LInv, HasFile, HasLock, HasPath, HasRewrite, Verified, AckedStay, OpenAt, LockedAt, Owning

\* At most one process is past its check.
LEMMA OneOwner ==
  ASSUME LInv, NEW p \in Procs, NEW q \in Procs, pc[p] \in Owning, pc[q] \in Owning
  PROVE  p = q
  BY DEF LInv, HasLock, HasPath, LockedAt, Owning

\* An owner's path is a file.
LEMMA OwnedPath ==
  ASSUME LInv, NEW p \in Procs, pc[p] \in Owning
  PROVE  path \in Inodes /\ fd[p] = path /\ holder[path] = p
  BY DEF LInv, HasFile, HasLock, HasPath, OpenAt, LockedAt, Owning

\* Steps that open nothing, lock nothing and move a process to a state with no
\* obligations.
LEMMA QuietSteps ==
  ASSUME LInv, LockAssumption, NEW p \in Procs,
         \/ \E o \in Ops : Start(p, o)
         \/ Missing(p) \/ CreateLoses(p)
  PROVE  LInv'
<1> USE DEF names
<1>1. /\ UNCHANGED <<names, content, holder, fd, out, acknowledged>>
      /\ \A q \in Procs : pc'[q] = pc[q] \/ pc'[q] \in {"create", "open", "cleanup", "idle", "contend"}
      /\ pc' \in [Procs -> Labels] /\ op' \in [Procs -> Ops]
  <2>1. ASSUME NEW o \in Ops, Start(p, o)
        PROVE  <1>1!1 /\ <1>1!2 /\ <1>1!3
    BY <2>1 DEF Start, LInv, LockTypeOK, Labels, Ops
  <2>2. CASE Missing(p) \/ CreateLoses(p)
    BY <2>2 DEF Missing, CreateLoses, Goto, Failed, LInv, LockTypeOK, Labels, Ops
  <2> QED
    BY <2>1, <2>2
<1>2. LockTypeOK'
  BY <1>1 DEF LInv, LockTypeOK
<1> QED
  BY <1>1, <1>2 DEF LInv, HasFile, HasLock, HasPath, HasRewrite, Verified, AckedStay, OpenAt, LockedAt, Owning

\* A process that closes its files disturbs nobody.
LEMMA LeaveSteps ==
  ASSUME LInv, LockAssumption, NEW p \in Procs, NEW label \in {"idle", "cleanup"},
         Leave(p, label), UNCHANGED <<names, content, acknowledged>>
  PROVE  LInv'
<1> USE DEF names
<1>1. /\ \A q \in Procs : q # p => pc'[q] = pc[q] /\ fd'[q] = fd[q] /\ out'[q] = out[q]
      /\ pc'[p] = label
      /\ \A i \in Inodes : \A q \in Procs : q # p /\ holder[i] = q => holder'[i] = q
  BY DEF Leave, Release, Goto, LInv, LockTypeOK
<1>2. LockTypeOK'
  BY DEF Leave, Release, Goto, LInv, LockTypeOK, Labels, Files, Ops
<1> QED
  BY <1>1, <1>2 DEF LInv, HasFile, HasLock, HasPath, HasRewrite, Verified, AckedStay, OpenAt, LockedAt, Owning

\* Opening: no lock yet, or the loser's lock on its way out.
LEMMA OpenSteps ==
  ASSUME LInv, LockAssumption, NEW p \in Procs, Open(p) \/ Contend(p) \/ CreateJournal(p)
  PROVE  LInv'
<1> USE DEF names
<1>1. CASE Open(p) \/ Contend(p)
  <2>1. /\ path \in Inodes /\ fd' = [fd EXCEPT ![p] = path] /\ UNCHANGED <<names, content, holder, out, acknowledged>>
        /\ \A q \in Procs : q # p => pc'[q] = pc[q]
        /\ pc'[p] \in {"lock", "contending"}
    BY <1>1 DEF Open, Contend, Goto, LInv, LockTypeOK, Files
  <2>2. LockTypeOK'
    BY <1>1, <2>1 DEF Open, Contend, Goto, LInv, LockTypeOK, Labels, Files
  <2> QED
    BY <2>1, <2>2 DEF LInv, LockTypeOK, HasFile, HasLock, HasPath, HasRewrite, Verified, AckedStay, OpenAt, LockedAt, Owning
<1>2. CASE CreateJournal(p)
  <2>1. PICK i \in Inodes :
          /\ ~InUse(i)
          /\ path' = i
          /\ content' = [content EXCEPT ![i] = {}]
          /\ fd' = [fd EXCEPT ![p] = i]
    BY <1>2 DEF CreateJournal
  <2>2. /\ path = NoFile /\ acknowledged = {} /\ acknowledged' = {} /\ UNCHANGED <<temp, holder, out>>
        /\ \A q \in Procs : q # p => pc'[q] = pc[q]
        /\ pc'[p] = "lock"
    BY <1>2 DEF CreateJournal, Goto, LInv, LockTypeOK, AckedStay
  <2>3. \A q \in Procs : pc[q] \notin Owning
    BY <2>2, OwnedPath, LockAssumption DEF LockAssumption
  <2>4. LockTypeOK'
    BY <1>2, <2>1 DEF CreateJournal, Goto, LInv, LockTypeOK, Labels, Files
  <2> QED
    BY <2>1, <2>2, <2>3, <2>4 DEF LInv, LockTypeOK, HasFile, HasLock, HasPath, HasRewrite, Verified, AckedStay,
                                  OpenAt, LockedAt, Owning
<1> QED
  BY <1>1, <1>2

\* Locking takes a free lock, and the check compares the file with the path.
LEMMA LockSteps ==
  ASSUME LInv, LockAssumption, NEW p \in Procs, LoserLocks(p) \/ Lock(p) \/ Check(p)
  PROVE  LInv'
<1> USE DEF names
<1>1. CASE LoserLocks(p) \/ Lock(p)
  <2>1. /\ fd[p] \in Inodes /\ holder[fd[p]] = NoProc /\ holder' = [holder EXCEPT ![fd[p]] = p]
        /\ UNCHANGED <<names, content, fd, out, acknowledged>>
        /\ \A q \in Procs : q # p => pc'[q] = pc[q]
        /\ pc'[p] \in {"check", "lost"}
    BY <1>1 DEF LoserLocks, Lock, Goto, LInv, LockTypeOK, HasFile, OpenAt
  <2>2. \A q \in Procs : pc[q] \in LockedAt => fd[q] # fd[p]
    BY <2>1, LockAssumption DEF LockAssumption, LInv, HasLock
  <2>3. LockTypeOK'
    BY <1>1, <2>1 DEF LoserLocks, Lock, Goto, LInv, LockTypeOK, Labels
  <2> QED
    BY <2>1, <2>2, <2>3 DEF LInv, LockTypeOK, HasFile, HasLock, HasPath, HasRewrite, Verified, AckedStay,
                            OpenAt, LockedAt, Owning
<1>2. CASE Check(p)
  <2>1. /\ pc[p] = "check" /\ path = fd[p] /\ UNCHANGED <<names, content, holder, fd, out, acknowledged>>
        /\ \A q \in Procs : q # p => pc'[q] = pc[q]
        /\ pc'[p] = "holding"
    BY <1>2 DEF Check, StillNamed, Goto, LInv, LockTypeOK
  <2>2. LockTypeOK'
    BY <1>2 DEF Check, Goto, LInv, LockTypeOK, Labels
  <2> QED
    BY <2>1, <2>2 DEF LInv, HasFile, HasLock, HasPath, HasRewrite, Verified, AckedStay, OpenAt, LockedAt, Owning
<1> QED
  BY <1>1, <1>2

\* The owner appends, removes or discards; nobody else is past its check.
LEMMA OwnerSteps ==
  ASSUME LInv, LockAssumption, NEW p \in Procs, AppendRecord(p) \/ Remove(p) \/ Discard(p)
  PROVE  LInv'
<1> USE DEF names
<1>0. /\ pc[p] = "holding" /\ pc[p] \in Owning /\ path \in Inodes /\ fd[p] = path /\ holder[path] = p
  BY OwnedPath DEF AppendRecord, Remove, Discard, Owning
<1>1. \A q \in Procs : pc[q] \in Owning => q = p
  BY <1>0, OneOwner
<1>2. CASE AppendRecord(p)
  <2>1. PICK r \in LockRecords :
          /\ content' = [content EXCEPT ![path] = @ \cup {r}]
          /\ acknowledged' \in {acknowledged, acknowledged \cup {r}}
    BY <1>0, <1>2 DEF AppendRecord
  <2>2. UNCHANGED <<names, holder, pc, op, fd, out>>
    BY <1>2 DEF AppendRecord
  <2>3. LockTypeOK'
    BY <1>0, <2>1, <2>2 DEF LInv, LockTypeOK
  <2>4. AckedStay'
    BY <1>0, <2>1, <2>2, LockAssumption DEF LockAssumption, LInv, LockTypeOK, AckedStay
  <2>5. Verified'
    BY <1>0, <1>1, <2>2 DEF Verified, Owning
  <2> QED
    BY <2>2, <2>3, <2>4, <2>5 DEF LInv, HasFile, HasLock, HasPath, HasRewrite
<1>3. CASE Remove(p) \/ Discard(p)
  <2>1. acknowledged' = {}
    <3>1. CASE Remove(p)
      BY <3>1 DEF Remove
    <3>2. CASE Discard(p)
      BY <1>0, <3>2, LockAssumption DEF Discard, Discardable, LockAssumption, LInv, AckedStay
    <3> QED
      BY <1>3, <3>1, <3>2
  <2>2. /\ path' = NoFile /\ UNCHANGED <<temp, kept, content, holder, fd, out>>
        /\ \A q \in Procs : q # p => pc'[q] = pc[q]
        /\ pc'[p] = "gone" /\ pc' \in [Procs -> Labels] /\ op' = op
    BY <1>3 DEF Remove, Discard, Goto, LInv, LockTypeOK, Labels
  <2>3. LockTypeOK'
    BY <2>1, <2>2 DEF LInv, LockTypeOK, Files
  <2>4. \A q \in Procs : pc'[q] \notin Owning
    BY <1>1, <2>2 DEF Owning
  <2> QED
    BY <1>0, <2>1, <2>2, <2>3, <2>4 DEF LInv, HasFile, HasLock, HasPath, HasRewrite, Verified, AckedStay,
                                        OpenAt, LockedAt, Owning
<1> QED
  BY <1>2, <1>3

\* So does a compaction, until the rewrite is the journal.
LEMMA CompactSteps ==
  ASSUME LInv, LockAssumption, NEW p \in Procs,
         ClearRewrite(p) \/ CreateRewrite(p) \/ CopyRecord(p) \/ Verify(p) \/ Install(p)
  PROVE  LInv'
<1> USE DEF names
<1>0. /\ pc[p] \in Owning /\ path \in Inodes /\ fd[p] = path /\ holder[path] = p
  <2>1. pc[p] \in Owning
    BY DEF ClearRewrite, CreateRewrite, CopyRecord, Verify, Install, Owning
  <2> QED
    BY <2>1, OwnedPath
<1>1. \A q \in Procs : pc[q] \in Owning => q = p
  BY <1>0, OneOwner
<1>2. CASE ClearRewrite(p)
  <2>1. /\ temp' = NoFile /\ UNCHANGED <<path, kept, content, holder, fd, out, acknowledged>>
        /\ \A q \in Procs : q # p => pc'[q] = pc[q]
        /\ pc'[p] = "cleared" /\ pc' \in [Procs -> Labels] /\ op' = op
    BY <1>2 DEF ClearRewrite, Goto, LInv, LockTypeOK, Labels
  <2>2. LockTypeOK'
    BY <2>1 DEF LInv, LockTypeOK, Files
  <2> QED
    BY <1>0, <2>1, <2>2 DEF LInv, HasFile, HasLock, HasPath, HasRewrite, Verified, AckedStay,
                            OpenAt, LockedAt, Owning
<1>3. CASE CreateRewrite(p)
  <2>1. PICK i \in Inodes :
          /\ ~InUse(i) /\ temp' = i
          /\ content' = [content EXCEPT ![i] = {}] /\ out' = [out EXCEPT ![p] = i]
    BY <1>3 DEF CreateRewrite
  <2>2. /\ UNCHANGED <<path, kept, holder, fd, acknowledged>>
        /\ \A q \in Procs : q # p => pc'[q] = pc[q]
        /\ pc'[p] = "copying" /\ pc' \in [Procs -> Labels] /\ op' = op
    BY <1>3 DEF CreateRewrite, Goto, LInv, LockTypeOK, Labels
  <2>3. i # path
    BY <2>1 DEF InUse
  <2>4. LockTypeOK'
    BY <2>1, <2>2 DEF LInv, LockTypeOK, Files
  <2>5. AckedStay'
    BY <1>0, <2>1, <2>2, <2>3, LockAssumption DEF LockAssumption, LInv, LockTypeOK, AckedStay
  <2>6. Verified'
    BY <1>1, <2>2 DEF Verified, Owning
  <2>7. HasRewrite'
    BY <2>1, <2>2 DEF LInv, LockTypeOK, HasRewrite
  <2> QED
    BY <1>0, <2>2, <2>4, <2>5, <2>6, <2>7 DEF LInv, HasFile, HasLock, HasPath, OpenAt, LockedAt, Owning
<1>4. CASE CopyRecord(p)
  <2>1. pc[p] = "copying" /\ out[p] \in Inodes /\ UNCHANGED <<names, holder, pc, op, fd, out, acknowledged>>
    BY <1>4 DEF CopyRecord, LInv, HasRewrite
  <2>2. PICK r \in content[fd[p]] \ content[out[p]] :
          content' = [content EXCEPT ![out[p]] = @ \cup {r}]
    BY <1>4 DEF CopyRecord
  <2>3. r \in LockRecords
    BY <1>0, <2>2 DEF LInv, LockTypeOK
  <2>4. LockTypeOK'
    BY <2>1, <2>2, <2>3 DEF LInv, LockTypeOK
  <2>5. content[path] \subseteq content'[path]
    BY <1>0, <2>1, <2>2 DEF LInv, LockTypeOK
  <2>6. AckedStay'
    BY <1>0, <2>1, <2>5, LockAssumption DEF LockAssumption, LInv, AckedStay
  <2>7. Verified'
    BY <1>1, <2>1 DEF Verified, Owning
  <2> QED
    BY <2>1, <2>4, <2>6, <2>7 DEF LInv, HasFile, HasLock, HasPath, HasRewrite
<1>5. CASE Verify(p)
  <2>1. /\ temp # NoFile /\ content[temp] = content[path] /\ UNCHANGED <<names, content, holder, fd, acknowledged>>
        /\ out' = [out EXCEPT ![p] = NoFile]
        /\ \A q \in Procs : q # p => pc'[q] = pc[q]
        /\ pc'[p] = "verified" /\ pc' \in [Procs -> Labels] /\ op' = op
    BY <1>0, <1>5 DEF Verify, RewriteMatches, Goto, LInv, LockTypeOK, Labels
  <2>2. LockTypeOK'
    BY <2>1 DEF LInv, LockTypeOK, Files
  <2>3. HasRewrite'
    BY <2>1 DEF LInv, LockTypeOK, HasRewrite
  <2> QED
    BY <1>0, <2>1, <2>2, <2>3 DEF LInv, HasFile, HasLock, HasPath, Verified, AckedStay, OpenAt, LockedAt, Owning
<1>6. CASE Install(p)
  <2>1. /\ pc[p] = "verified" /\ temp # NoFile /\ kept' = kept \cup {path} /\ path' = temp /\ temp' = NoFile
        /\ UNCHANGED <<content, holder, fd, out, acknowledged>>
        /\ \A q \in Procs : q # p => pc'[q] = pc[q]
        /\ pc'[p] = "installed" /\ pc' \in [Procs -> Labels] /\ op' = op
    BY <1>6 DEF Install, Goto, LInv, LockTypeOK, Labels
  <2>2. LockTypeOK'
    BY <1>0, <2>1 DEF LInv, LockTypeOK, Files
  <2>3. \A q \in Procs : pc'[q] \notin Owning
    BY <1>1, <2>1 DEF Owning
  <2>4. content[temp] = content[path]
    BY <2>1 DEF LInv, Verified
  <2>5. AckedStay'
    BY <1>0, <2>1, <2>4, LockAssumption DEF LockAssumption, LInv, AckedStay
  <2> QED
    BY <1>0, <2>1, <2>2, <2>3, <2>5 DEF LInv, HasFile, HasLock, HasPath, HasRewrite, Verified,
                                        OpenAt, LockedAt, Owning
<1> QED
  BY <1>2, <1>3, <1>4, <1>5, <1>6

\* The handler of a failed compaction may take away another's rewrite, no more.
LEMMA CleanupStep ==
  ASSUME LInv, LockAssumption, NEW p \in Procs, Cleanup(p)
  PROVE  LInv'
<1> USE DEF names
<1>1. /\ temp' = NoFile /\ UNCHANGED <<path, kept, content, holder, fd, out, acknowledged>>
      /\ \A q \in Procs : q # p => pc'[q] = pc[q]
      /\ pc'[p] = "idle"
  BY DEF Cleanup, Goto, LInv, LockTypeOK
<1>2. LockTypeOK'
  BY <1>1 DEF Cleanup, Goto, LInv, LockTypeOK, Labels, Files, Ops
<1> QED
  BY <1>1, <1>2 DEF LInv, HasFile, HasLock, HasPath, HasRewrite, Verified, AckedStay, OpenAt, LockedAt, Owning

LEMMA StepLocks ==
  ASSUME LInv, LockAssumption, NEW p \in Procs, LockStep(p)
  PROVE  LInv'
<1>1. CASE \/ Lose(p) \/ Locked(p) \/ Replaced(p) \/ CloseJournal(p) \/ CompactFails(p) \/ Die(p)
  <2>1. /\ Leave(p, "idle") \/ Leave(p, "cleanup")
        /\ UNCHANGED <<names, content, acknowledged>>
    BY <1>1 DEF Lose, Locked, Replaced, CloseJournal, CompactFails, Die, Failed
  <2> QED
    BY <2>1, LeaveSteps
<1> QED
  BY <1>1, QuietSteps, OpenSteps, LockSteps, OwnerSteps, CompactSteps, CleanupStep DEF LockStep

LEMMA NextLocks == ASSUME LInv, LockAssumption, [LockNext]_lockVars PROVE LInv'
<1>1. CASE UNCHANGED lockVars
  BY <1>1 DEF lockVars, names, LInv, LockTypeOK, HasFile, HasLock, HasPath, HasRewrite, Verified, AckedStay
<1> QED
  BY <1>1, StepLocks DEF LockNext

THEOREM LockInvariant == LockSpec => []LInv
<1>1. LInv /\ [LockNext]_lockVars => LInv'
  BY NextLocks, LockAssumption
<1> QED
  BY <1>1, InitLocks, LockAssumption, PTL DEF LockSpec

\* Type correctness of the lock protocol.
THEOREM LockTypes == LockSpec => []LockTypeOK
<1>1. LInv => LockTypeOK
  BY DEF LInv
<1> QED
  BY <1>1, LockInvariant, PTL

\* For any number of processes, whoever is past the check of open_locked holds the
\* lock of the file the path names, until it removes or replaces that file itself.
THEOREM OwnershipExclusive == LockSpec => []OwnerOwnsThePath
<1>1. LInv => OwnerOwnsThePath
  BY OwnedPath DEF OwnerOwnsThePath
<1> QED
  BY <1>1, LockInvariant, PTL

\* No race of daemons, removals and rewrites takes an acknowledged record off the path.
THEOREM AckedNeverLost == LockSpec => []AckedStay
<1>1. LInv => AckedStay
  BY DEF LInv
<1> QED
  BY <1>1, LockInvariant, PTL

\* What a compaction renames over the path equals what the path named.
THEOREM RewriteWhole == LockSpec => RewritesAreWhole
<1>1. LInv /\ [LockNext]_lockVars => (path' # path /\ path # NoFile /\ path' # NoFile => content'[path'] = content[path])
  <2> SUFFICES ASSUME LInv, LockNext, path' # path, path # NoFile, path' # NoFile
               PROVE  content'[path'] = content[path]
    BY DEF lockVars, names
  <2>1. PICK p \in Procs : LockStep(p)
    BY DEF LockNext
  <2>2. Install(p)
    BY <2>1 DEF LockStep, Start, Open, Missing, CreateJournal, CreateLoses, Contend, LoserLocks, Lose, Lock, Locked, Check,
                Replaced, AppendRecord, CloseJournal, Remove, Discard, ClearRewrite, CreateRewrite, CopyRecord, Verify,
                CompactFails, Cleanup, Die, names
  <2> QED
    BY <2>2 DEF Install, LInv, Verified
<1> QED
  BY <1>1, LockInvariant, PTL DEF LockSpec, RewritesAreWhole

=============================================================================
