---------------------------- MODULE JournalLock ----------------------------
(***************************************************************************)
(* How processes share one journal path: open_locked, open_journal and     *)
(* remove (src/trading/journal.cpp, src/server/desk.cpp) and the rewrite   *)
(* of compact_journal, which renames a new file over the path.             *)
(*                                                                         *)
(* A lock belongs to a file, not to its name.  Between a process's open    *)
(* and its lock another may unlink or replace the file, so the path is     *)
(* looked at again after the lock.  Every system call is a step.           *)
(***************************************************************************)
EXTENDS Naturals, FiniteSets

CONSTANTS
  Procs,        \* processes: daemons, tools, replay hosts
  Inodes,       \* files of the directory; a released one is used again
  NoFile, NoProc,
  MaxAppends,   \* bound: records appended
  MaxBackups    \* bound: compactions that install their rewrite

ASSUME LockAssumption ==
  /\ NoFile \notin Inodes /\ NoProc \notin Procs
  /\ MaxAppends \in Nat /\ MaxBackups \in Nat

Ops == {"serve", "remove", "compact"}

VARIABLES
  path,      \* the file FILE.jsonl names
  temp,      \* the file FILE.jsonl.compacting names
  kept,      \* the files the .bak hard links name
  content,   \* the records of a file
  holder,    \* who holds the lock of a file
  pc, op,    \* where a process is, and what it is doing
  fd,        \* the journal file it has open
  out,       \* the rewrite it has open
  acknowledged      \* history: records whose append returned and nobody deleted

names == <<path, temp, kept>>
lockVars == <<names, content, holder, pc, op, fd, out, acknowledged>>

LockRecords == 1 .. MaxAppends

-----------------------------------------------------------------------------
(* The file system *)

InUse(i) ==
  \/ i \in {path, temp} \cup kept
  \/ \E p \in Procs : fd[p] = i \/ out[p] = i

\* Closing a file releases its lock.
Release(p) ==
  holder' = [i \in Inodes |-> IF holder[i] = p /\ i = fd[p] THEN NoProc ELSE holder[i]]

Goto(p, label) ==
  /\ pc' = [pc EXCEPT ![p] = label]
  /\ op' = IF label = "idle" THEN [op EXCEPT ![p] = "serve"] ELSE op

\* Whatever it was doing, p has no file open and no lock.
Leave(p, label) ==
  /\ Release(p)
  /\ fd' = [fd EXCEPT ![p] = NoFile] /\ out' = [out EXCEPT ![p] = NoFile]
  /\ Goto(p, label)

\* A failed compaction is only noticed once its lock is gone: the exception
\* has closed the journal before the handler removes the rewrite.
Failed(p) == IF op[p] = "compact" THEN "cleanup" ELSE "idle"

-----------------------------------------------------------------------------
(* Opening *)

\* open_journal looks whether there is a journal before it opens or creates
\* one; removals and compactions open what must be there.
Start(p, o) ==
  /\ pc[p] = "idle"
  /\ op' = [op EXCEPT ![p] = o]
  /\ pc' = [pc EXCEPT ![p] = IF o = "serve" /\ path = NoFile THEN "create" ELSE "open"]
  /\ UNCHANGED <<names, content, holder, fd, out, acknowledged>>

Open(p) ==
  /\ pc[p] = "open" /\ path # NoFile
  /\ fd' = [fd EXCEPT ![p] = path]
  /\ Goto(p, "lock")
  /\ UNCHANGED <<names, content, holder, out, acknowledged>>

Missing(p) ==
  /\ pc[p] \in {"open", "contend"} /\ path = NoFile
  /\ Goto(p, Failed(p))
  /\ UNCHANGED <<names, content, holder, fd, out, acknowledged>>

\* O_CREAT | O_EXCL: the file is there before its creator has the lock.
CreateJournal(p) ==
  /\ pc[p] = "create" /\ path = NoFile
  /\ \E i \in Inodes :
       /\ ~InUse(i)
       /\ path' = i
       /\ content' = [content EXCEPT ![i] = {}]
       /\ fd' = [fd EXCEPT ![p] = i]
  /\ Goto(p, "lock")
  /\ UNCHANGED <<temp, kept, holder, out, acknowledged>>

\* EEXIST: somebody won the race, and is looked for by locking the file.
CreateLoses(p) ==
  /\ pc[p] = "create" /\ path # NoFile
  /\ Goto(p, "contend")
  /\ UNCHANGED <<names, content, holder, fd, out, acknowledged>>

Contend(p) ==
  /\ pc[p] = "contend" /\ path # NoFile
  /\ fd' = [fd EXCEPT ![p] = path]
  /\ Goto(p, "contending")
  /\ UNCHANGED <<names, content, holder, out, acknowledged>>

\* Whatever the loser finds it closes the file again, having held its lock.
LoserLocks(p) ==
  /\ pc[p] = "contending" /\ holder[fd[p]] = NoProc
  /\ holder' = [holder EXCEPT ![fd[p]] = p]
  /\ Goto(p, "lost")
  /\ UNCHANGED <<names, content, fd, out, acknowledged>>

Lose(p) ==
  /\ \/ pc[p] = "lost"
     \/ pc[p] = "contending" /\ holder[fd[p]] # NoProc
  /\ Leave(p, "idle")
  /\ UNCHANGED <<names, content, acknowledged>>

Lock(p) ==
  /\ pc[p] = "lock" /\ holder[fd[p]] = NoProc
  /\ holder' = [holder EXCEPT ![fd[p]] = p]
  /\ Goto(p, "check")
  /\ UNCHANGED <<names, content, fd, out, acknowledged>>

\* JOURNAL_LOCKED.
Locked(p) ==
  /\ pc[p] = "lock" /\ holder[fd[p]] # NoProc
  /\ Leave(p, Failed(p))
  /\ UNCHANGED <<names, content, acknowledged>>

\* Mutation: the path is not looked at again after the lock.
StillNamedUnchecked(p) == TRUE
StillNamed(p) == path = fd[p]

Check(p) ==
  /\ pc[p] = "check" /\ StillNamed(p)
  /\ Goto(p, "holding")
  /\ UNCHANGED <<names, content, holder, fd, out, acknowledged>>

\* "Journal was removed or replaced while opening it".
Replaced(p) ==
  /\ pc[p] = "check" /\ ~StillNamed(p)
  /\ Leave(p, Failed(p))
  /\ UNCHANGED <<names, content, acknowledged>>

-----------------------------------------------------------------------------
(* Using the journal *)

\* Some records are in the file but were never acknowledged: their sync failed.
AppendRecord(p) ==
  /\ pc[p] = "holding" /\ op[p] = "serve"
  /\ \E r \in LockRecords :
       /\ \A i \in Inodes : r \notin content[i]
       /\ r \notin acknowledged
       /\ content' = [content EXCEPT ![fd[p]] = @ \cup {r}]
       /\ acknowledged' \in {acknowledged, acknowledged \cup {r}}
  /\ UNCHANGED <<names, holder, pc, op, fd, out>>

CloseJournal(p) ==
  /\ pc[p] \in {"holding", "gone", "installed"}
  /\ Leave(p, "idle")
  /\ UNCHANGED <<names, content, acknowledged>>

\* FileJournal::remove deletes whatever the journal holds.
Remove(p) ==
  /\ pc[p] = "holding" /\ op[p] = "remove"
  /\ path' = NoFile /\ acknowledged' = {}
  /\ Goto(p, "gone")
  /\ UNCHANGED <<temp, kept, content, holder, fd, out>>

\* Mutation: an account is discarded whatever was recorded of it.
DiscardableAlways(p) == TRUE
\* A startup finds a journal with no record, or the first append of a new
\* account failed: the file goes, by its path, while its lock is held.
Discardable(p) == content[fd[p]] \cap acknowledged = {}

Discard(p) ==
  /\ pc[p] = "holding" /\ op[p] = "serve"
  /\ Discardable(p)
  /\ path' = NoFile
  /\ Goto(p, "gone")
  /\ UNCHANGED <<temp, kept, content, holder, fd, out, acknowledged>>

-----------------------------------------------------------------------------
(* Compaction *)

ClearRewrite(p) ==
  /\ pc[p] = "holding" /\ op[p] = "compact"
  /\ temp' = NoFile
  /\ Goto(p, "cleared")
  /\ UNCHANGED <<path, kept, content, holder, fd, out, acknowledged>>

CreateRewrite(p) ==
  /\ pc[p] = "cleared" /\ temp = NoFile
  /\ \E i \in Inodes :
       /\ ~InUse(i)
       /\ temp' = i
       /\ content' = [content EXCEPT ![i] = {}]
       /\ out' = [out EXCEPT ![p] = i]
  /\ Goto(p, "copying")
  /\ UNCHANGED <<path, kept, holder, fd, acknowledged>>

CopyRecord(p) ==
  /\ pc[p] = "copying"
  /\ \E r \in content[fd[p]] \ content[out[p]] :
       content' = [content EXCEPT ![out[p]] = @ \cup {r}]
  /\ UNCHANGED <<names, holder, pc, op, fd, out, acknowledged>>

\* The rewrite is read back through its name and must recover to the same account.
RewriteMatches(p) == temp # NoFile /\ content[temp] = content[fd[p]]

Verify(p) ==
  /\ pc[p] = "copying" /\ RewriteMatches(p)
  /\ Goto(p, "verified")
  /\ out' = [out EXCEPT ![p] = NoFile]
  /\ UNCHANGED <<names, content, holder, fd, acknowledged>>

\* The original keeps a name of its own, then the rewrite takes the path.
Install(p) ==
  /\ pc[p] = "verified" /\ temp # NoFile
  /\ Cardinality(kept) < MaxBackups
  /\ kept' = kept \cup {path}
  /\ path' = temp /\ temp' = NoFile
  /\ Goto(p, "installed")
  /\ UNCHANGED <<content, holder, fd, out, acknowledged>>

\* Any call of a compaction may fail.
CompactFails(p) ==
  /\ pc[p] \in {"holding", "cleared", "copying", "verified", "installed"} /\ op[p] = "compact"
  /\ Leave(p, "cleanup")
  /\ UNCHANGED <<names, content, acknowledged>>

\* The handler removes the rewrite by its path: by then another compaction's.
Cleanup(p) ==
  /\ pc[p] = "cleanup"
  /\ temp' = NoFile
  /\ Goto(p, "idle")
  /\ UNCHANGED <<path, kept, content, holder, fd, out, acknowledged>>

\* A process can die anywhere; the system closes its files.
Die(p) ==
  /\ pc[p] # "idle"
  /\ Leave(p, "idle")
  /\ UNCHANGED <<names, content, acknowledged>>

-----------------------------------------------------------------------------

LockInit ==
  /\ path = NoFile /\ temp = NoFile /\ kept = {}
  /\ content = [i \in Inodes |-> {}]
  /\ holder = [i \in Inodes |-> NoProc]
  /\ pc = [p \in Procs |-> "idle"]
  /\ op = [p \in Procs |-> "serve"]
  /\ fd = [p \in Procs |-> NoFile] /\ out = [p \in Procs |-> NoFile]
  /\ acknowledged = {}

LockStep(p) ==
  \/ \E o \in Ops : Start(p, o)
  \/ Open(p) \/ Missing(p) \/ CreateJournal(p) \/ CreateLoses(p) \/ Contend(p)
  \/ LoserLocks(p) \/ Lose(p) \/ Lock(p) \/ Locked(p) \/ Check(p) \/ Replaced(p)
  \/ AppendRecord(p) \/ CloseJournal(p) \/ Remove(p) \/ Discard(p)
  \/ ClearRewrite(p) \/ CreateRewrite(p) \/ CopyRecord(p) \/ Verify(p) \/ Install(p)
  \/ CompactFails(p) \/ Cleanup(p) \/ Die(p)

LockNext == \E p \in Procs : LockStep(p)

LockSpec == LockInit /\ [][LockNext]_lockVars

-----------------------------------------------------------------------------
(* Properties *)

Labels ==
  {"idle", "open", "create", "contend", "contending", "lost", "lock", "check", "holding", "gone",
   "cleared", "copying", "verified", "installed", "cleanup"}

Files == Inodes \cup {NoFile}

\* Every variable keeps its type.
LockTypeOK ==
  /\ path \in Files /\ temp \in Files /\ kept \subseteq Inodes
  /\ content \in [Inodes -> SUBSET LockRecords]
  /\ holder \in [Inodes -> Procs \cup {NoProc}]
  /\ pc \in [Procs -> Labels] /\ op \in [Procs -> Ops]
  /\ fd \in [Procs -> Files] /\ out \in [Procs -> Files]
  /\ acknowledged \subseteq LockRecords

Owning == {"holding", "cleared", "copying", "verified"}

\* Whoever believes it owns the journal holds the lock of the very file the path
\* names, so no two processes ever own it and no record goes to a nameless file.
OwnerOwnsThePath ==
  \A p \in Procs : pc[p] \in Owning => fd[p] = path /\ holder[path] = p

\* Acknowledged records stay under the path until the journal is removed, through
\* any race of daemons, creations, removals and rewrites.
AckedStay == acknowledged \subseteq (IF path = NoFile THEN {} ELSE content[path])

\* A rewrite that takes the path holds exactly what the journal held.
RewritesAreWhole ==
  [][ path' # path /\ path # NoFile /\ path' # NoFile => content'[path'] = content[path] ]_lockVars

=============================================================================
