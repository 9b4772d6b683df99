----------------------------- MODULE ServicesProofs ----------------------------
(*****************************************************************************)
(* What the services around the trading core promise, for all sizes: each    *)
(* section strengthens one promise of module Services to an invariant its    *)
(* service's steps keep, shows that step by step, and concludes that the     *)
(* promise holds in every behaviour of that service.                         *)
(*****************************************************************************)
EXTENDS Services, SequenceTheorems, FiniteSetTheorems, WellFoundedInduction, TLAPS

-------------------------------------------------------------------------------
(* The desk's accounts *)

Entry == [loc : {"none", "empty", "records", "moved"}, flag : {"active", "archived"}, tomb : BOOLEAN]
OpType == [kind : {"idle", "down", "start", "create", "active", "archived", "delete"}, id : D!Ids,
           step : {"none", "file", "sync", "name", "record", "equity", "rename", "tomb", "move", "open"}]
DeskTyped ==
  /\ disk \in [D!Ids -> Entry] /\ stable \in [D!Ids -> Entry]
  /\ accounts \in [D!Ids -> {"none", "active", "archived"}]
  /\ setting \in [D!Ids -> {"any", "active", "archived"}]
  /\ op \in OpType /\ answered \subseteq D!Ids /\ released \subseteq D!Ids

Setting(i) == op.kind \in {"active", "archived"} /\ op.step = "sync" /\ op.id = i

\* The files of an id, seen and safe: a tombstone stays, an archive flag needs a journal,
\* and a journal with records is safe.
FilesOf(i) ==
  /\ stable[i].tomb => disk[i].tomb
  /\ disk[i].loc \in {"none", "empty"} => disk[i].flag = "active" /\ stable[i].flag = "active"
  /\ disk[i].loc \in {"records", "moved"} => stable[i].loc \in {"records", "moved"}
  /\ accounts[i] # "none" => disk[i].loc = "records"
  /\ op.kind \in {"down", "start"} => accounts[i] = "none"
ReleasedOf(i) == i \in released => disk[i].tomb /\ stable[i].tomb /\ accounts[i] = "none"
AnsweredOf(i) == i \in answered =>
  /\ disk[i].loc = "records" /\ stable[i].loc = "records" /\ ~disk[i].tomb
  /\ op.kind \notin {"down", "start"} => accounts[i] # "none" /\ setting[i] \in {"any", accounts[i]}
  /\ setting[i] # "any" => stable[i].flag = setting[i] /\ (disk[i].flag = setting[i] \/ Setting(i))

\* How far the running command is.
Creating == op.kind = "create" =>
  /\ op.id \notin released /\ op.id \notin answered /\ accounts[op.id] = "none" /\ ~disk[op.id].tomb
  /\ op.step \in {"file", "sync", "name", "record", "equity"}
  /\ op.step = "file" => disk[op.id].loc = "none"
  /\ op.step = "sync" => disk[op.id].loc = "empty"
  /\ op.step \in {"name", "record"} => disk[op.id].loc = "empty" /\ stable[op.id].loc = "empty"
  /\ op.step = "equity" => /\ disk[op.id].loc = "records" /\ stable[op.id].loc = "records"
                           /\ disk[op.id].flag = "active" /\ stable[op.id].flag = "active"
Archiving == op.kind \in {"active", "archived"} =>
  /\ op.id \notin released /\ accounts[op.id] # "none"
  /\ op.step = "sync" => disk[op.id].flag = op.kind
Deleting == op.kind = "delete" =>
  /\ op.id \notin answered /\ disk[op.id].loc = "records"
  /\ op.step \in {"sync", "move"} => disk[op.id].tomb
  /\ op.step = "move" => accounts[op.id] = "none"

DeskInv ==
  /\ DeskTyped
  /\ \A i \in D!Ids : FilesOf(i) /\ ReleasedOf(i) /\ AnsweredOf(i)
  /\ Creating /\ Archiving /\ Deleting

(* The book has ids, and the desk's idle and down states are commands' states. *)
LEMMA DeskIds == 1 \in D!Ids /\ D!Idle \in OpType /\ D!Down \in OpType
BY DeskAssumption DEF D!Ids, D!Idle, D!Down, OpType

(* A sync of the account directory makes everything but the tombstones safe. *)
LEMMA SyncedTyped ==
  ASSUME disk \in [D!Ids -> Entry], stable \in [D!Ids -> Entry]
  PROVE  /\ D!Synced("files") \in [D!Ids -> Entry]
         /\ \A i \in D!Ids : /\ D!Synced("files")[i].loc = disk[i].loc
                             /\ D!Synced("files")[i].flag = disk[i].flag
                             /\ D!Synced("files")[i].tomb = stable[i].tomb
<1>1. D!Synced("files") = [i \in D!Ids |-> [disk[i] EXCEPT !.tomb = stable[i].tomb]]
  BY DEF D!Synced
<1>2. ASSUME NEW i \in D!Ids
      PROVE  /\ [disk[i] EXCEPT !.tomb = stable[i].tomb] \in Entry
             /\ [disk[i] EXCEPT !.tomb = stable[i].tomb].loc = disk[i].loc
             /\ [disk[i] EXCEPT !.tomb = stable[i].tomb].flag = disk[i].flag
             /\ [disk[i] EXCEPT !.tomb = stable[i].tomb].tomb = stable[i].tomb
  BY DEF Entry
<1> HIDE DEF Entry
<1> QED BY <1>1, <1>2

(* A file moved to the trash loses its archive flag and keeps its tombstone. *)
LEMMA MovedTyped ==
  ASSUME disk \in [D!Ids -> Entry], NEW i \in D!Ids
  PROVE  /\ D!Moved(i) \in [D!Ids -> Entry]
         /\ D!Moved(i)[i].loc = IF disk[i].loc \in {"empty", "records"} THEN "moved" ELSE disk[i].loc
         /\ D!Moved(i)[i].flag = "active" /\ D!Moved(i)[i].tomb = disk[i].tomb
         /\ \A j \in D!Ids : j # i => D!Moved(i)[j] = disk[j]
<1> DEFINE to == [disk[i] EXCEPT !.loc = IF disk[i].loc \in {"empty", "records"} THEN "moved" ELSE disk[i].loc,
                                 !.flag = "active"]
<1>1. disk[i] \in Entry
  OBVIOUS
<1>2. to \in Entry /\ to.flag = "active" /\ to.tomb = disk[i].tomb
      /\ to.loc = IF disk[i].loc \in {"empty", "records"} THEN "moved" ELSE disk[i].loc
  BY <1>1 DEF Entry
<1>3. D!Moved(i) = [disk EXCEPT ![i] = to]
  BY DEF D!Moved
<1> HIDE DEF to
<1> QED BY <1>2, <1>3

(* A book no desk has opened has no files. *)
LEMMA DeskInitial == D!Init => DeskInv
BY DeskAssumption DEF D!Init, D!Ids, D!Blank, D!Idle, D!None, DeskInv, DeskTyped, FilesOf, ReleasedOf,
   AnsweredOf, Creating,
   Archiving, Deleting, Entry, OpType

\* What each action changes, entry by entry.
LEMMA CreateFileKept == ASSUME DeskInv, D!CreateFile PROVE DeskInv'
<1> USE DEF D!CreateFile, D!At, D!To, D!Fails, D!Idle
<1>1. op.kind = "create" /\ op.step = "file" /\ op.id \in D!Ids /\ op \in OpType
  BY DEF DeskInv, DeskTyped, OpType
<1>2. DeskTyped'
  <2>1. disk' \in [D!Ids -> Entry]
    <3>1. [disk EXCEPT ![op.id].loc = "empty"] \in [D!Ids -> Entry]
      BY <1>1 DEF DeskInv, DeskTyped, Entry
    <3> QED BY <3>1 DEF DeskInv, DeskTyped
  <2>2. op' \in OpType
    BY <1>1, DeskIds DEF OpType
  <2> QED BY <1>1, <2>1, <2>2 DEF DeskInv, DeskTyped
<1>3. ASSUME NEW i \in D!Ids PROVE (FilesOf(i) /\ ReleasedOf(i) /\ AnsweredOf(i))'
  BY <1>1 DEF DeskInv, DeskTyped, FilesOf, ReleasedOf, AnsweredOf, Setting, Creating, Archiving, Deleting,
     Entry, OpType
<1>4. (Creating /\ Archiving /\ Deleting)'
  BY <1>1 DEF DeskInv, DeskTyped, FilesOf, ReleasedOf, AnsweredOf, Creating, Archiving, Deleting, Entry, OpType
<1> QED BY <1>2, <1>3, <1>4 DEF DeskInv

(* The sync that makes the new file's name safe. *)
LEMMA CreateSyncKept == ASSUME DeskInv, D!CreateSync PROVE DeskInv'
<1> USE DEF D!CreateSync, D!At, D!To, D!Fails, D!Idle
<1>1. op.kind = "create" /\ op.step = "sync" /\ op.id \in D!Ids /\ op \in OpType
  BY DEF DeskInv, DeskTyped, OpType
<1>2. DeskTyped'
  <2>1. stable' \in [D!Ids -> Entry]
    <3>1. D!Synced("files") \in [D!Ids -> Entry]
      BY SyncedTyped DEF DeskInv, DeskTyped
    <3> QED BY <3>1 DEF DeskInv, DeskTyped
  <2>2. op' \in OpType
    BY <1>1, DeskIds DEF OpType
  <2> QED BY <1>1, <2>1, <2>2 DEF DeskInv, DeskTyped
<1>3. ASSUME NEW i \in D!Ids PROVE (FilesOf(i) /\ ReleasedOf(i) /\ AnsweredOf(i))'
  BY <1>1, SyncedTyped DEF DeskInv, DeskTyped, FilesOf, ReleasedOf, AnsweredOf, Setting, Creating,
     Archiving, Deleting, Entry, OpType
<1>4. (Creating /\ Archiving /\ Deleting)'
  BY <1>1, SyncedTyped DEF DeskInv, DeskTyped, FilesOf, ReleasedOf, AnsweredOf, Creating, Archiving,
     Deleting, Entry, OpType
<1> QED BY <1>2, <1>3, <1>4 DEF DeskInv

(* The sync of the id's name, after which only a failure takes the file back. *)
LEMMA CreateNameKept == ASSUME DeskInv, D!CreateName PROVE DeskInv'
<1> USE DEF D!CreateName, D!At, D!To, D!Fails, D!Idle, D!Discard
<1> DEFINE Done == stable' = D!Synced("files") /\ op' = [op EXCEPT !.step = "record"] /\ disk' = disk
                   /\ UNCHANGED <<unopened, accounts, answered, setting, released, refused, crashes>>
           Refused == op' = D!Idle /\ disk' = [disk EXCEPT ![op.id].loc = "none"] /\ stable' = stable
                      /\ UNCHANGED <<unopened, accounts, answered, setting, released, refused, crashes>>
<1>1. op.kind = "create" /\ op.step = "name" /\ op.id \in D!Ids /\ op \in OpType
  BY DEF DeskInv, DeskTyped, OpType
<1>2. DeskTyped'
  <2>1. disk' \in [D!Ids -> Entry]
    <3>1. [disk EXCEPT ![op.id].loc = "none"] \in [D!Ids -> Entry]
      BY <1>1 DEF DeskInv, DeskTyped, Entry
    <3> QED BY <3>1 DEF DeskInv, DeskTyped
  <2>2. stable' \in [D!Ids -> Entry]
    <3>1. D!Synced("files") \in [D!Ids -> Entry]
      BY SyncedTyped DEF DeskInv, DeskTyped
    <3> QED BY <3>1 DEF DeskInv, DeskTyped
  <2>3. op' \in OpType
    BY <1>1, DeskIds DEF OpType
  <2> QED BY <1>1, <2>1, <2>2, <2>3 DEF DeskInv, DeskTyped
<1>3. Done \/ Refused
  BY <1>1 DEF DeskInv, Creating
<1>4. CASE Done
  <2>1. ASSUME NEW i \in D!Ids PROVE (FilesOf(i) /\ ReleasedOf(i) /\ AnsweredOf(i))'
    BY <1>1, <1>4, SyncedTyped DEF DeskInv, DeskTyped, FilesOf, ReleasedOf, AnsweredOf, Setting, Creating,
       Archiving, Deleting, Entry, OpType
  <2>2. (Creating /\ Archiving /\ Deleting)'
    BY <1>1, <1>4, SyncedTyped DEF DeskInv, DeskTyped, FilesOf, ReleasedOf, AnsweredOf, Setting, Creating,
       Archiving, Deleting, Entry, OpType
  <2> QED BY <1>2, <2>1, <2>2 DEF DeskInv
<1>5. CASE Refused
  <2>1. ASSUME NEW i \in D!Ids PROVE (FilesOf(i) /\ ReleasedOf(i) /\ AnsweredOf(i))'
    BY <1>1, <1>5, SyncedTyped DEF DeskInv, DeskTyped, FilesOf, ReleasedOf, AnsweredOf, Setting, Creating,
       Archiving, Deleting, Entry, OpType
  <2>2. (Creating /\ Archiving /\ Deleting)'
    BY <1>1, <1>5, SyncedTyped DEF DeskInv, DeskTyped, FilesOf, ReleasedOf, AnsweredOf, Setting, Creating,
       Archiving, Deleting, Entry, OpType
  <2> QED BY <1>2, <2>1, <2>2 DEF DeskInv
<1> QED BY <1>3, <1>4, <1>5

(* The first record, synced before the account is more than a file. *)
LEMMA CreateRecordKept == ASSUME DeskInv, D!CreateRecord PROVE DeskInv'
<1> USE DEF D!CreateRecord, D!At, D!To, D!Fails, D!Idle, D!Discard
<1> DEFINE Done == disk' = [disk EXCEPT ![op.id].loc = "records"] /\ stable' = [stable EXCEPT ![op.id].loc = "records"] /\ op' = [op EXCEPT !.step = "equity"]
                   /\ UNCHANGED <<unopened, accounts, answered, setting, released, refused, crashes>>
           Refused == op' = D!Idle /\ disk' = [disk EXCEPT ![op.id].loc = "none"] /\ stable' = stable
                      /\ UNCHANGED <<unopened, accounts, answered, setting, released, refused, crashes>>
<1>1. op.kind = "create" /\ op.step = "record" /\ op.id \in D!Ids /\ op \in OpType
  BY DEF DeskInv, DeskTyped, OpType
<1>2. DeskTyped'
  <2>1. disk' \in [D!Ids -> Entry]
    <3>1. [disk EXCEPT ![op.id].loc = "records"] \in [D!Ids -> Entry]
      BY <1>1 DEF DeskInv, DeskTyped, Entry
    <3>2. [disk EXCEPT ![op.id].loc = "none"] \in [D!Ids -> Entry]
      BY <1>1 DEF DeskInv, DeskTyped, Entry
    <3> QED BY <3>1, <3>2 DEF DeskInv, DeskTyped
  <2>2. stable' \in [D!Ids -> Entry]
    <3>1. [stable EXCEPT ![op.id].loc = IF @ = "empty" THEN "records" ELSE @] \in [D!Ids -> Entry]
      BY <1>1 DEF DeskInv, DeskTyped, Entry
    <3> QED BY <3>1 DEF DeskInv, DeskTyped
  <2>3. op' \in OpType
    BY <1>1, DeskIds DEF OpType
  <2> QED BY <1>1, <2>1, <2>2, <2>3 DEF DeskInv, DeskTyped
<1>3. Done \/ Refused
  BY <1>1 DEF DeskInv, Creating
<1>4. CASE Done
  <2>1. ASSUME NEW i \in D!Ids PROVE (FilesOf(i) /\ ReleasedOf(i) /\ AnsweredOf(i))'
    BY <1>1, <1>4 DEF DeskInv, DeskTyped, FilesOf, ReleasedOf, AnsweredOf, Setting, Creating, Archiving,
       Deleting, Entry, OpType
  <2>2. (Creating /\ Archiving /\ Deleting)'
    BY <1>1, <1>4 DEF DeskInv, DeskTyped, FilesOf, ReleasedOf, AnsweredOf, Setting, Creating, Archiving,
       Deleting, Entry, OpType
  <2> QED BY <1>2, <2>1, <2>2 DEF DeskInv
<1>5. CASE Refused
  <2>1. ASSUME NEW i \in D!Ids PROVE (FilesOf(i) /\ ReleasedOf(i) /\ AnsweredOf(i))'
    BY <1>1, <1>5 DEF DeskInv, DeskTyped, FilesOf, ReleasedOf, AnsweredOf, Setting, Creating, Archiving,
       Deleting, Entry, OpType
  <2>2. (Creating /\ Archiving /\ Deleting)'
    BY <1>1, <1>5 DEF DeskInv, DeskTyped, FilesOf, ReleasedOf, AnsweredOf, Setting, Creating, Archiving,
       Deleting, Entry, OpType
  <2> QED BY <1>2, <2>1, <2>2 DEF DeskInv
<1> QED BY <1>3, <1>4, <1>5

(* The equity history: the account is answered here, its record already safe. *)
LEMMA CreateEquityKept == ASSUME DeskInv, D!CreateEquity PROVE DeskInv'
<1> USE DEF D!CreateEquity, D!At, D!To, D!Fails, D!Idle, D!Discard
<1>1. op.kind = "create" /\ op.step = "equity" /\ op.id \in D!Ids /\ op \in OpType
  BY DEF DeskInv, DeskTyped, OpType
<1>2. DeskTyped'
  <2>1. disk' \in [D!Ids -> Entry]
    <3>1. [disk EXCEPT ![op.id].loc = "none"] \in [D!Ids -> Entry]
      BY <1>1 DEF DeskInv, DeskTyped, Entry
    <3> QED BY <3>1 DEF DeskInv, DeskTyped
  <2>2. op' \in OpType
    BY <1>1, DeskIds DEF OpType
  <2> QED BY <1>1, <2>1, <2>2 DEF DeskInv, DeskTyped
<1>3. ASSUME NEW i \in D!Ids PROVE (FilesOf(i) /\ ReleasedOf(i) /\ AnsweredOf(i))'
  BY <1>1 DEF DeskInv, DeskTyped, FilesOf, ReleasedOf, AnsweredOf, Setting, Creating, Archiving, Deleting,
     Entry, OpType
<1>4. (Creating /\ Archiving /\ Deleting)'
  BY <1>1 DEF DeskInv, DeskTyped, FilesOf, ReleasedOf, AnsweredOf, Creating, Archiving, Deleting, Entry, OpType
<1> QED BY <1>2, <1>3, <1>4 DEF DeskInv

(* The archive flag is renamed before the directory is synced. *)
LEMMA ArchiveRenameKept == ASSUME DeskInv, D!ArchiveRename PROVE DeskInv'
<1> USE DEF D!ArchiveRename, D!To, D!Fails, D!Idle, D!RefuseSetting
<1>1. op.kind \in {"active", "archived"} /\ op.step = "rename" /\ op.id \in D!Ids /\ op \in OpType
  BY DEF DeskInv, DeskTyped, OpType
<1>2. DeskTyped'
  <2>1. disk' \in [D!Ids -> Entry]
    <3>1. [disk EXCEPT ![op.id].flag = op.kind] \in [D!Ids -> Entry]
      BY <1>1 DEF DeskInv, DeskTyped, Entry
    <3> QED BY <3>1 DEF DeskInv, DeskTyped
  <2>2. op' \in OpType
    BY <1>1, DeskIds DEF OpType
  <2> QED BY <1>1, <2>1, <2>2 DEF DeskInv, DeskTyped
<1>3. ASSUME NEW i \in D!Ids PROVE (FilesOf(i) /\ ReleasedOf(i) /\ AnsweredOf(i))'
  BY <1>1 DEF DeskInv, DeskTyped, FilesOf, ReleasedOf, AnsweredOf, Setting, Creating, Archiving, Deleting,
     Entry, OpType
<1>4. (Creating /\ Archiving /\ Deleting)'
  BY <1>1 DEF DeskInv, DeskTyped, FilesOf, ReleasedOf, AnsweredOf, Creating, Archiving, Deleting, Entry, OpType
<1> QED BY <1>2, <1>3, <1>4 DEF DeskInv

(* The sync that makes an archive flag safe is what its answer waits for. *)
LEMMA ArchiveSyncKept == ASSUME DeskInv, D!ArchiveSync PROVE DeskInv'
<1> USE DEF D!ArchiveSync, D!Fails, D!Idle, D!RefuseSetting
<1>1. op.kind \in {"active", "archived"} /\ op.step = "sync" /\ op.id \in D!Ids /\ op \in OpType
  BY DEF DeskInv, DeskTyped, OpType
<1>2. DeskTyped'
  <2>1. stable' \in [D!Ids -> Entry]
    <3>1. D!Synced("files") \in [D!Ids -> Entry]
      BY SyncedTyped DEF DeskInv, DeskTyped
    <3> QED BY <3>1 DEF DeskInv, DeskTyped
  <2>2. op' \in OpType
    BY <1>1, DeskIds DEF OpType
  <2> QED BY <1>1, <2>1, <2>2 DEF DeskInv, DeskTyped
<1>3. ASSUME NEW i \in D!Ids PROVE (FilesOf(i) /\ ReleasedOf(i) /\ AnsweredOf(i))'
  BY <1>1, SyncedTyped DEF DeskInv, DeskTyped, FilesOf, ReleasedOf, AnsweredOf, Setting, Creating,
     Archiving, Deleting, Entry, OpType
<1>4. (Creating /\ Archiving /\ Deleting)'
  BY <1>1, SyncedTyped DEF DeskInv, DeskTyped, FilesOf, ReleasedOf, AnsweredOf, Creating, Archiving,
     Deleting, Entry, OpType
<1> QED BY <1>2, <1>3, <1>4 DEF DeskInv

(* The tombstone is written before anything of the account is taken away. *)
LEMMA DeleteTombKept == ASSUME DeskInv, D!DeleteTomb PROVE DeskInv'
<1> USE DEF D!DeleteTomb, D!At, D!To, D!Fails, D!Idle, D!RefuseDelete
<1>1. op.kind = "delete" /\ op.step = "tomb" /\ op.id \in D!Ids /\ op \in OpType
  BY DEF DeskInv, DeskTyped, OpType
<1>2. DeskTyped'
  <2>1. disk' \in [D!Ids -> Entry]
    <3>1. [disk EXCEPT ![op.id].tomb = TRUE] \in [D!Ids -> Entry]
      BY <1>1 DEF DeskInv, DeskTyped, Entry
    <3> QED BY <3>1 DEF DeskInv, DeskTyped
  <2>2. op' \in OpType
    BY <1>1, DeskIds DEF OpType
  <2> QED BY <1>1, <2>1, <2>2 DEF DeskInv, DeskTyped
<1>3. ASSUME NEW i \in D!Ids PROVE (FilesOf(i) /\ ReleasedOf(i) /\ AnsweredOf(i))'
  BY <1>1 DEF DeskInv, DeskTyped, FilesOf, ReleasedOf, AnsweredOf, Setting, Creating, Archiving, Deleting,
     Entry, OpType
<1>4. (Creating /\ Archiving /\ Deleting)'
  BY <1>1 DEF DeskInv, DeskTyped, FilesOf, ReleasedOf, AnsweredOf, Creating, Archiving, Deleting, Entry, OpType
<1> QED BY <1>2, <1>3, <1>4 DEF DeskInv

(* The account leaves the book when its tombstone is safe, not before. *)
LEMMA DeleteSyncKept == ASSUME DeskInv, D!DeleteSync PROVE DeskInv'
<1> USE DEF D!DeleteSync, D!At, D!To, D!Fails, D!Idle, D!RefuseDelete, D!None
<1>1. op.kind = "delete" /\ op.step = "sync" /\ op.id \in D!Ids /\ op \in OpType
  BY DEF DeskInv, DeskTyped, OpType
<1>2. DeskTyped'
  <2>1. op' \in OpType
    BY <1>1, DeskIds DEF OpType
  <2> QED BY <1>1, <2>1 DEF DeskInv, DeskTyped
<1>3. ASSUME NEW i \in D!Ids PROVE (FilesOf(i) /\ ReleasedOf(i) /\ AnsweredOf(i))'
  BY <1>1 DEF DeskInv, DeskTyped, FilesOf, ReleasedOf, AnsweredOf, Setting, Creating, Archiving, Deleting,
     Entry, OpType
<1>4. (Creating /\ Archiving /\ Deleting)'
  BY <1>1 DEF DeskInv, DeskTyped, FilesOf, ReleasedOf, AnsweredOf, Creating, Archiving, Deleting, Entry, OpType
<1> QED BY <1>2, <1>3, <1>4 DEF DeskInv

(* A create begins at an id nothing uses and no tombstone marks. *)
LEMMA CreateKept == ASSUME DeskInv, D!Create PROVE DeskInv'
<1>1. PICK i \in D!Ids :
        /\ accounts[i] = "none" /\ ~disk[i].tomb /\ disk[i].loc = "none" /\ op = D!Idle
        /\ op' = [kind |-> "create", id |-> i, step |-> "file"]
        /\ UNCHANGED <<unopened, disk, stable, accounts, answered, setting, released, refused, crashes, fails>>
  BY DEF D!Create, D!FreeId, D!None, D!history
<1>2. DeskTyped'
  BY <1>1 DEF DeskInv, DeskTyped, OpType
<1>3. ASSUME NEW j \in D!Ids PROVE (FilesOf(j) /\ ReleasedOf(j) /\ AnsweredOf(j))'
  BY <1>1 DEF DeskInv, DeskTyped, FilesOf, ReleasedOf, AnsweredOf, Setting, D!Idle
<1>4. (Creating /\ Archiving /\ Deleting)'
  BY <1>1 DEF DeskInv, DeskTyped, Creating, Archiving, Deleting, ReleasedOf, AnsweredOf
<1> QED BY <1>2, <1>3, <1>4 DEF DeskInv

(* An archive or its reversal begins at an account of the book. *)
LEMMA ArchiveKept == ASSUME DeskInv, D!Archive PROVE DeskInv'
<1>1. PICK i \in D!Ids, flag \in {"active", "archived"} :
        /\ op = D!Idle /\ accounts[i] # "none" /\ op' = [kind |-> flag, id |-> i, step |-> "rename"]
        /\ UNCHANGED <<unopened, disk, stable, accounts, answered, setting, released, refused, crashes, fails>>
  BY DEF D!Archive, D!None, D!history
<1>2. DeskTyped'
  BY <1>1 DEF DeskInv, DeskTyped, OpType
<1>3. ASSUME NEW j \in D!Ids PROVE (FilesOf(j) /\ ReleasedOf(j) /\ AnsweredOf(j))'
  BY <1>1 DEF DeskInv, DeskTyped, FilesOf, ReleasedOf, AnsweredOf, Setting, D!Idle
<1>4. (Creating /\ Archiving /\ Deleting)'
  BY <1>1 DEF DeskInv, DeskTyped, Creating, Archiving, Deleting, ReleasedOf
<1> QED BY <1>2, <1>3, <1>4 DEF DeskInv

(* A delete begins at an account nobody is promised any longer. *)
LEMMA DeleteKept == ASSUME DeskInv, D!Delete PROVE DeskInv'
<1>1. PICK i \in D!Ids :
        /\ op = D!Idle /\ accounts[i] # "none" /\ op' = [kind |-> "delete", id |-> i, step |-> "tomb"]
        /\ answered' = answered \ {i}
        /\ UNCHANGED <<unopened, disk, stable, accounts, setting, released, refused, crashes, fails>>
  BY DEF D!Delete, D!None
<1>2. DeskTyped'
  BY <1>1 DEF DeskInv, DeskTyped, OpType
<1>3. ASSUME NEW j \in D!Ids PROVE (FilesOf(j) /\ ReleasedOf(j) /\ AnsweredOf(j))'
  BY <1>1 DEF DeskInv, DeskTyped, FilesOf, ReleasedOf, AnsweredOf, Setting, D!Idle
<1>4. (Creating /\ Archiving /\ Deleting)'
  BY <1>1 DEF DeskInv, DeskTyped, Creating, Archiving, Deleting, FilesOf
<1> QED BY <1>2, <1>3, <1>4 DEF DeskInv

(* A delete ends with the journal moved away; what was released stays released. *)
LEMMA DeleteMoveKept == ASSUME DeskInv, D!DeleteMove PROVE DeskInv'
<1>1. op.kind = "delete" /\ op.step = "move" /\ op.id \in D!Ids /\ op' = D!Idle
      /\ UNCHANGED <<unopened, accounts, answered, setting, released, refused, crashes>>
  BY DEF D!DeleteMove, D!At, D!history, DeskInv, DeskTyped, OpType
<1>2. /\ disk' \in {disk, D!Moved(op.id)}
      /\ stable' = stable \/ (disk' = D!Moved(op.id) /\ stable' = [stable EXCEPT ![op.id] = disk'[op.id]])
  BY DEF D!DeleteMove
<1>3. DeskTyped'
  <2>1. disk' \in [D!Ids -> Entry]
    BY <1>1, <1>2, MovedTyped DEF DeskInv, DeskTyped
  <2>2. stable' \in [D!Ids -> Entry]
    BY <1>1, <1>2, <2>1 DEF DeskInv, DeskTyped
  <2> QED BY <1>1, <2>1, <2>2, DeskIds DEF DeskInv, DeskTyped
<1>4. \A j \in D!Ids : j # op.id => disk'[j] = disk[j] /\ stable'[j] = stable[j]
  BY <1>1, <1>2, MovedTyped DEF DeskInv, DeskTyped
<1>5. /\ disk'[op.id].tomb = disk[op.id].tomb /\ disk'[op.id].loc \in {"records", "moved"}
      /\ stable'[op.id] = stable[op.id] \/ stable'[op.id] = disk'[op.id]
      /\ disk[op.id].loc = "records" /\ disk[op.id].tomb /\ op.id \notin answered /\ accounts[op.id] = "none"
  BY <1>1, <1>2, MovedTyped DEF DeskInv, DeskTyped, Deleting
<1>6. ASSUME NEW j \in D!Ids PROVE (FilesOf(j) /\ ReleasedOf(j) /\ AnsweredOf(j))'
  <2>1. CASE j # op.id
    BY <1>1, <1>4, <2>1 DEF DeskInv, DeskTyped, FilesOf, ReleasedOf, AnsweredOf, Setting, D!Idle
  <2>2. CASE j = op.id
    BY <1>1, <1>5, <2>2 DEF DeskInv, DeskTyped, FilesOf, ReleasedOf, AnsweredOf, D!Idle, Entry
  <2> QED BY <2>1, <2>2
<1>7. (Creating /\ Archiving /\ Deleting)'
  BY <1>1 DEF Creating, Archiving, Deleting, D!Idle
<1> QED BY <1>3, <1>6, <1>7 DEF DeskInv

(* A crash keeps, of each id, either what was there or what was safe. *)
LEMMA StopsKept == ASSUME DeskInv, D!Stops PROVE DeskInv'
<1>1. PICK power \in BOOLEAN : D!Crash(power)
  BY DEF D!Stops
<1>2. /\ op' = D!Down /\ accounts' = [i \in D!Ids |-> "none"]
      /\ setting' = IF op.kind \in {"active", "archived"} THEN [setting EXCEPT ![op.id] = "any"] ELSE setting
      /\ UNCHANGED <<answered, released>>
  BY <1>1 DEF D!Crash, D!None
<1>3. /\ disk' \in [D!Ids -> Entry] /\ stable' \in [D!Ids -> Entry]
      /\ \A i \in D!Ids : \/ disk'[i] = disk[i] /\ stable'[i] = stable[i]
                          \/ /\ disk'[i].loc \in {disk[i].loc, stable[i].loc} /\ disk'[i].flag \in {disk[i].flag, stable[i].flag}
                             /\ disk'[i].tomb \in {disk[i].tomb, stable[i].tomb} /\ stable'[i] = disk'[i]
  BY <1>1 DEF D!Crash, DeskInv, DeskTyped, Entry
<1>4. DeskTyped'
  BY <1>2, <1>3, DeskIds DEF DeskInv, DeskTyped
<1>5. ASSUME NEW i \in D!Ids PROVE FilesOf(i)'
  BY <1>2, <1>3 DEF DeskInv, DeskTyped, FilesOf, Entry
<1>6. ASSUME NEW i \in D!Ids PROVE ReleasedOf(i)'
  BY <1>2, <1>3 DEF DeskInv, DeskTyped, ReleasedOf, Entry
<1>7. ASSUME NEW i \in D!Ids PROVE AnsweredOf(i)'
  <2> SUFFICES ASSUME i \in answered PROVE AnsweredOf(i)'
    BY <1>2 DEF AnsweredOf
  <2>1. /\ disk[i].loc = "records" /\ stable[i].loc = "records" /\ ~disk[i].tomb /\ ~stable[i].tomb
        /\ setting[i] # "any" => stable[i].flag = setting[i] /\ (disk[i].flag = setting[i] \/ Setting(i))
    BY DEF DeskInv, AnsweredOf, FilesOf
  <2>2. disk'[i].loc = "records" /\ stable'[i].loc = "records" /\ ~disk'[i].tomb
    BY <1>3, <2>1
  <2>3. setting'[i] # "any" => setting'[i] = setting[i] /\ ~Setting(i)
    BY <1>2 DEF Setting, DeskInv, DeskTyped, OpType
  <2>4. setting'[i] # "any" => stable'[i].flag = setting'[i] /\ disk'[i].flag = setting'[i]
    BY <1>3, <2>1, <2>3
  <2> QED BY <1>2, <2>2, <2>4 DEF AnsweredOf, D!Down
<1>8. (Creating /\ Archiving /\ Deleting)'
  BY <1>2 DEF Creating, Archiving, Deleting, D!Down
<1> QED BY <1>4, <1>5, <1>6, <1>7, <1>8 DEF DeskInv

(* A start finishes the deletes whose tombstones it finds. *)
LEMMA StartMovesKept == ASSUME DeskInv, D!StartMoves PROVE DeskInv'
<1>1. /\ op = D!Down /\ op' = [kind |-> "start", id |-> 1, step |-> "open"] /\ stable' = disk'
      /\ disk' = [i \in D!Ids |-> IF disk[i].tomb THEN D!Moved(i)[i] ELSE disk[i]]
      /\ UNCHANGED <<accounts, answered, setting, released>>
  BY DEF D!StartMoves, D!history
<1>2. \A i \in D!Ids : /\ disk'[i] \in Entry /\ disk'[i].tomb = disk[i].tomb
                       /\ ~disk[i].tomb => disk'[i] = disk[i]
                       /\ disk[i].tomb => disk'[i].loc \in {"none", "moved"} /\ disk'[i].flag = "active"
  BY <1>1, MovedTyped DEF DeskInv, DeskTyped, Entry
<1>3. DeskTyped'
  <2>1. disk' \in [D!Ids -> Entry]
    BY <1>1, <1>2
  <2> QED BY <1>1, <2>1, DeskIds DEF DeskInv, DeskTyped, OpType
<1>4. ASSUME NEW i \in D!Ids PROVE (FilesOf(i) /\ ReleasedOf(i))'
  BY <1>1, <1>2 DEF DeskInv, DeskTyped, FilesOf, ReleasedOf, D!Down, Entry
<1>5. ASSUME NEW i \in D!Ids PROVE AnsweredOf(i)'
  BY <1>1, <1>2 DEF DeskInv, DeskTyped, AnsweredOf, FilesOf, Setting, D!Down
<1>6. (Creating /\ Archiving /\ Deleting)'
  BY <1>1 DEF Creating, Archiving, Deleting
<1> QED BY <1>3, <1>4, <1>5, <1>6 DEF DeskInv

(* A start that finds no main account is refused and changes nothing. *)
LEMMA StartWithoutMainKept == ASSUME DeskInv, D!StartWithoutMain PROVE DeskInv'
<1>1. /\ op = D!Down /\ op' = [kind |-> "start", id |-> 1, step |-> "open"]
      /\ UNCHANGED <<disk, stable, accounts, answered, setting, released>>
  BY DEF D!StartWithoutMain, D!history
<1>2. DeskTyped'
  BY <1>1, DeskIds DEF DeskInv, DeskTyped, OpType
<1>3. ASSUME NEW i \in D!Ids PROVE (FilesOf(i) /\ ReleasedOf(i) /\ AnsweredOf(i))'
  BY <1>1 DEF DeskInv, FilesOf, ReleasedOf, AnsweredOf, Setting, D!Down
<1>4. (Creating /\ Archiving /\ Deleting)'
  BY <1>1 DEF Creating, Archiving, Deleting
<1> QED BY <1>2, <1>3, <1>4 DEF DeskInv

(* A start that opens the book takes empty journals out and reads the rest. *)
LEMMA StartOpenKept == ASSUME DeskInv, D!StartOpen PROVE DeskInv'
<1> DEFINE there(i) == disk[i].loc = "records" /\ ~disk[i].tomb
<1>1. /\ op.kind = "start" /\ op' = D!Idle /\ UNCHANGED <<stable, answered, setting, released>>
      /\ accounts' = [i \in D!Ids |-> IF there(i) THEN disk[i].flag ELSE "none"]
      /\ disk' = [i \in D!Ids |-> IF disk[i].loc = "empty" /\ ~disk[i].tomb THEN [disk[i] EXCEPT !.loc = "none"] ELSE disk[i]]
  <2>1. \A i \in D!Ids : /\ (D!Opens(i) /\ disk[i].loc = "records") <=> there(i)
                         /\ (D!Opens(i) /\ disk[i].loc = "empty") <=> (disk[i].loc = "empty" /\ ~disk[i].tomb)
    BY DEF D!Opens
  <2> QED BY <2>1 DEF D!StartOpen, D!At, D!None, D!history
<1>2. \A i \in D!Ids : /\ disk'[i] \in Entry /\ disk'[i].flag = disk[i].flag /\ disk'[i].tomb = disk[i].tomb
                       /\ disk'[i].loc = disk[i].loc \/ (disk[i].loc = "empty" /\ disk'[i].loc = "none")
                       /\ accounts'[i] = IF there(i) THEN disk[i].flag ELSE "none"
  BY <1>1 DEF DeskInv, DeskTyped, Entry
<1>3. DeskTyped'
  <2>1. disk' \in [D!Ids -> Entry]
    BY <1>1, <1>2
  <2>2. accounts' \in [D!Ids -> {"none", "active", "archived"}]
    BY <1>1 DEF DeskInv, DeskTyped, Entry
  <2> QED BY <1>1, <2>1, <2>2, DeskIds DEF DeskInv, DeskTyped
<1>4. ASSUME NEW i \in D!Ids PROVE (FilesOf(i) /\ ReleasedOf(i))'
  BY <1>1, <1>2 DEF DeskInv, DeskTyped, FilesOf, ReleasedOf, D!Idle, Entry
<1>5. ASSUME NEW i \in D!Ids PROVE AnsweredOf(i)'
  <2>1. i \in answered => disk[i].flag \in {"active", "archived"}
    BY DEF DeskInv, DeskTyped, Entry
  <2> QED BY <1>1, <1>2, <2>1 DEF DeskInv, AnsweredOf, Setting, D!Idle
<1>6. (Creating /\ Archiving /\ Deleting)'
  BY <1>1 DEF Creating, Archiving, Deleting, D!Idle
<1> QED BY <1>3, <1>4, <1>5, <1>6 DEF DeskInv

(* Every step of the desk keeps the invariant. *)
LEMMA DeskStep == ASSUME DeskInv, [D!Next]_deskVars PROVE DeskInv'
<1>1. CASE D!Next
  BY <1>1, CreateKept, CreateFileKept, CreateSyncKept, CreateNameKept, CreateRecordKept, CreateEquityKept,
     ArchiveKept,
     ArchiveRenameKept, ArchiveSyncKept, DeleteKept, DeleteTombKept, DeleteSyncKept, DeleteMoveKept, StopsKept,
     StartMovesKept, StartWithoutMainKept, StartOpenKept DEF D!Next
<1>2. CASE UNCHANGED deskVars
  BY <1>2 DEF deskVars, DeskInv, DeskTyped, FilesOf, ReleasedOf, AnsweredOf, Setting, Creating, Archiving,
     Deleting
<1> QED BY <1>1, <1>2

(* The invariant is stronger than what the desk promises. *)
LEMMA DeskSafe == DeskInv => AnswersOutliveRestarts
BY DEF DeskInv, DeskTyped, ReleasedOf, AnsweredOf, Creating, AnswersOutliveRestarts,
   D!AnswersOutliveRestarts, D!None

(* A deletion that let the account go is final and an answered account stays with the setting
   answered, for any number of ids, restarts, power losses and failed operations (desk.cpp:801). *)
THEOREM AnswersOutlive == DeskSpec => []AnswersOutliveRestarts
<1>1. D!Init => DeskInv
  BY DeskInitial
<1>2. DeskInv /\ [D!Next]_deskVars => DeskInv'
  BY DeskStep
<1>3. DeskInv => AnswersOutliveRestarts
  BY DeskSafe
<1> QED BY <1>1, <1>2, <1>3, PTL DEF DeskSpec

-------------------------------------------------------------------------------
(* The market-wide circuit breaker *)

(* What the breaker holds when nothing is lost: it is of the market's day, its halts are of
   one day and in the order they came, and the levels tripped that day only rise. *)
HaltType == [level : 0..3, start : Nat, end : Int]
BreakerType == [day : Nat, level : 0..3, halts : Seq(HaltType), reference : BOOLEAN]

\* The halts of b are of one day, in order, none later than `now`.
InOrder(b, now) ==
  /\ \A i \in 1..Len(b.halts) : b.halts[i].start <= now
  /\ \A i, j \in 1..Len(b.halts) : i < j => b.halts[i].start <= b.halts[j].start
  /\ \A i, j \in 1..Len(b.halts) : B!Day(b.halts[i].start) = B!Day(b.halts[j].start)
\* Its level is the highest one tripped on its day, each level once.
Levels(b) ==
  /\ \A i, j \in B!PriceHalts(b) : i < j => b.halts[i].level < b.halts[j].level
  /\ IF b.halts # <<>> /\ B!Day(b.halts[Len(b.halts)].start) = b.day
       THEN /\ \A i \in B!PriceHalts(b) : b.halts[i].level <= b.level
            /\ b.level = 0 \/ \E i \in B!PriceHalts(b) : b.halts[i].level = b.level
       ELSE b.level = 0
Kept(b, now) == b \in BreakerType /\ now \in Nat /\ b.day = B!Day(now) /\ InOrder(b, now) /\ Levels(b)
HaltsOf(b) == {b.halts[i] : i \in 1..Len(b.halts)}

SavedKept == halted # <<>> => Len(halted) = 1 /\ Kept(halted[1].breaker, halted[1].time)
BreakerInv ==
  /\ Kept(breaker, market) /\ SavedKept
  /\ dirty \in BOOLEAN /\ lost \in BOOLEAN
  /\ (B!Up /\ ~dirty) => breaker = IF halted = <<>> THEN B!Fresh(0) ELSE halted[1].breaker
  /\ ~B!Up => ~dirty
  /\ ~lost => told = IF B!Up THEN HaltsOf(breaker) ELSE IF halted = <<>> THEN {} ELSE HaltsOf(halted[1].breaker)

(* Days do not go back while time does not. *)
LEMMA DayMonotone == ASSUME NEW s \in Nat, NEW t \in Nat, s <= t
                     PROVE  B!Day(s) \in Nat /\ B!Day(s) <= B!Day(t) /\ B!Day(0) = 0
<1>1. DayTicks \in Nat \ {0}
  BY BreakerAssumption
<1>2. /\ s \div DayTicks \in Nat /\ (s \div DayTicks) * DayTicks <= s
      /\ t \div DayTicks \in Nat /\ t < ((t \div DayTicks) + 1) * DayTicks
  BY <1>1, SMT
<1> QED BY <1>1, <1>2, SMT DEF B!Day

(* The parts of a breaker, each of its type. *)
LEMMA BreakerTyped ==
  ASSUME NEW b \in BreakerType
  PROVE  /\ b.day \in Nat /\ b.level \in 0..3 /\ b.reference \in BOOLEAN
         /\ b.halts \in Seq(HaltType) /\ Len(b.halts) \in Nat
         /\ \A i \in 1..Len(b.halts) :
              /\ b.halts[i] \in HaltType
              /\ b.halts[i].start \in Nat /\ b.halts[i].level \in 0..3 /\ B!Day(b.halts[i].start) \in Nat
<1>1. b.day \in Nat /\ b.level \in 0..3 /\ b.reference \in BOOLEAN /\ b.halts \in Seq(HaltType)
  BY DEF BreakerType
<1>2. Len(b.halts) \in Nat /\ \A i \in 1..Len(b.halts) : b.halts[i] \in HaltType
  BY <1>1
<1>3. \A h \in HaltType : h.start \in Nat /\ h.level \in 0..3
  BY DEF HaltType
<1>4. \A h \in HaltType : B!Day(h.start) \in Nat
  BY <1>3, DayMonotone
<1> QED BY <1>1, <1>2, <1>3, <1>4

(* A later moment of the same day, or a new day at level 0, keeps it. *)
LEMMA AdvancedKept ==
  ASSUME NEW b, NEW s, Kept(b, s), NEW t \in Nat, s <= t, NEW known \in BOOLEAN
  PROVE  Kept(B!Advanced(b, t, known), t) /\ B!Advanced(b, t, known).halts = b.halts
<1> DEFINE c == B!Advanced(b, t, known)
<1>1. b \in BreakerType /\ s \in Nat /\ b.day = B!Day(s) /\ B!Day(t) \in Nat /\ b.day <= B!Day(t)
  BY DayMonotone DEF Kept
<1>2. c = [b EXCEPT !.day = B!Day(t), !.level = IF B!Day(t) = b.day THEN b.level ELSE 0,
                    !.reference = IF B!Day(t) = b.day THEN b.reference \/ known ELSE known]
  BY <1>1 DEF B!Advanced, BreakerType
<1>3. c \in BreakerType /\ c.halts = b.halts /\ c.day = B!Day(t) /\ c.level = IF B!Day(t) = b.day THEN b.level ELSE 0
  <2>1. (IF B!Day(t) = b.day THEN b.reference \/ known ELSE known) \in BOOLEAN
    BY <1>1, BreakerTyped, Zenon
  <2>2. (IF B!Day(t) = b.day THEN b.level ELSE 0) \in 0..3
    BY <1>1, BreakerTyped
  <2> QED BY <1>1, <1>2, <2>1, <2>2 DEF BreakerType
<1>4. InOrder(c, t)
  <2>1. \A i \in 1..Len(b.halts) : b.halts[i].start \in Nat /\ b.halts[i].start <= s
    BY <1>1, BreakerTyped DEF Kept, InOrder
  <2>2. \A i \in 1..Len(c.halts) : c.halts[i].start <= t
    BY <2>1, <1>1, <1>3
  <2> QED BY <2>2, <1>3 DEF Kept, InOrder
<1>5. Levels(c)
  <2>1. B!PriceHalts(c) = B!PriceHalts(b)
    BY <1>3 DEF B!PriceHalts
  <2>2. \A i, j \in B!PriceHalts(c) : i < j => c.halts[i].level < c.halts[j].level
    BY <2>1, <1>3 DEF Kept, Levels
  <2>3. CASE B!Day(t) = b.day
    BY <2>1, <1>3, <2>3 DEF Kept, Levels
  <2>4. CASE B!Day(t) # b.day
    <3>1. b.halts # <<>> => B!Day(b.halts[Len(b.halts)].start) <= b.day
      <4> SUFFICES ASSUME b.halts # <<>> PROVE B!Day(b.halts[Len(b.halts)].start) <= b.day
        OBVIOUS
      <4>1. Len(b.halts) \in 1..Len(b.halts) /\ b.halts[Len(b.halts)].start \in Nat
        BY <1>1, BreakerTyped
      <4>2. b.halts[Len(b.halts)].start <= s
        BY <4>1 DEF Kept, InOrder
      <4> QED BY <4>1, <4>2, <1>1, DayMonotone
    <3>2. ~(c.halts # <<>> /\ B!Day(c.halts[Len(c.halts)].start) = c.day)
      <4>1. B!Day(t) > b.day /\ b.day \in Nat
        BY <1>1, <2>4, BreakerTyped
      <4> QED BY <3>1, <4>1, <1>3, <1>1
    <3> QED BY <2>2, <3>2, <1>3, <2>4 DEF Levels
  <2> QED BY <2>3, <2>4
<1> QED BY <1>3, <1>4, <1>5 DEF Kept

(* A halt that starts now, authored or of a higher level, keeps it, with the day's other halts. *)
LEMMA WithHaltKept ==
  ASSUME NEW b, NEW t \in Nat, Kept(b, t), NEW h \in HaltType, h.start = t, h.level = 0 \/ h.level > b.level,
         NEW c, c = [B!WithHalt(b, h) EXCEPT !.level = IF h.level = 0 THEN b.level ELSE h.level]
  PROVE  Kept(c, t) /\ {x \in HaltsOf(b) : B!Day(x.start) = B!Day(t)} \subseteq HaltsOf(c)
<1> DEFINE today == b.halts = <<>> \/ B!Day(b.halts[Len(b.halts)].start) = b.day
           old == IF today THEN b.halts ELSE <<>>
<1>1. b \in BreakerType /\ b.day = B!Day(t) /\ InOrder(b, t) /\ Levels(b)
  BY DEF Kept
<1>2. b.halts \in Seq(HaltType) /\ old \in Seq(HaltType) /\ Len(old) \in Nat
  BY <1>1 DEF BreakerType
<1>3. /\ c.halts = Append(old, h) /\ c.day = b.day /\ c \in BreakerType
      /\ c.level = IF h.level = 0 THEN b.level ELSE h.level
  <2>1. B!WithHalt(b, h) = [b EXCEPT !.halts = Append(old, h)]
    BY <1>1 DEF B!WithHalt, BreakerType
  <2>2. Append(old, h) \in Seq(HaltType)
    BY <1>2
  <2> QED BY <1>1, <2>1, <2>2 DEF BreakerType, HaltType
<1>4. /\ Len(c.halts) = Len(old) + 1 /\ c.halts[Len(old) + 1] = h
      /\ \A i \in 1..Len(old) : c.halts[i] = old[i] /\ old[i] \in HaltType
  BY <1>2, <1>3
<1>5. \A i \in 1..Len(old) : old[i] = b.halts[i] /\ i \in 1..Len(b.halts) /\ B!Day(old[i].start) = b.day
  <2> SUFFICES ASSUME NEW i \in 1..Len(old)
               PROVE  old[i] = b.halts[i] /\ i \in 1..Len(b.halts) /\ B!Day(old[i].start) = b.day
    OBVIOUS
  <2>1. old = b.halts /\ today /\ b.halts # <<>>
    BY <1>2
  <2>2. Len(b.halts) \in 1..Len(b.halts) /\ B!Day(b.halts[Len(b.halts)].start) = b.day
    BY <2>1, <1>2
  <2> QED BY <2>1, <2>2, <1>1 DEF InOrder
<1>6. InOrder(c, t)
  <2>1. \A i \in 1..Len(c.halts) : i \in 1..Len(old) \/ i = Len(old) + 1
    BY <1>2, <1>4
  <2>2. \A i \in 1..Len(c.halts) : c.halts[i].start <= t /\ B!Day(c.halts[i].start) = b.day
    BY <2>1, <1>1, <1>4, <1>5 DEF InOrder
  <2>3. \A i, j \in 1..Len(c.halts) : i < j => c.halts[i].start <= c.halts[j].start
    <3> SUFFICES ASSUME NEW i \in 1..Len(c.halts), NEW j \in 1..Len(c.halts), i < j
                 PROVE  c.halts[i].start <= c.halts[j].start
      OBVIOUS
    <3>1. i \in 1..Len(old)
      BY <2>1, <1>2, <1>4
    <3>2. CASE j \in 1..Len(old)
      BY <3>1, <3>2, <1>1, <1>4, <1>5 DEF InOrder
    <3>3. CASE j = Len(old) + 1
      BY <3>3, <2>2, <1>4
    <3> QED BY <3>2, <3>3, <2>1
  <2> QED BY <2>2, <2>3 DEF InOrder
<1>7. Levels(c)
  <2>0. c.halts # <<>> /\ B!Day(c.halts[Len(c.halts)].start) = c.day
    BY <1>1, <1>2, <1>3, <1>4
  <2>1. \A i \in B!PriceHalts(c) : \/ i \in B!PriceHalts(b) /\ i \in 1..Len(old) /\ c.halts[i] = b.halts[i]
                                   \/ i = Len(old) + 1 /\ h.level > 0
    BY <1>2, <1>4, <1>5 DEF B!PriceHalts
  <2>2. \A i \in 1..Len(old) : i \in B!PriceHalts(b) =>
          i \in B!PriceHalts(c) /\ c.halts[i].level \in Nat /\ b.level \in Nat /\ c.halts[i].level <= b.level
    <3> SUFFICES ASSUME NEW i \in 1..Len(old), i \in B!PriceHalts(b)
                 PROVE  i \in B!PriceHalts(c) /\ c.halts[i].level \in Nat /\ b.level \in Nat /\ c.halts[i].level <= b.level
      OBVIOUS
    <3>1. old = b.halts /\ b.halts # <<>> /\ B!Day(b.halts[Len(b.halts)].start) = b.day
      BY <1>2
    <3>2. b.halts[i].level <= b.level
      BY <3>1, <1>1 DEF Levels
    <3>3. i \in B!PriceHalts(c)
      BY <1>2, <1>4, <1>5 DEF B!PriceHalts
    <3>4. c.halts[i] = b.halts[i] /\ b.halts[i].level \in 0..3 /\ b.level \in 0..3
      BY <1>1, <1>4, <1>5, BreakerTyped
    <3> QED BY <3>2, <3>3, <3>4
  <2>3. \A i, j \in B!PriceHalts(c) : i < j => c.halts[i].level < c.halts[j].level
    <3> SUFFICES ASSUME NEW i \in B!PriceHalts(c), NEW j \in B!PriceHalts(c), i < j
                 PROVE  c.halts[i].level < c.halts[j].level
      OBVIOUS
    <3>1. i \in 1..Len(old) /\ i \in B!PriceHalts(b) /\ c.halts[i] = b.halts[i]
      BY <2>1, <1>2, <1>4 DEF B!PriceHalts
    <3>2. CASE j \in B!PriceHalts(b) /\ j \in 1..Len(old) /\ c.halts[j] = b.halts[j]
      BY <3>1, <3>2, <1>1 DEF Levels
    <3>3. CASE j = Len(old) + 1 /\ h.level > 0
      <4>1. c.halts[i].level <= b.level /\ c.halts[i].level \in Nat /\ b.level \in Nat
        BY <3>1, <2>2
      <4>2. h.level > b.level /\ h.level \in Nat
        BY <3>3 DEF HaltType
      <4> QED BY <4>1, <4>2, <3>3, <1>4
    <3> QED BY <3>2, <3>3, <2>1
  <2>4. \A i \in B!PriceHalts(c) : c.halts[i].level <= c.level
    <3> SUFFICES ASSUME NEW i \in B!PriceHalts(c) PROVE c.halts[i].level <= c.level
      OBVIOUS
    <3>1. CASE i \in B!PriceHalts(b) /\ i \in 1..Len(old)
      BY <3>1, <2>2, <1>3 DEF HaltType
    <3>2. CASE i = Len(old) + 1 /\ h.level > 0
      BY <3>2, <1>3, <1>4 DEF HaltType
    <3> QED BY <3>1, <3>2, <2>1
  <2>5. c.level = 0 \/ \E i \in B!PriceHalts(c) : c.halts[i].level = c.level
    <3>1. CASE h.level > 0
      <4>1. Len(old) + 1 \in B!PriceHalts(c)
        BY <3>1, <1>2, <1>4 DEF B!PriceHalts
      <4> QED BY <4>1, <3>1, <1>3, <1>4 DEF HaltType
    <3>2. CASE h.level = 0 /\ b.level # 0
      <4>1. b.halts # <<>> /\ B!Day(b.halts[Len(b.halts)].start) = b.day
        BY <3>2, <1>1 DEF Levels
      <4>2. PICK i \in B!PriceHalts(b) : b.halts[i].level = b.level
        BY <3>2, <4>1, <1>1 DEF Levels
      <4>3. i \in 1..Len(old) /\ old = b.halts
        BY <4>1, <4>2 DEF B!PriceHalts
      <4> QED BY <4>2, <4>3, <2>2, <1>3, <1>4, <3>2
    <3> QED BY <3>1, <3>2, <1>3 DEF HaltType
  <2> QED BY <2>0, <2>3, <2>4, <2>5 DEF Levels
<1>8. {x \in HaltsOf(b) : B!Day(x.start) = B!Day(t)} \subseteq HaltsOf(c)
  <2> SUFFICES ASSUME NEW i \in 1..Len(b.halts), B!Day(b.halts[i].start) = b.day PROVE b.halts[i] \in HaltsOf(c)
    BY <1>1 DEF HaltsOf
  <2>1. Len(b.halts) \in 1..Len(b.halts)
    BY <1>2
  <2>2. B!Day(b.halts[Len(b.halts)].start) = b.day
    BY <1>1, <2>1 DEF InOrder
  <2>3. old = b.halts
    BY <2>2
  <2> QED BY <2>3, <1>2, <1>4 DEF HaltsOf
<1> QED BY <1>1, <1>3, <1>6, <1>7, <1>8 DEF Kept

(* What is published is kept, saved or found dirty, and told. *)
LEMMA PublishKept ==
  ASSUME BreakerInv, B!Up, NEW t \in Nat, NEW b, Kept(b, t), market <= t,
         {x \in HaltsOf(breaker) : B!Day(x.start) = B!Day(t)} \subseteq HaltsOf(b),
         B!Publish(b, t), UNCHANGED lost
  PROVE  BreakerInv'
<1>1. breaker' = b /\ market' = t
  BY DEF B!Publish
<1>2. Kept(breaker, market)'
  <2>1. Kept(b, t)' = Kept(b, t)
    OBVIOUS
  <2> QED BY <1>1, <2>1
<1>3. B!Up'
  BY DEF B!Publish, B!Save, B!SaveFails, B!Up
<1> DEFINE file == [breaker |-> b, time |-> t]
<1>4. SavedKept' /\ dirty' \in BOOLEAN /\ (~dirty' => b = IF halted' = <<>> THEN B!Fresh(0) ELSE halted'[1].breaker)
  <2>1. CASE B!Save(b, t)
    <3>1. halted' = <<file>> /\ dirty' = FALSE /\ file.breaker = b /\ file.time = t
      BY <2>1 DEF B!Save
    <3>2. Len(<<file>>) = 1 /\ <<file>>[1] = file /\ <<file>> # <<>>
      OBVIOUS
    <3> QED BY <3>1, <3>2 DEF SavedKept
  <2>2. CASE B!SaveFails(b)
    BY <2>2 DEF B!SaveFails, BreakerInv, SavedKept
  <2>3. CASE UNCHANGED <<dirty, halting, halted, breaks>> /\ ~dirty /\ b = breaker
    BY <2>3 DEF BreakerInv, SavedKept
  <2> QED BY <2>1, <2>2, <2>3 DEF B!Publish
<1>6. ~lost' => told' = HaltsOf(b)
  <2>1. told' = {h \in told : B!Day(h.start) = B!Day(t)} \cup HaltsOf(b)
    BY DEF B!Publish, HaltsOf
  <2> QED BY <2>1 DEF BreakerInv
<1> QED BY <1>1, <1>2, <1>3, <1>4, <1>6 DEF BreakerInv

(* A breaker that saw nothing is in order. *)
LEMMA FreshKept == Kept(B!Fresh(0), 0) /\ HaltsOf(B!Fresh(0)) = {}
<1>1. B!Fresh(0) = [day |-> 0, level |-> 0, halts |-> <<>>, reference |-> FALSE]
  BY DEF B!Fresh
<1>2. B!Fresh(0) \in BreakerType
  <2>1. <<>> \in Seq(HaltType)
    OBVIOUS
  <2>2. [day |-> 0, level |-> 0, halts |-> <<>>, reference |-> FALSE] \in BreakerType
    BY <2>1 DEF BreakerType
  <2> QED BY <1>1, <2>2
<1>3. B!Day(0) = 0
  BY DayMonotone
<1> QED BY <1>1, <1>2, <1>3 DEF Kept, InOrder, Levels, HaltsOf, B!PriceHalts

(* What was saved is what a start accepts. *)
LEMMA KeptConsistent ==
  ASSUME NEW b, NEW t, Kept(b, t) PROVE B!Consistent(b, t)
<1>1. b \in BreakerType
  BY DEF Kept
<1>2. \A i \in B!PriceHalts(b) \ {1} :
        b.halts[i - 1].start <= b.halts[i].start /\ B!Day(b.halts[i - 1].start) = B!Day(b.halts[i].start)
  <2> SUFFICES ASSUME NEW i \in 1..Len(b.halts), i # 1
               PROVE  /\ b.halts[i - 1].start <= b.halts[i].start
                      /\ B!Day(b.halts[i - 1].start) = B!Day(b.halts[i].start)
    BY DEF B!PriceHalts
  <2>1. i - 1 \in 1..Len(b.halts) /\ i - 1 < i
    BY <1>1, BreakerTyped
  <2> QED BY <2>1 DEF Kept, InOrder
<1> QED BY <1>2 DEF Kept, InOrder, Levels, B!Consistent

(* The invariant holds of a service that never started. *)
LEMMA BreakerInit == B!Init => BreakerInv
BY FreshKept DEF B!Init, BreakerInv, SavedKept, B!Up

(* No step breaks it when index prints come in the order of their time. *)
LEMMA BreakerStep == ASSUME MaxLate = 0, BreakerInv, [B!Next]_breakerVars PROVE BreakerInv'
<1>1. CASE B!IndexPrint
  <2>1. PICK t \in (market - MaxLate)..(market + 1), fall \in Falls, known \in BOOLEAN :
          /\ B!Up /\ t \in 0..(MaxMarket - 1) /\ UNCHANGED lost
          /\ LET b == B!Checked(B!Advanced(breaker, t, known), fall, t) IN
             B!Publish(B!Advanced(b, B!Max(market, t), known), B!Max(market, t))
    BY <1>1 DEF B!IndexPrint
  <2> DEFINE a == B!Advanced(breaker, t, known)
             b == B!Checked(a, fall, t)
             c == B!Advanced(b, t, known)
  <2>2. Kept(breaker, market) /\ market \in Nat /\ t \in Nat /\ market <= t /\ B!Max(market, t) = t
    BY <2>1 DEF BreakerInv, Kept, B!Max
  <2>3. Kept(a, t) /\ a.halts = breaker.halts
    BY <2>2, AdvancedKept
  <2>4. Kept(b, t) /\ {x \in HaltsOf(breaker) : B!Day(x.start) = B!Day(t)} \subseteq HaltsOf(b)
    <3>1. a \in BreakerType /\ a.day = B!Day(t) /\ HaltsOf(a) = HaltsOf(breaker) /\ B!Day(t) \in Nat
      BY <2>2, <2>3, DayMonotone DEF Kept, HaltsOf
    <3>2. CASE ~B!Trips(a, fall, t)
      BY <2>3, <3>1, <3>2 DEF B!Checked
    <3>3. CASE B!Trips(a, fall, t)
      <4> DEFINE h == B!Tripped(fall, t)
      <4>1. fall \in 0..3 /\ fall > a.level /\ a.level \in 0..3
        BY <3>1, <3>3, BreakerAssumption, BreakerTyped DEF B!Trips
      <4>2. h \in HaltType /\ h.start = t /\ h.level = fall /\ fall # 0
        <5>1. B!Close(t) \in Int /\ t + HaltTicks \in Int
          BY <3>1, <2>2, BreakerAssumption DEF B!Close
        <5> QED BY <4>1, <5>1, <2>2 DEF B!Tripped, B!Halt, HaltType
      <4>3. b = [B!WithHalt(a, h) EXCEPT !.level = IF h.level = 0 THEN a.level ELSE h.level]
        BY <3>1, <3>3, <4>2 DEF B!Checked
      <4> HIDE DEF a, b, h
      <4> QED BY <2>2, <2>3, <3>1, <4>1, <4>2, <4>3, WithHaltKept
    <3> QED BY <3>2, <3>3
  <2>5. Kept(c, t) /\ HaltsOf(c) = HaltsOf(b)
    <3> HIDE DEF b
    <3> QED BY <2>2, <2>4, AdvancedKept DEF HaltsOf
  <2>6. B!Publish(c, t)
    BY <2>1, <2>2
  <2> HIDE DEF a, b, c
  <2> QED BY <2>1, <2>2, <2>4, <2>5, <2>6, PublishKept
<1>2. CASE B!AuthoredHalt
  <2>1. PICK length \in 1..HaltTicks, known \in BOOLEAN :
          /\ B!Up /\ UNCHANGED lost
          /\ B!Publish(B!WithHalt(B!Advanced(breaker, market, known), B!Halt(0, market, market + length)), market)
    BY <1>2 DEF B!AuthoredHalt
  <2> DEFINE a == B!Advanced(breaker, market, known)
             h == B!Halt(0, market, market + length)
             b == B!WithHalt(a, h)
  <2>2. Kept(breaker, market) /\ market \in Nat /\ market <= market
    BY DEF BreakerInv, Kept
  <2>3. Kept(a, market) /\ a.halts = breaker.halts
    BY <2>2, AdvancedKept
  <2>4. h \in HaltType /\ h.start = market /\ h.level = 0
    BY <2>2, BreakerAssumption DEF B!Halt, HaltType
  <2>5. b = [b EXCEPT !.level = IF h.level = 0 THEN a.level ELSE h.level]
    <3>1. a \in BreakerType
      BY <2>3 DEF Kept
    <3>2. b = [a EXCEPT !.halts = b.halts]
      BY <3>1 DEF B!WithHalt, BreakerType
    <3> HIDE DEF b
    <3> QED BY <2>4, <3>1, <3>2 DEF BreakerType
  <2>6. HaltsOf(a) = HaltsOf(breaker)
    BY <2>3 DEF HaltsOf
  <2>7. B!Publish(b, market)
    BY <2>1
  <2>8. Kept(b, market) /\ {x \in HaltsOf(breaker) : B!Day(x.start) = B!Day(market)} \subseteq HaltsOf(b)
    <3>1. b = [B!WithHalt(a, h) EXCEPT !.level = IF h.level = 0 THEN a.level ELSE h.level]
      BY <2>5
    <3> HIDE DEF a, b, h
    <3> QED BY <2>2, <2>3, <2>4, <2>6, <3>1, WithHaltKept
  <2> HIDE DEF a, b, h
  <2> QED BY <2>1, <2>2, <2>7, <2>8, PublishKept
<1>3. CASE B!Stop
  BY <1>3, FreshKept DEF B!Stop, BreakerInv, SavedKept, B!Up
<1>4. CASE B!Load
  <2>1. ~B!Up /\ UNCHANGED <<dirty, halted, told, lost>> /\ ~dirty
    BY <1>4 DEF B!Load, BreakerInv
  <2>2. CASE halted = <<>>
    <3>1. breaker' = B!Fresh(0) /\ market' = 0 /\ halting' = ""
      BY <1>4, <2>2 DEF B!Load, B!Loaded
    <3> QED BY <2>1, <2>2, <3>1, FreshKept DEF BreakerInv, SavedKept, B!Up
  <2>3. CASE halted # <<>>
    <3>1. Kept(halted[1].breaker, halted[1].time) /\ B!Loaded
      BY <2>3, KeptConsistent DEF B!Loaded, BreakerInv, SavedKept
    <3>2. breaker' = halted[1].breaker /\ market' = halted[1].time /\ halting' = ""
      BY <1>4, <3>1 DEF B!Load
    <3> QED BY <2>1, <2>3, <3>1, <3>2 DEF BreakerInv, SavedKept, B!Up
  <2> QED BY <2>2, <2>3
<1>5. CASE UNCHANGED breakerVars
  BY <1>5 DEF breakerVars, BreakerInv, SavedKept, B!Up, Kept, InOrder, Levels, HaltsOf, B!PriceHalts
<1> QED BY <1>1, <1>2, <1>3, <1>4, <1>5 DEF B!Next

(* The invariant is stronger than what the breaker promises. *)
LEMMA BreakerSafe == BreakerInv => HaltsSurviveRestart
<1> SUFFICES ASSUME BreakerInv, B!Up, ~lost
             PROVE  /\ \A h \in told : B!Covers(h, market) => \E i \in 1..Len(breaker.halts) : breaker.halts[i] = h
                    /\ \A g, h \in told : (g # h /\ g.level = h.level /\ B!Day(g.start) = B!Day(h.start)) => g.level = 0
  BY DEF HaltsSurviveRestart, B!HaltsSurviveRestart
<1>1. told = HaltsOf(breaker) /\ Kept(breaker, market) /\ breaker \in BreakerType
  BY DEF BreakerInv, Kept
<1>2. ASSUME NEW i \in 1..Len(breaker.halts), NEW j \in 1..Len(breaker.halts), i < j,
             breaker.halts[i].level = breaker.halts[j].level
      PROVE  breaker.halts[i].level = 0
  <2>1. breaker.halts[i].level \in 0..3 /\ breaker.halts[j].level \in 0..3
    BY <1>1, BreakerTyped
  <2>2. breaker.halts[i].level > 0 => breaker.halts[i].level < breaker.halts[j].level
    BY <1>1, <1>2, <2>1 DEF Kept, Levels, B!PriceHalts
  <2> QED BY <1>2, <2>1, <2>2
<1>3. \A g, h \in told : (g # h /\ g.level = h.level) => g.level = 0
  <2> SUFFICES ASSUME NEW i \in 1..Len(breaker.halts), NEW j \in 1..Len(breaker.halts),
                      breaker.halts[i] # breaker.halts[j], breaker.halts[i].level = breaker.halts[j].level
               PROVE  breaker.halts[i].level = 0
    BY <1>1 DEF HaltsOf
  <2>1. i < j \/ j < i
    BY <1>1, BreakerTyped
  <2> QED BY <1>2, <2>1
<1> QED BY <1>1, <1>3 DEF HaltsOf

(* While prints arrive in order, no restart undoes a market-wide halt and no level trips twice
   in a day, for any length of day and halt, any falls and any number of restarts and failed
   writes (desk.cpp:1192). *)
THEOREM HaltsKept == MaxLate = 0 /\ BreakerSpec => []HaltsSurviveRestart
<1> SUFFICES ASSUME MaxLate = 0 PROVE BreakerSpec => []HaltsSurviveRestart
  OBVIOUS
<1>1. B!Init => BreakerInv
  BY BreakerInit
<1>2. BreakerInv /\ [B!Next]_breakerVars => BreakerInv'
  BY BreakerStep
<1>3. BreakerInv => HaltsSurviveRestart
  BY BreakerSafe
<1> QED BY <1>1, <1>2, <1>3, PTL DEF BreakerSpec

-------------------------------------------------------------------------------
(* Sandboxes *)

\* An entry: its orders stay opaque.
IsEntry(e) == DOMAIN e = {"ready", "used", "orders"} /\ e.ready \in BOOLEAN /\ e.used \in Int
              /\ e = [ready |-> e.ready, used |-> e.used, orders |-> e.orders]
\* An account being created has its entry, which nothing may expire yet.
Awaited(k) == inbox[k].kind = "create" => inbox[k].id \in S!Taken /\ ~entries[inbox[k].id].ready
Commands == [kind : {"create", "order"}, id : SandboxIds]

SandboxInv ==
  /\ entries = [i \in S!Taken |-> entries[i]] /\ S!Taken \subseteq SandboxIds /\ \A i \in S!Taken : IsEntry(entries[i])
  /\ IsFiniteSet(S!Taken) /\ Cardinality(S!Taken) <= Capacity
  /\ S!Taken \subseteq drawn /\ time \in Int /\ inbox \in Seq(Commands)
  /\ \A k \in 1..Len(inbox) : Awaited(k)
  /\ \A k, l \in 1..Len(inbox) : (k # l /\ inbox[k].kind = "create" /\ inbox[l].kind = "create") => inbox[k].id # inbox[l].id
  /\ boxes \cup folders \subseteq S!Taken
  /\ \A i \in expiring : i \in S!Taken /\ entries[i].ready

(* Counting inside the instance is counting. *)
LEMMA Counted == ASSUME NEW T PROVE S!Cardinality(T) = Cardinality(T)
BY DEF S!Cardinality, Cardinality, S!IsFiniteSet, IsFiniteSet

(* Nothing is there before the first visitor. *)
LEMMA SandboxesInitial == S!Init => SandboxInv
<1> SUFFICES ASSUME S!Init PROVE SandboxInv
  OBVIOUS
<1>1. S!Taken = {} /\ Cardinality(S!Taken) = 0 /\ IsFiniteSet(S!Taken)
  BY FS_EmptySet DEF S!Init, S!Taken
<1> QED BY <1>1, SandboxesAssumption DEF S!Init, SandboxInv, S!Taken

(* A reserved entry is in use, and its account is created once. *)
LEMMA ReserveKept == ASSUME SandboxInv, S!Reserve PROVE SandboxInv'
<1>1. PICK client \in Clients, i \in SandboxIds \ drawn :
        /\ Cardinality(S!Taken) < Capacity /\ drawn' = drawn \cup {i} /\ UNCHANGED <<time, boxes, folders, expiring>>
        /\ \/ entries' = S!With(i, S!Fresh(time)) /\ inbox' = Append(inbox, [kind |-> "create", id |-> i])
           \/ UNCHANGED <<entries, inbox>>
  BY Counted DEF S!Reserve, S!Admits
<1>2. CASE UNCHANGED <<entries, inbox>>
  BY <1>1, <1>2 DEF SandboxInv, S!Taken, Awaited
<1>3. CASE entries' = S!With(i, S!Fresh(time)) /\ inbox' = Append(inbox, [kind |-> "create", id |-> i])
  <2> DEFINE c == [kind |-> "create", id |-> i]
  <2>1. /\ S!Taken' = S!Taken \cup {i} /\ i \notin S!Taken /\ entries'[i] = S!Fresh(time)
        /\ entries' = [j \in S!Taken' |-> entries'[j]] /\ \A j \in S!Taken : entries'[j] = entries[j]
    BY <1>1, <1>3 DEF SandboxInv, S!Taken, S!With
  <2>2. IsFiniteSet(S!Taken') /\ Cardinality(S!Taken') = Cardinality(S!Taken) + 1 /\ Cardinality(S!Taken) \in Nat
    BY <2>1, FS_AddElement, FS_CardinalityType DEF SandboxInv
  <2>3. IsEntry(S!Fresh(time)) /\ ~S!Fresh(time).ready
    BY DEF SandboxInv, S!Fresh, IsEntry
  <2>4. c \in Commands /\ inbox \in Seq(Commands)
    BY DEF SandboxInv, Commands
  <2>5. /\ inbox' \in Seq(Commands) /\ Len(inbox') = Len(inbox) + 1 /\ Len(inbox) \in Nat /\ inbox'[Len(inbox) + 1] = c
        /\ \A k \in 1..Len(inbox) : inbox'[k] = inbox[k]
    BY <1>3, <2>4
  <2>6. \A k \in 1..Len(inbox') : k \in 1..Len(inbox) \/ k = Len(inbox) + 1
    BY <2>5
  <2>7. \A k \in 1..Len(inbox') : Awaited(k)'
    BY <2>1, <2>3, <2>5, <2>6 DEF SandboxInv, Awaited
  <2>8. \A k, l \in 1..Len(inbox') : (k # l /\ inbox'[k].kind = "create" /\ inbox'[l].kind = "create") => inbox'[k].id # inbox'[l].id
    BY <2>1, <2>5, <2>6 DEF SandboxInv, Awaited
  <2>9. S!Taken' \subseteq SandboxIds /\ S!Taken' \subseteq drawn' /\ Cardinality(S!Taken') <= Capacity
    BY <1>1, <2>1, <2>2, SandboxesAssumption DEF SandboxInv
  <2>10. \A j \in S!Taken' : IsEntry(entries'[j])
    BY <1>3, <2>1, <2>3 DEF SandboxInv, S!With
  <2>11. /\ boxes' \cup folders' \subseteq S!Taken' /\ time' \in Int
         /\ \A j \in expiring' : j \in S!Taken' /\ entries'[j].ready
    BY <1>1, <2>1 DEF SandboxInv
  <2> QED BY <2>1, <2>2, <2>5, <2>7, <2>8, <2>9, <2>10, <2>11 DEF SandboxInv
<1> QED BY <1>1, <1>2, <1>3

(* An order counts for its sandbox's expiry before it is handed to the desk. *)
LEMMA OrderKept == ASSUME SandboxInv, S!Order PROVE SandboxInv'
<1>1. PICK i \in S!Taken :
        /\ \E o : entries' = [entries EXCEPT ![i].used = time, ![i].orders = o]
        /\ UNCHANGED <<creations, time, drawn, boxes, folders, expiring>>
        /\ inbox' = inbox \/ inbox' = Append(inbox, [kind |-> "order", id |-> i])
  BY DEF S!Order
<1> DEFINE c == [kind |-> "order", id |-> i]
<1>2. /\ S!Taken' = S!Taken /\ entries' = [j \in S!Taken' |-> entries'[j]]
      /\ \A j \in S!Taken : IsEntry(entries'[j]) /\ entries'[j].ready = entries[j].ready
  <2>1. entries = [j \in S!Taken |-> entries[j]] /\ DOMAIN entries = S!Taken /\ time \in Int
    BY DEF SandboxInv, S!Taken
  <2>0. PICK o : entries' = [entries EXCEPT ![i].used = time, ![i].orders = o]
    BY <1>1
  <2>2. /\ DOMAIN entries' = S!Taken /\ \A j \in S!Taken : j # i => entries'[j] = entries[j]
        /\ entries'[i] = [entries[i] EXCEPT !.used = time, !.orders = o]
    BY <2>0, <2>1
  <2>3. IsEntry(entries'[i]) /\ entries'[i].ready = entries[i].ready
    <3>1. IsEntry(entries[i])
      BY <1>1 DEF SandboxInv
    <3> DEFINE e == entries'[i]
    <3>2. DOMAIN e = {"ready", "used", "orders"} /\ e.ready = entries[i].ready /\ e.used = time
          /\ e = [ready |-> e.ready, used |-> e.used, orders |-> e.orders]
      BY <2>2, <3>1 DEF IsEntry
    <3> QED BY <2>1, <3>1, <3>2 DEF IsEntry
  <2>4. S!Taken' = S!Taken /\ entries' = [j \in S!Taken' |-> entries'[j]]
    BY <1>1, <2>1, <2>2 DEF S!Taken
  <2> QED BY <2>2, <2>3, <2>4 DEF SandboxInv
<1>3. c \in Commands /\ inbox \in Seq(Commands)
  BY <1>1 DEF SandboxInv, Commands
<1>4. inbox' \in Seq(Commands) /\ \A k \in 1..Len(inbox') : inbox'[k].kind = "create" => k \in 1..Len(inbox) /\ inbox'[k] = inbox[k]
  <2>1. CASE inbox' = inbox
    BY <1>3, <2>1
  <2>2. CASE inbox' = Append(inbox, c)
    BY <1>3, <2>2
  <2> QED BY <1>1, <2>1, <2>2
<1>5. \A k \in 1..Len(inbox') : Awaited(k)'
  BY <1>2, <1>4 DEF SandboxInv, Awaited
<1>6. \A k, l \in 1..Len(inbox') : (k # l /\ inbox'[k].kind = "create" /\ inbox'[l].kind = "create") => inbox'[k].id # inbox'[l].id
  BY <1>4 DEF SandboxInv
<1>7. \A j \in expiring' : j \in S!Taken' /\ entries'[j].ready
  BY <1>1, <1>2 DEF SandboxInv
<1> QED BY <1>1, <1>2, <1>4, <1>5, <1>6, <1>7 DEF SandboxInv

(* A command of the desk creates or serves an account whose entry is there. *)
LEMMA CommandKept == ASSUME SandboxInv, S!Command PROVE SandboxInv'
<1>1. /\ inbox # <<>> /\ expiring = {} /\ inbox' = Tail(inbox) /\ UNCHANGED <<creations, time, drawn, expiring>>
      /\ inbox[1].kind # "create" => UNCHANGED <<entries, boxes, folders>>
      /\ inbox[1].kind = "create" => S!Created(inbox[1].id) \/ S!FailedCreation(inbox[1].id)
  BY DEF S!Command
<1>2. /\ inbox \in Seq(Commands) /\ Len(inbox) \in Nat /\ 1 \in 1..Len(inbox) /\ inbox' \in Seq(Commands)
      /\ Len(inbox') = Len(inbox) - 1 /\ \A k \in 1..Len(inbox') : inbox'[k] = inbox[k + 1] /\ k + 1 \in 1..Len(inbox)
  BY <1>1 DEF SandboxInv
<1>3. CASE inbox[1].kind # "create"
  BY <1>1, <1>2, <1>3 DEF SandboxInv, S!Taken, Awaited
<1>4. CASE inbox[1].kind = "create"
  <2> DEFINE i == inbox[1].id
  <2>1. i \in S!Taken
    BY <1>2, <1>4 DEF SandboxInv, Awaited
  <2>2. PICK used \in Int : S!Ready(i, used) /\ boxes' \subseteq boxes \cup {i} /\ folders' \subseteq folders \cup {i}
    <3>1. time \in Int /\ time - IdleAfter \in Int
      BY SandboxesAssumption DEF SandboxInv
    <3> QED BY <1>1, <1>4, <3>1 DEF S!Created, S!FailedCreation
  <2>3. /\ S!Taken' = S!Taken /\ entries' = [j \in S!Taken' |-> entries'[j]]
        /\ \A j \in S!Taken : IsEntry(entries'[j]) /\ (j # i => entries'[j] = entries[j])
    <3>1. entries = [j \in S!Taken |-> entries[j]] /\ DOMAIN entries = S!Taken
      BY DEF SandboxInv, S!Taken
    <3>2. /\ DOMAIN entries' = S!Taken /\ \A j \in S!Taken : j # i => entries'[j] = entries[j]
          /\ entries'[i] = [entries[i] EXCEPT !.ready = TRUE, !.used = used]
          /\ entries' = [j \in S!Taken |-> entries'[j]]
      BY <2>1, <2>2, <3>1 DEF S!Ready
    <3>3. IsEntry(entries'[i])
      BY <2>1, <3>2 DEF SandboxInv, IsEntry
    <3> QED BY <3>1, <3>2, <3>3 DEF SandboxInv, S!Taken
  <2>4. \A k \in 1..Len(inbox') : inbox'[k].kind = "create" => inbox'[k].id # i
    BY <1>2, <1>4 DEF SandboxInv
  <2>5. \A k \in 1..Len(inbox') : Awaited(k)'
    <3> SUFFICES ASSUME NEW k \in 1..Len(inbox'), inbox'[k].kind = "create"
                 PROVE  inbox'[k].id \in S!Taken' /\ ~entries'[inbox'[k].id].ready
      BY DEF Awaited
    <3>1. inbox'[k].id \in S!Taken /\ ~entries[inbox'[k].id].ready
      BY <1>2 DEF SandboxInv, Awaited
    <3> QED BY <2>3, <2>4, <3>1
  <2> QED BY <1>1, <1>2, <2>1, <2>2, <2>3, <2>5 DEF SandboxInv
<1> QED BY <1>3, <1>4

(* An expired sandbox leaves its files only after its account. *)
LEMMA RemoveOneKept == ASSUME SandboxInv, S!RemoveOne PROVE SandboxInv'
<1>1. PICK i \in expiring :
        /\ boxes' = boxes \ {i} /\ expiring' = expiring \ {i} /\ UNCHANGED <<creations, time, drawn, inbox>>
        /\ \/ folders' = folders \ {i} /\ entries' = S!Without(i)
           \/ UNCHANGED <<folders, entries>>
  BY DEF S!RemoveOne
<1>2. CASE UNCHANGED <<folders, entries>>
  BY <1>1, <1>2 DEF SandboxInv, S!Taken, Awaited
<1>3. CASE folders' = folders \ {i} /\ entries' = S!Without(i)
  <2>1. /\ S!Taken' = S!Taken \ {i} /\ entries' = [j \in S!Taken' |-> entries'[j]]
        /\ \A j \in S!Taken' : entries'[j] = entries[j]
    BY <1>3 DEF S!Taken, S!Without
  <2>2. IsFiniteSet(S!Taken') /\ Cardinality(S!Taken') <= Capacity
    <3>1. IsFiniteSet(S!Taken) /\ Cardinality(S!Taken) <= Capacity /\ S!Taken' \subseteq S!Taken
      BY <2>1 DEF SandboxInv
    <3>2. IsFiniteSet(S!Taken') /\ Cardinality(S!Taken') <= Cardinality(S!Taken)
      BY <3>1, FS_Subset
    <3> QED BY <3>1, <3>2, FS_CardinalityType, SandboxesAssumption
  <2>3. \A k \in 1..Len(inbox') : Awaited(k)'
    BY <1>1, <2>1 DEF SandboxInv, Awaited
  <2> QED BY <1>1, <1>3, <2>1, <2>2, <2>3 DEF SandboxInv
<1> QED BY <1>1, <1>2, <1>3

(* Every step of the sandboxes keeps the invariant. *)
LEMMA SandboxesStep == ASSUME SandboxInv, [S!Next]_sandboxVars PROVE SandboxInv'
<1>1. CASE S!Expire
  BY <1>1 DEF S!Expire, S!Expired, SandboxInv, S!Taken, Awaited
<1>2. CASE S!Advance
  BY <1>2 DEF S!Advance, SandboxInv, S!Taken, Awaited
<1>3. CASE UNCHANGED sandboxVars
  BY <1>3 DEF sandboxVars, SandboxInv, S!Taken, Awaited
<1> QED BY <1>1, <1>2, <1>3, ReserveKept, OrderKept, CommandKept, RemoveOneKept DEF S!Next

(* The invariant is stronger than what the sandboxes promise. *)
LEMMA SandboxesSafe == SandboxInv => NoSandboxOrphaned
<1> SUFFICES ASSUME SandboxInv PROVE boxes \cup folders \subseteq S!Taken /\ Cardinality(folders) <= Capacity
  BY Counted DEF NoSandboxOrphaned, S!NoSandboxOrphaned
<1>1. IsFiniteSet(S!Taken) /\ folders \subseteq S!Taken /\ Cardinality(S!Taken) <= Capacity /\ boxes \cup folders \subseteq S!Taken
  BY DEF SandboxInv
<1>2. IsFiniteSet(folders) /\ Cardinality(folders) <= Cardinality(S!Taken)
  BY <1>1, FS_Subset
<1> QED BY <1>1, <1>2, FS_CardinalityType, SandboxesAssumption

(* No account or directory outlives its entry and the disk never holds more than the capacity,
   whatever creations and removals failed (sandboxes.cpp, desk.cpp expire_sandboxes). *)
THEOREM NoneOrphaned == SandboxesSpec => []NoSandboxOrphaned
<1>1. S!Init => SandboxInv
  BY SandboxesInitial
<1>2. SandboxInv /\ [S!Next]_sandboxVars => SandboxInv'
  BY SandboxesStep
<1>3. SandboxInv => NoSandboxOrphaned
  BY SandboxesSafe
<1> QED BY <1>1, <1>2, <1>3, PTL DEF SandboxesSpec

-------------------------------------------------------------------------------
(* The failover provider *)

Feeds == {"primary", "backup"}
Lines == Feeds \cup {"cleared", "none"}
RouteType == [active : Feeds, bad : Int, success : Int, healthy : Int, backup : {"connecting", "live", "stale", "error"},
              switched : Int, unpriced : SUBSET Contracts]
(* What a step under the mutex works on is of its type, and for its underlying u a quote is
   in the book only if its feed's cache has it, a quote of the other feed is remembered as
   unpriced, and what the active feed has priced is in the book. *)
Fine(x) == /\ x.route \in RouteType /\ x.book \in [Contracts -> Lines] /\ x.sent \subseteq Contracts
           /\ x.caches \subseteq Feeds \X Contracts
Sound(x, u) ==
  /\ \A c \in ContractsOf(u) :
       /\ x.book[c] \in Feeds => c \in x.sent /\ (x.book[c] = x.route.active \/ c \in x.route.unpriced)
       /\ <<x.route.active, c>> \in x.caches => x.book[c] = x.route.active
  /\ x.route.unpriced \subseteq ContractsOf(u) /\ (x.vouched => x.route.unpriced = {})
(* It leaves other underlyings' contracts alone, and a backup that failed stays out. *)
Apart(x, u) ==
  /\ published \subseteq x.sent
  /\ \A c \in Contracts \ ContractsOf(u) :
       x.book[c] = quoted[c] /\ \A feed \in Feeds : <<feed, c>> \in x.caches <=> <<feed, c>> \in caches
Backed(r) == backup = "failed" => r.active = "primary" /\ r.backup = "error"
Working(x, u) == Fine(x) /\ Sound(x, u) /\ Apart(x, u) /\ Backed(x.route)

Typed == /\ clock \in Int /\ routes \in [Underlyings -> RouteType] /\ vouched = [u \in Underlyings |-> vouched[u]]
         /\ quoted \in [Contracts -> Lines] /\ published \subseteq Contracts /\ caches \subseteq Feeds \X Contracts
Stopping == /\ starting \subseteq {"monitor", "primary"} /\ stopping \in {"no", "monitor", "primary", "stopped"}
            /\ stopping = "primary" => "monitor" \notin starting
            /\ stopping = "stopped" => starting = {} /\ backup # "running"
FailoverInv == Typed /\ Stopping /\ \A u \in Underlyings : Sound(F!Now(u), u) /\ Backed(routes[u])

(* What a switch does to the route itself. *)
LEMMA MovedRoute ==
  ASSUME NEW r \in RouteType, NEW feed \in Feeds, clock \in Int, NEW left, left \subseteq Contracts
  PROVE  LET m == [F!Moved(r, feed) EXCEPT !.unpriced = left]
         IN m \in RouteType /\ m.active = feed /\ m.backup = r.backup /\ m.unpriced = left
<1> DEFINE a == [r EXCEPT !.active = feed, !.switched = clock]
           h == IF feed = "backup" THEN -1 ELSE r.healthy
           b == [a EXCEPT !.healthy = h]
<1>1. a \in RouteType /\ a.active = feed /\ a.backup = r.backup /\ a.healthy = r.healthy
  BY DEF RouteType
<1>2. h \in Int
  BY DEF RouteType
<1>3. F!Moved(r, feed) = b
  BY <1>1 DEF F!Moved
<1> HIDE DEF a, h
<1>4. b \in RouteType /\ b.active = feed /\ b.backup = r.backup
  BY <1>1, <1>2 DEF RouteType
<1> HIDE DEF b
<1>5. [b EXCEPT !.unpriced = left] \in RouteType
  BY <1>4 DEF RouteType
<1>6. [b EXCEPT !.unpriced = left].active = feed /\ [b EXCEPT !.unpriced = left].backup = r.backup
      /\ [b EXCEPT !.unpriced = left].unpriced = left
  BY <1>4 DEF RouteType
<1> QED BY <1>3, <1>5, <1>6

(* A switch leaves every quote of the old feed behind as unpriced. *)
LEMMA SwitchedWorks ==
  ASSUME NEW u \in Underlyings, NEW x, NEW feed \in Feeds, Working(x, u), clock \in Int,
         x.route.active # feed, backup = "failed" => feed = "primary"
  PROVE  Working(F!Switched(x, u, feed), u)
<1> DEFINE y == F!Switched(x, u, feed)
           priced == F!Priced(x, u, feed)
           left == (ContractsOf(u) \cap x.sent) \ priced
           r == [F!Moved(x.route, feed) EXCEPT !.unpriced = left]
<1>1. /\ x.route \in RouteType /\ x.book \in [Contracts -> Lines] /\ x.sent \subseteq Contracts
      /\ x.caches \subseteq Feeds \X Contracts
  BY DEF Working, Fine
<1>2. priced \subseteq ContractsOf(u) /\ priced = {c \in ContractsOf(u) : <<feed, c>> \in x.caches} /\ ContractsOf(u) \subseteq Contracts
  BY FailoverAssumption DEF F!Priced
<1>3. r \in RouteType /\ r.active = feed /\ r.backup = x.route.backup /\ r.unpriced = left
  <2>1. left \subseteq Contracts
    BY <1>1, <1>2
  <2> HIDE DEF left
  <2> QED BY <1>1, <2>1, MovedRoute
<1>4. /\ y.route = r /\ y.sent = x.sent \cup priced /\ y.caches = x.caches /\ y.vouched = FALSE
      /\ y.book = [c \in Contracts |-> IF c \in priced THEN feed ELSE x.book[c]]
  BY DEF F!Switched, F!Ctx
<1> HIDE DEF y, priced, r
<1>5. Fine(y)
  BY <1>1, <1>2, <1>3, <1>4 DEF Fine, Lines
<1>6. Sound(y, u)
  <2> SUFFICES ASSUME NEW c \in ContractsOf(u)
               PROVE  /\ y.book[c] \in Feeds => c \in y.sent /\ (y.book[c] = feed \/ c \in left)
                      /\ <<feed, c>> \in y.caches => y.book[c] = feed
    BY <1>3, <1>4 DEF Sound
  <2>1. CASE c \in priced
    BY <1>2, <1>4, <2>1
  <2>2. CASE c \notin priced
    <3>1. y.book[c] = x.book[c] /\ <<feed, c>> \notin x.caches
      BY <1>2, <1>4, <2>2
    <3>2. x.book[c] \in Feeds => c \in x.sent
      BY DEF Working, Sound
    <3> QED BY <1>2, <1>4, <2>2, <3>1, <3>2
  <2> QED BY <2>1, <2>2
<1>7. Apart(y, u)
  BY <1>1, <1>2, <1>4 DEF Apart, Working
<1>8. Backed(y.route)
  BY <1>3, <1>4 DEF Backed, Working
<1> QED BY <1>5, <1>6, <1>7, <1>8 DEF Working, y

(* An evaluation switches only to a feed that works. *)
LEMMA EvaluatedWorks ==
  ASSUME NEW u \in Underlyings, NEW x, Working(x, u), clock \in Int
  PROVE  Working(F!Evaluated(x, u), u)
<1>1. CASE x.route.active = "primary" /\ F!Due(x.route) /\ ~F!Failing(x.route.backup)
  <2>1. backup # "failed"
    BY <1>1 DEF F!Failing, Working, Backed
  <2>2. Working(F!Switched(x, u, "backup"), u)
    BY <1>1, <2>1, SwitchedWorks DEF Feeds
  <2> QED BY <1>1, <2>2 DEF F!Evaluated
<1>2. CASE x.route.active = "backup" /\ F!Recovered(x.route)
  <2>1. Working(F!Switched(x, u, "primary"), u)
    BY <1>2, SwitchedWorks DEF Feeds
  <2> QED BY <1>2, <2>1 DEF F!Evaluated
<1>3. CASE ~(x.route.active = "primary" /\ F!Due(x.route) /\ ~F!Failing(x.route.backup)) /\ ~(x.route.active = "backup" /\ F!Recovered(x.route))
  BY <1>3 DEF F!Evaluated
<1> QED BY <1>1, <1>2, <1>3

(* A vouched route clears what its feed did not price. *)
LEMMA VouchedWorks ==
  ASSUME NEW u \in Underlyings, NEW x, Working(x, u)
  PROVE  Working(F!Vouched(x), u)
<1> DEFINE y == F!Vouched(x)
           gone == F!Gone(x)
           r == [x.route EXCEPT !.unpriced = {}]
<1>1. /\ x.route \in RouteType /\ x.book \in [Contracts -> Lines] /\ x.sent \subseteq Contracts
      /\ x.caches \subseteq Feeds \X Contracts /\ x.route.unpriced \subseteq ContractsOf(u) /\ ContractsOf(u) \subseteq Contracts
  BY FailoverAssumption DEF Working, Fine, Sound
<1>2. r \in RouteType /\ r.active = x.route.active /\ r.backup = x.route.backup /\ r.unpriced = {}
  BY <1>1 DEF RouteType
<1>3. gone = {c \in x.route.unpriced : <<x.route.active, c>> \notin x.caches}
  BY DEF F!Gone
<1>4. /\ y.route = r /\ y.sent = x.sent /\ y.caches = x.caches
      /\ y.book = [c \in Contracts |-> IF c \in gone THEN "cleared" ELSE x.book[c]]
  BY DEF F!Vouched, F!Ctx
<1> HIDE DEF y, gone, r
<1>5. Fine(y)
  BY <1>1, <1>2, <1>4 DEF Fine, Lines
<1>6. Sound(y, u)
  <2> SUFFICES ASSUME NEW c \in ContractsOf(u)
               PROVE  /\ y.book[c] \in Feeds => c \in x.sent /\ y.book[c] = x.route.active
                      /\ <<x.route.active, c>> \in x.caches => y.book[c] = x.route.active
    BY <1>2, <1>4 DEF Sound
  <2>1. /\ x.book[c] \in Feeds => c \in x.sent /\ (x.book[c] = x.route.active \/ c \in x.route.unpriced)
        /\ <<x.route.active, c>> \in x.caches => x.book[c] = x.route.active
    BY DEF Working, Sound
  <2>2. CASE c \in gone
    <3>1. y.book[c] = "cleared"
      BY <1>1, <1>4, <2>2
    <3> QED BY <1>3, <2>2, <3>1 DEF Feeds
  <2>3. CASE c \notin gone
    <3>1. y.book[c] = x.book[c]
      BY <1>1, <1>4, <2>3
    <3> QED BY <1>3, <2>1, <2>3, <3>1
  <2> QED BY <2>2, <2>3
<1>7. Apart(y, u)
  BY <1>1, <1>3, <1>4 DEF Apart, Working
<1>8. Backed(y.route)
  BY <1>2, <1>4 DEF Backed, Working
<1> QED BY <1>5, <1>6, <1>7, <1>8 DEF Working, y

(* A proof of health is only of the route's health. *)
LEMMA ProvedRoute ==
  ASSUME NEW r \in RouteType, clock \in Int
  PROVE  /\ F!Prove(r) \in RouteType /\ F!Prove(r).active = r.active /\ F!Prove(r).backup = r.backup
         /\ F!Prove(r).unpriced = r.unpriced
<1> DEFINE h == IF r.healthy = -1 \/ r.bad # -1 \/ clock - r.success > QuietFor THEN clock ELSE r.healthy
<1>1. h \in Int
  BY DEF RouteType
<1> DEFINE a == [r EXCEPT !.healthy = h]
           b == [a EXCEPT !.success = clock]
<1>2. F!Prove(r) = [b EXCEPT !.bad = -1]
  BY DEF F!Prove
<1> HIDE DEF h
<1>3. a \in RouteType /\ a.active = r.active /\ a.backup = r.backup /\ a.unpriced = r.unpriced
  BY <1>1 DEF RouteType
<1> HIDE DEF a
<1>4. b \in RouteType /\ b.active = r.active /\ b.backup = r.backup /\ b.unpriced = r.unpriced
  BY <1>3 DEF RouteType
<1> HIDE DEF b
<1>5. -1 \in Int
  OBVIOUS
<1> QED BY <1>2, <1>4, <1>5 DEF RouteType

(* A status line is only of the feed that said it. *)
LEMMA SaidRoute ==
  ASSUME NEW r \in RouteType, NEW feed \in Feeds, NEW state \in F!States, clock \in Int
  PROVE  /\ F!Said(r, feed, state) \in RouteType /\ F!Said(r, feed, state).active = r.active
         /\ F!Said(r, feed, state).unpriced = r.unpriced
         /\ feed = "primary" => F!Said(r, feed, state).backup = r.backup
<1>1. CASE feed = "backup"
  BY <1>1 DEF F!Said, F!States, RouteType
<1>2. CASE feed = "primary" /\ F!Healthy(state)
  BY <1>2, ProvedRoute DEF F!Said
<1>3. CASE feed = "primary" /\ ~F!Healthy(state) /\ F!Failing(state)
  <2> DEFINE b == IF r.bad = -1 THEN clock ELSE r.bad
  <2>1. b \in Int
    BY DEF RouteType
  <2> DEFINE a == [r EXCEPT !.bad = b]
  <2>2. F!Said(r, feed, state) = [a EXCEPT !.healthy = -1]
    BY <1>3 DEF F!Said
  <2> HIDE DEF b
  <2>3. a \in RouteType /\ a.active = r.active /\ a.backup = r.backup /\ a.unpriced = r.unpriced
    BY <2>1 DEF RouteType
  <2> HIDE DEF a
  <2>4. -1 \in Int
    OBVIOUS
  <2> QED BY <1>3, <2>2, <2>3, <2>4 DEF RouteType
<1>4. CASE feed = "primary" /\ ~F!Healthy(state) /\ ~F!Failing(state)
  BY <1>4 DEF F!Said
<1> QED BY <1>1, <1>2, <1>3, <1>4 DEF Feeds

(* A step that only changes what the route says of the feeds starts from sound ground. *)
LEMMA SteeredWorks ==
  ASSUME FailoverInv, NEW u \in Underlyings, NEW r \in RouteType,
         r.active = routes[u].active, r.unpriced = routes[u].unpriced, Backed(r)
  PROVE  Working(F!Steered(u, r), u)
<1> DEFINE y == F!Steered(u, r)
<1>1. y.route = r /\ y.book = quoted /\ y.sent = published /\ y.vouched = vouched[u] /\ y.caches = caches
  BY DEF F!Steered, F!Ctx
<1>2. Sound(y, u)
  <2>1. F!Now(u).route = routes[u] /\ F!Now(u).book = quoted /\ F!Now(u).sent = published /\ F!Now(u).vouched = vouched[u]
        /\ F!Now(u).caches = caches
    BY DEF F!Now, F!Steered, F!Ctx
  <2> HIDE DEF y
  <2> QED BY <1>1, <2>1 DEF Sound, FailoverInv
<1> HIDE DEF y
<1> QED BY <1>1, <1>2 DEF Working, Fine, Apart, FailoverInv, Typed, y

(* What a step commits keeps the invariant for every underlying. *)
LEMMA CommitKeeps ==
  ASSUME FailoverInv, NEW u \in Underlyings, NEW x, Working(x, u), NEW who,
         who \in {"monitor", "primary"} \/ F!Started, F!Commit(x, u, who),
         stopping = "no", UNCHANGED <<clock, backup, stopping>>
  PROVE  FailoverInv'
<1>1. /\ x.route \in RouteType /\ x.book \in [Contracts -> Lines] /\ x.sent \subseteq Contracts
      /\ x.caches \subseteq Feeds \X Contracts
  BY DEF Working, Fine
<1>2. /\ routes' = [routes EXCEPT ![u] = x.route] /\ quoted' = x.book /\ published' = x.sent
      /\ vouched' = [vouched EXCEPT ![u] = x.vouched] /\ caches' = x.caches
  BY DEF F!Commit
<1>3. Typed'
  <2>1. vouched' = [v \in Underlyings |-> vouched'[v]]
    BY <1>2 DEF FailoverInv, Typed
  <2> QED BY <1>1, <1>2, <2>1 DEF FailoverInv, Typed
<1>4. Stopping'
  BY DEF FailoverInv, Stopping, F!Commit
<1>5. ASSUME NEW v \in Underlyings PROVE Sound(F!Now(v), v)' /\ Backed(routes[v])'
  <2>1. /\ F!Now(v)'.route = routes'[v] /\ F!Now(v)'.book = x.book /\ F!Now(v)'.sent = x.sent
        /\ F!Now(v)'.vouched = vouched'[v] /\ F!Now(v)'.caches = x.caches
    BY <1>2 DEF F!Now, F!Steered, F!Ctx
  <2>2. CASE v = u
    <3>1. routes'[v] = x.route /\ vouched'[v] = x.vouched
      BY <1>2, <2>2 DEF FailoverInv, Typed
    <3> QED BY <2>1, <2>2, <3>1 DEF Working, Sound, Backed
  <2>3. CASE v # u
    <3>1. routes'[v] = routes[v] /\ vouched'[v] = vouched[v] /\ routes[v].active \in Feeds
      BY <1>2, <2>3 DEF FailoverInv, Typed, RouteType
    <3>2. F!Now(v).route = routes[v] /\ F!Now(v).book = quoted /\ F!Now(v).sent = published /\ F!Now(v).vouched = vouched[v]
          /\ F!Now(v).caches = caches
      BY DEF F!Now, F!Steered, F!Ctx
    <3>3. ContractsOf(v) \subseteq Contracts \ ContractsOf(u)
      BY <2>3, FailoverAssumption
    <3>4. published \subseteq x.sent /\ \A c \in ContractsOf(v) :
            x.book[c] = quoted[c] /\ \A feed \in Feeds : <<feed, c>> \in x.caches <=> <<feed, c>> \in caches
      BY <3>3 DEF Working, Apart
    <3>5. Sound(F!Now(v), v) /\ Backed(routes[v])
      BY DEF FailoverInv
    <3>6. Backed(routes[v])'
      BY <3>1, <3>5 DEF Backed
    <3>7. Sound(F!Now(v), v)'
      BY <2>1, <3>1, <3>2, <3>4, <3>5 DEF Sound
    <3> QED BY <3>6, <3>7
  <2> QED BY <2>2, <2>3
<1> QED BY <1>3, <1>4, <1>5 DEF FailoverInv

(* Nothing is published before the first quote. *)
LEMMA FailoverInitial == F!Init => FailoverInv
<1> SUFFICES ASSUME F!Init PROVE FailoverInv
  OBVIOUS
<1>1. F!NewRoute \in RouteType /\ F!NewRoute.unpriced = {} /\ F!NewRoute.active = "primary"
  <2>1. -1 \in Int /\ 0 \in Int
    OBVIOUS
  <2> QED BY <2>1 DEF F!NewRoute, RouteType, Feeds
<1>2. /\ clock = 0 /\ routes = [u \in Underlyings |-> F!NewRoute] /\ caches = {} /\ published = {}
      /\ quoted = [c \in Contracts |-> "none"] /\ starting = {} /\ backup = "idle" /\ stopping = "no"
      /\ vouched = [u \in Underlyings |-> FALSE]
  BY DEF F!Init
<1>3. Typed
  <2>1. vouched = [u \in Underlyings |-> vouched[u]]
    BY <1>2
  <2>2. routes \in [Underlyings -> RouteType]
    BY <1>1, <1>2
  <2> QED BY <1>2, <2>1, <2>2 DEF Typed, Lines
<1>4. Stopping
  BY <1>2 DEF Stopping
<1>5. ASSUME NEW u \in Underlyings PROVE Sound(F!Now(u), u) /\ Backed(routes[u])
  <2>1. /\ F!Now(u).route = F!NewRoute /\ F!Now(u).book = [c \in Contracts |-> "none"] /\ F!Now(u).caches = {}
    BY <1>2 DEF F!Now, F!Steered, F!Ctx
  <2>2. ContractsOf(u) \subseteq Contracts
    BY FailoverAssumption
  <2> QED BY <1>1, <1>2, <2>1, <2>2 DEF Sound, Backed, Feeds
<1> QED BY <1>3, <1>4, <1>5 DEF FailoverInv

(* A quote in the active feed's cache that the book does not have yet; publishing it makes the step sound. *)
Almost(x, u, c) ==
  /\ Fine(x) /\ Apart(x, u) /\ Backed(x.route)
  /\ x.route.unpriced \subseteq ContractsOf(u) /\ (x.vouched => x.route.unpriced = {})
  /\ \A d \in ContractsOf(u) :
       /\ x.book[d] \in Feeds => d \in x.sent /\ (x.book[d] = x.route.active \/ d \in x.route.unpriced)
       /\ <<x.route.active, d>> \in x.caches => x.book[d] = x.route.active \/ d = c
(* A quote of the active feed, taken into the book. *)
LEMMA QuotedWorks ==
  ASSUME NEW u \in Underlyings, NEW c \in ContractsOf(u), NEW x, Almost(x, u, c)
  PROVE  Working(F!Ctx(x.route, [x.book EXCEPT ![c] = x.route.active], x.sent \cup {c}, x.want, x.vouched, x.caches), u)
<1> DEFINE z == F!Ctx(x.route, [x.book EXCEPT ![c] = x.route.active], x.sent \cup {c}, x.want, x.vouched, x.caches)
<1>1. ContractsOf(u) \subseteq Contracts /\ x.book \in [Contracts -> Lines] /\ x.route.active \in Lines /\ x.sent \subseteq Contracts
  BY FailoverAssumption DEF Almost, Fine, RouteType, Lines
<1>2. /\ z.route = x.route /\ z.book = [x.book EXCEPT ![c] = x.route.active] /\ z.sent = x.sent \cup {c}
      /\ z.vouched = x.vouched /\ z.caches = x.caches
  BY DEF F!Ctx
<1> HIDE DEF z
<1>3. z.book \in [Contracts -> Lines] /\ z.book[c] = x.route.active /\ \A d \in Contracts : d # c => z.book[d] = x.book[d]
  BY <1>1, <1>2
<1>4. Fine(z)
  BY <1>1, <1>2, <1>3 DEF Almost, Fine
<1>5. Sound(z, u)
  BY <1>1, <1>2, <1>3 DEF Almost, Sound
<1>6. Apart(z, u)
  BY <1>2, <1>3 DEF Almost, Apart
<1> QED BY <1>2, <1>4, <1>5, <1>6 DEF Working, Almost, z

(* A quote, of the active feed or of the other. *)
LEMMA QuoteKeeps == FailoverInv /\ F!Quote => FailoverInv'
<1> SUFFICES ASSUME FailoverInv, F!Quote PROVE FailoverInv'
  OBVIOUS
<1>1. PICK feed \in Feeds, u \in Underlyings : \E c \in ContractsOf(u) :
        /\ F!Speaks(feed) /\ UNCHANGED <<clock, backup, stopping>>
        /\ F!Commit(F!Shown(F!Received(feed, u, c), feed, c), u, feed)
  BY DEF F!Quote, Feeds
<1>2. PICK c \in ContractsOf(u) :
        /\ F!Speaks(feed) /\ UNCHANGED <<clock, backup, stopping>>
        /\ F!Commit(F!Shown(F!Received(feed, u, c), feed, c), u, feed)
  BY <1>1
<1> DEFINE route == IF feed = "primary" THEN F!Prove(routes[u]) ELSE routes[u]
           x == F!Ctx(route, quoted, published, want, vouched[u], caches \cup {<<feed, c>>})
           y == F!Received(feed, u, c)
<1>10. y = IF feed = "primary" /\ route.active = "backup" THEN F!Evaluated(x, u) ELSE x
  BY DEF F!Received
<1> HIDE DEF y
<1>3. routes[u] \in RouteType /\ clock \in Int /\ ContractsOf(u) \subseteq Contracts /\ Backed(routes[u])
  BY FailoverAssumption DEF FailoverInv, Typed
<1>4. route \in RouteType /\ route.active = routes[u].active /\ route.unpriced = routes[u].unpriced /\ route.backup = routes[u].backup
  BY <1>3, ProvedRoute
<1>5. stopping = "no" /\ (feed = "backup" => backup = "running")
  BY <1>2 DEF F!Speaks, Feeds
<1> HIDE DEF route
<1>6. x.route = route /\ x.book = quoted /\ x.sent = published /\ x.vouched = vouched[u]
      /\ x.caches = caches \cup {<<feed, c>>}
  BY DEF F!Ctx
<1> HIDE DEF x
<1>7. Almost(x, u, c) /\ (x.route.active # feed => Sound(x, u))
  <2>1. Fine(x)
    BY <1>1, <1>3, <1>4, <1>6 DEF Fine, FailoverInv, Typed, Feeds
  <2>2. Apart(x, u)
    BY <1>3, <1>6 DEF Apart
  <2>3. Backed(x.route)
    BY <1>3, <1>4, <1>6 DEF Backed
  <2>4. F!Now(u).route = routes[u] /\ F!Now(u).book = quoted /\ F!Now(u).sent = published /\ F!Now(u).vouched = vouched[u]
        /\ F!Now(u).caches = caches
    BY DEF F!Now, F!Steered, F!Ctx
  <2>5. Sound(F!Now(u), u)
    BY DEF FailoverInv
  <2>6. \A d \in ContractsOf(u) :
           /\ quoted[d] \in Feeds => d \in published /\ (quoted[d] = routes[u].active \/ d \in routes[u].unpriced)
           /\ <<routes[u].active, d>> \in caches => quoted[d] = routes[u].active
    BY <2>4, <2>5 DEF Sound
  <2>7. routes[u].unpriced \subseteq ContractsOf(u) /\ (vouched[u] => routes[u].unpriced = {})
    BY <2>4, <2>5 DEF Sound
  <2> QED BY <1>4, <1>6, <2>1, <2>2, <2>3, <2>6, <2>7 DEF Sound, Almost
<1>8. Working(F!Shown(y, feed, c), u)
  <2>1. CASE x.route.active = feed
    <3>1. y = x
      BY <1>4, <1>6, <1>10, <2>1
    <3> QED BY <1>7, <2>1, <3>1, QuotedWorks DEF F!Shown
  <2>2. CASE x.route.active # feed
    <3>1. Working(x, u)
      BY <1>7, <2>2 DEF Working, Almost
    <3>2. Working(y, u)
      BY <1>3, <1>10, <3>1, EvaluatedWorks
    <3>3. CASE y.route.active = feed
      <4>1. Almost(y, u, c)
        BY <3>2 DEF Working, Almost, Sound
      <4> QED BY <3>3, <4>1, QuotedWorks DEF F!Shown
    <3> QED BY <3>2, <3>3 DEF F!Shown
  <2> QED BY <2>1, <2>2
<1>9. feed \in {"monitor", "primary"} \/ F!Started
  BY <1>5 DEF F!Started, Feeds
<1> QED BY <1>2, <1>5, <1>8, <1>9, CommitKeeps DEF y

(* A snapshot's end, which may prove the feed it came from. *)
LEMMA SnapshotKeeps == FailoverInv /\ F!Snapshot => FailoverInv'
<1> SUFFICES ASSUME FailoverInv, F!Snapshot PROVE FailoverInv'
  OBVIOUS
<1>1. PICK feed \in Feeds, u \in Underlyings, advanced \in BOOLEAN :
        /\ F!Speaks(feed) /\ UNCHANGED <<clock, backup, stopping>>
        /\ LET x == IF feed = "primary" /\ advanced THEN F!Evaluated(F!Steered(u, F!Prove(routes[u])), u) ELSE F!Now(u)
           IN F!Commit(IF x.route.active = feed THEN F!Vouched(x) ELSE x, u, feed)
  BY DEF F!Snapshot, Feeds
<1> DEFINE x == IF feed = "primary" /\ advanced THEN F!Evaluated(F!Steered(u, F!Prove(routes[u])), u) ELSE F!Now(u)
           w == IF x.route.active = feed THEN F!Vouched(x) ELSE x
<1>2. F!Commit(w, u, feed)
  BY <1>1
<1>3. routes[u] \in RouteType /\ clock \in Int /\ Backed(routes[u])
  BY DEF FailoverInv, Typed
<1>4. stopping = "no" /\ (feed = "backup" => backup = "running")
  BY <1>1 DEF F!Speaks, Feeds
<1>5. Working(F!Now(u), u)
  BY <1>3, SteeredWorks DEF F!Now
<1>6. Working(F!Steered(u, F!Prove(routes[u])), u)
  <2>1. Backed(F!Prove(routes[u]))
    BY <1>3, ProvedRoute DEF Backed
  <2> QED BY <1>3, <2>1, ProvedRoute, SteeredWorks
<1>7. Working(x, u)
  BY <1>3, <1>5, <1>6, EvaluatedWorks
<1> HIDE DEF x
<1>8. Working(w, u)
  BY <1>7, VouchedWorks
<1> HIDE DEF w
<1>9. feed \in {"monitor", "primary"} \/ F!Started
  BY <1>4 DEF F!Started, Feeds
<1> QED BY <1>1, <1>2, <1>4, <1>8, <1>9, CommitKeeps

(* A status line, which may switch. *)
LEMMA StatusKeeps == FailoverInv /\ F!Status => FailoverInv'
<1> SUFFICES ASSUME FailoverInv, F!Status PROVE FailoverInv'
  OBVIOUS
<1>1. PICK feed \in Feeds, u \in Underlyings, state \in F!States :
        /\ F!Speaks(feed) /\ UNCHANGED <<clock, backup, stopping>>
        /\ LET said == F!Steered(u, F!Said(routes[u], feed, state))
               x == IF F!Healthy(state) /\ said.route.active = feed THEN F!Vouched(said) ELSE said
           IN F!Commit(F!Evaluated(x, u), u, feed)
  BY DEF F!Status, Feeds
<1> DEFINE said == F!Steered(u, F!Said(routes[u], feed, state))
           x == IF F!Healthy(state) /\ said.route.active = feed THEN F!Vouched(said) ELSE said
<1>2. F!Commit(F!Evaluated(x, u), u, feed)
  BY <1>1
<1>3. routes[u] \in RouteType /\ clock \in Int /\ Backed(routes[u])
  BY DEF FailoverInv, Typed
<1>4. stopping = "no" /\ (feed = "backup" => backup = "running")
  BY <1>1 DEF F!Speaks, Feeds
<1>5. Working(said, u)
  <2>1. Backed(F!Said(routes[u], feed, state))
    BY <1>3, <1>4, SaidRoute DEF Backed, Feeds
  <2> QED BY <1>3, <2>1, SaidRoute, SteeredWorks
<1> HIDE DEF said
<1>6. Working(x, u)
  BY <1>5, VouchedWorks
<1> HIDE DEF x
<1>7. Working(F!Evaluated(x, u), u)
  BY <1>3, <1>6, EvaluatedWorks
<1>8. feed \in {"monitor", "primary"} \/ F!Started
  BY <1>4 DEF F!Started, Feeds
<1> QED BY <1>1, <1>2, <1>4, <1>7, <1>8, CommitKeeps

(* The clock's tick, which may find a feed quiet. *)
LEMMA TickKeeps == FailoverInv /\ F!Tick => FailoverInv'
<1> SUFFICES ASSUME FailoverInv, F!Tick PROVE FailoverInv'
  OBVIOUS
<1>1. PICK u \in Underlyings : /\ stopping = "no" /\ UNCHANGED <<clock, backup, stopping>>
                              /\ F!Commit(F!Evaluated(F!Now(u), u), u, "monitor")
  BY DEF F!Tick
<1>2. Working(F!Now(u), u)
  BY SteeredWorks DEF F!Now, FailoverInv, Typed
<1>3. Working(F!Evaluated(F!Now(u), u), u)
  BY <1>2, EvaluatedWorks DEF FailoverInv, Typed
<1> QED BY <1>1, <1>3, CommitKeeps

(* The route after a switch, and the caches it does not touch. *)
LEMMA SwitchedRoute ==
  ASSUME NEW u \in Underlyings, NEW x, NEW feed \in Feeds, Working(x, u), clock \in Int
  PROVE  /\ F!Switched(x, u, feed).route.active = feed /\ F!Switched(x, u, feed).route.backup = x.route.backup
         /\ F!Switched(x, u, feed).caches = x.caches
<1> DEFINE left == (ContractsOf(u) \cap x.sent) \ F!Priced(x, u, feed)
<1>1. left \subseteq Contracts /\ x.route \in RouteType
  BY FailoverAssumption DEF Working, Fine
<1>2. F!Switched(x, u, feed).route = [F!Moved(x.route, feed) EXCEPT !.unpriced = left] /\ F!Switched(x, u, feed).caches = x.caches
  BY DEF F!Switched, F!Ctx
<1> HIDE DEF left
<1> QED BY <1>1, <1>2, MovedRoute

(* A route handed back after the backup failed to start is on the primary. *)
LEMMA HandedBack ==
  ASSUME FailoverInv, NEW u \in Underlyings
  PROVE  /\ Working(F!HandBack(u), u) /\ F!HandBack(u).route.active = "primary"
         /\ F!HandBack(u).route.backup = "error" /\ F!HandBack(u).caches = caches
<1> DEFINE r == [routes[u] EXCEPT !.backup = "error"]
           x == F!Steered(u, r)
<1>1. routes[u] \in RouteType /\ clock \in Int /\ Backed(routes[u])
  BY DEF FailoverInv, Typed
<1>2. r \in RouteType /\ r.active = routes[u].active /\ r.unpriced = routes[u].unpriced /\ r.backup = "error"
  BY <1>1 DEF RouteType
<1>3. F!HandBack(u) = IF x.route.active = "backup" THEN F!Switched(x, u, "primary") ELSE x
  BY DEF F!HandBack
<1> HIDE DEF r
<1>4. x.route = r /\ x.caches = caches
  BY DEF F!Steered, F!Ctx
<1>5. Working(x, u)
  BY <1>1, <1>2, SteeredWorks DEF Backed
<1> HIDE DEF x
<1>6. CASE x.route.active = "backup"
  <2>1. Working(F!Switched(x, u, "primary"), u)
    BY <1>1, <1>5, <1>6, SwitchedWorks DEF Feeds
  <2>2. F!Switched(x, u, "primary").route.active = "primary" /\ F!Switched(x, u, "primary").route.backup = "error"
        /\ F!Switched(x, u, "primary").caches = caches
    BY <1>1, <1>2, <1>4, <1>5, SwitchedRoute DEF Feeds
  <2> QED BY <1>3, <1>6, <2>1, <2>2
<1>7. CASE x.route.active # "backup"
  <2>1. x.route.active \in Feeds
    BY <1>2, <1>4 DEF RouteType
  <2> QED BY <1>2, <1>3, <1>4, <1>5, <1>7, <2>1 DEF Feeds
<1> QED BY <1>6, <1>7

(* A backup that fails to start hands every route back in one step. *)
LEMMA StartFailsKeeps == FailoverInv /\ F!StartFails => FailoverInv'
<1> SUFFICES ASSUME FailoverInv, F!StartFails PROVE FailoverInv'
  OBVIOUS
<1> DEFINE home(c) == CHOOSE u \in Underlyings : c \in ContractsOf(u)
<1>1. /\ starting' = {} /\ backup' = "failed" /\ UNCHANGED <<clock, caches, stopping>>
      /\ routes' = [u \in Underlyings |-> F!HandBack(u).route]
      /\ quoted' = [c \in Contracts |-> IF \E u \in Underlyings : c \in ContractsOf(u)
                                        THEN F!HandBack(home(c)).book[c] ELSE quoted[c]]
      /\ published' = UNION {F!HandBack(u).sent : u \in Underlyings}
      /\ vouched' = [u \in Underlyings |-> F!HandBack(u).vouched]
  BY DEF F!StartFails
<1>2. \A u \in Underlyings :
        /\ Working(F!HandBack(u), u) /\ F!HandBack(u).route.active = "primary"
        /\ F!HandBack(u).route.backup = "error" /\ F!HandBack(u).caches = caches
  BY HandedBack
<1>3. \A u \in Underlyings : Fine(F!HandBack(u)) /\ Sound(F!HandBack(u), u)
  BY <1>2 DEF Working
<1>4. \A u \in Underlyings : \A c \in ContractsOf(u) : home(c) = u
  BY FailoverAssumption
<1> HIDE DEF home
<1>5. \A u \in Underlyings : \A c \in ContractsOf(u) : c \in Contracts /\ quoted'[c] = F!HandBack(u).book[c]
  BY <1>1, <1>4, FailoverAssumption
<1>6. Typed'
  <2>1. routes' \in [Underlyings -> RouteType]
    BY <1>1, <1>3 DEF Fine
  <2>2. published' \subseteq Contracts
    BY <1>1, <1>3 DEF Fine
  <2>3. vouched' = [v \in Underlyings |-> vouched'[v]]
    BY <1>1
  <2>4. quoted' \in [Contracts -> Lines]
    <3>1. \A c \in Contracts : quoted'[c] \in Lines
      <4> SUFFICES ASSUME NEW c \in Contracts PROVE quoted'[c] \in Lines
        OBVIOUS
      <4>1. CASE \E u \in Underlyings : c \in ContractsOf(u)
        BY <1>3, <1>5, <4>1 DEF Fine
      <4>2. CASE ~\E u \in Underlyings : c \in ContractsOf(u)
        BY <1>1, <4>2 DEF FailoverInv, Typed
      <4> QED BY <4>1, <4>2
    <3> QED BY <1>1, <3>1
  <2> QED BY <1>1, <2>1, <2>2, <2>3, <2>4 DEF FailoverInv, Typed
<1>7. Stopping'
  BY <1>1 DEF FailoverInv, Stopping
<1>8. ASSUME NEW u \in Underlyings PROVE Sound(F!Now(u), u)' /\ Backed(routes[u])'
  <2>1. /\ F!Now(u)'.route = F!HandBack(u).route /\ F!Now(u)'.book = quoted' /\ F!Now(u)'.sent = published'
        /\ F!Now(u)'.vouched = F!HandBack(u).vouched /\ F!Now(u)'.caches = caches
    BY <1>1 DEF F!Now, F!Steered, F!Ctx
  <2>2. F!HandBack(u).sent \subseteq published'
    BY <1>1
  <2>3. Sound(F!HandBack(u), u) /\ F!HandBack(u).caches = caches
    BY <1>2, <1>3
  <2>4. Sound(F!Now(u), u)'
    BY <1>5, <2>1, <2>2, <2>3 DEF Sound
  <2>5. Backed(routes[u])'
    BY <1>1, <1>2 DEF Backed
  <2> QED BY <2>4, <2>5
<1> QED BY <1>6, <1>7, <1>8 DEF FailoverInv

(* A step that touches no route. *)
LEMMA RoutesStill ==
  ASSUME FailoverInv, UNCHANGED <<routes, caches, published, quoted, vouched>>, clock' \in Int, Stopping',
         backup' = "failed" => backup = "failed"
  PROVE  FailoverInv'
<1>1. Typed'
  BY DEF FailoverInv, Typed
<1>2. ASSUME NEW u \in Underlyings PROVE Sound(F!Now(u), u)' /\ Backed(routes[u])'
  <2>1. /\ F!Now(u)'.route = routes[u] /\ F!Now(u)'.book = quoted /\ F!Now(u)'.sent = published
        /\ F!Now(u)'.vouched = vouched[u] /\ F!Now(u)'.caches = caches
    BY DEF F!Now, F!Steered, F!Ctx
  <2>2. F!Now(u).route = routes[u] /\ F!Now(u).book = quoted /\ F!Now(u).sent = published /\ F!Now(u).vouched = vouched[u]
        /\ F!Now(u).caches = caches
    BY DEF F!Now, F!Steered, F!Ctx
  <2>3. Sound(F!Now(u), u) /\ Backed(routes[u])
    BY DEF FailoverInv
  <2>4. Sound(F!Now(u), u)'
    BY <2>1, <2>2, <2>3 DEF Sound
  <2> QED BY <2>3, <2>4 DEF Backed
<1> QED BY <1>1, <1>2 DEF FailoverInv

(* Every step of the failover provider keeps the invariant. *)
LEMMA FailoverStep == FailoverInv /\ [F!Next]_failoverVars => FailoverInv'
<1> SUFFICES ASSUME FailoverInv, [F!Next]_failoverVars PROVE FailoverInv'
  OBVIOUS
<1>1. Stopping /\ clock \in Int
  BY DEF FailoverInv, Typed
<1>2. CASE F!StartBackup
  <2>1. Stopping'
    BY <1>1, <1>2 DEF Stopping, F!StartBackup
  <2> QED BY <1>1, <1>2, <2>1, RoutesStill DEF F!StartBackup
<1>3. CASE F!Stop
  <2>1. UNCHANGED <<clock, routes, caches, published, quoted, starting, vouched>>
    BY <1>3 DEF F!Stop
  <2>2. CASE stopping = "no" /\ stopping' = "monitor" /\ UNCHANGED backup
    BY <1>1, <2>1, <2>2, RoutesStill DEF Stopping
  <2>3. CASE stopping = "monitor" /\ "monitor" \notin starting /\ stopping' = "primary" /\ UNCHANGED backup
    BY <1>1, <2>1, <2>3, RoutesStill DEF Stopping
  <2>4. CASE stopping = "primary" /\ "primary" \notin starting /\ stopping' = "stopped"
             /\ backup' = IF backup = "running" THEN "stopped" ELSE backup
    <3>1. starting = {} /\ backup' # "running"
      BY <1>1, <2>4 DEF Stopping
    <3>2. backup' = "failed" => backup = "failed"
      BY <2>4
    <3>3. Stopping'
      BY <2>1, <2>4, <3>1 DEF Stopping
    <3> QED BY <1>1, <2>1, <3>2, <3>3, RoutesStill
  <2> QED BY <1>3, <2>2, <2>3, <2>4 DEF F!Stop
<1>4. CASE F!Clock
  BY <1>1, <1>4, RoutesStill DEF F!Clock, Stopping
<1>5. CASE UNCHANGED failoverVars
  BY <1>1, <1>5, RoutesStill DEF failoverVars, Stopping
<1> QED BY <1>2, <1>3, <1>4, <1>5, QuoteKeeps, SnapshotKeeps, StatusKeeps, TickKeeps, StartFailsKeeps DEF F!Next

(* The invariant is stronger than what the failover provider promises. *)
LEMMA FailoverSafe == FailoverInv => RoutesAccountedFor
<1> SUFFICES ASSUME FailoverInv PROVE RoutesAccountedFor
  OBVIOUS
<1>1. ASSUME NEW u \in Underlyings, vouched[u], NEW c \in ContractsOf(u)
      PROVE  quoted[c] \in {routes[u].active, "cleared", "none"}
  <2>1. F!Now(u).route = routes[u] /\ F!Now(u).book = quoted /\ F!Now(u).vouched = vouched[u]
    BY DEF F!Now, F!Steered, F!Ctx
  <2>2. routes[u].unpriced = {} /\ (quoted[c] \in Feeds => quoted[c] = routes[u].active \/ c \in routes[u].unpriced)
    BY <1>1, <2>1 DEF FailoverInv, Sound
  <2>3. quoted[c] \in Lines
    BY FailoverAssumption DEF FailoverInv, Typed
  <2> QED BY <2>2, <2>3 DEF Lines
<1>2. backup = "failed" => \A u \in Underlyings : routes[u].active = "primary"
  BY DEF FailoverInv, Backed
<1>3. stopping = "stopped" => backup # "running" /\ starting = {}
  BY DEF FailoverInv, Stopping
<1> QED BY <1>1, <1>2, <1>3 DEF RoutesAccountedFor, F!RoutesAccountedFor

(* In every behaviour of the failover provider, for any underlyings, contracts and quiet
   times: once the feed an underlying is routed to has vouched for its chain, every quote of
   its contracts in the book is that feed's, cleared, or not there at all; no underlying is
   routed to a backup that could not start; and once stop has returned the backup does not
   run and nobody is about to start it (src/src/providers/failover.cpp). *)
THEOREM RoutesAlwaysAccountedFor == FailoverSpec => []RoutesAccountedFor
<1>1. FailoverSpec => []FailoverInv
  BY FailoverInitial, FailoverStep, PTL DEF FailoverSpec
<1> QED BY <1>1, FailoverSafe, PTL

-------------------------------------------------------------------------------
(* Notifications *)

NoteType == [channel : Channels, kind : {"test", "fill", "floor"}, account : Traders \cup {""}, attempts : Nat]
EventType == [kind : {"fill", "floor"}, account : Traders, room : {"near", "away", "unknown"}]
NotesTyped ==
  /\ settings \in [Channels -> [enabled : BOOLEAN, events : SUBSET N!Kinds]]
  /\ notes \in Seq(NoteType) /\ telling \in Seq(EventType)
  /\ sending \in Seq(NoteType) /\ Len(sending) <= 1
  /\ ended \in {"no", "stopping", "yes"}
AllWanted == \A i \in 1..Len(notes) : N!Wants(notes[i].channel, notes[i].kind)
NotesInv == NotesTyped /\ Len(notes) + Len(sending) <= NoteCapacity /\ AllWanted
            /\ (ended = "yes" => notes = <<>> /\ sending = <<>>)

(* Nothing is queued at the start. *)
LEMMA NotesInitial == N!Init => NotesInv
<1> SUFFICES ASSUME N!Init PROVE NotesInv
  OBVIOUS
<1>1. settings \in [Channels -> [enabled : BOOLEAN, events : SUBSET N!Kinds]]
  BY DEF N!Init
<1>2. notes = <<>> /\ sending = <<>> /\ telling = <<>> /\ ended = "no"
  BY DEF N!Init
<1> QED BY <1>1, <1>2, NotificationsAssumption DEF NotesInv, NotesTyped, AllWanted

(* What is queued fits and is wanted. *)
LEMMA EnqueueKept ==
  ASSUME NotesInv, NEW ms \in Seq(NoteType), N!Enqueue(ms), ended = "no",
         \A i \in 1..Len(ms) : N!Wants(ms[i].channel, ms[i].kind), UNCHANGED <<settings, sending, ended>>,
         telling' \in Seq(EventType)
  PROVE  NotesInv'
<1> DEFINE fit == N!Fitting(ms)
<1>1. N!Room \in Nat /\ N!Room = NoteCapacity - Len(notes) - Len(sending) /\ Len(notes) \in Nat /\ Len(sending) \in Nat
  BY NotificationsAssumption DEF N!Room, NotesInv, NotesTyped
<1>2. fit \in Seq(NoteType) /\ Len(fit) <= N!Room /\ Len(fit) <= Len(ms) /\ \A i \in 1..Len(fit) : fit[i] = ms[i]
  <2>1. CASE Len(ms) <= N!Room
    BY <1>1, <2>1 DEF N!Fitting
  <2>2. CASE Len(ms) > N!Room
    <3>1. fit = SubSeq(ms, 1, N!Room) /\ N!Room \in 0..Len(ms)
      BY <1>1, <2>2 DEF N!Fitting
    <3> QED BY <3>1, <1>1
  <2> QED BY <1>1, <2>1, <2>2
<1>3. notes' = notes \o fit /\ notes \in Seq(NoteType)
  BY DEF N!Enqueue, NotesInv, NotesTyped
<1> HIDE DEF fit
<1>4. /\ notes' \in Seq(NoteType) /\ Len(notes') = Len(notes) + Len(fit) /\ Len(fit) \in Nat
      /\ \A i \in 1..Len(notes') : (i \in 1..Len(notes) /\ notes'[i] = notes[i])
                                   \/ (i - Len(notes) \in 1..Len(fit) /\ notes'[i] = fit[i - Len(notes)])
  BY <1>1, <1>2, <1>3
<1>5. AllWanted'
  <2> SUFFICES ASSUME NEW i \in 1..Len(notes') PROVE N!Wants(notes'[i].channel, notes'[i].kind)
    BY DEF AllWanted, N!Wants
  <2>1. CASE i \in 1..Len(notes) /\ notes'[i] = notes[i]
    BY <2>1 DEF NotesInv, AllWanted
  <2>2. CASE i - Len(notes) \in 1..Len(fit) /\ notes'[i] = fit[i - Len(notes)]
    <3>1. i - Len(notes) \in 1..Len(ms) /\ notes'[i] = ms[i - Len(notes)]
      BY <2>2, <1>2, <1>4
    <3> QED BY <3>1
  <2> QED BY <2>1, <2>2, <1>4
<1>6. Len(notes') + Len(sending') <= NoteCapacity
  BY <1>1, <1>2, <1>4, NotificationsAssumption
<1> QED BY <1>4, <1>5, <1>6 DEF NotesInv, NotesTyped

(* What a filter leaves are messages that were there and pass it. *)
LEMMA KeepIsPart ==
  ASSUME NEW kept, kept \subseteq 1..Len(notes), NotesInv, N!KeepOnly(kept)
  PROVE  /\ notes' \in Seq(NoteType) /\ Len(notes') <= Len(notes)
         /\ \A i \in 1..Len(notes') : \E j \in kept : notes'[i] = notes[j]
<1> DEFINE n == Cardinality(kept)
<1>1. notes \in Seq(NoteType) /\ Len(notes) \in Nat
  BY DEF NotesInv, NotesTyped
<1>2. IsFiniteSet(1..Len(notes)) /\ Cardinality(1..Len(notes)) = Len(notes)
  <2>1. 1 \in Int /\ Len(notes) \in Int
    BY <1>1
  <2>2. IsFiniteSet(1..Len(notes)) /\ Cardinality(1..Len(notes)) = IF 1 > Len(notes) THEN 0 ELSE Len(notes) - 1 + 1
    BY <2>1, FS_Interval
  <2> QED BY <1>1, <2>2
<1>3. n \in Nat /\ n <= Len(notes)
  BY <1>2, FS_Subset, FS_CardinalityType
<1>4. N!Cardinality(kept) = n
  BY DEF N!Cardinality, Cardinality, N!IsFiniteSet, IsFiniteSet
<1> HIDE DEF n
<1>5. PICK f \in [1..n -> kept] : notes' = [k \in 1..n |-> notes[f[k]]]
  BY <1>4 DEF N!KeepOnly, N!Picks
<1>6. \A k \in 1..n : f[k] \in kept /\ notes'[k] = notes[f[k]] /\ notes[f[k]] \in NoteType
  <2>1. \A j \in kept : notes[j] \in NoteType
    BY <1>1
  <2> QED BY <1>5, <2>1
<1>7. notes' \in Seq(NoteType) /\ Len(notes') = n
  BY <1>3, <1>5, <1>6
<1> QED BY <1>3, <1>6, <1>7

(* A message sent again is the same message, one attempt older. *)
LEMMA NoteAgain ==
  ASSUME NEW m \in NoteType
  PROVE  LET again == N!Note(m.channel, m.kind, m.account, m.attempts + 1)
         IN again \in NoteType /\ again.channel = m.channel /\ again.kind = m.kind
<1>1. m.channel \in Channels /\ m.kind \in {"test", "fill", "floor"} /\ m.account \in Traders \cup {""}
  BY DEF NoteType
<1>2. m.attempts \in Nat
  BY DEF NoteType
<1>3. m.attempts + 1 \in Nat
  BY <1>2
<1> QED BY <1>1, <1>3 DEF NoteType, N!Note

(* The sender holds one message at most. *)
LEMMA OneTaken == ASSUME NEW s \in Seq(NoteType), Len(s) <= 1, s # <<>> PROVE Len(s) = 1
<1>1. Len(s) \in Nat /\ Len(s) # 0
  OBVIOUS
<1>2. \A n \in Nat : n <= 1 /\ n # 0 => n = 1
  OBVIOUS
<1> QED BY <1>1, <1>2

(* Every step of the notifications keeps the invariant. *)
LEMMA NotesStep == ASSUME NotesInv, [N!Next]_noteVars PROVE NotesInv'
<1> USE DEF NotesInv
<1>1. CASE N!Observe
  <2>1. PICK a \in Traders, fill, history \in BOOLEAN, room \in {"near", "away", "unknown"} :
          telling' = IF history \/ a \notin seen THEN <<>>
                     ELSE (IF fill THEN <<[kind |-> "fill", account |-> a, room |-> room]>> ELSE <<>>)
                          \o <<[kind |-> "floor", account |-> a, room |-> room]>>
    BY <1>1 DEF N!Observe
  <2>2. [kind |-> "fill", account |-> a, room |-> room] \in EventType /\ [kind |-> "floor", account |-> a, room |-> room] \in EventType
    BY DEF EventType
  <2>3. telling' \in Seq(EventType)
    <3>1. (IF fill THEN <<[kind |-> "fill", account |-> a, room |-> room]>> ELSE <<>>) \in Seq(EventType)
      BY <2>2
    <3> QED BY <2>1, <2>2, <3>1
  <2> QED BY <1>1, <2>3 DEF N!Observe, NotesTyped, AllWanted, N!Wants
<1>2. CASE N!Publish
  <2>1. telling # <<>> /\ telling' = Tail(telling) /\ UNCHANGED <<settings, sending, seen, ended>> /\ telling' \in Seq(EventType)
        /\ Head(telling) \in EventType
    BY <1>2 DEF N!Publish, NotesTyped
  <2>2. CASE ended # "no" /\ UNCHANGED notes
    BY <2>1, <2>2 DEF NotesTyped, AllWanted, N!Wants
  <2>3. CASE ended = "no"
    <3> DEFINE e == Head(telling)
    <3>1. PICK order \in N!SetToSeqs(N!Informed(e)) :
            N!Enqueue([i \in DOMAIN order |-> N!Note(order[i], e.kind, e.account, 0)])
      BY <1>2, <2>3 DEF N!Publish
    <3> DEFINE ms == [i \in DOMAIN order |-> N!Note(order[i], e.kind, e.account, 0)]
    <3>2. PICK n \in Nat : order \in [1..n -> N!Informed(e)]
      <4>1. N!Informed(e) \subseteq Channels
        BY DEF N!Informed, N!Wanting
      <4>2. Cardinality(N!Informed(e)) \in Nat
        BY <4>1, NotificationsAssumption, FS_Subset, FS_CardinalityType
      <4>3. N!Cardinality(N!Informed(e)) = Cardinality(N!Informed(e))
        BY DEF N!Cardinality, Cardinality, N!IsFiniteSet, IsFiniteSet
      <4> QED BY <3>1, <4>2, <4>3 DEF N!SetToSeqs
    <3>3. \A i \in 1..n : order[i] \in Channels /\ N!Wants(order[i], e.kind)
      BY <3>2 DEF N!Informed, N!Wanting
    <3>4. e.kind \in {"fill", "floor"} /\ e.account \in Traders
      BY <2>1 DEF EventType
    <3> HIDE DEF e
    <3>5. \A i \in 1..n : ms[i] \in NoteType /\ N!Wants(ms[i].channel, ms[i].kind)
      BY <3>2, <3>3, <3>4 DEF N!Note, NoteType
    <3>6. ms \in Seq(NoteType) /\ Len(ms) = n
      BY <3>2, <3>5
    <3> HIDE DEF ms
    <3>7. N!Enqueue(ms)
      BY <3>1 DEF ms
    <3> QED BY <2>1, <2>3, <3>5, <3>6, <3>7, EnqueueKept
  <2> QED BY <1>2, <2>2, <2>3 DEF N!Publish
<1>3. CASE N!Test
  <2>1. PICK c \in Channels : /\ ended = "no" /\ settings[c].enabled /\ N!Enqueue(<<N!Note(c, "test", "", 0)>>)
                              /\ UNCHANGED <<settings, near, sending, telling, seen, ended>>
    BY <1>3 DEF N!Test
  <2> DEFINE m == N!Note(c, "test", "", 0)
  <2>2. m \in NoteType /\ N!Wants(m.channel, m.kind)
    BY <2>1 DEF N!Note, NoteType, N!Wants
  <2>3. <<m>> \in Seq(NoteType) /\ Len(<<m>>) = 1 /\ <<m>>[1] = m
    <3> HIDE DEF m
    <3> QED BY <2>2
  <2>4. telling' \in Seq(EventType)
    BY <2>1 DEF NotesTyped
  <2>5. \A i \in 1..Len(<<m>>) : N!Wants(<<m>>[i].channel, <<m>>[i].kind)
    <3> HIDE DEF m
    <3> QED BY <2>2, <2>3
  <2> QED BY <2>1, <2>3, <2>4, <2>5, EnqueueKept
<1>4. CASE N!Configure
  <2>1. PICK c \in Channels, enabled \in BOOLEAN, events \in SUBSET N!Kinds :
          /\ settings' = [settings EXCEPT ![c] = [enabled |-> enabled, events |-> events]]
          /\ N!KeepOnly({i \in DOMAIN notes : notes[i].channel = c => enabled /\ notes[i].kind \in events \cup {"test"}})
          /\ UNCHANGED <<sending, telling, ended>>
    BY <1>4 DEF N!Configure
  <2> DEFINE kept == {i \in DOMAIN notes : notes[i].channel = c => enabled /\ notes[i].kind \in events \cup {"test"}}
  <2>2. DOMAIN notes = 1..Len(notes) /\ Len(notes) \in Nat
    BY DEF NotesTyped
  <2>3. /\ notes' \in Seq(NoteType) /\ Len(notes') <= Len(notes)
        /\ \A i \in 1..Len(notes') : \E j \in kept : notes'[i] = notes[j]
    <3>1. kept \subseteq 1..Len(notes) /\ N!KeepOnly(kept)
      BY <2>1, <2>2
    <3> HIDE DEF kept
    <3> QED BY <3>1, KeepIsPart
  <2>4. settings' \in [Channels -> [enabled : BOOLEAN, events : SUBSET N!Kinds]]
    BY <2>1 DEF NotesTyped
  <2>5. \A j \in kept : (N!Wants(notes[j].channel, notes[j].kind) /\ notes[j] \in NoteType)
    BY <2>2 DEF NotesTyped, AllWanted
  <2>6. \A j \in kept : settings'[notes[j].channel].enabled
                         /\ (notes[j].kind = "test" \/ notes[j].kind \in settings'[notes[j].channel].events)
    <3> SUFFICES ASSUME NEW j \in kept
                 PROVE  settings'[notes[j].channel].enabled
                        /\ (notes[j].kind = "test" \/ notes[j].kind \in settings'[notes[j].channel].events)
      OBVIOUS
    <3>1. notes[j].channel \in Channels
      BY <2>5 DEF NoteType
    <3>2. CASE notes[j].channel = c
      <4>1. enabled /\ notes[j].kind \in events \cup {"test"}
        BY <3>2
      <4>2. settings'[c] = [enabled |-> enabled, events |-> events]
        BY <2>1 DEF NotesTyped
      <4> HIDE DEF kept
      <4> QED BY <3>2, <4>1, <4>2
    <3>3. CASE notes[j].channel # c
      <4>1. settings'[notes[j].channel] = settings[notes[j].channel]
        BY <2>1, <3>1, <3>3 DEF NotesTyped
      <4> HIDE DEF kept
      <4> QED BY <2>5, <4>1 DEF N!Wants
    <3> QED BY <3>2, <3>3
  <2>7. AllWanted'
    <3> HIDE DEF kept
    <3> QED BY <2>3, <2>6 DEF AllWanted, N!Wants
  <2>8. Len(notes') + Len(sending') <= NoteCapacity
    <3>1. Len(notes') \in Nat /\ Len(notes) \in Nat /\ Len(sending) \in Nat
      BY <2>3 DEF NotesTyped
    <3> QED BY <2>1, <2>3, <3>1, NotificationsAssumption
  <2>9. ended' = "yes" => notes' = <<>> /\ sending' = <<>>
    <3> HIDE DEF kept
    <3> QED BY <2>1, <2>3
  <2> QED
    <3> HIDE DEF kept
    <3> QED BY <2>1, <2>3, <2>4, <2>7, <2>8, <2>9 DEF NotesTyped
<1>5. CASE N!Forget
  <2>1. PICK a \in Traders, discard \in BOOLEAN :
          /\ N!KeepOnly({i \in DOMAIN notes : discard => notes[i].account # a})
          /\ UNCHANGED <<settings, sending, telling, ended>>
    BY <1>5 DEF N!Forget
  <2> DEFINE kept == {i \in DOMAIN notes : discard => notes[i].account # a}
  <2>2. DOMAIN notes = 1..Len(notes) /\ Len(notes) \in Nat
    BY DEF NotesTyped
  <2>3. kept \subseteq 1..Len(notes) /\ N!KeepOnly(kept)
    BY <2>1, <2>2
  <2> HIDE DEF kept
  <2>4. /\ notes' \in Seq(NoteType) /\ Len(notes') <= Len(notes)
        /\ \A i \in 1..Len(notes') : \E j \in kept : notes'[i] = notes[j]
    BY <2>3, KeepIsPart
  <2>5. AllWanted'
    BY <2>1, <2>3, <2>4 DEF AllWanted, N!Wants
  <2>6. Len(notes') + Len(sending') <= NoteCapacity
    <3>1. Len(notes') \in Nat /\ Len(notes) \in Nat /\ Len(sending) \in Nat
      BY <2>4 DEF NotesTyped
    <3> QED BY <2>1, <2>4, <3>1, NotificationsAssumption
  <2>7. ended' = "yes" => notes' = <<>> /\ sending' = <<>>
    BY <2>1, <2>4
  <2> QED BY <2>1, <2>4, <2>5, <2>6, <2>7 DEF NotesTyped
<1>6. CASE N!Take
  <2>1. PICK i \in 1..Len(notes) :
          /\ ended = "no" /\ sending = <<>> /\ sending' = <<notes[i]>> /\ notes' = N!RemoveAt(notes, i)
          /\ UNCHANGED <<settings, telling, ended>>
    BY <1>6 DEF N!Take
  <2>2. notes \in Seq(NoteType) /\ Len(notes) \in Nat /\ notes[i] \in NoteType
    BY DEF NotesTyped
  <2> DEFINE left == SubSeq(notes, 1, i - 1)
             right == SubSeq(notes, i + 1, Len(notes))
  <2>3. left \in Seq(NoteType) /\ Len(left) = i - 1 /\ \A j \in 1..(i - 1) : left[j] = notes[j]
    BY <2>2
  <2>4. right \in Seq(NoteType) /\ Len(right) = Len(notes) - i /\ \A j \in 1..(Len(notes) - i) : right[j] = notes[i + j]
    BY <2>2
  <2>5. notes' = left \o right
    BY <2>1 DEF N!RemoveAt
  <2> HIDE DEF left, right
  <2>6. notes' \in Seq(NoteType) /\ Len(notes') = Len(notes) - 1
    <3>1. left \o right \in Seq(NoteType) /\ Len(left \o right) = Len(left) + Len(right)
      BY <2>3, <2>4, ConcatProperties
    <3>2. (i - 1) + (Len(notes) - i) = Len(notes) - 1
      BY <2>2
    <3> QED BY <2>3, <2>4, <2>5, <3>1, <3>2
  <2>7. \A k \in 1..Len(notes') : \E j \in 1..Len(notes) : notes'[k] = notes[j]
    <3> SUFFICES ASSUME NEW k \in 1..Len(notes') PROVE \E j \in 1..Len(notes) : notes'[k] = notes[j]
      OBVIOUS
    <3>1. CASE k <= i - 1
      <4>1. notes'[k] = left[k] /\ k \in 1..(i - 1)
        BY <2>2, <2>3, <2>4, <2>5, <2>6, <3>1
      <4> QED BY <2>2, <2>3, <4>1
    <3>2. CASE k > i - 1
      <4>1. notes'[k] = right[k - (i - 1)] /\ k - (i - 1) \in 1..(Len(notes) - i)
        BY <2>2, <2>3, <2>4, <2>5, <2>6, <3>2
      <4>2. i + (k - (i - 1)) = k + 1 /\ k + 1 \in 1..Len(notes)
        BY <2>2, <2>6, <4>1
      <4>3. notes'[k] = notes[k + 1]
        BY <2>4, <4>1, <4>2
      <4> QED BY <4>2, <4>3
    <3> QED BY <2>2, <2>6, <3>1, <3>2
  <2>8. AllWanted'
    BY <2>1, <2>7 DEF AllWanted, N!Wants
  <2>9. sending' \in Seq(NoteType) /\ Len(sending') = 1 /\ Len(sending) = 0
    BY <2>1, <2>2
  <2> QED BY <2>1, <2>2, <2>6, <2>8, <2>9, NotificationsAssumption DEF NotesTyped
<1>7. CASE N!Settle
  <2>1. PICK outcome \in {"delivered", "refused", "later"} :
          /\ sending # <<>> /\ sending' = <<>>
          /\ notes' = IF outcome = "later" /\ N!Again(Head(sending))
                      THEN Append(notes, N!Note(Head(sending).channel, Head(sending).kind, Head(sending).account, Head(sending).attempts + 1)) ELSE notes
          /\ UNCHANGED <<settings, telling, ended>>
    BY <1>7 DEF N!Settle
  <2>2. sending \in Seq(NoteType) /\ notes \in Seq(NoteType) /\ Len(sending) = 1 /\ Len(notes) \in Nat
    <3>1. sending \in Seq(NoteType) /\ notes \in Seq(NoteType) /\ Len(sending) <= 1
      BY DEF NotesTyped
    <3>2. Len(notes) \in Nat
      BY <3>1
    <3> QED BY <2>1, <3>1, <3>2, OneTaken
  <2>3. PICK m \in NoteType : m = Head(sending)
    BY <2>1, <2>2
  <2>4. CASE outcome = "later" /\ N!Again(m)
    <3> DEFINE again == N!Note(m.channel, m.kind, m.account, m.attempts + 1)
    <3>1. again \in NoteType /\ again.channel = m.channel /\ again.kind = m.kind
      BY <2>3, NoteAgain
    <3> HIDE DEF again
    <3>2. notes' = Append(notes, again)
      BY <2>1, <2>3, <2>4 DEF again
    <3>3. /\ notes' \in Seq(NoteType) /\ Len(notes') = Len(notes) + 1 /\ notes'[Len(notes) + 1] = again
          /\ \A k \in 1..Len(notes) : notes'[k] = notes[k]
      BY <2>2, <3>1, <3>2
    <3>4. ended = "no" /\ N!Wants(m.channel, m.kind)
      BY <2>4 DEF N!Again
    <3>5. AllWanted'
      <4> SUFFICES ASSUME NEW k \in 1..Len(notes') PROVE N!Wants(notes'[k].channel, notes'[k].kind)
        BY <2>1 DEF AllWanted, N!Wants
      <4>1. CASE k \in 1..Len(notes)
        BY <3>3, <4>1 DEF AllWanted
      <4>2. CASE k = Len(notes) + 1
        BY <3>1, <3>3, <3>4, <4>2
      <4> QED BY <2>2, <3>3, <4>1, <4>2
    <3> QED BY <2>1, <2>2, <3>3, <3>4, <3>5, NotificationsAssumption DEF NotesTyped
  <2>5. CASE ~(outcome = "later" /\ N!Again(m))
    <3>1. notes' = notes
      BY <2>1, <2>3, <2>5
    <3> QED BY <2>1, <2>2, <3>1, NotificationsAssumption DEF NotesTyped, AllWanted, N!Wants
  <2> QED BY <2>4, <2>5
<1>8. CASE N!StopNotes
  BY <1>8 DEF N!StopNotes, NotesTyped, AllWanted, N!Wants
<1>9. CASE N!Stopped
  <2>1. notes' = <<>> /\ sending' = <<>> /\ ended' = "yes" /\ UNCHANGED <<settings, telling>>
    BY <1>9 DEF N!Stopped
  <2> QED BY <2>1, NotificationsAssumption DEF NotesTyped, AllWanted
<1>10. CASE UNCHANGED noteVars
  BY <1>10 DEF noteVars, NotesTyped, AllWanted, N!Wants
<1> QED BY <1>1, <1>2, <1>3, <1>4, <1>5, <1>6, <1>7, <1>8, <1>9, <1>10 DEF N!Next

(* The invariant is stronger than what the notifications promise. *)
LEMMA NotesSafe == NotesInv => QueueKept
BY DEF NotesInv, AllWanted, QueueKept, N!QueueKept

(* In every behaviour of the notifications, for any channels and capacity: the queue with
   the message in flight is within its capacity, whatever is queued is wanted by its channel
   as it is now set, and nothing is left once stop has returned
   (src/src/server/notifications.cpp). *)
THEOREM QueueAlwaysKept == NotificationsSpec => []QueueKept
<1>1. NotificationsSpec => []NotesInv
  BY NotesInitial, NotesStep, PTL DEF NotificationsSpec
<1> QED BY <1>1, NotesSafe, PTL

-------------------------------------------------------------------------------
(* The host of replay runs *)

HostInv ==
  /\ journals \in [Runs -> Nat \cup {H!Absent}] /\ metadata = [r \in Runs |-> metadata[r]]
  /\ session \in Runs \cup {H!None} /\ subject \in Runs \cup {H!None}
  /\ InterruptedCanResume
  /\ session # H!None => session \in created /\ journals[session] # H!Absent /\ (playback = "ended" => session \in over)
  /\ stage \in {"starting", "resuming", "removing"} => subject # H!None /\ subject # session
  /\ stage = "starting" => subject \in created /\ metadata[subject] = H!Playing
  /\ stage = "resuming" => journals[subject] # H!Absent
  /\ \A r \in Runs : journals[r] # H!Absent => r \in created

(* No run is there at first. *)
LEMMA HostInitial == H!Init => HostInv
BY DEF H!Init, HostInv, InterruptedCanResume, H!InterruptedCanResume, H!Absent, H!None, H!NoMeta

(* Every step of the host keeps the invariant. *)
LEMMA HostStep == HostInv /\ [H!Next]_hostVars => HostInv'
<1> SUFFICES ASSUME HostInv, [H!Next]_hostVars PROVE HostInv'
  OBVIOUS
<1> USE HostAssumption DEF H!files, H!player, H!thread, H!history, InterruptedCanResume, H!InterruptedCanResume, H!Absent, H!None
<1>1. CASE H!Batch
  BY <1>1 DEF HostInv, H!Batch, H!Grow
<1>2. CASE H!Gate
  BY <1>2 DEF HostInv, H!Gate
<1>3. CASE H!Post
  BY <1>3 DEF HostInv, H!Post
<1>4. CASE H!Execute
  BY <1>4 DEF HostInv, H!Execute, H!Grow
<1>5. CASE H!Publish
  BY <1>5 DEF HostInv, H!Publish
<1>6. CASE H!Ends
  BY <1>6 DEF HostInv, H!Ends
<1>7. CASE H!Finish
  BY <1>7 DEF HostInv, H!Finish, H!Finished
<1>8. ASSUME NEW r \in Runs, H!Start(r) PROVE HostInv'
  BY <1>8 DEF HostInv, H!Start, H!Fresh, H!Playing
<1>9. ASSUME NEW r \in Runs, H!Restart(r) PROVE HostInv'
  BY <1>9 DEF HostInv, H!Restart, H!Fresh, H!Playing
<1>10. ASSUME NEW r \in Runs, H!Resume(r) PROVE HostInv'
  BY <1>10 DEF HostInv, H!Resume
<1>11. ASSUME NEW r \in Runs, H!Delete(r) PROVE HostInv'
  BY <1>11 DEF HostInv, H!Delete, H!NoPlayer, H!Replaced, H!Finished
<1>12. ASSUME NEW r \in Runs, H!Verify(r) PROVE HostInv'
  BY <1>12 DEF HostInv, H!Verify, H!Finished
<1>13. CASE H!StartFails
  BY <1>13 DEF HostInv, H!StartFails
<1>14. CASE H!Started
  <2>1. /\ stage = "starting" /\ subject \in Runs /\ subject # session /\ metadata[subject] = H!Playing /\ subject \in created
    BY <1>14 DEF HostInv, H!Started
  <2>2. /\ journals' = [journals EXCEPT ![subject] = IF @ = H!Absent THEN 1 ELSE @]
        /\ session' = subject /\ playback' = "playing" /\ stage' = "idle" /\ subject' = H!None /\ created' = created
        /\ over' = IF session = H!None THEN over ELSE over \cup {session}
        /\ metadata' = H!Replaced(metadata, session)
    BY <1>14 DEF H!Started, H!EngineReady
  <2>3. /\ metadata' = [r \in Runs |-> metadata'[r]]
        /\ \A r \in Runs : r # session => metadata'[r] = metadata[r]
    BY <2>2 DEF HostInv, H!Replaced
  <2>4. journals' \in [Runs -> Nat \cup {H!Absent}] /\ journals'[subject] # H!Absent
        /\ \A r \in Runs : r # subject => journals'[r] = journals[r]
    BY <2>1, <2>2 DEF HostInv
  <2>5. \A r \in Runs \ over' : journals'[r] # H!Absent => metadata'[r].there /\ ~metadata'[r].finished
    <3> SUFFICES ASSUME NEW r \in Runs \ over', journals'[r] # H!Absent PROVE metadata'[r].there /\ ~metadata'[r].finished
      OBVIOUS
    <3>1. r # session /\ r \notin over
      BY <2>2 DEF HostInv
    <3>2. CASE r = subject
      BY <2>1, <2>3, <3>1, <3>2 DEF H!Playing
    <3>3. CASE r # subject
      BY <2>3, <2>4, <3>1, <3>3 DEF HostInv
    <3> QED BY <3>2, <3>3
  <2>6. \A r \in Runs : journals'[r] # H!Absent => r \in created'
    BY <2>1, <2>2, <2>4 DEF HostInv
  <2> QED BY <2>1, <2>2, <2>3, <2>4, <2>5, <2>6 DEF HostInv
<1>15. CASE H!Rebuild
  BY <1>15 DEF HostInv, H!Rebuild
<1>16. CASE H!Mismatch
  BY <1>16 DEF HostInv, H!Mismatch
<1>17. CASE H!Resumed
  BY <1>17 DEF HostInv, H!Resumed, H!Replaced, H!Finished, H!Playing
<1>18. CASE H!StopSession
  BY <1>18 DEF HostInv, H!StopSession, H!Replaced, H!Finished, H!NoPlayer
<1>19. CASE H!RemoveJournal
  BY <1>19 DEF HostInv, H!RemoveJournal
<1>20. CASE H!RemoveRest
  BY <1>20 DEF HostInv, H!RemoveRest
<1>21. CASE H!VerifyEnds
  BY <1>21 DEF HostInv, H!VerifyEnds
<1>22. CASE H!Shutdown
  BY <1>22 DEF HostInv, H!Shutdown, H!Reset, H!Replaced, H!Finished, H!NoPlayer, H!EndedBefore
<1>23. CASE H!Crash
  BY <1>23 DEF HostInv, H!Crash, H!Reset, H!NoPlayer
<1>24. CASE UNCHANGED hostVars
  BY <1>24 DEF HostInv, hostVars
<1> QED BY <1>1, <1>2, <1>3, <1>4, <1>5, <1>6, <1>7, <1>8, <1>9, <1>10, <1>11, <1>12, <1>13, <1>14, <1>15,
   <1>16,
           <1>17, <1>18, <1>19, <1>20, <1>21, <1>22, <1>23, <1>24 DEF H!Next

(* In every behaviour of the replay host, for any runs, lengths and crashes: a run that
   neither played to its end nor was stopped, replaced or deleted, and has its journal, has
   metadata beside it that does not read as finished, so a restart lists it to be resumed
   (src/src/server/replay_host.cpp). *)
THEOREM InterruptedAlwaysResume == HostSpec => []InterruptedCanResume
<1>1. HostSpec => []HostInv
  BY HostInitial, HostStep, PTL DEF HostSpec
<1>2. HostInv => InterruptedCanResume
  BY DEF HostInv
<1> QED BY <1>1, <1>2, PTL

-------------------------------------------------------------------------------
(* The playback of a recording *)

(* The places of run_deterministic, and those it keeps to while a pause lasts. *)
Loop == {"top", "prepared", "barrier", "pace", "settling", "resting", "waiting", "chosen", "consuming", "ending", "done"}
Still == {"pace", "settling", "resting", "done"}
Controls == [paused : BOOLEAN, settled : BOOLEAN, pauseAt : Nat, seeking : BOOLEAN, preparing : BOOLEAN,
             stepping : BOOLEAN, pending : BOOLEAN, stepTarget : Nat, abort : BOOLEAN, aborted : BOOLEAN]
PlayTyped ==
  /\ thread \in Loop /\ next \in Nat /\ inFlight \in Nat /\ playedTo \in Nat /\ paced \in Nat
  /\ flags \in Controls /\ prepare \in Nat
  /\ interrupted \in BOOLEAN /\ leaving \in BOOLEAN /\ finished \in BOOLEAN
  /\ host \in {"free", "pausing", "paused", "claimed", "stepping", "aborted", "settled"}
  /\ target \in Nat /\ limit \in Nat
(* Where the thread is, by what it has in hand. *)
Threaded ==
  /\ thread # "consuming" => inFlight = P!None
  /\ finished <=> thread = "done"
  /\ thread = "ending" => next = P!None
  /\ thread = "prepared" => flags.preparing
  /\ thread = "barrier" /\ flags.pending => flags.abort \/ next > flags.stepTarget
(* The flags that exclude each other. *)
Flagged ==
  /\ leaving => host = "free"
  /\ flags.preparing => /\ host = "free" /\ ~flags.settled /\ limit = P!None /\ ~flags.pending /\ flags.pauseAt = P!None
                        /\ thread \notin {"barrier", "settling", "resting", "done"}
  /\ flags.seeking => flags.preparing \/ flags.pending
  /\ flags.pending => /\ host = "stepping" /\ thread # "done" /\ flags.pauseAt = P!None
                      /\ flags.stepTarget = target /\ limit = target
(* A step that is over stays where it ended until its answer is given. *)
SteppedTo ==
  /\ host = "stepping" => playedTo <= target /\ inFlight <= target
  /\ host \in {"stepping", "settled", "aborted"} /\ ~flags.pending =>
       flags.paused /\ flags.pauseAt = P!None /\ thread \in Still
  /\ host = "stepping" /\ ~flags.pending /\ ~flags.aborted => next = P!None \/ next > target
  /\ host = "settled" => (next = P!None \/ next > target) /\ playedTo = target
(* What keeps the next batch from passing the limit. *)
Limited ==
  limit # P!None =>
    /\ inFlight <= limit
    /\ \/ flags.pauseAt = limit
       \/ flags.pending
       \/ flags.paused /\ flags.pauseAt = P!None
(* A settled pause. *)
Resting ==
  /\ flags.settled /\ flags.paused /\ ~flags.pending => thread \in Still
  /\ host \in {"pausing", "paused"} => flags.paused
  /\ host = "paused" => flags.settled \/ finished
PlayInv == PlayTyped /\ Threaded /\ Flagged /\ SteppedTo /\ Limited /\ Resting

(* A set of numbers has a least. *)
LEMMA Least == ASSUME NEW T, T \subseteq Nat, T # {} PROVE \E u \in T : \A v \in T : u <= v
<1> DEFINE R == OpToRel(<,Nat)
<1>1. IsWellFoundedOn(R, Nat)
  BY NatLessThanWellFounded
<1>2. R = {ss \in Nat \X Nat : ss[1] < ss[2]}
  BY DEF OpToRel
<1> HIDE DEF R
<1>3. PICK u \in T : \A y \in T : ~ (<<y, u>> \in R)
  BY <1>1, WFMin
<1>4. ASSUME NEW v \in T PROVE u <= v
  <2>1. <<v, u>> \in Nat \X Nat
    OBVIOUS
  <2>2. ~ (<<v, u>>[1] < <<v, u>>[2])
    BY <1>2, <1>3, <2>1, Zenon
  <2>3. ~ (v < u) /\ v \in Nat /\ u \in Nat
    BY <2>2
  <2> QED BY <2>3
<1> QED BY <1>4

(* The batch after a time is one of the recording's, or none. *)
LEMMA AfterTyped == \A t : P!After(t) \in Nat
<1> SUFFICES ASSUME NEW t PROVE P!After(t) \in Nat
  OBVIOUS
<1>1. CASE P!Later(t) = {}
  BY <1>1 DEF P!After, P!None
<1>2. CASE P!Later(t) # {}
  <2>1. P!Later(t) \subseteq Nat
    BY PlaybackAssumption DEF P!Later
  <2>2. \E u \in P!Later(t) : \A v \in P!Later(t) : u <= v
    BY <1>2, <2>1, Least
  <2> QED BY <1>2, <2>1, <2>2 DEF P!After
<1> QED BY <1>1, <1>2

(* Playback starts with nothing in flight and nothing asked for. *)
LEMMA PlayInitial == P!Init => PlayInv
<1> SUFFICES ASSUME P!Init PROVE PlayInv
  OBVIOUS
<1>1. \E paused \in BOOLEAN : flags = P!Flags(paused, prepare # P!None)
  BY DEF P!Init
<1>2. /\ flags \in Controls /\ flags.settled = FALSE /\ flags.pauseAt = 0 /\ flags.pending = FALSE
      /\ flags.seeking = flags.preparing
  BY <1>1 DEF P!Flags, Controls, P!None
<1>3. PlayTyped
  BY <1>2, AfterTyped, PlaybackAssumption DEF P!Init, PlayTyped, Loop, P!None
<1>4. Threaded /\ Flagged /\ SteppedTo /\ Limited /\ Resting
  BY <1>2 DEF P!Init, Threaded, Flagged, SteppedTo, Limited, Resting, P!None
<1> QED BY <1>3, <1>4 DEF PlayInv

(* The flags after each change of them, field by field. *)
LEMMA Opened ==
  ASSUME NEW f \in Controls, NEW g, g = [f EXCEPT !.seeking = FALSE, !.preparing = FALSE]
  PROVE  /\ g \in Controls /\ g.seeking = FALSE /\ g.preparing = FALSE
         /\ g.paused = f.paused /\ g.settled = f.settled /\ g.pauseAt = f.pauseAt /\ g.pending = f.pending
         /\ g.stepTarget = f.stepTarget /\ g.abort = f.abort /\ g.aborted = f.aborted
BY DEF Controls

(* A stop at a barrier. *)
LEMMA Halted ==
  ASSUME NEW f \in Controls, NEW g,
         g = [f EXCEPT !.aborted = f.abort, !.paused = TRUE, !.settled = TRUE,
                       !.pauseAt = P!None, !.seeking = FALSE, !.pending = FALSE]
  PROVE  /\ g \in Controls /\ g.aborted = f.abort /\ g.paused = TRUE /\ g.settled = TRUE /\ g.pauseAt = P!None
         /\ g.seeking = FALSE /\ g.pending = FALSE
         /\ g.preparing = f.preparing /\ g.stepTarget = f.stepTarget /\ g.abort = f.abort
BY DEF Controls, P!None

(* The end of the recording. *)
LEMMA Ended ==
  ASSUME NEW f \in Controls, NEW g,
         g = [f EXCEPT !.paused = @ \/ f.pending \/ f.pauseAt # P!None,
                 !.aborted = IF f.pending THEN f.abort ELSE @, !.pending = FALSE, !.pauseAt = P!None,
                 !.settled = TRUE, !.seeking = FALSE, !.preparing = FALSE]
  PROVE  /\ g \in Controls /\ (g.paused <=> f.paused \/ f.pending \/ f.pauseAt # P!None)
         /\ g.aborted = (IF f.pending THEN f.abort ELSE f.aborted) /\ g.pending = FALSE /\ g.pauseAt = P!None
         /\ g.settled = TRUE /\ g.seeking = FALSE /\ g.preparing = FALSE
         /\ g.stepTarget = f.stepTarget /\ g.abort = f.abort
BY DEF Controls, P!None

(* A pause or an abort. *)
LEMMA PausedNow ==
  ASSUME NEW f \in Controls, NEW g,
         g = [f EXCEPT !.settled = @ /\ f.paused, !.paused = TRUE, !.pauseAt = P!None, !.abort = @ \/ f.stepping]
  PROVE  /\ g \in Controls /\ (g.settled <=> f.settled /\ f.paused) /\ g.paused = TRUE /\ g.pauseAt = P!None
         /\ (g.abort <=> f.abort \/ f.stepping)
         /\ g.seeking = f.seeking /\ g.preparing = f.preparing /\ g.pending = f.pending
         /\ g.stepTarget = f.stepTarget /\ g.aborted = f.aborted
BY DEF Controls, P!None

(* Playing on, to a time or without one. *)
LEMMA Resumes ==
  ASSUME NEW f \in Controls, NEW g, NEW t \in Nat,
         g = [f EXCEPT !.pauseAt = t, !.paused = FALSE, !.settled = FALSE]
  PROVE  /\ g \in Controls /\ g.pauseAt = t /\ g.paused = FALSE /\ g.settled = FALSE
         /\ g.seeking = f.seeking /\ g.preparing = f.preparing /\ g.pending = f.pending
         /\ g.stepTarget = f.stepTarget /\ g.aborted = f.aborted /\ g.abort = f.abort
BY DEF Controls

(* A play-to lifted. *)
LEMMA Unlimited ==
  ASSUME NEW f \in Controls, NEW g, g = [f EXCEPT !.pauseAt = P!None]
  PROVE  /\ g \in Controls /\ g.pauseAt = P!None /\ g.paused = f.paused /\ g.settled = f.settled
         /\ g.seeking = f.seeking /\ g.preparing = f.preparing /\ g.pending = f.pending
         /\ g.stepTarget = f.stepTarget /\ g.aborted = f.aborted /\ g.abort = f.abort
BY DEF Controls, P!None

(* A step claimed. *)
LEMMA Claimed ==
  ASSUME NEW f \in Controls, NEW g, g = [f EXCEPT !.stepping = TRUE, !.abort = FALSE, !.aborted = FALSE]
  PROVE  /\ g \in Controls /\ g.pauseAt = f.pauseAt /\ g.paused = f.paused /\ g.settled = f.settled
         /\ g.seeking = f.seeking /\ g.preparing = f.preparing /\ g.pending = f.pending
         /\ g.stepTarget = f.stepTarget /\ g.aborted = FALSE /\ g.abort = FALSE
BY DEF Controls

(* A step's target set. *)
LEMMA Steps ==
  ASSUME NEW f \in Controls, NEW g, NEW t \in Nat,
         g = [f EXCEPT !.pauseAt = P!None, !.settled = FALSE, !.stepTarget = t, !.pending = TRUE, !.seeking = TRUE]
  PROVE  /\ g \in Controls /\ g.pauseAt = P!None /\ g.settled = FALSE /\ g.stepTarget = t
         /\ g.pending = TRUE /\ g.seeking = TRUE
         /\ g.paused = f.paused /\ g.preparing = f.preparing /\ g.aborted = f.aborted /\ g.abort = f.abort
BY DEF Controls, P!None

(* A step given up. *)
LEMMA Served ==
  ASSUME NEW f \in Controls, NEW g, g = [f EXCEPT !.stepping = FALSE]
  PROVE  /\ g \in Controls /\ g.pauseAt = f.pauseAt /\ g.paused = f.paused /\ g.settled = f.settled
         /\ g.seeking = f.seeking /\ g.preparing = f.preparing /\ g.pending = f.pending
         /\ g.stepTarget = f.stepTarget /\ g.aborted = f.aborted /\ g.abort = f.abort
BY DEF Controls

(* A pause settled. *)
LEMMA Settles ==
  ASSUME NEW f \in Controls, NEW g, g = [f EXCEPT !.settled = TRUE]
  PROVE  /\ g \in Controls /\ g.pauseAt = f.pauseAt /\ g.paused = f.paused /\ g.settled = TRUE
         /\ g.seeking = f.seeking /\ g.preparing = f.preparing /\ g.pending = f.pending
         /\ g.stepTarget = f.stepTarget /\ g.aborted = f.aborted /\ g.abort = f.abort
BY DEF Controls

(* Every step of the playback keeps the invariant, when no step's target is set while the
   barrier of a play-to runs. *)
LEMMA PlayStep == ASSUME ~Overtakes, PlayInv, [P!Next]_playbackVars PROVE PlayInv'
<1> USE DEF P!Idle, P!Goes, P!loop, P!caller, P!Elsewhere, P!Wakes, P!Request, P!None, Loop, Still
<1>0. /\ flags \in Controls /\ flags.pauseAt \in Nat /\ flags.stepTarget \in Nat
      /\ PlayTyped /\ Threaded /\ Flagged /\ SteppedTo /\ Limited /\ Resting
      /\ flags.paused \in BOOLEAN /\ flags.settled \in BOOLEAN /\ flags.seeking \in BOOLEAN
      /\ flags.preparing \in BOOLEAN /\ flags.pending \in BOOLEAN /\ flags.stepping \in BOOLEAN
      /\ flags.abort \in BOOLEAN /\ flags.aborted \in BOOLEAN
  BY DEF PlayInv, PlayTyped, Controls
<1>1. CASE P!Top
  <2>2. PlayTyped'
    BY <1>0, <1>1 DEF P!Top, P!PrepareDue, P!StepDue, P!PlayToDue, PlayTyped
  <2>3. Threaded'
    BY <1>0, <1>1 DEF P!Top, P!PrepareDue, P!StepDue, P!PlayToDue, PlayTyped, Threaded, Flagged, SteppedTo,
       Limited, Resting
  <2>4. Flagged'
    BY <1>0, <1>1 DEF P!Top, P!PrepareDue, P!StepDue, P!PlayToDue, PlayTyped, Threaded, Flagged, SteppedTo,
       Limited, Resting
  <2>5. SteppedTo'
    BY <1>0, <1>1 DEF P!Top, P!PrepareDue, P!StepDue, P!PlayToDue, PlayTyped, Threaded, Flagged, SteppedTo,
       Limited, Resting
  <2>6. Limited'
    BY <1>0, <1>1 DEF P!Top, P!PrepareDue, P!StepDue, P!PlayToDue, PlayTyped, Threaded, Flagged, SteppedTo,
       Limited, Resting
  <2>7. Resting'
    BY <1>0, <1>1 DEF P!Top, P!PrepareDue, P!StepDue, P!PlayToDue, PlayTyped, Threaded, Flagged, SteppedTo,
       Limited, Resting
  <2> QED BY <2>2, <2>3, <2>4, <2>5, <2>6, <2>7 DEF PlayInv
<1>2. CASE P!Prepared
  <2>1. /\ flags' \in Controls /\ flags'.seeking = FALSE /\ flags'.preparing = FALSE
        /\ flags'.paused = flags.paused /\ flags'.settled = flags.settled /\ flags'.pauseAt = flags.pauseAt /\ flags'.pending = flags.pending
        /\ flags'.stepTarget = flags.stepTarget /\ flags'.abort = flags.abort /\ flags'.aborted = flags.aborted
    BY <1>0, <1>2, Opened DEF P!Prepared
  <2>2. PlayTyped'
    BY PlaybackAssumption, <1>0, <1>2, <2>1 DEF P!Prepared, PlayTyped
  <2>3. Threaded'
    BY <1>0, <1>2, <2>1 DEF P!Prepared, PlayTyped, Threaded, Flagged, SteppedTo, Limited, Resting
  <2>4. Flagged'
    BY <1>0, <1>2, <2>1 DEF P!Prepared, PlayTyped, Threaded, Flagged, SteppedTo, Limited, Resting
  <2>5. SteppedTo'
    BY <1>0, <1>2, <2>1 DEF P!Prepared, PlayTyped, Threaded, Flagged, SteppedTo, Limited, Resting
  <2>6. Limited'
    BY <1>0, <1>2, <2>1 DEF P!Prepared, PlayTyped, Threaded, Flagged, SteppedTo, Limited, Resting
  <2>7. Resting'
    BY <1>0, <1>2, <2>1 DEF P!Prepared, PlayTyped, Threaded, Flagged, SteppedTo, Limited, Resting
  <2> QED BY <2>2, <2>3, <2>4, <2>5, <2>6, <2>7 DEF PlayInv
<1>3. CASE P!Stopped
  <2>1. flags' = flags \/
           ( /\ flags' \in Controls /\ flags'.aborted = flags.abort /\ flags'.paused = TRUE /\ flags'.settled = TRUE /\ flags'.pauseAt = P!None
               /\ flags'.seeking = FALSE /\ flags'.pending = FALSE
               /\ flags'.preparing = flags.preparing /\ flags'.stepTarget = flags.stepTarget /\ flags'.abort = flags.abort )
    BY <1>0, <1>3, Halted DEF P!Stopped, P!Superseded, P!Claims
  <2>2. PlayTyped'
    BY <1>0, <1>3, <2>1 DEF P!Stopped, P!Superseded, P!Claims, PlayTyped
  <2>3. Threaded'
    BY <1>0, <1>3, <2>1 DEF P!Stopped, P!Superseded, P!Claims, PlayTyped, Threaded, Flagged, SteppedTo,
       Limited, Resting
  <2>4. Flagged'
    BY <1>0, <1>3, <2>1 DEF P!Stopped, P!Superseded, P!Claims, PlayTyped, Threaded, Flagged, SteppedTo,
       Limited, Resting
  <2>5. SteppedTo'
    BY <1>0, <1>3, <2>1 DEF P!Stopped, P!Superseded, P!Claims, PlayTyped, Threaded, Flagged, SteppedTo,
       Limited, Resting
  <2>6. Limited'
    BY <1>0, <1>3, <2>1 DEF P!Stopped, P!Superseded, P!Claims, PlayTyped, Threaded, Flagged, SteppedTo,
       Limited, Resting
  <2>7. Resting'
    BY <1>0, <1>3, <2>1 DEF P!Stopped, P!Superseded, P!Claims, PlayTyped, Threaded, Flagged, SteppedTo,
       Limited, Resting
  <2> QED BY <2>2, <2>3, <2>4, <2>5, <2>6, <2>7 DEF PlayInv
<1>4. CASE P!Pace
  <2>2. PlayTyped'
    BY <1>0, <1>4 DEF P!Pace, PlayTyped
  <2>3. Threaded'
    BY <1>0, <1>4 DEF P!Pace, PlayTyped, Threaded, Flagged, SteppedTo, Limited, Resting
  <2>4. Flagged'
    BY <1>0, <1>4 DEF P!Pace, PlayTyped, Threaded, Flagged, SteppedTo, Limited, Resting
  <2>5. SteppedTo'
    <3>1. /\ flags' = flags /\ host' = host /\ playedTo' = playedTo /\ inFlight' = inFlight /\ target' = target
          /\ next' = next
      BY <1>4 DEF P!Pace
    <3>2. ASSUME host # "free", ~flags.pending, flags.paused PROVE thread' = "settling"
      BY <1>0, <1>4, <3>2 DEF P!Pace, Flagged
    <3> QED BY <1>0, <3>1, <3>2 DEF SteppedTo
  <2>6. Limited'
    BY <1>0, <1>4 DEF P!Pace, PlayTyped, Threaded, Flagged, SteppedTo, Limited, Resting
  <2>7. Resting'
    BY <1>0, <1>4 DEF P!Pace, PlayTyped, Threaded, Flagged, SteppedTo, Limited, Resting
  <2> QED BY <2>2, <2>3, <2>4, <2>5, <2>6, <2>7 DEF PlayInv
<1>5. CASE P!Settled
  <2>1. /\ flags' \in Controls /\ flags'.pauseAt = flags.pauseAt /\ flags'.paused = flags.paused /\ flags'.settled = TRUE
        /\ flags'.seeking = flags.seeking /\ flags'.preparing = flags.preparing /\ flags'.pending = flags.pending
        /\ flags'.stepTarget = flags.stepTarget /\ flags'.aborted = flags.aborted /\ flags'.abort = flags.abort
    BY <1>0, <1>5, Settles DEF P!Settled
  <2>2. PlayTyped'
    BY <1>0, <1>5, <2>1 DEF P!Settled, PlayTyped
  <2>3. Threaded'
    BY <1>0, <1>5, <2>1 DEF P!Settled, PlayTyped, Threaded, Flagged, SteppedTo, Limited, Resting
  <2>4. Flagged'
    BY <1>0, <1>5, <2>1 DEF P!Settled, PlayTyped, Threaded, Flagged, SteppedTo, Limited, Resting
  <2>5. SteppedTo'
    BY <1>0, <1>5, <2>1 DEF P!Settled, PlayTyped, Threaded, Flagged, SteppedTo, Limited, Resting
  <2>6. Limited'
    BY <1>0, <1>5, <2>1 DEF P!Settled, PlayTyped, Threaded, Flagged, SteppedTo, Limited, Resting
  <2>7. Resting'
    BY <1>0, <1>5, <2>1 DEF P!Settled, PlayTyped, Threaded, Flagged, SteppedTo, Limited, Resting
  <2> QED BY <2>2, <2>3, <2>4, <2>5, <2>6, <2>7 DEF PlayInv
<1>6. CASE P!Rested
  <2>2. PlayTyped'
    BY <1>0, <1>6 DEF P!Rested, PlayTyped
  <2>3. Threaded'
    BY <1>0, <1>6 DEF P!Rested, PlayTyped, Threaded, Flagged, SteppedTo, Limited, Resting
  <2>4. Flagged'
    BY <1>0, <1>6 DEF P!Rested, PlayTyped, Threaded, Flagged, SteppedTo, Limited, Resting
  <2>5. SteppedTo'
    BY <1>0, <1>6 DEF P!Rested, PlayTyped, Threaded, Flagged, SteppedTo, Limited, Resting
  <2>6. Limited'
    BY <1>0, <1>6 DEF P!Rested, PlayTyped, Threaded, Flagged, SteppedTo, Limited, Resting
  <2>7. Resting'
    BY <1>0, <1>6 DEF P!Rested, PlayTyped, Threaded, Flagged, SteppedTo, Limited, Resting
  <2> QED BY <2>2, <2>3, <2>4, <2>5, <2>6, <2>7 DEF PlayInv
<1>7. CASE P!Waited
  <2>2. PlayTyped'
    BY <1>0, <1>7 DEF P!Waited, PlayTyped
  <2>3. Threaded'
    BY <1>0, <1>7 DEF P!Waited, PlayTyped, Threaded, Flagged, SteppedTo, Limited, Resting
  <2>4. Flagged'
    BY <1>0, <1>7 DEF P!Waited, PlayTyped, Threaded, Flagged, SteppedTo, Limited, Resting
  <2>5. SteppedTo'
    BY <1>0, <1>7 DEF P!Waited, PlayTyped, Threaded, Flagged, SteppedTo, Limited, Resting
  <2>6. Limited'
    BY <1>0, <1>7 DEF P!Waited, PlayTyped, Threaded, Flagged, SteppedTo, Limited, Resting
  <2>7. Resting'
    BY <1>0, <1>7 DEF P!Waited, PlayTyped, Threaded, Flagged, SteppedTo, Limited, Resting
  <2> QED BY <2>2, <2>3, <2>4, <2>5, <2>6, <2>7 DEF PlayInv
<1>8. CASE P!Consume
  <2>2. PlayTyped'
    BY <1>0, <1>8 DEF P!Consume, P!Held, P!StepDue, P!PlayToDue, PlayTyped
  <2>3. Threaded'
    BY <1>0, <1>8 DEF P!Consume, P!Held, P!StepDue, P!PlayToDue, PlayTyped, Threaded, Flagged, SteppedTo,
       Limited, Resting
  <2>4. Flagged'
    BY <1>0, <1>8 DEF P!Consume, P!Held, P!StepDue, P!PlayToDue, PlayTyped, Threaded, Flagged, SteppedTo,
       Limited, Resting
  <2>5. SteppedTo'
    BY <1>0, <1>8 DEF P!Consume, P!Held, P!StepDue, P!PlayToDue, PlayTyped, Threaded, Flagged, SteppedTo,
       Limited, Resting
  <2>6. Limited'
    BY <1>0, <1>8 DEF P!Consume, P!Held, P!StepDue, P!PlayToDue, PlayTyped, Threaded, Flagged, SteppedTo,
       Limited, Resting
  <2>7. Resting'
    BY <1>0, <1>8 DEF P!Consume, P!Held, P!StepDue, P!PlayToDue, PlayTyped, Threaded, Flagged, SteppedTo,
       Limited, Resting
  <2> QED BY <2>2, <2>3, <2>4, <2>5, <2>6, <2>7 DEF PlayInv
<1>9. CASE P!Consumed
  <2>1. flags' = flags \/
           ( /\ flags' \in Controls /\ flags'.seeking = FALSE /\ flags'.preparing = FALSE
               /\ flags'.paused = flags.paused /\ flags'.settled = flags.settled /\ flags'.pauseAt = flags.pauseAt /\ flags'.pending = flags.pending
               /\ flags'.stepTarget = flags.stepTarget /\ flags'.abort = flags.abort /\ flags'.aborted = flags.aborted )
    BY <1>0, <1>9, Opened DEF P!Consumed
  <2>2. PlayTyped'
    BY AfterTyped, <1>0, <1>9, <2>1 DEF P!Consumed, PlayTyped
  <2>3. Threaded'
    BY <1>0, <1>9, <2>1 DEF P!Consumed, PlayTyped, Threaded, Flagged, SteppedTo, Limited, Resting
  <2>4. Flagged'
    BY <1>0, <1>9, <2>1 DEF P!Consumed, PlayTyped, Threaded, Flagged, SteppedTo, Limited, Resting
  <2>5. SteppedTo'
    BY <1>0, <1>9, <2>1 DEF P!Consumed, PlayTyped, Threaded, Flagged, SteppedTo, Limited, Resting
  <2>6. Limited'
    BY <1>0, <1>9, <2>1 DEF P!Consumed, PlayTyped, Threaded, Flagged, SteppedTo, Limited, Resting
  <2>7. Resting'
    BY <1>0, <1>9, <2>1 DEF P!Consumed, PlayTyped, Threaded, Flagged, SteppedTo, Limited, Resting
  <2> QED BY <2>2, <2>3, <2>4, <2>5, <2>6, <2>7 DEF PlayInv
<1>10. CASE P!Finish
  <2>1. /\ flags' \in Controls /\ (flags'.paused <=> flags.paused \/ flags.pending \/ flags.pauseAt # P!None)
        /\ flags'.aborted = (IF flags.pending THEN flags.abort ELSE flags.aborted) /\ flags'.pending = FALSE /\ flags'.pauseAt = P!None
        /\ flags'.settled = TRUE /\ flags'.seeking = FALSE /\ flags'.preparing = FALSE
        /\ flags'.stepTarget = flags.stepTarget /\ flags'.abort = flags.abort
    BY <1>0, <1>10, Ended DEF P!Finish
  <2>2. PlayTyped'
    BY <1>0, <1>10, <2>1 DEF P!Finish, PlayTyped
  <2>3. Threaded'
    BY <1>0, <1>10, <2>1 DEF P!Finish, PlayTyped, Threaded, Flagged, SteppedTo, Limited, Resting
  <2>4. Flagged'
    BY <1>0, <1>10, <2>1 DEF P!Finish, PlayTyped, Threaded, Flagged, SteppedTo, Limited, Resting
  <2>5. SteppedTo'
    BY <1>0, <1>10, <2>1 DEF P!Finish, PlayTyped, Threaded, Flagged, SteppedTo, Limited, Resting
  <2>6. Limited'
    BY <1>0, <1>10, <2>1 DEF P!Finish, PlayTyped, Threaded, Flagged, SteppedTo, Limited, Resting
  <2>7. Resting'
    BY <1>0, <1>10, <2>1 DEF P!Finish, PlayTyped, Threaded, Flagged, SteppedTo, Limited, Resting
  <2> QED BY <2>2, <2>3, <2>4, <2>5, <2>6, <2>7 DEF PlayInv
<1>11. CASE P!Wake
  <2>2. PlayTyped'
    BY <1>0, <1>11 DEF P!Wake, PlayTyped
  <2>3. Threaded'
    BY <1>0, <1>11 DEF P!Wake, PlayTyped, Threaded, Flagged, SteppedTo, Limited, Resting
  <2>4. Flagged'
    BY <1>0, <1>11 DEF P!Wake, PlayTyped, Threaded, Flagged, SteppedTo, Limited, Resting
  <2>5. SteppedTo'
    BY <1>0, <1>11 DEF P!Wake, PlayTyped, Threaded, Flagged, SteppedTo, Limited, Resting
  <2>6. Limited'
    BY <1>0, <1>11 DEF P!Wake, PlayTyped, Threaded, Flagged, SteppedTo, Limited, Resting
  <2>7. Resting'
    BY <1>0, <1>11 DEF P!Wake, PlayTyped, Threaded, Flagged, SteppedTo, Limited, Resting
  <2> QED BY <2>2, <2>3, <2>4, <2>5, <2>6, <2>7 DEF PlayInv
<1>12. CASE P!Pause
  <2>1. /\ flags' \in Controls /\ (flags'.settled <=> flags.settled /\ flags.paused) /\ flags'.paused = TRUE /\ flags'.pauseAt = P!None
        /\ (flags'.abort <=> flags.abort \/ flags.stepping)
        /\ flags'.seeking = flags.seeking /\ flags'.preparing = flags.preparing /\ flags'.pending = flags.pending
        /\ flags'.stepTarget = flags.stepTarget /\ flags'.aborted = flags.aborted
    BY <1>0, <1>12 DEF P!Pause, P!Free, P!Paused, Controls
  <2>2. PlayTyped'
    BY <1>0, <1>12, <2>1 DEF P!Pause, P!Free, P!Paused, PlayTyped
  <2>3. Threaded'
    BY <1>0, <1>12, <2>1 DEF P!Pause, P!Free, P!Paused, PlayTyped, Threaded, Flagged, SteppedTo, Limited,
       Resting
  <2>4. Flagged'
    BY <1>0, <1>12, <2>1 DEF P!Pause, P!Free, P!Paused, PlayTyped, Threaded, Flagged, SteppedTo, Limited,
       Resting
  <2>5. SteppedTo'
    BY <1>0, <1>12, <2>1 DEF P!Pause, P!Free, P!Paused, PlayTyped, Threaded, Flagged, SteppedTo, Limited,
       Resting
  <2>6. Limited'
    BY <1>0, <1>12, <2>1 DEF P!Pause, P!Free, P!Paused, PlayTyped, Threaded, Flagged, SteppedTo, Limited,
       Resting
  <2>7. Resting'
    BY <1>0, <1>12, <2>1 DEF P!Pause, P!Free, P!Paused, PlayTyped, Threaded, Flagged, SteppedTo, Limited,
       Resting
  <2> QED BY <2>2, <2>3, <2>4, <2>5, <2>6, <2>7 DEF PlayInv
<1>13. CASE P!WaitPaused
  <2>2. PlayTyped'
    BY <1>0, <1>13 DEF P!WaitPaused, PlayTyped
  <2>3. Threaded'
    BY <1>0, <1>13 DEF P!WaitPaused, PlayTyped, Threaded, Flagged, SteppedTo, Limited, Resting
  <2>4. Flagged'
    BY <1>0, <1>13 DEF P!WaitPaused, PlayTyped, Threaded, Flagged, SteppedTo, Limited, Resting
  <2>5. SteppedTo'
    BY <1>0, <1>13 DEF P!WaitPaused, PlayTyped, Threaded, Flagged, SteppedTo, Limited, Resting
  <2>6. Limited'
    BY <1>0, <1>13 DEF P!WaitPaused, PlayTyped, Threaded, Flagged, SteppedTo, Limited, Resting
  <2>7. Resting'
    BY <1>0, <1>13 DEF P!WaitPaused, PlayTyped, Threaded, Flagged, SteppedTo, Limited, Resting
  <2> QED BY <2>2, <2>3, <2>4, <2>5, <2>6, <2>7 DEF PlayInv
<1>14. CASE P!Resume
  <2>1. /\ flags' \in Controls /\ flags'.pauseAt = P!None /\ flags'.paused = FALSE /\ flags'.settled = FALSE
        /\ flags'.seeking = flags.seeking /\ flags'.preparing = flags.preparing /\ flags'.pending = flags.pending
        /\ flags'.stepTarget = flags.stepTarget /\ flags'.aborted = flags.aborted /\ flags'.abort = flags.abort
    BY <1>0, <1>14 DEF P!Resume, P!Free, P!Resumed, Controls
  <2>2. PlayTyped'
    BY <1>0, <1>14, <2>1 DEF P!Resume, P!Free, P!Resumed, PlayTyped
  <2>3. Threaded'
    BY <1>0, <1>14, <2>1 DEF P!Resume, P!Free, P!Resumed, PlayTyped, Threaded, Flagged, SteppedTo, Limited,
       Resting
  <2>4. Flagged'
    BY <1>0, <1>14, <2>1 DEF P!Resume, P!Free, P!Resumed, PlayTyped, Threaded, Flagged, SteppedTo, Limited,
       Resting
  <2>5. SteppedTo'
    BY <1>0, <1>14, <2>1 DEF P!Resume, P!Free, P!Resumed, PlayTyped, Threaded, Flagged, SteppedTo, Limited,
       Resting
  <2>6. Limited'
    BY <1>0, <1>14, <2>1 DEF P!Resume, P!Free, P!Resumed, PlayTyped, Threaded, Flagged, SteppedTo, Limited,
       Resting
  <2>7. Resting'
    BY <1>0, <1>14, <2>1 DEF P!Resume, P!Free, P!Resumed, PlayTyped, Threaded, Flagged, SteppedTo, Limited,
       Resting
  <2> QED BY <2>2, <2>3, <2>4, <2>5, <2>6, <2>7 DEF PlayInv
<1>15. CASE P!SetSpeed
  <2>1. /\ flags' \in Controls /\ flags'.pauseAt = P!None /\ flags'.paused = flags.paused /\ flags'.settled = flags.settled
        /\ flags'.seeking = flags.seeking /\ flags'.preparing = flags.preparing /\ flags'.pending = flags.pending
        /\ flags'.stepTarget = flags.stepTarget /\ flags'.aborted = flags.aborted /\ flags'.abort = flags.abort
    BY <1>0, <1>15, Unlimited DEF P!SetSpeed, P!Free
  <2>2. PlayTyped'
    BY <1>0, <1>15, <2>1 DEF P!SetSpeed, P!Free, PlayTyped
  <2>3. Threaded'
    BY <1>0, <1>15, <2>1 DEF P!SetSpeed, P!Free, PlayTyped, Threaded, Flagged, SteppedTo, Limited, Resting
  <2>4. Flagged'
    BY <1>0, <1>15, <2>1 DEF P!SetSpeed, P!Free, PlayTyped, Threaded, Flagged, SteppedTo, Limited, Resting
  <2>5. SteppedTo'
    BY <1>0, <1>15, <2>1 DEF P!SetSpeed, P!Free, PlayTyped, Threaded, Flagged, SteppedTo, Limited, Resting
  <2>6. Limited'
    BY <1>0, <1>15, <2>1 DEF P!SetSpeed, P!Free, PlayTyped, Threaded, Flagged, SteppedTo, Limited, Resting
  <2>7. Resting'
    BY <1>0, <1>15, <2>1 DEF P!SetSpeed, P!Free, PlayTyped, Threaded, Flagged, SteppedTo, Limited, Resting
  <2> QED BY <2>2, <2>3, <2>4, <2>5, <2>6, <2>7 DEF PlayInv
<1>16. CASE P!Until
  <2>1. /\ flags' \in Controls /\ flags'.pauseAt = flags.pauseAt /\ flags'.paused = flags.paused /\ flags'.settled = flags.settled
        /\ flags'.seeking = flags.seeking /\ flags'.preparing = flags.preparing /\ flags'.pending = flags.pending
        /\ flags'.stepTarget = flags.stepTarget /\ flags'.aborted = FALSE /\ flags'.abort = FALSE
    BY <1>0, <1>16, Claimed DEF P!Until, P!Free
  <2>2. PlayTyped'
    BY <1>0, <1>16, <2>1 DEF P!Until, P!Free, PlayTyped
  <2>3. Threaded'
    BY <1>0, <1>16, <2>1 DEF P!Until, P!Free, PlayTyped, Threaded, Flagged, SteppedTo, Limited, Resting
  <2>4. Flagged'
    BY <1>0, <1>16, <2>1 DEF P!Until, P!Free, PlayTyped, Threaded, Flagged, SteppedTo, Limited, Resting
  <2>5. SteppedTo'
    BY <1>0, <1>16, <2>1 DEF P!Until, P!Free, PlayTyped, Threaded, Flagged, SteppedTo, Limited, Resting
  <2>6. Limited'
    BY <1>0, <1>16, <2>1 DEF P!Until, P!Free, PlayTyped, Threaded, Flagged, SteppedTo, Limited, Resting
  <2>7. Resting'
    BY <1>0, <1>16, <2>1 DEF P!Until, P!Free, PlayTyped, Threaded, Flagged, SteppedTo, Limited, Resting
  <2> QED BY <2>2, <2>3, <2>4, <2>5, <2>6, <2>7 DEF PlayInv
<1>17. CASE P!Refused
  <2>1. /\ flags' \in Controls /\ flags'.pauseAt = flags.pauseAt /\ flags'.paused = flags.paused /\ flags'.settled = flags.settled
        /\ flags'.seeking = flags.seeking /\ flags'.preparing = flags.preparing /\ flags'.pending = flags.pending
        /\ flags'.stepTarget = flags.stepTarget /\ flags'.aborted = flags.aborted /\ flags'.abort = flags.abort
    BY <1>0, <1>17, Served DEF P!Refused
  <2>2. PlayTyped'
    BY <1>0, <1>17, <2>1 DEF P!Refused, PlayTyped
  <2>3. Threaded'
    BY <1>0, <1>17, <2>1 DEF P!Refused, PlayTyped, Threaded, Flagged, SteppedTo, Limited, Resting
  <2>4. Flagged'
    BY <1>0, <1>17, <2>1 DEF P!Refused, PlayTyped, Threaded, Flagged, SteppedTo, Limited, Resting
  <2>5. SteppedTo'
    BY <1>0, <1>17, <2>1 DEF P!Refused, PlayTyped, Threaded, Flagged, SteppedTo, Limited, Resting
  <2>6. Limited'
    BY <1>0, <1>17, <2>1 DEF P!Refused, PlayTyped, Threaded, Flagged, SteppedTo, Limited, Resting
  <2>7. Resting'
    BY <1>0, <1>17, <2>1 DEF P!Refused, PlayTyped, Threaded, Flagged, SteppedTo, Limited, Resting
  <2> QED BY <2>2, <2>3, <2>4, <2>5, <2>6, <2>7 DEF PlayInv
<1>18. CASE P!Stepped
  <2>1. /\ flags' \in Controls /\ flags'.pauseAt = flags.pauseAt /\ flags'.paused = flags.paused /\ flags'.settled = flags.settled
        /\ flags'.seeking = flags.seeking /\ flags'.preparing = flags.preparing /\ flags'.pending = flags.pending
        /\ flags'.stepTarget = flags.stepTarget /\ flags'.aborted = flags.aborted /\ flags'.abort = flags.abort
    BY <1>0, <1>18, Served DEF P!Stepped
  <2>2. PlayTyped'
    BY <1>0, <1>18, <2>1 DEF P!Stepped, PlayTyped
  <2>3. Threaded'
    BY <1>0, <1>18, <2>1 DEF P!Stepped, PlayTyped, Threaded, Flagged, SteppedTo, Limited, Resting
  <2>4. Flagged'
    BY <1>0, <1>18, <2>1 DEF P!Stepped, PlayTyped, Threaded, Flagged, SteppedTo, Limited, Resting
  <2>5. SteppedTo'
    BY <1>0, <1>18, <2>1 DEF P!Stepped, PlayTyped, Threaded, Flagged, SteppedTo, Limited, Resting
  <2>6. Limited'
    BY <1>0, <1>18, <2>1 DEF P!Stepped, PlayTyped, Threaded, Flagged, SteppedTo, Limited, Resting
  <2>7. Resting'
    BY <1>0, <1>18, <2>1 DEF P!Stepped, PlayTyped, Threaded, Flagged, SteppedTo, Limited, Resting
  <2> QED BY <2>2, <2>3, <2>4, <2>5, <2>6, <2>7 DEF PlayInv
<1>19. CASE P!Answer
  <2>2. PlayTyped'
    BY <1>0, <1>19 DEF P!Answer, PlayTyped
  <2>3. Threaded'
    BY <1>0, <1>19 DEF P!Answer, PlayTyped, Threaded, Flagged, SteppedTo, Limited, Resting
  <2>4. Flagged'
    BY <1>0, <1>19 DEF P!Answer, PlayTyped, Threaded, Flagged, SteppedTo, Limited, Resting
  <2>5. SteppedTo'
    BY <1>0, <1>19 DEF P!Answer, PlayTyped, Threaded, Flagged, SteppedTo, Limited, Resting
  <2>6. Limited'
    BY <1>0, <1>19 DEF P!Answer, PlayTyped, Threaded, Flagged, SteppedTo, Limited, Resting
  <2>7. Resting'
    BY <1>0, <1>19 DEF P!Answer, PlayTyped, Threaded, Flagged, SteppedTo, Limited, Resting
  <2> QED BY <2>2, <2>3, <2>4, <2>5, <2>6, <2>7 DEF PlayInv
<1>20. ASSUME NEW t \in Targets, P!PlayUntil(t) PROVE PlayInv'
  <2>0. t \in Nat
    BY PlaybackAssumption
  <2>1. /\ flags' \in Controls /\ flags'.pauseAt = t /\ flags'.paused = FALSE /\ flags'.settled = FALSE
        /\ flags'.seeking = flags.seeking /\ flags'.preparing = flags.preparing /\ flags'.pending = flags.pending
        /\ flags'.stepTarget = flags.stepTarget /\ flags'.aborted = flags.aborted /\ flags'.abort = flags.abort
    BY <1>0, <1>20, <2>0 DEF P!PlayUntil, P!Free, P!Valid, Controls
  <2>2. PlayTyped'
    BY <1>0, <1>20, <2>0, <2>1 DEF P!PlayUntil, P!Free, P!Valid, PlayTyped
  <2>3. Threaded'
    BY <1>0, <1>20, <2>0, <2>1 DEF P!PlayUntil, P!Free, P!Valid, PlayTyped, Threaded, Flagged, SteppedTo,
       Limited, Resting
  <2>4. Flagged'
    BY <1>0, <1>20, <2>0, <2>1 DEF P!PlayUntil, P!Free, P!Valid, PlayTyped, Threaded, Flagged, SteppedTo,
       Limited, Resting
  <2>5. SteppedTo'
    BY <1>0, <1>20, <2>0, <2>1 DEF P!PlayUntil, P!Free, P!Valid, PlayTyped, Threaded, Flagged, SteppedTo,
       Limited, Resting
  <2>6. Limited'
    BY <1>0, <1>20, <2>0, <2>1 DEF P!PlayUntil, P!Free, P!Valid, PlayTyped, Threaded, Flagged, SteppedTo,
       Limited, Resting
  <2>7. Resting'
    BY <1>0, <1>20, <2>0, <2>1 DEF P!PlayUntil, P!Free, P!Valid, PlayTyped, Threaded, Flagged, SteppedTo,
       Limited, Resting
  <2> QED BY <2>2, <2>3, <2>4, <2>5, <2>6, <2>7 DEF PlayInv
<1>21. ASSUME NEW t \in Targets, P!Step(t) PROVE PlayInv'
  <2>0. t \in Nat
    BY PlaybackAssumption
  <2>1. /\ flags' \in Controls /\ flags'.pauseAt = P!None /\ flags'.settled = FALSE /\ flags'.stepTarget = t
        /\ flags'.pending = TRUE /\ flags'.seeking = TRUE
        /\ flags'.paused = flags.paused /\ flags'.preparing = flags.preparing /\ flags'.aborted = flags.aborted /\ flags'.abort = flags.abort
    BY <1>0, <1>21, <2>0 DEF P!Step, P!Valid, Controls
  <2>2. PlayTyped'
    BY <1>0, <1>21, <2>0, <2>1 DEF P!Step, P!Valid, PlayTyped
  <2>3. Threaded'
    BY <1>0, <1>21, <2>0, <2>1 DEF P!Step, P!Valid, PlayTyped, Threaded, Flagged, SteppedTo, Limited, Resting
  <2>4. Flagged'
    BY <1>0, <1>21, <2>0, <2>1 DEF P!Step, P!Valid, PlayTyped, Threaded, Flagged, SteppedTo, Limited, Resting
  <2>5. SteppedTo'
    BY <1>0, <1>21, <2>0, <2>1 DEF P!Step, P!Valid, PlayTyped, Threaded, Flagged, SteppedTo, Limited, Resting
  <2>6. Limited'
    BY <1>0, <1>21, <2>0, <2>1 DEF P!Step, P!Valid, PlayTyped, Threaded, Flagged, SteppedTo, Limited, Resting
  <2>7. Resting'
    BY <1>0, <1>21, <2>0, <2>1 DEF P!Step, P!Valid, PlayTyped, Threaded, Flagged, SteppedTo, Limited, Resting
  <2> QED BY <2>2, <2>3, <2>4, <2>5, <2>6, <2>7 DEF PlayInv
<1>22. CASE P!Abort
  <2>1. /\ flags' \in Controls /\ (flags'.settled <=> flags.settled /\ flags.paused) /\ flags'.paused = TRUE /\ flags'.pauseAt = P!None
        /\ (flags'.abort <=> flags.abort \/ flags.stepping)
        /\ flags'.seeking = flags.seeking /\ flags'.preparing = flags.preparing /\ flags'.pending = flags.pending
        /\ flags'.stepTarget = flags.stepTarget /\ flags'.aborted = flags.aborted
    BY <1>0, <1>22 DEF P!Abort, P!Free, P!Paused, Controls
  <2>2. PlayTyped'
    BY <1>0, <1>22, <2>1 DEF P!Abort, P!Free, P!Paused, PlayTyped
  <2>3. Threaded'
    BY <1>0, <1>22, <2>1 DEF P!Abort, P!Free, P!Paused, PlayTyped, Threaded, Flagged, SteppedTo, Limited,
       Resting
  <2>4. Flagged'
    BY <1>0, <1>22, <2>1 DEF P!Abort, P!Free, P!Paused, PlayTyped, Threaded, Flagged, SteppedTo, Limited,
       Resting
  <2>5. SteppedTo'
    BY <1>0, <1>22, <2>1 DEF P!Abort, P!Free, P!Paused, PlayTyped, Threaded, Flagged, SteppedTo, Limited,
       Resting
  <2>6. Limited'
    BY <1>0, <1>22, <2>1 DEF P!Abort, P!Free, P!Paused, PlayTyped, Threaded, Flagged, SteppedTo, Limited,
       Resting
  <2>7. Resting'
    BY <1>0, <1>22, <2>1 DEF P!Abort, P!Free, P!Paused, PlayTyped, Threaded, Flagged, SteppedTo, Limited,
       Resting
  <2> QED BY <2>2, <2>3, <2>4, <2>5, <2>6, <2>7 DEF PlayInv
<1>23. CASE P!Stop
  <2>2. PlayTyped'
    BY <1>0, <1>23 DEF P!Stop, PlayTyped
  <2>3. Threaded'
    BY <1>0, <1>23 DEF P!Stop, PlayTyped, Threaded, Flagged, SteppedTo, Limited, Resting
  <2>4. Flagged'
    BY <1>0, <1>23 DEF P!Stop, PlayTyped, Threaded, Flagged, SteppedTo, Limited, Resting
  <2>5. SteppedTo'
    BY <1>0, <1>23 DEF P!Stop, PlayTyped, Threaded, Flagged, SteppedTo, Limited, Resting
  <2>6. Limited'
    BY <1>0, <1>23 DEF P!Stop, PlayTyped, Threaded, Flagged, SteppedTo, Limited, Resting
  <2>7. Resting'
    BY <1>0, <1>23 DEF P!Stop, PlayTyped, Threaded, Flagged, SteppedTo, Limited, Resting
  <2> QED BY <2>2, <2>3, <2>4, <2>5, <2>6, <2>7 DEF PlayInv
<1>24. CASE UNCHANGED playbackVars
  BY <1>0, <1>24 DEF playbackVars, PlayInv, PlayTyped, Threaded, Flagged, SteppedTo, Limited, Resting
<1> QED BY <1>1, <1>2, <1>3, <1>4, <1>5, <1>6, <1>7, <1>8, <1>9, <1>10, <1>11, <1>12, <1>13, <1>14, <1>15,
   <1>16, <1>17, <1>18, <1>19, <1>20, <1>21, <1>22, <1>23, <1>24 DEF P!Next

(* The invariant is stronger than what the playback promises. *)
LEMMA PlaySafe == PlayInv => StepsExactly /\ PauseIsStill
BY DEF PlayInv, PlayTyped, Threaded, Flagged, SteppedTo, Limited, Resting, Still,
   StepsExactly, P!StepsExactly, PauseIsStill, P!PauseIsStill, P!None

(* While no step's target overtakes the barrier of a play-to, for any recording, times and
   number of requests: a step that reports success has played every batch through its target
   and none past it, and no batch passes the time a step or a play-to named before a request
   lifts it (replay.cpp, run_deterministic and until). *)
THEOREM StepsAlwaysExact == ~Overtakes /\ PlaybackSpec => []StepsExactly
<1> SUFFICES ASSUME ~Overtakes PROVE PlaybackSpec => []StepsExactly
  OBVIOUS
<1>1. PlayInv /\ [P!Next]_playbackVars => PlayInv'
  BY PlayStep
<1>2. PlayInv => StepsExactly
  BY PlaySafe
<1> QED BY PlayInitial, <1>1, <1>2, PTL DEF PlaybackSpec

(* Once a pause has been answered no batch is under way and none starts until a request lifts
   it, whatever else is asked for meanwhile (replay.cpp set_paused and pace). *)
THEOREM PausesAlwaysStill == ~Overtakes /\ PlaybackSpec => []PauseIsStill
<1> SUFFICES ASSUME ~Overtakes PROVE PlaybackSpec => []PauseIsStill
  OBVIOUS
<1>1. PlayInv /\ [P!Next]_playbackVars => PlayInv'
  BY PlayStep
<1>2. PlayInv => PauseIsStill
  BY PlaySafe
<1> QED BY PlayInitial, <1>1, <1>2, PTL DEF PlaybackSpec

-------------------------------------------------------------------------------
(* Backtests *)

BacktestsInv ==
  /\ sequence \in Nat \ {0} /\ saved = [id \in K!Ids |-> saved[id]]
  /\ current = [id |-> current.id, status |-> current.status, keep |-> current.keep]
  /\ current.id \in 0..MaxRuns /\ current.id < sequence /\ current.status \notin {"missing", "bare"}
  /\ pinned \subseteq K!Ids /\ held \subseteq pinned
  /\ started \subseteq 1..(sequence - 1) /\ ~reused
  /\ \A id \in K!Ids : saved[id] # K!Missing => id < sequence
  /\ \A id \in pinned : id < sequence /\ (K!IsSaved(id) => saved[id].keep) /\ (current.id = id => current.keep)
  /\ \A id \in held : K!IsSaved(id)
  /\ current.status = "completed" => current.id # 0 /\ saved[current.id].status \in {"completed", "bare"}
  /\ job # "none" => running
  /\ running => current.status \in {"running", "cancelling"} /\ current.id # 0

(* No backtest is there at first. *)
LEMMA BacktestsInitial == K!Init => BacktestsInv
BY BacktestsAssumption DEF K!Init, BacktestsInv, K!NoRun, K!Missing

(* The number on disk is past every directory there is. *)
LEMMA NextNumber == BacktestsInv => K!Number = sequence
<1> SUFFICES ASSUME BacktestsInv PROVE K!Number = sequence
  OBVIOUS
<1> DEFINE Numbers == {sequence} \union {id + 1 : id \in {r \in K!Ids : saved[r] # K!Missing}}
<1>1. sequence \in Numbers /\ \A x \in Numbers : x \in Int /\ x <= sequence
  BY BacktestsAssumption DEF BacktestsInv, K!Ids
<1>2. K!Number = CHOOSE x \in Numbers : \A y \in Numbers : x >= y
  BY DEF K!Number, K!Max
<1> HIDE DEF Numbers
<1>3. \A x \in Numbers : (\A y \in Numbers : x >= y) => x = sequence
  BY <1>1 DEF BacktestsInv
<1>4. \A y \in Numbers : sequence >= y
  BY <1>1 DEF BacktestsInv
<1> QED BY <1>1, <1>2, <1>3, <1>4

(* What is pinned is never swept. *)
LEMMA HeldStays == BacktestsInv => K!Outdated \cap held = {} /\ K!Outdated \subseteq K!Ids
<1> SUFFICES ASSUME BacktestsInv, NEW id \in K!Outdated PROVE id \notin held /\ id \in K!Ids
  OBVIOUS
<1>1. id \in K!Removable
  BY DEF K!Outdated
<1>2. id \in K!Ids /\ ~K!Read(id).keep
  BY <1>1 DEF K!Removable
<1>3. CASE id \in held
  <2>1. saved[id].keep /\ (current.id = id => current.keep)
    BY <1>3 DEF BacktestsInv
  <2>2. CASE current.id = id
    BY <1>2, <2>1, <2>2 DEF K!Read
  <2>3. CASE current.id # id
    <3>1. K!Read(id).keep = saved[id].keep
      BY <2>3 DEF K!Read
    <3> QED BY <1>2, <2>1, <3>1
  <2> QED BY <2>2, <2>3
<1> QED BY <1>2, <1>3

(* Every step of the backtest host keeps the invariant. *)
LEMMA BacktestsStep == BacktestsInv /\ [K!Next]_backtestVars => BacktestsInv'
<1> SUFFICES ASSUME BacktestsInv, [K!Next]_backtestVars PROVE BacktestsInv'
  OBVIOUS
<1> USE BacktestsAssumption DEF K!Ids
<1>1. CASE K!Post
  <2>1. K!Number = sequence /\ K!Outdated \cap held = {} /\ K!Outdated \subseteq K!Ids
    BY NextNumber, HeldStays
  <2>2. /\ sequence \in K!Ids /\ sequence' = sequence + 1 /\ ~running
        /\ saved' = [id \in K!Ids |-> IF id \in K!Outdated THEN K!Missing ELSE saved[id]]
        /\ pinned' = pinned \ K!Outdated /\ held' = held \ K!Outdated
    BY <1>1, <2>1 DEF K!Post, K!Purged
  <2>3. \/ /\ current' = [id |-> sequence, status |-> "running", keep |-> FALSE] /\ running' = TRUE
           /\ started' = started \union {sequence} /\ reused' = (reused \/ sequence \in started)
        \/ /\ current' = [id |-> sequence, status |-> "failed", keep |-> FALSE]
           /\ UNCHANGED <<running, job, started, reused>>
    BY <1>1, <2>1 DEF K!Post
  <2>4. current'.id = sequence /\ current'.status \in {"running", "failed"} /\ ~current'.keep
        /\ current' = [id |-> current'.id, status |-> current'.status, keep |-> current'.keep]
    BY <2>3
  <2>5. (job' # "none" => running') /\ (running' => current'.status = "running")
    BY <2>2, <2>3 DEF BacktestsInv
  <2>6. started' \subseteq 1..sequence /\ ~reused'
    <3>1. sequence \in Nat \ {0} /\ started \subseteq 1..(sequence - 1) /\ ~reused
      BY DEF BacktestsInv
    <3>2. sequence \notin started /\ started \subseteq 1..sequence /\ sequence \in 1..sequence
      BY <3>1
    <3>3. started' \subseteq 1..sequence
      BY <2>3, <3>2
    <3>4. ~reused'
      BY Zenon, <2>3, <3>1, <3>2
    <3> QED BY <3>3, <3>4
  <2>7. \A id \in held' : K!IsSaved(id)'
    BY <2>2 DEF BacktestsInv, K!IsSaved
  <2>8. \A id \in pinned' : id < sequence /\ (K!IsSaved(id)' => saved'[id].keep) /\ (current'.id = id => current'.keep)
    <3> SUFFICES ASSUME NEW id \in pinned'
                 PROVE  id < sequence /\ (K!IsSaved(id)' => saved'[id].keep) /\ (current'.id = id => current'.keep)
      OBVIOUS
    <3>1. id \in pinned /\ id \in K!Ids /\ id \notin K!Outdated /\ saved'[id] = saved[id]
      BY <2>2 DEF BacktestsInv
    <3>2. id < sequence /\ (K!IsSaved(id) => saved[id].keep) /\ sequence \in Nat
      BY <3>1 DEF BacktestsInv
    <3>3. current'.id # id
      BY <2>4, <3>1, <3>2
    <3> QED BY <3>1, <3>2, <3>3 DEF K!IsSaved
  <2>9. \A id \in K!Ids : saved'[id] # K!Missing => id < sequence
    BY <2>2 DEF BacktestsInv
  <2>10. sequence' \in Nat \ {0} /\ sequence < sequence' /\ sequence' - 1 = sequence /\ sequence \in 1..MaxRuns
         /\ \A id \in K!Ids : id < sequence => id < sequence'
    BY <2>2 DEF BacktestsInv
  <2>11. pinned' \subseteq K!Ids /\ held' \subseteq pinned' /\ saved' = [id \in K!Ids |-> saved'[id]]
    BY <2>2 DEF BacktestsInv
  <2> HIDE DEF K!Ids
  <2> QED BY <2>4, <2>5, <2>6, <2>7, <2>8, <2>9, <2>10, <2>11 DEF BacktestsInv
<1>2. CASE K!PostFails
  <2>1. K!Number = sequence /\ K!Outdated \cap held = {} /\ K!Outdated \subseteq K!Ids
    BY NextNumber, HeldStays
  <2>2. sequence \in K!Ids /\ sequence' = sequence + 1 /\ ~running /\ UNCHANGED <<running, job, pinned, held, started, reused>>
    BY <1>2, <2>1 DEF K!PostFails
  <2>3. PICK id \in K!Outdated :
          /\ saved' = [r \in K!Ids |-> IF r \in {s \in K!Outdated : s < id} THEN K!Missing ELSE IF r = id THEN K!Bare ELSE saved[r]]
          /\ current' = IF current.id \in {s \in K!Outdated : s < id} THEN K!NoRun ELSE current
    BY <1>2 DEF K!PostFails
  <2>4. \A r \in K!Ids : saved'[r] = saved[r] \/ (r \in K!Outdated /\ (saved'[r] = K!Missing \/ saved'[r] = K!Bare) /\ ~K!IsSaved(r)')
    BY <2>3 DEF K!IsSaved
  <2>5. \A r \in K!Ids : saved'[r] # K!Missing => r < sequence
    <3>1. \A r \in K!Outdated : saved[r] # K!Missing
      BY DEF K!Outdated, K!Removable, K!IsSaved
    <3> QED BY <2>4, <3>1 DEF BacktestsInv
  <2>6. \A r \in held : K!IsSaved(r)'
    BY <2>1, <2>4 DEF BacktestsInv, K!IsSaved
  <2>7. \A r \in pinned : r < sequence /\ (K!IsSaved(r)' => saved'[r].keep) /\ (current'.id = r => current'.keep)
    <3> SUFFICES ASSUME NEW r \in pinned
                 PROVE  r < sequence /\ (K!IsSaved(r)' => saved'[r].keep) /\ (current'.id = r => current'.keep)
      OBVIOUS
    <3>1. r \in K!Ids /\ r < sequence /\ (K!IsSaved(r) => saved[r].keep) /\ (current.id = r => current.keep)
      BY DEF BacktestsInv
    <3>2. K!IsSaved(r)' => saved'[r].keep
      BY <2>4, <3>1 DEF K!IsSaved
    <3>3. current' = current \/ current'.id = 0
      BY <2>3 DEF K!NoRun
    <3> QED BY <3>1, <3>2, <3>3
  <2>8. current' = current \/ current' = K!NoRun
    BY <2>3
  <2>9. current'.status = "completed" => current'.id # 0 /\ saved'[current'.id].status \in {"completed", "bare"}
    <3>1. CASE current' = K!NoRun
      BY <3>1 DEF K!NoRun
    <3>2. CASE current' = current /\ current' # K!NoRun
      <4> SUFFICES ASSUME current.status = "completed" PROVE current.id # 0 /\ saved'[current.id].status \in {"completed", "bare"}
        BY <3>2
      <4>1. current.id \in K!Ids /\ saved[current.id].status \in {"completed", "bare"}
        BY DEF BacktestsInv
      <4>2. current.id \notin {s \in K!Outdated : s < id}
        BY <2>3, <3>2
      <4>3. saved'[current.id] = saved[current.id] \/ saved'[current.id] = K!Bare
        BY <2>3, <4>1, <4>2
      <4> QED BY <4>1, <4>3 DEF K!Bare
    <3> QED BY <2>8, <3>1, <3>2
  <2>10. sequence' \in Nat \ {0} /\ sequence < sequence' /\ sequence \in 1..MaxRuns
         /\ (\A r \in K!Ids : r < sequence => r < sequence') /\ started \subseteq 1..(sequence' - 1)
    BY <2>2 DEF BacktestsInv
  <2>11. saved' = [r \in K!Ids |-> saved'[r]]
    BY <2>3
  <2>12. /\ current' = [id |-> current'.id, status |-> current'.status, keep |-> current'.keep]
         /\ current'.id \in 0..MaxRuns /\ current'.id < sequence' /\ current'.status \notin {"missing", "bare"}
    BY <2>8, <2>10 DEF BacktestsInv, K!NoRun
  <2>13. job' = "none" /\ ~running'
    BY <2>2 DEF BacktestsInv
  <2> HIDE DEF K!Ids
  <2>14. pinned' \subseteq K!Ids /\ held' \subseteq pinned' /\ ~reused' /\ pinned' = pinned /\ held' = held /\ started' = started
    BY <2>2 DEF BacktestsInv
  <2> QED BY <2>5, <2>6, <2>7, <2>9, <2>10, <2>11, <2>12, <2>13, <2>14 DEF BacktestsInv
<1>3. CASE K!CancelRun
  <2>1. /\ running /\ current' = [current EXCEPT !.status = "cancelling"]
        /\ UNCHANGED <<sequence, saved, running, job, pinned, held, started, reused>>
    BY <1>3 DEF K!CancelRun
  <2>2. current'.id = current.id /\ current'.status = "cancelling" /\ current'.keep = current.keep
        /\ current' = [id |-> current'.id, status |-> current'.status, keep |-> current'.keep]
    BY <2>1 DEF BacktestsInv
  <2> QED BY <2>1, <2>2 DEF BacktestsInv, K!IsSaved
<1>4. ASSUME NEW id \in K!Ids, K!Purge(id) PROVE BacktestsInv'
  <2>1. ~(running /\ current.id = id) /\ UNCHANGED <<sequence, running, job, started, reused>> /\ K!IsSaved(id)
    BY <1>4 DEF K!Purge
  <2>2. /\ saved' = [saved EXCEPT ![id] = K!Missing] \/ saved' = [saved EXCEPT ![id] = K!Bare]
        /\ pinned' = pinned \ {id} /\ held' = held \ {id}
        /\ (current' = K!NoRun /\ current.id = id) \/ current' = current
        /\ (current' = current /\ current.id = id) => saved' = [saved EXCEPT ![id] = K!Bare]
    <3>1. CASE K!Purged({id}) /\ current' = IF current.id = id THEN K!NoRun ELSE current
      <4>1. saved' = [saved EXCEPT ![id] = K!Missing]
        BY <3>1 DEF K!Purged, BacktestsInv
      <4>2. (current'.id = 0 /\ id # 0) \/ current.id # id
        BY <3>1 DEF K!NoRun
      <4>3. current.id # id => current' = current
        BY <3>1
      <4>4. current.id = id => current' = K!NoRun
        BY <3>1
      <4>5. pinned' = pinned \ {id} /\ held' = held \ {id}
        BY <3>1 DEF K!Purged
      <4> QED BY <4>1, <4>2, <4>3, <4>4, <4>5
    <3>2. CASE saved' = [saved EXCEPT ![id] = K!Bare] /\ pinned' = pinned \ {id} /\ held' = held \ {id} /\ UNCHANGED current
      BY <3>2
    <3> QED BY <1>4, <3>1, <3>2 DEF K!Purge
  <2>3. \A r \in K!Ids : r # id => saved'[r] = saved[r]
    BY <2>2 DEF BacktestsInv
  <2>4. saved' = [r \in K!Ids |-> saved'[r]] /\ (saved'[id] = K!Missing \/ saved'[id] = K!Bare) /\ ~K!IsSaved(id)'
    BY <2>2 DEF BacktestsInv, K!IsSaved
  <2>5. \A r \in K!Ids : saved'[r] # K!Missing => r < sequence
    <3>1. saved[id] # K!Missing
      BY <2>1 DEF K!IsSaved
    <3> QED BY <2>3, <3>1 DEF BacktestsInv
  <2>6. \A r \in held' : K!IsSaved(r)'
    BY <2>2, <2>3 DEF BacktestsInv, K!IsSaved
  <2>7. \A r \in pinned' : r < sequence /\ (K!IsSaved(r)' => saved'[r].keep) /\ (current'.id = r => current'.keep)
    <3> SUFFICES ASSUME NEW r \in pinned'
                 PROVE  r < sequence /\ (K!IsSaved(r)' => saved'[r].keep) /\ (current'.id = r => current'.keep)
      OBVIOUS
    <3>1. r \in pinned /\ r \in K!Ids /\ r # id /\ saved'[r] = saved[r]
      BY <2>2, <2>3 DEF BacktestsInv
    <3>2. r < sequence /\ (K!IsSaved(r) => saved[r].keep) /\ (current.id = r => current.keep)
      BY <3>1 DEF BacktestsInv
    <3>3. current' = current \/ current'.id = 0
      BY <2>2 DEF K!NoRun
    <3>4. K!IsSaved(r)' => saved'[r].keep
      BY <3>1, <3>2 DEF K!IsSaved
    <3>5. r # 0
      BY <3>1
    <3>6. current'.id = r => current'.keep
      BY <3>2, <3>3, <3>5
    <3> QED BY <3>2, <3>4, <3>6
  <2>8. current'.status = "completed" => current'.id # 0 /\ saved'[current'.id].status \in {"completed", "bare"}
    <3>1. CASE current' = K!NoRun
      BY <3>1 DEF K!NoRun
    <3>2. CASE current' = current /\ current.id # id
      <4> SUFFICES ASSUME current.status = "completed" PROVE current.id # 0 /\ saved'[current.id].status \in {"completed", "bare"}
        BY <3>2
      <4>1. current.id \in K!Ids /\ saved[current.id].status \in {"completed", "bare"}
        BY DEF BacktestsInv
      <4> QED BY <2>3, <3>2, <4>1
    <3>3. CASE current' = current /\ current.id = id
      <4>1. saved'[id] = K!Bare
        BY <2>2, <3>3 DEF BacktestsInv
      <4> QED BY <3>3, <4>1 DEF K!Bare
    <3> QED BY <2>2, <3>1, <3>2, <3>3
  <2>9. /\ current' = [id |-> current'.id, status |-> current'.status, keep |-> current'.keep]
        /\ current'.id \in 0..MaxRuns /\ current'.id < sequence /\ current'.status \notin {"missing", "bare"}
        /\ running => current' = current
    BY <2>1, <2>2 DEF BacktestsInv, K!NoRun
  <2> HIDE DEF K!Ids
  <2>10. pinned' \subseteq K!Ids /\ held' \subseteq pinned'
    BY <2>2 DEF BacktestsInv
  <2> QED BY <2>1, <2>4, <2>5, <2>6, <2>7, <2>8, <2>9, <2>10 DEF BacktestsInv
<1>5. ASSUME NEW id \in K!Ids, NEW keep \in BOOLEAN, K!Put(id, keep) PROVE BacktestsInv'
  <2>1. /\ UNCHANGED <<sequence, running, job, started, reused>>
        /\ pinned' = IF keep THEN pinned \union {id} ELSE pinned \ {id}
        /\ held' = IF keep /\ saved'[id] \notin {K!Missing, K!Bare} THEN held \union {id} ELSE held \ {id}
    BY <1>5 DEF K!Put, K!Promised
  <2>2. /\ current'.id = current.id /\ current'.status = current.status
        /\ current' = [id |-> current'.id, status |-> current'.status, keep |-> current'.keep]
        /\ current.id = id => current'.keep = keep
        /\ current.id # id => current' = current
    <3>1. CASE current.id = id
      <4>1. current' = [current EXCEPT !.keep = keep]
        BY <1>5, <3>1 DEF K!Put, K!PutCurrent
      <4> QED BY <3>1, <4>1 DEF BacktestsInv
    <3>2. CASE current.id # id
      BY <1>5, <3>2 DEF K!Put, K!PutSaved, BacktestsInv
    <3> QED BY <3>1, <3>2
  <2>3. /\ saved' = [r \in K!Ids |-> saved'[r]] /\ \A r \in K!Ids : r # id => saved'[r] = saved[r]
        /\ saved'[id] = K!Missing \/ saved'[id].keep = keep
        /\ saved'[id] # K!Missing => saved[id] # K!Missing
        /\ current.id = id => saved'[id] = saved[id] \/ saved'[id].status = current.status
    <3>1. CASE current.id = id /\ saved[id] = K!Missing
      BY <1>5, <3>1 DEF K!Put, K!PutCurrent, BacktestsInv
    <3>2. CASE current.id = id /\ saved[id] # K!Missing
      BY <1>5, <3>2 DEF K!Put, K!PutCurrent, BacktestsInv
    <3>3. CASE current.id # id
      BY <1>5, <3>3 DEF K!Put, K!PutSaved, BacktestsInv, K!IsSaved
    <3> QED BY <3>1, <3>2, <3>3
  <2>4. pinned' \subseteq K!Ids /\ held' \subseteq pinned'
    BY <2>1 DEF BacktestsInv
  <2>5. \A r \in held' : K!IsSaved(r)'
    BY <2>1, <2>3 DEF BacktestsInv, K!IsSaved
  <2>6. \A r \in K!Ids : saved'[r] # K!Missing => r < sequence
    BY <2>3 DEF BacktestsInv
  <2>7. \A r \in pinned' : r < sequence /\ (K!IsSaved(r)' => saved'[r].keep) /\ (current'.id = r => current'.keep)
    <3> SUFFICES ASSUME NEW r \in pinned'
                 PROVE  r < sequence /\ (K!IsSaved(r)' => saved'[r].keep) /\ (current'.id = r => current'.keep)
      OBVIOUS
    <3>1. CASE r = id
      <4>1. keep = TRUE
        BY <2>1, <3>1
      <4>2. current'.id = r => current'.keep
        BY <2>2, <3>1, <4>1
      <4>3. K!IsSaved(r)' => saved'[r].keep
        BY <2>3, <3>1, <4>1 DEF K!IsSaved
      <4>4. r < sequence
        <5>1. CASE current.id = id
          BY <3>1, <5>1 DEF BacktestsInv
        <5>2. CASE current.id # id
          BY <1>5, <3>1, <5>2 DEF K!Put, K!PutSaved, BacktestsInv, K!IsSaved
        <5> QED BY <5>1, <5>2
      <4> QED BY <4>2, <4>3, <4>4
    <3>2. CASE r # id
      <4>1. r \in pinned /\ r \in K!Ids /\ saved'[r] = saved[r]
        BY <2>1, <2>3, <3>2 DEF BacktestsInv
      <4>2. r < sequence /\ (K!IsSaved(r) => saved[r].keep) /\ (current.id = r => current.keep)
        BY <4>1 DEF BacktestsInv
      <4>3. K!IsSaved(r)' => saved'[r].keep
        BY <4>1, <4>2 DEF K!IsSaved
      <4>4. current'.id = r => current'.keep
        BY <2>2, <3>2, <4>2
      <4> QED BY <4>2, <4>3, <4>4
    <3> QED BY <3>1, <3>2
  <2>8. current'.status = "completed" => current'.id # 0 /\ saved'[current'.id].status \in {"completed", "bare"}
    <3> SUFFICES ASSUME current.status = "completed" PROVE current.id # 0 /\ saved'[current.id].status \in {"completed", "bare"}
      BY <2>2
    <3>1. current.id \in K!Ids /\ saved[current.id].status \in {"completed", "bare"}
      BY DEF BacktestsInv
    <3> QED BY <2>3, <3>1
  <2> HIDE DEF K!Ids
  <2> QED BY <2>1, <2>2, <2>3, <2>4, <2>5, <2>6, <2>7, <2>8 DEF BacktestsInv
(* What the worker writes: the directory of the run in memory, which is not complete yet. *)
<1>6. ASSUME running, NEW v, saved' = [saved EXCEPT ![current.id] = v], v = K!Bare \/ (v.status = current.status /\ v.keep = current.keep),
             v = K!Bare => saved[current.id] = K!Missing, job' # "none" => running',
             UNCHANGED <<sequence, current, pinned, held, started, reused, running>>
      PROVE  BacktestsInv'
  <2>1. current.id \in K!Ids /\ current.status \in {"running", "cancelling"}
    BY <1>6 DEF BacktestsInv
  <2>2. /\ saved' = [r \in K!Ids |-> saved'[r]] /\ saved'[current.id] = v
        /\ \A r \in K!Ids : r # current.id => saved'[r] = saved[r]
    BY <1>6, <2>1 DEF BacktestsInv
  <2>3. \A r \in K!Ids : saved'[r] # K!Missing => r < sequence
    BY <2>2 DEF BacktestsInv
  <2>4. \A r \in held : K!IsSaved(r)'
    <3>1. v # K!Bare => v \notin {K!Missing, K!Bare}
      BY <1>6, <2>1 DEF K!Missing, K!Bare
    <3>2. current.id \in held => v # K!Bare
      BY <1>6 DEF BacktestsInv, K!IsSaved
    <3> QED BY <2>1, <2>2, <3>1, <3>2 DEF BacktestsInv, K!IsSaved
  <2>5. \A r \in pinned : K!IsSaved(r)' => saved'[r].keep
    <3> SUFFICES ASSUME NEW r \in pinned, K!IsSaved(r)' PROVE saved'[r].keep
      OBVIOUS
    <3>1. r \in K!Ids /\ (K!IsSaved(r) => saved[r].keep) /\ (current.id = r => current.keep)
      BY DEF BacktestsInv
    <3>2. CASE r = current.id
      <4>1. v # K!Bare /\ saved'[r] = v
        BY <2>2, <3>2 DEF K!IsSaved
      <4> QED BY <1>6, <3>1, <3>2, <4>1
    <3>3. CASE r # current.id
      <4>1. saved'[r] = saved[r]
        BY <2>2, <3>1, <3>3
      <4> QED BY <3>1, <4>1 DEF K!IsSaved
    <3> QED BY <3>2, <3>3
  <2> HIDE DEF K!Ids
  <2> QED BY <1>6, <2>1, <2>2, <2>3, <2>4, <2>5 DEF BacktestsInv
<1>7. ASSUME UNCHANGED <<sequence, saved, current, running, pinned, held, started, reused>>, job' # "none" => running
      PROVE  BacktestsInv'
  BY <1>7 DEF BacktestsInv, K!IsSaved
<1>8. ASSUME UNCHANGED <<sequence, saved, pinned, held, started, reused>>, K!Down PROVE BacktestsInv'
  <2>1. current' = K!NoRun /\ current'.id = 0 /\ current'.status = "none" /\ ~running' /\ job' = "none"
    BY <1>8 DEF K!Down, K!NoRun
  <2>2. current' = [id |-> current'.id, status |-> current'.status, keep |-> current'.keep]
    BY <2>1 DEF K!NoRun
  <2>3. \A id \in pinned : id < sequence /\ (K!IsSaved(id)' => saved'[id].keep) /\ (current'.id = id => current'.keep)
    BY <1>8, <2>1 DEF BacktestsInv, K!IsSaved
  <2> HIDE DEF K!Ids
  <2> QED BY <1>8, <2>1, <2>2, <2>3 DEF BacktestsInv, K!IsSaved
<1>9. CASE K!MakeDirectory
  <2>1. running /\ UNCHANGED <<sequence, current, running, pinned, held, started, reused>>
    BY <1>9 DEF K!MakeDirectory, K!WorkerSame, BacktestsInv
  <2>2. CASE saved[current.id] = K!Missing /\ saved' = [saved EXCEPT ![current.id] = K!Bare]
    <3>1. saved[current.id] = K!Missing /\ saved' = [saved EXCEPT ![current.id] = K!Bare] /\ running' = running
      BY <2>1, <2>2
    <3> DEFINE v == K!Bare
    <3>2. saved' = [saved EXCEPT ![current.id] = v] /\ v = K!Bare
      BY <3>1
    <3>3. v = K!Bare => saved[current.id] = K!Missing
      BY <3>1
    <3>4. job' # "none" => running'
      BY <2>1, <3>1
    <3>5. v = K!Bare \/ (v.status = current.status /\ v.keep = current.keep)
      BY <3>2
    <3> HIDE DEF v
    <3> QED BY <1>6, <2>1, <3>2, <3>3, <3>4, <3>5
  <2>3. CASE UNCHANGED saved
    BY <1>7, <2>1, <2>3
  <2> QED BY <1>9, <2>2, <2>3 DEF K!MakeDirectory
<1>10. CASE K!Progress
  <2>1. running /\ UNCHANGED <<sequence, current, running, pinned, held, started, reused>>
    BY <1>10 DEF K!Progress, K!WorkerSame, BacktestsInv
  <2>2. CASE K!Write(current.id)
    <3> DEFINE v == [status |-> current.status, keep |-> current.keep]
    <3>1. saved' = [saved EXCEPT ![current.id] = v] /\ v.status = current.status /\ v.keep = current.keep
      BY <2>2 DEF K!Write
    <3>2. v # K!Bare
      BY <3>1 DEF BacktestsInv, K!Bare
    <3> HIDE DEF v
    <3> QED BY <1>6, <2>1, <3>1, <3>2
  <2>3. CASE UNCHANGED saved
    BY <1>7, <2>1, <2>3
  <2> QED BY <1>10, <2>2, <2>3 DEF K!Progress
<1>11. CASE K!Compute
  <2>1. running /\ UNCHANGED <<sequence, saved, current, running, pinned, held, started, reused>>
    BY <1>11 DEF K!Compute, K!WorkerSame, BacktestsInv
  <2> QED BY <1>7, <2>1
<1>12. CASE K!Finish
  <2>1. /\ running /\ current.id \in K!Ids /\ job \in K!FinishedStatus /\ ~running' /\ job' = "none"
        /\ UNCHANGED <<sequence, pinned, held, started, reused>>
    BY <1>12 DEF K!Finish, K!WorkerSame, BacktestsInv, K!FinishedStatus
  <2>2. job # "missing" /\ job # "bare"
    BY <2>1 DEF K!FinishedStatus
  <2>3. CASE /\ saved[current.id] # K!Missing /\ current' = [current EXCEPT !.status = job]
             /\ saved' = [saved EXCEPT ![current.id] = [status |-> job, keep |-> current.keep]]
    <3> DEFINE v == [status |-> job, keep |-> current.keep]
    <3>1. v \notin {K!Missing, K!Bare} /\ v.keep = current.keep /\ v.status = job
      BY <2>2 DEF K!Missing, K!Bare
    <3>2. saved' = [saved EXCEPT ![current.id] = v]
      BY <2>3
    <3> HIDE DEF v
    <3>3. /\ saved' = [r \in K!Ids |-> saved'[r]] /\ saved'[current.id] = v
          /\ \A r \in K!Ids : r # current.id => saved'[r] = saved[r]
      BY <2>1, <3>2 DEF BacktestsInv
    <3>4. /\ current'.id = current.id /\ current'.status = job /\ current'.keep = current.keep
          /\ current' = [id |-> current'.id, status |-> current'.status, keep |-> current'.keep]
      BY <2>3 DEF BacktestsInv
    <3>5. \A r \in K!Ids : saved'[r] # K!Missing => r < sequence
      BY <3>3 DEF BacktestsInv
    <3>6. \A r \in held : K!IsSaved(r)'
      BY <2>1, <3>1, <3>3 DEF BacktestsInv, K!IsSaved
    <3>7. \A r \in pinned : K!IsSaved(r)' => saved'[r].keep
      <4> SUFFICES ASSUME NEW r \in pinned, K!IsSaved(r)' PROVE saved'[r].keep
        OBVIOUS
      <4>1. r \in K!Ids /\ (K!IsSaved(r) => saved[r].keep) /\ (current.id = r => current.keep)
        BY DEF BacktestsInv
      <4>2. CASE r = current.id
        BY <3>1, <3>3, <4>1, <4>2
      <4>3. CASE r # current.id
        <5>1. saved'[r] = saved[r]
          BY <3>3, <4>1, <4>3
        <5> QED BY <4>1, <5>1 DEF K!IsSaved
      <4> QED BY <4>2, <4>3
    <3>8. current'.status = "completed" => current'.id # 0 /\ saved'[current'.id].status \in {"completed", "bare"}
      BY <2>1, <3>1, <3>3, <3>4
    <3>9. \A r \in pinned : r < sequence /\ (current'.id = r => current'.keep)
      BY <3>4 DEF BacktestsInv
    <3> HIDE DEF K!Ids
    <3> QED BY <2>1, <2>2, <3>3, <3>4, <3>5, <3>6, <3>7, <3>8, <3>9 DEF BacktestsInv
  <2>4. CASE UNCHANGED saved /\ current' = [[current EXCEPT !.status = job] EXCEPT !.status = "failed"]
    <3>1. /\ current'.id = current.id /\ current'.status = "failed" /\ current'.keep = current.keep
          /\ current' = [id |-> current'.id, status |-> current'.status, keep |-> current'.keep]
      BY <2>4 DEF BacktestsInv
    <3>2. \A r \in pinned : r < sequence /\ (K!IsSaved(r)' => saved'[r].keep) /\ (current'.id = r => current'.keep)
      BY <2>4, <3>1 DEF BacktestsInv, K!IsSaved
    <3>3. \A r \in held : K!IsSaved(r)'
      BY <2>4 DEF BacktestsInv, K!IsSaved
    <3> HIDE DEF K!Ids
    <3> QED BY <2>1, <2>4, <3>1, <3>2, <3>3 DEF BacktestsInv
  <2> QED BY <1>12, <2>3, <2>4 DEF K!Finish
<1>13. CASE K!Crash
  BY <1>8, <1>13 DEF K!Crash
<1>14. CASE K!Leave
  BY <1>7, <1>14 DEF K!Leave, BacktestsInv
<1>15. CASE K!Left
  BY <1>8, <1>15 DEF K!Left
<1>16. CASE K!Restart
  BY <1>7, <1>16 DEF K!Restart, BacktestsInv
<1>17. CASE UNCHANGED backtestVars
  BY <1>7, <1>17 DEF backtestVars, BacktestsInv
<1> QED BY <1>1, <1>2, <1>3, <1>4, <1>5, <1>9, <1>10, <1>11, <1>12, <1>13, <1>14, <1>15, <1>16, <1>17 DEF K!Next

(* The invariant is stronger than what the backtest host promises. *)
LEMMA BacktestsSafe == BacktestsInv => SavedRunsStand
BY DEF BacktestsInv, SavedRunsStand, K!SavedRunsStand

(* In every behaviour of the backtest host, for any number of runs kept, crashes and
   failures: a saved run whose pin was answered is kept, one that is held is saved, the run
   shown as completed is saved as completed, and no number is given twice
   (src/src/server/backtest_host.cpp). *)
THEOREM SavedRunsAlwaysStand == BacktestsSpec => []SavedRunsStand
<1>1. BacktestsSpec => []BacktestsInv
  BY BacktestsInitial, BacktestsStep, PTL DEF BacktestsSpec
<1> QED BY <1>1, BacktestsSafe, PTL
===============================================================================
