-------------------------------- MODULE Desk --------------------------------
(***************************************************************************)
(* The desk's account book and the files behind it (src/server/desk.cpp):  *)
(* named accounts are created, archived and deleted by commands on the     *)
(* engine thread, and start_trading finds them again.  Every command is a  *)
(* sequence of file operations; the process may stop, and the machine lose *)
(* power, between any two, and any of them may fail.                       *)
(*                                                                         *)
(* `disk` is what the process sees of accounts/, `stable` what the last    *)
(* directory syncs made safe: after a power loss each entry is either.     *)
(*   loc      the account's journal: absent, without a record, with its    *)
(*            records, or moved into deleted/<id>                          *)
(*   flag     the text of <id>.archived                                    *)
(*   tomb     whether the directory deleted/<id> exists                    *)
(***************************************************************************)
EXTENDS Naturals, FiniteSets

CONSTANTS N,          \* the ids one name can take: id, id-2, ..., id-N
          MaxCrashes, \* bound: restarts explored
          MaxFails    \* bound: file operations that fail

Ids == 1..N

VARIABLES
  disk, stable,   \* [Ids -> [loc, flag, tomb]]
  accounts,       \* [Ids -> "none", "active" or "archived"], in memory
  unopened,       \* the accounts whose journal could not be opened: kept without a session
  op,             \* the running command or start, with the step it is at
  answered,       \* history: ids whose creation was answered and no later deletion tried
  setting,        \* history: the archive flag last answered; "any" after a refused change
  released,       \* history: ids whose deletion let the account go
  refused,        \* history: ids whose deletion was refused with the account kept
  crashes, fails

vars == <<disk, stable, accounts, unopened, op, answered, setting, released, refused, crashes, fails>>
history == <<answered, setting, released, refused>>

None == "none"
Blank == [loc |-> "none", flag |-> "active", tomb |-> FALSE]
Idle == [kind |-> "idle", id |-> 1, step |-> "none"]
Down == [kind |-> "down", id |-> 1, step |-> "none"]
At(kind, step) == op.kind = kind /\ op.step = step
To(step) == op' = [op EXCEPT !.step = step]

(* One file operation fails: the command goes to its error path. *)
Fails == fails < MaxFails /\ fails' = fails + 1

(* fsync of a directory: the entries of `part` are as safe as they are seen. *)
Synced(part) == [i \in Ids |-> IF part = "tombs" THEN [stable[i] EXCEPT !.tomb = disk[i].tomb]
                               ELSE [disk[i] EXCEPT !.tomb = stable[i].tomb]]

----------------------------------------------------------------------------
(* Creating an account *)

(* The id of a new account: the first one free in memory, never deleted and without a journal. *)
FreeId(i) == accounts[i] = None /\ ~disk[i].tomb /\ disk[i].loc = "none"

Create == \E i \in Ids :
  /\ op = Idle /\ FreeId(i) /\ \A j \in 1..(i - 1) : ~FreeId(j)
  /\ op' = [kind |-> "create", id |-> i, step |-> "file"]
  /\ UNCHANGED <<unopened, disk, stable, accounts, history, crashes, fails>>

(* discard: the journal and the name are removed if this command made them;
   the directory is not synced. *)
Discard == op' = Idle /\ disk' = [disk EXCEPT ![op.id].loc = "none"]

(* open_journal: create the file ... *)
CreateFile ==
  /\ At("create", "file")
  /\ \/ disk' = [disk EXCEPT ![op.id].loc = "empty"] /\ To("sync") /\ UNCHANGED fails
     \/ Fails /\ op' = Idle /\ UNCHANGED disk
  /\ UNCHANGED <<unopened, stable, accounts, answered, setting, released, refused, crashes>>
(* ... and sync its directory.  When that fails the command has no journal to discard. *)
CreateSync ==
  /\ At("create", "sync")
  /\ \/ stable' = Synced("files") /\ To("name") /\ UNCHANGED fails
     \/ Fails /\ op' = Idle /\ UNCHANGED stable
  /\ UNCHANGED <<unopened, disk, accounts, answered, setting, released, refused, crashes>>

(* save_account_file of the name; it too syncs the directory. *)
CreateName ==
  /\ At("create", "name")
  /\ \/ stable' = Synced("files") /\ To("record") /\ UNCHANGED <<disk, fails>>
     \/ Fails /\ Discard /\ UNCHANGED stable
  /\ UNCHANGED <<unopened, accounts, answered, setting, released, refused, crashes>>

(* The session's first record, then the equity store: a failure after the record discards both. *)
CreateRecord ==
  /\ At("create", "record")
  /\ \/ /\ disk' = [disk EXCEPT ![op.id].loc = "records"]
        /\ stable' = [stable EXCEPT ![op.id].loc = IF @ = "empty" THEN "records" ELSE @]
        /\ To("equity") /\ UNCHANGED fails
     \/ Fails /\ Discard /\ UNCHANGED stable
  /\ UNCHANGED <<unopened, accounts, answered, setting, released, refused, crashes>>
CreateEquity ==
  /\ At("create", "equity")
  /\ \/ /\ accounts' = [accounts EXCEPT ![op.id] = "active"]
        /\ answered' = answered \cup {op.id} /\ setting' = [setting EXCEPT ![op.id] = "active"]
        /\ op' = Idle /\ UNCHANGED <<disk, fails>>
     \/ Fails /\ Discard /\ UNCHANGED <<accounts, answered, setting>>
  /\ UNCHANGED <<unopened, stable, released, refused, crashes>>

----------------------------------------------------------------------------
(* Archiving: the flag's file is replaced and synced before the memory follows. *)

Archive == \E i \in Ids, flag \in {"active", "archived"} :
  /\ op = Idle /\ accounts[i] # None /\ accounts[i] # flag
  /\ op' = [kind |-> flag, id |-> i, step |-> "rename"]
  /\ UNCHANGED <<unopened, disk, stable, accounts, history, crashes, fails>>
RefuseSetting == op' = Idle /\ setting' = [setting EXCEPT ![op.id] = "any"]
ArchiveRename ==
  /\ op.step = "rename" /\ op.kind \in {"active", "archived"}
  /\ \/ disk' = [disk EXCEPT ![op.id].flag = op.kind] /\ To("sync") /\ UNCHANGED <<setting, fails>>
     \/ Fails /\ RefuseSetting /\ UNCHANGED disk
  /\ UNCHANGED <<unopened, stable, accounts, answered, released, refused, crashes>>

ArchiveSync ==
  /\ op.step = "sync" /\ op.kind \in {"active", "archived"}
  /\ \/ /\ stable' = Synced("files")
        /\ accounts' = [accounts EXCEPT ![op.id] = op.kind]
        /\ setting' = [setting EXCEPT ![op.id] = op.kind] /\ op' = Idle /\ UNCHANGED fails
     \/ Fails /\ RefuseSetting /\ UNCHANGED <<stable, accounts>>
  /\ UNCHANGED <<unopened, disk, answered, released, refused, crashes>>

----------------------------------------------------------------------------
(* Deleting *)

(* An account that is archived, or open and with nothing held or working. *)
Delete == \E i \in Ids :
  /\ op = Idle /\ accounts[i] # None /\ (accounts[i] = "archived" \/ i \notin unopened)
  /\ op' = [kind |-> "delete", id |-> i, step |-> "tomb"]
  /\ answered' = answered \ {i}
  /\ UNCHANGED <<unopened, disk, stable, accounts, setting, released, refused, crashes, fails>>

RefuseDelete == op' = Idle /\ refused' = refused \cup {op.id}
(* The destination directory is the tombstone ... *)
DeleteTomb ==
  /\ At("delete", "tomb")
  /\ \/ disk' = [disk EXCEPT ![op.id].tomb = TRUE] /\ To("sync") /\ UNCHANGED <<refused, fails>>
     \/ Fails /\ RefuseDelete /\ UNCHANGED disk
  /\ UNCHANGED <<unopened, stable, accounts, answered, setting, released, crashes>>
\* Mutation: the account is let go before the tombstone is safe.
DeleteSyncSkips ==
  /\ At("delete", "sync") /\ To("move")
  /\ accounts' = [accounts EXCEPT ![op.id] = None] /\ released' = released \cup {op.id}
  /\ UNCHANGED <<unopened, disk, stable, answered, setting, refused, crashes, fails>>

(* ... and the three directories are synced before anything is let go. *)
DeleteSync ==
  /\ At("delete", "sync")
  /\ \/ /\ stable' = disk /\ To("move")
        /\ accounts' = [accounts EXCEPT ![op.id] = None]
        /\ released' = released \cup {op.id} /\ UNCHANGED <<refused, fails>>
     \/ Fails /\ RefuseDelete /\ UNCHANGED <<stable, accounts, released>>
  /\ UNCHANGED <<unopened, disk, answered, setting, crashes>>

(* retain_deleted_files: every file of the id is renamed into the tombstone. *)
Moved(i) == [disk EXCEPT ![i].loc = IF @ \in {"empty", "records"} THEN "moved" ELSE @, ![i].flag = "active"]
(* The account is gone whatever happens to its files; a failure is only reported. *)
DeleteMove ==
  /\ At("delete", "move") /\ op' = Idle
  /\ \/ disk' = Moved(op.id) /\ stable' = [stable EXCEPT ![op.id] = disk'[op.id]] /\ UNCHANGED fails
     \/ Fails /\ disk' \in {disk, Moved(op.id)} /\ UNCHANGED stable
  /\ UNCHANGED <<unopened, accounts, history, crashes>>

----------------------------------------------------------------------------
(* Stopping and starting *)

(* The process ends, with the power or without it.  Memory and the running command are lost. *)
Crash(power) ==
  /\ crashes < MaxCrashes /\ op # Down
  /\ \/ ~power /\ UNCHANGED <<disk, stable>>
     \/ /\ power /\ disk' \in [Ids -> [loc : {"none", "empty", "records", "moved"}, flag : {"active", "archived"}, tomb : BOOLEAN]]
        /\ \A i \in Ids : /\ disk'[i].loc \in {disk[i].loc, stable[i].loc}
                          /\ disk'[i].flag \in {disk[i].flag, stable[i].flag}
                          /\ disk'[i].tomb \in {disk[i].tomb, stable[i].tomb}
        /\ stable' = disk'
  /\ crashes' = crashes + 1 /\ op' = Down
  /\ accounts' = [i \in Ids |-> None] /\ unopened' = {}
  \* A command cut off is neither answered nor refused: what it was changing may be either way.
  /\ setting' = IF op.kind \in {"active", "archived"} THEN [setting EXCEPT ![op.id] = "any"] ELSE setting
  /\ UNCHANGED <<answered, released, refused, fails>>
Stops == \E power \in BOOLEAN : Crash(power)

(* start_trading, with the main account open, finishes every interrupted move ... *)
StartMoves ==
  /\ op = Down
  /\ disk' = [i \in Ids |-> IF disk[i].tomb THEN Moved(i)[i] ELSE disk[i]]
  /\ stable' = disk' /\ op' = [kind |-> "start", id |-> 1, step |-> "open"]
  /\ UNCHANGED <<unopened, accounts, history, crashes, fails>>
(* ... which it leaves alone when the main account did not open. *)
StartWithoutMain ==
  /\ op = Down /\ Fails /\ op' = [kind |-> "start", id |-> 1, step |-> "open"]
  /\ UNCHANGED <<unopened, disk, stable, accounts, history, crashes>>

(* The journals it opens: those in accounts/ whose id has no tombstone. *)
Opens(i) == disk[i].loc \in {"empty", "records"} /\ ~disk[i].tomb

(* A journal without a record held no account and is removed; one that cannot be
   opened is kept as an account without a session. *)
StartOpen ==
  /\ At("start", "open") /\ op' = Idle
  /\ \E bad \in SUBSET {i \in Ids : Opens(i) /\ disk[i].loc = "records"} :
       /\ IF bad = {} THEN UNCHANGED fails ELSE Fails
       /\ unopened' = bad
  /\ accounts' = [i \in Ids |-> IF Opens(i) /\ disk[i].loc = "records" THEN disk[i].flag ELSE None]
  /\ disk' = [i \in Ids |-> IF Opens(i) /\ disk[i].loc = "empty" THEN [disk[i] EXCEPT !.loc = "none"] ELSE disk[i]]
  /\ UNCHANGED <<stable, history, crashes>>

Init ==
  /\ disk = [i \in Ids |-> Blank] /\ stable = disk
  /\ accounts = [i \in Ids |-> None] /\ unopened = {} /\ op = Idle
  /\ answered = {} /\ setting = [i \in Ids |-> "any"]
  /\ released = {} /\ refused = {}
  /\ crashes = 0 /\ fails = 0

Next == \/ Create \/ CreateFile \/ CreateSync \/ CreateName \/ CreateRecord \/ CreateEquity
        \/ Archive \/ ArchiveRename \/ ArchiveSync
        \/ Delete \/ DeleteTomb \/ DeleteSync \/ DeleteMove
        \/ Stops \/ StartMoves \/ StartWithoutMain \/ StartOpen

----------------------------------------------------------------------------
(* What was answered holds after any restart.  A deletion that let the account go
   is final: no later start opens its journal and no creation is given its id,
   whatever failed or was lost after the tombstone was synced; and an account whose
   creation was answered is there until its deletion is tried, with the archive
   flag last answered. *)
AnswersOutliveRestarts ==
  /\ \A i \in released : accounts[i] = None /\ (op.kind = "create" => op.id # i)
  /\ op.kind \notin {"down", "start"} => \A i \in answered :
       accounts[i] # None /\ setting[i] \in {"any", accounts[i]}

(* docs/paper-trading.md: the durable directory is the tombstone.  A deletion
   refused because the directory could not be made durable leaves the account,
   so a restart should find it. *)
RefusedDeleteKeeps == op = Idle => \A i \in refused \ released : accounts[i] # None
=============================================================================
