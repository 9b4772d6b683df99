------------------------------ MODULE ReplayHost ------------------------------
(***************************************************************************)
(* The host of replay runs (server/replay_host.cpp): one session at a time *)
(* plays a recording into an engine of its own, whose journal, metadata    *)
(* and sidecars make the run's entry in the history.  Requests that change *)
(* something run one after the other on the control thread; starting,      *)
(* resuming and retiring hold handoff_mutex_, so that of other threads     *)
(* only the engines, the verifier and a crash come between their steps.    *)
(*                                                                         *)
(* A journal is the number of its transactions; what a sidecar holds is    *)
(* the number of transactions it reflects.                                 *)
(***************************************************************************)
EXTENDS Integers

CONSTANTS
  Runs,         \* the runs, numbered in the order they are created
  MaxLength,    \* bound: transactions of a journal
  MaxCrashes    \* bound: crashes and shutdowns

VARIABLES
  journals,     \* per run: its journal's length, Absent without one
  metadata,     \* per run: its .json, NoMeta without one
  sidecars,     \* per run: the equity history and the playbooks
  asides,       \* per run: the same under .resuming
  session,      \* session_: the run that plays, None without one
  playback,     \* its provider: "playing", "ended"
  finalized,    \* its finalized flag
  view,         \* the journal length its engine's published view shows
  commands,     \* commands for its engine, by how far they are: "gated", "posted"
  restarting,   \* its restarting flag
  stage,        \* what the control thread is in the middle of, under handoff_mutex_
  subject,      \* the run being started, resumed, retired or removed
  verifying,    \* the run being verified, None without one
  created,      \* history: run numbers used
  over,         \* history: runs that played to their end, or were stopped or replaced
  crashes

files == <<journals, metadata, sidecars, asides>>
player == <<session, playback, finalized, view, commands, restarting>>
thread == <<stage, subject>>
history == <<created, over, crashes>>
vars == <<files, player, thread, verifying, history>>

-----------------------------------------------------------------------------
Absent == -1
None == 0
Quiet == [gated |-> 0, posted |-> 0]
NoMeta == [there |-> FALSE, finished |-> FALSE, head |-> Absent, bytes |-> Absent]
Playing == [there |-> TRUE, finished |-> FALSE, head |-> Absent, bytes |-> Absent]

\* Nothing plays, nothing is under way.
NoPlayer ==
  /\ session' = None /\ playback' = "ended" /\ finalized' = FALSE
  /\ view' = Absent /\ commands' = Quiet /\ restarting' = FALSE

Init ==
  /\ journals = [r \in Runs |-> Absent] /\ metadata = [r \in Runs |-> NoMeta]
  /\ sidecars = [r \in Runs |-> Absent] /\ asides = [r \in Runs |-> Absent]
  /\ session = None /\ playback = "ended" /\ finalized = FALSE
  /\ view = Absent /\ commands = Quiet /\ restarting = FALSE
  /\ stage = "idle" /\ subject = None
  /\ verifying = None
  /\ created = {} /\ over = {} /\ crashes = 0

-----------------------------------------------------------------------------
(* The run that plays *)

Grow(r) == journals' = [journals EXCEPT ![r] = @ + 1]

\* A batch: the driver waits until the desk has journaled and published it.
Batch ==
  /\ session # None /\ playback = "playing" /\ ~restarting
  /\ journals[session] < MaxLength /\ view = journals[session]
  /\ Grow(session) /\ view' = journals[session] + 1
  /\ sidecars' = [sidecars EXCEPT ![session] = journals[session] + 1]
  /\ UNCHANGED <<metadata, asides, session, playback, finalized, commands, restarting, thread, verifying, history>>

\* handle() lets a command through while the run plays.
Gate ==
  /\ session # None /\ playback = "playing" /\ ~restarting
  /\ commands = Quiet
  /\ commands' = [commands EXCEPT !.gated = 1]
  /\ UNCHANGED <<files, session, playback, finalized, view, restarting, thread, verifying, history>>

\* The same request then posts it to the engine: nothing looks whether the run has ended since.
Post ==
  /\ session # None /\ commands.gated = 1
  /\ commands' = [gated |-> 0, posted |-> 1]
  /\ UNCHANGED <<files, session, playback, finalized, view, restarting, thread, verifying, history>>

\* The engine thread journals it, and publishes afterwards.
Execute ==
  /\ session # None /\ commands.posted = 1
  /\ journals[session] < MaxLength /\ view = journals[session]
  /\ Grow(session) /\ commands' = Quiet
  /\ UNCHANGED <<metadata, sidecars, asides, session, playback, finalized, view, restarting, thread, verifying, history>>

Publish ==
  /\ session # None /\ view # journals[session]
  /\ view' = journals[session]
  /\ sidecars' = [sidecars EXCEPT ![session] = journals[session]]
  /\ UNCHANGED <<journals, metadata, asides, session, playback, finalized, commands, restarting, thread, verifying, history>>

\* The recording ends: the provider's last barrier settles what was posted, then finished() reads true.
Ends ==
  /\ session # None /\ playback = "playing" /\ ~restarting
  /\ commands.posted = 0 /\ view = journals[session]
  /\ playback' = "ended" /\ over' = over \cup {session}
  /\ UNCHANGED <<files, session, finalized, view, commands, restarting, thread, verifying, created, crashes>>

-----------------------------------------------------------------------------
(* Metadata *)

\* finish(): a run whose provider has finished gets its final checkpoint, once.
Finished(head, bytes) == [there |-> TRUE, finished |-> TRUE, head |-> head, bytes |-> bytes]

\* The idle poll of work(), the listing and the reads of history(): an ended session is finished.
Finish ==
  /\ stage = "idle" /\ session # None /\ playback = "ended" /\ ~finalized
  /\ metadata' = [metadata EXCEPT ![session] = Finished(view, journals[session])]
  /\ finalized' = TRUE
  /\ UNCHANGED <<journals, sidecars, asides, session, playback, view, commands, restarting, thread, verifying, history>>

-----------------------------------------------------------------------------
(* Starting and restarting *)

\* An id holds the time and a count: each is used once.
Fresh(r) == stage = "idle" /\ r \notin created /\ created' = created \cup {r}

\* POST: the metadata is written before the engine creates the journal.
Start(r) ==
  /\ Fresh(r)
  /\ metadata' = [metadata EXCEPT ![r] = Playing]
  /\ stage' = "starting" /\ subject' = r
  /\ UNCHANGED <<journals, sidecars, asides, player, verifying, over, crashes>>

\* POST {restart}: the source is paused at a settled boundary and the journal's prefix is copied.
Restart(r) ==
  /\ session # None /\ playback = "playing"
  /\ commands.posted = 0 /\ view = journals[session]
  /\ Fresh(r)
  /\ restarting' = TRUE
  /\ metadata' = [metadata EXCEPT ![r] = Playing]
  /\ journals' = [journals EXCEPT ![r] = journals[session]]
  /\ stage' = "starting" /\ subject' = r
  /\ UNCHANGED <<sidecars, asides, session, playback, finalized, view, commands, verifying, over, crashes>>

\* discard(): a run that could not start leaves no entry; the source of a restart plays on.
StartFails ==
  /\ stage = "starting"
  /\ journals' = [journals EXCEPT ![subject] = Absent] /\ metadata' = [metadata EXCEPT ![subject] = NoMeta]
  /\ sidecars' = [sidecars EXCEPT ![subject] = Absent]
  /\ restarting' = FALSE /\ stage' = "idle" /\ subject' = None
  /\ UNCHANGED <<asides, session, playback, finalized, view, commands, verifying, history>>

\* Its engine has written the first record, or matched the copied ones.
EngineReady(r) ==
  /\ journals' = [journals EXCEPT ![r] = IF @ = Absent THEN 1 ELSE @]
  /\ sidecars' = [sidecars EXCEPT ![r] = IF journals[r] = Absent THEN 1 ELSE journals[r]]

\* The old session's engine is stopped and its last state is in the journal; then finish() ends it.
Replaced(meta, old) ==
  IF old = None \/ finalized THEN meta
  ELSE [meta EXCEPT ![old] = Finished(journals[old], journals[old])]

Started ==
  /\ stage = "starting"
  /\ EngineReady(subject)
  /\ metadata' = Replaced(metadata, session)
  /\ over' = IF session = None THEN over ELSE over \cup {session}
  /\ session' = subject /\ playback' = "playing" /\ finalized' = FALSE
  /\ view' = journals'[subject] /\ commands' = Quiet /\ restarting' = FALSE
  /\ stage' = "idle" /\ subject' = None
  /\ UNCHANGED <<asides, verifying, created, crashes>>

-----------------------------------------------------------------------------
(* Resuming *)

MayResume(r) == verifying # r

\* POST {resume}: what the resumed run rebuilds is set aside.
Resume(r) ==
  /\ stage = "idle" /\ session # r
  /\ journals[r] # Absent /\ metadata[r].there /\ ~metadata[r].finished
  /\ MayResume(r)
  /\ asides' = [asides EXCEPT ![r] = sidecars[r]]
  /\ sidecars' = [sidecars EXCEPT ![r] = Absent]
  /\ stage' = "resuming" /\ subject' = r
  /\ UNCHANGED <<journals, metadata, player, verifying, created, over, crashes>>

\* The new engine re-executes the journal and writes its sidecars again.
Rebuild ==
  /\ stage = "resuming" /\ sidecars[subject] < journals[subject]
  /\ sidecars' = [sidecars EXCEPT ![subject] = IF @ = Absent THEN 1 ELSE @ + 1]
  /\ UNCHANGED <<journals, metadata, asides, player, thread, verifying, history>>

\* restore(): put back what was set aside, or remove what the failed run wrote.
Restored(r) == asides[r]

\* A record does not match: the engine is stopped, the sidecars are put back, nothing was appended.
Mismatch ==
  /\ stage = "resuming"
  /\ sidecars' = [sidecars EXCEPT ![subject] = Restored(subject)]
  /\ asides' = [asides EXCEPT ![subject] = Absent]
  /\ stage' = "idle" /\ subject' = None
  /\ UNCHANGED <<journals, metadata, player, verifying, history>>

\* Every record matched: the set-aside files are dropped, the session is swapped, the old one
\* is retired and the new one's metadata read as playing again.
Resumed ==
  /\ stage = "resuming" /\ sidecars[subject] = journals[subject]
  /\ asides' = [asides EXCEPT ![subject] = Absent]
  /\ metadata' = [Replaced(metadata, session) EXCEPT ![subject] = Playing]
  /\ over' = IF session = None THEN over ELSE over \cup {session}
  /\ session' = subject /\ playback' = "playing" /\ finalized' = FALSE
  /\ view' = journals[subject] /\ commands' = Quiet /\ restarting' = FALSE
  /\ stage' = "idle" /\ subject' = None
  /\ UNCHANGED <<journals, sidecars, verifying, created, crashes>>

-----------------------------------------------------------------------------
(* Stopping, deleting, verifying *)

\* DELETE /api/replay: stop_session takes the session, stops its engine and finishes it.
StopSession ==
  /\ stage = "idle" /\ session # None
  /\ metadata' = Replaced(metadata, session)
  /\ over' = over \cup {session}
  /\ NoPlayer
  /\ UNCHANGED <<journals, sidecars, asides, thread, verifying, created, crashes>>

MayRemove(r) == verifying # r

\* DELETE of a saved run; one that has just ended is stopped first.
Delete(r) ==
  /\ stage = "idle" /\ journals[r] # Absent
  /\ session # r \/ playback = "ended"
  /\ IF session = r THEN NoPlayer ELSE UNCHANGED player
  /\ metadata' = IF session = r THEN Replaced(metadata, r) ELSE metadata
  /\ IF MayRemove(r) THEN stage' = "removing" /\ subject' = r ELSE UNCHANGED thread
  /\ UNCHANGED <<journals, sidecars, asides, verifying, history>>

\* The journal goes first: without it the run has no entry.
RemoveJournal ==
  /\ stage = "removing" /\ journals[subject] # Absent
  /\ journals' = [journals EXCEPT ![subject] = Absent]
  /\ UNCHANGED <<metadata, sidecars, asides, player, thread, verifying, history>>

RemoveRest ==
  /\ stage = "removing" /\ journals[subject] = Absent
  /\ metadata' = [metadata EXCEPT ![subject] = NoMeta]
  /\ sidecars' = [sidecars EXCEPT ![subject] = Absent]
  /\ stage' = "idle" /\ subject' = None
  /\ UNCHANGED <<journals, asides, player, verifying, history>>

\* POST verify: an ended current run is finished first, then its journal is read.
Verify(r) ==
  /\ stage = "idle" /\ verifying = None
  /\ journals[r] # Absent /\ (session # r \/ playback = "ended")
  /\ IF session = r /\ ~finalized
       THEN metadata' = [metadata EXCEPT ![r] = Finished(view, journals[r])] /\ finalized' = TRUE
       ELSE UNCHANGED <<metadata, finalized>>
  /\ verifying' = r
  /\ UNCHANGED <<journals, sidecars, asides, session, playback, view, commands, restarting, thread, history>>

\* end_verification and abandon_verification, under handoff_mutex_.
VerifyEnds ==
  /\ stage = "idle" /\ verifying # None
  /\ verifying' = None
  /\ UNCHANGED <<files, player, thread, history>>

-----------------------------------------------------------------------------
(* Shutdown and crash *)

\* Mutation: whether playback had ended is asked after the provider was stopped.
EndedBeforeAsksLate == TRUE

\* stop_session(shutdown): stopping the provider also sets finished(), so it is asked before.
EndedBefore == playback = "ended"

\* Memory is gone; the files stay as they are.
Reset ==
  /\ crashes < MaxCrashes /\ crashes' = crashes + 1
  /\ NoPlayer
  /\ stage' = "idle" /\ subject' = None
  /\ verifying' = None
  /\ UNCHANGED <<journals, sidecars, asides, created, over>>

\* stop(): jobs are refused, the verifier is cancelled, an interrupted run is left as it is.
Shutdown ==
  /\ stage = "idle"
  /\ metadata' = IF session # None /\ EndedBefore THEN Replaced(metadata, session) ELSE metadata
  /\ Reset

\* A crash in the middle of a start may leave metadata without a journal, which lists nothing.
Crash == Reset /\ UNCHANGED metadata

Next ==
  \/ Batch \/ Gate \/ Post \/ Execute \/ Publish \/ Ends \/ Finish
  \/ \E r \in Runs : Start(r) \/ Restart(r) \/ Resume(r) \/ Delete(r) \/ Verify(r)
  \/ StartFails \/ Started \/ Rebuild \/ Mismatch \/ Resumed
  \/ StopSession \/ RemoveJournal \/ RemoveRest \/ VerifyEnds
  \/ Shutdown \/ Crash
Spec == Init /\ [][Next]_vars

-----------------------------------------------------------------------------
(* A run that neither played to its end nor was stopped, replaced or deleted can be
   resumed after any shutdown and any crash: its metadata is there and does not read as
   finished (list(): "A run interrupted by shutdown or a crash ... can continue"). *)
InterruptedCanResume ==
  \A r \in Runs \ over : journals[r] # Absent => metadata[r].there /\ ~metadata[r].finished

=============================================================================
