----------------------------- MODULE SessionSave -----------------------------
(***************************************************************************)
(* The drawings an overlay keeps from one run to the next: the event       *)
(* loop's record of what is saved (src/backend/wayland/session.rs), the    *)
(* one save at a time that its persistence worker does                     *)
(* (src/session/snapshot/save.rs), and the choice between the session      *)
(* file, its backup and its recovery copy at the next start (load.rs).     *)
(*                                                                         *)
(* The process can be killed and the power can fail between any two steps  *)
(* of a save, and each step can fail.  A drawing is a number, 0 when the   *)
(* boards hold nothing to persist; a time is the number of the save that   *)
(* wrote the file, as the code only compares the times of files.           *)
(***************************************************************************)
EXTENDS Naturals, Sequences
CONSTANTS
  BackupRetention, \* 0 when the user disabled backups
  MaxStrokes,      \* bound: changes of the canvas or of the tools
  MaxOrders,       \* bound: saves asked for, clears, exits and retried loads
  MaxLosses        \* bound: failed operations, kills and power failures

ASSUME SessionAssumption == {BackupRetention, MaxStrokes, MaxOrders, MaxLosses} \subseteq Nat

VARIABLES
  ssDisk,     \* the session's files and markers
  ssSurvive,  \* the contents of the directory that a power failure may leave
  ssTools,    \* whether the tools are part of a session (restore_tool_state)
  ssBig,      \* drawings that exceed the size limit of a session file
  ssUp,       \* whether the overlay runs
  ssCanvas,   \* what it shows
  ssLoaded,   \* SessionState.loaded
  ssOnDisk,   \* SessionState.loaded_board_data
  ssDirty,    \* SessionState.dirty
  ssFlight,   \* SessionState.in_flight_autosave
  ssWork,     \* the save of the persistence worker
  ssClock,    \* the number of the last save that wrote
  ssNext,     \* the next drawing
  ssStrokes, ssOrders, ssLosses,  \* bounded counters
  ssExpected, \* history: the last drawing saved, and those whose saving began since
  ssMislaid   \* history: since then a blank session replaced one with content unkept

ssFiles == <<ssDisk, ssSurvive>>
ssUser == <<ssTools, ssBig, ssNext, ssStrokes, ssOrders>>
ssLoop == <<ssUp, ssCanvas, ssLoaded, ssOnDisk, ssDirty, ssFlight>>
ssHistory == <<ssExpected, ssMislaid>>
ssVars == <<ssFiles, ssUser, ssLoop, ssWork, ssClock, ssLosses, ssHistory>>

Blank == 0
NoFile == [drawing |-> Blank, at |-> 0]
There(file) == file.at # 0
Artifacts == {"primary", "backup", "recovery"}
Markers == {"backupMark", "recoveryMark", "clearMark"}
EmptyDisk == [n \in Artifacts \cup Markers |-> IF n \in Artifacts THEN NoFile ELSE 0]
NoSave == [step |-> "none", kind |-> "none", drawing |-> Blank, empty |-> FALSE, boundary |-> FALSE,
           had |-> FALSE, todo |-> <<>>]

-----------------------------------------------------------------------------
(* What a start restores from the files it finds. *)

\* clear_marker_suppresses_artifact: what was written before the user cleared stays away.
Suppressed(disk, at) == disk.clearMark # 0 /\ at <= disk.clearMark
Usable(disk, file) == There(file) /\ ~Suppressed(disk, file.at)
Marked(disk, mark) == disk[mark] # 0 /\ ~Suppressed(disk, disk[mark])

\* Mutant: a recovery copy wins over any session file.
PrefersAnyRecovery(disk) == Usable(disk, disk.recovery)

\* should_prefer_recovery
PrefersRecovery(disk) ==
  /\ Usable(disk, disk.recovery)
  /\ There(disk.primary) => disk.recovery.at >= disk.primary.at

\* load_contentful_backup, beside a blank session file or without a usable one.
FromBackup(disk, beside) ==
  IF /\ Usable(disk, disk.backup)
     /\ beside => Marked(disk, "backupMark") \/ disk.backup.at > disk.primary.at
  THEN disk.backup.drawing ELSE Blank

\* load_contentful_recovery
FromRecovery(disk) ==
  IF Marked(disk, "recoveryMark") /\ Usable(disk, disk.recovery) THEN disk.recovery.drawing ELSE Blank

\* load_normal_session_or_empty
FromSession(disk) ==
  CASE ~There(disk.primary) -> FromBackup(disk, FALSE)
    [] There(disk.primary) /\ disk.primary.drawing = Blank ->
         IF Suppressed(disk, disk.primary.at) THEN Blank
         ELSE IF FromBackup(disk, TRUE) # Blank THEN FromBackup(disk, TRUE) ELSE FromRecovery(disk)
    [] OTHER ->
         IF Suppressed(disk, disk.primary.at) THEN FromBackup(disk, FALSE) ELSE disk.primary.drawing

\* load_snapshot_with_expanded_limit_inner
RestoredFrom(disk) == IF PrefersRecovery(disk) THEN disk.recovery.drawing ELSE FromSession(disk)

SessionInit ==
  /\ ssDisk \in {EmptyDisk, [EmptyDisk EXCEPT !.primary = [drawing |-> 1, at |-> 1]]}
  /\ ssSurvive = {ssDisk}
  /\ ssTools \in BOOLEAN /\ ssBig = {}
  /\ ssUp = FALSE /\ ssCanvas = Blank
  /\ ssLoaded = FALSE /\ ssOnDisk = FALSE /\ ssDirty = FALSE /\ ssFlight = FALSE
  /\ ssWork = NoSave /\ ssClock = 1 /\ ssNext = 2
  /\ ssStrokes = 0 /\ ssOrders = 0 /\ ssLosses = 0
  /\ ssExpected = {RestoredFrom(ssDisk)} /\ ssMislaid = FALSE

Loss == ssLosses < MaxLosses /\ ssLosses' = ssLosses + 1
NoLoss == UNCHANGED ssLosses

-----------------------------------------------------------------------------
(* The overlay. *)

\* The loaded session replaces the canvas, and nothing of it is unsaved.
Loads ==
  /\ ssCanvas' = RestoredFrom(ssDisk) /\ ssOnDisk' = (RestoredFrom(ssDisk) # Blank)
  /\ ssLoaded' = TRUE /\ ssDirty' = FALSE /\ NoLoss

\* A load that fails leaves the overlay as it is, to be retried.
LoadFails == UNCHANGED <<ssCanvas, ssOnDisk, ssLoaded, ssDirty>> /\ Loss

Ends == /\ ssUp' = FALSE /\ ssCanvas' = Blank
        /\ ssLoaded' = FALSE /\ ssOnDisk' = FALSE /\ ssDirty' = FALSE /\ ssFlight' = FALSE

SsStart ==
  /\ ~ssUp /\ ssUp' = TRUE
  /\ Loads \/ LoadFails
  /\ UNCHANGED <<ssFiles, ssUser, ssFlight, ssWork, ssClock, ssHistory>>

\* The user draws, erases everything, or changes the tools.  The event loop waits
\* for every save but an autosave.
SsChange ==
  /\ ssUp /\ ssWork.kind \in {"none", "autosave"} /\ ssStrokes < MaxStrokes
  /\ \/ /\ ssCanvas' = ssNext /\ ssNext' = ssNext + 1
        /\ ssBig' \in {ssBig, ssBig \cup {ssNext}}
     \/ ssCanvas' = Blank /\ UNCHANGED <<ssNext, ssBig>>
  /\ ssStrokes' = ssStrokes + 1
  /\ ssDirty' = TRUE
  /\ UNCHANGED <<ssFiles, ssTools, ssOrders, ssUp, ssLoaded, ssOnDisk, ssFlight, ssWork, ssClock,
                 ssLosses, ssHistory>>

\* A save of the given drawing, or of the empty session, is handed to the worker.
\* A blank one is a clear boundary when the last session had content.
SubmitSave(kind, drawing, empty, boundary) ==
  /\ ssUp /\ ~ssFlight /\ ssWork = NoSave
  /\ ssWork' = [NoSave EXCEPT !.step = "prepare", !.kind = kind, !.drawing = drawing,
                              !.empty = empty, !.boundary = (drawing = Blank /\ boundary)]
  /\ ssExpected' = ssExpected \cup {drawing}
  /\ UNCHANGED <<ssFiles, ssClock, ssLosses, ssMislaid, ssUp, ssCanvas, ssLoaded, ssOnDisk,
                 ssTools, ssBig, ssNext, ssStrokes>>

SubmitCanvas(kind) == SubmitSave(kind, ssCanvas, ssCanvas = Blank /\ ~ssTools, ssOnDisk)

\* autosave_if_due
SsAutosave ==
  /\ ssDirty /\ SubmitCanvas("autosave")
  /\ ssFlight' = TRUE /\ ssDirty' = FALSE /\ UNCHANGED ssOrders

Order == /\ ssOrders < MaxOrders /\ ssOrders' = ssOrders + 1
         /\ UNCHANGED <<ssDirty, ssFlight>>

\* should_skip_unloaded_contentless_save
NothingToSave == ssCanvas = Blank /\ ~ssOnDisk /\ ~ssDirty /\ ssDisk # EmptyDisk

\* save_current_before_explicit_target_change, clear_current_session_runtime,
\* persist_final_session, and the save before a load is retried
\* (persist_current_session_for_transition).
SsSaveNow == ssDirty /\ SubmitCanvas("save") /\ Order
SsClear == SubmitSave("clear", Blank, TRUE, TRUE) /\ Order
SsExit == ~NothingToSave /\ SubmitCanvas("exit") /\ Order
SsReload == ~ssLoaded /\ ~NothingToSave /\ SubmitCanvas("reload") /\ Order

\* The last two without a save.
SsWithoutSave ==
  /\ ssUp /\ ~ssFlight /\ ssWork = NoSave /\ NothingToSave
  /\ ssOrders < MaxOrders /\ ssOrders' = ssOrders + 1
  /\ \/ Ends /\ NoLoss
     \/ ~ssLoaded /\ (Loads \/ LoadFails) /\ UNCHANGED <<ssUp, ssFlight>>
  /\ UNCHANGED <<ssFiles, ssTools, ssBig, ssNext, ssStrokes, ssWork, ssClock, ssHistory>>

-----------------------------------------------------------------------------
(* The worker: one save (save_snapshot_inner). *)

\* What changes in the directory may be lost until the directory is synced.
Unsynced(disk) == ssDisk' = disk /\ ssSurvive' = ssSurvive \cup {disk}
Synced(disk) == ssDisk' = disk /\ ssSurvive' = {disk}

\* durable_io::write_atomic: a failure may leave the file in place, unsynced.
WritesDurably(disk) ==
  \/ Synced(disk) /\ NoLoss
  \/ (UNCHANGED ssFiles \/ Unsynced(disk)) /\ Loss
Written == ssLosses' = ssLosses

AtStep(step) == ssWork.step = step /\ UNCHANGED <<ssLoop, ssUser>>
To(step) == ssWork' = [ssWork EXCEPT !.step = step] /\ UNCHANGED ssHistory
\* The steps named in todo come next, and then the given one.
ToDo(step, todo, then) ==
  ssWork' = [ssWork EXCEPT !.step = IF todo = <<>> THEN then ELSE step, !.todo = todo]

\* payload_within_limit and the temporary file.  What is too large fails; it goes
\* to the recovery file first, unless this is an autosave.
SsPrepare ==
  /\ AtStep("prepare")
  /\ \/ /\ ssWork.drawing \notin ssBig /\ NoLoss /\ UNCHANGED <<ssFiles, ssHistory>>
        /\ ssClock' = ssClock + 1
        /\ ssWork' = [ssWork EXCEPT !.had = There(ssDisk.primary),
                                    !.step = IF ssWork.empty \/ ssWork.boundary THEN "clear" ELSE "rotate"]
     \/ /\ ssWork.drawing \in ssBig /\ ssWork.kind # "autosave" /\ To("failed")
        /\ ssClock' = ssClock + 1
        /\ WritesDurably([ssDisk EXCEPT !.recovery = [drawing |-> ssWork.drawing, at |-> ssClock + 1]])
     \/ /\ ssWork.drawing \in ssBig /\ ssWork.kind = "autosave" /\ To("failed")
        /\ NoLoss /\ UNCHANGED <<ssFiles, ssClock>>
     \/ Loss /\ To("failed") /\ UNCHANGED <<ssFiles, ssClock>>

\* write_clear_marker, before anything is replaced or removed.
SsClearMark ==
  /\ AtStep("clear")
  /\ WritesDurably([ssDisk EXCEPT !.clearMark = ssClock])
  /\ CASE ~Written -> To("failed")
       [] Written /\ ssWork.empty ->
            /\ ToDo("tidy", <<"primary", "backup", "backupMark", "recovery", "recoveryMark">>, "saved")
            /\ ssExpected' = {Blank} /\ ssMislaid' = FALSE
       [] OTHER -> To("rotate")
  /\ UNCHANGED ssClock

Contentless == ssWork.drawing = Blank /\ ~ssWork.boundary
KeepsBackup == Contentless /\ There(ssDisk.backup)
KeepsRecovery == Contentless /\ There(ssDisk.recovery) /\ (~ssWork.had \/ ssDisk.recoveryMark # 0)

\* The previous session becomes the backup; a blank one goes when the backup is to
\* be kept, and any goes when there are no backups.  A blank session that is not a
\* clear marks what it leaves behind as recoverable.
SsRotate ==
  LET held == There(ssDisk.primary)
      drops == KeepsBackup /\ ssDisk.backupMark # 0
      rotates == ~drops /\ BackupRetention > 0
      rotated == [ssDisk EXCEPT !.primary = NoFile, !.backup = IF rotates THEN ssDisk.primary ELSE @]
      marksBackup == IF held THEN drops \/ (rotates /\ Contentless) ELSE KeepsBackup
      marks == (IF marksBackup THEN <<"backupMark">> ELSE <<>>)
                 \o (IF KeepsRecovery THEN <<"recoveryMark">> ELSE <<>>)
  IN /\ AtStep("rotate")
     /\ \/ /\ IF held THEN Unsynced(rotated) ELSE UNCHANGED ssFiles
           /\ ToDo("mark", marks, "rename") /\ NoLoss /\ UNCHANGED ssExpected
           /\ ssMislaid' = (ssMislaid \/ (held /\ drops /\ ssDisk.primary.drawing # Blank))
        \/ /\ held /\ Loss /\ UNCHANGED ssFiles
           /\ IF drops \/ rotates THEN To("failed")
              ELSE ToDo("mark", marks, "rename") /\ UNCHANGED ssHistory
     /\ UNCHANGED ssClock

\* write_backup_recovery_marker, write_recovery_recoverable_marker
SsMark ==
  /\ AtStep("mark")
  /\ WritesDurably([ssDisk EXCEPT ![Head(ssWork.todo)] = ssClock])
  /\ IF Written THEN ToDo("mark", Tail(ssWork.todo), "rename") /\ UNCHANGED ssHistory ELSE To("failed")
  /\ UNCHANGED ssClock

SsRename ==
  /\ AtStep("rename")
  /\ \/ /\ Unsynced([ssDisk EXCEPT !.primary = [drawing |-> ssWork.drawing, at |-> ssClock]])
        /\ To("sync") /\ NoLoss
     \/ Loss /\ To("failed") /\ UNCHANGED ssFiles
  /\ UNCHANGED ssClock

Stale(name) == There(ssDisk[name]) /\ Suppressed(ssDisk, ssDisk[name].at)
Leftovers ==
  CASE ssWork.drawing # Blank ->
         (IF Stale("backup") THEN <<"backup">> ELSE <<>>)
           \o (IF Stale("recovery") THEN <<"recovery">> ELSE <<>>)
           \o <<"clearMark", "backupMark", "recoveryMark", "recovery">>
    [] ssWork.boundary -> <<"backup", "backupMark", "recovery", "recoveryMark">>
    [] Contentless /\ ssWork.had /\ ~KeepsRecovery -> <<"recovery", "recoveryMark">>
    [] OTHER -> <<>>

\* sync_session_parent_dir: the save is durable, and only its leftovers remain.
SsSync ==
  /\ AtStep("sync")
  /\ \/ /\ Synced(ssDisk) /\ NoLoss
        /\ ToDo("tidy", Leftovers, "saved")
        /\ IF Contentless THEN UNCHANGED ssHistory
           ELSE ssExpected' = {ssWork.drawing} /\ ssMislaid' = FALSE
     \/ Loss /\ To("failed") /\ UNCHANGED ssFiles
  /\ UNCHANGED ssClock

\* A leftover is removed, or stays when that fails, or was not there.  The clear
\* marker stays as long as a copy that it keeps away does.
SsTidy ==
  LET name == Head(ssWork.todo)
      kept == \/ ssDisk[name] = EmptyDisk[name]
              \/ name = "clearMark" /\ (Stale("backup") \/ Stale("recovery"))
  IN /\ AtStep("tidy")
     /\ \/ kept /\ UNCHANGED ssFiles /\ NoLoss
        \/ ~kept /\ Unsynced([ssDisk EXCEPT ![name] = EmptyDisk[name]]) /\ NoLoss
        \/ ~kept /\ UNCHANGED ssFiles /\ Loss
     /\ ToDo("tidy", Tail(ssWork.todo), "saved")
     /\ UNCHANGED <<ssHistory, ssClock>>

-----------------------------------------------------------------------------
(* The end of a save, in the event loop. *)

AtEnd(kinds) ==
  /\ ssUp /\ ssWork.kind \in kinds /\ ssWork.step \in {"saved", "failed"}
  /\ ssWork' = NoSave
  /\ UNCHANGED <<ssFiles, ssUser, ssClock, ssHistory>>
Saved == ssWork.step = "saved"

\* Mutant: the changes of a failed autosave count as saved.
SsAutosaveEndsClean ==
  /\ AtEnd({"autosave"})
  /\ ssFlight' = FALSE
  /\ ssOnDisk' = (IF Saved THEN ssWork.drawing # Blank ELSE ssOnDisk)
  /\ UNCHANGED <<ssDirty, ssUp, ssCanvas, ssLoaded, ssLosses>>

\* complete_autosave: the changes of a failed one are unsaved again.
SsAutosaveEnds ==
  /\ AtEnd({"autosave"})
  /\ ssFlight' = FALSE
  /\ ssOnDisk' = (IF Saved THEN ssWork.drawing # Blank ELSE ssOnDisk)
  /\ ssDirty' = (ssDirty \/ ~Saved)
  /\ UNCHANGED <<ssUp, ssCanvas, ssLoaded, ssLosses>>

SsSaveEnds ==
  /\ AtEnd({"save"})
  /\ ssOnDisk' = (IF Saved THEN ssWork.drawing # Blank ELSE ssOnDisk)
  /\ ssDirty' = (ssDirty /\ ~Saved)
  /\ UNCHANGED <<ssUp, ssCanvas, ssLoaded, ssFlight, ssLosses>>

\* The boards are replaced only once the clear is on disk.
SsClearEnds ==
  /\ AtEnd({"clear"})
  /\ IF Saved
     THEN ssCanvas' = Blank /\ ssLoaded' = TRUE /\ ssOnDisk' = FALSE /\ ssDirty' = FALSE
     ELSE UNCHANGED <<ssCanvas, ssLoaded, ssOnDisk, ssDirty>>
  /\ UNCHANGED <<ssUp, ssFlight, ssLosses>>

\* run_output_transition: what was saved counts as saved when the load then fails.
SsReloadEnds ==
  /\ AtEnd({"reload"})
  /\ \/ Saved /\ Loads
     \/ /\ Saved /\ Loss /\ UNCHANGED <<ssCanvas, ssLoaded>>
        /\ ssOnDisk' = (ssWork.drawing # Blank) /\ ssDirty' = FALSE
     \/ ~Saved /\ NoLoss /\ UNCHANGED <<ssCanvas, ssLoaded, ssOnDisk, ssDirty>>
  /\ UNCHANGED <<ssUp, ssFlight>>

SsExitEnds == AtEnd({"exit"}) /\ Ends /\ NoLoss

\* The process is killed, or the power fails and the directory is what its last
\* sync, and what happened to reach the disk since, have left.
SsCrash ==
  /\ ssUp /\ Loss
  /\ \/ UNCHANGED ssFiles
     \/ \E disk \in ssSurvive : ssDisk' = disk /\ ssSurvive' = {disk}
  /\ Ends /\ ssWork' = NoSave
  /\ UNCHANGED <<ssUser, ssClock, ssHistory>>

SessionWorker == SsPrepare \/ SsClearMark \/ SsRotate \/ SsMark \/ SsRename \/ SsSync \/ SsTidy
SessionLoop ==
  SsAutosave \/ SsAutosaveEnds \/ SsSaveEnds \/ SsClearEnds \/ SsReloadEnds \/ SsExitEnds
SessionNext ==
  \/ SsStart \/ SsChange \/ SsSaveNow \/ SsClear \/ SsExit \/ SsReload \/ SsWithoutSave
  \/ SessionLoop \/ SessionWorker \/ SsCrash

SessionSpec == SessionInit /\ [][SessionNext]_ssVars

-----------------------------------------------------------------------------

\* Types of the variables.
SessionTypeOK ==
  /\ \A disk \in {ssDisk} \cup ssSurvive :
       /\ \A n \in Artifacts : disk[n] \in [drawing : 0..ssNext, at : 0..ssClock]
       /\ \A n \in Markers : disk[n] \in 0..ssClock
  /\ {ssTools, ssUp, ssLoaded, ssOnDisk, ssDirty, ssFlight, ssMislaid} \subseteq BOOLEAN
  /\ ssCanvas \in 0..ssNext /\ ssBig \cup ssExpected \subseteq 0..ssNext
  /\ ssWork.step \in {"none", "prepare", "clear", "rotate", "mark", "rename", "sync", "tidy", "saved",
                      "failed"}
  /\ ssWork.kind \in {"none", "autosave", "save", "clear", "exit", "reload"}
  /\ ssLosses \in 0..MaxLosses /\ ssStrokes \in 0..MaxStrokes /\ ssOrders \in 0..MaxOrders

\* Whatever a kill or a power failure leaves of the session's files, the next start
\* restores the drawing of the last save that became durable, or one whose saving
\* has begun since; a cleared session stays cleared.  ("A crash after a
\* reported-successful save cannot roll the replacement back",
\* sync_session_parent_dir.)
SessionSurvives == \A disk \in ssSurvive \cup {ssDisk} : RestoredFrom(disk) \in ssExpected

\* A recovery copy that an earlier save could not remove is preferred to a backup
\* that is newer, when the process dies between the rotation and the rename; and
\* beside two blank sessions, once one of them has marked it as recoverable.
Shadowed(disk) ==
  /\ Usable(disk, disk.recovery) /\ There(disk.backup) /\ disk.recovery.at < disk.backup.at
  /\ ~There(disk.primary) \/ (disk.primary.drawing = Blank /\ disk.backup.drawing = Blank)

\* With backups the same holds but for such a copy, and unless a backup marker that
\* an earlier save left behind has made a blank session replace one with content:
\* no other order of rotations, markers, clears, failures and crashes loses a saved
\* drawing, revives a cleared one or restores an older one.  (save_snapshot_inner,
\* preserve_existing_backup, should_prefer_recovery, the markers.)
SessionRestores ==
  \A disk \in ssSurvive \cup {ssDisk} :
    ssMislaid \/ Shadowed(disk) \/ RestoredFrom(disk) \in ssExpected

\* A change of the canvas is saved in the end without any request, however the
\* autosaves before it fail: as long as the overlay runs, moment after moment comes
\* when a start would restore the drawing it shows, if that is one that fits; or a
\* clear that failed half-way has left its marker over the saved drawing, which the
\* canvas still shows.  (complete_autosave, merge_dirty_window.)
SessionAutosaved ==
  []<>(ssUp => \/ ssCanvas \in ssBig \cup {Blank}
               \/ RestoredFrom(ssDisk) = ssCanvas
               \/ Suppressed(ssDisk, ssDisk.primary.at))
=============================================================================
