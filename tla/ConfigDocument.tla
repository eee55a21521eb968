--------------------------- MODULE ConfigDocument ---------------------------
(***************************************************************************)
(* The one-file protocol behind every write of config.toml: load, pin the  *)
(* destination, lock, compare, back up, compare again, write a temporary   *)
(* file, look at the destination once more and rename                      *)
(* (src/config/document.rs, document/lock.rs, config/io.rs, durable_io.rs). *)
(*                                                                         *)
(* Writers that take the lock: the overlay's edit worker, which loads the  *)
(* file for every edit and retries once when it lost a race, and the       *)
(* configurator, which keeps the document it loaded or saved last.  Other  *)
(* programs write the file without the lock, in place or by replacing it,  *)
(* and the configuration path may be a link that is pointed elsewhere.     *)
(*                                                                         *)
(* The contents of a file are the set of edits it carries: a save writes   *)
(* what it loaded plus its own edit.  A file's identity is its number.     *)
(***************************************************************************)
EXTENDS Naturals, FiniteSets
CONSTANTS DocFiles,       \* files the configuration path may resolve to
          Editors,        \* edit workers: load per edit, one retry
          Configurators,  \* keep a document between saves
          FirstFile,      \* the one it resolves to at the start
          Free,           \* no holder of a write lock
          MaxSaves,       \* bound: edits of each writer
          MaxOutside      \* bound: writes by other programs, retargeted links and crashes, together

Writers == Editors \cup Configurators

ASSUME DocAssumption ==
  /\ FirstFile \in DocFiles /\ Editors \cap Configurators = {}
  /\ Free \notin Writers /\ "outside" \notin Writers
  /\ MaxSaves \in Nat /\ MaxOutside \in Nat

Outside == {"outside"} \X (1..MaxOutside)
DocEdit == (Writers \X (1..MaxSaves)) \cup Outside
Absent == [id |-> 0, bytes |-> {}]
NoOutcome == [outcome |-> "none"]
NoRevision == [dest |-> "none", id |-> 0, bytes |-> {}]

VARIABLES
  docLink,    \* the file the configuration path resolves to
  docFile,    \* what each file is: its identity and contents, or Absent
  docNewId,   \* identity of the next file created
  docLock,    \* holder of each file's write lock
  docStep,    \* where each writer is in its save
  docRev,     \* the revision each writer's document was read from
  docBackup,  \* the backup the save in progress took
  docTemp,    \* identity of the file the save in progress wrote
  docSaves,   \* edits started by each writer
  docRetried, \* the edit in progress has used its retry
  docEvents,  \* bounded counter of what other programs did
  docMoved,   \* history: changes by others under the path since the edit began, up to 2
  docLast,    \* history: each writer's last finished edit and its outcome
  docLanded,  \* history: the edits that were put into each file
  docGap      \* history: outside edits that landed between a save's last look and its rename

docVars == <<docLink, docFile, docNewId, docLock, docStep, docRev, docBackup, docTemp, docSaves,
             docRetried, docEvents, docMoved, docLast, docLanded, docGap>>

DocInit ==
  /\ docLink = FirstFile
  /\ docFile \in [DocFiles -> {Absent} \cup {[id |-> 1, bytes |-> {}]}]
  /\ docNewId = 2
  /\ docLock = [f \in DocFiles |-> Free]
  /\ docStep = [w \in Writers |-> "idle"]
  /\ docRev = [w \in Writers |-> NoRevision]
  /\ docBackup = [w \in Writers |-> {}]
  /\ docTemp = [w \in Writers |-> 0]
  /\ docSaves = [w \in Writers |-> 0]
  /\ docRetried = [w \in Writers |-> FALSE]
  /\ docEvents = 0
  /\ docMoved = [w \in Writers |-> 0]
  /\ docLast = [w \in Writers |-> NoOutcome]
  /\ docLanded = [f \in DocFiles |-> {}]
  /\ docGap = {}

-----------------------------------------------------------------------------
CurrentEdit(w) == <<w, docSaves[w]>>
Goto(w, step) == docStep' = [docStep EXCEPT ![w] = step]

\* The revision the configuration path names now (SourceRevision::read).
Current == [dest |-> docLink, id |-> docFile[docLink].id, bytes |-> docFile[docLink].bytes]

\* Somebody other than w changed what the path names.
NoteMove(w) ==
  docMoved' = [v \in Writers |-> IF v # w /\ docStep[v] # "idle" /\ docMoved[v] < 2
                                 THEN docMoved[v] + 1 ELSE docMoved[v]]

\* An edit ends: its lock is released; an edit worker drops its document, a
\* configurator has the one given.
DocFinish(w, outcome, document) ==
  /\ docLast' = [docLast EXCEPT ![w] =
       [outcome |-> outcome, edit |-> CurrentEdit(w), moved |-> docMoved[w], loaded |-> docRev[w],
        backup |-> docBackup[w]]]
  /\ docRev' = [docRev EXCEPT ![w] = IF w \in Editors THEN NoRevision ELSE document]
  /\ docBackup' = [docBackup EXCEPT ![w] = {}]
  /\ docTemp' = [docTemp EXCEPT ![w] = 0]
  /\ Goto(w, "idle")
  /\ docLock' = [f \in DocFiles |-> IF docLock[f] = w THEN Free ELSE docLock[f]]

docDiskVars == <<docLink, docFile, docNewId, docLock, docLanded, docGap>>
docSaveVars == <<docRev, docBackup, docTemp, docLast>>

\* Mutant: the retry writes what was loaded before.
DocStaleUnread(w) ==
  IF w \in Editors /\ ~docRetried[w]
  THEN /\ docRetried' = [docRetried EXCEPT ![w] = TRUE]
       /\ Goto(w, "lock")
       /\ docLock' = [f \in DocFiles |-> IF docLock[f] = w THEN Free ELSE docLock[f]]
       /\ UNCHANGED docSaveVars
  ELSE DocFinish(w, "stale", docRev[w]) /\ UNCHANGED docRetried

\* Every way a save finds the file changed: the lock is released, the edit
\* worker reloads once, and the configurator keeps the document it has.
DocStale(w) ==
  IF w \in Editors /\ ~docRetried[w]
  THEN /\ docRetried' = [docRetried EXCEPT ![w] = TRUE]
       /\ Goto(w, "load")
       /\ docLock' = [f \in DocFiles |-> IF docLock[f] = w THEN Free ELSE docLock[f]]
       /\ UNCHANGED docSaveVars
  ELSE DocFinish(w, "stale", docRev[w]) /\ UNCHANGED docRetried

\* An edit begins: the edit worker loads the file, the configurator saves from
\* the document it kept.
DocBegin(w) ==
  /\ docStep[w] = "idle" /\ docSaves[w] < MaxSaves
  /\ w \in Configurators => docRev[w] # NoRevision
  /\ docSaves' = [docSaves EXCEPT ![w] = @ + 1]
  /\ docRetried' = [docRetried EXCEPT ![w] = FALSE]
  /\ docMoved' = [docMoved EXCEPT ![w] = 0]
  /\ Goto(w, IF w \in Editors THEN "load" ELSE "lock")
  /\ UNCHANGED <<docLink, docFile, docNewId, docLock, docSaveVars, docEvents, docLanded, docGap>>

\* The configurator opens, or reloads, its document.
DocOpen(w) ==
  /\ w \in Configurators /\ docStep[w] = "idle" /\ docSaves[w] < MaxSaves
  /\ docRev' = [docRev EXCEPT ![w] = Current]
  /\ UNCHANGED <<docDiskVars, docStep, docBackup, docTemp, docLast, docSaves, docRetried, docEvents,
                 docMoved>>

\* Loading resolves the path and looks at the file, then reads it by name: a
\* file replaced in between gives the identity of one and the bytes of another.
DocStat(w) ==
  /\ docStep[w] = "load"
  /\ docRev' = [docRev EXCEPT ![w] = [Current EXCEPT !.bytes = {}]]
  /\ docBackup' = [docBackup EXCEPT ![w] = {}]
  /\ Goto(w, IF Current.id = 0 THEN "lock" ELSE "read")
  /\ UNCHANGED <<docDiskVars, docTemp, docLast, docSaves, docRetried, docEvents, docMoved>>
DocRead(w) ==
  /\ docStep[w] = "read"
  /\ docRev' = [docRev EXCEPT ![w].bytes = docFile[docRev[w].dest].bytes]
  /\ Goto(w, "lock")
  /\ UNCHANGED <<docDiskVars, docBackup, docTemp, docLast, docSaves, docRetried, docEvents, docMoved>>

\* Mutant: the lock is taken on the file the path leads to at that time.
DocLockCurrent(w) ==
  /\ docStep[w] = "lock"
  /\ LET f == docLink IN
       \/ /\ docLock[f] = Free
          /\ docLock' = [docLock EXCEPT ![f] = w]
          /\ Goto(w, "compare") /\ UNCHANGED docSaveVars
       \/ docLock[f] # Free /\ DocFinish(w, "busy", docRev[w])
  /\ UNCHANGED <<docLink, docFile, docNewId, docSaves, docRetried, docEvents, docMoved, docLanded,
                 docGap>>

\* acquire_config_write_lock on the pinned destination, or its timeout, which a
\* free lock never reaches.
DocLock(w) ==
  /\ docStep[w] = "lock"
  /\ LET f == docRev[w].dest IN
       \/ /\ docLock[f] = Free
          /\ docLock' = [docLock EXCEPT ![f] = w]
          /\ Goto(w, "compare") /\ UNCHANGED docSaveVars
       \/ docLock[f] # Free /\ DocFinish(w, "busy", docRev[w])
  /\ UNCHANGED <<docLink, docFile, docNewId, docSaves, docRetried, docEvents, docMoved, docLanded,
                 docGap>>

\* ensure_source_unchanged, before and after the backup.
Unchanged(w) == Current = docRev[w]

\* Mutant: there is no second comparison.
DocCompareOnce(w) ==
  /\ docStep[w] \in {"compare", "recompare"}
  /\ IF Unchanged(w) \/ docStep[w] = "recompare"
     THEN /\ Goto(w, IF docStep[w] = "recompare" THEN "look"
                     ELSE IF docRev[w].id = 0 THEN "recompare" ELSE "backup")
          /\ UNCHANGED <<docLock, docSaveVars, docRetried>>
     ELSE DocStale(w)
  /\ UNCHANGED <<docLink, docFile, docNewId, docSaves, docEvents, docMoved, docLanded, docGap>>

DocCompare(w) ==
  /\ docStep[w] \in {"compare", "recompare"}
  /\ IF Unchanged(w)
     THEN /\ Goto(w, IF docStep[w] = "recompare" THEN "look"
                     ELSE IF docRev[w].id = 0 THEN "recompare" ELSE "backup")
          /\ UNCHANGED <<docLock, docSaveVars, docRetried>>
     ELSE DocStale(w)
  /\ UNCHANGED <<docLink, docFile, docNewId, docSaves, docEvents, docMoved, docLanded, docGap>>

\* create_config_backup copies through the configuration path; a path that has
\* come to name nothing fails the save.
DocCopy(w) ==
  /\ docStep[w] = "backup"
  /\ IF Current.id = 0
     THEN DocFinish(w, "failed", docRev[w])
     ELSE /\ docBackup' = [docBackup EXCEPT ![w] = Current.bytes]
          /\ Goto(w, "recompare") /\ UNCHANGED <<docLock, docRev, docTemp, docLast>>
  /\ UNCHANGED <<docLink, docFile, docNewId, docSaves, docRetried, docEvents, docMoved, docLanded,
                 docGap>>

\* verify_expectation, the last look at the destination before the rename.
AsExpected(w) ==
  LET f == docFile[docRev[w].dest] IN f.id = docRev[w].id /\ f.bytes = docRev[w].bytes

DocLook(w) ==
  /\ docStep[w] = "look"
  /\ IF AsExpected(w) THEN Goto(w, "rename") /\ UNCHANGED <<docLock, docSaveVars, docRetried>>
                      ELSE DocStale(w)
  /\ UNCHANGED <<docLink, docFile, docNewId, docSaves, docEvents, docMoved, docLanded, docGap>>

\* A replacement renames over whatever is there; a creation is refused by the
\* kernel when the name has filled up.
NameTaken(w) == docRev[w].id = 0 /\ docFile[docRev[w].dest].id # 0

DocRename(w) ==
  /\ docStep[w] = "rename"
  /\ LET f == docRev[w].dest
         written == [id |-> docNewId, bytes |-> docRev[w].bytes \cup {CurrentEdit(w)}]
     IN IF NameTaken(w)
        THEN DocStale(w) /\ UNCHANGED <<docFile, docNewId, docLanded, docMoved>>
        ELSE /\ docFile' = [docFile EXCEPT ![f] = written]
             /\ docNewId' = docNewId + 1
             /\ docLanded' = [docLanded EXCEPT ![f] = @ \cup {CurrentEdit(w)}]
             /\ docTemp' = [docTemp EXCEPT ![w] = docNewId]
             /\ NoteMove(w)
             /\ Goto(w, "sync") /\ UNCHANGED <<docLock, docRev, docBackup, docLast, docRetried>>
  /\ UNCHANGED <<docLink, docSaves, docEvents, docGap>>

\* The directory's sync ends the save, whose document is then the revision it
\* wrote; when the sync fails the save is an error although the file has been
\* replaced.
AfterWrite(w) == [docRev[w] EXCEPT !.id = docTemp[w], !.bytes = @ \cup {CurrentEdit(w)}]

DocSync(w) ==
  /\ docStep[w] = "sync"
  /\ DocFinish(w, "saved", AfterWrite(w)) \/ DocFinish(w, "failed", docRev[w])
  /\ UNCHANGED <<docLink, docFile, docNewId, docSaves, docRetried, docEvents, docMoved, docLanded,
                 docGap>>

-----------------------------------------------------------------------------
(* Other programs. *)

DocEvent == docEvents < MaxOutside /\ docEvents' = docEvents + 1

\* Another program adds its edit to a file without the lock, rewriting it in
\* place or replacing it.
DocOutsideWrite(f, replaced) ==
  /\ DocEvent
  /\ LET edit == <<"outside", docEvents + 1>>
         new == replaced \/ docFile[f].id = 0
     IN /\ docFile' = [docFile EXCEPT ![f] = [id |-> IF new THEN docNewId ELSE @.id,
                                              bytes |-> @.bytes \cup {edit}]]
        /\ docNewId' = IF new THEN docNewId + 1 ELSE docNewId
        /\ docLanded' = [docLanded EXCEPT ![f] = @ \cup {edit}]
        /\ docGap' = IF \E w \in Writers : docStep[w] = "rename" /\ docRev[w].dest = f
                                            /\ docRev[w].id # 0
                     THEN docGap \cup {edit} ELSE docGap
  /\ NoteMove(Free)
  /\ UNCHANGED <<docLink, docLock, docStep, docSaveVars, docSaves, docRetried>>

\* The link is pointed at another file: a profile is switched.
DocRetarget(f) ==
  /\ DocEvent /\ f # docLink /\ docLink' = f
  /\ NoteMove(Free)
  /\ UNCHANGED <<docFile, docNewId, docLock, docLanded, docGap, docStep, docSaveVars, docSaves,
                 docRetried>>

\* A writer's process ends in the middle of a save; its lock goes with it.
DocCrash(w) ==
  /\ docStep[w] # "idle" /\ DocEvent
  /\ DocFinish(w, "crashed", NoRevision)
  /\ UNCHANGED <<docLink, docFile, docNewId, docSaves, docRetried, docMoved, docLanded, docGap>>

-----------------------------------------------------------------------------
DocStepOf(w) == DocStat(w) \/ DocRead(w) \/ DocLock(w) \/ DocCompare(w) \/ DocCopy(w) \/ DocLook(w)
                \/ DocRename(w) \/ DocSync(w)
DocNext ==
  \/ \E w \in Writers : DocBegin(w) \/ DocOpen(w) \/ DocStepOf(w) \/ DocCrash(w)
  \/ \E f \in DocFiles : DocRetarget(f) \/ \E replaced \in BOOLEAN : DocOutsideWrite(f, replaced)
DocSpec == DocInit /\ [][DocNext]_docVars

DocRevision == [dest : DocFiles, id : Nat, bytes : SUBSET DocEdit] \cup {NoRevision}

\* Types of the variables.
DocTypeOK ==
  /\ docLink \in DocFiles /\ docNewId \in Nat /\ docEvents \in 0..MaxOutside
  /\ \A f \in DocFiles : docFile[f].id \in Nat /\ docFile[f].bytes \subseteq DocEdit
                         /\ docLock[f] \in Writers \cup {Free} /\ docLanded[f] \subseteq DocEdit
  /\ \A w \in Writers :
       /\ docStep[w] \in {"idle", "load", "read", "lock", "compare", "backup", "recompare", "look",
                          "rename", "sync"}
       /\ docRev[w].id \in Nat /\ docRev[w].bytes \subseteq DocEdit
       /\ docRev[w].dest \in DocFiles \cup {"none"}
       /\ docBackup[w] \subseteq DocEdit /\ docSaves[w] \in 0..MaxSaves
       /\ docRetried[w] \in BOOLEAN /\ docMoved[w] \in 0..2
  /\ docTemp \in [Writers -> Nat] /\ docGap \subseteq Outside

\* No write of the configuration undoes a change it has not seen: whatever was
\* put into a file is still in it, except an edit by a program without the lock
\* that fell between a replacement's last look and its rename.  (The write lock,
\* the two comparisons, verify_expectation, the rename that refuses to replace.)
DocNothingLost ==
  \A f \in DocFiles : docLanded[f] \ docFile[f].bytes \subseteq docGap

\* A save that succeeded, over a file others changed at most once under it, left
\* a backup of exactly the revision it was based on and put its edit into the file
\* it named.  An edit reported as stale or busy is in no file.  (The backup between
\* the two comparisons.)  An edit worker reports that the file changed under its edit
\* only when others changed what the path names at least twice while it ran: one lost
\* race is absorbed by the reload.  (edit_one_config_key_with_retry.)
DocOutcomeTrue ==
  \A w \in Writers : LET d == docLast[w] IN
    /\ d.outcome = "saved" /\ d.loaded.id # 0 /\ d.moved < 2 => d.backup = d.loaded.bytes
    /\ d.outcome = "saved" => d.edit \in docLanded[d.loaded.dest]
    /\ d.outcome \in {"stale", "busy"} => \A f \in DocFiles : d.edit \notin docFile[f].bytes
    /\ d.outcome = "stale" /\ w \in Editors => d.moved = 2
=============================================================================
