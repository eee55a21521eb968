-------------------------- MODULE SessionSave_proofs --------------------------
(***************************************************************************)
(* Proof that, with backups, a start restores the last drawing that was     *)
(* saved or one whose saving has begun since, for any number of changes,    *)
(* saves, failed steps, kills and power failures.                           *)
(*                                                                         *)
(* The argument.  Let f be the time of the save that was the last to        *)
(* become durable.  In every directory that a power failure may leave, a    *)
(* file that is not older than f holds a drawing a start may restore        *)
(* (Current); and unless the user has cleared since, the session file has   *)
(* content, or a backup that is not older than f stands in for it, marked   *)
(* when a blank session is beside it (Covered).  WorkOK says what each step *)
(* of a save has done so far, which the next one builds on.                 *)
(***************************************************************************)
EXTENDS SessionSave, SequenceTheorems, TLAPS

-----------------------------------------------------------------------------
(* Types.                                                                  *)

Names == Artifacts \cup Markers
Steps == {"none", "prepare", "clear", "rotate", "mark", "rename", "sync", "tidy", "saved", "failed"}
Kinds == {"none", "autosave", "save", "clear", "exit", "reload"}

Shaped(disk, next, clock) ==
  /\ disk = [n \in Names |-> disk[n]]
  /\ \A n \in Artifacts : disk[n] \in [drawing : 0..next, at : 0..clock]
  /\ \A n \in Markers : disk[n] \in 0..clock

Works(next) == [step : Steps, kind : Kinds, drawing : 0..next, empty : BOOLEAN, boundary : BOOLEAN,
                had : BOOLEAN, todo : Seq(Names)]

FilesOK == \A disk \in ssSurvive \cup {ssDisk} : Shaped(disk, ssNext, ssClock)
FlagsOK ==
  /\ ssTools \in BOOLEAN /\ ssUp \in BOOLEAN /\ ssLoaded \in BOOLEAN /\ ssOnDisk \in BOOLEAN
  /\ ssDirty \in BOOLEAN /\ ssFlight \in BOOLEAN /\ ssMislaid \in BOOLEAN
DrawingsOK == ssCanvas \in 0..ssNext /\ ssBig \subseteq 0..ssNext /\ ssExpected \subseteq 0..ssNext
BoundsOK == ssLosses \in 0..MaxLosses /\ ssStrokes \in 0..MaxStrokes /\ ssOrders \in 0..MaxOrders

\* Only the blank session is a clear.
BlankOK ==
  /\ ssWork.empty \/ ssWork.boundary => ssWork.drawing = Blank
  /\ ssWork.step = "clear" => ssWork.empty \/ ssWork.boundary

\* What is to be done is something, and of its step.
TodoOK ==
  /\ ssWork.step \in {"mark", "tidy"} => ssWork.todo # <<>>
  /\ ssWork.step = "mark" => ssWork.todo \in Seq({"backupMark", "recoveryMark"})

SsTypes ==
  /\ ssClock \in Nat \ {0} /\ ssNext \in Nat \ {0}
  /\ FilesOK /\ FlagsOK /\ DrawingsOK /\ BoundsOK /\ ssWork \in Works(ssNext) /\ BlankOK /\ TodoOK

-----------------------------------------------------------------------------
(* What holds of every directory that may be found, since the save at f.   *)

Stands(disk, f) == There(disk.backup) /\ disk.backup.at >= f

Current(disk, f, expected) ==
  /\ \A n \in Artifacts : There(disk[n]) /\ disk[n].at >= f => disk[n].drawing \in expected
  /\ disk.clearMark >= f => Blank \in expected

Covered(disk, f) ==
  disk.clearMark < f =>
    /\ There(disk.primary) => disk.primary.at >= f
    /\ \/ There(disk.primary) /\ disk.primary.drawing # Blank
       \/ /\ Stands(disk, f)
          /\ \/ ~There(disk.primary) \/ disk.backup.drawing = Blank
             \/ disk.backupMark > disk.clearMark

Good(disk, f, expected, mislaid) == Current(disk, f, expected) /\ (mislaid \/ Covered(disk, f))

AllGood(f) == \A disk \in ssSurvive \cup {ssDisk} : Good(disk, f, ssExpected, ssMislaid)

(* What the steps of a save have done so far.                              *)

Begun == ssWork.step # "none" => ssWork.drawing \in ssExpected
Older(disk) == \A n \in Artifacts : disk[n].at < ssClock
Replacing == ssWork.step \in {"clear", "rotate", "mark", "rename"} => Older(ssDisk)
Clearing ==
  ssWork.step \in {"rotate", "mark", "rename", "sync"} =>
    IF ssWork.boundary THEN ssDisk.clearMark = ssClock ELSE ssDisk.clearMark < ssClock
Marking(f) ==
  ssWork.step \in {"mark", "rename"} /\ Contentless /\ ssDisk.clearMark < f /\ ~ssMislaid =>
    /\ Stands(ssDisk, f)
    /\ \/ ssDisk.backupMark > ssDisk.clearMark
       \/ ssWork.step = "mark" /\ Head(ssWork.todo) = "backupMark"
Replaced ==
  ssWork.step = "sync" =>
    /\ ssDisk.primary = [drawing |-> ssWork.drawing, at |-> ssClock]
    /\ ssDisk.backup.at < ssClock /\ ssDisk.recovery.at < ssClock
Removes(names) == ssWork.todo \in Seq(names)
Tidying(f) ==
  ssWork.step = "tidy" =>
    \/ /\ There(ssDisk.primary) /\ ssDisk.primary.drawing # Blank /\ ssDisk.primary.at >= f
       /\ ssDisk.clearMark < f /\ Removes(Names \ {"primary"})
    \/ ssDisk.clearMark >= f /\ Removes(Names \ {"clearMark"})
    \/ Removes({"recovery", "recoveryMark"})

WorkOK(f) ==
  Begun /\ Replacing /\ Clearing /\ Marking(f) /\ Replaced /\ Tidying(f)
Since(f) == f \in 0..ssClock /\ AllGood(f) /\ WorkOK(f)
SsInv == \E f \in Nat : Since(f)

-----------------------------------------------------------------------------
(* What a start restores. *)

\* A good directory is restored to a drawing that is expected.
LEMMA GoodRestores ==
  ASSUME NEW disk, NEW next, NEW clock \in Nat, Shaped(disk, next, clock), NEW f \in Nat,
         NEW expected, Good(disk, f, expected, FALSE), ~Shadowed(disk)
  PROVE  RestoredFrom(disk) \in expected
<1> USE DEF There
<1>1. /\ disk.primary.at \in Nat /\ disk.backup.at \in Nat /\ disk.recovery.at \in Nat
      /\ disk.clearMark \in Nat /\ disk.backupMark \in Nat
  BY DEF Shaped, Artifacts, Markers
<1>2. Current(disk, f, expected) /\ Covered(disk, f)
  BY DEF Good
<1>3. ASSUME NEW n \in Artifacts, Usable(disk, disk[n]), disk.clearMark >= f \/ disk[n].at >= f
      PROVE  disk[n].drawing \in expected
  BY <1>1, <1>2, <1>3 DEF Current, Usable, Suppressed, Shaped, Artifacts
<1>4. "primary" \in Artifacts /\ "backup" \in Artifacts /\ "recovery" \in Artifacts
  BY DEF Artifacts
<1>5. CASE disk.clearMark >= f
  <2>1. Blank \in expected
    BY <1>2, <1>5 DEF Current
  <2>2. \A n \in Artifacts : Usable(disk, disk[n]) => disk[n].drawing \in expected
    BY <1>3, <1>5
  <2>3. FromRecovery(disk) \in expected /\ \A b \in BOOLEAN : FromBackup(disk, b) \in expected
    BY <2>1, <2>2, <1>4 DEF FromRecovery, FromBackup
  <2>4. FromSession(disk) \in expected
    BY <2>1, <2>2, <2>3, <1>4 DEF FromSession, Usable
  <2> QED
    BY <2>2, <2>4, <1>4 DEF RestoredFrom, PrefersRecovery
<1>6. CASE disk.clearMark < f
  <2>1. \A n \in Artifacts : There(disk[n]) /\ disk[n].at >= f => Usable(disk, disk[n])
    BY <1>1, <1>6 DEF Usable, Suppressed, Shaped, Artifacts
  <2>2. \A n \in Artifacts : There(disk[n]) /\ disk[n].at >= f => disk[n].drawing \in expected
    BY <1>2 DEF Current
  <2>3. /\ There(disk.primary) => disk.primary.at >= f
        /\ \/ There(disk.primary) /\ disk.primary.drawing # Blank
           \/ /\ Stands(disk, f)
              /\ \/ ~There(disk.primary) \/ disk.backup.drawing = Blank
                 \/ disk.backupMark > disk.clearMark
    BY <1>2, <1>6 DEF Covered
  <2>4. Stands(disk, f) => Usable(disk, disk.backup) /\ disk.backup.drawing \in expected
    BY <2>1, <2>2, <1>4 DEF Stands
  <2>5. CASE PrefersRecovery(disk)
    <3>1. Usable(disk, disk.recovery)
      BY <2>5 DEF PrefersRecovery
    <3>2. disk.recovery.at >= f
      <4>1. CASE There(disk.primary)
        BY <4>1, <2>3, <2>5, <1>1 DEF PrefersRecovery
      <4>2. CASE ~There(disk.primary)
        BY <4>2, <2>3, <3>1, <1>1 DEF Stands, Shadowed
      <4> QED
        BY <4>1, <4>2
    <3> QED
      BY <3>1, <3>2, <1>3, <1>4, <2>5 DEF RestoredFrom
  <2>6. CASE ~PrefersRecovery(disk)
    <3>1. RestoredFrom(disk) = FromSession(disk)
      BY <2>6 DEF RestoredFrom
    <3>2. CASE ~There(disk.primary)
      <4>1. FromSession(disk) = disk.backup.drawing
        BY <3>2, <2>3, <2>4 DEF FromSession, FromBackup
      <4> QED
        BY <4>1, <3>1, <3>2, <2>3, <2>4
    <3>3. CASE There(disk.primary) /\ disk.primary.drawing # Blank
      <4>1. ~Suppressed(disk, disk.primary.at)
        BY <3>3, <2>3, <2>1, <1>4 DEF Usable
      <4>2. FromSession(disk) = disk.primary.drawing
        BY <3>3, <4>1 DEF FromSession
      <4> QED
        BY <4>2, <3>1, <3>3, <2>2, <2>3, <1>4
    <3>4. CASE There(disk.primary) /\ disk.primary.drawing = Blank
      <4>1. Blank \in expected
        BY <3>4, <2>2, <2>3, <1>4
      <4>2. ~Suppressed(disk, disk.primary.at)
        BY <3>4, <2>3, <2>1, <1>4 DEF Usable
      <4>3. /\ Usable(disk, disk.backup) /\ disk.backup.drawing \in expected
            /\ disk.backup.drawing = Blank \/ Marked(disk, "backupMark")
        BY <3>4, <2>3, <2>4, <1>1, <1>6 DEF Marked, Suppressed
      <4>4. CASE disk.backup.drawing # Blank
        <5>1. FromBackup(disk, TRUE) = disk.backup.drawing
          BY <4>3, <4>4 DEF FromBackup
        <5> QED
          BY <5>1, <4>2, <4>3, <4>4, <3>1, <3>4 DEF FromSession
      <4>5. CASE disk.backup.drawing = Blank
        <5>1. FromBackup(disk, TRUE) = Blank
          BY <4>5 DEF FromBackup
        <5>2. FromSession(disk) = FromRecovery(disk)
          BY <5>1, <4>2, <3>4 DEF FromSession
        <5>3. Usable(disk, disk.recovery) => disk.recovery.at >= f
          BY <4>5, <3>4, <2>3, <1>1 DEF Stands, Shadowed
        <5>4. FromRecovery(disk) \in expected
          BY <5>3, <4>1, <1>3, <1>4 DEF FromRecovery
        <5> QED
          BY <5>2, <5>4, <3>1
      <4> QED
        BY <4>4, <4>5
    <3> QED
      BY <3>2, <3>3, <3>4
  <2> QED
    BY <2>5, <2>6
<1> QED
  BY <1>1, <1>5, <1>6

-----------------------------------------------------------------------------
(* What the changes of a directory keep. *)

\* A directory keeps its shape when a file is written or removed.
LEMMA ShapedFile ==
  ASSUME NEW disk, NEW next, NEW clock, Shaped(disk, next, clock), NEW n \in Artifacts,
         NEW file \in [drawing : 0..next, at : 0..clock]
  PROVE  Shaped([disk EXCEPT ![n] = file], next, clock)
BY ZenonT(30) DEF Shaped, Names, Artifacts, Markers

LEMMA ShapedMark ==
  ASSUME NEW disk, NEW next, NEW clock, Shaped(disk, next, clock), NEW n \in Markers,
         NEW time \in 0..clock
  PROVE  Shaped([disk EXCEPT ![n] = time], next, clock)
BY DEF Shaped, Names, Artifacts, Markers

LEMMA ShapedLater ==
  ASSUME NEW disk, NEW next \in Nat, NEW clock \in Nat, Shaped(disk, next, clock),
         NEW next2 \in Nat, NEW clock2 \in Nat, next <= next2, clock <= clock2
  PROVE  Shaped(disk, next2, clock2)
<1>1. 0..next \subseteq 0..next2 /\ 0..clock \subseteq 0..clock2
  OBVIOUS
<1> QED
  BY <1>1 DEF Shaped

LEMMA ShapedWithout ==
  ASSUME NEW disk, NEW next \in Nat, NEW clock \in Nat, Shaped(disk, next, clock), NEW n \in Names
  PROVE  Shaped([disk EXCEPT ![n] = EmptyDisk[n]], next, clock)
<1>1. CASE n \in Artifacts
  <2>1. EmptyDisk[n] \in [drawing : 0..next, at : 0..clock]
    BY <1>1 DEF EmptyDisk, NoFile, Blank
  <2> QED
    BY <2>1, <1>1, ShapedFile
<1>2. CASE n \in Markers
  <2>1. EmptyDisk[n] = 0
    BY <1>2 DEF EmptyDisk, Artifacts, Markers
  <2>2. EmptyDisk[n] \in 0..clock
    BY <2>1
  <2> QED
    BY <2>2, <1>2, ShapedMark
<1> QED
  BY <1>1, <1>2 DEF Names

\* A file that is there is restored from one of the files or is blank.
LEMMA RestoredInRange ==
  ASSUME NEW disk, NEW next \in Nat, NEW clock, Shaped(disk, next, clock)
  PROVE  RestoredFrom(disk) \in 0..next
<1>1. \A n \in Artifacts : disk[n].drawing \in 0..next
  BY DEF Shaped
<1>2. /\ disk.primary.drawing \in 0..next /\ disk.backup.drawing \in 0..next
      /\ disk.recovery.drawing \in 0..next /\ Blank \in 0..next
  BY <1>1 DEF Artifacts, Blank
<1>3. FromRecovery(disk) \in 0..next /\ \A b \in BOOLEAN : FromBackup(disk, b) \in 0..next
  BY <1>2 DEF FromRecovery, FromBackup
<1> QED
  BY <1>2, <1>3 DEF RestoredFrom, FromSession

LEMMA GoodGrows ==
  ASSUME NEW disk, NEW f, NEW expected, NEW mislaid \in BOOLEAN, Good(disk, f, expected, mislaid),
         NEW expected2, expected \subseteq expected2, NEW mislaid2 \in BOOLEAN, mislaid => mislaid2
  PROVE  Good(disk, f, expected2, mislaid2)
BY DEF Good, Current

\* A clear marker of now, when a start may find the session empty.
LEMMA GoodCleared ==
  ASSUME NEW disk, NEW next \in Nat, NEW clock \in Nat, Shaped(disk, next, clock), NEW f \in 0..clock,
         NEW expected, NEW mislaid, Good(disk, f, expected, mislaid), Blank \in expected
  PROVE  Good([disk EXCEPT !.clearMark = clock], f, expected, mislaid)
<1> DEFINE new == [disk EXCEPT !.clearMark = clock]
<1>1. new.clearMark = clock /\ \A n \in Artifacts : new[n] = disk[n]
  BY DEF Shaped, Names, Artifacts, Markers
<1>2. Current(new, f, expected)
  BY <1>1 DEF Good, Current
<1>3. Covered(new, f)
  BY <1>1 DEF Covered
<1> QED
  BY <1>2, <1>3 DEF Good

\* A marker of now for the backup or for the recovery copy.
LEMMA GoodMarked ==
  ASSUME NEW disk, NEW next \in Nat, NEW clock \in Nat, Shaped(disk, next, clock), NEW f \in 0..clock,
         NEW expected, NEW mislaid, Good(disk, f, expected, mislaid),
         NEW n \in {"backupMark", "recoveryMark"}
  PROVE  Good([disk EXCEPT ![n] = clock], f, expected, mislaid)
<1> DEFINE new == [disk EXCEPT ![n] = clock]
<1>1. new.clearMark = disk.clearMark /\ \A a \in Artifacts : new[a] = disk[a]
  BY DEF Shaped, Names, Artifacts, Markers
<1>2. new.backupMark = disk.backupMark \/ new.backupMark = clock
  BY DEF Shaped, Names, Artifacts, Markers
<1>3. Current(new, f, expected)
  BY <1>1 DEF Good, Current
<1>4. ASSUME Covered(disk, f) PROVE Covered(new, f)
  <2>1. /\ disk.clearMark \in Nat /\ disk.backupMark \in Nat
        /\ new.primary = disk.primary /\ new.backup = disk.backup
    BY <1>1 DEF Shaped, Artifacts, Markers
  <2> QED
    BY <2>1, <1>1, <1>2, <1>4 DEF Covered, Stands
<1> QED
  BY <1>3, <1>4 DEF Good

\* A recovery copy with an expected drawing.
LEMMA GoodCopied ==
  ASSUME NEW disk, NEW next, NEW clock, Shaped(disk, next, clock), NEW f,
         NEW expected, NEW mislaid, Good(disk, f, expected, mislaid),
         NEW file, file.drawing \in expected
  PROVE  Good([disk EXCEPT !.recovery = file], f, expected, mislaid)
<1> DEFINE new == [disk EXCEPT !.recovery = file]
<1>1. /\ new.recovery = file /\ new.primary = disk.primary /\ new.backup = disk.backup
      /\ new.clearMark = disk.clearMark /\ new.backupMark = disk.backupMark
  BY DEF Shaped, Names, Artifacts, Markers
<1>2. Current(new, f, expected)
  BY <1>1 DEF Good, Current, Artifacts
<1>3. Covered(disk, f) => Covered(new, f)
  BY <1>1 DEF Covered, Stands
<1> QED
  BY <1>2, <1>3 DEF Good

\* The session file goes, and becomes the backup when there are backups.
LEMMA GoodRotated ==
  ASSUME NEW disk, NEW next \in Nat, NEW clock \in Nat, Shaped(disk, next, clock), NEW f \in Nat,
         NEW expected, NEW mislaid \in BOOLEAN, Good(disk, f, expected, mislaid),
         There(disk.primary), NEW new, NEW mislaid2 \in BOOLEAN, mislaid => mislaid2,
         \/ new = [disk EXCEPT !.primary = NoFile, !.backup = disk.primary]
         \/ /\ new = [disk EXCEPT !.primary = NoFile, !.backup = disk.backup]
            /\ mislaid2 \/ disk.primary.drawing = Blank
  PROVE  Good(new, f, expected, mislaid2) /\ (disk.clearMark < f /\ ~mislaid2 => Stands(new, f))
<1>1. /\ new.primary = NoFile /\ new.recovery = disk.recovery
      /\ new.clearMark = disk.clearMark /\ new.backup \in {disk.primary, disk.backup}
  BY DEF Shaped, Names, Artifacts, Markers
<1>2. ~There(new.primary)
  BY <1>1 DEF There, NoFile
<1>3. Current(disk, f, expected)
  BY DEF Good
<1>4. Current(new, f, expected)
  BY <1>1, <1>2, <1>3 DEF Current, Artifacts
<1>5. ASSUME disk.clearMark < f, ~mislaid2 PROVE Stands(new, f)
  <2>1. Covered(disk, f)
    BY <1>5 DEF Good
  <2>2. CASE new = [disk EXCEPT !.primary = NoFile, !.backup = disk.primary]
    <3>1. new.backup = disk.primary
      BY <2>2 DEF Shaped, Names, Artifacts, Markers
    <3> QED
      BY <3>1, <2>1, <1>5 DEF Covered, Stands
  <2>3. CASE /\ new = [disk EXCEPT !.primary = NoFile, !.backup = disk.backup]
             /\ disk.primary.drawing = Blank
    <3>1. new.backup = disk.backup
      BY <2>3 DEF Shaped, Names, Artifacts, Markers
    <3> QED
      BY <3>1, <2>1, <2>3, <1>5 DEF Covered, Stands
  <2> QED
    BY <2>2, <2>3, <1>5
<1>6. mislaid2 \/ Covered(new, f)
  BY <1>1, <1>2, <1>5 DEF Covered
<1> QED
  BY <1>4, <1>5, <1>6 DEF Good

\* The new session file, with content, or after a clear, or beside a marked backup.
LEMMA GoodRenamed ==
  ASSUME NEW disk, NEW next \in Nat, NEW clock \in Nat, Shaped(disk, next, clock), NEW f \in 0..clock,
         NEW expected, NEW mislaid, Good(disk, f, expected, mislaid),
         NEW drawing \in expected, clock # 0,
         \/ drawing # Blank \/ mislaid \/ ~(disk.clearMark < f)
         \/ Stands(disk, f) /\ disk.backupMark > disk.clearMark
  PROVE  Good([disk EXCEPT !.primary = [drawing |-> drawing, at |-> clock]], f, expected, mislaid)
<1> DEFINE new == [disk EXCEPT !.primary = [drawing |-> drawing, at |-> clock]]
<1>1. /\ new.primary = [drawing |-> drawing, at |-> clock]
      /\ new.recovery = disk.recovery /\ new.backup = disk.backup
      /\ new.clearMark = disk.clearMark /\ new.backupMark = disk.backupMark
  BY DEF Shaped, Names, Artifacts, Markers
<1>2. There(new.primary) /\ new.primary.at >= f /\ new.primary.drawing = drawing
  BY <1>1 DEF There
<1> HIDE DEF new
<1>3. Current(new, f, expected)
  BY <1>1, <1>2 DEF Good, Current, Artifacts
<1>4. mislaid \/ Covered(new, f)
  BY <1>1, <1>2 DEF Covered, Stands
<1>5. Good(new, f, expected, mislaid)
  BY <1>3, <1>4 DEF Good
<1> QED
  BY <1>5 DEF new

-----------------------------------------------------------------------------
(* The types are kept. *)

\* What a step leaves of the directory, and what may be found of it, is old or the
\* new contents.
Becomes(disk) ==
  \A d \in ssSurvive' \cup {ssDisk'} : d \in ssSurvive \cup {ssDisk} \/ d = disk

LEMMA FilesBecome ==
  ASSUME NEW disk, WritesDurably(disk) \/ Unsynced(disk) \/ Synced(disk) \/ UNCHANGED ssFiles
  PROVE  Becomes(disk)
BY DEF WritesDurably, Unsynced, Synced, ssFiles, Becomes

LEMMA FilesOKBecome ==
  ASSUME FilesOK, ssNext \in Nat, ssClock \in Nat, UNCHANGED ssNext, ssClock' \in {ssClock, ssClock + 1},
         NEW disk, Shaped(disk, ssNext, ssClock'), Becomes(disk)
  PROVE  FilesOK'
<1> SUFFICES ASSUME NEW d \in ssSurvive' \cup {ssDisk'} PROVE Shaped(d, ssNext', ssClock')
  BY DEF FilesOK
<1>1. CASE d \in ssSurvive \cup {ssDisk}
  BY <1>1, ShapedLater DEF FilesOK
<1>2. CASE d = disk
  BY <1>2
<1> QED
  BY <1>1, <1>2 DEF Becomes

\* A step of the worker.
LEMMA WorkerTypes ==
  ASSUME SsTypes, UNCHANGED <<ssLoop, ssUser>>, FilesOK', ssWork' \in Works(ssNext), BlankOK', TodoOK',
         ssExpected' \subseteq 0..ssNext, ssMislaid' \in BOOLEAN, NoLoss \/ Loss,
         ssClock' \in {ssClock, ssClock + 1}
  PROVE  SsTypes'
<1>1. UNCHANGED <<ssUp, ssCanvas, ssLoaded, ssOnDisk, ssDirty, ssFlight, ssTools, ssBig, ssNext,
                  ssStrokes, ssOrders>>
  BY DEF ssLoop, ssUser
<1>2. ssLosses' \in 0..MaxLosses
  BY SessionAssumption DEF SsTypes, BoundsOK, NoLoss, Loss
<1>3. ssClock' \in Nat \ {0} /\ ssNext' \in Nat \ {0} /\ ssWork' \in Works(ssNext')
  BY <1>1 DEF SsTypes
<1>4. FlagsOK' /\ DrawingsOK' /\ BoundsOK'
  BY <1>1, <1>2 DEF SsTypes, FlagsOK, DrawingsOK, BoundsOK
<1> QED
  BY <1>3, <1>4 DEF SsTypes

\* The next step of a save, with what it has still to do.
LEMMA NextStep ==
  ASSUME NEW next, ssWork \in Works(next), NEW step \in Steps
  PROVE  /\ [ssWork EXCEPT !.step = step] \in Works(next)
         /\ \A todo \in Seq(Names) : [ssWork EXCEPT !.step = step, !.todo = todo] \in Works(next)
BY DEF Works

LEMMA ToDoTyped ==
  ASSUME NEW next, ssWork \in Works(next), NEW step \in Steps, NEW then \in Steps,
         NEW todo \in Seq(Names), ToDo(step, todo, then)
  PROVE  ssWork' \in Works(next)
<1>1. (IF todo = <<>> THEN then ELSE step) \in Steps
  OBVIOUS
<1> QED
  BY <1>1, NextStep DEF ToDo

LEMMA ToTyped ==
  ASSUME SsTypes, NEW step \in Steps, To(step)
  PROVE  ssWork' \in Works(ssNext) /\ ssExpected' \subseteq 0..ssNext /\ ssMislaid' \in BOOLEAN
<1>1. UNCHANGED <<ssExpected, ssMislaid>> /\ ssWork' = [ssWork EXCEPT !.step = step]
  BY DEF To, ssHistory
<1> QED
  BY <1>1, NextStep DEF SsTypes, DrawingsOK, FlagsOK

\* The lists of what is to be done.
LEMMA Lists ==
  /\ <<"primary", "backup", "backupMark", "recovery", "recoveryMark">> \in Seq(Names \ {"clearMark"})
  /\ <<"backup", "backupMark", "recovery", "recoveryMark">> \in Seq(Names \ {"clearMark"})
  /\ <<"recovery", "recoveryMark">> \in Seq({"recovery", "recoveryMark"})
  /\ <<"clearMark", "backupMark", "recoveryMark", "recovery">> \in Seq(Names \ {"primary"})
  /\ <<"backup">> \in Seq(Names \ {"primary"}) /\ <<"recovery">> \in Seq(Names \ {"primary"})
  /\ <<"backupMark">> \in Seq({"backupMark", "recoveryMark"})
  /\ <<"recoveryMark">> \in Seq({"backupMark", "recoveryMark"})
BY DEF Names, Artifacts, Markers

LEMMA SeqWider ==
  ASSUME NEW S, NEW T, S \subseteq T, NEW s \in Seq(S)
  PROVE  s \in Seq(T)
OBVIOUS

LEMMA LeftoversTyped ==
  ASSUME BlankOK
  PROVE  /\ ssWork.drawing # Blank => Leftovers \in Seq(Names \ {"primary"}) /\ Leftovers # <<>>
         /\ ssWork.drawing = Blank /\ ssWork.boundary => Leftovers \in Seq(Names \ {"clearMark"})
         /\ Contentless => Leftovers \in Seq({"recovery", "recoveryMark"})
         /\ Leftovers \in Seq(Names)
<1> DEFINE a == IF Stale("backup") THEN <<"backup">> ELSE <<>>
           b == IF Stale("recovery") THEN <<"recovery">> ELSE <<>>
           rest == <<"clearMark", "backupMark", "recoveryMark", "recovery">>
           S == Names \ {"primary"}
<1>1. a \in Seq(S) /\ b \in Seq(S) /\ rest \in Seq(S) /\ Len(rest) = 4
  <2>1. <<>> \in Seq(S)
    OBVIOUS
  <2>2. Len(rest) = 4
    OBVIOUS
  <2> QED
    BY <2>1, <2>2, Lists, Zenon
<1>2. a \o b \in Seq(S) /\ Len(a \o b) \in Nat
  <2> HIDE DEF a, b, rest, S
  <2> QED
    BY <1>1
<1>3. a \o b \o rest \in Seq(S) /\ a \o b \o rest # <<>>
  <2> DEFINE ab == a \o b
  <2>1. ab \in Seq(S) /\ Len(ab) \in Nat
    BY <1>2
  <2> HIDE DEF a, b, rest, S, ab
  <2>2. ab \o rest \in Seq(S) /\ Len(ab \o rest) = Len(ab) + Len(rest)
    BY <2>1, <1>1, ConcatProperties
  <2>3. ab \o rest # <<>>
    <3>1. Len(ab \o rest) # 0
      BY <2>2, <2>1, <1>1
    <3> QED
      BY <3>1
  <2> QED
    BY <2>2, <2>3 DEF ab
<1>4. ssWork.drawing # Blank => Leftovers \in Seq(S) /\ Leftovers # <<>>
  <2>1. ssWork.drawing # Blank => Leftovers = a \o b \o rest
    BY DEF Leftovers, Contentless, BlankOK
  <2> QED
    BY <2>1, <1>3
<1>5. ssWork.drawing = Blank /\ ssWork.boundary => Leftovers \in Seq(Names \ {"clearMark"})
  <2>1. ssWork.drawing = Blank /\ ssWork.boundary
          => Leftovers = <<"backup", "backupMark", "recovery", "recoveryMark">>
    BY DEF Leftovers, Contentless
  <2> QED
    BY <2>1, Lists
<1>6. Contentless => Leftovers \in Seq({"recovery", "recoveryMark"})
  <2>1. Contentless => Leftovers = <<"recovery", "recoveryMark">> \/ Leftovers = <<>>
    BY DEF Leftovers, Contentless
  <2>2. <<>> \in Seq({"recovery", "recoveryMark"})
    OBVIOUS
  <2> QED
    BY <2>1, <2>2, Lists, Zenon
<1>7. /\ S \subseteq Names /\ Names \ {"clearMark"} \subseteq Names
      /\ {"recovery", "recoveryMark"} \subseteq Names
  BY DEF Names, Artifacts, Markers
<1>8. Leftovers \in Seq(Names)
  <2> HIDE DEF S
  <2> QED
    BY <1>4, <1>5, <1>6, <1>7, SeqWider DEF Contentless
<1> QED
  BY <1>4, <1>5, <1>6, <1>8

\* A save stays the same save from one of its steps to the next.
SameSave ==
  /\ ssWork'.drawing = ssWork.drawing /\ ssWork'.empty = ssWork.empty
  /\ ssWork'.boundary = ssWork.boundary /\ ssWork'.had = ssWork.had

LEMMA ToFields ==
  ASSUME ssWork \in Works(ssNext), NEW step, To(step)
  PROVE  SameSave /\ ssWork'.step = step
BY DEF To, SameSave, Works

LEMMA ToDoFields ==
  ASSUME ssWork \in Works(ssNext), NEW step, NEW todo, NEW then, ToDo(step, todo, then)
  PROVE  SameSave /\ ssWork'.step = (IF todo = <<>> THEN then ELSE step) /\ ssWork'.todo = todo
BY DEF ToDo, SameSave, Works

LEMMA BlankKept ==
  ASSUME BlankOK, SameSave, ssWork'.step # "clear"
  PROVE  BlankOK'
BY DEF BlankOK, SameSave

LEMMA TodoDone ==
  ASSUME ssWork'.step \notin {"mark", "tidy"}
  PROVE  TodoOK'
BY DEF TodoOK

LEMMA TodoKept ==
  ASSUME NEW todo, NEW step \in {"mark", "tidy"}, NEW then \in {"rename", "saved"},
         step = "mark" => todo \in Seq({"backupMark", "recoveryMark"}),
         ssWork'.step = (IF todo = <<>> THEN then ELSE step), ssWork'.todo = todo
  PROVE  TodoOK'
BY DEF TodoOK

LEMMA PrepareTypes == ASSUME SsTypes, SsPrepare PROVE SsTypes'
<1> USE DEF SsPrepare, AtStep
<1>1. /\ ssWork \in Works(ssNext) /\ ssWork.drawing \in 0..ssNext /\ BlankOK
      /\ ssClock \in Nat /\ ssNext \in Nat /\ FilesOK /\ UNCHANGED ssNext
      /\ Shaped(ssDisk, ssNext, ssClock)
  BY DEF SsTypes, Works, FilesOK, ssUser
<1>2. /\ ssExpected \subseteq 0..ssNext /\ ssMislaid \in BOOLEAN
  BY DEF SsTypes, DrawingsOK, FlagsOK
<1>3. Shaped(ssDisk, ssNext, ssClock + 1)
  BY <1>1, ShapedLater
<1>4. ASSUME UNCHANGED ssFiles, ssClock' \in {ssClock, ssClock + 1} PROVE FilesOK'
  <2>1. Becomes(ssDisk)
    BY <1>4, FilesBecome
  <2> QED
    BY <2>1, <1>1, <1>3, <1>4, FilesOKBecome
<1>5. ASSUME To("failed") PROVE ssWork' \in Works(ssNext) /\ BlankOK' /\ TodoOK'
                                  /\ ssExpected' \subseteq 0..ssNext /\ ssMislaid' \in BOOLEAN
  BY <1>1, <1>5, ToTyped, ToFields, BlankKept, TodoDone, TodoKept DEF Steps
<1>6. CASE /\ NoLoss /\ UNCHANGED <<ssFiles, ssHistory>> /\ ssClock' = ssClock + 1
           /\ ssWork' = [ssWork EXCEPT !.had = There(ssDisk.primary),
                                !.step = IF ssWork.empty \/ ssWork.boundary THEN "clear" ELSE "rotate"]
  <2>1. There(ssDisk.primary) \in BOOLEAN
    BY DEF There
  <2>2. (IF ssWork.empty \/ ssWork.boundary THEN "clear" ELSE "rotate") \in Steps
    BY DEF Steps
  <2>3. ssWork' \in Works(ssNext)
    BY <1>1, <1>6, <2>1, <2>2 DEF Works
  <2>4. /\ ssWork'.drawing = ssWork.drawing /\ ssWork'.empty = ssWork.empty
        /\ ssWork'.boundary = ssWork.boundary
        /\ ssWork'.step = IF ssWork.empty \/ ssWork.boundary THEN "clear" ELSE "rotate"
    BY <1>1, <1>6 DEF Works
  <2>5. BlankOK' /\ TodoOK'
    BY <1>1, <2>4 DEF BlankOK, TodoOK
  <2> QED
    BY <1>2, <1>4, <1>6, <2>3, <2>5, WorkerTypes DEF ssHistory
<1>7. CASE /\ To("failed") /\ ssClock' = ssClock + 1
           /\ WritesDurably([ssDisk EXCEPT !.recovery = [drawing |-> ssWork.drawing, at |-> ssClock + 1]])
  <2> DEFINE file == [drawing |-> ssWork.drawing, at |-> ssClock + 1]
             disk == [ssDisk EXCEPT !.recovery = file]
  <2>1. file \in [drawing : 0..ssNext, at : 0..(ssClock + 1)] /\ "recovery" \in Artifacts
    BY <1>1 DEF Artifacts
  <2>2. Shaped(disk, ssNext, ssClock + 1)
    <3> HIDE DEF file
    <3> QED
      BY <2>1, <1>3, ShapedFile
  <2>3. Becomes(disk)
    BY <1>7, FilesBecome
  <2>4. FilesOK'
    <3> HIDE DEF disk
    <3> QED
      BY <2>2, <2>3, <1>1, <1>7, FilesOKBecome
  <2>5. NoLoss \/ Loss
    BY <1>7 DEF WritesDurably
  <2> QED
    BY <2>4, <2>5, <1>5, <1>7, WorkerTypes
<1>8. CASE To("failed") /\ (NoLoss \/ Loss) /\ UNCHANGED <<ssFiles, ssClock>>
  BY <1>4, <1>5, <1>8, WorkerTypes
<1> QED
  BY <1>6, <1>7, <1>8

LEMMA ClearMarkTypes == ASSUME SsTypes, SsClearMark PROVE SsTypes'
<1> USE DEF SsClearMark, AtStep
<1> DEFINE disk == [ssDisk EXCEPT !.clearMark = ssClock]
           todo == <<"primary", "backup", "backupMark", "recovery", "recoveryMark">>
<1>1. /\ ssWork \in Works(ssNext) /\ BlankOK /\ ssClock \in Nat /\ ssNext \in Nat /\ FilesOK
      /\ UNCHANGED ssNext /\ Shaped(ssDisk, ssNext, ssClock) /\ ssClock' = ssClock
  BY DEF SsTypes, FilesOK, ssUser
<1>2. FilesOK'
  <2>1. Shaped(disk, ssNext, ssClock)
    <3>1. "clearMark" \in Markers /\ ssClock \in 0..ssClock
      BY <1>1 DEF Markers
    <3> QED
      BY <3>1, <1>1, ShapedMark
  <2>2. Becomes(disk)
    BY FilesBecome
  <2> HIDE DEF disk
  <2> QED
    BY <2>1, <2>2, <1>1, FilesOKBecome
<1>3. NoLoss \/ Loss
  BY DEF WritesDurably
<1>4. CASE To("failed") \/ To("rotate")
  <2>1. ssWork' \in Works(ssNext) /\ ssExpected' \subseteq 0..ssNext /\ ssMislaid' \in BOOLEAN
    BY <1>4, ToTyped DEF Steps
  <2>2. BlankOK' /\ TodoOK'
    BY <1>1, <1>4, ToFields, BlankKept, TodoDone, TodoKept
  <2> QED
    BY <2>1, <2>2, <1>1, <1>2, <1>3, WorkerTypes
<1>5. CASE ToDo("tidy", todo, "saved") /\ ssExpected' = {Blank} /\ ssMislaid' = FALSE
  <2>1. todo \in Seq(Names)
    <3>1. Names \ {"clearMark"} \subseteq Names
      OBVIOUS
    <3> QED
      BY <3>1, Lists, SeqWider
  <2>2. ssWork' \in Works(ssNext)
    <3> HIDE DEF todo
    <3> QED
      BY <2>1, <1>1, <1>5, ToDoTyped DEF Steps
  <2>3. BlankOK' /\ TodoOK'
    <3> HIDE DEF todo
    <3> QED
      BY <1>1, <1>5, ToDoFields, BlankKept, TodoDone, TodoKept
  <2>4. ssExpected' \subseteq 0..ssNext /\ ssMislaid' \in BOOLEAN
    <3>1. Blank \in 0..ssNext
      BY <1>1 DEF Blank
    <3> QED
      BY <3>1, <1>5, Zenon
  <2> QED
    BY <2>2, <2>3, <2>4, <1>1, <1>2, <1>3, WorkerTypes
<1> QED
  BY <1>4, <1>5

LEMMA RotateTypes == ASSUME SsTypes, SsRotate PROVE SsTypes'
<1> DEFINE held == There(ssDisk.primary)
           drops == KeepsBackup /\ ssDisk.backupMark # 0
           rotates == ~drops /\ BackupRetention > 0
           rotated == [ssDisk EXCEPT !.primary = NoFile, !.backup = IF rotates THEN ssDisk.primary ELSE @]
           marksBackup == IF held THEN drops \/ (rotates /\ Contentless) ELSE KeepsBackup
           first == IF marksBackup THEN <<"backupMark">> ELSE <<>>
           second == IF KeepsRecovery THEN <<"recoveryMark">> ELSE <<>>
           marks == first \o second
<1>1. /\ ssWork \in Works(ssNext) /\ BlankOK /\ ssClock \in Nat /\ ssNext \in Nat /\ FilesOK
      /\ Shaped(ssDisk, ssNext, ssClock)
  BY DEF SsTypes, FilesOK
<1>2. /\ UNCHANGED <<ssLoop, ssUser>> /\ ssClock' = ssClock /\ UNCHANGED ssNext
      /\ \/ /\ IF held THEN Unsynced(rotated) ELSE UNCHANGED ssFiles
            /\ ToDo("mark", marks, "rename") /\ NoLoss /\ UNCHANGED ssExpected
            /\ ssMislaid' = (ssMislaid \/ (held /\ drops /\ ssDisk.primary.drawing # Blank))
         \/ /\ Loss /\ UNCHANGED ssFiles
            /\ To("failed") \/ (ToDo("mark", marks, "rename") /\ UNCHANGED ssHistory)
  BY DEF SsRotate, AtStep, ssUser
<1>3. Shaped(rotated, ssNext, ssClock)
  <2> DEFINE without == [ssDisk EXCEPT !.primary = NoFile]
  <2>1. /\ "primary" \in Artifacts /\ "backup" \in Artifacts
        /\ NoFile \in [drawing : 0..ssNext, at : 0..ssClock]
        /\ ssDisk.primary \in [drawing : 0..ssNext, at : 0..ssClock]
    BY <1>1 DEF Shaped, Artifacts, NoFile, Blank
  <2>2. Shaped(without, ssNext, ssClock)
    BY <2>1, <1>1, ShapedFile
  <2>3. Shaped([without EXCEPT !.backup = ssDisk.primary], ssNext, ssClock)
    <3> HIDE DEF without
    <3> QED
      BY <2>1, <2>2, ShapedFile
  <2>4. CASE rotates
    <3>1. rotated = [without EXCEPT !.backup = ssDisk.primary]
      BY <2>4
    <3> QED
      BY <3>1, <2>3
  <2>5. CASE ~rotates
    <3>1. rotated = without
      BY <2>5, <1>1 DEF Shaped, Names, Artifacts, Markers
    <3> QED
      BY <3>1, <2>2
  <2> QED
    BY <2>4, <2>5
<1>4. FilesOK'
  <2>1. Becomes(rotated)
    <3> HIDE DEF rotated, held
    <3> QED
      BY <1>2, FilesBecome
  <2> HIDE DEF rotated
  <2> QED
    BY <2>1, <1>1, <1>2, <1>3, FilesOKBecome
<1>5. marks \in Seq({"backupMark", "recoveryMark"}) /\ marks \in Seq(Names)
  <2> DEFINE S == {"backupMark", "recoveryMark"}
  <2>1. <<>> \in Seq(S)
    OBVIOUS
  <2>2. first \in Seq(S) /\ second \in Seq(S)
    BY <2>1, Lists
  <2>3. S \subseteq Names
    BY DEF Names, Markers
  <2>4. marks \in Seq(S)
    <3> HIDE DEF first, second, S
    <3> QED
      BY <2>2, ConcatProperties
  <2> HIDE DEF marks, S
  <2>5. marks \in Seq(S) /\ marks \in Seq(Names)
    BY <2>3, <2>4, SeqWider
  <2> QED
    BY <2>5 DEF S
<1>6. ssMislaid' \in BOOLEAN /\ ssExpected' \subseteq 0..ssNext
  <2>1. ssMislaid \in BOOLEAN /\ ssExpected \subseteq 0..ssNext
    BY DEF SsTypes, FlagsOK, DrawingsOK
  <2>2. (ssMislaid \/ (held /\ drops /\ ssDisk.primary.drawing # Blank)) \in BOOLEAN
    BY Zenon
  <2> HIDE DEF held, drops, marks, rotated
  <2> QED
    BY <2>1, <2>2, <1>2 DEF To, ssHistory
<1>7. ssWork' \in Works(ssNext) /\ BlankOK' /\ TodoOK'
  <2> HIDE DEF marks
  <2>1. CASE ToDo("mark", marks, "rename")
    BY <2>1, <1>1, <1>5, ToDoTyped, ToDoFields, BlankKept, TodoDone, TodoKept DEF Steps
  <2>2. CASE To("failed")
    BY <2>2, <1>1, ToTyped, ToFields, BlankKept, TodoDone, TodoKept DEF Steps
  <2> QED
    BY <2>1, <2>2, <1>2
<1>8. NoLoss \/ Loss
  BY <1>2
<1> QED
  BY <1>1, <1>2, <1>4, <1>6, <1>7, <1>8, WorkerTypes

LEMMA MarkTypes == ASSUME SsTypes, SsMark PROVE SsTypes'
<1> DEFINE n == Head(ssWork.todo)
           rest == Tail(ssWork.todo)
           disk == [ssDisk EXCEPT ![n] = ssClock]
<1>1. /\ ssWork \in Works(ssNext) /\ BlankOK /\ ssClock \in Nat /\ ssNext \in Nat /\ FilesOK
      /\ Shaped(ssDisk, ssNext, ssClock)
  BY DEF SsTypes, FilesOK
<1>2. /\ UNCHANGED <<ssLoop, ssUser>> /\ ssClock' = ssClock /\ UNCHANGED ssNext
      /\ WritesDurably(disk)
      /\ To("failed") \/ (ToDo("mark", rest, "rename") /\ UNCHANGED ssHistory)
  BY DEF SsMark, AtStep, ssUser
<1>3. n \in {"backupMark", "recoveryMark"} /\ rest \in Seq({"backupMark", "recoveryMark"})
  <2>1. ssWork.todo \in Seq({"backupMark", "recoveryMark"}) /\ ssWork.todo # <<>>
    BY DEF SsTypes, TodoOK, SsMark, AtStep
  <2> QED
    BY <2>1, HeadTailProperties
<1>4. FilesOK'
  <2>1. n \in Markers /\ ssClock \in 0..ssClock
    BY <1>1, <1>3 DEF Markers
  <2>2. Shaped(disk, ssNext, ssClock)
    <3> HIDE DEF n
    <3> QED
      BY <2>1, <1>1, ShapedMark
  <2> HIDE DEF disk
  <2> QED
    BY <2>2, <1>1, <1>2, FilesBecome, FilesOKBecome
<1>5. rest \in Seq(Names)
  <2>1. {"backupMark", "recoveryMark"} \subseteq Names
    BY DEF Names, Markers
  <2> QED
    BY <2>1, <1>3, SeqWider
<1>6. ssMislaid' \in BOOLEAN /\ ssExpected' \subseteq 0..ssNext
  <2>1. ssMislaid \in BOOLEAN /\ ssExpected \subseteq 0..ssNext
    BY DEF SsTypes, FlagsOK, DrawingsOK
  <2> QED
    BY <2>1, <1>2 DEF To, ssHistory
<1>7. ssWork' \in Works(ssNext) /\ BlankOK' /\ TodoOK'
  <2> HIDE DEF rest
  <2>1. CASE ToDo("mark", rest, "rename")
    BY <2>1, <1>1, <1>3, <1>5, ToDoTyped, ToDoFields, BlankKept, TodoDone, TodoKept DEF Steps
  <2>2. CASE To("failed")
    BY <2>2, <1>1, ToTyped, ToFields, BlankKept, TodoDone, TodoKept DEF Steps
  <2> QED
    BY <2>1, <2>2, <1>2
<1>8. NoLoss \/ Loss
  BY <1>2 DEF WritesDurably
<1> QED
  BY <1>1, <1>2, <1>4, <1>6, <1>7, <1>8, WorkerTypes

LEMMA RenameTypes == ASSUME SsTypes, SsRename PROVE SsTypes'
<1> DEFINE file == [drawing |-> ssWork.drawing, at |-> ssClock]
           disk == [ssDisk EXCEPT !.primary = file]
<1>1. /\ ssWork \in Works(ssNext) /\ BlankOK /\ ssClock \in Nat /\ ssNext \in Nat /\ FilesOK
      /\ Shaped(ssDisk, ssNext, ssClock) /\ ssWork.drawing \in 0..ssNext
  BY DEF SsTypes, FilesOK, Works
<1>2. /\ UNCHANGED <<ssLoop, ssUser>> /\ ssClock' = ssClock /\ UNCHANGED ssNext
      /\ Unsynced(disk) \/ UNCHANGED ssFiles
      /\ To("failed") \/ To("sync")
      /\ NoLoss \/ Loss
  BY DEF SsRename, AtStep, ssUser
<1>3. FilesOK'
  <2>1. "primary" \in Artifacts /\ file \in [drawing : 0..ssNext, at : 0..ssClock]
    BY <1>1 DEF Artifacts
  <2>2. Shaped(disk, ssNext, ssClock)
    <3> HIDE DEF file
    <3> QED
      BY <2>1, <1>1, ShapedFile
  <2> HIDE DEF disk
  <2> QED
    BY <2>2, <1>1, <1>2, FilesBecome, FilesOKBecome
<1>4. /\ ssWork' \in Works(ssNext) /\ BlankOK' /\ TodoOK'
      /\ ssMislaid' \in BOOLEAN /\ ssExpected' \subseteq 0..ssNext
  BY <1>1, <1>2, ToTyped, ToFields, BlankKept, TodoDone, TodoKept DEF Steps
<1> QED
  BY <1>1, <1>2, <1>3, <1>4, WorkerTypes

LEMMA SyncTypes == ASSUME SsTypes, SsSync PROVE SsTypes'
<1>1. /\ ssWork \in Works(ssNext) /\ BlankOK /\ ssClock \in Nat /\ ssNext \in Nat /\ FilesOK
      /\ Shaped(ssDisk, ssNext, ssClock) /\ ssWork.drawing \in 0..ssNext
  BY DEF SsTypes, FilesOK, Works
<1>2. /\ UNCHANGED <<ssLoop, ssUser>> /\ ssClock' = ssClock /\ UNCHANGED ssNext
      /\ \/ /\ Synced(ssDisk) /\ NoLoss /\ ToDo("tidy", Leftovers, "saved")
            /\ UNCHANGED ssHistory \/ (ssExpected' = {ssWork.drawing} /\ ssMislaid' = FALSE)
         \/ Loss /\ To("failed") /\ UNCHANGED ssFiles
  BY DEF SsSync, AtStep, ssUser
<1>3. FilesOK'
  BY <1>1, <1>2, FilesBecome, FilesOKBecome
<1>4. ssWork' \in Works(ssNext) /\ BlankOK' /\ TodoOK'
  <2>1. CASE ToDo("tidy", Leftovers, "saved")
    BY <2>1, <1>1, LeftoversTyped, ToDoTyped, ToDoFields, BlankKept, TodoDone, TodoKept DEF Steps
  <2>2. CASE To("failed")
    BY <2>2, <1>1, ToTyped, ToFields, BlankKept, TodoDone, TodoKept DEF Steps
  <2> QED
    BY <2>1, <2>2, <1>2
<1>5. ssMislaid' \in BOOLEAN /\ ssExpected' \subseteq 0..ssNext
  <2>1. ssMislaid \in BOOLEAN /\ ssExpected \subseteq 0..ssNext
    BY DEF SsTypes, FlagsOK, DrawingsOK
  <2>2. {ssWork.drawing} \subseteq 0..ssNext /\ FALSE \in BOOLEAN
    BY <1>1
  <2> QED
    BY <2>1, <2>2, <1>2, Zenon DEF To, ssHistory
<1> QED
  BY <1>1, <1>2, <1>3, <1>4, <1>5, WorkerTypes

LEMMA TidyTypes == ASSUME SsTypes, SsTidy PROVE SsTypes'
<1> DEFINE n == Head(ssWork.todo)
           rest == Tail(ssWork.todo)
           disk == [ssDisk EXCEPT ![n] = EmptyDisk[n]]
<1>1. /\ ssWork \in Works(ssNext) /\ BlankOK /\ ssClock \in Nat /\ ssNext \in Nat /\ FilesOK
      /\ Shaped(ssDisk, ssNext, ssClock) /\ ssWork.todo \in Seq(Names)
      /\ ssMislaid \in BOOLEAN /\ ssExpected \subseteq 0..ssNext
  BY DEF SsTypes, FilesOK, FlagsOK, DrawingsOK, Works
<1>2. /\ UNCHANGED <<ssLoop, ssUser>> /\ ssClock' = ssClock /\ UNCHANGED <<ssNext, ssExpected, ssMislaid>>
      /\ Unsynced(disk) \/ UNCHANGED ssFiles
      /\ ToDo("tidy", rest, "saved")
      /\ (NoLoss \/ Loss) /\ ssWork.todo # <<>>
  BY DEF SsTypes, TodoOK, SsTidy, AtStep, ssUser, ssHistory
<1>3. n \in Names /\ rest \in Seq(Names)
  BY <1>1, <1>2, HeadTailProperties
<1>4. FilesOK'
  <2>1. Shaped(disk, ssNext, ssClock)
    <3> HIDE DEF n
    <3> QED
      BY <1>1, <1>3, ShapedWithout
  <2> HIDE DEF disk
  <2> QED
    BY <2>1, <1>1, <1>2, FilesBecome, FilesOKBecome
<1>5. ssWork' \in Works(ssNext) /\ BlankOK' /\ TodoOK'
  <2> HIDE DEF rest
  <2> QED
    BY <1>1, <1>2, <1>3, ToDoTyped, ToDoFields, BlankKept, TodoDone, TodoKept DEF Steps
<1> QED
  BY <1>1, <1>2, <1>4, <1>5, WorkerTypes

\* A step of the event loop or of the user leaves the files or a part of them.
Fewer == \A d \in ssSurvive' \cup {ssDisk'} : d \in ssSurvive \cup {ssDisk}

\* What changes outside the save.
LEMMA LoopTypes ==
  ASSUME SsTypes, Fewer, UNCHANGED <<ssClock, ssMislaid>>, ssNext' \in {ssNext, ssNext + 1},
         FlagsOK', DrawingsOK', ssLosses' \in 0..MaxLosses, ssStrokes' \in 0..MaxStrokes,
         ssOrders' \in 0..MaxOrders, ssWork' = NoSave \/ UNCHANGED ssWork
  PROVE  SsTypes'
<1>1. ssNext \in Nat \ {0} /\ ssClock \in Nat \ {0} /\ FilesOK
  BY DEF SsTypes
<1>2. FilesOK'
  <2> SUFFICES ASSUME NEW d \in ssSurvive' \cup {ssDisk'} PROVE Shaped(d, ssNext', ssClock')
    BY DEF FilesOK
  <2> QED
    BY <1>1, ShapedLater DEF FilesOK, Fewer
<1>3. ssWork' \in Works(ssNext') /\ BlankOK' /\ TodoOK'
  <2>1. CASE ssWork' = NoSave
    <3>1. <<>> \in Seq(Names) /\ Blank \in 0..ssNext'
      BY <1>1 DEF Blank
    <3>2. NoSave \in Works(ssNext')
      BY <3>1 DEF NoSave, Works, Steps, Kinds
    <3> QED
      BY <2>1, <3>2 DEF BlankOK, TodoOK, NoSave
  <2>2. CASE UNCHANGED ssWork
    <3>1. 0..ssNext \subseteq 0..ssNext' /\ ssWork \in Works(ssNext)
      BY <1>1 DEF SsTypes
    <3>2. ssWork \in Works(ssNext')
      BY <3>1 DEF Works
    <3>3. BlankOK' /\ TodoOK'
      BY <2>2 DEF SsTypes, BlankOK, TodoOK
    <3> QED
      BY <2>2, <3>2, <3>3
  <2> QED
    BY <2>1, <2>2
<1>4. ssNext' \in Nat \ {0} /\ ssClock' \in Nat \ {0} /\ BoundsOK'
  BY <1>1 DEF BoundsOK
<1> QED
  BY <1>2, <1>3, <1>4 DEF SsTypes

LEMMA FilesFewer ==
  ASSUME UNCHANGED ssFiles
  PROVE  Fewer
BY DEF ssFiles, Fewer

LEMMA LossTyped ==
  ASSUME SsTypes, Loss \/ NoLoss
  PROVE  ssLosses' \in 0..MaxLosses
BY SessionAssumption DEF SsTypes, BoundsOK, Loss, NoLoss

\* The types of the parts, one by one.
Typed ==
  /\ ssTools \in BOOLEAN /\ ssUp \in BOOLEAN /\ ssLoaded \in BOOLEAN /\ ssOnDisk \in BOOLEAN
  /\ ssDirty \in BOOLEAN /\ ssFlight \in BOOLEAN /\ ssMislaid \in BOOLEAN
  /\ ssCanvas \in 0..ssNext /\ ssBig \subseteq 0..ssNext /\ ssExpected \subseteq 0..ssNext
  /\ ssLosses \in 0..MaxLosses /\ ssStrokes \in 0..MaxStrokes /\ ssOrders \in 0..MaxOrders
  /\ ssNext \in Nat \ {0}

LEMMA TypedParts == ASSUME SsTypes PROVE Typed
BY DEF SsTypes, Typed, FlagsOK, DrawingsOK, BoundsOK

LEMMA FlagsFrom ==
  ASSUME Typed, UNCHANGED <<ssTools, ssMislaid>>, ssUp' \in BOOLEAN, ssLoaded' \in BOOLEAN,
         ssOnDisk' \in BOOLEAN, ssDirty' \in BOOLEAN, ssFlight' \in BOOLEAN
  PROVE  FlagsOK'
BY DEF Typed, FlagsOK

\* Counters that only orders and losses move.
LEMMA OrderTyped ==
  ASSUME Typed, ssOrders < MaxOrders, ssOrders' = ssOrders + 1
  PROVE  ssOrders' \in 0..MaxOrders
BY SessionAssumption DEF Typed

\* A load, or one that fails.
LEMMA LoadTyped ==
  ASSUME SsTypes, Loads \/ LoadFails
  PROVE  /\ ssCanvas' \in 0..ssNext /\ ssOnDisk' \in BOOLEAN /\ ssLoaded' \in BOOLEAN
         /\ ssDirty' \in BOOLEAN /\ ssLosses' \in 0..MaxLosses
<1>1. Typed
  BY TypedParts
<1>2. CASE Loads
  <2>1. RestoredFrom(ssDisk) \in 0..ssNext
    BY RestoredInRange DEF SsTypes, FilesOK
  <2>2. (RestoredFrom(ssDisk) # Blank) \in BOOLEAN
    BY Zenon
  <2>3. ssLosses' \in 0..MaxLosses
    BY <1>2, LossTyped DEF Loads
  <2>4. /\ ssCanvas' = RestoredFrom(ssDisk) /\ ssOnDisk' = (RestoredFrom(ssDisk) # Blank)
        /\ ssLoaded' = TRUE /\ ssDirty' = FALSE
    BY <1>2 DEF Loads
  <2> QED
    BY <2>1, <2>2, <2>3, <2>4, Zenon
<1>3. CASE LoadFails
  BY <1>1, <1>3, LossTyped DEF LoadFails, Typed
<1> QED
  BY <1>2, <1>3

LEMMA EndsTyped ==
  ASSUME Typed, Ends
  PROVE  /\ ssCanvas' \in 0..ssNext /\ ssUp' \in BOOLEAN /\ ssLoaded' \in BOOLEAN
         /\ ssOnDisk' \in BOOLEAN /\ ssDirty' \in BOOLEAN /\ ssFlight' \in BOOLEAN
<1>1. Blank \in 0..ssNext
  BY DEF Typed, Blank
<1>2. /\ ssUp' = FALSE /\ ssCanvas' = Blank /\ ssLoaded' = FALSE /\ ssOnDisk' = FALSE
      /\ ssDirty' = FALSE /\ ssFlight' = FALSE
  BY DEF Ends
<1> QED
  BY <1>1, <1>2, Zenon

LEMMA StartTypes == ASSUME SsTypes, SsStart PROVE SsTypes'
<1>1. Typed
  BY TypedParts
<1>2. /\ ssUp' = TRUE /\ (Loads \/ LoadFails)
      /\ UNCHANGED <<ssFiles, ssTools, ssBig, ssNext, ssStrokes, ssOrders, ssFlight, ssWork, ssClock,
                     ssExpected, ssMislaid>>
  BY DEF SsStart, ssUser, ssHistory
<1>3. FlagsOK'
  <2>1. ssLoaded' \in BOOLEAN /\ ssOnDisk' \in BOOLEAN /\ ssDirty' \in BOOLEAN
    BY <1>2, LoadTyped
  <2>2. ssUp' \in BOOLEAN /\ ssFlight' \in BOOLEAN
    <3>1. ssUp' = TRUE /\ ssFlight' = ssFlight
      BY <1>2
    <3> QED
      BY <3>1, <1>1, Zenon DEF Typed
  <2> QED
    BY <1>1, <1>2, <2>1, <2>2, FlagsFrom
<1>4. DrawingsOK' /\ ssLosses' \in 0..MaxLosses /\ ssStrokes' \in 0..MaxStrokes /\ ssOrders' \in 0..MaxOrders
  BY <1>1, <1>2, LoadTyped DEF Typed, DrawingsOK
<1> QED
  BY <1>2, <1>3, <1>4, FilesFewer, LoopTypes

LEMMA ChangeTypes == ASSUME SsTypes, SsChange PROVE SsTypes'
<1>1. Typed
  BY TypedParts
<1>2. /\ ssStrokes < MaxStrokes /\ ssStrokes' = ssStrokes + 1 /\ ssDirty' = TRUE
      /\ \/ /\ ssCanvas' = ssNext /\ ssNext' = ssNext + 1
            /\ ssBig' \in {ssBig, ssBig \cup {ssNext}}
         \/ ssCanvas' = Blank /\ UNCHANGED <<ssNext, ssBig>>
      /\ UNCHANGED <<ssFiles, ssTools, ssOrders, ssUp, ssLoaded, ssOnDisk, ssFlight, ssWork, ssClock,
                     ssLosses, ssExpected, ssMislaid>>
  BY DEF SsChange, ssHistory
<1>3. FlagsOK'
  BY <1>1, <1>2, FlagsFrom DEF Typed
<1>4. ssStrokes' \in 0..MaxStrokes
  BY <1>1, <1>2, SessionAssumption DEF Typed
<1>5. DrawingsOK' /\ ssNext' \in {ssNext, ssNext + 1}
  <2>1. CASE /\ ssCanvas' = ssNext /\ ssNext' = ssNext + 1
             /\ ssBig' \in {ssBig, ssBig \cup {ssNext}}
    BY <2>1, <1>1, <1>2 DEF Typed, DrawingsOK
  <2>2. CASE ssCanvas' = Blank /\ UNCHANGED <<ssNext, ssBig>>
    BY <2>2, <1>1, <1>2 DEF Typed, DrawingsOK, Blank
  <2> QED
    BY <2>1, <2>2, <1>2
<1>6. ssLosses' \in 0..MaxLosses /\ ssOrders' \in 0..MaxOrders
  BY <1>1, <1>2 DEF Typed
<1> QED
  BY <1>2, <1>3, <1>4, <1>5, <1>6, FilesFewer, LoopTypes

LEMMA WithoutSaveTypes == ASSUME SsTypes, SsWithoutSave PROVE SsTypes'
<1>1. Typed
  BY TypedParts
<1>2. /\ ssOrders < MaxOrders /\ ssOrders' = ssOrders + 1
      /\ \/ Ends /\ NoLoss
         \/ (Loads \/ LoadFails) /\ UNCHANGED <<ssUp, ssFlight>>
      /\ UNCHANGED <<ssFiles, ssTools, ssBig, ssNext, ssStrokes, ssWork, ssClock, ssExpected, ssMislaid>>
  BY DEF SsWithoutSave, ssHistory
<1>3. /\ FlagsOK' /\ ssLosses' \in 0..MaxLosses /\ ssCanvas' \in 0..ssNext
  <2>1. CASE Ends /\ NoLoss
    BY <2>1, <1>1, <1>2, EndsTyped, FlagsFrom, LossTyped
  <2>2. CASE (Loads \/ LoadFails) /\ UNCHANGED <<ssUp, ssFlight>>
    BY <2>2, <1>1, <1>2, LoadTyped, FlagsFrom DEF Typed
  <2> QED
    BY <2>1, <2>2, <1>2
<1>4. DrawingsOK' /\ ssStrokes' \in 0..MaxStrokes /\ ssOrders' \in 0..MaxOrders
  BY <1>1, <1>2, <1>3, OrderTyped DEF Typed, DrawingsOK
<1> QED
  BY <1>2, <1>3, <1>4, FilesFewer, LoopTypes

LEMMA EndTypes ==
  ASSUME SsTypes, SsAutosaveEnds \/ SsSaveEnds \/ SsClearEnds \/ SsReloadEnds \/ SsExitEnds
  PROVE  SsTypes'
<1>1. Typed
  BY TypedParts
<1>2. /\ ssWork' = NoSave
      /\ UNCHANGED <<ssFiles, ssTools, ssBig, ssNext, ssStrokes, ssOrders, ssClock, ssExpected, ssMislaid>>
  BY DEF SsAutosaveEnds, SsSaveEnds, SsClearEnds, SsReloadEnds, SsExitEnds, AtEnd, ssUser, ssHistory
<1>3. (ssWork.drawing # Blank) \in BOOLEAN /\ (ssDirty \/ ~Saved) \in BOOLEAN
      /\ (ssDirty /\ ~Saved) \in BOOLEAN
  BY Zenon
<1>4. (IF Saved THEN ssWork.drawing # Blank ELSE ssOnDisk) \in BOOLEAN
  BY <1>1, <1>3, Zenon DEF Typed
<1>5. FlagsOK' /\ ssLosses' \in 0..MaxLosses /\ ssCanvas' \in 0..ssNext
  <2>1. CASE SsAutosaveEnds
    <3>1. /\ ssFlight' = FALSE /\ ssOnDisk' = (IF Saved THEN ssWork.drawing # Blank ELSE ssOnDisk)
          /\ ssDirty' = (ssDirty \/ ~Saved) /\ UNCHANGED <<ssUp, ssCanvas, ssLoaded, ssLosses>>
      BY <2>1 DEF SsAutosaveEnds
    <3>2. ssFlight' \in BOOLEAN /\ ssOnDisk' \in BOOLEAN /\ ssDirty' \in BOOLEAN
      BY <3>1, <1>3, <1>4, Zenon
    <3> QED
      BY <3>1, <3>2, <1>1, <1>2, FlagsFrom DEF Typed
  <2>2. CASE SsSaveEnds
    <3>1. /\ ssOnDisk' = (IF Saved THEN ssWork.drawing # Blank ELSE ssOnDisk)
          /\ ssDirty' = (ssDirty /\ ~Saved) /\ UNCHANGED <<ssUp, ssCanvas, ssLoaded, ssFlight, ssLosses>>
      BY <2>2 DEF SsSaveEnds
    <3>2. ssOnDisk' \in BOOLEAN /\ ssDirty' \in BOOLEAN
      BY <3>1, <1>3, <1>4, Zenon
    <3> QED
      BY <3>1, <3>2, <1>1, <1>2, FlagsFrom DEF Typed
  <2>3. CASE SsClearEnds
    <3>1. /\ \/ ssCanvas' = Blank /\ ssLoaded' = TRUE /\ ssOnDisk' = FALSE /\ ssDirty' = FALSE
             \/ UNCHANGED <<ssCanvas, ssLoaded, ssOnDisk, ssDirty>>
          /\ UNCHANGED <<ssUp, ssFlight, ssLosses>>
      BY <2>3 DEF SsClearEnds
    <3>2. /\ ssCanvas' \in 0..ssNext /\ ssLoaded' \in BOOLEAN
          /\ ssOnDisk' \in BOOLEAN /\ ssDirty' \in BOOLEAN
      <4>1. Blank \in 0..ssNext
        BY <1>1 DEF Typed, Blank
      <4> QED
        BY <3>1, <4>1, <1>1, Zenon DEF Typed
    <3> QED
      BY <3>1, <3>2, <1>1, <1>2, FlagsFrom DEF Typed
  <2>4. CASE SsReloadEnds
    <3>1. UNCHANGED <<ssUp, ssFlight>>
      BY <2>4 DEF SsReloadEnds
    <3>2. CASE Loads
      BY <3>1, <3>2, <1>1, <1>2, LoadTyped, FlagsFrom DEF Typed
    <3>3. CASE /\ Loss /\ UNCHANGED <<ssCanvas, ssLoaded>>
               /\ ssOnDisk' = (ssWork.drawing # Blank) /\ ssDirty' = FALSE
      <4>1. ssOnDisk' \in BOOLEAN
        BY <3>3, <1>3, Zenon
      <4> QED
        BY <3>1, <3>3, <4>1, <1>1, <1>2, LossTyped, FlagsFrom DEF Typed
    <3>4. CASE NoLoss /\ UNCHANGED <<ssCanvas, ssLoaded, ssOnDisk, ssDirty>>
      BY <3>1, <3>4, <1>1, <1>2, LossTyped, FlagsFrom DEF Typed
    <3> QED
      BY <2>4, <3>2, <3>3, <3>4 DEF SsReloadEnds
  <2>5. CASE SsExitEnds
    <3>1. Ends /\ NoLoss
      BY <2>5 DEF SsExitEnds
    <3> QED
      BY <3>1, <1>1, <1>2, EndsTyped, FlagsFrom, LossTyped
  <2> QED
    BY <2>1, <2>2, <2>3, <2>4, <2>5
<1>6. DrawingsOK' /\ ssStrokes' \in 0..MaxStrokes /\ ssOrders' \in 0..MaxOrders
  BY <1>1, <1>2, <1>5 DEF Typed, DrawingsOK
<1> QED
  BY <1>2, <1>5, <1>6, FilesFewer, LoopTypes

LEMMA CrashTypes == ASSUME SsTypes, SsCrash PROVE SsTypes'
<1>1. Typed
  BY TypedParts
<1>2. /\ Loss /\ Ends /\ ssWork' = NoSave
      /\ UNCHANGED <<ssTools, ssBig, ssNext, ssStrokes, ssOrders, ssClock, ssExpected, ssMislaid>>
  BY DEF SsCrash, ssUser, ssHistory
<1>3. Fewer
  BY DEF SsCrash, ssFiles, Fewer
<1>4. FlagsOK' /\ DrawingsOK' /\ ssStrokes' \in 0..MaxStrokes /\ ssOrders' \in 0..MaxOrders
  <2>1. FlagsOK'
    BY <1>1, <1>2, EndsTyped, FlagsFrom
  <2>2. DrawingsOK' /\ ssStrokes' \in 0..MaxStrokes /\ ssOrders' \in 0..MaxOrders
    BY <1>1, <1>2, EndsTyped DEF Typed, DrawingsOK
  <2> QED
    BY <2>1, <2>2
<1>5. ssLosses' \in 0..MaxLosses
  BY <1>2, LossTyped
<1> QED
  BY <1>2, <1>3, <1>4, <1>5, LoopTypes

\* A save is handed to the worker.
LEMMA SubmitTypes ==
  ASSUME SsTypes, SsAutosave \/ SsSaveNow \/ SsClear \/ SsExit \/ SsReload
  PROVE  SsTypes'
<1>1. Typed /\ ssClock \in Nat \ {0} /\ FilesOK /\ ssWork \in Works(ssNext)
  BY TypedParts DEF SsTypes
<1>2. PICK kind \in Kinds, drawing \in {ssCanvas, Blank}, empty \in BOOLEAN, boundary \in BOOLEAN :
        SubmitSave(kind, drawing, empty, boundary) /\ (empty => drawing = Blank)
  <2>1. \A kind \in Kinds : SubmitCanvas(kind)
          => \E empty \in BOOLEAN, boundary \in BOOLEAN :
               SubmitSave(kind, ssCanvas, empty, boundary) /\ (empty => ssCanvas = Blank)
    <3>1. (ssCanvas = Blank /\ ~ssTools) \in BOOLEAN /\ ssOnDisk \in BOOLEAN
      BY <1>1, Zenon DEF Typed
    <3> QED
      BY <3>1, Zenon DEF SubmitCanvas
  <2>2. {"autosave", "save", "clear", "exit", "reload"} \subseteq Kinds
    BY DEF Kinds
  <2>3. CASE SsClear
    BY <2>2, <2>3 DEF SsClear
  <2>4. CASE \E kind \in Kinds : SubmitCanvas(kind)
    BY <2>1, <2>4, Zenon
  <2>5. SsClear \/ \E kind \in Kinds : SubmitCanvas(kind)
    BY <2>2 DEF SsAutosave, SsSaveNow, SsExit, SsReload
  <2> QED
    BY <2>3, <2>4, <2>5
<1>3. /\ UNCHANGED <<ssFiles, ssClock, ssLosses, ssMislaid, ssUp, ssCanvas, ssLoaded, ssOnDisk,
                     ssTools, ssBig, ssNext, ssStrokes>>
      /\ ssExpected' = ssExpected \cup {drawing}
      /\ ssWork' = [NoSave EXCEPT !.step = "prepare", !.kind = kind, !.drawing = drawing,
                                  !.empty = empty, !.boundary = (drawing = Blank /\ boundary)]
  BY <1>2 DEF SubmitSave
<1>4. drawing \in 0..ssNext
  BY <1>1, <1>2 DEF Typed, Blank
<1>5. /\ ssWork'.step = "prepare" /\ ssWork'.drawing = drawing /\ ssWork'.empty = empty
      /\ ssWork'.boundary = (drawing = Blank /\ boundary)
      /\ ssWork'.todo = <<>> /\ ssWork'.had = FALSE /\ ssWork'.kind = kind
      /\ ssWork' = [step |-> ssWork'.step, kind |-> ssWork'.kind, drawing |-> ssWork'.drawing,
                    empty |-> ssWork'.empty, boundary |-> ssWork'.boundary, had |-> ssWork'.had,
                    todo |-> ssWork'.todo]
  BY <1>3 DEF NoSave
<1>6. ssWork' \in Works(ssNext)
  <2>1. ssWork'.boundary \in BOOLEAN /\ ssWork'.had \in BOOLEAN /\ ssWork'.empty \in BOOLEAN
    BY <1>2, <1>5, Zenon
  <2>2. ssWork'.todo \in Seq(Names) /\ ssWork'.step \in Steps /\ ssWork'.kind \in Kinds
    BY <1>2, <1>5 DEF Steps
  <2>3. ssWork'.drawing \in 0..ssNext
    BY <1>4, <1>5
  <2> QED
    BY <2>1, <2>2, <2>3, <1>5, Zenon DEF Works
<1>7. BlankOK' /\ TodoOK'
  <2>1. ssWork'.boundary => drawing = Blank
    BY <1>5, Zenon
  <2> QED
    BY <2>1, <1>2, <1>5 DEF BlankOK, TodoOK
<1>8. FilesOK'
  <2>1. UNCHANGED ssNext /\ ssClock' \in {ssClock, ssClock + 1} /\ Becomes(ssDisk)
    BY <1>3, FilesBecome
  <2> QED
    BY <2>1, <1>1, <1>3, FilesOKBecome DEF FilesOK, Typed
<1>9. ssDirty' \in BOOLEAN /\ ssFlight' \in BOOLEAN /\ ssOrders' \in 0..MaxOrders
  <2>1. CASE SsAutosave
    <3>1. ssFlight' = TRUE /\ ssDirty' = FALSE /\ UNCHANGED ssOrders
      BY <2>1 DEF SsAutosave
    <3> QED
      BY <3>1, <1>1, Zenon DEF Typed
  <2>2. CASE Order
    <3>1. UNCHANGED <<ssDirty, ssFlight>> /\ ssOrders' \in 0..MaxOrders
      BY <2>2, <1>1, OrderTyped DEF Order
    <3> QED
      BY <3>1, <1>1 DEF Typed
  <2> QED
    BY <2>1, <2>2 DEF SsSaveNow, SsClear, SsExit, SsReload
<1>10. FlagsOK' /\ DrawingsOK' /\ BoundsOK'
  BY <1>1, <1>3, <1>4, <1>9 DEF Typed, FlagsOK, DrawingsOK, BoundsOK
<1> QED
  BY <1>1, <1>3, <1>6, <1>7, <1>8, <1>10 DEF SsTypes, Typed

LEMMA StutterTypes == ASSUME SsTypes, UNCHANGED ssVars PROVE SsTypes'
<1>1. /\ UNCHANGED <<ssDisk, ssSurvive, ssTools, ssBig, ssNext, ssStrokes, ssOrders, ssUp, ssCanvas, ssLoaded,
                     ssOnDisk, ssDirty, ssFlight, ssWork, ssClock, ssLosses, ssExpected, ssMislaid>>
  BY DEF ssVars, ssFiles, ssUser, ssLoop, ssHistory
<1> QED
  BY <1>1 DEF SsTypes, FilesOK, FlagsOK, DrawingsOK, BoundsOK, BlankOK, TodoOK

LEMMA InitTypes == SessionInit => SsTypes
<1> SUFFICES ASSUME SessionInit PROVE SsTypes
  OBVIOUS
<1> DEFINE one == [EmptyDisk EXCEPT !.primary = [drawing |-> 1, at |-> 1]]
<1>1. /\ ssDisk \in {EmptyDisk, one} /\ ssSurvive = {ssDisk} /\ ssBig = {} /\ ssTools \in BOOLEAN
      /\ ssUp = FALSE /\ ssCanvas = Blank
      /\ ssLoaded = FALSE /\ ssOnDisk = FALSE /\ ssDirty = FALSE /\ ssFlight = FALSE
      /\ ssWork = NoSave /\ ssClock = 1 /\ ssNext = 2
      /\ ssStrokes = 0 /\ ssOrders = 0 /\ ssLosses = 0
      /\ ssExpected = {RestoredFrom(ssDisk)} /\ ssMislaid = FALSE
  BY DEF SessionInit
<1>2. Shaped(EmptyDisk, 2, 1)
  BY DEF Shaped, EmptyDisk, Names, Artifacts, Markers, NoFile, Blank
<1>3. Shaped(one, 2, 1)
  <2>1. "primary" \in Artifacts /\ [drawing |-> 1, at |-> 1] \in [drawing : 0..2, at : 0..1]
    BY DEF Artifacts
  <2> QED
    BY <2>1, <1>2, ShapedFile
<1>4. Shaped(ssDisk, ssNext, ssClock)
  BY <1>1, <1>2, <1>3
<1>5. FilesOK
  BY <1>1, <1>4 DEF FilesOK
<1>6. RestoredFrom(ssDisk) \in 0..ssNext
  BY <1>1, <1>4, RestoredInRange
<1>7. FlagsOK
  BY <1>1, Zenon DEF FlagsOK
<1>8. DrawingsOK /\ BoundsOK
  BY <1>1, <1>6, SessionAssumption DEF DrawingsOK, BoundsOK, Blank
<1>9. ssWork \in Works(ssNext) /\ BlankOK /\ TodoOK
  <2>1. <<>> \in Seq(Names) /\ Blank \in 0..ssNext
    BY <1>1 DEF Blank
  <2> QED
    BY <2>1, <1>1 DEF NoSave, Works, Steps, Kinds, BlankOK, TodoOK
<1>10. ssClock \in Nat \ {0} /\ ssNext \in Nat \ {0}
  BY <1>1
<1> QED
  BY <1>5, <1>7, <1>8, <1>9, <1>10 DEF SsTypes

LEMMA TypesKept == ASSUME SsTypes, [SessionNext]_ssVars PROVE SsTypes'
<1>1. CASE SsStart BY <1>1, StartTypes
<1>2. CASE SsChange BY <1>2, ChangeTypes
<1>3. CASE SsAutosave \/ SsSaveNow \/ SsClear \/ SsExit \/ SsReload BY <1>3, SubmitTypes
<1>4. CASE SsWithoutSave BY <1>4, WithoutSaveTypes
<1>5. CASE SsAutosaveEnds \/ SsSaveEnds \/ SsClearEnds \/ SsReloadEnds \/ SsExitEnds BY <1>5, EndTypes
<1>6. CASE SsPrepare BY <1>6, PrepareTypes
<1>7. CASE SsClearMark BY <1>7, ClearMarkTypes
<1>8. CASE SsRotate BY <1>8, RotateTypes
<1>9. CASE SsMark BY <1>9, MarkTypes
<1>10. CASE SsRename BY <1>10, RenameTypes
<1>11. CASE SsSync BY <1>11, SyncTypes
<1>12. CASE SsTidy BY <1>12, TidyTypes
<1>13. CASE SsCrash BY <1>13, CrashTypes
<1>14. CASE UNCHANGED ssVars BY <1>14, StutterTypes
<1> QED
  BY <1>1, <1>2, <1>3, <1>4, <1>5, <1>6, <1>7, <1>8, <1>9, <1>10, <1>11, <1>12, <1>13, <1>14
  DEF SessionNext, SessionLoop, SessionWorker

\* The variables keep their types.
THEOREM SessionTypeCorrect == SessionSpec => []SessionTypeOK
<1>1. SessionSpec => []SsTypes
  BY InitTypes, TypesKept, PTL DEF SessionSpec
<1>2. SsTypes => SessionTypeOK
  <2> SUFFICES ASSUME SsTypes PROVE SessionTypeOK
    OBVIOUS
  <2>1. \A disk \in {ssDisk} \cup ssSurvive :
          /\ \A n \in Artifacts : disk[n] \in [drawing : 0..ssNext, at : 0..ssClock]
          /\ \A n \in Markers : disk[n] \in 0..ssClock
    BY DEF SsTypes, FilesOK, Shaped
  <2>2. ssWork.step \in Steps /\ ssWork.kind \in Kinds
    BY DEF SsTypes, Works
  <2>3. {ssTools, ssUp, ssLoaded, ssOnDisk, ssDirty, ssFlight, ssMislaid} \subseteq BOOLEAN
    BY Zenon DEF SsTypes, FlagsOK
  <2> QED
    BY <2>1, <2>2, <2>3 DEF SsTypes, DrawingsOK, BoundsOK, SessionTypeOK, Steps, Kinds
<1> QED
  BY <1>1, <1>2, PTL

-----------------------------------------------------------------------------
(* Every step keeps what holds since the last durable save.                 *)

\* A leftover is removed.
LEMMA GoodWithout ==
  ASSUME NEW disk, NEW next \in Nat, NEW clock \in Nat, Shaped(disk, next, clock), NEW f \in Nat,
         NEW expected, NEW mislaid, Good(disk, f, expected, mislaid), NEW n \in Names,
         \/ /\ There(disk.primary) /\ disk.primary.drawing # Blank /\ disk.primary.at >= f
            /\ disk.clearMark < f /\ n # "primary"
         \/ disk.clearMark >= f /\ n # "clearMark"
         \/ n \in {"recovery", "recoveryMark"}
  PROVE  Good([disk EXCEPT ![n] = EmptyDisk[n]], f, expected, mislaid)
<1> DEFINE new == [disk EXCEPT ![n] = EmptyDisk[n]]
<1>1. \A a \in Names : new[a] = IF a = n THEN EmptyDisk[a] ELSE disk[a]
  BY DEF Shaped
<1>2. \A a \in Artifacts : ~There(EmptyDisk[a])
  BY DEF EmptyDisk, There, NoFile
<1>3. EmptyDisk.clearMark = 0 /\ disk.clearMark \in Nat
  BY DEF EmptyDisk, Shaped, Artifacts, Markers
<1>4. {"primary", "backup", "recovery"} = Artifacts /\ Artifacts \subseteq Names
      /\ "clearMark" \in Names /\ "backupMark" \in Names
  BY DEF Names, Artifacts, Markers
<1>5. Current(disk, f, expected) /\ (mislaid \/ Covered(disk, f))
  BY DEF Good
<1> HIDE DEF new
<1>6. \A a \in Artifacts : There(new[a]) => new[a] = disk[a]
  BY <1>1, <1>2, <1>4
<1>7. new.clearMark >= f => disk.clearMark >= f
  <2>1. n # "clearMark" => new.clearMark = disk.clearMark
    BY <1>1, <1>4
  <2>2. n = "clearMark" => new.clearMark = 0 /\ disk.clearMark < f
    BY <1>1, <1>3, <1>4
  <2> QED
    BY <2>1, <2>2, <1>3
<1>8. Current(new, f, expected)
  BY <1>5, <1>6, <1>7 DEF Current
<1>9. ASSUME Covered(disk, f) PROVE Covered(new, f)
  <2>1. CASE /\ There(disk.primary) /\ disk.primary.drawing # Blank /\ disk.primary.at >= f
             /\ n # "primary"
    <3>1. new.primary = disk.primary
      BY <2>1, <1>1, <1>4
    <3> QED
      BY <3>1, <2>1 DEF Covered
  <2>2. CASE disk.clearMark >= f /\ n # "clearMark"
    <3>1. new.clearMark = disk.clearMark
      BY <2>2, <1>1, <1>4
    <3> QED
      BY <3>1, <2>2, <1>3 DEF Covered
  <2>3. CASE n \in {"recovery", "recoveryMark"}
    <3>1. /\ new.primary = disk.primary /\ new.backup = disk.backup
          /\ new.clearMark = disk.clearMark /\ new.backupMark = disk.backupMark
      BY <2>3, <1>1, <1>4
    <3> QED
      BY <3>1, <1>9 DEF Covered, Stands
  <2> QED
    BY <2>1, <2>2, <2>3
<1>10. Good(new, f, expected, mislaid)
  BY <1>5, <1>8, <1>9 DEF Good
<1> QED
  BY <1>10 DEF new

\* All directories stay good when the new one is.
LEMMA AllGoodBecome ==
  ASSUME NEW f, AllGood(f), ssMislaid \in BOOLEAN, ssMislaid' \in BOOLEAN,
         ssExpected \subseteq ssExpected', ssMislaid => ssMislaid', NEW disk, Becomes(disk),
         Good(disk, f, ssExpected', ssMislaid')
  PROVE  AllGood(f)'
<1> SUFFICES ASSUME NEW d \in ssSurvive' \cup {ssDisk'} PROVE Good(d, f, ssExpected', ssMislaid')
  BY DEF AllGood
<1>1. CASE d \in ssSurvive \cup {ssDisk}
  BY <1>1, GoodGrows DEF AllGood
<1>2. CASE d = disk
  BY <1>2
<1> QED
  BY <1>1, <1>2 DEF Becomes

LEMMA AllGoodFewer ==
  ASSUME NEW f, AllGood(f), ssMislaid \in BOOLEAN, ssMislaid' \in BOOLEAN,
         ssExpected \subseteq ssExpected', ssMislaid => ssMislaid', Fewer
  PROVE  AllGood(f)'
<1> SUFFICES ASSUME NEW d \in ssSurvive' \cup {ssDisk'} PROVE Good(d, f, ssExpected', ssMislaid')
  BY DEF AllGood
<1> QED
  BY GoodGrows DEF AllGood, Fewer

\* Between saves, and when a save has failed or is over, only its drawing matters.
LEMMA WorkQuiet ==
  ASSUME NEW f, ssWork'.step \in {"none", "prepare", "failed", "saved"},
         ssWork'.step # "none" => ssWork'.drawing \in ssExpected'
  PROVE  WorkOK(f)'
BY DEF WorkOK, Begun, Replacing, Clearing, Marking, Replaced, Tidying

LEMMA WorkFails ==
  ASSUME NEW f, SsTypes, WorkOK(f), ssWork.step # "none", To("failed")
  PROVE  WorkOK(f)' /\ UNCHANGED <<ssExpected, ssMislaid>>
<1>1. SameSave /\ ssWork'.step = "failed" /\ UNCHANGED <<ssExpected, ssMislaid>>
  BY ToFields DEF SsTypes, To, ssHistory
<1>2. ssWork'.drawing \in ssExpected'
  BY <1>1 DEF WorkOK, Begun, SameSave
<1> QED
  BY <1>1, <1>2, WorkQuiet

\* What the steps of the worker start from.
LEMMA Basics ==
  ASSUME SsTypes
  PROVE  /\ ssClock \in Nat \ {0} /\ ssNext \in Nat /\ ssWork \in Works(ssNext)
         /\ Shaped(ssDisk, ssNext, ssClock) /\ ssMislaid \in BOOLEAN /\ ssLosses \in Nat
         /\ BlankOK /\ TodoOK
BY SessionAssumption DEF SsTypes, FilesOK, FlagsOK, BoundsOK

LEMMA SinceLoop ==
  ASSUME SsTypes, SsTypes', NEW f \in Nat, Since(f), Fewer, UNCHANGED <<ssClock, ssMislaid>>,
         ssExpected \subseteq ssExpected', ssWork' = NoSave \/ ssWork'.step = "prepare",
         ssWork'.step # "none" => ssWork'.drawing \in ssExpected'
  PROVE  Since(f)'
<1>1. ssMislaid \in BOOLEAN /\ ssMislaid' \in BOOLEAN
  BY DEF SsTypes, FlagsOK
<1>2. AllGood(f)'
  BY <1>1, AllGoodFewer DEF Since
<1>3. WorkOK(f)'
  BY WorkQuiet DEF NoSave
<1> QED
  BY <1>2, <1>3 DEF Since

\* Nothing of the files and of the save changes.
LEMMA SinceSame ==
  ASSUME NEW f, Since(f), UNCHANGED <<ssFiles, ssWork, ssClock, ssHistory>>
  PROVE  Since(f)'
<1>1. UNCHANGED <<ssDisk, ssSurvive, ssWork, ssClock, ssExpected, ssMislaid>>
  BY DEF ssFiles, ssHistory
<1>2. AllGood(f)'
  BY <1>1 DEF Since, AllGood
<1>3. WorkOK(f)'
  BY <1>1 DEF Since, WorkOK, Begun, Replacing, Older, Clearing, Marking, Replaced, Tidying, Removes,
              Contentless
<1> QED
  BY <1>1, <1>2, <1>3 DEF Since

LEMMA SubmitSince ==
  ASSUME SsTypes, SsTypes', NEW f \in Nat, Since(f),
         SsAutosave \/ SsSaveNow \/ SsClear \/ SsExit \/ SsReload
  PROVE  Since(f)'
<1>1. \E kind, drawing, empty, boundary : SubmitSave(kind, drawing, empty, boundary)
  BY DEF SsAutosave, SsSaveNow, SsClear, SsExit, SsReload, SubmitCanvas
<1>2. PICK kind, drawing, empty, boundary : SubmitSave(kind, drawing, empty, boundary)
  BY <1>1
<1>3. /\ UNCHANGED <<ssFiles, ssClock, ssMislaid>> /\ ssExpected' = ssExpected \cup {drawing}
      /\ ssWork'.step = "prepare" /\ ssWork'.drawing = drawing
  BY <1>2 DEF SubmitSave, NoSave
<1> QED
  BY <1>3, FilesFewer, SinceLoop

LEMMA PrepareSince ==
  ASSUME SsTypes, SsTypes', NEW f \in Nat, Since(f), SsPrepare
  PROVE  Since(f)'
<1>1. /\ ssClock \in Nat \ {0} /\ ssNext \in Nat /\ ssWork \in Works(ssNext) /\ ssMislaid \in BOOLEAN
      /\ Shaped(ssDisk, ssNext, ssClock) /\ f \in 0..ssClock /\ AllGood(f) /\ WorkOK(f)
      /\ ssWork.step = "prepare" /\ Good(ssDisk, f, ssExpected, ssMislaid)
  BY Basics DEF Since, SsPrepare, AtStep, AllGood
<1>2. ssWork.drawing \in ssExpected
  BY <1>1 DEF WorkOK, Begun
<1>3. CASE /\ UNCHANGED <<ssFiles, ssHistory>> /\ ssClock' = ssClock + 1
           /\ ssWork' = [ssWork EXCEPT !.had = There(ssDisk.primary),
                                !.step = IF ssWork.empty \/ ssWork.boundary THEN "clear" ELSE "rotate"]
  <2>1. /\ UNCHANGED <<ssDisk, ssSurvive, ssExpected, ssMislaid>>
        /\ ssWork'.drawing = ssWork.drawing /\ ssWork'.boundary = ssWork.boundary
        /\ ssWork'.step = IF ssWork.empty \/ ssWork.boundary THEN "clear" ELSE "rotate"
    BY <1>1, <1>3 DEF ssFiles, ssHistory, Works
  <2>2. AllGood(f)' /\ f \in 0..ssClock'
    BY <1>1, <1>3, <2>1 DEF AllGood
  <2>3. Begun'
    BY <1>2, <2>1 DEF Begun
  <2>4. \A n \in Artifacts : ssDisk[n].at < ssClock + 1
    BY <1>1 DEF Shaped
  <2>5. Replacing'
    BY <2>1, <2>4, <1>3 DEF Replacing, Older
  <2>6. ssDisk.clearMark < ssClock + 1
    BY <1>1 DEF Shaped, Markers
  <2>7. Clearing'
    BY <2>1, <2>6, <1>3 DEF Clearing
  <2>8. Marking(f)' /\ Replaced' /\ Tidying(f)'
    BY <2>1 DEF Marking, Replaced, Tidying
  <2> QED
    BY <2>2, <2>3, <2>5, <2>7, <2>8 DEF Since, WorkOK
<1>4. CASE /\ To("failed") /\ ssClock' = ssClock + 1
           /\ WritesDurably([ssDisk EXCEPT !.recovery = [drawing |-> ssWork.drawing, at |-> ssClock + 1]])
  <2> DEFINE file == [drawing |-> ssWork.drawing, at |-> ssClock + 1]
             disk == [ssDisk EXCEPT !.recovery = file]
  <2>1. Becomes(disk)
    BY <1>4, FilesBecome
  <2>2. file.drawing \in ssExpected
    BY <1>2
  <2>3. Good(disk, f, ssExpected, ssMislaid)
    <3> HIDE DEF file
    <3> QED
      BY <2>2, <1>1, GoodCopied
  <2>4. WorkOK(f)' /\ UNCHANGED <<ssExpected, ssMislaid>>
    BY <1>1, <1>4, WorkFails
  <2>5. AllGood(f)'
    <3> HIDE DEF disk
    <3> QED
      BY <2>1, <2>3, <2>4, <1>1, AllGoodBecome
  <2> QED
    BY <2>4, <2>5, <1>1, <1>4 DEF Since
<1>5. CASE To("failed") /\ UNCHANGED <<ssFiles, ssClock>>
  <2>1. WorkOK(f)' /\ UNCHANGED <<ssExpected, ssMislaid>>
    BY <1>1, <1>5, WorkFails
  <2>2. AllGood(f)'
    BY <2>1, <1>1, <1>5, FilesFewer, AllGoodFewer
  <2> QED
    BY <2>1, <2>2, <1>1, <1>5 DEF Since
<1> QED
  BY <1>3, <1>4, <1>5 DEF SsPrepare

\* The clear marker, the first step of a clear.  An empty session is durable with it.
LEMMA ClearMarkSince ==
  ASSUME SsTypes, SsTypes', NEW f \in Nat, Since(f), SsClearMark, NEW g \in Nat, g = ssClock
  PROVE  Since(f)' \/ Since(g)'
<1> DEFINE disk == [ssDisk EXCEPT !.clearMark = ssClock]
           todo == <<"primary", "backup", "backupMark", "recovery", "recoveryMark">>
<1>1. /\ ssClock \in Nat \ {0} /\ ssNext \in Nat /\ ssWork \in Works(ssNext) /\ ssMislaid \in BOOLEAN
      /\ Shaped(ssDisk, ssNext, ssClock) /\ f \in 0..ssClock /\ AllGood(f) /\ WorkOK(f)
      /\ ssWork.step = "clear" /\ Good(ssDisk, f, ssExpected, ssMislaid) /\ BlankOK /\ ssLosses \in Nat
      /\ ssClock' = ssClock
  BY Basics DEF Since, SsClearMark, AtStep, AllGood
<1>2. /\ WritesDurably(disk)
      /\ \/ To("failed")
         \/ /\ Written /\ ssWork.empty /\ ToDo("tidy", todo, "saved")
            /\ ssExpected' = {Blank} /\ ssMislaid' = FALSE
         \/ Written /\ ~ssWork.empty /\ To("rotate")
  BY DEF SsClearMark
<1>3. ssWork.drawing = Blank /\ (ssWork.empty \/ ssWork.boundary) /\ Blank \in ssExpected
  BY <1>1 DEF BlankOK, WorkOK, Begun
<1>4. Good(disk, f, ssExpected, ssMislaid)
  BY <1>1, <1>3, GoodCleared
<1>5. /\ disk.clearMark = ssClock /\ \A n \in Artifacts : disk[n] = ssDisk[n] /\ disk[n].at < ssClock
  BY <1>1 DEF Shaped, Names, Artifacts, Markers, WorkOK, Replacing, Older
<1>6. ASSUME Written PROVE ssDisk' = disk /\ ssSurvive' = {disk}
  BY <1>1, <1>2, <1>6 DEF Written, WritesDurably, Synced, Loss
<1> HIDE DEF disk, todo
<1>7. ASSUME UNCHANGED <<ssExpected, ssMislaid>> PROVE AllGood(f)'
  BY <1>1, <1>2, <1>4, <1>7, FilesBecome, AllGoodBecome
<1>8. CASE To("failed")
  <2>1. WorkOK(f)' /\ UNCHANGED <<ssExpected, ssMislaid>>
    BY <1>1, <1>8, WorkFails
  <2> QED
    BY <2>1, <1>1, <1>7 DEF Since
<1>9. CASE Written /\ ~ssWork.empty /\ To("rotate")
  <2>1. SameSave /\ ssWork'.step = "rotate" /\ UNCHANGED <<ssExpected, ssMislaid>>
    BY <1>1, <1>9, ToFields DEF To, ssHistory
  <2>2. Begun' /\ Marking(f)' /\ Replaced' /\ Tidying(f)'
    BY <2>1, <1>3 DEF SameSave, Begun, Marking, Replaced, Tidying
  <2>3. Replacing' /\ Clearing'
    BY <2>1, <1>1, <1>3, <1>5, <1>6, <1>9 DEF SameSave, Replacing, Older, Clearing
  <2> QED
    BY <2>1, <2>2, <2>3, <1>1, <1>7 DEF Since, WorkOK
<1>10. CASE /\ Written /\ ssWork.empty /\ ToDo("tidy", todo, "saved")
            /\ ssExpected' = {Blank} /\ ssMislaid' = FALSE
  <2>1. SameSave /\ ssWork'.step \in {"tidy", "saved"} /\ ssWork'.todo = todo
    BY <1>1, <1>10, ToDoFields
  <2>2. Current(disk, g, {Blank}) /\ Covered(disk, g)
    <3>1. \A n \in Artifacts : ~(disk[n].at >= g)
      BY <1>1, <1>5 DEF Shaped
    <3>2. ~(disk.clearMark < g)
      BY <1>1, <1>5
    <3> QED
      BY <3>1, <3>2 DEF Current, Covered
  <2>3. AllGood(g)'
    BY <2>2, <1>6, <1>10 DEF AllGood, Good
  <2>4. Begun' /\ Replacing' /\ Clearing' /\ Marking(g)' /\ Replaced'
    BY <2>1, <1>3, <1>10 DEF SameSave, Begun, Replacing, Clearing, Marking, Replaced
  <2>5. Tidying(g)'
    <3>1. todo \in Seq(Names \ {"clearMark"})
      BY Lists DEF todo
    <3>2. ssDisk'.clearMark >= g
      BY <1>1, <1>5, <1>6, <1>10
    <3> QED
      BY <3>1, <3>2, <2>1 DEF Tidying, Removes
  <2>6. g \in 0..ssClock'
    BY <1>1
  <2> QED
    BY <2>3, <2>4, <2>5, <2>6 DEF Since, WorkOK
<1> QED
  BY <1>2, <1>8, <1>9, <1>10

\* The rotation.  With backups the session file stays as the backup, or the marked
\* backup does; and a blank session that is not a clear marks it.
LEMMA RotateSince ==
  ASSUME SsTypes, SsTypes', NEW f \in Nat, Since(f), SsRotate, BackupRetention > 0
  PROVE  Since(f)'
<1> DEFINE held == There(ssDisk.primary)
           drops == KeepsBackup /\ ssDisk.backupMark # 0
           rotates == ~drops /\ BackupRetention > 0
           rotated == [ssDisk EXCEPT !.primary = NoFile, !.backup = IF rotates THEN ssDisk.primary ELSE @]
           marksBackup == IF held THEN drops \/ (rotates /\ Contentless) ELSE KeepsBackup
           second == IF KeepsRecovery THEN <<"recoveryMark">> ELSE <<>>
           marks == (IF marksBackup THEN <<"backupMark">> ELSE <<>>) \o second
<1>1. /\ ssClock \in Nat \ {0} /\ ssNext \in Nat /\ ssWork \in Works(ssNext) /\ ssMislaid \in BOOLEAN
      /\ Shaped(ssDisk, ssNext, ssClock) /\ f \in 0..ssClock /\ AllGood(f) /\ WorkOK(f)
      /\ ssWork.step = "rotate" /\ Good(ssDisk, f, ssExpected, ssMislaid)
      /\ ssClock' = ssClock /\ ssMislaid' \in BOOLEAN
  BY Basics DEF Since, SsRotate, AtStep, AllGood, SsTypes, FlagsOK
<1>2. \/ /\ held /\ Unsynced(rotated) /\ ToDo("mark", marks, "rename") /\ UNCHANGED ssExpected
         /\ ssMislaid' = (ssMislaid \/ (held /\ drops /\ ssDisk.primary.drawing # Blank))
      \/ /\ ~held /\ UNCHANGED ssFiles /\ ToDo("mark", marks, "rename") /\ UNCHANGED ssExpected
         /\ ssMislaid' = (ssMislaid \/ (held /\ drops /\ ssDisk.primary.drawing # Blank))
      \/ UNCHANGED ssFiles /\ To("failed")
  BY DEF SsRotate
<1>3. Contentless => (marksBackup <=> (held \/ There(ssDisk.backup)))
  BY DEF KeepsBackup
<1>4. marksBackup => marks # <<>> /\ Head(marks) = "backupMark"
  <2> SUFFICES ASSUME marksBackup PROVE marks # <<>> /\ Head(marks) = "backupMark"
    OBVIOUS
  <2> DEFINE S == {"backupMark", "recoveryMark"}
             first == <<"backupMark">>
  <2>1. marks = first \o second
    OBVIOUS
  <2>2. first \in Seq(S) /\ Len(first) = 1 /\ first[1] = "backupMark"
    OBVIOUS
  <2>3. second \in Seq(S) /\ Len(second) \in Nat
    <3>1. <<>> \in Seq(S)
      OBVIOUS
    <3>2. second \in Seq(S)
      BY <3>1, Lists, Zenon
    <3> HIDE DEF second
    <3> QED
      BY <3>2
  <2> HIDE DEF marks, first, second, S
  <2>4. /\ Len(marks) = 1 + Len(second) /\ marks \in Seq(S)
        /\ marks[1] = "backupMark"
    <3>1. /\ first \o second \in Seq(S) /\ Len(first \o second) = Len(first) + Len(second)
          /\ \A i \in 1..Len(first) + Len(second) :
               (first \o second)[i] = IF i <= Len(first) THEN first[i] ELSE second[i - Len(first)]
      BY <2>2, <2>3, ConcatProperties, Zenon
    <3>2. 1 \in 1..Len(first) + Len(second) /\ 1 <= Len(first)
      BY <2>2, <2>3
    <3> QED
      BY <2>1, <2>2, <3>1, <3>2
  <2> QED
    BY <2>3, <2>4
<1>5. ssWork.drawing \in ssExpected /\ Older(ssDisk)
      /\ (IF ssWork.boundary THEN ssDisk.clearMark = ssClock ELSE ssDisk.clearMark < ssClock)
  BY <1>1 DEF WorkOK, Begun, Replacing, Clearing
<1> HIDE DEF marks
<1>6. ASSUME ToDo("mark", marks, "rename"), UNCHANGED ssExpected, AllGood(f)', Older(ssDisk)',
             ssDisk'.clearMark = ssDisk.clearMark,
             Contentless /\ ssDisk.clearMark < f /\ ~ssMislaid' => Stands(ssDisk', f) /\ marksBackup
      PROVE  Since(f)'
  <2>1. SameSave /\ ssWork'.step = (IF marks = <<>> THEN "rename" ELSE "mark") /\ ssWork'.todo = marks
    BY <1>1, <1>6, ToDoFields
  <2>2. Begun' /\ Replaced' /\ Tidying(f)' /\ Replacing'
    BY <2>1, <1>5, <1>6 DEF SameSave, Begun, Replaced, Tidying, Replacing
  <2>3. Clearing'
    BY <2>1, <1>1, <1>5, <1>6 DEF SameSave, Clearing
  <2>4. Contentless' <=> Contentless
    BY <2>1 DEF Contentless, SameSave
  <2>5. Marking(f)'
    BY <2>1, <2>4, <1>4, <1>6 DEF Marking
  <2> QED
    BY <2>2, <2>3, <2>5, <1>1, <1>6 DEF Since, WorkOK
<1>7. CASE /\ held /\ Unsynced(rotated) /\ ToDo("mark", marks, "rename") /\ UNCHANGED ssExpected
           /\ ssMislaid' = (ssMislaid \/ (held /\ drops /\ ssDisk.primary.drawing # Blank))
  <2>1. \/ rotated = [ssDisk EXCEPT !.primary = NoFile, !.backup = ssDisk.primary]
        \/ /\ rotated = [ssDisk EXCEPT !.primary = NoFile, !.backup = ssDisk.backup]
           /\ drops
    OBVIOUS
  <2>2. /\ ssMislaid => ssMislaid'
        /\ drops => ssMislaid' \/ ssDisk.primary.drawing = Blank
    BY <1>7
  <2>3. /\ rotated.clearMark = ssDisk.clearMark /\ rotated.primary = NoFile
        /\ rotated.backup \in {ssDisk.primary, ssDisk.backup} /\ rotated.recovery = ssDisk.recovery
    BY <2>1, <1>1 DEF Shaped, Names, Artifacts, Markers
  <2> HIDE DEF rotated
  <2>4. /\ Good(rotated, f, ssExpected, ssMislaid')
        /\ ssDisk.clearMark < f /\ ~ssMislaid' => Stands(rotated, f)
    <3> HIDE DEF drops
    <3> QED
      BY <2>1, <2>2, <1>1, <1>7, GoodRotated
  <2>5. ssDisk' = rotated
    BY <1>7 DEF Unsynced
  <2>6. Older(ssDisk)'
    BY <2>3, <2>5, <1>1, <1>5 DEF Older, Artifacts, NoFile
  <2>7. AllGood(f)'
    BY <2>2, <2>4, <1>1, <1>7, FilesBecome, AllGoodBecome
  <2>8. Contentless => marksBackup
    BY <1>3, <1>7
  <2> HIDE DEF marksBackup, drops, held
  <2> QED
    BY <2>3, <2>4, <2>5, <2>6, <2>7, <2>8, <1>6, <1>7
<1>8. CASE /\ ~held /\ UNCHANGED ssFiles /\ ToDo("mark", marks, "rename") /\ UNCHANGED ssExpected
           /\ ssMislaid' = (ssMislaid \/ (held /\ drops /\ ssDisk.primary.drawing # Blank))
  <2>1. UNCHANGED <<ssDisk, ssSurvive>> /\ (ssMislaid => ssMislaid')
    BY <1>8 DEF ssFiles
  <2>2. AllGood(f)' /\ Older(ssDisk)'
    BY <2>1, <1>1, <1>5, <1>8, FilesFewer, AllGoodFewer DEF Older
  <2>3. Contentless /\ ssDisk.clearMark < f /\ ~ssMislaid' => Stands(ssDisk, f) /\ marksBackup
    BY <2>1, <1>1, <1>3, <1>8 DEF Good, Covered, Stands
  <2> HIDE DEF marksBackup, drops, held
  <2> QED
    BY <2>1, <2>2, <2>3, <1>6, <1>8
<1>9. CASE UNCHANGED ssFiles /\ To("failed")
  <2>1. WorkOK(f)' /\ UNCHANGED <<ssExpected, ssMislaid>>
    BY <1>1, <1>9, WorkFails
  <2>2. AllGood(f)'
    BY <2>1, <1>1, <1>9, FilesFewer, AllGoodFewer
  <2> QED
    BY <2>1, <2>2, <1>1 DEF Since
<1> QED
  BY <1>2, <1>7, <1>8, <1>9

\* A marker is written.
LEMMA MarkSince ==
  ASSUME SsTypes, SsTypes', NEW f \in Nat, Since(f), SsMark
  PROVE  Since(f)'
<1> DEFINE n == Head(ssWork.todo)
           rest == Tail(ssWork.todo)
           disk == [ssDisk EXCEPT ![n] = ssClock]
<1>1. /\ ssClock \in Nat \ {0} /\ ssNext \in Nat /\ ssWork \in Works(ssNext) /\ ssMislaid \in BOOLEAN
      /\ Shaped(ssDisk, ssNext, ssClock) /\ f \in 0..ssClock /\ AllGood(f) /\ WorkOK(f)
      /\ ssWork.step = "mark" /\ Good(ssDisk, f, ssExpected, ssMislaid) /\ TodoOK /\ ssLosses \in Nat
      /\ ssClock' = ssClock
  BY Basics DEF Since, SsMark, AtStep, AllGood
<1>2. /\ WritesDurably(disk)
      /\ \/ Written /\ ToDo("mark", rest, "rename")
         \/ To("failed")
      /\ UNCHANGED <<ssExpected, ssMislaid>>
  BY DEF SsMark, To, ssHistory
<1>3. n \in {"backupMark", "recoveryMark"}
  <2>1. ssWork.todo \in Seq({"backupMark", "recoveryMark"}) /\ ssWork.todo # <<>>
    BY <1>1 DEF TodoOK
  <2> QED
    BY <2>1, HeadTailProperties
<1> HIDE DEF n, rest
<1>4. Good(disk, f, ssExpected, ssMislaid)
  BY <1>1, <1>3, GoodMarked
<1>5. /\ \A a \in Artifacts : disk[a] = ssDisk[a]
      /\ disk.clearMark = ssDisk.clearMark /\ disk.backup = ssDisk.backup
      /\ disk.backupMark = IF n = "backupMark" THEN ssClock ELSE ssDisk.backupMark
  BY <1>1, <1>3 DEF Shaped, Names, Artifacts, Markers
<1>6. ASSUME Written PROVE ssDisk' = disk
  BY <1>1, <1>2, <1>6 DEF Written, WritesDurably, Synced, Loss
<1> HIDE DEF disk
<1>7. AllGood(f)'
  BY <1>1, <1>2, <1>4, FilesBecome, AllGoodBecome
<1>8. CASE To("failed")
  <2>1. WorkOK(f)'
    BY <1>1, <1>8, WorkFails
  <2> QED
    BY <2>1, <1>1, <1>7 DEF Since
<1>9. CASE Written /\ ToDo("mark", rest, "rename")
  <2>1. SameSave /\ ssWork'.step \in {"mark", "rename"}
    BY <1>1, <1>9, ToDoFields
  <2>2. ssDisk' = disk
    BY <1>6, <1>9
  <2>3. Begun' /\ Replaced' /\ Tidying(f)' /\ Replacing' /\ Clearing'
    BY <2>1, <2>2, <1>1, <1>2, <1>5
    DEF SameSave, WorkOK, Begun, Replaced, Tidying, Replacing, Older, Clearing
  <2>4. Contentless' <=> Contentless
    BY <2>1 DEF Contentless, SameSave
  <2>5. /\ Contentless /\ ssDisk.clearMark < f /\ ~ssMislaid
             => /\ Stands(ssDisk, f)
                /\ ssDisk.backupMark > ssDisk.clearMark \/ n = "backupMark"
    BY <1>1 DEF WorkOK, Marking, n
  <2>6. ssDisk.clearMark \in Nat /\ (ssDisk.clearMark < f => ssDisk.clearMark < ssClock)
    BY <1>1 DEF Shaped, Markers
  <2>7. Marking(f)'
    BY <2>1, <2>2, <2>4, <2>5, <2>6, <1>2, <1>5 DEF Marking, Stands
  <2> QED
    BY <2>3, <2>7, <1>1, <1>7 DEF Since, WorkOK
<1> QED
  BY <1>2, <1>8, <1>9

\* The new session file comes into place.
LEMMA RenameSince ==
  ASSUME SsTypes, SsTypes', NEW f \in Nat, Since(f), SsRename
  PROVE  Since(f)'
<1> DEFINE file == [drawing |-> ssWork.drawing, at |-> ssClock]
           disk == [ssDisk EXCEPT !.primary = file]
<1>1. /\ ssClock \in Nat \ {0} /\ ssNext \in Nat /\ ssWork \in Works(ssNext) /\ ssMislaid \in BOOLEAN
      /\ Shaped(ssDisk, ssNext, ssClock) /\ f \in 0..ssClock /\ AllGood(f) /\ WorkOK(f)
      /\ ssWork.step = "rename" /\ Good(ssDisk, f, ssExpected, ssMislaid)
      /\ ssClock' = ssClock
  BY Basics DEF Since, SsRename, AtStep, AllGood
<1>2. /\ \/ Unsynced(disk) /\ To("sync")
         \/ UNCHANGED ssFiles /\ To("failed")
      /\ UNCHANGED <<ssExpected, ssMislaid>>
  BY DEF SsRename, To, ssHistory
<1>3. /\ ssWork.drawing \in ssExpected /\ Older(ssDisk)
      /\ IF ssWork.boundary THEN ssDisk.clearMark = ssClock ELSE ssDisk.clearMark < ssClock
      /\ Contentless /\ ssDisk.clearMark < f /\ ~ssMislaid
           => Stands(ssDisk, f) /\ ssDisk.backupMark > ssDisk.clearMark
  BY <1>1 DEF WorkOK, Begun, Replacing, Clearing, Marking
<1>4. \/ ssWork.drawing # Blank \/ ssMislaid \/ ~(ssDisk.clearMark < f)
      \/ Stands(ssDisk, f) /\ ssDisk.backupMark > ssDisk.clearMark
  <2>1. ssWork.boundary => ~(ssDisk.clearMark < f)
    BY <1>1, <1>3
  <2> QED
    BY <2>1, <1>3 DEF Contentless
<1>5. Good(disk, f, ssExpected, ssMislaid)
  BY <1>1, <1>3, <1>4, GoodRenamed
<1>6. /\ disk.primary = file /\ disk.clearMark = ssDisk.clearMark
      /\ disk.backup = ssDisk.backup /\ disk.recovery = ssDisk.recovery
  BY <1>1 DEF Shaped, Names, Artifacts, Markers
<1>7. CASE Unsynced(disk) /\ To("sync")
  <2>1. SameSave /\ ssWork'.step = "sync" /\ ssDisk' = disk
    BY <1>1, <1>7, ToFields DEF Unsynced
  <2>2. AllGood(f)'
    <3> HIDE DEF disk
    <3> QED
      BY <1>1, <1>2, <1>5, <1>7, FilesBecome, AllGoodBecome
  <2>3. Begun' /\ Replacing' /\ Clearing' /\ Marking(f)' /\ Tidying(f)'
    BY <2>1, <1>1, <1>2, <1>3, <1>6 DEF SameSave, Begun, Replacing, Clearing, Marking, Tidying
  <2>4. Replaced'
    <3>1. ssDisk.backup.at < ssClock /\ ssDisk.recovery.at < ssClock
      BY <1>3 DEF Older, Artifacts
    <3> QED
      BY <3>1, <2>1, <1>1, <1>6 DEF SameSave, Replaced
  <2> QED
    BY <2>2, <2>3, <2>4, <1>1 DEF Since, WorkOK
<1>8. CASE UNCHANGED ssFiles /\ To("failed")
  <2>1. WorkOK(f)'
    BY <1>1, <1>8, WorkFails
  <2>2. AllGood(f)'
    BY <1>1, <1>2, <1>8, FilesFewer, AllGoodFewer
  <2> QED
    BY <2>1, <2>2, <1>1 DEF Since
<1> QED
  BY <1>2, <1>7, <1>8

\* The save becomes durable: nothing older is expected but beside a blank session
\* that is not a clear.
LEMMA SyncSince ==
  ASSUME SsTypes, SsTypes', NEW f \in Nat, Since(f), SsSync, NEW g \in Nat, g = ssClock
  PROVE  Since(f)' \/ Since(g)'
<1>1. /\ ssClock \in Nat \ {0} /\ ssNext \in Nat /\ ssWork \in Works(ssNext) /\ ssMislaid \in BOOLEAN
      /\ Shaped(ssDisk, ssNext, ssClock) /\ f \in 0..ssClock /\ AllGood(f) /\ WorkOK(f)
      /\ ssWork.step = "sync" /\ Good(ssDisk, f, ssExpected, ssMislaid) /\ BlankOK
      /\ ssClock' = ssClock
  BY Basics DEF Since, SsSync, AtStep, AllGood
<1>2. \/ /\ Synced(ssDisk) /\ ToDo("tidy", Leftovers, "saved")
         /\ Contentless /\ UNCHANGED <<ssExpected, ssMislaid>>
      \/ /\ Synced(ssDisk) /\ ToDo("tidy", Leftovers, "saved")
         /\ ~Contentless /\ ssExpected' = {ssWork.drawing} /\ ssMislaid' = FALSE
      \/ To("failed") /\ UNCHANGED ssFiles
  BY DEF SsSync, ssHistory
<1>3. /\ ssWork.drawing \in ssExpected
      /\ (IF ssWork.boundary THEN ssDisk.clearMark = ssClock ELSE ssDisk.clearMark < ssClock)
      /\ ssDisk.primary = [drawing |-> ssWork.drawing, at |-> ssClock]
      /\ ssDisk.backup.at < ssClock /\ ssDisk.recovery.at < ssClock
  BY <1>1 DEF WorkOK, Begun, Clearing, Replaced
<1>4. ASSUME Synced(ssDisk), ToDo("tidy", Leftovers, "saved")
      PROVE  /\ ssDisk' = ssDisk /\ ssSurvive' = {ssDisk}
             /\ SameSave /\ ssWork'.step \in {"tidy", "saved"} /\ ssWork'.todo = Leftovers
             /\ Replacing' /\ Clearing' /\ Replaced' /\ \A k : Marking(k)'
  <2>1. SameSave /\ ssWork'.step \in {"tidy", "saved"} /\ ssWork'.todo = Leftovers
    BY <1>1, <1>4, ToDoFields
  <2>2. Replacing' /\ Clearing' /\ Replaced' /\ \A k : Marking(k)'
    BY <2>1 DEF Replacing, Clearing, Replaced, Marking
  <2> QED
    BY <2>1, <2>2, <1>4 DEF Synced
<1>5. CASE /\ Synced(ssDisk) /\ ToDo("tidy", Leftovers, "saved")
           /\ Contentless /\ UNCHANGED <<ssExpected, ssMislaid>>
  <2>1. AllGood(f)'
    BY <1>1, <1>4, <1>5 DEF AllGood
  <2>2. Begun' /\ Tidying(f)'
    BY <1>1, <1>3, <1>4, <1>5, LeftoversTyped DEF SameSave, Begun, Tidying, Removes
  <2> QED
    BY <2>1, <2>2, <1>1, <1>4, <1>5 DEF Since, WorkOK
<1>6. CASE /\ Synced(ssDisk) /\ ToDo("tidy", Leftovers, "saved")
           /\ ~Contentless /\ ssExpected' = {ssWork.drawing} /\ ssMislaid' = FALSE
  <2>1. /\ There(ssDisk.primary) /\ ssDisk.primary.at = g /\ ssDisk.primary.drawing = ssWork.drawing
        /\ ssDisk.clearMark \in Nat
    BY <1>1, <1>3 DEF There, Shaped, Markers
  <2>2. /\ ssWork.boundary => ssDisk.clearMark = g /\ ssWork.drawing = Blank
        /\ ~ssWork.boundary => ssDisk.clearMark < g /\ ssWork.drawing # Blank
    BY <1>1, <1>3, <1>6 DEF Contentless, BlankOK
  <2>3. Current(ssDisk, g, {ssWork.drawing})
    <3>1. \A n \in Artifacts : ssDisk[n].at >= g => ssDisk[n].drawing = ssWork.drawing
      BY <2>1, <1>1, <1>3 DEF Artifacts, Shaped
    <3>2. ssDisk.clearMark >= g => ssWork.drawing = Blank
      BY <2>1, <2>2
    <3> QED
      BY <3>1, <3>2 DEF Current
  <2>4. Covered(ssDisk, g)
    BY <2>1, <2>2 DEF Covered
  <2>5. AllGood(g)'
    BY <2>3, <2>4, <1>4, <1>6 DEF AllGood, Good
  <2>6. Begun'
    BY <1>4, <1>6 DEF SameSave, Begun
  <2>7. Tidying(g)'
    <3>1. CASE ssWork.boundary
      BY <3>1, <2>1, <2>2, <1>1, <1>4, <1>6, LeftoversTyped DEF Tidying, Removes
    <3>2. CASE ~ssWork.boundary
      BY <3>2, <2>1, <2>2, <1>1, <1>4, <1>6, LeftoversTyped DEF Tidying, Removes
    <3> QED
      BY <3>1, <3>2
  <2>8. g \in 0..ssClock'
    BY <1>1
  <2> QED
    BY <2>5, <2>6, <2>7, <2>8, <1>4, <1>6 DEF Since, WorkOK
<1>7. CASE To("failed") /\ UNCHANGED ssFiles
  <2>1. WorkOK(f)' /\ UNCHANGED <<ssExpected, ssMislaid>>
    BY <1>1, <1>7, WorkFails
  <2>2. AllGood(f)'
    BY <2>1, <1>1, <1>7, FilesFewer, AllGoodFewer
  <2> QED
    BY <2>1, <2>2, <1>1 DEF Since
<1> QED
  BY <1>2, <1>5, <1>6, <1>7

\* A leftover is removed, or stays.
LEMMA TidySince ==
  ASSUME SsTypes, SsTypes', NEW f \in Nat, Since(f), SsTidy
  PROVE  Since(f)'
<1> DEFINE n == Head(ssWork.todo)
           rest == Tail(ssWork.todo)
           disk == [ssDisk EXCEPT ![n] = EmptyDisk[n]]
<1>1. /\ ssClock \in Nat \ {0} /\ ssNext \in Nat /\ ssWork \in Works(ssNext) /\ ssMislaid \in BOOLEAN
      /\ Shaped(ssDisk, ssNext, ssClock) /\ f \in 0..ssClock /\ AllGood(f) /\ WorkOK(f)
      /\ ssWork.step = "tidy" /\ Good(ssDisk, f, ssExpected, ssMislaid) /\ ssWork.todo # <<>>
      /\ ssClock' = ssClock /\ UNCHANGED <<ssExpected, ssMislaid>> /\ ssWork.todo \in Seq(Names)
  BY Basics DEF Since, SsTidy, AtStep, AllGood, TodoOK, ssHistory, Works
<1>2. /\ Unsynced(disk) \/ UNCHANGED ssFiles
      /\ ToDo("tidy", rest, "saved")
  BY DEF SsTidy
<1>3. \A S : Removes(S) => n \in S /\ rest \in Seq(S)
  BY <1>1, HeadTailProperties DEF Removes
<1>4. n \in Names
  BY <1>1, HeadTailProperties
<1> HIDE DEF n, rest
<1>5. SameSave /\ ssWork'.step \in {"tidy", "saved"} /\ ssWork'.todo = rest
  BY <1>1, <1>2, ToDoFields
<1>6. \/ /\ There(ssDisk.primary) /\ ssDisk.primary.drawing # Blank /\ ssDisk.primary.at >= f
         /\ ssDisk.clearMark < f /\ Removes(Names \ {"primary"})
      \/ ssDisk.clearMark >= f /\ Removes(Names \ {"clearMark"})
      \/ Removes({"recovery", "recoveryMark"})
  BY <1>1 DEF WorkOK, Tidying
<1>7. \/ /\ There(ssDisk.primary) /\ ssDisk.primary.drawing # Blank /\ ssDisk.primary.at >= f
         /\ ssDisk.clearMark < f /\ n # "primary"
      \/ ssDisk.clearMark >= f /\ n # "clearMark"
      \/ n \in {"recovery", "recoveryMark"}
  BY <1>3, <1>6
<1>8. Good(disk, f, ssExpected, ssMislaid)
  BY <1>1, <1>4, <1>7, GoodWithout
<1>9. \A a \in Names : disk[a] = IF a = n THEN EmptyDisk[a] ELSE ssDisk[a]
  BY <1>1 DEF Shaped
<1>10. EmptyDisk.clearMark = 0 /\ "clearMark" \in Names /\ "primary" \in Names /\ ssDisk.clearMark \in Nat
  BY <1>1 DEF EmptyDisk, Shaped, Names, Artifacts, Markers
<1> HIDE DEF disk
<1>11. ssDisk' = disk \/ ssDisk' = ssDisk
  BY <1>2 DEF Unsynced, ssFiles
<1>12. AllGood(f)'
  BY <1>1, <1>2, <1>8, FilesBecome, AllGoodBecome
<1>13. Begun'
  BY <1>1, <1>5 DEF WorkOK, Begun, SameSave
<1>14. Replacing' /\ Clearing' /\ Replaced' /\ Marking(f)'
  BY <1>5 DEF Replacing, Clearing, Replaced, Marking
<1>15. Tidying(f)'
  <2>1. CASE /\ There(ssDisk.primary) /\ ssDisk.primary.drawing # Blank /\ ssDisk.primary.at >= f
             /\ ssDisk.clearMark < f /\ Removes(Names \ {"primary"})
    <3>1. n # "primary" /\ rest \in Seq(Names \ {"primary"})
      BY <2>1, <1>3
    <3>2. ssDisk'.primary = ssDisk.primary /\ ssDisk'.clearMark \in {0, ssDisk.clearMark}
      BY <3>1, <1>9, <1>10, <1>11
    <3>3. ssDisk'.clearMark < f
      BY <3>2, <2>1, <1>10
    <3> QED
      BY <3>1, <3>2, <3>3, <2>1, <1>5 DEF Tidying, Removes
  <2>2. CASE ssDisk.clearMark >= f /\ Removes(Names \ {"clearMark"})
    <3>1. n # "clearMark" /\ rest \in Seq(Names \ {"clearMark"})
      BY <2>2, <1>3
    <3>2. ssDisk'.clearMark = ssDisk.clearMark
      BY <3>1, <1>9, <1>10, <1>11
    <3> QED
      BY <3>1, <3>2, <2>2, <1>5 DEF Tidying, Removes
  <2>3. CASE Removes({"recovery", "recoveryMark"})
    BY <2>3, <1>3, <1>5 DEF Tidying, Removes
  <2> QED
    BY <2>1, <2>2, <2>3, <1>6
<1> QED
  BY <1>1, <1>12, <1>13, <1>14, <1>15 DEF Since, WorkOK

\* A kill or a power failure, the end of a save, and everything outside a save.
LEMMA OutsideSince ==
  ASSUME SsTypes, SsTypes', NEW f \in Nat, Since(f),
         \/ SsStart \/ SsChange \/ SsWithoutSave \/ SsCrash \/ UNCHANGED ssVars
         \/ SsAutosaveEnds \/ SsSaveEnds \/ SsClearEnds \/ SsReloadEnds \/ SsExitEnds
  PROVE  Since(f)'
<1>1. CASE SsStart \/ SsChange \/ SsWithoutSave \/ UNCHANGED ssVars
  <2>1. UNCHANGED <<ssFiles, ssWork, ssClock, ssHistory>>
    BY <1>1 DEF SsStart, SsChange, SsWithoutSave, ssVars
  <2> QED
    BY <2>1, SinceSame
<1>2. CASE \/ SsAutosaveEnds \/ SsSaveEnds \/ SsClearEnds \/ SsReloadEnds \/ SsExitEnds \/ SsCrash
  <2>1. ssWork' = NoSave /\ UNCHANGED <<ssClock, ssExpected, ssMislaid>>
    BY <1>2 DEF SsAutosaveEnds, SsSaveEnds, SsClearEnds, SsReloadEnds, SsExitEnds, AtEnd, SsCrash,
                ssHistory
  <2>2. Fewer
    BY <1>2, FilesFewer DEF SsAutosaveEnds, SsSaveEnds, SsClearEnds, SsReloadEnds, SsExitEnds, AtEnd,
                            SsCrash, ssFiles, Fewer
  <2>3. ssWork'.step = "none"
    BY <2>1 DEF NoSave
  <2> QED
    BY <2>1, <2>2, <2>3, SinceLoop
<1> QED
  BY <1>1, <1>2

LEMMA InitSince == SessionInit => SsInv
<1> SUFFICES ASSUME SessionInit PROVE SsInv
  OBVIOUS
<1> DEFINE one == [EmptyDisk EXCEPT !.primary = [drawing |-> 1, at |-> 1]]
<1>1. /\ ssDisk \in {EmptyDisk, one} /\ ssSurvive = {ssDisk} /\ ssWork = NoSave /\ ssClock = 1
      /\ ssExpected = {RestoredFrom(ssDisk)} /\ ssMislaid = FALSE
  BY DEF SessionInit
<1>2. \A k : WorkOK(k)
  BY <1>1 DEF NoSave, WorkOK, Begun, Replacing, Clearing, Marking, Replaced, Tidying
<1>3. CASE ssDisk = EmptyDisk
  <2>1. /\ \A n \in Artifacts : ~There(ssDisk[n])
        /\ ssDisk.recovery = NoFile /\ ssDisk.primary = NoFile /\ ssDisk.backup = NoFile
        /\ ssDisk.clearMark = 0 /\ ssDisk.recoveryMark = 0
    BY <1>3 DEF EmptyDisk, There, NoFile, Artifacts, Markers
  <2>2. RestoredFrom(ssDisk) = Blank
    BY <2>1 DEF RestoredFrom, PrefersRecovery, FromSession, FromBackup, Usable, There, NoFile
  <2>3. Good(ssDisk, 0, ssExpected, ssMislaid)
    BY <1>1, <2>1, <2>2 DEF Good, Current, Covered
  <2>4. Since(0)
    BY <1>1, <1>2, <2>3 DEF Since, AllGood
  <2> QED
    BY <2>4 DEF SsInv
<1>4. CASE ssDisk = one
  <2>1. /\ ssDisk.primary = [drawing |-> 1, at |-> 1] /\ ssDisk.recovery = NoFile /\ ssDisk.backup = NoFile
        /\ ssDisk.clearMark = 0
    BY <1>4 DEF EmptyDisk, Artifacts, Markers
  <2>2. RestoredFrom(ssDisk) = 1
    BY <2>1 DEF RestoredFrom, PrefersRecovery, FromSession, Usable, Suppressed, There, NoFile, Blank
  <2>3. Good(ssDisk, 1, ssExpected, ssMislaid)
    BY <1>1, <2>1, <2>2 DEF Good, Current, Covered, There, Artifacts, NoFile, Blank
  <2>4. Since(1)
    BY <1>1, <1>2, <2>3 DEF Since, AllGood
  <2> QED
    BY <2>4 DEF SsInv
<1> QED
  BY <1>1, <1>3, <1>4

LEMMA SinceKept ==
  ASSUME BackupRetention > 0, SsTypes, SsTypes', SsInv, [SessionNext]_ssVars
  PROVE  SsInv'
<1>1. PICK f \in Nat : Since(f)
  BY DEF SsInv
<1>2. PICK g \in Nat : g = ssClock
  BY DEF SsTypes
<1>3. Since(f)' \/ Since(g)'
  <2>1. CASE \/ SsStart \/ SsChange \/ SsWithoutSave \/ SsCrash \/ UNCHANGED ssVars
             \/ SsAutosaveEnds \/ SsSaveEnds \/ SsClearEnds \/ SsReloadEnds \/ SsExitEnds
    BY <1>1, <2>1, OutsideSince
  <2>2. CASE SsAutosave \/ SsSaveNow \/ SsClear \/ SsExit \/ SsReload
    BY <1>1, <2>2, SubmitSince
  <2>3. CASE SsPrepare BY <1>1, <2>3, PrepareSince
  <2>4. CASE SsClearMark BY <1>1, <1>2, <2>4, ClearMarkSince
  <2>5. CASE SsRotate BY <1>1, <2>5, RotateSince
  <2>6. CASE SsMark BY <1>1, <2>6, MarkSince
  <2>7. CASE SsRename BY <1>1, <2>7, RenameSince
  <2>8. CASE SsSync BY <1>1, <1>2, <2>8, SyncSince
  <2>9. CASE SsTidy BY <1>1, <2>9, TidySince
  <2> QED
    BY <2>1, <2>2, <2>3, <2>4, <2>5, <2>6, <2>7, <2>8, <2>9
    DEF SessionNext, SessionLoop, SessionWorker
<1> QED
  BY <1>3 DEF SsInv

\* With backups, whatever a kill or a power failure leaves, the next start restores
\* the drawing of the last save that became durable, or one whose saving has begun
\* since, but for the two leftovers that SessionRestores names.
THEOREM SessionRestored ==
  ASSUME BackupRetention > 0
  PROVE  SessionSpec => []SessionRestores
<1>1. SessionSpec => []SsTypes
  BY InitTypes, TypesKept, PTL DEF SessionSpec
<1>2. SsTypes /\ SsTypes' /\ SsInv /\ [SessionNext]_ssVars => SsInv'
  BY SinceKept
<1>3. SessionSpec => []SsInv
  BY <1>1, <1>2, InitSince, PTL DEF SessionSpec
<1>4. SsTypes /\ SsInv => SessionRestores
  <2> SUFFICES ASSUME SsTypes, SsInv, NEW disk \in ssSurvive \cup {ssDisk}, ~ssMislaid, ~Shadowed(disk)
               PROVE  RestoredFrom(disk) \in ssExpected
    BY DEF SessionRestores
  <2>1. PICK f \in Nat : Since(f)
    BY DEF SsInv
  <2>2. Good(disk, f, ssExpected, FALSE)
    BY <2>1 DEF Since, AllGood, Good
  <2>3. ssClock \in Nat /\ Shaped(disk, ssNext, ssClock)
    BY DEF SsTypes, FilesOK
  <2> QED
    BY <2>2, <2>3, GoodRestores
<1> QED
  BY <1>1, <1>3, <1>4, PTL

=============================================================================
