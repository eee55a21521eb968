------------------------ MODULE ConfigDocument_proofs ------------------------
(***************************************************************************)
(* Proof that a save of config.toml loses nothing it has not seen and that  *)
(* its outcome is true, for any number of writers, other programs, crashes  *)
(* and retargeted links.  The argument: the write lock of the pinned file   *)
(* is the writer's from the comparison to the end (Owner); what a writer    *)
(* has loaded is current unless others have moved the file since (Race);    *)
(* and an edit that has not been renamed into place is nowhere (Unwritten). *)
(***************************************************************************)
EXTENDS ConfigDocument, TLAPS

Steps == {"idle", "load", "read", "lock", "compare", "backup", "recompare", "look", "rename",
          "sync"}
Content == [id : Nat, bytes : SUBSET DocEdit]
Revision == [dest : DocFiles, id : Nat, bytes : SUBSET DocEdit]
Report == [outcome : {"saved", "stale", "busy", "failed", "crashed"}, edit : DocEdit,
           moved : 0..2, loaded : Revision \cup {NoRevision}, backup : SUBSET DocEdit]

\* The types, as functions on the files and on the writers.
Types ==
  /\ docLink \in DocFiles /\ docNewId \in Nat \ {0} /\ docEvents \in 0..MaxOutside
  /\ docFile \in [DocFiles -> Content] /\ docLock \in [DocFiles -> Writers \cup {Free}]
  /\ docLanded \in [DocFiles -> SUBSET DocEdit] /\ docGap \subseteq Outside
  /\ docStep \in [Writers -> Steps] /\ docRev \in [Writers -> Revision \cup {NoRevision}]
  /\ docBackup \in [Writers -> SUBSET DocEdit] /\ docTemp \in [Writers -> Nat]
  /\ docSaves \in [Writers -> 0..MaxSaves] /\ docRetried \in [Writers -> BOOLEAN]
  /\ docMoved \in [Writers -> 0..2] /\ docLast \in [Writers -> {NoOutcome} \cup Report]

\* A file that is absent has no contents, and neither has what was loaded of it.
Blank ==
  /\ \A f \in DocFiles : docFile[f].id = 0 => docFile[f].bytes = {}
  /\ \A w \in Writers : docRev[w].id = 0 => docRev[w].bytes = {}

\* Where a writer is in its save.
Path(w) ==
  /\ docStep[w] # "idle" => docSaves[w] > 0
  /\ docStep[w] = "load" => w \in Editors
  /\ docStep[w] \notin {"idle", "load"} => docRev[w] \in Revision
  /\ docStep[w] \in {"read", "backup"} => docRev[w].id # 0
  /\ docStep[w] = "sync" => docTemp[w] # 0 /\ CurrentEdit(w) \in docLanded[docRev[w].dest]

\* From the comparison to the end the lock of the pinned file is the writer's.
Owner(w) ==
  docStep[w] \in {"compare", "backup", "recompare", "look", "rename", "sync"} =>
    docLock[docRev[w].dest] = w

\* What a replacement is about to write carries all that is in the file's place.
Carried(w) ==
  docStep[w] = "rename" /\ docRev[w].id # 0 =>
    docLanded[docRev[w].dest] \ docRev[w].bytes \subseteq docGap

\* What a writer has loaded is current, or others moved the file since it began: an
\* edit worker's as often as it has read, a backup of something else as often as
\* it takes to be unnoticed.
Needed(w) == IF docRetried[w] THEN 2 ELSE 1
Race(w) ==
  /\ docStep[w] # "idle" /\ docRetried[w] => docMoved[w] >= 1
  /\ w \in Editors /\ docStep[w] = "read" =>
       \/ docRev[w].dest = docLink /\ docRev[w].id = docFile[docLink].id
       \/ docMoved[w] >= Needed(w)
  /\ w \in Editors /\ docStep[w] \in {"lock", "compare", "backup", "recompare", "look", "rename"} =>
       Unchanged(w) \/ docMoved[w] >= Needed(w)
  /\ docStep[w] = "backup" => Unchanged(w) \/ docMoved[w] >= 1
  /\ docRev[w].id # 0 /\ docBackup[w] # docRev[w].bytes =>
       /\ docStep[w] = "recompare" => docMoved[w] = 2 \/ (docMoved[w] = 1 /\ ~Unchanged(w))
       /\ docStep[w] \in {"look", "rename", "sync"} => docMoved[w] = 2

\* An edit that is in no file and in nobody's document.
Nowhere(e) ==
  /\ \A f \in DocFiles : e \notin docFile[f].bytes
  /\ \A v \in Writers : e \notin docRev[v].bytes
Pending(w, k) == docSaves[w] < k \/ (docSaves[w] = k /\ docStep[w] \notin {"idle", "sync"})
Unwritten ==
  /\ \A w \in Writers : \A k \in 1..MaxSaves : Pending(w, k) => Nowhere(<<w, k>>)
  /\ \A w \in Writers : docLast[w].outcome \in {"stale", "busy"} => Nowhere(docLast[w].edit)

\* What a writer reported of its last edit, and that the edit is an earlier one.
Earlier(w, k) == k < docSaves[w] \/ (k = docSaves[w] /\ docStep[w] = "idle")
Told(w) == LET d == docLast[w] IN
  /\ d.outcome = "saved" /\ d.loaded.id # 0 /\ d.moved < 2 => d.backup = d.loaded.bytes
  /\ d.outcome = "saved" => d.loaded \in Revision /\ d.edit \in docLanded[d.loaded.dest]
  /\ d.outcome = "stale" /\ w \in Editors => d.moved = 2
  /\ d.outcome # "none" => \E k \in 1..MaxSaves : d.edit = <<w, k>> /\ Earlier(w, k)

WriterInv(w) == Path(w) /\ Owner(w) /\ Carried(w) /\ Race(w) /\ Told(w)
DocInv == Types /\ Blank /\ DocNothingLost /\ Unwritten /\ \A w \in Writers : WriterInv(w)
-----------------------------------------------------------------------------
(* The types. *)

LEMMA Constants ==
  /\ FirstFile \in DocFiles /\ Editors \cap Configurators = {}
  /\ Free \notin Writers /\ "outside" \notin Writers
  /\ MaxSaves \in Nat /\ MaxOutside \in Nat
  /\ Editors \subseteq Writers /\ Configurators \subseteq Writers
  /\ NoRevision.id = 0 /\ NoRevision.bytes = {} /\ NoOutcome.outcome = "none"
  BY DocAssumption DEF Writers, NoRevision, NoOutcome

\* The edit a writer is at.
LEMMA OwnEdit ==
  ASSUME Types, NEW w \in Writers, docSaves[w] > 0
  PROVE  /\ docSaves[w] \in 1..MaxSaves /\ CurrentEdit(w) \in DocEdit
         /\ CurrentEdit(w) = <<w, docSaves[w]>>
<1>1. docSaves[w] \in 1..MaxSaves
  BY Constants DEF Types
<1> QED
  BY <1>1 DEF CurrentEdit, DocEdit

\* What the path names now.
LEMMA Now ==
  ASSUME Types
  PROVE  /\ Current \in Revision /\ Current.dest = docLink /\ Current.id = docFile[docLink].id
         /\ Current.bytes = docFile[docLink].bytes /\ docFile[docLink] \in Content
  BY DEF Types, Current, Content, Revision

\* The end of an edit.
LEMMA Finish ==
  ASSUME Types, NEW w \in Writers, docSaves[w] > 0,
         NEW outcome \in {"saved", "stale", "busy", "failed", "crashed"},
         NEW document \in Revision \cup {NoRevision}, DocFinish(w, outcome, document)
  PROVE  /\ docLast' \in [Writers -> {NoOutcome} \cup Report]
         /\ docRev' \in [Writers -> Revision \cup {NoRevision}]
         /\ docBackup' \in [Writers -> SUBSET DocEdit] /\ docTemp' \in [Writers -> Nat]
         /\ docStep' \in [Writers -> Steps] /\ docLock' \in [DocFiles -> Writers \cup {Free}]
         /\ docStep'[w] = "idle"
         /\ docRev'[w] = IF w \in Editors THEN NoRevision ELSE document
         /\ docLast'[w].outcome = outcome /\ docLast'[w].edit = <<w, docSaves[w]>>
         /\ docLast'[w].moved = docMoved[w] /\ docLast'[w].loaded = docRev[w]
         /\ docLast'[w].backup = docBackup[w]
         /\ \A v \in Writers \ {w} :
              /\ docLast'[v] = docLast[v] /\ docRev'[v] = docRev[v] /\ docStep'[v] = docStep[v]
              /\ docBackup'[v] = docBackup[v] /\ docTemp'[v] = docTemp[v]
         /\ \A f \in DocFiles : docLock'[f] = IF docLock[f] = w THEN Free ELSE docLock[f]
<1> DEFINE report == [outcome |-> outcome, edit |-> CurrentEdit(w), moved |-> docMoved[w],
                      loaded |-> docRev[w], backup |-> docBackup[w]]
<1>1. report \in Report
  BY OwnEdit DEF Types, Report
<1>2. docLast' = [docLast EXCEPT ![w] = report]
  BY DEF DocFinish
<1>3. /\ report.outcome = outcome /\ report.edit = <<w, docSaves[w]>>
      /\ report.moved = docMoved[w] /\ report.loaded = docRev[w] /\ report.backup = docBackup[w]
  BY OwnEdit
<1>4. docLast \in [Writers -> {NoOutcome} \cup Report]
  BY DEF Types
<1> HIDE DEF report
<1>5. /\ docLast' \in [Writers -> {NoOutcome} \cup Report] /\ docLast'[w] = report
      /\ \A v \in Writers \ {w} : docLast'[v] = docLast[v]
  BY <1>1, <1>2, <1>4
<1>6. /\ docRev' \in [Writers -> Revision \cup {NoRevision}]
      /\ docRev'[w] = IF w \in Editors THEN NoRevision ELSE document
      /\ \A v \in Writers \ {w} : docRev'[v] = docRev[v]
  BY DEF DocFinish, Types
<1>7. /\ docBackup' \in [Writers -> SUBSET DocEdit] /\ docTemp' \in [Writers -> Nat]
      /\ docStep' \in [Writers -> Steps] /\ docStep'[w] = "idle"
      /\ \A v \in Writers \ {w} :
           docStep'[v] = docStep[v] /\ docBackup'[v] = docBackup[v] /\ docTemp'[v] = docTemp[v]
  BY DEF DocFinish, Goto, Types, Steps
<1>8. /\ docLock' \in [DocFiles -> Writers \cup {Free}]
      /\ \A f \in DocFiles : docLock'[f] = IF docLock[f] = w THEN Free ELSE docLock[f]
  BY DEF DocFinish, Types
<1> QED
  BY <1>3, <1>5, <1>6, <1>7, <1>8

\* A save that finds the file changed: reload, or the end.
LEMMA Stale ==
  ASSUME DocInv, NEW w \in Writers, docStep[w] # "idle", DocStale(w)
  PROVE  \/ /\ w \in Editors /\ ~docRetried[w] /\ UNCHANGED docSaveVars
            /\ docRetried' \in [Writers -> BOOLEAN] /\ docRetried'[w] = TRUE
            /\ docStep' \in [Writers -> Steps] /\ docStep'[w] = "load"
            /\ docLock' \in [DocFiles -> Writers \cup {Free}]
            /\ \A v \in Writers \ {w} : docStep'[v] = docStep[v] /\ docRetried'[v] = docRetried[v]
            /\ \A f \in DocFiles : docLock'[f] = IF docLock[f] = w THEN Free ELSE docLock[f]
         \/ /\ DocFinish(w, "stale", docRev[w]) /\ UNCHANGED docRetried
            /\ w \in Editors => docRetried[w]
<1>1. Types
  BY DEF DocInv
<1> QED
  BY <1>1 DEF DocStale, Goto, Types, Steps

-----------------------------------------------------------------------------
(* Steps that touch no file. *)

\* Of the files and of the other writers nothing changes, of the locks only w's.
Alone(w) ==
  /\ UNCHANGED <<docLink, docFile, docNewId, docLanded, docGap>>
  /\ \A v \in Writers \ {w} :
       /\ docStep'[v] = docStep[v] /\ docRev'[v] = docRev[v] /\ docBackup'[v] = docBackup[v]
       /\ docTemp'[v] = docTemp[v] /\ docSaves'[v] = docSaves[v]
       /\ docRetried'[v] = docRetried[v] /\ docMoved'[v] = docMoved[v] /\ docLast'[v] = docLast[v]
  /\ \A f \in DocFiles : \/ docLock'[f] = docLock[f]
                         \/ docLock[f] \in {w, Free}

\* What w's document gains is known already, but for the edit it has just saved; and an
\* edit it says is in no file had not been written.
Learns(w) ==
  /\ docRev'[w].id = 0 => docRev'[w].bytes = {}
  /\ \A k \in 1..MaxSaves : Pending(w, k)' => Pending(w, k)
  /\ \A e \in docRev'[w].bytes :
       ~Nowhere(e) \/ (e = CurrentEdit(w) /\ docStep[w] = "sync" /\ docStep'[w] = "idle")
  /\ \/ docLast'[w] = docLast[w] /\ docStep[w] # "sync"
     \/ docLast'[w].outcome \in {"stale", "busy"} =>
          /\ docLast'[w].edit = <<w, docSaves[w]>> /\ docSaves[w] \in 1..MaxSaves
          /\ docStep[w] \notin {"idle", "sync"}

Local(w) == Types' /\ Alone(w) /\ Learns(w) /\ WriterInv(w)'

LEMMA ToldKept ==
  ASSUME Types, NEW w \in Writers, Told(w), docLast'[w] = docLast[w],
         \A f \in DocFiles : docLanded[f] \subseteq docLanded'[f],
         \A k \in 1..MaxSaves : Earlier(w, k) => Earlier(w, k)'
  PROVE  Told(w)'
<1>1. \A r \in Revision : r.dest \in DocFiles
  BY DEF Revision
<1> QED
  BY <1>1 DEF Told

LEMMA LocalKeeps ==
  ASSUME DocInv, NEW w \in Writers, Local(w)
  PROVE  DocInv'
<1> USE DEF Local
<1>T. Types /\ Blank /\ DocNothingLost /\ Unwritten /\ \A v \in Writers : WriterInv(v)
  BY DEF DocInv
<1>1. Blank'
  <2>1. ASSUME NEW v \in Writers PROVE docRev'[v].id = 0 => docRev'[v].bytes = {}
    BY <1>T DEF Blank, Alone, Learns
  <2>2. \A f \in DocFiles : docFile'[f].id = 0 => docFile'[f].bytes = {}
    BY <1>T DEF Blank, Alone
  <2> QED
    BY <2>1, <2>2 DEF Blank
<1>2. DocNothingLost'
  BY <1>T DEF DocNothingLost, Alone
<1>3. ASSUME NEW v \in Writers PROVE WriterInv(v)'
  <2>1. CASE v = w
    BY <2>1
  <2>2. CASE v # w
    <3>1. /\ docStep'[v] = docStep[v] /\ docRev'[v] = docRev[v] /\ docBackup'[v] = docBackup[v]
          /\ docTemp'[v] = docTemp[v] /\ docSaves'[v] = docSaves[v]
          /\ docRetried'[v] = docRetried[v] /\ docMoved'[v] = docMoved[v]
          /\ docLast'[v] = docLast[v]
          /\ UNCHANGED <<docLink, docFile, docNewId, docLanded, docGap>>
      BY <2>2 DEF Alone
    <3>2. Path(v) /\ Owner(v) /\ Carried(v) /\ Race(v) /\ Told(v)
      BY <1>T DEF WriterInv
    <3>3. Path(v)' /\ Carried(v)'
      BY <3>1, <3>2 DEF Path, Carried, CurrentEdit
    <3>4. Owner(v)'
      <4>1. docStep[v] \notin {"idle", "load"} => docRev[v].dest \in DocFiles
        BY <3>2 DEF Path, Revision
      <4>2. \A f \in DocFiles : docLock[f] = v => docLock'[f] = v
        BY <2>2, Constants DEF Alone
      <4> QED
        BY <3>1, <3>2, <4>1, <4>2 DEF Owner
    <3>5. Race(v)'
      BY <3>1, <3>2 DEF Race, Unchanged, Current, Needed
    <3>6. Told(v)'
      BY <1>T, <3>1, <3>2, ToldKept DEF Earlier
    <3> QED
      BY <3>3, <3>4, <3>5, <3>6 DEF WriterInv
  <2> QED
    BY <2>1, <2>2
<1>4. ASSUME NEW e, Nowhere(e), ~(e = CurrentEdit(w) /\ docStep[w] = "sync" /\ docStep'[w] = "idle")
      PROVE  Nowhere(e)'
  <2>1. \A f \in DocFiles : e \notin docFile'[f].bytes
    BY <1>4 DEF Nowhere, Alone
  <2>2. ASSUME NEW v \in Writers PROVE e \notin docRev'[v].bytes
    BY <1>4 DEF Nowhere, Alone, Learns
  <2> QED
    BY <2>1, <2>2 DEF Nowhere
<1>5. Unwritten'
  <2>1. ASSUME NEW v \in Writers, NEW k \in 1..MaxSaves, Pending(v, k)' PROVE Nowhere(<<v, k>>)'
    <3>1. Pending(v, k)
      BY <2>1 DEF Alone, Learns, Pending
    <3>2. Nowhere(<<v, k>>)
      BY <1>T, <3>1 DEF Unwritten
    <3>3. ~(<<v, k>> = CurrentEdit(w) /\ docStep[w] = "sync")
      BY <1>T, <3>1 DEF Pending, CurrentEdit, Types
    <3> QED
      BY <1>4, <3>2, <3>3
  <2>2. ASSUME NEW v \in Writers, docLast'[v].outcome \in {"stale", "busy"}
        PROVE  (Nowhere(docLast[v].edit))'
    <3>1. CASE docLast'[v] = docLast[v] /\ (v = w => docStep[w] # "sync")
      <4>1. Nowhere(docLast[v].edit) /\ Told(v)
        BY <1>T, <2>2, <3>1 DEF Unwritten, WriterInv
      <4>2. PICK k \in 1..MaxSaves : docLast[v].edit = <<v, k>> /\ Earlier(v, k)
        BY <2>2, <3>1, <4>1 DEF Told
      <4>3. ~(docLast[v].edit = CurrentEdit(w) /\ docStep[w] = "sync")
        BY <3>1, <4>2 DEF CurrentEdit
      <4> QED
        BY <1>4, <3>1, <4>1, <4>3 DEF Nowhere
    <3>2. CASE v = w /\ ~(docLast'[w] = docLast[w] /\ docStep[w] # "sync")
      <4>1. /\ docLast'[w].edit = <<w, docSaves[w]>> /\ docSaves[w] \in 1..MaxSaves
            /\ docStep[w] \notin {"idle", "sync"}
        BY <2>2, <3>2 DEF Learns
      <4>2. Nowhere(<<w, docSaves[w]>>)
        BY <1>T, <4>1 DEF Pending, Unwritten
      <4> QED
        BY <1>4, <3>2, <4>1, <4>2 DEF Nowhere
    <3> QED
      BY <3>1, <3>2 DEF Alone
  <2> QED
    BY <2>1, <2>2 DEF Unwritten
<1> QED
  BY <1>1, <1>2, <1>3, <1>5 DEF DocInv

\* What is used of the invariant at a writer that is in a save.
LEMMA Here ==
  ASSUME DocInv, NEW w \in Writers
  PROVE  /\ Types /\ Blank /\ Path(w) /\ Owner(w) /\ Carried(w) /\ Race(w) /\ Told(w)
         /\ docRev[w] \in Revision \cup {NoRevision} /\ docSaves[w] \in 0..MaxSaves
         /\ docStep[w] # "idle" => docSaves[w] > 0 /\ docSaves[w] \in 1..MaxSaves
         /\ docMoved[w] \in 0..2 /\ docTemp[w] \in Nat
         /\ \A e \in docRev[w].bytes : ~Nowhere(e)
         /\ \A f \in DocFiles : \A e \in docFile[f].bytes : ~Nowhere(e)
<1>1. Types /\ WriterInv(w) /\ Blank
  BY DEF DocInv
<1>2. /\ docRev[w] \in Revision \cup {NoRevision} /\ docSaves[w] \in 0..MaxSaves
      /\ docMoved[w] \in 0..2 /\ docTemp[w] \in Nat
  BY <1>1 DEF Types
<1>3. docStep[w] # "idle" => docSaves[w] > 0 /\ docSaves[w] \in 1..MaxSaves
  BY <1>1, <1>2, Constants DEF WriterInv, Path
<1> QED
  BY <1>1, <1>2, <1>3 DEF WriterInv, Nowhere

\* An edit ends, with a true report.
LEMMA FinishKeeps ==
  ASSUME DocInv, NEW w \in Writers, docStep[w] # "idle",
         NEW outcome \in {"saved", "stale", "busy", "failed", "crashed"},
         NEW document \in Revision \cup {NoRevision}, DocFinish(w, outcome, document),
         UNCHANGED <<docLink, docFile, docNewId, docLanded, docGap, docMoved, docSaves, docRetried>>,
         docEvents' \in 0..MaxOutside,
         outcome = "saved" => docStep[w] = "sync",
         outcome \in {"stale", "busy"} => docStep[w] # "sync",
         outcome = "stale" /\ w \in Editors => docMoved[w] = 2,
         \/ document \in {docRev[w], NoRevision}
         \/ docStep[w] = "sync" /\ document = AfterWrite(w)
  PROVE  Local(w)
<1>H. /\ Types /\ Blank /\ Path(w) /\ Race(w) /\ docSaves[w] \in 1..MaxSaves
      /\ docSaves[w] > 0 /\ docTemp[w] \in Nat
      /\ \A e \in docRev[w].bytes : ~Nowhere(e)
  BY Here
<1>F. /\ docLast' \in [Writers -> {NoOutcome} \cup Report]
      /\ docRev' \in [Writers -> Revision \cup {NoRevision}]
      /\ docBackup' \in [Writers -> SUBSET DocEdit] /\ docTemp' \in [Writers -> Nat]
      /\ docStep' \in [Writers -> Steps] /\ docLock' \in [DocFiles -> Writers \cup {Free}]
      /\ docStep'[w] = "idle"
      /\ docRev'[w] = IF w \in Editors THEN NoRevision ELSE document
      /\ docLast'[w].outcome = outcome /\ docLast'[w].edit = <<w, docSaves[w]>>
      /\ docLast'[w].moved = docMoved[w] /\ docLast'[w].loaded = docRev[w]
      /\ docLast'[w].backup = docBackup[w]
      /\ \A v \in Writers \ {w} :
           /\ docLast'[v] = docLast[v] /\ docRev'[v] = docRev[v] /\ docStep'[v] = docStep[v]
           /\ docBackup'[v] = docBackup[v] /\ docTemp'[v] = docTemp[v]
      /\ \A f \in DocFiles : docLock'[f] = IF docLock[f] = w THEN Free ELSE docLock[f]
  BY <1>H, Finish
<1>1. Types'
  BY <1>H, <1>F DEF Types
<1>2. Alone(w)
  BY <1>F DEF Alone
<1>3. Learns(w)
  <2>1. \/ docRev'[w] = NoRevision \/ docRev'[w] = docRev[w]
        \/ docStep[w] = "sync" /\ docRev'[w] = AfterWrite(w) /\ docRev[w] \in Revision
    BY <1>F, <1>H DEF Path
  <2>2. docRev[w] \in Revision =>
          AfterWrite(w).id = docTemp[w] /\ AfterWrite(w).bytes = docRev[w].bytes \cup {CurrentEdit(w)}
    BY DEF AfterWrite, Revision
  <2>3. docRev'[w].id = 0 => docRev'[w].bytes = {}
    BY <1>H, <2>1, <2>2, Constants DEF Blank, Path
  <2>4. \A e \in docRev'[w].bytes : ~Nowhere(e) \/ (e = CurrentEdit(w) /\ docStep[w] = "sync")
    BY <1>H, <2>1, <2>2, Constants
  <2>5. \A k \in 1..MaxSaves : Pending(w, k)' => Pending(w, k)
    BY <1>F DEF Pending
  <2> QED
    BY <1>F, <1>H, <2>3, <2>4, <2>5 DEF Learns
<1>4. WriterInv(w)'
  <2>1. Path(w)' /\ Owner(w)' /\ Carried(w)' /\ Race(w)'
    BY <1>F DEF Path, Owner, Carried, Race
  <2>2. outcome = "saved" => /\ docRev[w] \in Revision /\ <<w, docSaves[w]>> \in docLanded[docRev[w].dest]
                             /\ docRev[w].id # 0 /\ docBackup[w] # docRev[w].bytes => docMoved[w] = 2
    BY <1>H DEF Path, Race, CurrentEdit
  <2>3. Earlier(w, docSaves[w])'
    BY <1>F DEF Earlier
  <2>4. Told(w)'
    BY <1>F, <1>H, <2>2, <2>3 DEF Told
  <2> QED
    BY <2>1, <2>4 DEF WriterInv
<1> QED
  BY <1>1, <1>2, <1>3, <1>4 DEF Local

\* A save that finds the file changed.
LEMMA StaleKeeps ==
  ASSUME DocInv, NEW w \in Writers, docStep[w] \in {"compare", "recompare", "look", "rename"},
         DocStale(w), ~Unchanged(w),
         UNCHANGED <<docLink, docFile, docNewId, docLanded, docGap, docMoved, docSaves, docEvents>>
  PROVE  Local(w)
<1>H. /\ Types /\ Path(w) /\ Blank /\ Race(w) /\ Told(w) /\ docSaves[w] \in 1..MaxSaves
      /\ docRev[w] \in Revision \cup {NoRevision} /\ docSaves[w] > 0 /\ docMoved[w] \in 0..2
      /\ \A e \in docRev[w].bytes : ~Nowhere(e)
  BY Here
<1>N. w \in Editors => docMoved[w] >= Needed(w)
  BY <1>H DEF Race
<1>1. CASE DocFinish(w, "stale", docRev[w]) /\ UNCHANGED docRetried /\ (w \in Editors => docRetried[w])
  <2>1. w \in Editors => docMoved[w] = 2
    BY <1>1, <1>H, <1>N DEF Needed
  <2>2. docEvents' \in 0..MaxOutside
    BY <1>H DEF Types
  <2> QED
    BY <1>1, <1>H, <2>1, <2>2, FinishKeeps
<1>2. CASE /\ w \in Editors /\ ~docRetried[w] /\ UNCHANGED docSaveVars
           /\ docRetried' \in [Writers -> BOOLEAN] /\ docRetried'[w] = TRUE
           /\ docStep' \in [Writers -> Steps] /\ docStep'[w] = "load"
           /\ docLock' \in [DocFiles -> Writers \cup {Free}]
           /\ \A v \in Writers \ {w} : docStep'[v] = docStep[v] /\ docRetried'[v] = docRetried[v]
           /\ \A f \in DocFiles : docLock'[f] = IF docLock[f] = w THEN Free ELSE docLock[f]
  <2> USE <1>2 DEF docSaveVars
  <2>1. Types'
    BY <1>H DEF Types
  <2>2. Alone(w)
    BY DEF Alone
  <2>3. Learns(w)
    BY <1>H DEF Learns, Blank, Pending
  <2>4. Path(w)' /\ Owner(w)' /\ Carried(w)'
    BY <1>H DEF Path, Owner, Carried
  <2>5. Race(w)'
    BY <1>H, <1>N DEF Race, Needed
  <2>6. Told(w)'
    BY <1>H, ToldKept DEF Earlier
  <2> QED
    BY <2>1, <2>2, <2>3, <2>4, <2>5, <2>6 DEF Local, WriterInv
<1> QED
  BY <1>1, <1>2, Stale

\* A step on the way from the load to the rename.
LEMMA Advance ==
  ASSUME DocInv, NEW w \in Writers, docStep[w] \notin {"idle", "sync"},
         NEW next \in {"read", "lock", "compare", "backup", "recompare", "look", "rename"},
         Goto(w, next),
         docLock' \in [DocFiles -> Writers \cup {Free}],
         \A f \in DocFiles : docLock'[f] = docLock[f] \/ docLock[f] \in {w, Free},
         docBackup' \in [Writers -> SUBSET DocEdit],
         docRev' \in [Writers -> Revision \cup {NoRevision}],
         \A v \in Writers \ {w} : docBackup'[v] = docBackup[v] /\ docRev'[v] = docRev[v],
         docRev'[w] \in Revision, docRev'[w].id = 0 => docRev'[w].bytes = {},
         next \in {"read", "backup"} => docRev'[w].id # 0,
         \A e \in docRev'[w].bytes : e \in docRev[w].bytes \/ \E f \in DocFiles : e \in docFile[f].bytes,
         UNCHANGED <<docLink, docFile, docNewId, docLanded, docGap, docTemp, docLast, docSaves,
                     docRetried, docEvents, docMoved>>,
         Owner(w)', Carried(w)', Race(w)'
  PROVE  Local(w)
<1>H. /\ Types /\ Path(w) /\ Told(w) /\ docSaves[w] \in 1..MaxSaves /\ docSaves[w] > 0
      /\ \A e \in docRev[w].bytes : ~Nowhere(e)
      /\ \A f \in DocFiles : \A e \in docFile[f].bytes : ~Nowhere(e)
  BY Here
<1>S. /\ docStep' \in [Writers -> Steps] /\ docStep'[w] = next
      /\ \A v \in Writers \ {w} : docStep'[v] = docStep[v]
  BY <1>H DEF Goto, Types, Steps
<1>1. Types'
  BY <1>H, <1>S DEF Types
<1>2. Alone(w)
  BY <1>S DEF Alone
<1>3. Learns(w)
  BY <1>H, <1>S DEF Learns, Pending
<1>4. Path(w)'
  BY <1>H, <1>S DEF Path
<1>5. Told(w)'
  BY <1>H, <1>S, ToldKept DEF Earlier
<1> QED
  BY <1>1, <1>2, <1>3, <1>4, <1>5 DEF Local, WriterInv

LEMMA BeginKeeps == ASSUME DocInv, NEW w \in Writers, DocBegin(w) PROVE Local(w)
<1>H. /\ Types /\ Path(w) /\ Blank /\ Told(w) /\ docSaves[w] \in 0..MaxSaves
      /\ docRev[w] \in Revision \cup {NoRevision}
      /\ \A e \in docRev[w].bytes : ~Nowhere(e)
  BY Here
<1>D. /\ docStep[w] = "idle" /\ docSaves[w] < MaxSaves
      /\ w \in Configurators => docRev[w] # NoRevision
      /\ UNCHANGED <<docLink, docFile, docNewId, docLock, docRev, docBackup, docTemp, docLast,
                     docEvents, docLanded, docGap>>
  BY DEF DocBegin, docSaveVars
<1>S. /\ docSaves' \in [Writers -> 0..MaxSaves] /\ docSaves'[w] = docSaves[w] + 1
      /\ docRetried' \in [Writers -> BOOLEAN] /\ docRetried'[w] = FALSE
      /\ docMoved' \in [Writers -> 0..2] /\ docMoved'[w] = 0
      /\ docStep' \in [Writers -> Steps]
      /\ docStep'[w] = IF w \in Editors THEN "load" ELSE "lock"
      /\ \A v \in Writers \ {w} : /\ docStep'[v] = docStep[v] /\ docSaves'[v] = docSaves[v]
                                  /\ docRetried'[v] = docRetried[v] /\ docMoved'[v] = docMoved[v]
  <2>1. docSaves[w] + 1 \in 0..MaxSaves
    BY <1>D, <1>H, Constants
  <2>2. docSaves' = [docSaves EXCEPT ![w] = docSaves[w] + 1]
    BY DEF DocBegin
  <2>3. docSaves \in [Writers -> 0..MaxSaves]
    BY <1>H DEF Types
  <2>4. /\ docSaves' \in [Writers -> 0..MaxSaves] /\ docSaves'[w] = docSaves[w] + 1
        /\ \A v \in Writers \ {w} : docSaves'[v] = docSaves[v]
    BY <2>1, <2>2, <2>3
  <2>5. /\ docRetried' \in [Writers -> BOOLEAN] /\ docRetried'[w] = FALSE
        /\ docMoved' \in [Writers -> 0..2] /\ docMoved'[w] = 0
        /\ docStep' \in [Writers -> Steps]
        /\ docStep'[w] = IF w \in Editors THEN "load" ELSE "lock"
        /\ \A v \in Writers \ {w} : docStep'[v] = docStep[v] /\ docRetried'[v] = docRetried[v]
                                    /\ docMoved'[v] = docMoved[v]
    BY <1>H DEF DocBegin, Goto, Types, Steps
  <2> QED
    BY <2>4, <2>5
<1>1. Types'
  BY <1>H, <1>D, <1>S DEF Types
<1>2. Alone(w)
  BY <1>D, <1>S DEF Alone
<1>3. Learns(w)
  BY <1>H, <1>D, <1>S DEF Learns, Blank, Pending
<1>4. Path(w)'
  BY <1>H, <1>D, <1>S DEF Path, Writers
<1>5. Owner(w)' /\ Carried(w)'
  BY <1>S DEF Owner, Carried
<1>6. Race(w)'
  BY <1>S DEF Race
<1>7. Told(w)'
  BY <1>H, <1>D, <1>S, ToldKept DEF Earlier
<1> QED
  BY <1>1, <1>2, <1>3, <1>4, <1>5, <1>6, <1>7 DEF Local, WriterInv

LEMMA OpenKeeps == ASSUME DocInv, NEW w \in Writers, DocOpen(w) PROVE Local(w)
<1>H. /\ Types /\ Path(w) /\ Blank /\ Told(w)
      /\ \A f \in DocFiles : \A e \in docFile[f].bytes : ~Nowhere(e)
  BY Here
<1>D. /\ docStep[w] = "idle" /\ docRev' \in [Writers -> Revision \cup {NoRevision}]
      /\ docRev'[w] = Current /\ \A v \in Writers \ {w} : docRev'[v] = docRev[v]
      /\ UNCHANGED <<docLink, docFile, docNewId, docLock, docLanded, docGap, docStep, docBackup,
                     docTemp, docLast, docSaves, docRetried, docEvents, docMoved>>
  BY <1>H, Now DEF DocOpen, docDiskVars, Types
<1>1. Types'
  BY <1>H, <1>D DEF Types
<1>2. Alone(w)
  BY <1>D DEF Alone
<1>3. docLink \in DocFiles
  BY <1>H DEF Types
<1>4. Learns(w)
  BY <1>H, <1>D, <1>3, Now DEF Learns, Blank, Pending
<1>5. Path(w)' /\ Owner(w)' /\ Carried(w)' /\ Race(w)'
  BY <1>D DEF Path, Owner, Carried, Race
<1>6. Told(w)'
  BY <1>H, <1>D, ToldKept DEF Earlier
<1> QED
  BY <1>1, <1>2, <1>4, <1>5, <1>6 DEF Local, WriterInv

LEMMA StatKeeps == ASSUME DocInv, NEW w \in Writers, DocStat(w) PROVE Local(w)
<1>H. Types /\ Path(w) /\ Blank /\ Race(w)
  BY Here
<1> DEFINE seen == [Current EXCEPT !.bytes = {}]
           next == IF Current.id = 0 THEN "lock" ELSE "read"
<1>1. /\ seen \in Revision /\ seen.dest = docLink /\ seen.id = docFile[docLink].id
      /\ seen.bytes = {} /\ docLink \in DocFiles
  BY <1>H, Now DEF Revision, Types
<1>2. Current.id = 0 => seen = Current
  BY <1>H, <1>1, Now DEF Revision, Blank
<1>D. /\ docStep[w] = "load" /\ Goto(w, next) /\ next \in {"lock", "read"}
      /\ docRev' = [docRev EXCEPT ![w] = seen] /\ docBackup' = [docBackup EXCEPT ![w] = {}]
      /\ UNCHANGED <<docLink, docFile, docNewId, docLock, docLanded, docGap, docTemp, docLast,
                     docSaves, docRetried, docEvents, docMoved>>
  BY DEF DocStat, docDiskVars
<1> HIDE DEF seen
<1>3. /\ docRev' \in [Writers -> Revision \cup {NoRevision}] /\ docRev'[w] = seen
      /\ docBackup' \in [Writers -> SUBSET DocEdit] /\ docBackup'[w] = {}
      /\ \A v \in Writers \ {w} : docBackup'[v] = docBackup[v] /\ docRev'[v] = docRev[v]
      /\ docStep'[w] = next /\ docLock' \in [DocFiles -> Writers \cup {Free}]
  BY <1>H, <1>1, <1>D DEF Types, Goto
<1>4. Owner(w)' /\ Carried(w)'
  BY <1>3, <1>D DEF Owner, Carried
<1>5. Race(w)'
  <2>1. Current' = Current
    BY <1>D DEF Current
  <2>2. next = "lock" => Unchanged(w)'
    BY <1>2, <1>3, <2>1 DEF Unchanged
  <2>3. docRetried[w] => docMoved[w] >= 1
    BY <1>H, <1>D DEF Race
  <2> QED
    BY <1>1, <1>3, <1>D, <2>2, <2>3 DEF Race
<1>6. next = "read" => seen.id # 0
  BY <1>1, Now, <1>H
<1> QED
  BY <1>1, <1>3, <1>4, <1>5, <1>6, <1>D, Advance

LEMMA ReadKeeps == ASSUME DocInv, NEW w \in Writers, DocRead(w) PROVE Local(w)
<1>H. Types /\ Path(w) /\ Blank /\ Race(w)
  BY Here
<1> DEFINE seen == [docRev[w] EXCEPT !.bytes = docFile[docRev[w].dest].bytes]
<1>1. /\ docStep[w] = "read" /\ docRev[w] \in Revision /\ docRev[w].id # 0
      /\ docRev[w].dest \in DocFiles
  BY <1>H DEF DocRead, Path, Revision
<1>2. docFile[docRev[w].dest] \in Content
  BY <1>1, <1>H DEF Types
<1>3. /\ seen \in Revision /\ seen.id = docRev[w].id /\ seen.dest = docRev[w].dest
      /\ seen.bytes = docFile[docRev[w].dest].bytes
  BY <1>1, <1>2 DEF Revision, Content
<1>D. /\ Goto(w, "lock") /\ docRev' = [docRev EXCEPT ![w] = seen]
      /\ UNCHANGED <<docLink, docFile, docNewId, docLock, docLanded, docGap, docBackup, docTemp,
                     docLast, docSaves, docRetried, docEvents, docMoved>>
  BY DEF DocRead, docDiskVars
<1> HIDE DEF seen
<1>4. /\ docRev' \in [Writers -> Revision \cup {NoRevision}] /\ docRev'[w] = seen
      /\ docBackup' \in [Writers -> SUBSET DocEdit]
      /\ \A v \in Writers \ {w} : docBackup'[v] = docBackup[v] /\ docRev'[v] = docRev[v]
      /\ docStep'[w] = "lock" /\ docLock' \in [DocFiles -> Writers \cup {Free}]
  BY <1>H, <1>3, <1>D DEF Types, Goto
<1>5. Owner(w)' /\ Carried(w)'
  BY <1>4 DEF Owner, Carried
<1>6. Race(w)'
  <2>1. docRev[w].dest = docLink /\ docRev[w].id = docFile[docLink].id => Unchanged(w)'
    BY <1>3, <1>4, <1>D, <1>H, Now DEF Unchanged, Current, Revision
  <2> QED
    BY <1>1, <1>4, <1>D, <1>H, <2>1 DEF Race, Needed
<1> QED
  BY <1>1, <1>3, <1>4, <1>5, <1>6, <1>D, Advance

LEMMA LockKeeps == ASSUME DocInv, NEW w \in Writers, DocLock(w) PROVE Local(w)
<1>H. /\ Types /\ Path(w) /\ Blank /\ Race(w) /\ docRev[w] \in Revision \cup {NoRevision}
      /\ docSaves[w] \in 0..MaxSaves
  BY Here
<1>1. docStep[w] = "lock" /\ docRev[w] \in Revision /\ docRev[w].dest \in DocFiles
  BY <1>H DEF DocLock, Path, Revision
<1>D. UNCHANGED <<docLink, docFile, docNewId, docSaves, docRetried, docEvents, docMoved, docLanded,
                  docGap>>
  BY DEF DocLock
<1>2. CASE DocFinish(w, "busy", docRev[w])
  <2>1. docEvents' \in 0..MaxOutside
    BY <1>H, <1>D DEF Types
  <2> QED
    BY <1>1, <1>2, <1>D, <1>H, <2>1, FinishKeeps
<1>3. CASE /\ docLock[docRev[w].dest] = Free /\ docLock' = [docLock EXCEPT ![docRev[w].dest] = w]
           /\ Goto(w, "compare") /\ UNCHANGED docSaveVars
  <2>1. /\ docLock' \in [DocFiles -> Writers \cup {Free}] /\ docLock'[docRev[w].dest] = w
        /\ \A f \in DocFiles : docLock'[f] = docLock[f] \/ docLock[f] \in {w, Free}
        /\ docStep'[w] = "compare" /\ UNCHANGED <<docRev, docBackup, docTemp, docLast>>
    BY <1>3, <1>1, <1>H DEF Types, Goto, docSaveVars
  <2>2. Owner(w)' /\ Carried(w)'
    BY <2>1 DEF Owner, Carried
  <2>3. Race(w)'
    BY <1>1, <1>D, <1>H, <2>1 DEF Race, Unchanged, Current, Needed
  <2>4. docRev \in [Writers -> Revision \cup {NoRevision}] /\ docBackup \in [Writers -> SUBSET DocEdit]
    BY <1>H DEF Types
  <2>5. docRev[w].id = 0 => docRev[w].bytes = {}
    BY <1>H DEF Blank
  <2> QED
    BY <1>1, <1>3, <1>D, <2>1, <2>2, <2>3, <2>4, <2>5, Advance
<1> QED
  BY <1>2, <1>3 DEF DocLock

LEMMA CompareKeeps == ASSUME DocInv, NEW w \in Writers, DocCompare(w) PROVE Local(w)
<1>H. /\ Types /\ Path(w) /\ Blank /\ Race(w) /\ Owner(w)
      /\ docRev[w] \in Revision \cup {NoRevision}
  BY Here
<1>1. /\ docStep[w] \in {"compare", "recompare"} /\ docRev[w] \in Revision
      /\ UNCHANGED <<docLink, docFile, docNewId, docSaves, docEvents, docMoved, docLanded, docGap>>
  BY <1>H DEF DocCompare, Path
<1>2. CASE ~Unchanged(w)
  <2>1. DocStale(w)
    BY <1>2 DEF DocCompare
  <2> QED
    BY <1>1, <1>2, <2>1, StaleKeeps
<1>3. CASE Unchanged(w)
  <2> DEFINE next == IF docStep[w] = "recompare" THEN "look"
                     ELSE IF docRev[w].id = 0 THEN "recompare" ELSE "backup"
  <2>1. Goto(w, next) /\ UNCHANGED <<docLock, docSaveVars, docRetried>>
    BY <1>3 DEF DocCompare
  <2>2. docStep'[w] = next /\ UNCHANGED <<docLock, docRev, docBackup, docTemp, docLast, docRetried>>
    BY <2>1, <1>H DEF Goto, docSaveVars, Types
  <2>3. Owner(w)'
    BY <1>1, <1>H, <2>2 DEF Owner
  <2>4. Carried(w)'
    BY <2>2 DEF Carried
  <2>5. Race(w)'
    BY <1>1, <1>3, <1>H, <2>2 DEF Race, Unchanged, Current, Needed
  <2>6. /\ docRev \in [Writers -> Revision \cup {NoRevision}]
        /\ docBackup \in [Writers -> SUBSET DocEdit] /\ docLock \in [DocFiles -> Writers \cup {Free}]
    BY <1>H DEF Types
  <2>7. docRev[w].id = 0 => docRev[w].bytes = {}
    BY <1>H DEF Blank
  <2>8. next \in {"look", "recompare", "backup"} /\ (next = "backup" => docRev[w].id # 0)
    OBVIOUS
  <2> HIDE DEF next
  <2> QED
    BY <1>1, <2>1, <2>2, <2>3, <2>4, <2>5, <2>6, <2>7, <2>8, Advance
<1> QED
  BY <1>2, <1>3

LEMMA CopyKeeps == ASSUME DocInv, NEW w \in Writers, DocCopy(w) PROVE Local(w)
<1>H. /\ Types /\ Path(w) /\ Blank /\ Race(w) /\ Owner(w) /\ docMoved[w] \in 0..2
      /\ docRev[w] \in Revision \cup {NoRevision}
  BY Here
<1>1. /\ docStep[w] = "backup" /\ docRev[w] \in Revision
      /\ UNCHANGED <<docLink, docFile, docNewId, docSaves, docRetried, docEvents, docMoved, docLanded,
                     docGap>>
  BY <1>H DEF DocCopy, Path
<1>2. CASE Current.id = 0
  <2>1. DocFinish(w, "failed", docRev[w])
    BY <1>2 DEF DocCopy
  <2>2. docEvents' \in 0..MaxOutside
    BY <1>1, <1>H DEF Types
  <2> QED
    BY <1>1, <1>H, <2>1, <2>2, FinishKeeps
<1>3. CASE Current.id # 0
  <2>1. /\ docBackup' = [docBackup EXCEPT ![w] = Current.bytes] /\ Goto(w, "recompare")
        /\ UNCHANGED <<docLock, docRev, docTemp, docLast>>
    BY <1>3 DEF DocCopy
  <2>2. Current.bytes \in SUBSET DocEdit
    BY Now, <1>H DEF Revision
  <2>3. /\ docBackup' \in [Writers -> SUBSET DocEdit] /\ docBackup'[w] = Current.bytes
        /\ \A v \in Writers \ {w} : docBackup'[v] = docBackup[v]
        /\ docStep'[w] = "recompare"
    BY <1>H, <2>1, <2>2 DEF Types, Goto
  <2>4. Owner(w)' /\ Carried(w)'
    BY <1>1, <1>H, <2>1, <2>3 DEF Owner, Carried
  <2>5. (Unchanged(w)' <=> Unchanged(w)) /\ (Unchanged(w) => Current.bytes = docRev[w].bytes)
    BY <1>1, <2>1 DEF Unchanged, Current
  <2>6. Race(w)'
    BY <1>1, <1>H, <2>1, <2>3, <2>5 DEF Race, Needed
  <2>7. /\ docRev \in [Writers -> Revision \cup {NoRevision}]
        /\ docLock \in [DocFiles -> Writers \cup {Free}]
    BY <1>H DEF Types
  <2>8. docRev[w].id = 0 => docRev[w].bytes = {}
    BY <1>H DEF Blank
  <2> QED
    BY <1>1, <2>1, <2>3, <2>4, <2>6, <2>7, <2>8, Advance
<1> QED
  BY <1>2, <1>3

LEMMA LookKeeps == ASSUME DocInv, NEW w \in Writers, DocLook(w) PROVE Local(w)
<1>H. /\ Types /\ Path(w) /\ Blank /\ Race(w) /\ Owner(w)
      /\ docRev[w] \in Revision \cup {NoRevision}
  BY Here
<1>1. /\ docStep[w] = "look" /\ docRev[w] \in Revision /\ docRev[w].dest \in DocFiles
      /\ UNCHANGED <<docLink, docFile, docNewId, docSaves, docEvents, docMoved, docLanded, docGap>>
  BY <1>H DEF DocLook, Path, Revision
<1>2. CASE ~AsExpected(w)
  <2>1. DocStale(w) /\ ~Unchanged(w)
    BY <1>2, Now, <1>H DEF DocLook, AsExpected, Unchanged
  <2> QED
    BY <1>1, <2>1, StaleKeeps
<1>3. CASE AsExpected(w)
  <2>1. Goto(w, "rename") /\ UNCHANGED <<docLock, docRev, docBackup, docTemp, docLast, docRetried>>
    BY <1>3 DEF DocLook, docSaveVars
  <2>2. docStep'[w] = "rename"
    BY <2>1, <1>H DEF Goto, Types
  <2>3. Owner(w)'
    BY <1>1, <1>H, <2>1, <2>2 DEF Owner
  <2>4. Carried(w)'
    BY <1>1, <1>3, <2>1 DEF Carried, AsExpected, DocInv, DocNothingLost
  <2>5. Race(w)'
    BY <1>1, <1>H, <2>1, <2>2 DEF Race, Unchanged, Current, Needed
  <2>6. /\ docRev \in [Writers -> Revision \cup {NoRevision}]
        /\ docBackup \in [Writers -> SUBSET DocEdit] /\ docLock \in [DocFiles -> Writers \cup {Free}]
    BY <1>H DEF Types
  <2>7. docRev[w].id = 0 => docRev[w].bytes = {}
    BY <1>H DEF Blank
  <2> QED
    BY <1>1, <2>1, <2>2, <2>3, <2>4, <2>5, <2>6, <2>7, Advance
<1> QED
  BY <1>2, <1>3

\* The kernel refuses to create over a file that has come into being.
LEMMA TakenKeeps == ASSUME DocInv, NEW w \in Writers, DocRename(w), NameTaken(w) PROVE Local(w)
<1>H. Types
  BY Here
<1>1. ~Unchanged(w)
  BY Now, <1>H DEF NameTaken, Unchanged
<1> QED
  BY <1>1, StaleKeeps DEF DocRename

LEMMA SyncKeeps == ASSUME DocInv, NEW w \in Writers, DocSync(w) PROVE Local(w)
<1>H. /\ Types /\ Path(w) /\ docTemp[w] \in Nat /\ docSaves[w] > 0
  BY Here DEF DocSync
<1>1. /\ docStep[w] = "sync" /\ docRev[w] \in Revision
      /\ UNCHANGED <<docLink, docFile, docNewId, docSaves, docRetried, docEvents, docMoved, docLanded,
                     docGap>>
  BY <1>H DEF DocSync, Path
<1>2. CurrentEdit(w) \in DocEdit
  BY <1>H, OwnEdit
<1>3. AfterWrite(w) \in Revision
  BY <1>1, <1>2, <1>H DEF AfterWrite, Revision
<1>4. docEvents' \in 0..MaxOutside
  BY <1>1, <1>H DEF Types
<1>5. CASE DocFinish(w, "saved", AfterWrite(w))
  BY <1>1, <1>3, <1>4, <1>5, FinishKeeps
<1>6. CASE DocFinish(w, "failed", docRev[w])
  BY <1>1, <1>4, <1>6, FinishKeeps
<1> QED
  BY <1>5, <1>6 DEF DocSync

LEMMA CrashKeeps == ASSUME DocInv, NEW w \in Writers, DocCrash(w) PROVE Local(w)
<1>H. Types
  BY Here
<1>1. docEvents' \in 0..MaxOutside
  BY <1>H, Constants DEF Types, DocCrash, DocEvent
<1> QED
  BY <1>1, FinishKeeps DEF DocCrash

-----------------------------------------------------------------------------
(* Steps that change a file, or what the path names. *)

\* Others moved the file: whoever is in a save has been told by its count.
LEMMA RaceMoved ==
  ASSUME Types, NEW w \in Writers, Race(w),
         docStep'[w] = docStep[w], docRev'[w] = docRev[w], docBackup'[w] = docBackup[w],
         docRetried'[w] = docRetried[w],
         docMoved'[w] = IF docStep[w] # "idle" /\ docMoved[w] < 2 THEN docMoved[w] + 1 ELSE docMoved[w]
  PROVE  Race(w)'
<1>1. docMoved[w] \in 0..2
  BY DEF Types
<1>2. docStep[w] # "idle" => docMoved'[w] >= 1 /\ (docMoved[w] >= 1 => docMoved'[w] = 2)
  BY <1>1
<1>3. docStep[w] # "idle" => docMoved'[w] >= Needed(w)
  BY <1>2 DEF Race, Needed
<1> QED
  BY <1>2, <1>3 DEF Race, Needed

\* What is left of a writer's invariant when others change files.
LEMMA OtherKeeps ==
  ASSUME DocInv, NEW w \in Writers,
         docStep'[w] = docStep[w], docRev'[w] = docRev[w], docBackup'[w] = docBackup[w],
         docRetried'[w] = docRetried[w], docTemp'[w] = docTemp[w], docSaves'[w] = docSaves[w],
         docLast'[w] = docLast[w], docLock' = docLock,
         docMoved'[w] = IF docStep[w] # "idle" /\ docMoved[w] < 2 THEN docMoved[w] + 1 ELSE docMoved[w],
         \A f \in DocFiles : docLanded[f] \subseteq docLanded'[f],
         Carried(w)'
  PROVE  WriterInv(w)'
<1>H. Types /\ Path(w) /\ Owner(w) /\ Race(w) /\ Told(w)
  BY Here
<1>1. Path(w)'
  <2>1. docStep[w] = "sync" => docRev[w].dest \in DocFiles
    BY <1>H DEF Path, Revision
  <2> QED
    BY <1>H, <2>1 DEF Path, CurrentEdit
<1>2. Owner(w)'
  BY <1>H DEF Owner
<1>3. Race(w)'
  BY <1>H, RaceMoved
<1>4. Told(w)'
  BY <1>H, ToldKept DEF Earlier
<1> QED
  BY <1>1, <1>2, <1>3, <1>4 DEF WriterInv

\* One edit more is in the files; it is not one that is still to be written.
LEMMA UnwrittenKept ==
  ASSUME DocInv, NEW new,
         \A f \in DocFiles : docFile'[f].bytes \subseteq
                               docFile[f].bytes \cup {new} \cup UNION {docRev[v].bytes : v \in Writers},
         UNCHANGED <<docRev, docSaves, docLast>>,
         \A v \in Writers, k \in 1..MaxSaves : Pending(v, k)' => Pending(v, k) /\ <<v, k>> # new,
         \A v \in Writers, k \in 1..MaxSaves : Earlier(v, k) => <<v, k>> # new
  PROVE  Unwritten'
<1>U. Unwritten /\ \A v \in Writers : Told(v)
  BY DEF DocInv, WriterInv
<1>1. ASSUME NEW e, Nowhere(e), e # new PROVE Nowhere(e)'
  BY <1>1 DEF Nowhere
<1>2. ASSUME NEW v \in Writers, NEW k \in 1..MaxSaves, Pending(v, k)' PROVE Nowhere(<<v, k>>)'
  BY <1>1, <1>2, <1>U DEF Unwritten
<1>3. ASSUME NEW v \in Writers, docLast'[v].outcome \in {"stale", "busy"}
      PROVE  (Nowhere(docLast[v].edit))'
  <2>1. Nowhere(docLast[v].edit) /\ docLast[v].outcome # "none"
    BY <1>3, <1>U DEF Unwritten
  <2>2. docLast[v].edit # new
    BY <1>U, <2>1 DEF Told
  <2> QED
    BY <1>1, <2>1, <2>2 DEF Nowhere
<1> QED
  BY <1>2, <1>3 DEF Unwritten

\* What others count as a move.
LEMMA Counted ==
  ASSUME Types, NEW w, NoteMove(w)
  PROVE  /\ docMoved' \in [Writers -> 0..2]
         /\ \A v \in Writers \ {w} : docMoved'[v] = IF docStep[v] # "idle" /\ docMoved[v] < 2
                                                    THEN docMoved[v] + 1 ELSE docMoved[v]
         /\ w \in Writers => docMoved'[w] = docMoved[w]
<1>1. docMoved \in [Writers -> 0..2]
  BY DEF Types
<1>2. \A v \in Writers : docMoved[v] < 2 => docMoved[v] + 1 \in 0..2
  BY <1>1
<1> QED
  BY <1>1, <1>2 DEF NoteMove

LEMMA RenameKeeps == ASSUME DocInv, NEW w \in Writers, DocRename(w), ~NameTaken(w) PROVE DocInv'
<1> DEFINE f == docRev[w].dest
           edit == <<w, docSaves[w]>>
<1>H. /\ Types /\ Blank /\ Path(w) /\ Owner(w) /\ Carried(w) /\ Race(w) /\ Told(w)
      /\ docSaves[w] > 0 /\ docSaves[w] \in 1..MaxSaves /\ docStep[w] = "rename"
  BY Here DEF DocRename
<1>1. docRev[w] \in Revision /\ f \in DocFiles /\ docRev[w].bytes \subseteq DocEdit
  BY <1>H DEF Path, Revision
<1>2. CurrentEdit(w) = edit /\ edit \in DocEdit
  BY <1>H, OwnEdit
<1> DEFINE written == [id |-> docNewId, bytes |-> docRev[w].bytes \cup {edit}]
<1>D. /\ docFile' = [docFile EXCEPT ![f] = written] /\ docNewId' = docNewId + 1
      /\ docLanded' = [docLanded EXCEPT ![f] = docLanded[f] \cup {edit}]
      /\ docTemp' = [docTemp EXCEPT ![w] = docNewId] /\ NoteMove(w) /\ Goto(w, "sync")
      /\ UNCHANGED <<docLock, docRev, docBackup, docLast, docRetried, docLink, docSaves, docEvents,
                     docGap>>
  BY <1>2 DEF DocRename
<1>3. written \in Content /\ written.id = docNewId /\ written.bytes = docRev[w].bytes \cup {edit}
  BY <1>1, <1>2, <1>H DEF Content, Types
<1>4. docNewId \in Nat \ {0} /\ docNewId' \in Nat \ {0}
  BY <1>H, <1>D DEF Types
<1> HIDE DEF written
<1>5. /\ docFile' \in [DocFiles -> Content] /\ docFile'[f] = written
      /\ \A g \in DocFiles \ {f} : docFile'[g] = docFile[g]
  BY <1>1, <1>3, <1>D, <1>H DEF Types
<1>6. /\ docLanded' \in [DocFiles -> SUBSET DocEdit] /\ docLanded'[f] = docLanded[f] \cup {edit}
      /\ \A g \in DocFiles \ {f} : docLanded'[g] = docLanded[g]
  BY <1>1, <1>2, <1>D, <1>H DEF Types
<1>7. /\ docTemp' \in [Writers -> Nat] /\ docTemp'[w] = docNewId
      /\ docStep' \in [Writers -> Steps] /\ docStep'[w] = "sync"
      /\ \A v \in Writers \ {w} : docTemp'[v] = docTemp[v] /\ docStep'[v] = docStep[v]
  BY <1>4, <1>D, <1>H DEF Types, Goto, Steps
<1>8. Types'
  BY <1>4, <1>5, <1>6, <1>7, <1>D, <1>H, Counted DEF Types
<1>9. Blank'
  BY <1>3, <1>4, <1>5, <1>D, <1>H DEF Blank
<1>10. docLanded[f] \ docRev[w].bytes \subseteq docGap
  <2>1. CASE docRev[w].id # 0
    BY <1>H, <2>1 DEF Carried
  <2>2. CASE docRev[w].id = 0
    <3>1. docFile[f].bytes = {}
      BY <1>1, <1>H, <2>2 DEF NameTaken, Blank
    <3> QED
      BY <1>1, <3>1 DEF DocInv, DocNothingLost
  <2> QED
    BY <2>1, <2>2
<1>11. DocNothingLost'
  BY <1>3, <1>5, <1>6, <1>10, <1>D DEF DocInv, DocNothingLost
<1>12. Unwritten'
  <2>1. \A g \in DocFiles : docFile'[g].bytes \subseteq
                              docFile[g].bytes \cup {edit} \cup UNION {docRev[v].bytes : v \in Writers}
    BY <1>3, <1>5
  <2>2. \A v \in Writers, k \in 1..MaxSaves : Pending(v, k)' => Pending(v, k) /\ <<v, k>> # edit
    BY <1>7, <1>D, <1>H DEF Pending
  <2>3. \A v \in Writers, k \in 1..MaxSaves : Earlier(v, k) => <<v, k>> # edit
    BY <1>H DEF Earlier
  <2> QED
    BY <1>D, <2>1, <2>2, <2>3, UnwrittenKept
<1>13. \A g \in DocFiles : docLanded[g] \subseteq docLanded'[g]
  BY <1>6
<1>14. WriterInv(w)'
  <2>1. Path(w)'
    BY <1>1, <1>2, <1>4, <1>6, <1>7, <1>D, <1>H DEF Path, CurrentEdit
  <2>2. Owner(w)' /\ Carried(w)'
    BY <1>7, <1>D, <1>H DEF Owner, Carried
  <2>3. docMoved'[w] = docMoved[w]
    BY <1>D, <1>H, Counted
  <2>4. Race(w)'
    BY <1>7, <1>D, <1>H, <2>3 DEF Race
  <2>5. Told(w)'
    BY <1>7, <1>13, <1>D, <1>H, ToldKept DEF Earlier
  <2> QED
    BY <2>1, <2>2, <2>4, <2>5 DEF WriterInv
<1>15. ASSUME NEW v \in Writers \ {w} PROVE WriterInv(v)'
  <2>1. Path(v) /\ Owner(v) /\ Carried(v)
    BY Here
  <2>2. Carried(v)'
    <3> SUFFICES ASSUME docStep[v] = "rename", docRev[v].id # 0
                 PROVE  docLanded'[docRev[v].dest] \ docRev[v].bytes \subseteq docGap
      BY <1>7, <1>D DEF Carried
    <3>1. docRev[v].dest \in DocFiles /\ docLock[docRev[v].dest] = v
      BY <2>1 DEF Path, Owner, Revision
    <3>2. docRev[v].dest # f
      BY <1>H, <3>1 DEF Owner
    <3> QED
      BY <1>6, <2>1, <3>1, <3>2 DEF Carried
  <2> QED
    BY <1>7, <1>13, <1>D, <1>H, <2>2, Counted, OtherKeeps
<1> QED
  BY <1>8, <1>9, <1>11, <1>12, <1>14, <1>15 DEF DocInv

LEMMA OutsideKeeps ==
  ASSUME DocInv, NEW f \in DocFiles, NEW replaced \in BOOLEAN, DocOutsideWrite(f, replaced)
  PROVE  DocInv'
<1> DEFINE edit == <<"outside", docEvents + 1>>
           new == replaced \/ docFile[f].id = 0
           number == IF new THEN docNewId ELSE docFile[f].id
           written == [id |-> number, bytes |-> docFile[f].bytes \cup {edit}]
           between == \E w \in Writers : docStep[w] = "rename" /\ docRev[w].dest = f /\ docRev[w].id # 0
<1>H. Types /\ Blank /\ DocNothingLost
  BY DEF DocInv
<1>1. docFile[f] \in Content /\ docNewId \in Nat \ {0} /\ docEvents \in 0..MaxOutside
  BY <1>H DEF Types
<1>2. docEvents' = docEvents + 1 /\ docEvents' \in 0..MaxOutside /\ edit \in Outside
  BY <1>1, Constants DEF DocOutsideWrite, DocEvent, Outside
<1>3. edit \in DocEdit /\ \A v \in Writers, k \in 1..MaxSaves : <<v, k>> # edit
  BY <1>2, Constants DEF DocEdit
<1>D. /\ docFile' = [docFile EXCEPT ![f] = written]
      /\ docNewId' = IF new THEN docNewId + 1 ELSE docNewId
      /\ docLanded' = [docLanded EXCEPT ![f] = docLanded[f] \cup {edit}]
      /\ docGap' = IF between THEN docGap \cup {edit} ELSE docGap
      /\ NoteMove(Free)
      /\ UNCHANGED <<docLink, docLock, docStep, docRev, docBackup, docTemp, docLast, docSaves,
                     docRetried>>
  BY DEF DocOutsideWrite, docSaveVars
<1>4. /\ written \in Content /\ written.id = number /\ number \in Nat \ {0}
      /\ written.bytes = docFile[f].bytes \cup {edit}
  BY <1>1, <1>3 DEF Content
<1> HIDE DEF written, number
<1>5. /\ docFile' \in [DocFiles -> Content] /\ docFile'[f] = written
      /\ \A g \in DocFiles \ {f} : docFile'[g] = docFile[g]
  BY <1>4, <1>D, <1>H DEF Types
<1> HIDE DEF edit, between
<1>6. /\ docLanded' \in [DocFiles -> SUBSET DocEdit] /\ docLanded'[f] = docLanded[f] \cup {edit}
      /\ \A g \in DocFiles \ {f} : docLanded'[g] = docLanded[g]
  BY <1>3, <1>D, <1>H DEF Types
<1>7. docGap' \subseteq Outside /\ docGap \subseteq docGap'
  BY <1>2, <1>D, <1>H DEF Types
<1>8. docNewId' \in Nat \ {0}
  BY <1>1, <1>D
<1>9. docMoved' \in [Writers -> 0..2]
  BY <1>D, <1>H, Counted
<1>10. Types'
  BY <1>2, <1>5, <1>6, <1>7, <1>8, <1>9, <1>D, <1>H DEF Types
<1>11. Blank'
  BY <1>4, <1>5, <1>D, <1>H DEF Blank
<1>12. DocNothingLost'
  BY <1>4, <1>5, <1>6, <1>7, <1>H DEF DocNothingLost
<1>13. Unwritten'
  <2>1. \A g \in DocFiles : docFile'[g].bytes \subseteq
                              docFile[g].bytes \cup {edit} \cup UNION {docRev[v].bytes : v \in Writers}
    BY <1>4, <1>5
  <2>2. \A v \in Writers, k \in 1..MaxSaves : Pending(v, k)' => Pending(v, k) /\ <<v, k>> # edit
    BY <1>3, <1>D DEF Pending
  <2>3. \A v \in Writers, k \in 1..MaxSaves : Earlier(v, k) => <<v, k>> # edit
    BY <1>3
  <2> QED
    BY <1>D, <2>1, <2>2, <2>3, UnwrittenKept
<1>14. ASSUME NEW v \in Writers PROVE WriterInv(v)'
  <2>1. v # Free
    BY Constants
  <2>2. Path(v) /\ Carried(v)
    BY Here
  <2>3. Carried(v)'
    <3> SUFFICES ASSUME docStep[v] = "rename", docRev[v].id # 0
                 PROVE  docLanded'[docRev[v].dest] \ docRev[v].bytes \subseteq docGap'
      BY <1>D DEF Carried
    <3>1. docRev[v].dest \in DocFiles
      BY <2>2 DEF Path, Revision
    <3>2. docRev[v].dest = f => edit \in docGap'
      BY <1>D DEF between
    <3> QED
      BY <1>6, <1>7, <2>2, <3>1, <3>2 DEF Carried
  <2> QED
    BY <1>6, <1>D, <1>H, <2>1, <2>3, Counted, OtherKeeps
<1> QED
  BY <1>10, <1>11, <1>12, <1>13, <1>14 DEF DocInv

LEMMA RetargetKeeps == ASSUME DocInv, NEW f \in DocFiles, DocRetarget(f) PROVE DocInv'
<1>H. Types /\ Blank /\ DocNothingLost /\ Unwritten
  BY DEF DocInv
<1>D. /\ docLink' = f /\ NoteMove(Free)
      /\ UNCHANGED <<docFile, docNewId, docLock, docLanded, docGap, docStep, docRev, docBackup,
                     docTemp, docLast, docSaves, docRetried>>
  BY DEF DocRetarget, docSaveVars
<1>1. docEvents' \in 0..MaxOutside
  BY <1>H, Constants DEF DocRetarget, DocEvent, Types
<1>2. docMoved' \in [Writers -> 0..2]
  BY <1>D, <1>H, Counted
<1>3. Types'
  BY <1>1, <1>2, <1>D, <1>H DEF Types
<1>4. Blank' /\ DocNothingLost'
  BY <1>D, <1>H DEF Blank, DocNothingLost
<1>5. Unwritten'
  BY <1>D, <1>H DEF Unwritten, Nowhere, Pending
<1>6. ASSUME NEW v \in Writers PROVE WriterInv(v)'
  <2>1. v # Free
    BY Constants
  <2>2. Carried(v)
    BY Here
  <2>3. Carried(v)'
    BY <1>D, <2>2 DEF Carried
  <2> QED
    BY <1>D, <1>H, <2>1, <2>3, Counted, OtherKeeps
<1> QED
  BY <1>3, <1>4, <1>5, <1>6 DEF DocInv

-----------------------------------------------------------------------------
LEMMA DocStart == ASSUME DocInit PROVE DocInv
<1>1. /\ docLink = FirstFile /\ docNewId = 2 /\ docEvents = 0 /\ docGap = {}
      /\ docFile \in [DocFiles -> {Absent} \cup {[id |-> 1, bytes |-> {}]}]
      /\ docLock = [f \in DocFiles |-> Free] /\ docStep = [w \in Writers |-> "idle"]
      /\ docRev = [w \in Writers |-> NoRevision] /\ docBackup = [w \in Writers |-> {}]
      /\ docTemp = [w \in Writers |-> 0] /\ docSaves = [w \in Writers |-> 0]
      /\ docRetried = [w \in Writers |-> FALSE] /\ docMoved = [w \in Writers |-> 0]
      /\ docLast = [w \in Writers |-> NoOutcome] /\ docLanded = [f \in DocFiles |-> {}]
  BY DEF DocInit
<1>2. \A f \in DocFiles : docFile[f] \in Content /\ docFile[f].bytes = {}
  <2>1. \A x \in {Absent} \cup {[id |-> 1, bytes |-> {}]} : x \in Content /\ x.bytes = {}
    BY DEF Absent, Content
  <2> QED
    BY ONLY <1>1, <2>1
<1>3. Types
  <2>1. docFile \in [DocFiles -> Content]
    BY ONLY <1>1, <1>2
  <2>2. 0 \in 0..MaxOutside /\ 0 \in 0..MaxSaves /\ 0 \in 0..2 /\ 2 \in Nat \ {0}
    BY Constants
  <2> QED
    BY ONLY <1>1, <2>1, <2>2, Constants DEF Types, Steps
<1>4. Blank /\ DocNothingLost
  BY ONLY <1>1, <1>2, Constants DEF Blank, DocNothingLost
<1>5. Unwritten
  BY ONLY <1>1, <1>2, Constants DEF Unwritten, Nowhere
<1>6. ASSUME NEW w \in Writers PROVE WriterInv(w)
  BY ONLY <1>1, <1>6, Constants DEF WriterInv, Path, Owner, Carried, Race, Told
<1> QED
  BY <1>3, <1>4, <1>5, <1>6 DEF DocInv

LEMMA DocStepKeeps == ASSUME DocInv, [DocNext]_docVars PROVE DocInv'
<1>1. ASSUME NEW w \in Writers, DocBegin(w) \/ DocOpen(w) \/ DocStepOf(w) \/ DocCrash(w)
      PROVE  DocInv'
  <2>1. CASE DocRename(w) /\ ~NameTaken(w)
    BY <2>1, RenameKeeps
  <2>2. CASE ~(DocRename(w) /\ ~NameTaken(w))
    <3>1. Local(w)
      BY <1>1, <2>2, BeginKeeps, OpenKeeps, StatKeeps, ReadKeeps, LockKeeps, CompareKeeps,
         CopyKeeps, LookKeeps, TakenKeeps, SyncKeeps, CrashKeeps DEF DocStepOf
    <3> QED
      BY <3>1, LocalKeeps
  <2> QED
    BY <2>1, <2>2
<1>2. ASSUME NEW f \in DocFiles,
             DocRetarget(f) \/ \E replaced \in BOOLEAN : DocOutsideWrite(f, replaced)
      PROVE  DocInv'
  BY <1>2, RetargetKeeps, OutsideKeeps
<1>3. CASE UNCHANGED docVars
  BY <1>3 DEF docVars, DocInv, Types, Blank, DocNothingLost, Unwritten, Nowhere, Pending, WriterInv,
     Path, Owner, Carried, Race, Told, Earlier, Needed, Unchanged, Current, CurrentEdit
<1> QED
  BY <1>1, <1>2, <1>3 DEF DocNext

\* The invariant: whose the lock is, whether what a writer has loaded is current, and
\* where its edit is, at every step of a save (save_with_backup and its callers).
THEOREM DocInvariant == DocSpec => []DocInv
<1>1. DocInit => DocInv
  BY DocStart
<1>2. DocInv /\ [DocNext]_docVars => DocInv'
  BY DocStepKeeps
<1> QED
  BY <1>1, <1>2, PTL DEF DocSpec

\* The variables keep their types.
THEOREM DocTypeCorrect == DocSpec => []DocTypeOK
<1>1. DocInv => DocTypeOK
  <2> SUFFICES ASSUME Types PROVE DocTypeOK
    BY DEF DocInv
  <2>1. \A f \in DocFiles : docFile[f].id \in Nat /\ docFile[f].bytes \subseteq DocEdit
                            /\ docLock[f] \in Writers \cup {Free} /\ docLanded[f] \subseteq DocEdit
    BY DEF Types, Content
  <2>2. \A w \in Writers : docRev[w].id \in Nat /\ docRev[w].bytes \subseteq DocEdit
                           /\ docRev[w].dest \in DocFiles \cup {"none"}
    BY DEF Types, Revision, NoRevision
  <2>3. \A w \in Writers :
          /\ docStep[w] \in Steps /\ docBackup[w] \subseteq DocEdit /\ docSaves[w] \in 0..MaxSaves
          /\ docRetried[w] \in BOOLEAN /\ docMoved[w] \in 0..2
    BY DEF Types
  <2> QED
    BY <2>1, <2>2, <2>3 DEF Types, DocTypeOK, Steps
<1> QED
  BY <1>1, DocInvariant, PTL

\* No write of the configuration undoes a change it has not seen, whatever writers,
\* other programs and links do in between; but for an edit between a replacement's
\* last look and its rename (the write lock, ensure_source_unchanged,
\* verify_expectation).
THEOREM NothingLost == DocSpec => []DocNothingLost
  BY DocInvariant, PTL DEF DocInv

\* What a save reports is true: where its edit is, what its backup holds, and that an
\* edit worker gives up only after two lost races (edit_one_config_key_with_retry).
THEOREM OutcomeTrue == DocSpec => []DocOutcomeTrue
<1>1. DocInv => DocOutcomeTrue
  <2> SUFFICES ASSUME DocInv, NEW w \in Writers
               PROVE  LET d == docLast[w] IN
                 /\ d.outcome = "saved" /\ d.loaded.id # 0 /\ d.moved < 2 => d.backup = d.loaded.bytes
                 /\ d.outcome = "saved" => d.edit \in docLanded[d.loaded.dest]
                 /\ d.outcome \in {"stale", "busy"} => \A f \in DocFiles : d.edit \notin docFile[f].bytes
                 /\ d.outcome = "stale" /\ w \in Editors => d.moved = 2
    BY DEF DocOutcomeTrue
  <2>1. Told(w)
    BY Here
  <2>2. docLast[w].outcome \in {"stale", "busy"} => Nowhere(docLast[w].edit)
    BY DEF DocInv, Unwritten
  <2> QED
    BY <2>1, <2>2 DEF Told, Nowhere
<1> QED
  BY <1>1, DocInvariant, PTL
=============================================================================
