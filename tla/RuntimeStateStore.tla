-------------------------- MODULE RuntimeStateStore --------------------------
(***************************************************************************)
(* The conditional mutation of the runtime UI state file                   *)
(* (src/runtime_ui_state/store/mutation.rs, mutation/*, store/fs.rs): look *)
(* at the file, claim it by moving it aside, look at what was claimed, put *)
(* the replacement in its place, look again, remove what was claimed.      *)
(*                                                                         *)
(* No lock protects the file.  The writer of every overlay process does    *)
(* this, and other programs replace, edit and remove the file between any  *)
(* two steps.  A revision of the file (its bytes and its identity) is a    *)
(* number; the file also has a kind, and the kinds in Foreign cannot be    *)
(* read by this version.  Every call to the filesystem may fail.           *)
(***************************************************************************)
EXTENDS Naturals, FiniteSets
CONSTANTS Stores,       \* the writers of the file, one per overlay process
          Foreign,      \* kinds of files this version does not read: unsupported, invalid
          MaxMutations, \* bound: mutations of each writer
          MaxTroubles   \* bound: writes by other programs, failures and crashes, together

ASSUME StoreAssumption == {"missing", "supported", "replace", "reset"} \cap Foreign = {}

\* What a mutation is asked to do; a preserving reset names the kind it was confirmed for.
Modes == {"replace", "reset"} \cup Foreign
Missing == [id |-> 0, kind |-> "missing"]
NoResult == [kind |-> "none"]

VARIABLES
  rsFile,     \* what the path names, or Missing
  rsAside,    \* the file each writer's mutation has claimed and moved aside, or Missing
  rsKept,     \* revisions left beside the path by mutations that ended
  rsStep,     \* where each writer is in its mutation
  rsMode,     \* what it was asked to do
  rsExpected, \* the revision it was asked to do it to
  rsKnown,    \* the revision its program observed last
  rsNew,      \* the revision the mutation has installed, 0 before
  rsNamed,    \* artifacts the result will name
  rsOut,      \* the result that only lacks a last look at the path
  rsMoved,    \* history: it has moved a file to or from the path
  rsResult,   \* history: each writer's last result
  rsCount,    \* bounded counter of mutations
  rsNewId,    \* number of the next revision
  rsTroubles, \* bounded counter of what other programs and failures did
  rsLanded,   \* history: revisions the path has named
  rsGone,     \* history: revisions removed or replaced by other programs
  rsTold      \* history: readable revisions that a mutation was asked to replace or reset

rsVars == <<rsFile, rsAside, rsKept, rsStep, rsMode, rsExpected, rsKnown, rsNew, rsNamed, rsOut,
            rsMoved, rsResult, rsCount, rsNewId, rsTroubles, rsLanded, rsGone, rsTold>>

\* The file is any at the start, and every program has looked at it.
StoreInit ==
  /\ rsFile \in {Missing} \cup [id : {1}, kind : {"supported"} \cup Foreign]
  /\ rsAside = [s \in Stores |-> Missing]
  /\ rsKept = {}
  /\ rsStep = [s \in Stores |-> "idle"]
  /\ rsMode = [s \in Stores |-> "replace"]
  /\ rsExpected = [s \in Stores |-> Missing]
  /\ rsKnown = [s \in Stores |-> rsFile]
  /\ rsNew = [s \in Stores |-> 0]
  /\ rsNamed = [s \in Stores |-> {}]
  /\ rsOut = [s \in Stores |-> "none"]
  /\ rsMoved = [s \in Stores |-> FALSE]
  /\ rsResult = [s \in Stores |-> NoResult]
  /\ rsCount = [s \in Stores |-> 0]
  /\ rsNewId = 2
  /\ rsTroubles = 0
  /\ rsLanded = {rsFile.id} \ {0}
  /\ rsGone = {}
  /\ rsTold = {}

-----------------------------------------------------------------------------
Ids(file) == {file.id} \ {0}
Trouble == rsTroubles < MaxTroubles /\ rsTroubles' = rsTroubles + 1
Fine == UNCHANGED rsTroubles
RsGoto(s, step) == rsStep' = [rsStep EXCEPT ![s] = step]

\* A mutation ends.  What it holds aside stays beside the path; its program
\* takes over what the result says the path names.
End(s, result, named, known) ==
  /\ rsResult' = [rsResult EXCEPT ![s] =
       [kind |-> result, mode |-> rsMode[s], source |-> rsExpected[s].id, named |-> named,
        left |-> Ids(rsAside[s]), moved |-> rsMoved[s]]]
  /\ rsKept' = rsKept \cup Ids(rsAside[s])
  /\ rsAside' = [rsAside EXCEPT ![s] = Missing]
  /\ rsKnown' = [rsKnown EXCEPT ![s] = known]
  /\ rsOut' = [rsOut EXCEPT ![s] = "none"]
  /\ RsGoto(s, "idle")

endVars == <<rsResult, rsKept, rsKnown, rsOut>>
requestVars == <<rsMode, rsExpected, rsCount, rsTold>>
outsideVars == <<rsNewId, rsLanded, rsGone>>

\* Another look at the path fills in the result before the mutation ends.
Then(s, out, named) ==
  /\ rsOut' = [rsOut EXCEPT ![s] = out]
  /\ rsNamed' = [rsNamed EXCEPT ![s] = named]
  /\ RsGoto(s, "report")
  /\ UNCHANGED <<rsResult, rsKept, rsKnown, rsAside>>

\* artifact_for: what is found aside, when it can be read.
Found(s) == Ids(rsAside[s])

\* observation_changed_retained, for a path that was seen to name another file;
\* without a readable artifact or a synced directory nothing is certain.
Retain(s, seen) ==
  /\ \/ Fine /\ End(s, IF Found(s) = {} THEN "unknown" ELSE "retained", Found(s), seen)
     \/ Trouble /\ \E named \in {{}, Found(s)} : End(s, "unknown", named, seen)
  /\ UNCHANGED rsNamed

-----------------------------------------------------------------------------
(* A mutation. *)

\* A program looks at the file, at its start or to recover from a failure.
RsInspect(s) ==
  /\ rsStep[s] = "idle" /\ rsKnown[s] # rsFile /\ rsCount[s] < MaxMutations
  /\ rsKnown' = [rsKnown EXCEPT ![s] = rsFile]
  /\ UNCHANGED <<rsFile, rsAside, rsKept, rsStep, rsNew, rsNamed, rsOut, rsMoved, rsResult,
                 rsTroubles, requestVars, outsideVars>>

\* The writer takes a command about the revision its program knows.
RsRequest(s, mode) ==
  /\ rsStep[s] = "idle" /\ rsCount[s] < MaxMutations
  /\ rsMode' = [rsMode EXCEPT ![s] = mode]
  /\ rsExpected' = [rsExpected EXCEPT ![s] = rsKnown[s]]
  /\ rsCount' = [rsCount EXCEPT ![s] = @ + 1]
  /\ rsTold' = IF mode \notin Foreign /\ rsKnown[s].kind = "supported"
               THEN rsTold \cup {rsKnown[s].id} ELSE rsTold
  /\ rsNew' = [rsNew EXCEPT ![s] = 0]
  /\ rsNamed' = [rsNamed EXCEPT ![s] = {}]
  /\ rsMoved' = [rsMoved EXCEPT ![s] = FALSE]
  /\ RsGoto(s, "prepare")
  /\ UNCHANGED <<rsFile, rsAside, rsOut, rsResult, rsKept, rsKnown, rsTroubles, outsideVars>>

\* The directory is pinned and the replacement written beside the file.
RsPrepare(s) ==
  /\ rsStep[s] = "prepare"
  /\ \/ Fine /\ RsGoto(s, "look") /\ UNCHANGED <<rsAside, rsNamed, endVars>>
     \/ Trouble /\ \E out \in {"notClaimed", "untouched"} : Then(s, out, {})
  /\ UNCHANGED <<rsFile, rsNew, rsMoved, requestVars, outsideVars>>

Allows(mode, kind) == IF mode \in Foreign THEN kind = mode ELSE kind \in {"missing", "supported"}

\* The first look: the file must be the one the command is about, and of a kind
\* the command is for.
RsLook(s) ==
  /\ rsStep[s] = "look"
  /\ \/ Trouble /\ End(s, "untouched", {}, rsKnown[s])
     \/ Fine /\ rsFile # rsExpected[s] /\ End(s, "changed", {}, rsFile)
     \/ Fine /\ rsFile = rsExpected[s] /\ ~Allows(rsMode[s], rsFile.kind)
             /\ End(s, "untouched", {}, rsFile)
     \/ /\ Fine /\ rsFile = rsExpected[s] /\ Allows(rsMode[s], rsFile.kind)
        /\ IF rsFile = Missing /\ rsMode[s] = "reset"
           THEN End(s, "applied", {}, rsFile)
           ELSE /\ RsGoto(s, IF rsFile = Missing THEN "install" ELSE "claim")
                /\ UNCHANGED <<rsAside, endVars>>
  /\ UNCHANGED <<rsFile, rsNew, rsNamed, rsMoved, requestVars, outsideVars>>

\* The claim: whatever the path names now is moved to an unused name, if one is found.
RsClaim(s) ==
  /\ rsStep[s] = "claim"
  /\ \/ /\ Fine /\ rsFile # Missing
        /\ rsAside' = [rsAside EXCEPT ![s] = rsFile]
        /\ rsFile' = Missing
        /\ rsMoved' = [rsMoved EXCEPT ![s] = TRUE]
        /\ RsGoto(s, "check") /\ UNCHANGED <<rsNamed, endVars>>
     \/ /\ Trouble \/ (rsFile = Missing /\ Fine)
        /\ Then(s, "notClaimed", {}) /\ UNCHANGED <<rsFile, rsMoved>>
     \/ Trouble /\ End(s, "untouched", {}, rsExpected[s]) /\ UNCHANGED <<rsFile, rsMoved, rsNamed>>
  /\ UNCHANGED <<rsNew, requestVars, outsideVars>>

\* Mutant: what was claimed is taken for what was looked at.
RsCheckTrusting(s) ==
  /\ rsStep[s] = "check"
  /\ \/ Trouble /\ Then(s, "unknown", {})
     \/ /\ Fine /\ UNCHANGED <<rsAside, rsNamed, endVars>>
        /\ RsGoto(s, IF rsMode[s] = "replace" THEN "install" ELSE "resetLook")
  /\ UNCHANGED <<rsFile, rsNew, rsMoved, requestVars, outsideVars>>

\* What was claimed may not be what was looked at.
RsCheck(s) ==
  /\ rsStep[s] = "check"
  /\ \/ Trouble /\ Then(s, "unknown", {})
     \/ /\ Fine /\ UNCHANGED <<rsAside, rsNamed, endVars>>
        /\ RsGoto(s, IF rsAside[s] # rsExpected[s] THEN "restoreLook"
                     ELSE IF rsMode[s] = "replace" THEN "install" ELSE "resetLook")
  /\ UNCHANGED <<rsFile, rsNew, rsMoved, requestVars, outsideVars>>

\* restore_or_retain_changed_claim: the file claimed by mistake goes back,
\* unless the path names another by now.
RsRestoreLook(s) ==
  /\ rsStep[s] = "restoreLook"
  /\ \/ rsFile # Missing /\ Retain(s, rsFile)
     \/ rsFile = Missing /\ Fine /\ RsGoto(s, "restore") /\ UNCHANGED <<rsAside, rsNamed, endVars>>
     \/ Trouble /\ RsGoto(s, "retain") /\ UNCHANGED <<rsAside, rsNamed, endVars>>
  /\ UNCHANGED <<rsFile, rsNew, rsMoved, requestVars, outsideVars>>

\* The rename refuses to replace a file; the directory is synced after it.
RsRestore(s) ==
  /\ rsStep[s] = "restore"
  /\ \/ /\ rsFile = Missing /\ rsAside[s] # Missing
        /\ rsFile' = rsAside[s]
        /\ rsAside' = [rsAside EXCEPT ![s] = Missing]
        /\ \/ Fine /\ rsOut' = [rsOut EXCEPT ![s] = "restored"]
           \/ Trouble /\ rsOut' = [rsOut EXCEPT ![s] = "unknown"]
        /\ RsGoto(s, "report") /\ UNCHANGED <<rsNamed, rsResult, rsKept, rsKnown>>
     \/ /\ Trouble \/ ((rsFile # Missing \/ rsAside[s] = Missing) /\ Fine)
        /\ RsGoto(s, "retain") /\ UNCHANGED <<rsFile, rsAside, rsNamed, endVars>>
  /\ UNCHANGED <<rsNew, rsMoved, requestVars, outsideVars>>

\* retained_after_claim.
RsRetain(s) ==
  /\ rsStep[s] = "retain"
  /\ \/ Fine /\ Then(s, IF Found(s) = {} THEN "unknown" ELSE "retained", Found(s))
     \/ Trouble /\ \E named \in {{}, Found(s)} : Then(s, "unknown", named)
  /\ UNCHANGED <<rsFile, rsNew, rsMoved, requestVars, outsideVars>>

\* Mutant: a claimed file is forgotten when the path has filled up.
RsInstallLookForgetful(s) ==
  /\ rsStep[s] = "install"
  /\ \/ rsFile # Missing /\ Fine /\ End(s, "changed", {}, rsFile) /\ UNCHANGED rsNamed
     \/ rsFile = Missing /\ Fine /\ RsGoto(s, "put") /\ UNCHANGED <<rsAside, rsNamed, endVars>>
     \/ /\ Trouble
        /\ IF rsExpected[s] = Missing THEN End(s, "untouched", {}, rsKnown[s])
                                      ELSE RsGoto(s, "retain") /\ UNCHANGED <<rsAside, endVars>>
        /\ UNCHANGED rsNamed
  /\ UNCHANGED <<rsFile, rsNew, rsMoved, requestVars, outsideVars>>

\* install_at_missing and install_after_claim: the path must name nothing.
RsInstallLook(s) ==
  /\ rsStep[s] = "install"
  /\ \/ /\ rsFile # Missing
        /\ \/ rsExpected[s] # Missing /\ Retain(s, rsFile)
           \/ rsExpected[s] = Missing /\ Fine /\ End(s, "changed", {}, rsFile) /\ UNCHANGED rsNamed
     \/ rsFile = Missing /\ Fine /\ RsGoto(s, "put") /\ UNCHANGED <<rsAside, rsNamed, endVars>>
     \/ /\ Trouble
        /\ IF rsExpected[s] = Missing THEN End(s, "untouched", {}, rsKnown[s])
                                      ELSE RsGoto(s, "retain") /\ UNCHANGED <<rsAside, endVars>>
        /\ UNCHANGED rsNamed
  /\ UNCHANGED <<rsFile, rsNew, rsMoved, requestVars, outsideVars>>

\* The replacement is renamed to the path, which refuses to replace a file, and
\* the directory synced.
RsPut(s) ==
  /\ rsStep[s] = "put"
  /\ \/ /\ rsFile = Missing
        /\ rsFile' = [id |-> rsNewId, kind |-> "supported"]
        /\ rsNewId' = rsNewId + 1
        /\ rsLanded' = rsLanded \cup {rsNewId}
        /\ rsNew' = [rsNew EXCEPT ![s] = rsNewId]
        /\ rsMoved' = [rsMoved EXCEPT ![s] = TRUE]
        /\ \/ /\ Fine /\ RsGoto(s, IF rsExpected[s] = Missing THEN "final" ELSE "verify")
              /\ UNCHANGED <<rsAside, rsNamed, endVars>>
           \/ Trouble /\ \E named \in {{}, Found(s)} : Then(s, "unknown", named)
     \/ /\ Trouble \/ (rsFile # Missing /\ Fine)
        /\ IF rsExpected[s] = Missing
           THEN Then(s, "notInstalled", {})
           ELSE RsGoto(s, "retain") /\ UNCHANGED <<rsAside, rsNamed, endVars>>
        /\ UNCHANGED <<rsFile, rsNewId, rsLanded, rsNew, rsMoved>>
  /\ UNCHANGED <<requestVars, rsGone>>

\* The replacement is read back before what it replaces is removed.
RsVerify(s) ==
  /\ rsStep[s] = "verify"
  /\ \/ rsFile.id # rsNew[s] /\ Retain(s, rsFile)
     \/ rsFile.id = rsNew[s] /\ Fine /\ RsGoto(s, "drop") /\ UNCHANGED <<rsAside, rsNamed, endVars>>
     \/ /\ Trouble /\ UNCHANGED rsNamed
        /\ \E named \in {{}, Found(s)} : End(s, "unknown", named, rsKnown[s])
  /\ UNCHANGED <<rsFile, rsNew, rsMoved, requestVars, outsideVars>>

\* finish_reset_after_claim: the path must name nothing.
RsResetLook(s) ==
  /\ rsStep[s] = "resetLook"
  /\ \/ rsFile # Missing /\ Retain(s, rsFile)
     \/ /\ rsFile = Missing /\ Fine /\ RsGoto(s, IF rsMode[s] = "reset" THEN "drop" ELSE "final")
        /\ UNCHANGED <<rsAside, rsNamed, endVars>>
     \/ /\ Trouble /\ UNCHANGED rsNamed
        /\ \E named \in {{}, Found(s)} : End(s, "unknown", named, rsKnown[s])
  /\ UNCHANGED <<rsFile, rsNew, rsMoved, requestVars, outsideVars>>

\* What was claimed is removed; when it cannot be, the result will name it if it
\* can still be read.
RsDrop(s) ==
  /\ rsStep[s] = "drop"
  /\ \/ Fine /\ rsAside' = [rsAside EXCEPT ![s] = Missing] /\ UNCHANGED rsNamed
     \/ /\ Trouble /\ UNCHANGED rsAside
        /\ \E named \in {{}, Found(s)} : rsNamed' = [rsNamed EXCEPT ![s] = named]
  /\ RsGoto(s, "final")
  /\ UNCHANGED <<rsFile, rsNew, rsMoved, endVars, requestVars, outsideVars>>

\* The last look: the path names what the mutation was to leave there.
RsFinal(s) ==
  /\ rsStep[s] = "final"
  /\ LET done == rsFile.id = rsNew[s]
         preserving == rsMode[s] \in Foreign
     IN \/ Fine /\ done /\ ~preserving /\ End(s, "applied", rsNamed[s], rsFile)
        \/ Fine /\ done /\ preserving
                /\ End(s, IF Found(s) = {} THEN "unknown" ELSE "applied", Found(s), rsFile)
        \/ Fine /\ ~done /\ ~preserving /\ End(s, "unknown", rsNamed[s], rsFile)
        \/ ~done /\ preserving /\ Retain(s, rsFile)
        \/ /\ Trouble
           /\ \E named \in IF preserving THEN {{}, Found(s)} ELSE {rsNamed[s]} :
                End(s, "unknown", named, rsKnown[s])
  /\ UNCHANGED <<rsFile, rsNew, rsNamed, rsMoved, requestVars, outsideVars>>

\* What a last look at the path makes of a result; without one, nothing changes
\* for a mutation that left the path alone.
Reported(s, looked) ==
  CASE rsOut[s] = "notClaimed" -> IF looked /\ rsFile # rsExpected[s] THEN "changed" ELSE "untouched"
    [] rsOut[s] = "notInstalled" -> IF looked /\ rsFile # Missing THEN "changed" ELSE "untouched"
    [] rsOut[s] = "restored" -> IF looked THEN "restored" ELSE "unknown"
    [] rsOut[s] = "retained" -> IF looked THEN "retained" ELSE "failedRetained"
    [] rsOut[s] \in {"untouched", "unknown"} -> rsOut[s]

RsReport(s) ==
  /\ rsStep[s] = "report"
  /\ \/ Fine /\ End(s, Reported(s, TRUE), rsNamed[s], rsFile)
     \/ Trouble /\ End(s, Reported(s, FALSE), rsNamed[s], rsKnown[s])
  /\ UNCHANGED <<rsFile, rsNew, rsNamed, rsMoved, requestVars, outsideVars>>

-----------------------------------------------------------------------------
(* What happens around the writers. *)

\* Another program replaces, edits or creates the file.
RsOutsideWrite(kind) ==
  /\ Trouble
  /\ rsFile' = [id |-> rsNewId, kind |-> kind]
  /\ rsNewId' = rsNewId + 1
  /\ rsLanded' = rsLanded \cup {rsNewId}
  /\ rsGone' = rsGone \cup Ids(rsFile)
  /\ UNCHANGED <<rsAside, rsStep, rsNew, rsNamed, rsMoved, endVars, requestVars>>

\* Another program removes the file, or what a mutation has moved aside.
RsOutsideRemove ==
  /\ Trouble /\ rsFile # Missing
  /\ rsGone' = rsGone \cup Ids(rsFile)
  /\ rsFile' = Missing
  /\ UNCHANGED <<rsAside, rsStep, rsNew, rsNamed, rsMoved, rsNewId, rsLanded, endVars, requestVars>>

RsOutsideClean(s) ==
  /\ Trouble /\ rsAside[s] # Missing
  /\ rsGone' = rsGone \cup Ids(rsAside[s])
  /\ rsAside' = [rsAside EXCEPT ![s] = Missing]
  /\ UNCHANGED <<rsFile, rsStep, rsNew, rsNamed, rsMoved, rsNewId, rsLanded, endVars, requestVars>>

\* A process ends in the middle of a mutation; the next one looks at the file.
RsCrash(s) ==
  /\ Trouble /\ rsStep[s] # "idle"
  /\ rsKept' = rsKept \cup Ids(rsAside[s])
  /\ rsAside' = [rsAside EXCEPT ![s] = Missing]
  /\ rsResult' = [rsResult EXCEPT ![s] = NoResult]
  /\ rsKnown' = [rsKnown EXCEPT ![s] = rsFile]
  /\ rsOut' = [rsOut EXCEPT ![s] = "none"]
  /\ RsGoto(s, "idle")
  /\ UNCHANGED <<rsFile, rsNew, rsNamed, rsMoved, requestVars, outsideVars>>

StoreMutation(s) ==
  RsPrepare(s) \/ RsLook(s) \/ RsClaim(s) \/ RsCheck(s) \/ RsRestoreLook(s) \/ RsRestore(s)
  \/ RsRetain(s) \/ RsInstallLook(s) \/ RsPut(s) \/ RsVerify(s) \/ RsResetLook(s) \/ RsDrop(s)
  \/ RsFinal(s) \/ RsReport(s)

StoreNext ==
  \/ \E s \in Stores : RsInspect(s) \/ (\E mode \in Modes : RsRequest(s, mode))
                       \/ StoreMutation(s) \/ RsOutsideClean(s) \/ RsCrash(s)
  \/ \E kind \in {"supported"} \cup Foreign : RsOutsideWrite(kind)
  \/ RsOutsideRemove

StoreSpec == StoreInit /\ [][StoreNext]_rsVars

Kinds == {"missing", "supported"} \cup Foreign
File == [id : Nat, kind : Kinds]
Steps == {"idle", "prepare", "look", "claim", "check", "restoreLook", "restore", "retain", "install",
          "put", "verify", "resetLook", "drop", "final", "report"}

\* Types of the variables.
StoreTypeOK ==
  /\ rsFile \in File /\ rsKept \subseteq Nat
  /\ rsAside \in [Stores -> File] /\ rsExpected \in [Stores -> File]
  /\ rsKnown \in [Stores -> File] /\ rsMode \in [Stores -> Modes]
  /\ rsStep \in [Stores -> Steps]
  /\ rsNew \in [Stores -> Nat] /\ rsNamed \in [Stores -> SUBSET Nat]
  /\ rsMoved \in [Stores -> BOOLEAN] /\ rsCount \in [Stores -> Nat]
  /\ rsNewId \in Nat /\ rsTroubles \in Nat
  /\ rsLanded \subseteq Nat /\ rsGone \subseteq Nat /\ rsTold \subseteq Nat

\* No revision of the file is lost to the writers: what the path ever named is
\* still named by it, or lies beside it, unless another program removed or
\* replaced it, or it is a readable revision that a command to replace or reset
\* exactly this revision was about.  This holds at every step and after every
\* crash, whoever writes in between.  (The claim that is compared again, the
\* renames that refuse to replace, the removal after the read-back.)
StoreLosesNothing ==
  \A i \in rsLanded \ rsGone :
    i = rsFile.id \/ i \in rsKept \/ i \in rsTold \/ \E s \in Stores : i = rsAside[s].id

\* What a mutation reports is what it did.  A mutation that reports the file
\* changed before it, or that it failed without touching the path, has moved
\* nothing.  Unless it reports an unknown outcome, the result names what it leaves
\* beside the path; only a success may leave the revision it was about unnamed, when
\* that could be neither removed nor read.  When it reports success that revision is
\* no longer at the path, a preserving reset has named it, and no other writer was
\* told the same of the same revision.  (The results of execute_conditional,
\* on which the controller decides between retry, reconciliation and incident.)
StoreReportsTrue ==
  \A s \in Stores : LET r == rsResult[s] IN r # NoResult =>
    /\ r.kind \in {"changed", "untouched"} => ~r.moved
    /\ r.kind \notin {"unknown", "applied"} => r.left \subseteq r.named
    /\ r.kind = "applied" => r.left \subseteq r.named \cup {r.source}
    /\ r.kind \in {"retained", "failedRetained"} => r.named # {}
    /\ r.kind = "applied" /\ r.source # 0 =>
         /\ r.source # rsFile.id
         /\ r.mode \in Foreign => r.named = {r.source}
         /\ \A t \in Stores \ {s} :
              rsResult[t].kind = "applied" => rsResult[t].source # r.source
=============================================================================
