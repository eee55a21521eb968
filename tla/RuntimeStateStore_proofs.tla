---------------------- MODULE RuntimeStateStore_proofs ----------------------
(***************************************************************************)
(* Proof that the writers of the runtime UI state file lose no revision of *)
(* it, for any number of writers, mutations, failures and writes by other  *)
(* programs.  The argument: what a writer holds aside before it removes it *)
(* is the revision it was asked about, of a kind its mode is for           *)
(* (StageOK); every other step only moves a revision between the path, a   *)
(* claim and the files left beside the path (Moves).                       *)
(* And that their results are true: each step carries what its result will *)
(* need (ReportInv), and a revision that a writer has claimed and checked  *)
(* is nowhere else and never comes back (OwnInv).                          *)
(***************************************************************************)
EXTENDS RuntimeStateStore, TLAPS

\* A file of no kind is no file.
Proper == {f \in File : f.kind = "missing" => f = Missing}

ProperInv ==
  /\ rsFile \in Proper /\ rsNewId # 0 /\ 0 \notin rsLanded
  /\ rsAside \in [Stores -> Proper] /\ rsExpected \in [Stores -> Proper]
  /\ rsKnown \in [Stores -> Proper]

\* What holds of a writer at each of its steps: when it holds nothing aside, when it
\* holds what it was asked about, and what it may be asked to remove.
StageOK(step, mode, expected, aside, told) ==
  /\ step \in {"idle", "prepare", "look", "claim"} => aside = Missing
  /\ step \in {"install", "put", "verify", "resetLook", "drop", "final"} =>
       aside \in {Missing, expected}
  /\ step \in {"claim", "check", "install", "put", "verify", "resetLook", "drop"} =>
       Allows(mode, expected.kind)
  /\ step \in {"install", "put", "verify"} => mode = "replace"
  /\ step = "drop" => mode \in {"replace", "reset"}
  /\ step # "idle" /\ mode \notin Foreign /\ expected.kind = "supported" => expected.id \in told

StageInv == \A s \in Stores : StageOK(rsStep[s], rsMode[s], rsExpected[s], rsAside[s], rsTold)

StoreInv == StoreTypeOK /\ ProperInv /\ StageInv /\ StoreLosesNothing


\* Nothing is lost when every revision stays where it was, or passes from the path to
\* a claim, from a claim to the path or to the files left, or is one that may go.
LEMMA Moves ==
  ASSUME StoreInv,
         rsKept \subseteq rsKept', rsTold \subseteq rsTold',
         rsLanded' \ rsGone' \subseteq (rsLanded \ rsGone) \cup Ids(rsFile'),
         Ids(rsFile) \subseteq Ids(rsFile') \cup rsGone' \cup UNION {Ids(rsAside'[s]) : s \in Stores},
         \A s \in Stores : Ids(rsAside[s]) \subseteq Ids(rsAside'[s]) \cup Ids(rsFile') \cup rsKept' \cup rsGone' \cup rsTold'
  PROVE  StoreLosesNothing'
<1> SUFFICES ASSUME NEW i \in rsLanded' \ rsGone'
             PROVE  i = rsFile'.id \/ i \in rsKept' \/ i \in rsTold' \/ \E s \in Stores : i = rsAside'[s].id
  BY DEF StoreLosesNothing
<1>1. CASE i \in Ids(rsFile')
  BY <1>1 DEF Ids
<1>2. CASE i \in rsLanded \ rsGone
  <2>1. i # 0
    BY <1>2 DEF StoreInv, ProperInv
  <2>2. CASE i = rsFile.id
    BY <2>1, <2>2 DEF Ids
  <2>3. CASE i \in rsKept \/ i \in rsTold
    BY <2>3
  <2>4. CASE \E s \in Stores : i = rsAside[s].id
    BY <2>1, <2>4 DEF Ids
  <2> QED BY <1>2, <2>2, <2>3, <2>4 DEF StoreInv, StoreLosesNothing
<1> QED BY <1>1, <1>2

\* The revision numbers of a file, and a file of no kind, by their types.
LEMMA IdsAre == \A f \in File : Ids(f) \subseteq Nat
BY DEF Ids, File

LEMMA ProperFile == Proper \subseteq File /\ Missing \in Proper
BY DEF Proper, File, Missing, Kinds

-----------------------------------------------------------------------------
(* Every step of a writer keeps the inductive invariant.                   *)

LEMMA Preparing ==
  ASSUME StoreInv, NEW s \in Stores, RsPrepare(s)
  PROVE  StoreInv'
<1>1. rsStep' \in [Stores -> Steps] /\ rsMoved' \in [Stores -> BOOLEAN]
  BY DEF StoreInv, StoreTypeOK, Steps, RsPrepare, Then, RsGoto, endVars
<1>2. rsFile' \in Proper
  BY DEF StoreInv, ProperInv, RsPrepare
<1>3. rsAside' \in [Stores -> Proper]
  BY ProperFile DEF StoreInv, ProperInv, RsPrepare, Then, endVars
<1>4. rsKnown' \in [Stores -> Proper]
  BY ProperFile DEF StoreInv, ProperInv, RsPrepare, Then, endVars
<1>5. rsNewId' \in Nat \ {0} /\ 0 \notin rsLanded' /\ rsLanded' \subseteq Nat
  BY DEF StoreInv, StoreTypeOK, ProperInv, RsPrepare, outsideVars
<1>6. rsKept' \subseteq Nat /\ rsGone' \subseteq Nat
  BY IdsAre DEF StoreInv, StoreTypeOK, RsPrepare, Then, endVars, outsideVars
<1>7. rsTroubles' \in Nat /\ rsNew' \in [Stores -> Nat]
  BY DEF StoreInv, StoreTypeOK, RsPrepare, Fine, Trouble
<1>8. rsNamed' \in [Stores -> SUBSET Nat]
  BY IdsAre DEF StoreInv, StoreTypeOK, RsPrepare, Then
<1>9. UNCHANGED requestVars
  BY DEF RsPrepare
<1>10. StageInv'
  BY DEF StoreInv, StoreTypeOK, StageInv, StageOK, Allows, Missing, Modes, RsPrepare, Then,
       RsGoto, endVars, requestVars
<1>11. StoreLosesNothing'
  BY Moves DEF Ids, StoreInv, StoreTypeOK, ProperInv, StageInv, StageOK, Allows, Missing,
       RsPrepare, Then, RsGoto, endVars, requestVars, outsideVars, Fine, Trouble
<1> QED BY <1>1, <1>2, <1>3, <1>4, <1>5, <1>6, <1>7, <1>8, <1>9, <1>10, <1>11, ProperFile
        DEF StoreInv, StoreTypeOK, ProperInv, requestVars

LEMMA Looking ==
  ASSUME StoreInv, NEW s \in Stores, RsLook(s)
  PROVE  StoreInv'
<1>1. rsStep' \in [Stores -> Steps] /\ rsMoved' \in [Stores -> BOOLEAN]
  BY DEF StoreInv, StoreTypeOK, Steps, RsLook, End, RsGoto, endVars
<1>2. rsFile' \in Proper
  BY DEF StoreInv, ProperInv, RsLook
<1>3. rsAside' \in [Stores -> Proper]
  BY ProperFile DEF StoreInv, ProperInv, RsLook, End, endVars
<1>4. rsKnown' \in [Stores -> Proper]
  BY ProperFile DEF StoreInv, ProperInv, RsLook, End, endVars
<1>5. rsNewId' \in Nat \ {0} /\ 0 \notin rsLanded' /\ rsLanded' \subseteq Nat
  BY DEF StoreInv, StoreTypeOK, ProperInv, RsLook, outsideVars
<1>6. rsKept' \subseteq Nat /\ rsGone' \subseteq Nat
  BY IdsAre DEF StoreInv, StoreTypeOK, RsLook, End, endVars, outsideVars
<1>7. rsTroubles' \in Nat /\ rsNew' \in [Stores -> Nat]
  BY DEF StoreInv, StoreTypeOK, RsLook, Fine, Trouble
<1>8. rsNamed' \in [Stores -> SUBSET Nat]
  BY IdsAre DEF StoreInv, StoreTypeOK, RsLook, End
<1>9. UNCHANGED requestVars
  BY DEF RsLook
<1>10. StageInv'
  <2>1. /\ rsStep[s] = "look" /\ rsAside[s] = Missing /\ rsAside' = rsAside
        /\ \E step \in {"idle", "install", "claim"} : rsStep' = [rsStep EXCEPT ![s] = step]
        /\ rsStep'[s] \in {"install", "claim"} =>
             Allows(rsMode[s], rsExpected[s].kind) /\ (rsStep'[s] = "install" => rsMode[s] = "replace")
    BY StoreAssumption
       DEF StoreInv, StoreTypeOK, StageInv, StageOK, Allows, Missing, Modes, RsLook, End, RsGoto,
       endVars
  <2> QED BY <1>9, <2>1 DEF StoreInv, StoreTypeOK, StageInv, StageOK, requestVars
<1>11. StoreLosesNothing'
  BY Moves DEF Ids, StoreInv, StoreTypeOK, ProperInv, StageInv, StageOK, Allows, Missing, RsLook,
       End, RsGoto, endVars, requestVars, outsideVars, Fine, Trouble
<1> QED BY <1>1, <1>2, <1>3, <1>4, <1>5, <1>6, <1>7, <1>8, <1>9, <1>10, <1>11, ProperFile
        DEF StoreInv, StoreTypeOK, ProperInv, requestVars

LEMMA Claiming ==
  ASSUME StoreInv, NEW s \in Stores, RsClaim(s)
  PROVE  StoreInv'
<1>1. rsStep' \in [Stores -> Steps] /\ rsMoved' \in [Stores -> BOOLEAN]
  BY DEF StoreInv, StoreTypeOK, Steps, RsClaim, Then, End, RsGoto, endVars
<1>2. rsFile' \in Proper
  BY ProperFile DEF StoreInv, ProperInv, RsClaim
<1>3. rsAside' \in [Stores -> Proper]
  BY ProperFile DEF StoreInv, ProperInv, RsClaim, Then, End, endVars
<1>4. rsKnown' \in [Stores -> Proper]
  BY ProperFile DEF StoreInv, ProperInv, RsClaim, Then, End, endVars
<1>5. rsNewId' \in Nat \ {0} /\ 0 \notin rsLanded' /\ rsLanded' \subseteq Nat
  BY DEF StoreInv, StoreTypeOK, ProperInv, RsClaim, outsideVars
<1>6. rsKept' \subseteq Nat /\ rsGone' \subseteq Nat
  BY IdsAre DEF StoreInv, StoreTypeOK, RsClaim, Then, End, endVars, outsideVars
<1>7. rsTroubles' \in Nat /\ rsNew' \in [Stores -> Nat]
  BY DEF StoreInv, StoreTypeOK, RsClaim, Fine, Trouble
<1>8. rsNamed' \in [Stores -> SUBSET Nat]
  BY IdsAre DEF StoreInv, StoreTypeOK, RsClaim, Then, End
<1>9. UNCHANGED requestVars
  BY DEF RsClaim
<1>10. StageInv'
  BY DEF StoreInv, StoreTypeOK, StageInv, StageOK, Allows, Missing, Modes, RsClaim, Then, End, RsGoto,
       endVars, requestVars
<1>11. StoreLosesNothing'
  BY Moves DEF Ids, StoreInv, StoreTypeOK, ProperInv, StageInv, StageOK, Allows, Missing,
       RsClaim, Then, End, RsGoto, endVars, requestVars, outsideVars, Fine, Trouble
<1> QED BY <1>1, <1>2, <1>3, <1>4, <1>5, <1>6, <1>7, <1>8, <1>9, <1>10, <1>11, ProperFile
        DEF StoreInv, StoreTypeOK, ProperInv, requestVars

LEMMA Checking ==
  ASSUME StoreInv, NEW s \in Stores, RsCheck(s)
  PROVE  StoreInv'
<1>1. rsStep' \in [Stores -> Steps] /\ rsMoved' \in [Stores -> BOOLEAN]
  BY DEF StoreInv, StoreTypeOK, Steps, RsCheck, Then, RsGoto, endVars
<1>2. rsFile' \in Proper
  BY DEF StoreInv, ProperInv, RsCheck
<1>3. rsAside' \in [Stores -> Proper]
  BY ProperFile DEF StoreInv, ProperInv, RsCheck, Then, endVars
<1>4. rsKnown' \in [Stores -> Proper]
  BY ProperFile DEF StoreInv, ProperInv, RsCheck, Then, endVars
<1>5. rsNewId' \in Nat \ {0} /\ 0 \notin rsLanded' /\ rsLanded' \subseteq Nat
  BY DEF StoreInv, StoreTypeOK, ProperInv, RsCheck, outsideVars
<1>6. rsKept' \subseteq Nat /\ rsGone' \subseteq Nat
  BY IdsAre DEF StoreInv, StoreTypeOK, RsCheck, Then, endVars, outsideVars
<1>7. rsTroubles' \in Nat /\ rsNew' \in [Stores -> Nat]
  BY DEF StoreInv, StoreTypeOK, RsCheck, Fine, Trouble
<1>8. rsNamed' \in [Stores -> SUBSET Nat]
  BY IdsAre DEF StoreInv, StoreTypeOK, RsCheck, Then
<1>9. UNCHANGED requestVars
  BY DEF RsCheck
<1>10. StageInv'
  BY DEF StoreInv, StoreTypeOK, StageInv, StageOK, Allows, Missing, Modes, RsCheck, Then, RsGoto,
       endVars, requestVars
<1>11. StoreLosesNothing'
  BY Moves DEF Ids, StoreInv, StoreTypeOK, ProperInv, StageInv, StageOK, Allows, Missing,
       RsCheck, Then, RsGoto, endVars, requestVars, outsideVars, Fine, Trouble
<1> QED BY <1>1, <1>2, <1>3, <1>4, <1>5, <1>6, <1>7, <1>8, <1>9, <1>10, <1>11, ProperFile
        DEF StoreInv, StoreTypeOK, ProperInv, requestVars

LEMMA RestoreLooking ==
  ASSUME StoreInv, NEW s \in Stores, RsRestoreLook(s)
  PROVE  StoreInv'
<1>1. rsStep' \in [Stores -> Steps] /\ rsMoved' \in [Stores -> BOOLEAN]
  BY DEF StoreInv, StoreTypeOK, Steps, RsRestoreLook, Retain, End, RsGoto, endVars
<1>2. rsFile' \in Proper
  BY DEF StoreInv, ProperInv, RsRestoreLook
<1>3. rsAside' \in [Stores -> Proper]
  BY ProperFile DEF StoreInv, ProperInv, RsRestoreLook, Retain, End, endVars
<1>4. rsKnown' \in [Stores -> Proper]
  BY ProperFile DEF StoreInv, ProperInv, RsRestoreLook, Retain, End, endVars
<1>5. rsNewId' \in Nat \ {0} /\ 0 \notin rsLanded' /\ rsLanded' \subseteq Nat
  BY DEF StoreInv, StoreTypeOK, ProperInv, RsRestoreLook, outsideVars
<1>6. rsKept' \subseteq Nat /\ rsGone' \subseteq Nat
  BY IdsAre DEF StoreInv, StoreTypeOK, RsRestoreLook, Retain, End, endVars, outsideVars
<1>7. rsTroubles' \in Nat /\ rsNew' \in [Stores -> Nat]
  BY DEF StoreInv, StoreTypeOK, RsRestoreLook, Retain, Fine, Trouble
<1>8. rsNamed' \in [Stores -> SUBSET Nat]
  BY IdsAre DEF StoreInv, StoreTypeOK, RsRestoreLook, Retain, End, Found
<1>9. UNCHANGED requestVars
  BY DEF RsRestoreLook
<1>10. StageInv'
  BY DEF StoreInv, StoreTypeOK, StageInv, StageOK, Allows, Missing, Modes, RsRestoreLook, Retain,
       End, RsGoto, endVars, requestVars
<1>11. StoreLosesNothing'
  BY Moves DEF Ids, StoreInv, StoreTypeOK, ProperInv, StageInv, StageOK, Allows, Missing,
       RsRestoreLook, Retain, End, RsGoto, Found, endVars, requestVars, outsideVars, Fine, Trouble
<1> QED BY <1>1, <1>2, <1>3, <1>4, <1>5, <1>6, <1>7, <1>8, <1>9, <1>10, <1>11, ProperFile
        DEF StoreInv, StoreTypeOK, ProperInv, requestVars

LEMMA Restoring ==
  ASSUME StoreInv, NEW s \in Stores, RsRestore(s)
  PROVE  StoreInv'
<1>1. rsStep' \in [Stores -> Steps] /\ rsMoved' \in [Stores -> BOOLEAN]
  BY DEF StoreInv, StoreTypeOK, Steps, RsRestore, RsGoto, endVars
<1>2. rsFile' \in Proper
  BY DEF StoreInv, ProperInv, RsRestore
<1>3. rsAside' \in [Stores -> Proper]
  BY ProperFile DEF StoreInv, ProperInv, RsRestore, endVars
<1>4. rsKnown' \in [Stores -> Proper]
  BY ProperFile DEF StoreInv, ProperInv, RsRestore, endVars
<1>5. rsNewId' \in Nat \ {0} /\ 0 \notin rsLanded' /\ rsLanded' \subseteq Nat
  BY DEF StoreInv, StoreTypeOK, ProperInv, RsRestore, outsideVars
<1>6. rsKept' \subseteq Nat /\ rsGone' \subseteq Nat
  BY IdsAre DEF StoreInv, StoreTypeOK, RsRestore, endVars, outsideVars
<1>7. rsTroubles' \in Nat /\ rsNew' \in [Stores -> Nat]
  BY DEF StoreInv, StoreTypeOK, RsRestore, Fine, Trouble
<1>8. rsNamed' \in [Stores -> SUBSET Nat]
  BY IdsAre DEF StoreInv, StoreTypeOK, RsRestore
<1>9. UNCHANGED requestVars
  BY DEF RsRestore
<1>10. StageInv'
  BY DEF StoreInv, StoreTypeOK, StageInv, StageOK, Allows, Missing, Modes, RsRestore, RsGoto,
       endVars, requestVars
<1>11. StoreLosesNothing'
  BY Moves DEF Ids, StoreInv, StoreTypeOK, ProperInv, StageInv, StageOK, Allows, Missing,
       RsRestore, RsGoto, endVars, requestVars, outsideVars, Fine, Trouble
<1> QED BY <1>1, <1>2, <1>3, <1>4, <1>5, <1>6, <1>7, <1>8, <1>9, <1>10, <1>11, ProperFile
        DEF StoreInv, StoreTypeOK, ProperInv, requestVars

LEMMA Retaining ==
  ASSUME StoreInv, NEW s \in Stores, RsRetain(s)
  PROVE  StoreInv'
<1>1. rsStep' \in [Stores -> Steps] /\ rsMoved' \in [Stores -> BOOLEAN]
  BY DEF StoreInv, StoreTypeOK, Steps, RsRetain, Then, RsGoto, endVars
<1>2. rsFile' \in Proper
  BY DEF StoreInv, ProperInv, RsRetain
<1>3. rsAside' \in [Stores -> Proper]
  BY ProperFile DEF StoreInv, ProperInv, RsRetain, Then, endVars
<1>4. rsKnown' \in [Stores -> Proper]
  BY ProperFile DEF StoreInv, ProperInv, RsRetain, Then, endVars
<1>5. rsNewId' \in Nat \ {0} /\ 0 \notin rsLanded' /\ rsLanded' \subseteq Nat
  BY DEF StoreInv, StoreTypeOK, ProperInv, RsRetain, outsideVars
<1>6. rsKept' \subseteq Nat /\ rsGone' \subseteq Nat
  BY IdsAre DEF StoreInv, StoreTypeOK, RsRetain, Then, endVars, outsideVars
<1>7. rsTroubles' \in Nat /\ rsNew' \in [Stores -> Nat]
  BY DEF StoreInv, StoreTypeOK, RsRetain, Fine, Trouble
<1>8. rsNamed' \in [Stores -> SUBSET Nat]
  BY IdsAre DEF StoreInv, StoreTypeOK, RsRetain, Then, Found
<1>9. UNCHANGED requestVars
  BY DEF RsRetain
<1>10. StageInv'
  BY DEF StoreInv, StoreTypeOK, StageInv, StageOK, Allows, Missing, Modes, RsRetain, Then,
       RsGoto, endVars, requestVars
<1>11. StoreLosesNothing'
  BY Moves DEF Ids, StoreInv, StoreTypeOK, ProperInv, StageInv, StageOK, Allows, Missing,
       RsRetain, Then, RsGoto, Found, endVars, requestVars, outsideVars, Fine, Trouble
<1> QED BY <1>1, <1>2, <1>3, <1>4, <1>5, <1>6, <1>7, <1>8, <1>9, <1>10, <1>11, ProperFile
        DEF StoreInv, StoreTypeOK, ProperInv, requestVars

LEMMA InstallLooking ==
  ASSUME StoreInv, NEW s \in Stores, RsInstallLook(s)
  PROVE  StoreInv'
<1>1. rsStep' \in [Stores -> Steps] /\ rsMoved' \in [Stores -> BOOLEAN]
  BY DEF StoreInv, StoreTypeOK, Steps, RsInstallLook, Retain, End, RsGoto, endVars
<1>2. rsFile' \in Proper
  BY DEF StoreInv, ProperInv, RsInstallLook
<1>3. rsAside' \in [Stores -> Proper]
  BY ProperFile DEF StoreInv, ProperInv, RsInstallLook, Retain, End, endVars
<1>4. rsKnown' \in [Stores -> Proper]
  BY ProperFile DEF StoreInv, ProperInv, RsInstallLook, Retain, End, endVars
<1>5. rsNewId' \in Nat \ {0} /\ 0 \notin rsLanded' /\ rsLanded' \subseteq Nat
  BY DEF StoreInv, StoreTypeOK, ProperInv, RsInstallLook, outsideVars
<1>6. rsKept' \subseteq Nat /\ rsGone' \subseteq Nat
  BY IdsAre DEF StoreInv, StoreTypeOK, RsInstallLook, Retain, End, endVars, outsideVars
<1>7. rsTroubles' \in Nat /\ rsNew' \in [Stores -> Nat]
  BY DEF StoreInv, StoreTypeOK, RsInstallLook, Retain, Fine, Trouble
<1>8. rsNamed' \in [Stores -> SUBSET Nat]
  BY IdsAre DEF StoreInv, StoreTypeOK, RsInstallLook, Retain, End, Found
<1>9. UNCHANGED requestVars
  BY DEF RsInstallLook
<1>10. StageInv'
  BY DEF StoreInv, StoreTypeOK, StageInv, StageOK, Allows, Missing, Modes, RsInstallLook, Retain,
       End, RsGoto, endVars, requestVars
<1>11. StoreLosesNothing'
  BY Moves DEF Ids, StoreInv, StoreTypeOK, ProperInv, StageInv, StageOK, Allows, Missing,
       RsInstallLook, Retain, End, RsGoto, Found, endVars, requestVars, outsideVars, Fine, Trouble
<1> QED BY <1>1, <1>2, <1>3, <1>4, <1>5, <1>6, <1>7, <1>8, <1>9, <1>10, <1>11, ProperFile
        DEF StoreInv, StoreTypeOK, ProperInv, requestVars

LEMMA Putting ==
  ASSUME StoreInv, NEW s \in Stores, RsPut(s)
  PROVE  StoreInv'
<1>1. rsStep' \in [Stores -> Steps] /\ rsMoved' \in [Stores -> BOOLEAN]
  BY DEF StoreInv, StoreTypeOK, Steps, RsPut, Then, RsGoto, endVars
<1>2. rsFile' \in Proper
  BY DEF StoreInv, StoreTypeOK, ProperInv, Proper, File, Kinds, Missing, RsPut
<1>3. rsAside' \in [Stores -> Proper]
  BY ProperFile DEF StoreInv, ProperInv, RsPut, Then, endVars
<1>4. rsKnown' \in [Stores -> Proper]
  BY ProperFile DEF StoreInv, ProperInv, RsPut, Then, endVars
<1>5. rsNewId' \in Nat \ {0} /\ 0 \notin rsLanded' /\ rsLanded' \subseteq Nat
  <2>1. rsNewId \in Nat \ {0} /\ 0 \notin rsLanded /\ rsLanded \subseteq Nat
    BY DEF StoreInv, StoreTypeOK, ProperInv
  <2>2. \/ rsNewId' = rsNewId + 1 /\ rsLanded' = rsLanded \cup {rsNewId}
        \/ rsNewId' = rsNewId /\ rsLanded' = rsLanded
    BY Zenon DEF RsPut
  <2>3. rsNewId' \in Nat \ {0}
    BY <2>1, <2>2
  <2>4. 0 \notin rsLanded' /\ rsLanded' \subseteq Nat
    BY <2>1, <2>2
  <2> QED BY <2>3, <2>4
<1>6. rsKept' \subseteq Nat /\ rsGone' \subseteq Nat
  BY IdsAre DEF StoreInv, StoreTypeOK, RsPut, Then, endVars, outsideVars
<1>7. rsTroubles' \in Nat /\ rsNew' \in [Stores -> Nat]
  BY DEF StoreInv, StoreTypeOK, RsPut, Fine, Trouble
<1>8. rsNamed' \in [Stores -> SUBSET Nat]
  BY IdsAre DEF StoreInv, StoreTypeOK, RsPut, Then, Found
<1>9. UNCHANGED requestVars
  BY DEF RsPut
<1>10. StageInv'
  BY DEF StoreInv, StoreTypeOK, StageInv, StageOK, Allows, Missing, Modes, RsPut, Then, RsGoto,
       endVars, requestVars
<1>11. StoreLosesNothing'
  BY Moves DEF Ids, StoreInv, StoreTypeOK, ProperInv, StageInv, StageOK, Allows, Missing, RsPut,
       Then, RsGoto, Found, endVars, requestVars, outsideVars, Fine, Trouble
<1> QED BY <1>1, <1>2, <1>3, <1>4, <1>5, <1>6, <1>7, <1>8, <1>9, <1>10, <1>11, ProperFile
        DEF StoreInv, StoreTypeOK, ProperInv, requestVars

LEMMA Verifying ==
  ASSUME StoreInv, NEW s \in Stores, RsVerify(s)
  PROVE  StoreInv'
<1>1. rsStep' \in [Stores -> Steps] /\ rsMoved' \in [Stores -> BOOLEAN]
  BY DEF StoreInv, StoreTypeOK, Steps, RsVerify, Retain, End, RsGoto, endVars
<1>2. rsFile' \in Proper
  BY DEF StoreInv, ProperInv, RsVerify
<1>3. rsAside' \in [Stores -> Proper]
  BY ProperFile DEF StoreInv, ProperInv, RsVerify, Retain, End, endVars
<1>4. rsKnown' \in [Stores -> Proper]
  BY ProperFile DEF StoreInv, ProperInv, RsVerify, Retain, End, endVars
<1>5. rsNewId' \in Nat \ {0} /\ 0 \notin rsLanded' /\ rsLanded' \subseteq Nat
  BY DEF StoreInv, StoreTypeOK, ProperInv, RsVerify, outsideVars
<1>6. rsKept' \subseteq Nat /\ rsGone' \subseteq Nat
  BY IdsAre DEF StoreInv, StoreTypeOK, RsVerify, Retain, End, endVars, outsideVars
<1>7. rsTroubles' \in Nat /\ rsNew' \in [Stores -> Nat]
  BY DEF StoreInv, StoreTypeOK, RsVerify, Retain, Fine, Trouble
<1>8. rsNamed' \in [Stores -> SUBSET Nat]
  BY IdsAre DEF StoreInv, StoreTypeOK, RsVerify, Retain, End, Found
<1>9. UNCHANGED requestVars
  BY DEF RsVerify
<1>10. StageInv'
  BY DEF StoreInv, StoreTypeOK, StageInv, StageOK, Allows, Missing, Modes, RsVerify, Retain, End,
       RsGoto, endVars, requestVars
<1>11. StoreLosesNothing'
  BY Moves DEF Ids, StoreInv, StoreTypeOK, ProperInv, StageInv, StageOK, Allows, Missing,
       RsVerify, Retain, End, RsGoto, Found, endVars, requestVars, outsideVars, Fine, Trouble
<1> QED BY <1>1, <1>2, <1>3, <1>4, <1>5, <1>6, <1>7, <1>8, <1>9, <1>10, <1>11, ProperFile
        DEF StoreInv, StoreTypeOK, ProperInv, requestVars

LEMMA ResetLooking ==
  ASSUME StoreInv, NEW s \in Stores, RsResetLook(s)
  PROVE  StoreInv'
<1>1. rsStep' \in [Stores -> Steps] /\ rsMoved' \in [Stores -> BOOLEAN]
  BY DEF StoreInv, StoreTypeOK, Steps, RsResetLook, Retain, End, RsGoto, endVars
<1>2. rsFile' \in Proper
  BY DEF StoreInv, ProperInv, RsResetLook
<1>3. rsAside' \in [Stores -> Proper]
  BY ProperFile DEF StoreInv, ProperInv, RsResetLook, Retain, End, endVars
<1>4. rsKnown' \in [Stores -> Proper]
  BY ProperFile DEF StoreInv, ProperInv, RsResetLook, Retain, End, endVars
<1>5. rsNewId' \in Nat \ {0} /\ 0 \notin rsLanded' /\ rsLanded' \subseteq Nat
  BY DEF StoreInv, StoreTypeOK, ProperInv, RsResetLook, outsideVars
<1>6. rsKept' \subseteq Nat /\ rsGone' \subseteq Nat
  BY IdsAre DEF StoreInv, StoreTypeOK, RsResetLook, Retain, End, endVars, outsideVars
<1>7. rsTroubles' \in Nat /\ rsNew' \in [Stores -> Nat]
  BY DEF StoreInv, StoreTypeOK, RsResetLook, Retain, Fine, Trouble
<1>8. rsNamed' \in [Stores -> SUBSET Nat]
  BY IdsAre DEF StoreInv, StoreTypeOK, RsResetLook, Retain, End, Found
<1>9. UNCHANGED requestVars
  BY DEF RsResetLook
<1>10. StageInv'
  BY DEF StoreInv, StoreTypeOK, StageInv, StageOK, Allows, Missing, Modes, RsResetLook, Retain,
       End, RsGoto, endVars, requestVars
<1>11. StoreLosesNothing'
  BY Moves DEF Ids, StoreInv, StoreTypeOK, ProperInv, StageInv, StageOK, Allows, Missing,
       RsResetLook, Retain, End, RsGoto, Found, endVars, requestVars, outsideVars, Fine, Trouble
<1> QED BY <1>1, <1>2, <1>3, <1>4, <1>5, <1>6, <1>7, <1>8, <1>9, <1>10, <1>11, ProperFile
        DEF StoreInv, StoreTypeOK, ProperInv, requestVars

LEMMA Dropping ==
  ASSUME StoreInv, NEW s \in Stores, RsDrop(s)
  PROVE  StoreInv'
<1>1. rsStep' \in [Stores -> Steps] /\ rsMoved' \in [Stores -> BOOLEAN]
  BY DEF StoreInv, StoreTypeOK, Steps, RsDrop, RsGoto, endVars
<1>2. rsFile' \in Proper
  BY DEF StoreInv, ProperInv, RsDrop
<1>3. rsAside' \in [Stores -> Proper]
  BY ProperFile DEF StoreInv, ProperInv, RsDrop, endVars
<1>4. rsKnown' \in [Stores -> Proper]
  BY ProperFile DEF StoreInv, ProperInv, RsDrop, endVars
<1>5. rsNewId' \in Nat \ {0} /\ 0 \notin rsLanded' /\ rsLanded' \subseteq Nat
  BY DEF StoreInv, StoreTypeOK, ProperInv, RsDrop, outsideVars
<1>6. rsKept' \subseteq Nat /\ rsGone' \subseteq Nat
  BY IdsAre DEF StoreInv, StoreTypeOK, RsDrop, endVars, outsideVars
<1>7. rsTroubles' \in Nat /\ rsNew' \in [Stores -> Nat]
  BY DEF StoreInv, StoreTypeOK, RsDrop, Fine, Trouble
<1>8. rsNamed' \in [Stores -> SUBSET Nat]
  BY IdsAre DEF StoreInv, StoreTypeOK, RsDrop, Found
<1>9. UNCHANGED requestVars
  BY DEF RsDrop
<1>10. StageInv'
  BY DEF StoreInv, StoreTypeOK, StageInv, StageOK, Allows, Missing, Modes, RsDrop, RsGoto,
       endVars, requestVars
<1>11. StoreLosesNothing'
  <2>1. rsAside[s] = Missing \/ rsAside[s].id \in rsTold
    <3>1. rsAside[s] \in {Missing, rsExpected[s]} /\ rsMode[s] \notin Foreign
          /\ Allows(rsMode[s], rsExpected[s].kind) /\ rsExpected[s] \in Proper
          /\ (rsExpected[s].kind = "supported" => rsExpected[s].id \in rsTold)
      BY StoreAssumption DEF StoreInv, StageInv, StageOK, ProperInv, RsDrop
    <3> QED BY <3>1 DEF Allows, Proper
  <2>2. \A t \in Stores : rsAside'[t] = rsAside[t] \/ (t = s /\ rsAside'[t] = Missing)
    BY DEF StoreInv, StoreTypeOK, RsDrop
  <2>3. \A t \in Stores : Ids(rsAside[t]) \subseteq Ids(rsAside'[t]) \cup rsTold
    BY <2>1, <2>2 DEF Ids, Missing
  <2>4. UNCHANGED <<rsFile, rsKept, rsLanded, rsGone, rsTold>>
    BY DEF RsDrop, endVars, requestVars, outsideVars
  <2> QED BY <2>3, <2>4, Moves
<1> QED BY <1>1, <1>2, <1>3, <1>4, <1>5, <1>6, <1>7, <1>8, <1>9, <1>10, <1>11, ProperFile
        DEF StoreInv, StoreTypeOK, ProperInv, requestVars

LEMMA Finishing ==
  ASSUME StoreInv, NEW s \in Stores, RsFinal(s)
  PROVE  StoreInv'
<1>1. rsStep' \in [Stores -> Steps] /\ rsMoved' \in [Stores -> BOOLEAN]
  BY DEF StoreInv, StoreTypeOK, Steps, RsFinal, Retain, End, RsGoto, endVars
<1>2. rsFile' \in Proper
  BY DEF StoreInv, ProperInv, RsFinal
<1>3. rsAside' \in [Stores -> Proper]
  BY ProperFile DEF StoreInv, ProperInv, RsFinal, Retain, End, endVars
<1>4. rsKnown' \in [Stores -> Proper]
  BY ProperFile DEF StoreInv, ProperInv, RsFinal, Retain, End, endVars
<1>5. rsNewId' \in Nat \ {0} /\ 0 \notin rsLanded' /\ rsLanded' \subseteq Nat
  BY DEF StoreInv, StoreTypeOK, ProperInv, RsFinal, outsideVars
<1>6. rsKept' \subseteq Nat /\ rsGone' \subseteq Nat
  BY IdsAre DEF StoreInv, StoreTypeOK, RsFinal, Retain, End, endVars, outsideVars
<1>7. rsTroubles' \in Nat /\ rsNew' \in [Stores -> Nat]
  BY DEF StoreInv, StoreTypeOK, RsFinal, Retain, Fine, Trouble
<1>8. rsNamed' \in [Stores -> SUBSET Nat]
  BY IdsAre DEF StoreInv, StoreTypeOK, RsFinal, Retain, End, Found
<1>9. UNCHANGED requestVars
  BY DEF RsFinal
<1>10. StageInv'
  BY DEF StoreInv, StoreTypeOK, StageInv, StageOK, Allows, Missing, Modes, RsFinal, Retain, End,
       RsGoto, endVars, requestVars
<1>11. StoreLosesNothing'
  BY Moves DEF Ids, StoreInv, StoreTypeOK, ProperInv, StageInv, StageOK, Allows, Missing,
       RsFinal, Retain, End, RsGoto, Found, endVars, requestVars, outsideVars, Fine, Trouble
<1> QED BY <1>1, <1>2, <1>3, <1>4, <1>5, <1>6, <1>7, <1>8, <1>9, <1>10, <1>11, ProperFile
        DEF StoreInv, StoreTypeOK, ProperInv, requestVars

LEMMA Reporting ==
  ASSUME StoreInv, NEW s \in Stores, RsReport(s)
  PROVE  StoreInv'
<1>1. rsStep' \in [Stores -> Steps] /\ rsMoved' \in [Stores -> BOOLEAN]
  BY DEF StoreInv, StoreTypeOK, Steps, RsReport, End, RsGoto, endVars
<1>2. rsFile' \in Proper
  BY DEF StoreInv, ProperInv, RsReport
<1>3. rsAside' \in [Stores -> Proper]
  BY ProperFile DEF StoreInv, ProperInv, RsReport, End, endVars
<1>4. rsKnown' \in [Stores -> Proper]
  BY ProperFile DEF StoreInv, ProperInv, RsReport, End, endVars
<1>5. rsNewId' \in Nat \ {0} /\ 0 \notin rsLanded' /\ rsLanded' \subseteq Nat
  BY DEF StoreInv, StoreTypeOK, ProperInv, RsReport, outsideVars
<1>6. rsKept' \subseteq Nat /\ rsGone' \subseteq Nat
  BY IdsAre DEF StoreInv, StoreTypeOK, RsReport, End, endVars, outsideVars
<1>7. rsTroubles' \in Nat /\ rsNew' \in [Stores -> Nat]
  <2>1. rsTroubles \in Nat /\ rsNew \in [Stores -> Nat]
    BY DEF StoreInv, StoreTypeOK
  <2>2. rsTroubles' \in {rsTroubles, rsTroubles + 1} /\ rsNew' = rsNew
    BY DEF RsReport, Fine, Trouble
  <2> QED BY <2>1, <2>2
<1>8. rsNamed' \in [Stores -> SUBSET Nat]
  BY IdsAre DEF StoreInv, StoreTypeOK, RsReport, End
<1>9. UNCHANGED requestVars
  BY DEF RsReport
<1>10. StageInv'
  <2>1. rsStep' = [rsStep EXCEPT ![s] = "idle"] /\ rsAside' = [rsAside EXCEPT ![s] = Missing]
    BY DEF RsReport, End, RsGoto
  <2>2. UNCHANGED <<rsMode, rsExpected, rsTold>>
    BY DEF RsReport, requestVars
  <2> QED BY <2>1, <2>2 DEF StoreInv, StoreTypeOK, StageInv, StageOK
<1>11. StoreLosesNothing'
  <2>1. rsAside' = [rsAside EXCEPT ![s] = Missing] /\ rsKept' = rsKept \cup Ids(rsAside[s])
    BY DEF RsReport, End
  <2>2. UNCHANGED <<rsFile, rsLanded, rsGone, rsTold>>
    BY DEF RsReport, requestVars, outsideVars
  <2>3. \A t \in Stores : Ids(rsAside[t]) \subseteq Ids(rsAside'[t]) \cup rsKept'
    BY <2>1 DEF StoreInv, StoreTypeOK
  <2> QED BY <2>1, <2>2, <2>3, Moves
<1> QED BY <1>1, <1>2, <1>3, <1>4, <1>5, <1>6, <1>7, <1>8, <1>9, <1>10, <1>11, ProperFile
        DEF StoreInv, StoreTypeOK, ProperInv, requestVars

LEMMA Inspecting ==
  ASSUME StoreInv, NEW s \in Stores, RsInspect(s)
  PROVE  StoreInv'
<1>1. rsStep' \in [Stores -> Steps] /\ rsMoved' \in [Stores -> BOOLEAN]
  BY DEF StoreInv, StoreTypeOK, Steps, RsInspect, RsGoto, endVars
<1>2. rsFile' \in Proper
  BY DEF StoreInv, ProperInv, RsInspect
<1>3. rsAside' \in [Stores -> Proper]
  BY ProperFile DEF StoreInv, ProperInv, RsInspect, endVars
<1>4. rsKnown' \in [Stores -> Proper]
  BY ProperFile DEF StoreInv, ProperInv, RsInspect, endVars
<1>5. rsNewId' \in Nat \ {0} /\ 0 \notin rsLanded' /\ rsLanded' \subseteq Nat
  BY DEF StoreInv, StoreTypeOK, ProperInv, RsInspect, outsideVars
<1>6. rsKept' \subseteq Nat /\ rsGone' \subseteq Nat
  BY IdsAre DEF StoreInv, StoreTypeOK, RsInspect, endVars, outsideVars
<1>7. rsTroubles' \in Nat /\ rsNew' \in [Stores -> Nat]
  BY DEF StoreInv, StoreTypeOK, RsInspect, Fine, Trouble
<1>8. rsNamed' \in [Stores -> SUBSET Nat]
  BY IdsAre DEF StoreInv, StoreTypeOK, RsInspect
<1>9. UNCHANGED requestVars
  BY DEF RsInspect
<1>10. StageInv'
  BY DEF StoreInv, StoreTypeOK, StageInv, StageOK, Allows, Missing, Modes, RsInspect, RsGoto,
       endVars, requestVars
<1>11. StoreLosesNothing'
  BY Moves DEF Ids, StoreInv, StoreTypeOK, ProperInv, StageInv, StageOK, Allows, Missing,
       RsInspect, RsGoto, endVars, requestVars, outsideVars, Fine, Trouble
<1> QED BY <1>1, <1>2, <1>3, <1>4, <1>5, <1>6, <1>7, <1>8, <1>9, <1>10, <1>11, ProperFile
        DEF StoreInv, StoreTypeOK, ProperInv, requestVars

LEMMA Cleaning ==
  ASSUME StoreInv, NEW s \in Stores, RsOutsideClean(s)
  PROVE  StoreInv'
<1>1. rsStep' \in [Stores -> Steps] /\ rsMoved' \in [Stores -> BOOLEAN]
  BY DEF StoreInv, StoreTypeOK, Steps, RsOutsideClean, RsGoto, endVars
<1>2. rsFile' \in Proper
  BY DEF StoreInv, ProperInv, RsOutsideClean
<1>3. rsAside' \in [Stores -> Proper]
  BY ProperFile DEF StoreInv, ProperInv, RsOutsideClean, endVars
<1>4. rsKnown' \in [Stores -> Proper]
  BY ProperFile DEF StoreInv, ProperInv, RsOutsideClean, endVars
<1>5. rsNewId' \in Nat \ {0} /\ 0 \notin rsLanded' /\ rsLanded' \subseteq Nat
  BY DEF StoreInv, StoreTypeOK, ProperInv, RsOutsideClean, outsideVars
<1>6. rsKept' \subseteq Nat /\ rsGone' \subseteq Nat
  BY IdsAre DEF StoreInv, StoreTypeOK, RsOutsideClean, endVars, outsideVars
<1>7. rsTroubles' \in Nat /\ rsNew' \in [Stores -> Nat]
  BY DEF StoreInv, StoreTypeOK, RsOutsideClean, Fine, Trouble
<1>8. rsNamed' \in [Stores -> SUBSET Nat]
  BY IdsAre DEF StoreInv, StoreTypeOK, RsOutsideClean
<1>9. UNCHANGED requestVars
  BY DEF RsOutsideClean
<1>10. StageInv'
  BY DEF StoreInv, StoreTypeOK, StageInv, StageOK, Allows, Missing, Modes, RsOutsideClean,
       RsGoto, endVars, requestVars
<1>11. StoreLosesNothing'
  BY Moves DEF Ids, StoreInv, StoreTypeOK, ProperInv, StageInv, StageOK, Allows, Missing,
       RsOutsideClean, RsGoto, endVars, requestVars, outsideVars, Fine, Trouble
<1> QED BY <1>1, <1>2, <1>3, <1>4, <1>5, <1>6, <1>7, <1>8, <1>9, <1>10, <1>11, ProperFile
        DEF StoreInv, StoreTypeOK, ProperInv, requestVars

LEMMA Crashing ==
  ASSUME StoreInv, NEW s \in Stores, RsCrash(s)
  PROVE  StoreInv'
<1>1. rsStep' \in [Stores -> Steps] /\ rsMoved' \in [Stores -> BOOLEAN]
  BY DEF StoreInv, StoreTypeOK, Steps, RsCrash, RsGoto, endVars
<1>2. rsFile' \in Proper
  BY DEF StoreInv, ProperInv, RsCrash
<1>3. rsAside' \in [Stores -> Proper]
  BY ProperFile DEF StoreInv, ProperInv, RsCrash, endVars
<1>4. rsKnown' \in [Stores -> Proper]
  BY ProperFile DEF StoreInv, ProperInv, RsCrash, endVars
<1>5. rsNewId' \in Nat \ {0} /\ 0 \notin rsLanded' /\ rsLanded' \subseteq Nat
  BY DEF StoreInv, StoreTypeOK, ProperInv, RsCrash, outsideVars
<1>6. rsKept' \subseteq Nat /\ rsGone' \subseteq Nat
  BY IdsAre DEF StoreInv, StoreTypeOK, RsCrash, endVars, outsideVars
<1>7. rsTroubles' \in Nat /\ rsNew' \in [Stores -> Nat]
  BY DEF StoreInv, StoreTypeOK, RsCrash, Fine, Trouble
<1>8. rsNamed' \in [Stores -> SUBSET Nat]
  BY IdsAre DEF StoreInv, StoreTypeOK, RsCrash
<1>9. UNCHANGED requestVars
  BY DEF RsCrash
<1>10. StageInv'
  BY DEF StoreInv, StoreTypeOK, StageInv, StageOK, Allows, Missing, Modes, RsCrash, RsGoto,
       endVars, requestVars
<1>11. StoreLosesNothing'
  BY Moves DEF Ids, StoreInv, StoreTypeOK, ProperInv, StageInv, StageOK, Allows, Missing,
       RsCrash, RsGoto, endVars, requestVars, outsideVars, Fine, Trouble
<1> QED BY <1>1, <1>2, <1>3, <1>4, <1>5, <1>6, <1>7, <1>8, <1>9, <1>10, <1>11, ProperFile
        DEF StoreInv, StoreTypeOK, ProperInv, requestVars

LEMMA Requesting ==
  ASSUME StoreInv, NEW s \in Stores, NEW mode \in Modes, RsRequest(s, mode)
  PROVE  StoreInv'
<1>1. /\ UNCHANGED <<rsFile, rsAside, rsOut, rsResult, rsKept, rsKnown, rsTroubles, rsNewId, rsLanded, rsGone>>
      /\ rsStep[s] = "idle" /\ rsStep' = [rsStep EXCEPT ![s] = "prepare"]
      /\ rsMode' = [rsMode EXCEPT ![s] = mode]
      /\ rsExpected' = [rsExpected EXCEPT ![s] = rsKnown[s]]
      /\ rsTold \subseteq rsTold'
  BY DEF RsRequest, RsGoto, outsideVars
<1>2. rsTold' \subseteq Nat
  BY DEF StoreInv, StoreTypeOK, RsRequest, File
<1>3. /\ rsNew' \in [Stores -> Nat] /\ rsNamed' \in [Stores -> SUBSET Nat]
      /\ rsMoved' \in [Stores -> BOOLEAN] /\ rsCount' \in [Stores -> Nat]
  BY DEF StoreInv, StoreTypeOK, RsRequest
<1>4. StoreTypeOK'
  BY <1>1, <1>2, <1>3 DEF StoreInv, StoreTypeOK, Steps
<1>5. ProperInv'
  BY <1>1 DEF StoreInv, ProperInv
<1>6. mode \notin Foreign /\ rsKnown[s].kind = "supported" => rsKnown[s].id \in rsTold'
  BY DEF RsRequest
<1>7. StageInv'
  BY <1>1, <1>6 DEF StoreInv, StoreTypeOK, StageInv, StageOK
<1>8. StoreLosesNothing'
  BY <1>1, Moves
<1> QED BY <1>4, <1>5, <1>7, <1>8 DEF StoreInv

LEMMA OtherPrograms ==
  ASSUME StoreInv, RsOutsideRemove \/ \E kind \in {"supported"} \cup Foreign : RsOutsideWrite(kind)
  PROVE  StoreInv'
<1>1. /\ rsFile' \in File /\ rsTroubles' \in Nat /\ rsGone' = rsGone \cup Ids(rsFile)
      /\ \/ rsNewId' = rsNewId /\ rsLanded' = rsLanded
         \/ rsNewId' = rsNewId + 1 /\ rsLanded' = rsLanded \cup {rsNewId} /\ rsFile'.id = rsNewId
  BY DEF StoreInv, StoreTypeOK, RsOutsideRemove, RsOutsideWrite, File, Kinds, Missing, Trouble
<1>2. rsFile' \in Proper
  BY <1>1, StoreAssumption DEF Proper, RsOutsideRemove, RsOutsideWrite
<1>3. UNCHANGED <<rsAside, rsStep, rsNew, rsNamed, rsMoved, endVars, requestVars>>
  BY DEF RsOutsideRemove, RsOutsideWrite
<1>4. StoreTypeOK'
  <2>0. rsNewId \in Nat /\ rsLanded \subseteq Nat /\ rsGone \subseteq Nat /\ Ids(rsFile) \subseteq Nat
    BY IdsAre DEF StoreInv, StoreTypeOK
  <2>1. rsNewId' \in Nat
    BY <1>1, <2>0
  <2>2. rsGone' \subseteq Nat
    BY <1>1, <2>0
  <2>3. rsLanded' \subseteq Nat
    BY <1>1, <2>0
  <2> QED BY <1>1, <1>3, <2>1, <2>2, <2>3 DEF StoreInv, StoreTypeOK, endVars, requestVars
<1>5. ProperInv'
  BY <1>1, <1>2, <1>3 DEF StoreInv, StoreTypeOK, ProperInv, endVars, requestVars
<1>6. StageInv'
  BY <1>3 DEF StoreInv, StageInv, requestVars
<1>7. StoreLosesNothing'
  <2>1. rsLanded' \ rsGone' \subseteq (rsLanded \ rsGone) \cup Ids(rsFile')
    BY <1>1 DEF StoreInv, StoreTypeOK, ProperInv, Ids
  <2> QED BY <1>1, <1>3, <2>1, Moves DEF endVars, requestVars
<1> QED BY <1>4, <1>5, <1>6, <1>7 DEF StoreInv

LEMMA StoreStep == StoreInv /\ [StoreNext]_rsVars => StoreInv'
<1> SUFFICES ASSUME StoreInv, [StoreNext]_rsVars PROVE StoreInv'
  OBVIOUS
<1>1. ASSUME NEW s \in Stores, StoreMutation(s) PROVE StoreInv'
  BY <1>1, Preparing, Looking, Claiming, Checking, RestoreLooking, Restoring, Retaining,
       InstallLooking,
     Putting, Verifying, ResetLooking, Dropping, Finishing, Reporting DEF StoreMutation
<1>2. ASSUME NEW s \in Stores,
             RsInspect(s) \/ (\E mode \in Modes : RsRequest(s, mode)) \/ RsOutsideClean(s) \/ RsCrash(s)
      PROVE  StoreInv'
  BY <1>2, Inspecting, Requesting, Cleaning, Crashing
<1>3. CASE UNCHANGED rsVars
  BY <1>3 DEF rsVars, StoreInv, StoreTypeOK, ProperInv, StageInv, StoreLosesNothing
<1> QED BY <1>1, <1>2, <1>3, OtherPrograms DEF StoreNext

LEMMA StoreStart == StoreInit => StoreInv
<1> SUFFICES ASSUME StoreInit PROVE StoreInv
  OBVIOUS
<1>1. rsFile \in File /\ rsFile \in Proper
  BY StoreAssumption DEF StoreInit, File, Kinds, Proper, Missing
<1>2. StoreTypeOK
  BY <1>1 DEF StoreInit, StoreTypeOK, File, Kinds, Missing, Modes, Steps
<1>3. ProperInv
  BY <1>1, ProperFile DEF StoreInit, ProperInv
<1>4. StageInv
  BY DEF StoreInit, StageInv, StageOK
<1>5. StoreLosesNothing
  BY DEF StoreInit, StoreLosesNothing
<1> QED BY <1>2, <1>3, <1>4, <1>5 DEF StoreInv

-----------------------------------------------------------------------------
(* What results say: a writer's step tells what it has moved and what it holds. *)

OutKinds == {"none", "notClaimed", "untouched", "notInstalled", "restored", "retained", "unknown"}

\* What a result says of the mutation alone.
ResultOK(r) ==
  /\ r.kind = "none" => r = NoResult
  /\ r.kind \in {"changed", "untouched"} => ~r.moved
  /\ r.kind \notin {"none", "unknown", "applied"} => r.left \subseteq r.named
  /\ r.kind = "applied" => r.left \subseteq r.named \cup {r.source}
  /\ r.kind \in {"retained", "failedRetained"} => r.named # {}
  /\ r.kind = "applied" /\ r.source # 0 /\ r.mode \in Foreign => r.named = {r.source}

\* What the result will need, at each step of the mutation.
WriterOK(step, expected, aside, moved, out, named) ==
  /\ step \in {"prepare", "look", "claim"} => ~moved
  /\ step \in {"claim", "check"} => expected # Missing
  /\ step \in {"install", "put"} /\ expected = Missing => ~moved
  /\ step = "report" => /\ out # "none"
                        /\ out \in {"notClaimed", "untouched", "notInstalled"} =>
                             ~moved /\ Ids(aside) = {}
                        /\ out = "restored" => Ids(aside) = {}
                        /\ out = "retained" => named # {} /\ Ids(aside) \subseteq named

\* Every result is true, and every writer has what its result will need.
ReportInv ==
  /\ rsOut \in [Stores -> OutKinds] /\ rsResult = [s \in Stores |-> rsResult[s]]
  /\ \A s \in Stores : ResultOK(rsResult[s])
  /\ \A s \in Stores :
       WriterOK(rsStep[s], rsExpected[s], rsAside[s], rsMoved[s], rsOut[s], rsNamed[s])

\* A result that says what happened to its mutation keeps every result true.
LEMMA EndTold ==
  ASSUME ReportInv, NEW s \in Stores, NEW result, NEW named, NEW known,
         End(s, result, named, known), result # "none",
         result \in {"changed", "untouched"} => ~rsMoved[s],
         result \notin {"unknown", "applied"} => Ids(rsAside[s]) \subseteq named,
         result = "applied" => Ids(rsAside[s]) \subseteq named \cup {rsExpected[s].id},
         result \in {"retained", "failedRetained"} => named # {},
         result = "applied" /\ rsExpected[s].id # 0 /\ rsMode[s] \in Foreign
           => named = {rsExpected[s].id}
  PROVE  \A t \in Stores : ResultOK(rsResult'[t])
<1>1. rsResult' = [t \in Stores |-> IF t # s THEN rsResult[t] ELSE
         [kind |-> result, mode |-> rsMode[s], source |-> rsExpected[s].id, named |-> named,
          left |-> Ids(rsAside[s]), moved |-> rsMoved[s]]]
  BY DEF End, ReportInv
<1>2. ResultOK(rsResult'[s])
  BY <1>1 DEF ResultOK
<1> QED
  BY <1>1, <1>2 DEF ReportInv

\* Also when what a writer holds aside stays beside the path.
LEMMA RetainTold ==
  ASSUME ReportInv, NEW s \in Stores, NEW seen, Retain(s, seen)
  PROVE  \A t \in Stores : ResultOK(rsResult'[t])
<1>1. CASE End(s, IF Found(s) = {} THEN "unknown" ELSE "retained", Found(s), seen)
  <2>1. CASE Found(s) = {}
    <3>1. End(s, "unknown", Found(s), seen)
      BY <1>1, <2>1
    <3> QED
      BY <3>1, EndTold
  <2>2. CASE Found(s) # {}
    <3>1. End(s, "retained", Found(s), seen)
      BY <1>1, <2>2
    <3> QED
      BY <2>2, <3>1, EndTold DEF Found
  <2> QED
    BY <2>1, <2>2
<1>2. CASE \E named \in {{}, Found(s)} : End(s, "unknown", named, seen)
  BY <1>2, EndTold
<1> QED
  BY <1>1, <1>2 DEF Retain

\* A step of a writer's mutation, or one that befalls it.
WriterStep(s) == StoreMutation(s) \/ RsInspect(s) \/ RsOutsideClean(s) \/ RsCrash(s)

\* Every step keeps the outcomes in their kinds.
LEMMA ReportTyped ==
  ASSUME StoreInv, ReportInv, NEW s \in Stores, WriterStep(s)
  PROVE  rsOut' \in [Stores -> OutKinds] /\ rsResult' = [t \in Stores |-> rsResult'[t]]
<1> USE DEF StoreInv, StoreTypeOK, StageInv, StageOK, ReportInv, Ids, Found, Missing, Retain, Then,
       End, RsGoto, endVars, requestVars, outsideVars
<1> USE DEF OutKinds
<1>1. CASE RsPrepare(s)
  BY <1>1 DEF RsPrepare
<1>2. CASE RsLook(s)
  BY <1>2 DEF RsLook
<1>3. CASE RsClaim(s)
  BY <1>3 DEF RsClaim
<1>4. CASE RsCheck(s)
  BY <1>4 DEF RsCheck
<1>5. CASE RsRestoreLook(s)
  BY <1>5 DEF RsRestoreLook
<1>6. CASE RsRestore(s)
  BY <1>6 DEF RsRestore
<1>7. CASE RsRetain(s)
  BY <1>7 DEF RsRetain
<1>8. CASE RsInstallLook(s)
  BY <1>8 DEF RsInstallLook
<1>9. CASE RsPut(s)
  BY <1>9 DEF RsPut
<1>10. CASE RsVerify(s)
  BY <1>10 DEF RsVerify
<1>11. CASE RsResetLook(s)
  BY <1>11 DEF RsResetLook
<1>12. CASE RsDrop(s)
  BY <1>12 DEF RsDrop
<1>13. CASE RsFinal(s)
  BY <1>13 DEF RsFinal
<1>14. CASE RsReport(s)
  BY <1>14 DEF RsReport, Reported, OutKinds, WriterOK
<1>15. CASE RsInspect(s)
  BY <1>15 DEF RsInspect
<1>16. CASE RsOutsideClean(s)
  BY <1>16 DEF RsOutsideClean
<1>17. CASE RsCrash(s)
  BY <1>17 DEF RsCrash, NoResult
<1> QED
  BY <1>1, <1>2, <1>3, <1>4, <1>5, <1>6, <1>7, <1>8, <1>9, <1>10, <1>11, <1>12, <1>13, <1>14,
     <1>15, <1>16, <1>17 DEF WriterStep, StoreMutation

\* The steps that may end with a claimed file left beside the path.
RetainStep(s) == RsRestoreLook(s) \/ RsInstallLook(s) \/ RsVerify(s) \/ RsResetLook(s) \/ RsFinal(s)

\* Their results are true.
LEMMA ReportRetained ==
  ASSUME StoreInv, ReportInv, NEW s \in Stores, RetainStep(s)
  PROVE  \A t \in Stores : ResultOK(rsResult'[t])
<1>1. CASE RsRestoreLook(s)
  <2>1. Retain(s, rsFile) \/ rsResult' = rsResult
    BY <1>1 DEF RsRestoreLook, endVars
  <2> QED
    BY <2>1, RetainTold DEF ReportInv
<1>2. CASE RsInstallLook(s)
  <2>1. \/ Retain(s, rsFile) \/ rsResult' = rsResult
        \/ /\ rsExpected[s] = Missing
           /\ End(s, "changed", {}, rsFile) \/ End(s, "untouched", {}, rsKnown[s])
    BY <1>2 DEF RsInstallLook, endVars
  <2>2. rsExpected[s] = Missing => ~rsMoved[s] /\ Ids(rsAside[s]) = {}
    BY <1>2 DEF RsInstallLook, ReportInv, WriterOK, StoreInv, StageInv, StageOK, Ids, Missing
  <2> QED
    BY <2>1, <2>2, RetainTold, EndTold DEF ReportInv
<1>3. CASE RsVerify(s)
  <2>1. \/ Retain(s, rsFile) \/ rsResult' = rsResult
        \/ \E named : End(s, "unknown", named, rsKnown[s])
    BY <1>3 DEF RsVerify, endVars
  <2> QED
    BY <2>1, RetainTold, EndTold DEF ReportInv
<1>4. CASE RsResetLook(s)
  <2>1. \/ Retain(s, rsFile) \/ rsResult' = rsResult
        \/ \E named : End(s, "unknown", named, rsKnown[s])
    BY <1>4 DEF RsResetLook, endVars
  <2> QED
    BY <2>1, RetainTold, EndTold DEF ReportInv
<1>5. CASE RsFinal(s)
  <2>1. Ids(rsAside[s]) \subseteq {rsExpected[s].id}
    BY <1>5 DEF RsFinal, StoreInv, StageInv, StageOK, Ids, Missing
  <2>2. \/ Retain(s, rsFile)
        \/ \E named, known : End(s, "unknown", named, known)
        \/ /\ End(s, "applied", rsNamed[s], rsFile) /\ rsMode[s] \notin Foreign
        \/ End(s, "applied", Found(s), rsFile) /\ Found(s) # {}
    BY <1>5 DEF RsFinal
  <2>3. ASSUME End(s, "applied", rsNamed[s], rsFile), rsMode[s] \notin Foreign
        PROVE  \A t \in Stores : ResultOK(rsResult'[t])
    BY <2>1, <2>3, EndTold
  <2>4. ASSUME End(s, "applied", Found(s), rsFile), Found(s) # {}
        PROVE  \A t \in Stores : ResultOK(rsResult'[t])
    BY <2>1, <2>4, EndTold DEF Found
  <2> QED
    BY <2>2, <2>3, <2>4, RetainTold, EndTold
<1> QED
  BY <1>1, <1>2, <1>3, <1>4, <1>5 DEF RetainStep

\* Every step leaves every result true.
LEMMA ReportResults ==
  ASSUME StoreInv, ReportInv, NEW s \in Stores, WriterStep(s)
  PROVE  \A t \in Stores : ResultOK(rsResult'[t])
<1> USE DEF StoreInv, StoreTypeOK, StageInv, StageOK, ReportInv, Ids, Found, Missing, Retain, Then,
       End, RsGoto, endVars, requestVars, outsideVars
<1> USE DEF ResultOK, WriterOK, OutKinds
<1>1. CASE RsPrepare(s)
  BY <1>1 DEF RsPrepare
<1>2. CASE RsLook(s)
  BY <1>2 DEF RsLook
<1>3. CASE RsClaim(s)
  BY <1>3 DEF RsClaim
<1>4. CASE RsCheck(s)
  BY <1>4 DEF RsCheck
<1>5. CASE RsRestore(s)
  BY <1>5 DEF RsRestore
<1>6. CASE RsRetain(s)
  BY <1>6 DEF RsRetain
<1>7. CASE RsPut(s)
  BY <1>7 DEF RsPut
<1>8. CASE RsDrop(s)
  BY <1>8 DEF RsDrop
<1>9. CASE RsReport(s)
  BY <1>9 DEF RsReport, Reported
<1>10. CASE RsInspect(s)
  BY <1>10 DEF RsInspect
<1>11. CASE RsOutsideClean(s)
  BY <1>11 DEF RsOutsideClean
<1>12. CASE RsCrash(s)
  BY <1>12 DEF RsCrash, NoResult
<1> QED
  BY <1>1, <1>2, <1>3, <1>4, <1>5, <1>6, <1>7, <1>8, <1>9, <1>10, <1>11, <1>12, ReportRetained
     DEF WriterStep, StoreMutation, RetainStep

\* Every step leaves its writer what its result will need.
LEMMA ReportWriters ==
  ASSUME StoreInv, ReportInv, NEW s \in Stores, WriterStep(s)
  PROVE  \A t \in Stores :
           WriterOK(rsStep'[t], rsExpected'[t], rsAside'[t], rsMoved'[t], rsOut'[t], rsNamed'[t])
<1> USE DEF StoreInv, StoreTypeOK, StageInv, StageOK, ReportInv, Ids, Found, Missing, Retain, Then,
       End, RsGoto, endVars, requestVars, outsideVars
<1> USE DEF ResultOK, WriterOK, OutKinds
<1>1. CASE RsPrepare(s)
  BY <1>1 DEF RsPrepare
<1>2. CASE RsLook(s)
  BY <1>2 DEF RsLook
<1>3. CASE RsClaim(s)
  BY <1>3 DEF RsClaim
<1>4. CASE RsCheck(s)
  BY <1>4 DEF RsCheck
<1>5. CASE RsRestoreLook(s)
  BY <1>5 DEF RsRestoreLook
<1>6. CASE RsRestore(s)
  BY <1>6 DEF RsRestore
<1>7. CASE RsRetain(s)
  <2>1. /\ rsOut' \in [Stores -> OutKinds] /\ rsNamed' = [rsNamed EXCEPT ![s] = rsNamed'[s]]
        /\ rsOut' = [rsOut EXCEPT ![s] = rsOut'[s]]
        /\ rsStep' = [rsStep EXCEPT ![s] = "report"] /\ UNCHANGED <<rsAside, rsMoved, rsExpected>>
    BY <1>7 DEF RsRetain
  <2>2. rsOut'[s] = "unknown" \/ (rsOut'[s] = "retained" /\ rsNamed'[s] = Found(s) /\ Found(s) # {})
    BY <1>7 DEF RsRetain
  <2>3. /\ rsStep \in [Stores -> Steps] /\ rsNamed \in [Stores -> SUBSET Nat]
        /\ \A t \in Stores :
             WriterOK(rsStep[t], rsExpected[t], rsAside[t], rsMoved[t], rsOut[t], rsNamed[t])
    OBVIOUS
  <2> QED
    BY ONLY <2>1, <2>2, <2>3, s \in Stores DEF WriterOK, Ids, Found, ReportInv
<1>8. CASE RsInstallLook(s)
  BY <1>8 DEF RsInstallLook
<1>9. CASE RsPut(s)
  BY <1>9 DEF RsPut
<1>10. CASE RsVerify(s)
  BY <1>10 DEF RsVerify
<1>11. CASE RsResetLook(s)
  BY <1>11 DEF RsResetLook
<1>12. CASE RsDrop(s)
  BY <1>12 DEF RsDrop
<1>13. CASE RsFinal(s)
  BY <1>13 DEF RsFinal
<1>14. CASE RsReport(s)
  BY <1>14 DEF RsReport, Reported, OutKinds, WriterOK
<1>15. CASE RsInspect(s)
  BY <1>15 DEF RsInspect
<1>16. CASE RsOutsideClean(s)
  BY <1>16 DEF RsOutsideClean
<1>17. CASE RsCrash(s)
  BY <1>17 DEF RsCrash, NoResult
<1> QED
  BY <1>1, <1>2, <1>3, <1>4, <1>5, <1>6, <1>7, <1>8, <1>9, <1>10, <1>11, <1>12, <1>13, <1>14,
     <1>15, <1>16, <1>17 DEF WriterStep, StoreMutation

\* A new command starts from nothing moved and nothing named.
LEMMA ReportRequest ==
  ASSUME StoreInv, ReportInv, NEW s \in Stores, NEW mode \in Modes, RsRequest(s, mode)
  PROVE  ReportInv'
<1>1. /\ rsStep' = [rsStep EXCEPT ![s] = "prepare"] /\ rsMoved' = [rsMoved EXCEPT ![s] = FALSE]
      /\ rsExpected' = [rsExpected EXCEPT ![s] = rsKnown[s]]
      /\ rsNamed' = [rsNamed EXCEPT ![s] = {}] /\ UNCHANGED <<rsOut, rsResult, rsAside>>
  BY DEF RsRequest, RsGoto
<1> QED
  BY <1>1 DEF ReportInv, WriterOK, StoreInv, StoreTypeOK

\* Other programs disturb no result.
LEMMA ReportOthers ==
  ASSUME StoreInv, ReportInv,
         RsOutsideRemove \/ \E kind \in {"supported"} \cup Foreign : RsOutsideWrite(kind)
  PROVE  ReportInv'
<1>1. UNCHANGED <<rsAside, rsStep, rsNamed, rsMoved, rsResult, rsOut, rsExpected>>
  BY DEF RsOutsideRemove, RsOutsideWrite, endVars, requestVars
<1> QED
  BY <1>1 DEF ReportInv

-----------------------------------------------------------------------------
(* A revision is in one place, and one that was claimed does not come back. *)

Owning == {"install", "put", "verify", "resetLook", "drop", "final"}

\* The revision is not at the path, nor does a mutation hold it aside.
Away(i) == rsFile.id # i /\ \A t \in Stores : rsAside[t].id # i

\* Revisions are numbered in the order of their making.
Numbered ==
  /\ rsFile.id < rsNewId
  /\ \A s \in Stores :
       rsAside[s].id < rsNewId /\ rsExpected[s].id < rsNewId /\ rsKnown[s].id < rsNewId

\* What is held aside is nowhere else.
HeldOnce ==
  \A s \in Stores : rsAside[s].id # 0 =>
    rsAside[s].id # rsFile.id /\ \A t \in Stores \ {s} : rsAside[t].id # rsAside[s].id

\* A writer past its check has had the revision it was asked about for itself.
OwnedOnce ==
  \A s \in Stores : rsStep[s] \in Owning /\ rsExpected[s].id # 0 =>
    /\ rsExpected[s].id # rsFile.id
    /\ \A t \in Stores \ {s} :
         /\ rsAside[t].id # rsExpected[s].id
         /\ rsStep[t] \in Owning => rsExpected[t].id # rsExpected[s].id

\* A success leaves the revision nowhere, and nobody past the check about it.
SuccessAway ==
  \A s \in Stores : rsResult[s].kind = "applied" /\ rsResult[s].source # 0 =>
    /\ rsResult[s].source \in Nat /\ rsResult[s].source < rsNewId /\ Away(rsResult[s].source)
    /\ \A t \in Stores : rsStep[t] \in Owning => rsExpected[t].id # rsResult[s].source
    /\ \A t \in Stores \ {s} :
         rsResult[t].kind = "applied" => rsResult[t].source # rsResult[s].source

OwnInv == Numbered /\ HeldOnce /\ OwnedOnce /\ SuccessAway

\* Where a step may move a revision.
Moved ==
  \/ /\ rsFile' \in {rsFile, Missing} /\ rsNewId' = rsNewId
     /\ \A t \in Stores : rsAside'[t] \in {rsAside[t], Missing}
  \/ /\ rsFile'.id = rsNewId /\ rsNewId' = rsNewId + 1
     /\ \A t \in Stores : rsAside'[t] = rsAside[t]
  \/ /\ rsFile' = Missing /\ rsNewId' = rsNewId
     /\ \E s \in Stores :
          /\ rsAside'[s] = rsFile /\ rsStep'[s] \notin Owning
          /\ \A t \in Stores \ {s} : rsAside'[t] = rsAside[t]
  \/ /\ rsNewId' = rsNewId
     /\ \E s \in Stores :
          /\ rsFile' = rsAside[s] /\ rsAside'[s] = Missing
          /\ rsStep[s] \notin Owning /\ rsStep'[s] \notin Owning
          /\ \A t \in Stores \ {s} : rsAside'[t] = rsAside[t]

\* How a writer gets past its check, and when it reports a success.
Advanced(t) ==
  /\ rsStep'[t] \in Owning =>
       /\ rsExpected'[t] = rsExpected[t]
       /\ rsStep[t] \in Owning \/ rsExpected[t] = Missing \/ rsAside[t] = rsExpected[t]
  /\ rsExpected'[t] \in {rsExpected[t], rsKnown[t]}
  /\ rsKnown'[t] \in {rsKnown[t], rsExpected[t], rsFile}
  /\ \/ rsResult'[t] = rsResult[t]
     \/ rsResult'[t].kind # "applied"
     \/ /\ rsResult'[t].source = rsExpected[t].id /\ rsAside'[t] = Missing /\ rsStep'[t] = "idle"
        /\ rsStep[t] \in Owning \/ rsExpected[t] = Missing

\* No step moves a revision in another way.
LEMMA OwnMoved ==
  ASSUME StoreInv, ReportInv, NEW s \in Stores, WriterStep(s)
  PROVE  Moved
<1> USE DEF StoreInv, StoreTypeOK, StageInv, StageOK, ReportInv, Ids, Found, Missing, Retain, Then,
       End, RsGoto, endVars, requestVars, outsideVars, Owning
<1> USE DEF Moved
<1>1. CASE RsPrepare(s)
  BY <1>1 DEF RsPrepare
<1>2. CASE RsLook(s)
  BY <1>2 DEF RsLook
<1>3. CASE RsClaim(s)
  BY <1>3 DEF RsClaim
<1>4. CASE RsCheck(s)
  BY <1>4 DEF RsCheck
<1>5. CASE RsRestoreLook(s)
  BY <1>5 DEF RsRestoreLook
<1>6. CASE RsRestore(s)
  BY <1>6 DEF RsRestore
<1>7. CASE RsRetain(s)
  BY <1>7 DEF RsRetain
<1>8. CASE RsInstallLook(s)
  BY <1>8 DEF RsInstallLook
<1>9. CASE RsPut(s)
  BY <1>9 DEF RsPut
<1>10. CASE RsVerify(s)
  BY <1>10 DEF RsVerify
<1>11. CASE RsResetLook(s)
  BY <1>11 DEF RsResetLook
<1>12. CASE RsDrop(s)
  BY <1>12 DEF RsDrop
<1>13. CASE RsFinal(s)
  BY <1>13 DEF RsFinal
<1>14. CASE RsReport(s)
  BY <1>14, ZenonT(40) DEF RsReport
<1>15. CASE RsInspect(s)
  BY <1>15 DEF RsInspect
<1>16. CASE RsOutsideClean(s)
  BY <1>16 DEF RsOutsideClean
<1>17. CASE RsCrash(s)
  BY <1>17 DEF RsCrash
<1> QED
  BY <1>1, <1>2, <1>3, <1>4, <1>5, <1>6, <1>7, <1>8, <1>9, <1>10, <1>11, <1>12, <1>13, <1>14,
     <1>15, <1>16, <1>17 DEF WriterStep, StoreMutation

\* No step gets a writer past its check, or to a success, in another way.
LEMMA OwnAdvanced ==
  ASSUME StoreInv, ReportInv, NEW s \in Stores, WriterStep(s), NEW t \in Stores
  PROVE  Advanced(t)
<1> USE DEF StoreInv, StoreTypeOK, StageInv, StageOK, ReportInv, Ids, Found, Missing, Retain, Then,
       End, RsGoto, endVars, requestVars, outsideVars, Owning
<1> USE DEF Advanced
<1>1. CASE RsPrepare(s)
  BY <1>1 DEF RsPrepare
<1>2. CASE RsLook(s)
  BY <1>2 DEF RsLook
<1>3. CASE RsClaim(s)
  BY <1>3 DEF RsClaim
<1>4. CASE RsCheck(s)
  BY <1>4 DEF RsCheck
<1>5. CASE RsRestoreLook(s)
  BY <1>5 DEF RsRestoreLook
<1>6. CASE RsRestore(s)
  BY <1>6 DEF RsRestore
<1>7. CASE RsRetain(s)
  BY <1>7 DEF RsRetain
<1>8. CASE RsInstallLook(s)
  BY <1>8 DEF RsInstallLook
<1>9. CASE RsPut(s)
  BY <1>9 DEF RsPut
<1>10. CASE RsVerify(s)
  BY <1>10 DEF RsVerify
<1>11. CASE RsResetLook(s)
  BY <1>11 DEF RsResetLook
<1>12. CASE RsDrop(s)
  BY <1>12 DEF RsDrop
<1>13. CASE RsFinal(s)
  BY <1>13 DEF RsFinal
<1>14. CASE RsReport(s)
  BY <1>14 DEF RsReport, Reported, OutKinds, WriterOK
<1>15. CASE RsInspect(s)
  BY <1>15 DEF RsInspect
<1>16. CASE RsOutsideClean(s)
  BY <1>16 DEF RsOutsideClean
<1>17. CASE RsCrash(s)
  BY <1>17 DEF RsCrash, NoResult
<1> QED
  BY <1>1, <1>2, <1>3, <1>4, <1>5, <1>6, <1>7, <1>8, <1>9, <1>10, <1>11, <1>12, <1>13, <1>14,
     <1>15, <1>16, <1>17 DEF WriterStep, StoreMutation

\* A command moves nothing.
LEMMA OwnRequest ==
  ASSUME StoreInv, ReportInv, NEW s \in Stores, NEW mode \in Modes, RsRequest(s, mode)
  PROVE  Moved /\ \A t \in Stores : Advanced(t)
<1>1. Moved
  BY DEF Moved, Owning, StoreInv, StoreTypeOK, StageInv, StageOK, RsRequest, Missing, Ids,
     Found, Retain, Then, End, RsGoto, Fine, Trouble, endVars, requestVars, outsideVars
<1>2. ASSUME NEW t \in Stores PROVE Advanced(t)
  BY DEF Advanced, Owning, StoreInv, StoreTypeOK, StageInv, StageOK, ReportInv, RsRequest,
     Missing, Ids, Found, Retain, Then, End, RsGoto, Fine, Trouble, endVars, requestVars,
     outsideVars
<1> QED
  BY <1>1, <1>2

\* What was claimed once does not come back, whatever the next step is.
LEMMA OwnStep ==
  ASSUME StoreInv, OwnInv, Moved, \A t \in Stores : Advanced(t)
  PROVE  OwnInv'
<1>1. /\ rsNewId \in Nat /\ rsFile.id \in Nat
      /\ \A t \in Stores :
           rsAside[t].id \in Nat /\ rsExpected[t].id \in Nat /\ rsKnown[t].id \in Nat
  BY DEF StoreInv, StoreTypeOK, File
<1>2. Missing.id = 0 /\ rsNewId # 0
  BY DEF Missing, StoreInv, ProperInv
<1>3. rsNewId' \in Nat /\ rsNewId <= rsNewId' /\ rsFile'.id < rsNewId'
  BY <1>1, <1>2 DEF Moved, OwnInv, Numbered
<1>4. \A t \in Stores :
        rsAside'[t].id < rsNewId' /\ rsExpected'[t].id < rsNewId' /\ rsKnown'[t].id < rsNewId'
  <2>1. \A t \in Stores : rsAside'[t] \in {rsAside[t], rsFile, Missing}
    BY DEF Moved
  <2> QED
    BY <1>1, <1>2, <1>3, <2>1 DEF OwnInv, Numbered, Advanced
\* A revision nobody has any more stays away.
<1>5. ASSUME NEW i \in Nat, i # 0, i < rsNewId, Away(i) PROVE Away(i)'
  BY <1>1, <1>2, <1>5 DEF Moved, Away
\* So does one only its owner holds.
<1>6. ASSUME NEW s \in Stores, NEW i \in Nat, i # 0, i < rsNewId, i # rsFile.id,
             \A t \in Stores \ {s} : rsAside[t].id # i,
             rsStep[s] \in Owning \/ rsStep'[s] \in Owning
      PROVE  i # rsFile'.id /\ \A t \in Stores \ {s} : rsAside'[t].id # i
  BY <1>1, <1>2, <1>6 DEF Moved
<1>7. ASSUME NEW s \in Stores, rsAside'[s].id # 0
      PROVE  rsAside'[s].id # rsFile'.id /\ \A t \in Stores \ {s} : rsAside'[t].id # rsAside'[s].id
  <2>1. HeldOnce /\ rsFile.id < rsNewId /\ \A t \in Stores : rsAside[t].id < rsNewId
    BY DEF OwnInv, Numbered
  <2>2. CASE /\ rsFile' \in {rsFile, Missing}
             /\ \A t \in Stores : rsAside'[t] \in {rsAside[t], Missing}
    BY <1>2, <1>7, <2>1, <2>2 DEF HeldOnce
  <2>3. CASE rsFile'.id = rsNewId /\ \A t \in Stores : rsAside'[t] = rsAside[t]
    BY <1>1, <1>7, <2>1, <2>3 DEF HeldOnce
  <2>4. CASE /\ rsFile' = Missing
             /\ \E o \in Stores : /\ rsAside'[o] = rsFile
                                  /\ \A t \in Stores \ {o} : rsAside'[t] = rsAside[t]
    BY <1>2, <1>7, <2>1, <2>4 DEF HeldOnce
  <2>5. CASE \E o \in Stores : /\ rsFile' = rsAside[o] /\ rsAside'[o] = Missing
                               /\ \A t \in Stores \ {o} : rsAside'[t] = rsAside[t]
    BY <1>2, <1>7, <2>1, <2>5 DEF HeldOnce
  <2> QED
    BY <2>2, <2>3, <2>4, <2>5 DEF Moved
\* Who is past the check had the revision before the step or claimed it.
<1>8. ASSUME NEW s \in Stores, rsStep'[s] \in Owning, rsExpected'[s].id # 0
      PROVE  /\ rsExpected'[s] = rsExpected[s] /\ rsExpected[s].id # rsFile.id
             /\ \A t \in Stores \ {s} : rsAside[t].id # rsExpected[s].id
             /\ rsStep[s] \in Owning \/ rsAside[s] = rsExpected[s]
  <2>1. /\ rsExpected'[s] = rsExpected[s] /\ rsExpected[s].id # 0
        /\ rsStep[s] \in Owning \/ rsAside[s] = rsExpected[s]
    BY <1>2, <1>8 DEF Advanced
  <2>2. CASE rsStep[s] \in Owning
    BY <2>1, <2>2 DEF OwnInv, OwnedOnce
  <2>3. CASE rsAside[s] = rsExpected[s]
    BY <2>1, <2>3 DEF OwnInv, HeldOnce
  <2> QED
    BY <2>1, <2>2, <2>3
<1>9. ASSUME NEW s \in Stores, rsStep'[s] \in Owning, rsExpected'[s].id # 0
      PROVE  /\ rsExpected'[s].id # rsFile'.id
             /\ \A t \in Stores \ {s} :
                  /\ rsAside'[t].id # rsExpected'[s].id
                  /\ rsStep'[t] \in Owning => rsExpected'[t].id # rsExpected'[s].id
  <2>1. rsExpected[s].id \in Nat /\ rsExpected[s].id < rsNewId
    BY <1>1 DEF OwnInv, Numbered
  <2>2. ASSUME NEW t \in Stores \ {s}, rsStep'[t] \in Owning
        PROVE  rsExpected'[t].id # rsExpected'[s].id
    <3>1. CASE rsExpected'[t].id = 0
      BY <1>9, <3>1
    <3>2. CASE rsExpected'[t].id # 0
      BY <1>8, <1>9, <2>2, <3>2 DEF OwnInv, OwnedOnce
    <3> QED
      BY <3>1, <3>2
  <2> QED
    BY <1>6, <1>8, <1>9, <2>1, <2>2
\* A success is about a revision that is away.
<1>10. ASSUME NEW s \in Stores, rsResult'[s].kind = "applied", rsResult'[s].source # 0
       PROVE  \/ /\ rsResult'[s] = rsResult[s]
                 /\ rsResult[s].source \in Nat /\ rsResult[s].source < rsNewId
                 /\ Away(rsResult[s].source)
              \/ /\ rsResult'[s].source = rsExpected[s].id /\ rsAside'[s] = Missing
                 /\ rsStep[s] \in Owning /\ rsStep'[s] = "idle"
  BY <1>2, <1>10 DEF Advanced, OwnInv, SuccessAway
<1>11. ASSUME NEW s \in Stores, rsResult'[s].kind = "applied", rsResult'[s].source # 0
       PROVE  /\ rsResult'[s].source \in Nat /\ rsResult'[s].source < rsNewId'
              /\ Away(rsResult[s].source)'
              /\ \A t \in Stores : rsStep'[t] \in Owning => rsExpected'[t].id # rsResult'[s].source
              /\ \A t \in Stores \ {s} :
                   rsResult'[t].kind = "applied" => rsResult'[t].source # rsResult'[s].source
  <2> DEFINE i == rsResult'[s].source
  <2>1. CASE rsResult'[s] = rsResult[s] /\ i \in Nat /\ i < rsNewId /\ Away(rsResult[s].source)
    <3>1. Away(rsResult[s].source)' /\ i < rsNewId'
      BY <1>1, <1>3, <1>5, <1>11, <2>1
    <3>2. ASSUME NEW t \in Stores, rsStep'[t] \in Owning PROVE rsExpected'[t].id # i
      <4>1. CASE rsExpected'[t].id = 0
        BY <1>11, <4>1
      <4>2. CASE rsExpected'[t].id # 0
        <5>1. /\ rsExpected'[t] = rsExpected[t]
              /\ rsStep[t] \in Owning \/ rsAside[t] = rsExpected[t]
          BY <1>8, <3>2, <4>2
        <5> QED
          BY <1>11, <2>1, <5>1 DEF OwnInv, SuccessAway, Away
      <4> QED
        BY <4>1, <4>2
    <3>3. ASSUME NEW t \in Stores \ {s}, rsResult'[t].kind = "applied" PROVE rsResult'[t].source # i
      <4>1. CASE rsResult'[t].source = 0
        BY <1>11, <4>1
      <4>2. CASE rsResult'[t].source # 0
        BY <1>10, <1>11, <2>1, <3>3, <4>2 DEF OwnInv, SuccessAway
      <4> QED
        BY <4>1, <4>2
    <3> QED
      BY <2>1, <3>1, <3>2, <3>3
  <2>2. CASE rsResult'[s].source = rsExpected[s].id /\ rsAside'[s] = Missing
             /\ rsStep[s] \in Owning /\ rsStep'[s] = "idle"
    <3>1. /\ i \in Nat /\ i < rsNewId /\ i # 0 /\ i # rsFile.id /\ i = rsExpected[s].id
          /\ \A t \in Stores \ {s} :
               /\ rsAside[t].id # i
               /\ rsStep[t] \in Owning => rsExpected[t].id # i
      BY <1>1, <1>11, <2>2 DEF OwnInv, Numbered, OwnedOnce
    <3>2. Away(rsResult[s].source)' /\ i < rsNewId'
      <4>1. i # rsFile'.id /\ \A t \in Stores \ {s} : rsAside'[t].id # i
        BY <1>6, <2>2, <3>1
      <4>2. rsAside'[s].id # i
        BY <1>2, <2>2, <3>1
      <4> QED
        BY <1>1, <1>3, <3>1, <4>1, <4>2 DEF Away
    <3>3. ASSUME NEW t \in Stores, rsStep'[t] \in Owning PROVE rsExpected'[t].id # i
      <4>1. t # s
        BY <2>2, <3>3 DEF Owning
      <4>2. CASE rsExpected'[t].id = 0
        BY <3>1, <4>2
      <4>3. CASE rsExpected'[t].id # 0
        <5>1. /\ rsExpected'[t] = rsExpected[t]
              /\ rsStep[t] \in Owning \/ rsAside[t] = rsExpected[t]
          BY <1>8, <3>3, <4>3
        <5> QED
          BY <3>1, <4>1, <5>1
      <4> QED
        BY <4>2, <4>3
    <3>4. ASSUME NEW t \in Stores \ {s}, rsResult'[t].kind = "applied" PROVE rsResult'[t].source # i
      <4>1. CASE rsResult'[t].source = 0
        BY <3>1, <4>1
      <4>2. CASE rsResult'[t].source # 0
        BY <1>10, <2>2, <3>1, <3>4, <4>2 DEF OwnInv, OwnedOnce, SuccessAway
      <4> QED
        BY <4>1, <4>2
    <3> QED
      BY <3>1, <3>2, <3>3, <3>4
  <2> QED
    BY <1>10, <1>11, <2>1, <2>2
<1> QED
  BY <1>3, <1>4, <1>7, <1>9, <1>11 DEF OwnInv, Numbered, HeldOnce, OwnedOnce, SuccessAway

\* Other programs write new revisions only.
LEMMA OwnOthers ==
  ASSUME StoreInv, ReportInv, OwnInv,
         RsOutsideRemove \/ \E kind \in {"supported"} \cup Foreign : RsOutsideWrite(kind)
  PROVE  OwnInv'
<1>1. Moved
  BY DEF Moved, RsOutsideRemove, RsOutsideWrite, StoreInv, StoreTypeOK, outsideVars
<1>2. UNCHANGED <<rsStep, rsExpected, rsKnown, rsResult>>
  BY DEF RsOutsideRemove, RsOutsideWrite, endVars, requestVars
<1>3. \A t \in Stores : Advanced(t)
  BY <1>2 DEF Advanced
<1> QED
  BY <1>1, <1>3, OwnStep

\* The invariant of the results is inductive beside StoreInv.
LEMMA TrueStep == StoreInv /\ ReportInv /\ OwnInv /\ [StoreNext]_rsVars => ReportInv' /\ OwnInv'
<1> SUFFICES ASSUME StoreInv, ReportInv, OwnInv, [StoreNext]_rsVars PROVE ReportInv' /\ OwnInv'
  OBVIOUS
<1>1. ASSUME NEW s \in Stores, WriterStep(s) PROVE ReportInv' /\ OwnInv'
  <2>1. ReportInv'
    BY <1>1, ReportTyped, ReportResults, ReportWriters DEF ReportInv
  <2>2. Moved /\ \A t \in Stores : Advanced(t)
    BY <1>1, OwnMoved, OwnAdvanced
  <2> QED
    BY <2>1, <2>2, OwnStep
<1>2. ASSUME NEW s \in Stores, NEW mode \in Modes, RsRequest(s, mode) PROVE ReportInv' /\ OwnInv'
  BY <1>2, ReportRequest, OwnRequest, OwnStep
<1>3. CASE UNCHANGED rsVars
  BY <1>3 DEF rsVars, ReportInv, OwnInv, Numbered, HeldOnce, OwnedOnce, SuccessAway, Away
<1>4. CASE RsOutsideRemove \/ \E kind \in {"supported"} \cup Foreign : RsOutsideWrite(kind)
  BY <1>4, ReportOthers, OwnOthers
<1> QED
  BY <1>1, <1>2, <1>3, <1>4 DEF StoreNext, WriterStep

LEMMA TrueStart == StoreInit => ReportInv /\ OwnInv
<1> SUFFICES ASSUME StoreInit PROVE ReportInv /\ OwnInv
  OBVIOUS
<1>1. ReportInv
  BY DEF StoreInit, ReportInv, OutKinds, ResultOK, WriterOK, NoResult
<1>2. rsFile.id \in {0, 1} /\ rsNewId = 2
  BY DEF StoreInit, Missing
<1>3. /\ \A s \in Stores : rsAside[s].id = 0 /\ rsExpected[s].id = 0 /\ rsKnown[s] = rsFile
      /\ \A s \in Stores : rsResult[s].kind = "none"
  BY DEF StoreInit, Missing, NoResult
<1>4. Numbered /\ HeldOnce /\ OwnedOnce /\ SuccessAway
  BY <1>2, <1>3 DEF Numbered, HeldOnce, OwnedOnce, SuccessAway
<1> QED
  BY <1>1, <1>4 DEF OwnInv

-----------------------------------------------------------------------------
\* The inductive invariant holds in every behaviour of the writers.
THEOREM StoreInvariant == StoreSpec => []StoreInv
BY StoreStart, StoreStep, PTL DEF StoreSpec

\* The variables keep their types.
THEOREM StoreTypeCorrect == StoreSpec => []StoreTypeOK
<1>1. StoreInv => StoreTypeOK
  BY DEF StoreInv
<1> QED BY <1>1, StoreInvariant, PTL

\* However many processes change the runtime UI state file at once, with whatever
\* failures, crashes and writes by other programs in between, no revision is removed
\* but a readable one that a replace or a reset was about (store/mutation.rs).
THEOREM StoreKeepsOthersWork == StoreSpec => []StoreLosesNothing
<1>1. StoreInv => StoreLosesNothing
  BY DEF StoreInv
<1> QED BY <1>1, StoreInvariant, PTL

\* What a mutation reports is what it did, however its steps interleave with those
\* of other processes and programs, failures and crashes: nothing moved when the file
\* is said to be untouched, nothing left unnamed, and at most one success about any
\* revision, which is then nowhere to be found (execute_conditional).
THEOREM StoreTellsTruth == StoreSpec => []StoreReportsTrue
<1>1. ReportInv /\ OwnInv => StoreReportsTrue
  <2> SUFFICES ASSUME ReportInv, OwnInv, NEW s \in Stores, rsResult[s] # NoResult
               PROVE  LET r == rsResult[s] IN
                 /\ r.kind \in {"changed", "untouched"} => ~r.moved
                 /\ r.kind \notin {"unknown", "applied"} => r.left \subseteq r.named
                 /\ r.kind = "applied" => r.left \subseteq r.named \cup {r.source}
                 /\ r.kind \in {"retained", "failedRetained"} => r.named # {}
                 /\ r.kind = "applied" /\ r.source # 0 =>
                      /\ r.source # rsFile.id
                      /\ r.mode \in Foreign => r.named = {r.source}
                      /\ \A t \in Stores \ {s} :
                           rsResult[t].kind = "applied" => rsResult[t].source # r.source
    BY DEF StoreReportsTrue
  <2> QED
    BY DEF ReportInv, ResultOK, OwnInv, SuccessAway, Away
<1> QED
  BY <1>1, StoreInvariant, StoreStart, TrueStart, TrueStep, PTL DEF StoreSpec
=============================================================================
