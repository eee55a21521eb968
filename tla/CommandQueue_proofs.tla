------------------------- MODULE CommandQueue_proofs -------------------------
(***************************************************************************)
(* Proofs about CommandQueue, for any number of clients, any requests and  *)
(* any number of daemon generations.  The argument has two layers:         *)
(*   - StepWrites lists the ways any step may write a control record       *)
(*     (Written), and the other Step... lemmas what a step does to the     *)
(*     variables beside it: one proof step per action of Next;             *)
(*   - each part of the inductive invariant IInv is then preserved by      *)
(*     every write, without looking at the actions again.                  *)
(* Before them stand the lemmas on the transitions of one record.          *)
(* The decision lock is never mentioned: the guards on the decision, which *)
(* a record keeps with it, are enough.  The order of commits (TurnInv)     *)
(* rests on the admission lock and the caller lease.                       *)
(* At the end: for each command, CommandQueue implements CommandPromise.   *)
(***************************************************************************)
EXTENDS CommandQueue, TLAPS, WellFoundedInduction

-----------------------------------------------------------------------------
(* The transitions of a record: every write the code makes turns a valid record into a    *)
(* valid record, so that write_control's own validation never refuses one.                *)

\* What the protocol stores for a command without an overlay action.
PlainRecord(r) == r \in Controls /\ Validate(r) /\ r.action_status = "None"

PlainKinds == {"NoOp", "HideReady", "StartAndShow"}

\* publish stages a valid record.
LEMMA NewControlValid ==
  ASSUME NEW request \in Requests, NEW token \in Nat
  PROVE  PlainRecord(NewControl(request, token))
BY DEF PlainRecord, NewControl, Controls, Requests, PublicationStates, Decisions,
       EffectKinds, ActionEffects, EffectStatuses, ActionStatuses, LiveActions, Responses,
       Reasons, Dispositions, Validate, DecisionMatchesResponse, ActionMatchesEffect,
       Answered, IsAuthorized

\* The publication state and the caller's abandonment are independent of the decision.
LEMMA PublicationValid ==
  ASSUME NEW r, PlainRecord(r)
  PROVE  PlainRecord(Queued(r)) /\ PlainRecord(Claimed(r)) /\ PlainRecord(CallerAbandoned(r))
BY DEF PlainRecord, Queued, Claimed, CallerAbandoned, Controls, PublicationStates,
       Dispositions, Validate, DecisionMatchesResponse, ActionMatchesEffect,
       Answered, IsAuthorized

\* acknowledge needs the response it acknowledges.
LEMMA AcknowledgedValid ==
  ASSUME NEW r, PlainRecord(r), Answered(r)
  PROVE  PlainRecord(Acknowledged(r))
BY DEF PlainRecord, Acknowledged, Controls, Dispositions, Validate,
       DecisionMatchesResponse, ActionMatchesEffect, Answered, IsAuthorized

\* cancel_open, reject and commit start from an open decision.
LEMMA DecidedValid ==
  ASSUME NEW r, PlainRecord(r), IsOpen(r), NEW why \in Reasons, NEW kind \in PlainKinds
  PROVE  /\ PlainRecord(Canceled(r))
         /\ PlainRecord(Rejected(r, why))
         /\ PlainRecord(Committed(r, kind))
<1>1. PlainRecord(Canceled(r))
  BY DEF PlainRecord, IsOpen, Canceled, Controls, Decisions, Responses, Dispositions,
         Validate, DecisionMatchesResponse, ActionMatchesEffect, Answered, IsAuthorized
<1>2. PlainRecord(Rejected(r, why))
  BY DEF PlainRecord, IsOpen, Rejected, Controls, Decisions, Responses, Validate,
         DecisionMatchesResponse, ActionMatchesEffect, Answered, IsAuthorized
<1>3. PlainRecord(Committed(r, kind))
  BY ZenonT(40) DEF PlainRecord, IsOpen, Committed, PlainKinds, Controls, Decisions, Responses,
         EffectKinds, ActionEffects, EffectStatuses, Validate,
         DecisionMatchesResponse, ActionMatchesEffect, Answered, IsAuthorized
<1> QED BY <1>1, <1>2, <1>3

\* finalize starts from an authorized effect.
LEMMA FinalizedValid ==
  ASSUME NEW r, PlainRecord(r), IsAuthorized(r), NEW ok \in BOOLEAN
  PROVE  PlainRecord(Finalized(r, ok))
BY DEF PlainRecord, Finalized, Controls, Responses, EffectStatuses, Validate,
       DecisionMatchesResponse, ActionMatchesEffect, Answered, IsAuthorized

\* A valid record without a response is open or has an authorized effect.
LEMMA UnansweredIsRecoverable ==
  ASSUME NEW r, PlainRecord(r), ~Answered(r)
  PROVE  IsOpen(r) \/ IsAuthorized(r)
BY DEF PlainRecord, Controls, Decisions, EffectStatuses, Validate,
       DecisionMatchesResponse, ActionMatchesEffect, Answered, IsAuthorized, IsOpen

\* recover_previous_generation rewrites a record that has no response.
LEMMA GenerationEndedValid ==
  ASSUME NEW r, PlainRecord(r), ~Answered(r)
  PROVE  PlainRecord(GenerationEnded(r))
<1>1. CASE IsOpen(r)
  <2>1. PlainRecord(Rejected(r, "PreviousGeneration"))
    BY <1>1, DecidedValid DEF Reasons, PlainKinds
  <2>2. GenerationEnded(r) = Rejected(r, "PreviousGeneration")
    BY <1>1 DEF GenerationEnded, PlainRecord, Rejected, Controls, LiveActions, IsOpen
  <2> QED BY <2>1, <2>2
<1>2. CASE ~IsOpen(r)
  <2>1. PlainRecord(Finalized(r, FALSE))
    BY <1>2, UnansweredIsRecoverable, FinalizedValid
  <2>2. GenerationEnded(r) = Finalized(r, FALSE)
    BY <1>2 DEF GenerationEnded, PlainRecord, Finalized, Controls, LiveActions, IsOpen
  <2> QED BY <2>1, <2>2
<1> QED BY <1>1, <1>2

\* Only the end of publication and the claim move the publication state.
LEMMA PublicationKept ==
  ASSUME NEW r \in Controls, NEW why, NEW kind, NEW ok
  PROVE  /\ Acknowledged(r).publication_state    = r.publication_state
         /\ CallerAbandoned(r).publication_state = r.publication_state
         /\ CallerAbandoned(Rejected(r, why)).publication_state = r.publication_state
         /\ Canceled(r).publication_state        = r.publication_state
         /\ Rejected(r, why).publication_state   = r.publication_state
         /\ Committed(r, kind).publication_state = r.publication_state
         /\ Finalized(r, ok).publication_state   = r.publication_state
         /\ GenerationEnded(r).publication_state = r.publication_state
BY DEF Controls, Acknowledged, CallerAbandoned, Canceled, Rejected, Committed, Finalized,
       GenerationEnded

\* Daemon decisions and outcomes leave the caller's disposition alone.
LEMMA DispositionKept ==
  ASSUME NEW r \in Controls, NEW why, NEW kind, NEW ok
  PROVE  /\ Queued(r).caller_disposition          = r.caller_disposition
         /\ Claimed(r).caller_disposition         = r.caller_disposition
         /\ Rejected(r, why).caller_disposition   = r.caller_disposition
         /\ Committed(r, kind).caller_disposition = r.caller_disposition
         /\ Finalized(r, ok).caller_disposition   = r.caller_disposition
         /\ GenerationEnded(r).caller_disposition = r.caller_disposition
BY DEF Controls, Queued, Claimed, Rejected, Committed, Finalized, GenerationEnded

SameDecision(r, s) ==
  /\ s.decision = r.decision /\ s.reason = r.reason
  /\ s.effect_status = r.effect_status /\ s.response = r.response

\* Publication, claim, acknowledgement and abandonment decide nothing.
LEMMA DecisionKept ==
  ASSUME NEW r \in Controls
  PROVE  /\ SameDecision(r, Queued(r)) /\ SameDecision(r, Claimed(r))
         /\ SameDecision(r, Acknowledged(r)) /\ SameDecision(r, CallerAbandoned(r))
BY DEF Controls, Queued, Claimed, Acknowledged, CallerAbandoned, SameDecision

\* What each transition makes of the decision.
LEMMA DecidedRecord ==
  ASSUME NEW r \in Controls, NEW why, NEW kind \in {"HideReady", "StartAndShow"}, NEW ok
  PROVE  /\ Canceled(r).decision = "Canceled"
         /\ Rejected(r, why).decision = "Rejected" /\ Rejected(r, why).reason = why
         /\ Committed(r, kind).decision = "Committed" /\ IsAuthorized(Committed(r, kind))
         /\ Finalized(r, ok).decision = r.decision /\ Finalized(r, ok).reason = r.reason
         /\ ~IsOpen(r) => /\ GenerationEnded(r).decision = r.decision
                          /\ GenerationEnded(r).reason = r.reason
BY DEF Controls, Canceled, Rejected, Committed, Finalized, GenerationEnded, IsAuthorized, IsOpen

-----------------------------------------------------------------------------
(* The writes of a step.                                                   *)

\* Reasons of a rejection that comes with a promise of no effect.
NoEffectReasons == Reasons \ {"None", "AuthorizationExpired"}

\* The caller is gone once this step is over, or leaves with it.
Closing(c) ==
  /\ LeaseFree(c)'
  /\ cpc[c] = "waiting" \/ c \in todo \/ place[c] = "controls"

\* How one step may write the record of c.
Written(c) ==
  \/ ctl'[c] = ctl[c]
  \/ cpc[c] = "idle" /\ ctl'[c] = NewControl(Request[c], gen)
  \/ cpc[c] = "referenced" /\ ctl'[c] = Queued(ctl[c])
  \/ c \in cur /\ ctl'[c] = Claimed(ctl[c])
  \/ Answered(ctl[c]) /\ Closing(c) /\ ctl'[c] = Acknowledged(ctl[c])
  \/ Closing(c) /\ ctl'[c] = CallerAbandoned(ctl[c])
  \/ /\ IsOpen(ctl[c]) /\ Closing(c) /\ cpc[c] = "waiting"
     /\ ctl'[c] = Canceled(ctl[c]) /\ answer'[c] = "Canceled"
  \/ /\ IsOpen(ctl[c]) /\ (c \in cur \cup snapshot \/ place[c] = "controls")
     /\ \E why \in NoEffectReasons :
          \/ ctl'[c] = Rejected(ctl[c], why)
          \/ Closing(c) /\ ctl'[c] = CallerAbandoned(Rejected(ctl[c], why))
  \/ /\ IsOpen(ctl[c]) /\ c \in cur /\ dpc = "holding" /\ dpc' = "effect"
     /\ \/ ctl'[c] = Rejected(ctl[c], "AuthorizationExpired")
        \/ \E kind \in {"HideReady", "StartAndShow"} : ctl'[c] = Committed(ctl[c], kind)
  \/ /\ IsAuthorized(ctl[c]) /\ dpc # "effect"
     /\ \E ok \in BOOLEAN : ctl'[c] = Finalized(ctl[c], ok)
  \/ /\ ~Answered(ctl[c]) /\ dpc = "recovering" /\ c \in todo
     /\ ctl'[c] = GenerationEnded(ctl[c])

\* Every step writes every record in one of these ways.
LEMMA StepWrites ==
  ASSUME TypeOK, [Next]_vars
  PROVE  ctl' = [c \in Clients |-> ctl'[c]] /\ \A c \in Clients : Written(c)
<1> DEFINE Goal == ctl' = [c \in Clients |-> ctl'[c]] /\ \A c \in Clients : Written(c)
<1> USE DEF Written, TypeOK, treeVars, clientVars, daemonVars, NoEffectReasons, Reasons, Exit,
        Closing, LeaseFree, Publishing, Owning, Present
<1>1. ASSUME NEW c \in Clients, Begin(c) PROVE Goal
  BY <1>1 DEF Begin
<1>2. ASSUME NEW c \in Clients, Stage(c) PROVE Goal
  BY <1>2 DEF Stage
<1>3. ASSUME NEW c \in Clients, MakeVisible(c) PROVE Goal
  BY <1>3 DEF MakeVisible
<1>4. ASSUME NEW c \in Clients, WriteReference(c) PROVE Goal
  BY <1>4 DEF WriteReference
<1>5. ASSUME NEW c \in Clients, FinishPublication(c) PROVE Goal
  BY <1>5 DEF FinishPublication
<1>6. ASSUME NEW c \in Clients, TakeResponse(c) PROVE Goal
  BY <1>6 DEF TakeResponse
<1>7. ASSUME NEW c \in Clients, GiveUp(c) PROVE Goal
  BY <1>7 DEF GiveUp
<1>8. ASSUME NEW c \in Clients, WaitTimesOut(c) PROVE Goal
  BY <1>8 DEF WaitTimesOut
<1>9. ASSUME NEW c \in Clients, FailPublication(c) PROVE Goal
  BY <1>9 DEF FailPublication
<1>10. ASSUME NEW c \in Clients, ClientCrash(c) PROVE Goal
  BY <1>10 DEF ClientCrash
<1>11. ASSUME NEW c \in Clients, Tick(c) PROVE Goal
  BY <1>11 DEF Tick
<1>12. CASE FinishRecovery
  BY <1>12 DEF FinishRecovery
<1>13. CASE LockWaitKillsDaemon
  BY <1>13 DEF LockWaitKillsDaemon
<1>14. CASE ScanQueue
  BY <1>14 DEF ScanQueue
<1>15. CASE QuarantineReference
  BY <1>15 DEF QuarantineReference
<1>16. CASE ScanControls
  BY <1>16 DEF ScanControls, AbandonedUnqueued
<1>17. CASE RemoveClaimedReference
  BY <1>17 DEF RemoveClaimedReference
<1>18. CASE SkipInBackoff
  BY <1>18 DEF SkipInBackoff, Outcome
<1>19. CASE BeginCollect
  BY <1>19 DEF BeginCollect
<1>20. CASE CollectTimesOut
  BY <1>20 DEF CollectTimesOut
<1>21. CASE EndCollect
  BY <1>21 DEF EndCollect
<1>22. CASE LoopTop
  BY <1>22 DEF LoopTop
<1>23. CASE Wake
  BY <1>23 DEF Wake
<1>24. ASSUME NEW c \in Clients, RecoverControl(c) PROVE Goal
  BY <1>24 DEF RecoverControl
<1>25. ASSUME NEW c \in Clients, RejectStaleReference(c) PROVE Goal
  BY <1>25 DEF RejectStaleReference
<1>26. ASSUME NEW c \in Clients, QuarantineDangling(c) PROVE Goal
  BY <1>26 DEF QuarantineDangling
<1>27. ASSUME NEW c \in Clients, ClaimTimesOut(c) PROVE Goal
  BY <1>27 DEF ClaimTimesOut
<1>28. ASSUME NEW c \in Clients, ClaimReference(c) PROVE Goal
  BY <1>28 DEF ClaimReference
<1>29. ASSUME NEW c \in Clients, DropDecidedReference(c) PROVE Goal
  BY <1>29 DEF DropDecidedReference
<1>30. ASSUME NEW c \in Clients, ClaimRefLess(c) PROVE Goal
  BY <1>30 DEF ClaimRefLess
<1>31. ASSUME NEW c \in Clients, RefLessDecided(c) PROVE Goal
  BY <1>31 DEF RefLessDecided
<1>32. ASSUME NEW c \in Clients, RejectConflict(c) PROVE Goal
  BY <1>32 DEF RejectConflict
<1>33. ASSUME NEW c \in Clients, Commit(c) PROVE Goal
  BY <1>33 DEF Commit
<1>34. ASSUME NEW c \in Clients, ClosedClaim(c) PROVE Goal
  BY <1>34 DEF ClosedClaim
<1>35. ASSUME NEW c \in Clients, Execute(c) PROVE Goal
  BY <1>35 DEF Execute, Outcome
<1>36. ASSUME NEW c \in Clients, Finalize(c) PROVE Goal
  BY <1>36 DEF Finalize
<1>37. ASSUME NEW c \in Clients, VisitControl(c) PROVE Goal
  BY <1>37 DEF VisitControl
<1>38. CASE OtherWake
  BY <1>38 DEF OtherWake
<1>39. CASE Start
  BY <1>39 DEF Start
<1>40. CASE DaemonCrash
  BY <1>40 DEF DaemonCrash
<1>41. CASE UNCHANGED vars
  BY <1>41 DEF vars
<1> QED
  BY <1>1, <1>2, <1>3, <1>4, <1>5, <1>6, <1>7, <1>8, <1>9, <1>10, <1>11, <1>12,
     <1>13, <1>14, <1>15, <1>16, <1>17, <1>18, <1>19, <1>20, <1>21, <1>22, <1>23,
     <1>24, <1>25, <1>26, <1>27, <1>28, <1>29, <1>30, <1>31, <1>32, <1>33, <1>34,
     <1>35, <1>36, <1>37, <1>38, <1>39, <1>40, <1>41
     DEF Next, ClientStep, ClientProgress, DaemonProgress

-----------------------------------------------------------------------------
(* Types and the consistency of records.                                   *)

\* Every record is one that write_control accepts.
RecordInv == \A c \in Clients : PlainRecord(ctl[c])

\* Every write turns a consistent record into a consistent record.
LEMMA WrittenPlain ==
  ASSUME NEW c \in Clients, TypeOK, RecordInv, Written(c)
  PROVE  PlainRecord(ctl'[c])
<1> USE NewControlValid, PublicationValid, AcknowledgedValid, DecidedValid, FinalizedValid,
        GenerationEndedValid
<1>1. Request[c] \in Requests /\ gen \in Nat
  BY ClientsAssumption DEF TypeOK, Requests
<1>2. PlainRecord(ctl[c])
  BY DEF RecordInv
<1>3. NoEffectReasons \cup {"AuthorizationExpired"} \subseteq Reasons
  BY DEF NoEffectReasons, Reasons
<1> QED
  BY <1>1, <1>2, <1>3 DEF Written, PlainKinds

\* Type correctness, given that of the records.
LEMMA TypeStep ==
  ASSUME TypeOK, [Next]_vars,
         ctl' = [c \in Clients |-> ctl'[c]], \A c \in Clients : PlainRecord(ctl'[c])
  PROVE  TypeOK'
<1> DEFINE Goal == TypeOK'
<1>c. ctl' \in [Clients -> Controls]
  BY DEF PlainRecord
<1>a. gen + 1 \in Nat /\ lastOrder + 1 \in Nat
  BY DEF TypeOK
<1>b. \A c \in Clients : effects[c] + 1 \in Nat
  <2> TAKE c \in Clients
  <2>1. effects[c] \in Nat
    BY DEF TypeOK
  <2> QED BY <2>1
<1>d. \A c \in Clients : clock[c] = 0 \/ clock[c] < 2 => clock[c] + 1 \in 0..2
  <2> TAKE c \in Clients
  <2>1. clock[c] \in {0, 1, 2}
    BY DEF TypeOK
  <2> QED BY <2>1
<1> USE <1>c DEF TypeOK, treeVars, clientVars, daemonVars, ClientPCs, Publishing,
        DaemonPCs, Down, Faults, Owning, Places, Exit
<1>1. ASSUME NEW c \in Clients, Begin(c) PROVE Goal
  BY <1>1 DEF Begin
<1>2. ASSUME NEW c \in Clients, Stage(c) PROVE Goal
  <2>1. order' \in [Clients -> Nat] /\ lastOrder' \in Nat
    BY <1>2, <1>a DEF Stage
  <2> QED
    BY <1>2, <2>1 DEF Stage
<1>3. ASSUME NEW c \in Clients, MakeVisible(c) PROVE Goal
  BY <1>3 DEF MakeVisible
<1>4. ASSUME NEW c \in Clients, WriteReference(c) PROVE Goal
  BY <1>4 DEF WriteReference
<1>5. ASSUME NEW c \in Clients, FinishPublication(c) PROVE Goal
  BY <1>5 DEF FinishPublication
<1>6. ASSUME NEW c \in Clients, TakeResponse(c) PROVE Goal
  <2>1. ctl[c].response \in Answers
    BY DEF Answers, Controls, Responses
  <2>2. answer' \in [Clients -> Answers]
    BY <1>6, <2>1 DEF TakeResponse
  <2> QED
    BY <1>6, <2>2 DEF TakeResponse
<1>7. ASSUME NEW c \in Clients, GiveUp(c) PROVE Goal
  BY <1>7 DEF GiveUp, Answers
<1>8. ASSUME NEW c \in Clients, WaitTimesOut(c) PROVE Goal
  BY <1>8 DEF WaitTimesOut, Answers
<1>9. ASSUME NEW c \in Clients, FailPublication(c) PROVE Goal
  BY <1>9 DEF FailPublication, Answers
<1>10. ASSUME NEW c \in Clients, ClientCrash(c) PROVE Goal
  BY <1>10 DEF ClientCrash
<1>11. ASSUME NEW c \in Clients, Tick(c) PROVE Goal
  <2>1. clock' \in [Clients -> 0..2]
    BY <1>11, <1>d DEF Tick
  <2> QED
    BY <1>11, <2>1 DEF Tick
<1>12. CASE FinishRecovery
  BY <1>12 DEF FinishRecovery
<1>13. CASE LockWaitKillsDaemon
  BY <1>13 DEF LockWaitKillsDaemon
<1>14. CASE ScanQueue
  BY <1>14 DEF ScanQueue
<1>15. CASE QuarantineReference
  BY <1>15 DEF QuarantineReference
<1>16. CASE ScanControls
  BY <1>16 DEF ScanControls, Earliest
<1>17. CASE RemoveClaimedReference
  BY <1>17 DEF RemoveClaimedReference
<1>18. CASE SkipInBackoff
  BY <1>18 DEF SkipInBackoff, Outcome
<1>19. CASE BeginCollect
  BY <1>19 DEF BeginCollect, Present
<1>20. CASE CollectTimesOut
  BY <1>20 DEF CollectTimesOut
<1>21. CASE EndCollect
  BY <1>21 DEF EndCollect
<1>22. CASE LoopTop
  BY <1>22 DEF LoopTop, SessionChoices, Visible
<1>23. CASE Wake
  BY <1>23 DEF Wake
<1>24. ASSUME NEW c \in Clients, RecoverControl(c) PROVE Goal
  BY <1>24 DEF RecoverControl
<1>25. ASSUME NEW c \in Clients, RejectStaleReference(c) PROVE Goal
  BY <1>25 DEF RejectStaleReference
<1>26. ASSUME NEW c \in Clients, QuarantineDangling(c) PROVE Goal
  BY <1>26 DEF QuarantineDangling, ClaimNothing
<1>27. ASSUME NEW c \in Clients, ClaimTimesOut(c) PROVE Goal
  BY <1>27 DEF ClaimTimesOut, ClaimNothing
<1>28. ASSUME NEW c \in Clients, ClaimReference(c) PROVE Goal
  BY <1>28 DEF ClaimReference
<1>29. ASSUME NEW c \in Clients, DropDecidedReference(c) PROVE Goal
  BY <1>29 DEF DropDecidedReference, ClaimNothing
<1>30. ASSUME NEW c \in Clients, ClaimRefLess(c) PROVE Goal
  BY <1>30 DEF ClaimRefLess
<1>31. ASSUME NEW c \in Clients, RefLessDecided(c) PROVE Goal
  BY <1>31 DEF RefLessDecided, ClaimNothing
<1>32. ASSUME NEW c \in Clients, RejectConflict(c) PROVE Goal
  BY <1>32 DEF RejectConflict
<1>33. ASSUME NEW c \in Clients, Commit(c) PROVE Goal
  BY <1>33 DEF Commit
<1>34. ASSUME NEW c \in Clients, ClosedClaim(c) PROVE Goal
  BY <1>34 DEF ClosedClaim
<1>35. ASSUME NEW c \in Clients, Execute(c) PROVE Goal
  <2>1. effects' \in [Clients -> Nat]
    BY <1>35, <1>b DEF Execute
  <2>2. Request[c].session_file \in SessionChoices
    BY ClientsAssumption
  <2>3. overlay' \in {"Hidden", "BackingOff"} \cup SessionChoices /\ dpc' \in DaemonPCs
    BY <1>35, <2>2 DEF Execute, Outcome, Visible
  <2> QED
    BY <1>35, <2>1, <2>3 DEF Execute, Outcome
<1>36. ASSUME NEW c \in Clients, Finalize(c) PROVE Goal
  BY <1>36 DEF Finalize
<1>37. ASSUME NEW c \in Clients, VisitControl(c) PROVE Goal
  BY <1>37 DEF VisitControl
<1>38. CASE OtherWake
  BY <1>38 DEF OtherWake
<1>39. CASE Start
  <2>1. place' \in [Clients -> Places] /\ gen' \in Nat
    BY <1>39, <1>a DEF Start
  <2> QED
    BY <1>39, <2>1 DEF Start, Present
<1>40. CASE DaemonCrash
  BY <1>40 DEF DaemonCrash
<1>41. CASE UNCHANGED vars
  BY <1>41 DEF vars
<1> QED
  BY <1>1, <1>2, <1>3, <1>4, <1>5, <1>6, <1>7, <1>8, <1>9, <1>10, <1>11, <1>12,
     <1>13, <1>14, <1>15, <1>16, <1>17, <1>18, <1>19, <1>20, <1>21, <1>22, <1>23,
     <1>24, <1>25, <1>26, <1>27, <1>28, <1>29, <1>30, <1>31, <1>32, <1>33, <1>34,
     <1>35, <1>36, <1>37, <1>38, <1>39, <1>40, <1>41
     DEF Next, ClientStep, ClientProgress, DaemonProgress

-----------------------------------------------------------------------------
(* Admission: before its reference exists a command is out of reach.       *)

\* c is not admitted yet, or was told for certain that it never will be.
NotAdmitted(c) ==
  cpc[c] \in {"idle", "admitting", "staged", "visible"} \/ answer[c] = "PublishFailed"

\* Nobody decided to run it.
Withdrawable(r) ==
  IsOpen(r) \/ (r.decision = "Rejected" /\ r.reason # "AuthorizationExpired")

AdmissionInv ==
  \A c \in Clients :
    /\ answer[c] # "None" => cpc[c] = "gone"
    /\ cpc[c] \in {"idle", "admitting"} => place[c] = "none" /\ c \notin todo
    /\ NotAdmitted(c) =>
         /\ c \notin queue \cup snapshot \cup cur
         /\ ctl[c].publication_state = "VisibleUnqueued" /\ Withdrawable(ctl[c])

AdmissionKept(c) ==
    /\ answer'[c] # "None" => cpc'[c] = "gone"
    /\ cpc'[c] \in {"idle", "admitting"} => place'[c] = "none" /\ c \notin todo'
    /\ NotAdmitted(c)' => NotAdmitted(c) /\ c \notin queue' \cup snapshot' \cup cur'

\* What a step does to admission, beside the records.
LEMMA StepAdmission ==
  ASSUME TypeOK, AdmissionInv, [Next]_vars
  PROVE  \A c \in Clients : AdmissionKept(c)
<1> DEFINE Goal == \A c \in Clients : AdmissionKept(c)
<1> USE DEF TypeOK, AdmissionInv, AdmissionKept, NotAdmitted, treeVars, clientVars, daemonVars, Exit,
        Publishing
<1>1. ASSUME NEW c \in Clients, Begin(c) PROVE Goal
  BY <1>1 DEF Begin
<1>2. ASSUME NEW c \in Clients, Stage(c) PROVE Goal
  BY <1>2 DEF Stage
<1>3. ASSUME NEW c \in Clients, MakeVisible(c) PROVE Goal
  BY <1>3 DEF MakeVisible
<1>4. ASSUME NEW c \in Clients, WriteReference(c) PROVE Goal
  BY <1>4 DEF WriteReference
<1>5. ASSUME NEW c \in Clients, FinishPublication(c) PROVE Goal
  BY <1>5 DEF FinishPublication
<1>6. ASSUME NEW c \in Clients, TakeResponse(c) PROVE Goal
  <2>1. ctl[c].response # "PublishFailed"
    BY DEF Controls, Responses
  <2> QED
    BY <1>6, <2>1 DEF TakeResponse
<1>7. ASSUME NEW c \in Clients, GiveUp(c) PROVE Goal
  BY <1>7 DEF GiveUp
<1>8. ASSUME NEW c \in Clients, WaitTimesOut(c) PROVE Goal
  BY <1>8 DEF WaitTimesOut
<1>9. ASSUME NEW c \in Clients, FailPublication(c) PROVE Goal
  BY <1>9 DEF FailPublication
<1>10. ASSUME NEW c \in Clients, ClientCrash(c) PROVE Goal
  BY <1>10 DEF ClientCrash
<1>11. ASSUME NEW c \in Clients, Tick(c) PROVE Goal
  BY <1>11 DEF Tick
<1>12. CASE FinishRecovery
  BY <1>12 DEF FinishRecovery
<1>13. CASE LockWaitKillsDaemon
  BY <1>13 DEF LockWaitKillsDaemon
<1>14. CASE ScanQueue
  BY <1>14 DEF ScanQueue
<1>15. CASE QuarantineReference
  BY <1>15 DEF QuarantineReference
<1>16. CASE ScanControls
  BY <1>16 DEF ScanControls, Earliest, RefLess, Present
<1>17. CASE RemoveClaimedReference
  BY <1>17 DEF RemoveClaimedReference
<1>18. CASE SkipInBackoff
  BY <1>18 DEF SkipInBackoff, Outcome
<1>19. CASE BeginCollect
  BY <1>19 DEF BeginCollect, Present
<1>20. CASE CollectTimesOut
  BY <1>20 DEF CollectTimesOut
<1>21. CASE EndCollect
  BY <1>21 DEF EndCollect
<1>22. CASE LoopTop
  BY <1>22 DEF LoopTop
<1>23. CASE Wake
  BY <1>23 DEF Wake
<1>24. ASSUME NEW c \in Clients, RecoverControl(c) PROVE Goal
  BY <1>24 DEF RecoverControl
<1>25. ASSUME NEW c \in Clients, RejectStaleReference(c) PROVE Goal
  BY <1>25 DEF RejectStaleReference
<1>26. ASSUME NEW c \in Clients, QuarantineDangling(c) PROVE Goal
  BY <1>26 DEF QuarantineDangling, ClaimNothing
<1>27. ASSUME NEW c \in Clients, ClaimTimesOut(c) PROVE Goal
  BY <1>27 DEF ClaimTimesOut, ClaimNothing
<1>28. ASSUME NEW c \in Clients, ClaimReference(c) PROVE Goal
  BY <1>28 DEF ClaimReference
<1>29. ASSUME NEW c \in Clients, DropDecidedReference(c) PROVE Goal
  BY <1>29 DEF DropDecidedReference, ClaimNothing
<1>30. ASSUME NEW c \in Clients, ClaimRefLess(c) PROVE Goal
  BY <1>30 DEF ClaimRefLess
<1>31. ASSUME NEW c \in Clients, RefLessDecided(c) PROVE Goal
  BY <1>31 DEF RefLessDecided, ClaimNothing
<1>32. ASSUME NEW c \in Clients, RejectConflict(c) PROVE Goal
  BY <1>32 DEF RejectConflict
<1>33. ASSUME NEW c \in Clients, Commit(c) PROVE Goal
  BY <1>33 DEF Commit
<1>34. ASSUME NEW c \in Clients, ClosedClaim(c) PROVE Goal
  BY <1>34 DEF ClosedClaim
<1>35. ASSUME NEW c \in Clients, Execute(c) PROVE Goal
  BY <1>35 DEF Execute, Outcome
<1>36. ASSUME NEW c \in Clients, Finalize(c) PROVE Goal
  BY <1>36 DEF Finalize
<1>37. ASSUME NEW c \in Clients, VisitControl(c) PROVE Goal
  BY <1>37 DEF VisitControl
<1>38. CASE OtherWake
  BY <1>38 DEF OtherWake
<1>39. CASE Start
  BY <1>39 DEF Start, Present
<1>40. CASE DaemonCrash
  BY <1>40 DEF DaemonCrash
<1>41. CASE UNCHANGED vars
  BY <1>41 DEF vars
<1> QED
  BY <1>1, <1>2, <1>3, <1>4, <1>5, <1>6, <1>7, <1>8, <1>9, <1>10, <1>11, <1>12,
     <1>13, <1>14, <1>15, <1>16, <1>17, <1>18, <1>19, <1>20, <1>21, <1>22, <1>23,
     <1>24, <1>25, <1>26, <1>27, <1>28, <1>29, <1>30, <1>31, <1>32, <1>33, <1>34,
     <1>35, <1>36, <1>37, <1>38, <1>39, <1>40, <1>41
     DEF Next, ClientStep, ClientProgress, DaemonProgress

\* Admission is an invariant: no write moves the publication state of such a command.
LEMMA AdmissionStep ==
  ASSUME TypeOK, RecordInv, AdmissionInv, [Next]_vars, \A c \in Clients : Written(c)
  PROVE  AdmissionInv'
<1> SUFFICES ASSUME NEW c \in Clients, NotAdmitted(c)'
             PROVE  ctl'[c].publication_state = "VisibleUnqueued" /\ Withdrawable(ctl'[c])
  BY StepAdmission DEF AdmissionInv, AdmissionKept
<1>1. /\ NotAdmitted(c) /\ cpc[c] \notin {"referenced", "waiting"} /\ c \notin cur /\ c \notin snapshot
      /\ ctl[c].publication_state = "VisibleUnqueued" /\ Withdrawable(ctl[c])
  BY StepAdmission DEF AdmissionKept, AdmissionInv, NotAdmitted
<1>2. ctl[c] \in Controls
  BY DEF RecordInv, PlainRecord
<1>3. ctl'[c].publication_state = "VisibleUnqueued"
  <2>1. ASSUME NEW why, ctl'[c] = Rejected(ctl[c], why)
                          \/ ctl'[c] = CallerAbandoned(Rejected(ctl[c], why))
        PROVE  ctl'[c].publication_state = "VisibleUnqueued"
    BY <1>1, <1>2, <2>1, PublicationKept
  <2>2. ASSUME NEW kind, ctl'[c] = Committed(ctl[c], kind)
        PROVE  ctl'[c].publication_state = "VisibleUnqueued"
    BY <1>1, <1>2, <2>2, PublicationKept
  <2>3. ASSUME NEW ok, ctl'[c] = Finalized(ctl[c], ok)
        PROVE  ctl'[c].publication_state = "VisibleUnqueued"
    BY <1>1, <1>2, <2>3, PublicationKept
  <2>4. \/ ctl'[c] \in {ctl[c], NewControl(Request[c], gen), Acknowledged(ctl[c]),
                       CallerAbandoned(ctl[c]), Canceled(ctl[c]), GenerationEnded(ctl[c])}
        \/ \E why : \/ ctl'[c] = Rejected(ctl[c], why)
                    \/ ctl'[c] = CallerAbandoned(Rejected(ctl[c], why))
        \/ \E kind : ctl'[c] = Committed(ctl[c], kind)
        \/ \E ok : ctl'[c] = Finalized(ctl[c], ok)
    BY <1>1 DEF Written
  <2> QED
    BY <1>1, <1>2, <2>1, <2>2, <2>3, <2>4, PublicationKept DEF NewControl
<1>4. Withdrawable(ctl'[c])
  <2>1. ~IsAuthorized(ctl[c]) /\ (IsOpen(ctl[c]) \/ Answered(ctl[c]))
    BY <1>1 DEF Withdrawable, IsOpen, IsAuthorized, Answered, RecordInv, PlainRecord, Validate,
                DecisionMatchesResponse
  <2>2. \/ ctl'[c] \in {ctl[c], NewControl(Request[c], gen), Acknowledged(ctl[c]),
                       CallerAbandoned(ctl[c])}
        \/ IsOpen(ctl[c]) /\ ctl'[c] = GenerationEnded(ctl[c])
        \/ \E why \in NoEffectReasons : \/ ctl'[c] = Rejected(ctl[c], why)
                                       \/ ctl'[c] = CallerAbandoned(Rejected(ctl[c], why))
    BY <1>1, <2>1 DEF Written
  <2>3. ASSUME NEW why \in NoEffectReasons
        PROVE  /\ Withdrawable(Rejected(ctl[c], why))
               /\ Withdrawable(CallerAbandoned(Rejected(ctl[c], why)))
    BY <1>2 DEF Withdrawable, Rejected, CallerAbandoned, Controls, NoEffectReasons
  <2>4. IsOpen(ctl[c]) => Withdrawable(GenerationEnded(ctl[c]))
    BY <1>2 DEF Withdrawable, GenerationEnded, Rejected, Controls
  <2> QED
    BY <1>1, <1>2, <2>2, <2>3, <2>4, DecisionKept
    DEF Withdrawable, SameDecision, NewControl, IsOpen
<1> QED
  BY <1>3, <1>4

-----------------------------------------------------------------------------
(* The caller lease.                                                       *)

LeaseInv ==
  \A c \in Clients :
    /\ cpc[c] = "idle" => IsOpen(ctl[c])
    /\ cpc[c] \in {"idle", "admitting", "waiting"} \cup Publishing
         => ctl[c].caller_disposition = "Waiting"
    /\ cpc[c] \in {"visible", "referenced", "waiting"} => place[c] = "controls"

LeaseKept(c) ==
    /\ cpc'[c] = "idle" => cpc[c] = "idle"
    /\ cpc'[c] \in {"idle", "admitting", "waiting"} \cup Publishing
         => cpc[c] \in {"idle", "admitting", "waiting"} \cup Publishing
    /\ cpc'[c] \in {"idle", "admitting"} => cpc[c] \in {"idle", "admitting"}
    /\ cpc'[c] \in {"visible", "referenced", "waiting"} => place'[c] = "controls"

\* What a step does to a caller and its directory.
LEMMA StepLease ==
  ASSUME TypeOK, LeaseInv, [Next]_vars
  PROVE  \A c \in Clients : LeaseKept(c)
<1> DEFINE Goal == \A c \in Clients : LeaseKept(c)
<1> USE DEF TypeOK, LeaseInv, LeaseKept, treeVars, clientVars, daemonVars, Exit, Publishing
<1>1. ASSUME NEW c \in Clients, Begin(c) PROVE Goal
  BY <1>1 DEF Begin
<1>2. ASSUME NEW c \in Clients, Stage(c) PROVE Goal
  BY <1>2 DEF Stage
<1>3. ASSUME NEW c \in Clients, MakeVisible(c) PROVE Goal
  BY <1>3 DEF MakeVisible
<1>4. ASSUME NEW c \in Clients, WriteReference(c) PROVE Goal
  BY <1>4 DEF WriteReference
<1>5. ASSUME NEW c \in Clients, FinishPublication(c) PROVE Goal
  BY <1>5 DEF FinishPublication
<1>6. ASSUME NEW c \in Clients, TakeResponse(c) PROVE Goal
  BY <1>6 DEF TakeResponse
<1>7. ASSUME NEW c \in Clients, GiveUp(c) PROVE Goal
  BY <1>7 DEF GiveUp
<1>8. ASSUME NEW c \in Clients, WaitTimesOut(c) PROVE Goal
  BY <1>8 DEF WaitTimesOut
<1>9. ASSUME NEW c \in Clients, FailPublication(c) PROVE Goal
  BY <1>9 DEF FailPublication
<1>10. ASSUME NEW c \in Clients, ClientCrash(c) PROVE Goal
  BY <1>10 DEF ClientCrash
<1>11. ASSUME NEW c \in Clients, Tick(c) PROVE Goal
  BY <1>11 DEF Tick
<1>12. CASE FinishRecovery
  BY <1>12 DEF FinishRecovery
<1>13. CASE LockWaitKillsDaemon
  BY <1>13 DEF LockWaitKillsDaemon
<1>14. CASE ScanQueue
  BY <1>14 DEF ScanQueue
<1>15. CASE QuarantineReference
  BY <1>15 DEF QuarantineReference
<1>16. CASE ScanControls
  BY <1>16 DEF ScanControls, Earliest, RefLess, Present
<1>17. CASE RemoveClaimedReference
  BY <1>17 DEF RemoveClaimedReference
<1>18. CASE SkipInBackoff
  BY <1>18 DEF SkipInBackoff, Outcome
<1>19. CASE BeginCollect
  BY <1>19 DEF BeginCollect, Present
<1>20. CASE CollectTimesOut
  BY <1>20 DEF CollectTimesOut
<1>21. CASE EndCollect
  BY <1>21 DEF EndCollect
<1>22. CASE LoopTop
  BY <1>22 DEF LoopTop
<1>23. CASE Wake
  BY <1>23 DEF Wake
<1>24. ASSUME NEW c \in Clients, RecoverControl(c) PROVE Goal
  BY <1>24 DEF RecoverControl
<1>25. ASSUME NEW c \in Clients, RejectStaleReference(c) PROVE Goal
  BY <1>25 DEF RejectStaleReference
<1>26. ASSUME NEW c \in Clients, QuarantineDangling(c) PROVE Goal
  BY <1>26 DEF QuarantineDangling, ClaimNothing
<1>27. ASSUME NEW c \in Clients, ClaimTimesOut(c) PROVE Goal
  BY <1>27 DEF ClaimTimesOut, ClaimNothing
<1>28. ASSUME NEW c \in Clients, ClaimReference(c) PROVE Goal
  BY <1>28 DEF ClaimReference
<1>29. ASSUME NEW c \in Clients, DropDecidedReference(c) PROVE Goal
  BY <1>29 DEF DropDecidedReference, ClaimNothing
<1>30. ASSUME NEW c \in Clients, ClaimRefLess(c) PROVE Goal
  BY <1>30 DEF ClaimRefLess
<1>31. ASSUME NEW c \in Clients, RefLessDecided(c) PROVE Goal
  BY <1>31 DEF RefLessDecided, ClaimNothing
<1>32. ASSUME NEW c \in Clients, RejectConflict(c) PROVE Goal
  BY <1>32 DEF RejectConflict
<1>33. ASSUME NEW c \in Clients, Commit(c) PROVE Goal
  BY <1>33 DEF Commit
<1>34. ASSUME NEW c \in Clients, ClosedClaim(c) PROVE Goal
  BY <1>34 DEF ClosedClaim
<1>35. ASSUME NEW c \in Clients, Execute(c) PROVE Goal
  BY <1>35 DEF Execute, Outcome
<1>36. ASSUME NEW c \in Clients, Finalize(c) PROVE Goal
  BY <1>36 DEF Finalize
<1>37. ASSUME NEW c \in Clients, VisitControl(c) PROVE Goal
  BY <1>37 DEF VisitControl, LeaseFree
<1>38. CASE OtherWake
  BY <1>38 DEF OtherWake
<1>39. CASE Start
  BY <1>39 DEF Start, AdmissionFree, CallerHolds
<1>40. CASE DaemonCrash
  BY <1>40 DEF DaemonCrash
<1>41. CASE UNCHANGED vars
  BY <1>41 DEF vars
<1> QED
  BY <1>1, <1>2, <1>3, <1>4, <1>5, <1>6, <1>7, <1>8, <1>9, <1>10, <1>11, <1>12,
     <1>13, <1>14, <1>15, <1>16, <1>17, <1>18, <1>19, <1>20, <1>21, <1>22, <1>23,
     <1>24, <1>25, <1>26, <1>27, <1>28, <1>29, <1>30, <1>31, <1>32, <1>33, <1>34,
     <1>35, <1>36, <1>37, <1>38, <1>39, <1>40, <1>41
     DEF Next, ClientStep, ClientProgress, DaemonProgress

\* The disposition of a live caller stays Waiting.
LEMMA LeaseStep ==
  ASSUME TypeOK, RecordInv, AdmissionInv, LeaseInv, [Next]_vars, \A c \in Clients : Written(c)
  PROVE  LeaseInv'
<1> SUFFICES ASSUME NEW c \in Clients,
                    cpc'[c] \in {"idle", "admitting", "waiting"} \cup Publishing
             PROVE  /\ cpc'[c] = "idle" => IsOpen(ctl'[c])
                    /\ ctl'[c].caller_disposition = "Waiting"
  BY StepLease DEF LeaseInv, LeaseKept
<1>1. LeaseKept(c) /\ ctl[c].caller_disposition = "Waiting"
  BY StepLease DEF LeaseKept, LeaseInv
<1>2. ctl[c] \in Controls
  BY DEF RecordInv, PlainRecord
<1>3. ~Closing(c)
  <2>1. CASE cpc'[c] \in {"waiting"} \cup Publishing
    BY <2>1 DEF Closing, LeaseFree, Publishing
  <2>2. CASE cpc'[c] \in {"idle", "admitting"}
    BY <1>1, <2>2 DEF Closing, LeaseKept, AdmissionInv
  <2> QED
    BY <2>1, <2>2
<1>4. ctl'[c].caller_disposition = "Waiting"
  <2>1. ASSUME NEW why, ctl'[c] = Rejected(ctl[c], why)
        PROVE  ctl'[c].caller_disposition = "Waiting"
    BY <1>1, <1>2, <2>1, DispositionKept
  <2>2. ASSUME NEW kind, ctl'[c] = Committed(ctl[c], kind)
        PROVE  ctl'[c].caller_disposition = "Waiting"
    BY <1>1, <1>2, <2>2, DispositionKept
  <2>3. ASSUME NEW ok, ctl'[c] = Finalized(ctl[c], ok)
        PROVE  ctl'[c].caller_disposition = "Waiting"
    BY <1>1, <1>2, <2>3, DispositionKept
  <2>4. \/ ctl'[c] \in {ctl[c], NewControl(Request[c], gen), Queued(ctl[c]), Claimed(ctl[c]),
                       GenerationEnded(ctl[c])}
        \/ \E why : ctl'[c] = Rejected(ctl[c], why)
        \/ \E kind : ctl'[c] = Committed(ctl[c], kind)
        \/ \E ok : ctl'[c] = Finalized(ctl[c], ok)
    BY <1>3 DEF Written
  <2> QED
    BY <1>1, <1>2, <2>1, <2>2, <2>3, <2>4, DispositionKept DEF NewControl
<1>5. ASSUME cpc'[c] = "idle" PROVE IsOpen(ctl'[c])
  <2>1. /\ cpc[c] = "idle" /\ IsOpen(ctl[c]) /\ place[c] = "none"
        /\ c \notin todo \cup snapshot \cup cur
    BY <1>1, <1>5 DEF LeaseKept, LeaseInv, AdmissionInv, NotAdmitted
  <2> QED
    <3>1. ctl'[c] = ctl[c] \/ ctl'[c] = NewControl(Request[c], gen)
      BY <1>3, <2>1 DEF Written, IsOpen, IsAuthorized
    <3> QED
      BY <2>1, <3>1 DEF IsOpen, NewControl
<1> QED
  BY <1>4, <1>5

-----------------------------------------------------------------------------
(* Queue orders are unique, so the daemon has at most one command at hand. *)

OrderInv ==
  /\ \A c \in Clients : order[c] <= lastOrder
  /\ \A c \in Clients :
       cpc[c] \in Publishing \/ place[c] # "none" \/ c \in queue \cup snapshot \cup todo => order[c] >= 1
  /\ \A c, d \in Clients : c # d /\ order[c] = order[d] => order[c] = 0

\* allocate_order never gives an order twice.
LEMMA OrderStep ==
  ASSUME TypeOK, OrderInv, [Next]_vars
  PROVE  OrderInv'
<1> DEFINE Goal == OrderInv'
<1>a. /\ lastOrder \in Nat
      /\ \A c \in Clients : order[c] \in Nat
  BY DEF TypeOK
<1> USE DEF OrderInv, treeVars, clientVars, daemonVars, Exit, Publishing, ClaimNothing, Outcome
<1>1. ASSUME NEW c \in Clients, Begin(c) PROVE Goal
  BY <1>1 DEF Begin, TypeOK
<1>2. ASSUME NEW c \in Clients, Stage(c) PROVE Goal
  <2>1. /\ lastOrder' = lastOrder + 1 /\ order'[c] = lastOrder + 1
        /\ \A d \in Clients \ {c} : order'[d] = order[d]
    BY <1>2 DEF Stage, TypeOK
  <2>2. \A d \in Clients : order[d] < lastOrder + 1
    BY <1>a
  <2>3. \A d \in Clients : order'[d] <= lastOrder'
    BY <1>a, <2>1
  <2>4. \A d, e \in Clients : d # e /\ order'[d] = order'[e] => order'[d] = 0
    BY <1>a, <2>1, <2>2
  <2>5. \A d \in Clients :
          cpc'[d] \in Publishing \/ place'[d] # "none" \/ d \in queue' \cup snapshot' \cup todo'
            => order'[d] >= 1
    BY <1>2, <1>a, <2>1 DEF Stage, TypeOK
  <2> QED
    BY <2>3, <2>4, <2>5
<1>3. ASSUME NEW c \in Clients, MakeVisible(c) PROVE Goal
  BY <1>3 DEF MakeVisible, TypeOK
<1>4. ASSUME NEW c \in Clients, WriteReference(c) PROVE Goal
  BY <1>4 DEF WriteReference, TypeOK
<1>5. ASSUME NEW c \in Clients, FinishPublication(c) PROVE Goal
  BY <1>5 DEF FinishPublication, TypeOK
<1>6. ASSUME NEW c \in Clients, TakeResponse(c) PROVE Goal
  BY <1>6 DEF TakeResponse, TypeOK
<1>7. ASSUME NEW c \in Clients, GiveUp(c) PROVE Goal
  BY <1>7 DEF GiveUp, TypeOK
<1>8. ASSUME NEW c \in Clients, WaitTimesOut(c) PROVE Goal
  BY <1>8 DEF WaitTimesOut, TypeOK
<1>9. ASSUME NEW c \in Clients, FailPublication(c) PROVE Goal
  BY <1>9 DEF FailPublication, TypeOK
<1>10. ASSUME NEW c \in Clients, ClientCrash(c) PROVE Goal
  BY <1>10 DEF ClientCrash, TypeOK
<1>11. ASSUME NEW c \in Clients, Tick(c) PROVE Goal
  BY <1>11 DEF Tick
<1>12. CASE FinishRecovery
  BY <1>12 DEF FinishRecovery
<1>13. CASE LockWaitKillsDaemon
  BY <1>13 DEF LockWaitKillsDaemon
<1>14. CASE ScanQueue
  BY <1>14 DEF ScanQueue
<1>15. CASE QuarantineReference
  BY <1>15 DEF QuarantineReference
<1>16. CASE ScanControls
  BY <1>16 DEF ScanControls
<1>17. CASE RemoveClaimedReference
  BY <1>17 DEF RemoveClaimedReference
<1>18. CASE SkipInBackoff
  BY <1>18 DEF SkipInBackoff
<1>19. CASE BeginCollect
  BY <1>19 DEF BeginCollect, Present
<1>20. CASE CollectTimesOut
  BY <1>20 DEF CollectTimesOut
<1>21. CASE EndCollect
  BY <1>21 DEF EndCollect
<1>22. CASE LoopTop
  BY <1>22 DEF LoopTop
<1>23. CASE Wake
  BY <1>23 DEF Wake
<1>24. ASSUME NEW c \in Clients, RecoverControl(c) PROVE Goal
  BY <1>24 DEF RecoverControl
<1>25. ASSUME NEW c \in Clients, RejectStaleReference(c) PROVE Goal
  BY <1>25 DEF RejectStaleReference, TypeOK
<1>26. ASSUME NEW c \in Clients, QuarantineDangling(c) PROVE Goal
  BY <1>26 DEF QuarantineDangling, TypeOK
<1>27. ASSUME NEW c \in Clients, ClaimTimesOut(c) PROVE Goal
  BY <1>27 DEF ClaimTimesOut
<1>28. ASSUME NEW c \in Clients, ClaimReference(c) PROVE Goal
  BY <1>28 DEF ClaimReference
<1>29. ASSUME NEW c \in Clients, DropDecidedReference(c) PROVE Goal
  BY <1>29 DEF DropDecidedReference
<1>30. ASSUME NEW c \in Clients, ClaimRefLess(c) PROVE Goal
  BY <1>30 DEF ClaimRefLess
<1>31. ASSUME NEW c \in Clients, RefLessDecided(c) PROVE Goal
  BY <1>31 DEF RefLessDecided
<1>32. ASSUME NEW c \in Clients, RejectConflict(c) PROVE Goal
  BY <1>32 DEF RejectConflict
<1>33. ASSUME NEW c \in Clients, Commit(c) PROVE Goal
  BY <1>33 DEF Commit
<1>34. ASSUME NEW c \in Clients, ClosedClaim(c) PROVE Goal
  BY <1>34 DEF ClosedClaim
<1>35. ASSUME NEW c \in Clients, Execute(c) PROVE Goal
  BY <1>35 DEF Execute
<1>36. ASSUME NEW c \in Clients, Finalize(c) PROVE Goal
  BY <1>36 DEF Finalize
<1>37. ASSUME NEW c \in Clients, VisitControl(c) PROVE Goal
  BY <1>37 DEF VisitControl, TypeOK
<1>38. CASE OtherWake
  BY <1>38 DEF OtherWake
<1>39. CASE Start
  BY <1>39 DEF Start, Present
<1>40. CASE DaemonCrash
  BY <1>40 DEF DaemonCrash
<1>41. CASE UNCHANGED vars
  BY <1>41 DEF vars
<1> QED
  BY <1>1, <1>2, <1>3, <1>4, <1>5, <1>6, <1>7, <1>8, <1>9, <1>10, <1>11, <1>12,
     <1>13, <1>14, <1>15, <1>16, <1>17, <1>18, <1>19, <1>20, <1>21, <1>22, <1>23,
     <1>24, <1>25, <1>26, <1>27, <1>28, <1>29, <1>30, <1>31, <1>32, <1>33, <1>34,
     <1>35, <1>36, <1>37, <1>38, <1>39, <1>40, <1>41
     DEF Next, ClientStep, ClientProgress, DaemonProgress

CurInv == \A c, d \in cur : c = d

\* The earliest of a set of enqueued commands is one command.
LEMMA EarliestUnique ==
  ASSUME TypeOK, OrderInv, NEW S, S \subseteq Clients, \A c \in S : order[c] >= 1
  PROVE  \A c, d \in Earliest(S) : c = d
<1> SUFFICES ASSUME NEW c \in Earliest(S), NEW d \in Earliest(S) PROVE c = d
  OBVIOUS
<1>1. order[c] \in Nat /\ order[d] \in Nat /\ c \in S /\ d \in S
  BY DEF TypeOK, Earliest
<1>2. order[c] <= order[d] /\ order[d] <= order[c]
  BY DEF Earliest
<1>3. order[c] = order[d] /\ order[c] # 0
  BY <1>1, <1>2
<1> QED
  BY <1>1, <1>3 DEF OrderInv

\* Whatever the daemon has at hand is one command.
LEMMA CurStep ==
  ASSUME TypeOK, OrderInv, CurInv, [Next]_vars
  PROVE  CurInv'
<1> DEFINE Goal == CurInv'
<1> USE DEF CurInv, treeVars, clientVars, daemonVars, Exit, ClaimNothing, Outcome
<1>1. ASSUME NEW c \in Clients, Begin(c) PROVE Goal
  BY <1>1 DEF Begin
<1>2. ASSUME NEW c \in Clients, Stage(c) PROVE Goal
  BY <1>2 DEF Stage
<1>3. ASSUME NEW c \in Clients, MakeVisible(c) PROVE Goal
  BY <1>3 DEF MakeVisible
<1>4. ASSUME NEW c \in Clients, WriteReference(c) PROVE Goal
  BY <1>4 DEF WriteReference
<1>5. ASSUME NEW c \in Clients, FinishPublication(c) PROVE Goal
  BY <1>5 DEF FinishPublication
<1>6. ASSUME NEW c \in Clients, TakeResponse(c) PROVE Goal
  BY <1>6 DEF TakeResponse
<1>7. ASSUME NEW c \in Clients, GiveUp(c) PROVE Goal
  BY <1>7 DEF GiveUp
<1>8. ASSUME NEW c \in Clients, WaitTimesOut(c) PROVE Goal
  BY <1>8 DEF WaitTimesOut
<1>9. ASSUME NEW c \in Clients, FailPublication(c) PROVE Goal
  BY <1>9 DEF FailPublication
<1>10. ASSUME NEW c \in Clients, ClientCrash(c) PROVE Goal
  BY <1>10 DEF ClientCrash
<1>11. ASSUME NEW c \in Clients, Tick(c) PROVE Goal
  BY <1>11 DEF Tick
<1>12. CASE FinishRecovery
  BY <1>12 DEF FinishRecovery
<1>13. CASE LockWaitKillsDaemon
  BY <1>13 DEF LockWaitKillsDaemon
<1>14. CASE ScanQueue
  BY <1>14 DEF ScanQueue
<1>15. CASE QuarantineReference
  BY <1>15 DEF QuarantineReference
<1>16. CASE ScanControls
  <2> DEFINE R == {c \in Clients : RefLess(c)}
  <2>1. cur' \in {Earliest(R), Earliest(snapshot)}
    BY <1>16 DEF ScanControls
  <2>2. \A c, d \in Earliest(R) : c = d
    <3>1. R \subseteq Clients /\ \A c \in R : order[c] >= 1
      BY DEF OrderInv, RefLess, Present
    <3> QED
      BY <3>1, EarliestUnique
  <2>3. \A c, d \in Earliest(snapshot) : c = d
    <3>1. snapshot \subseteq Clients /\ \A c \in snapshot : order[c] >= 1
      BY DEF OrderInv, TypeOK
    <3> QED
      BY <3>1, EarliestUnique
  <2> QED
    BY <2>1, <2>2, <2>3
<1>17. CASE RemoveClaimedReference
  BY <1>17 DEF RemoveClaimedReference
<1>18. CASE SkipInBackoff
  BY <1>18 DEF SkipInBackoff
<1>19. CASE BeginCollect
  BY <1>19 DEF BeginCollect
<1>20. CASE CollectTimesOut
  BY <1>20 DEF CollectTimesOut
<1>21. CASE EndCollect
  BY <1>21 DEF EndCollect
<1>22. CASE LoopTop
  BY <1>22 DEF LoopTop
<1>23. CASE Wake
  BY <1>23 DEF Wake
<1>24. ASSUME NEW c \in Clients, RecoverControl(c) PROVE Goal
  BY <1>24 DEF RecoverControl
<1>25. ASSUME NEW c \in Clients, RejectStaleReference(c) PROVE Goal
  BY <1>25 DEF RejectStaleReference
<1>26. ASSUME NEW c \in Clients, QuarantineDangling(c) PROVE Goal
  BY <1>26 DEF QuarantineDangling
<1>27. ASSUME NEW c \in Clients, ClaimTimesOut(c) PROVE Goal
  BY <1>27 DEF ClaimTimesOut
<1>28. ASSUME NEW c \in Clients, ClaimReference(c) PROVE Goal
  BY <1>28 DEF ClaimReference
<1>29. ASSUME NEW c \in Clients, DropDecidedReference(c) PROVE Goal
  BY <1>29 DEF DropDecidedReference
<1>30. ASSUME NEW c \in Clients, ClaimRefLess(c) PROVE Goal
  BY <1>30 DEF ClaimRefLess
<1>31. ASSUME NEW c \in Clients, RefLessDecided(c) PROVE Goal
  BY <1>31 DEF RefLessDecided
<1>32. ASSUME NEW c \in Clients, RejectConflict(c) PROVE Goal
  BY <1>32 DEF RejectConflict
<1>33. ASSUME NEW c \in Clients, Commit(c) PROVE Goal
  BY <1>33 DEF Commit
<1>34. ASSUME NEW c \in Clients, ClosedClaim(c) PROVE Goal
  BY <1>34 DEF ClosedClaim
<1>35. ASSUME NEW c \in Clients, Execute(c) PROVE Goal
  BY <1>35 DEF Execute
<1>36. ASSUME NEW c \in Clients, Finalize(c) PROVE Goal
  BY <1>36 DEF Finalize
<1>37. ASSUME NEW c \in Clients, VisitControl(c) PROVE Goal
  BY <1>37 DEF VisitControl
<1>38. CASE OtherWake
  BY <1>38 DEF OtherWake
<1>39. CASE Start
  BY <1>39 DEF Start
<1>40. CASE DaemonCrash
  BY <1>40 DEF DaemonCrash
<1>41. CASE UNCHANGED vars
  BY <1>41 DEF vars
<1> QED
  BY <1>1, <1>2, <1>3, <1>4, <1>5, <1>6, <1>7, <1>8, <1>9, <1>10, <1>11, <1>12,
     <1>13, <1>14, <1>15, <1>16, <1>17, <1>18, <1>19, <1>20, <1>21, <1>22, <1>23,
     <1>24, <1>25, <1>26, <1>27, <1>28, <1>29, <1>30, <1>31, <1>32, <1>33, <1>34,
     <1>35, <1>36, <1>37, <1>38, <1>39, <1>40, <1>41
     DEF Next, ClientStep, ClientProgress, DaemonProgress

-----------------------------------------------------------------------------
(* Effects.                                                                *)

\* The record promises that there was no effect.
Harmless(r) ==
  \/ r.decision \in {"Open", "Canceled"}
  \/ r.decision = "Rejected" /\ r.reason # "AuthorizationExpired"

\* The record of a command whose effect commit lets through.
Runnable(r) ==
  \/ IsAuthorized(r)
  \/ r.decision = "Rejected" /\ r.reason = "AuthorizationExpired"

EffectInv ==
  /\ \A c \in Clients : effects[c] <= 1
  /\ \A c \in Clients : Harmless(ctl[c]) \/ NotAdmitted(c) => effects[c] = 0
  /\ dpc = "effect" => \A c \in cur : effects[c] = 0 /\ Runnable(ctl[c])

EffectKept(c) ==
  /\ \/ effects'[c] = effects[c]
     \/ /\ dpc = "effect" /\ c \in cur /\ dpc' # "effect"
        /\ ctl'[c] = ctl[c] /\ effects'[c] = effects[c] + 1
  /\ dpc' = "effect" =>
       /\ cur' = cur
       /\ dpc = "effect" \/ (c \in cur => IsOpen(ctl[c]) /\ Runnable(ctl'[c]))

\* A promise of no effect is only ever made of an undecided command.
LEMMA WrittenHarmless ==
  ASSUME NEW c \in Clients, PlainRecord(ctl[c]), Written(c), Harmless(ctl'[c])
  PROVE  Harmless(ctl[c]) \/ cpc[c] = "idle"
<1>1. CASE IsOpen(ctl[c])
  BY <1>1 DEF IsOpen, Harmless
<1>2. CASE ~IsOpen(ctl[c])
  <2>1. ctl[c] \in Controls
    BY DEF PlainRecord
  <2>2. \/ cpc[c] = "idle"
        \/ ctl'[c] \in {ctl[c], Queued(ctl[c]), Claimed(ctl[c]), Acknowledged(ctl[c]),
                        CallerAbandoned(ctl[c]), GenerationEnded(ctl[c])}
        \/ \E ok : ctl'[c] = Finalized(ctl[c], ok)
    BY <1>2 DEF Written
  <2> QED
    BY <1>2, <2>1, <2>2, DecisionKept, DecidedRecord DEF Harmless, SameDecision
<1> QED
  BY <1>1, <1>2

\* While the effect runs nobody withdraws its decision.
LEMMA WrittenRunnable ==
  ASSUME NEW c \in Clients, PlainRecord(ctl[c]), Written(c), dpc = "effect",
         Runnable(ctl[c])
  PROVE  Runnable(ctl'[c]) \/ cpc[c] = "idle"
<1>1. ctl[c] \in Controls /\ ~IsOpen(ctl[c])
  BY DEF PlainRecord, Runnable, IsOpen, IsAuthorized
<1>2. \/ cpc[c] = "idle"
      \/ ctl'[c] \in {ctl[c], Queued(ctl[c]), Claimed(ctl[c]), Acknowledged(ctl[c]),
                      CallerAbandoned(ctl[c])}
  BY <1>1 DEF Written
<1> QED
  BY <1>1, <1>2, DecisionKept DEF Runnable, SameDecision, IsAuthorized

\* Only Execute counts an effect, and only commit leads to it.
LEMMA StepEffect ==
  ASSUME TypeOK, RecordInv, CurInv, [Next]_vars
  PROVE  \A c \in Clients : EffectKept(c)
<1> DEFINE Goal == \A c \in Clients : EffectKept(c)
<1> USE DEF TypeOK, EffectKept, treeVars, clientVars, daemonVars, Exit, ClaimNothing, Outcome
<1>1. ASSUME NEW c \in Clients, Begin(c) PROVE Goal
  BY <1>1 DEF Begin
<1>2. ASSUME NEW c \in Clients, Stage(c) PROVE Goal
  BY <1>2 DEF Stage
<1>3. ASSUME NEW c \in Clients, MakeVisible(c) PROVE Goal
  BY <1>3 DEF MakeVisible
<1>4. ASSUME NEW c \in Clients, WriteReference(c) PROVE Goal
  BY <1>4 DEF WriteReference
<1>5. ASSUME NEW c \in Clients, FinishPublication(c) PROVE Goal
  BY <1>5 DEF FinishPublication
<1>6. ASSUME NEW c \in Clients, TakeResponse(c) PROVE Goal
  BY <1>6 DEF TakeResponse
<1>7. ASSUME NEW c \in Clients, GiveUp(c) PROVE Goal
  BY <1>7 DEF GiveUp
<1>8. ASSUME NEW c \in Clients, WaitTimesOut(c) PROVE Goal
  BY <1>8 DEF WaitTimesOut
<1>9. ASSUME NEW c \in Clients, FailPublication(c) PROVE Goal
  BY <1>9 DEF FailPublication
<1>10. ASSUME NEW c \in Clients, ClientCrash(c) PROVE Goal
  BY <1>10 DEF ClientCrash
<1>11. ASSUME NEW c \in Clients, Tick(c) PROVE Goal
  BY <1>11 DEF Tick
<1>12. CASE FinishRecovery
  BY <1>12 DEF FinishRecovery
<1>13. CASE LockWaitKillsDaemon
  BY <1>13 DEF LockWaitKillsDaemon
<1>14. CASE ScanQueue
  BY <1>14 DEF ScanQueue
<1>15. CASE QuarantineReference
  BY <1>15 DEF QuarantineReference
<1>16. CASE ScanControls
  BY <1>16 DEF ScanControls
<1>17. CASE RemoveClaimedReference
  BY <1>17 DEF RemoveClaimedReference
<1>18. CASE SkipInBackoff
  BY <1>18 DEF SkipInBackoff
<1>19. CASE BeginCollect
  BY <1>19 DEF BeginCollect
<1>20. CASE CollectTimesOut
  BY <1>20 DEF CollectTimesOut
<1>21. CASE EndCollect
  BY <1>21 DEF EndCollect
<1>22. CASE LoopTop
  BY <1>22 DEF LoopTop
<1>23. CASE Wake
  BY <1>23 DEF Wake
<1>24. ASSUME NEW c \in Clients, RecoverControl(c) PROVE Goal
  BY <1>24 DEF RecoverControl
<1>25. ASSUME NEW c \in Clients, RejectStaleReference(c) PROVE Goal
  BY <1>25 DEF RejectStaleReference
<1>26. ASSUME NEW c \in Clients, QuarantineDangling(c) PROVE Goal
  BY <1>26 DEF QuarantineDangling
<1>27. ASSUME NEW c \in Clients, ClaimTimesOut(c) PROVE Goal
  BY <1>27 DEF ClaimTimesOut
<1>28. ASSUME NEW c \in Clients, ClaimReference(c) PROVE Goal
  BY <1>28 DEF ClaimReference
<1>29. ASSUME NEW c \in Clients, DropDecidedReference(c) PROVE Goal
  BY <1>29 DEF DropDecidedReference
<1>30. ASSUME NEW c \in Clients, ClaimRefLess(c) PROVE Goal
  BY <1>30 DEF ClaimRefLess
<1>31. ASSUME NEW c \in Clients, RefLessDecided(c) PROVE Goal
  BY <1>31 DEF RefLessDecided
<1>32. ASSUME NEW c \in Clients, RejectConflict(c) PROVE Goal
  BY <1>32 DEF RejectConflict
<1>33. ASSUME NEW c \in Clients, Commit(c) PROVE Goal
  <2>1. Runnable(ctl'[c]) /\ cur = {c}
    <3>1. ctl[c] \in Controls
      OBVIOUS
    <3>2. Runnable(Rejected(ctl[c], "AuthorizationExpired"))
      BY <3>1, DecidedRecord DEF Runnable
    <3>3. \A kind \in {"HideReady", "StartAndShow"} : Runnable(Committed(ctl[c], kind))
      BY <3>1, DecidedRecord DEF Runnable
    <3> QED
      BY <1>33, <3>2, <3>3 DEF Commit, CurInv
  <2> QED
    BY <1>33, <2>1 DEF Commit
<1>34. ASSUME NEW c \in Clients, ClosedClaim(c) PROVE Goal
  BY <1>34 DEF ClosedClaim
<1>35. ASSUME NEW c \in Clients, Execute(c) PROVE Goal
  BY <1>35 DEF Execute
<1>36. ASSUME NEW c \in Clients, Finalize(c) PROVE Goal
  BY <1>36 DEF Finalize
<1>37. ASSUME NEW c \in Clients, VisitControl(c) PROVE Goal
  BY <1>37 DEF VisitControl
<1>38. CASE OtherWake
  BY <1>38 DEF OtherWake
<1>39. CASE Start
  BY <1>39 DEF Start
<1>40. CASE DaemonCrash
  BY <1>40 DEF DaemonCrash
<1>41. CASE UNCHANGED vars
  BY <1>41 DEF vars
<1> QED
  BY <1>1, <1>2, <1>3, <1>4, <1>5, <1>6, <1>7, <1>8, <1>9, <1>10, <1>11, <1>12,
     <1>13, <1>14, <1>15, <1>16, <1>17, <1>18, <1>19, <1>20, <1>21, <1>22, <1>23,
     <1>24, <1>25, <1>26, <1>27, <1>28, <1>29, <1>30, <1>31, <1>32, <1>33, <1>34,
     <1>35, <1>36, <1>37, <1>38, <1>39, <1>40, <1>41
     DEF Next, ClientStep, ClientProgress, DaemonProgress

\* The effects agree with the decisions.
LEMMA EffectStep ==
  ASSUME TypeOK, TypeOK', RecordInv, AdmissionInv, LeaseInv, CurInv, EffectInv, [Next]_vars,
         \A c \in Clients : Written(c)
  PROVE  EffectInv'
<1> SUFFICES ASSUME NEW c \in Clients
             PROVE  /\ effects'[c] <= 1
                    /\ Harmless(ctl'[c]) \/ NotAdmitted(c)' => effects'[c] = 0
                    /\ dpc' = "effect" /\ c \in cur' => effects'[c] = 0 /\ Runnable(ctl'[c])
  <2>1. cur' \subseteq Clients
    BY DEF TypeOK
  <2> QED
    BY <2>1 DEF EffectInv
<1>1. EffectKept(c) /\ AdmissionKept(c) /\ PlainRecord(ctl[c]) /\ Written(c)
  BY StepEffect, StepAdmission DEF RecordInv
<1>2. effects[c] \in Nat /\ effects[c] <= 1
  BY DEF TypeOK, EffectInv
<1>3. IsOpen(ctl[c]) \/ Harmless(ctl[c]) \/ NotAdmitted(c) \/ cpc[c] = "idle" => effects[c] = 0
  BY DEF EffectInv, LeaseInv, Harmless, IsOpen
<1>4. dpc = "effect" /\ c \in cur =>
        /\ effects[c] = 0 /\ Runnable(ctl[c]) /\ ~Harmless(ctl[c])
        /\ cpc[c] # "idle" /\ ~NotAdmitted(c)
  BY DEF EffectInv, AdmissionInv, NotAdmitted, Runnable, Harmless, IsAuthorized
<1>5. effects'[c] <= 1
  BY <1>1, <1>2, <1>4 DEF EffectKept
<1>6. Harmless(ctl'[c]) \/ NotAdmitted(c)' => effects'[c] = 0
  BY <1>1, <1>3, <1>4, WrittenHarmless DEF EffectKept, AdmissionKept
<1>7. dpc' = "effect" /\ c \in cur' => effects'[c] = 0 /\ Runnable(ctl'[c])
  BY <1>1, <1>3, <1>4, WrittenRunnable DEF EffectKept
<1> QED
  BY <1>5, <1>6, <1>7

-----------------------------------------------------------------------------
(* Turns: no command is taken while one before it in the queue is open.    *)

Listing == {"references", "quarantine", "claimReference"}
Turn    == {"claimReference", "claimRefLess", "unreferencing", "holding"}

TurnInv ==
  \* Admissions are serial: who publishes has the latest order.
  /\ \A c \in Clients : cpc[c] \in Publishing => order[c] = lastOrder
  \* A reference written after the listing comes after every listed one.
  /\ dpc \in Listing =>
       \A c \in snapshot, d \in queue : order[d] < order[c] => d \in snapshot
  \* Of the commands enqueued before the one at hand none is open.
  /\ dpc \in Turn =>
       \A c \in cur, d \in queue : order[d] < order[c] => place[d] # "controls" \/ ~IsOpen(ctl[d])
  /\ \A c \in Clients : cpc[c] = "waiting" => ctl[c].publication_state # "VisibleUnqueued"

\* What a step does to the orders, the listing and the command at hand.
LEMMA StepTurn ==
  ASSUME TypeOK, [Next]_vars
  PROVE  /\ \/ UNCHANGED <<order, lastOrder>>
            \/ \E c \in Clients : Stage(c)
         /\ \A c \in Clients : cpc'[c] \in Publishing => cpc[c] \in Publishing \/ Stage(c)
         /\ \A c \in Clients : cpc'[c] = "waiting" => cpc[c] = "waiting" \/ FinishPublication(c)
         /\ \A c \in Clients : c \in queue' => c \in queue \/ cpc[c] = "visible"
         /\ \A c \in Clients : place'[c] = "controls" => place[c] = "controls" \/ cpc[c] = "staged"
         /\ dpc' \in Listing => \/ ScanQueue
                                \/ dpc \in Listing /\ UNCHANGED snapshot
                                \/ QuarantineReference
         /\ dpc' \in Turn => ScanControls \/ (dpc \in Turn /\ UNCHANGED cur)
<1> DEFINE Goal == /\ \/ UNCHANGED <<order, lastOrder>>
                      \/ \E c \in Clients : Stage(c)
                   /\ \A c \in Clients : cpc'[c] \in Publishing => cpc[c] \in Publishing \/ Stage(c)
                   /\ \A c \in Clients : cpc'[c] = "waiting" =>
                        cpc[c] = "waiting" \/ FinishPublication(c)
                   /\ \A c \in Clients : c \in queue' => c \in queue \/ cpc[c] = "visible"
                   /\ \A c \in Clients : place'[c] = "controls" =>
                        place[c] = "controls" \/ cpc[c] = "staged"
                   /\ dpc' \in Listing => \/ ScanQueue
                                          \/ dpc \in Listing /\ UNCHANGED snapshot
                                          \/ QuarantineReference
                   /\ dpc' \in Turn => ScanControls \/ (dpc \in Turn /\ UNCHANGED cur)
<1> USE DEF Listing, Turn, treeVars, clientVars, daemonVars, Exit, Publishing, ClaimNothing, Outcome,
        Down, Faults
<1>1. ASSUME NEW c \in Clients, Begin(c) PROVE Goal
  BY <1>1 DEF Begin, TypeOK
<1>2. ASSUME NEW c \in Clients, Stage(c) PROVE Goal
  <2>1. /\ cpc[c] = "admitting" /\ cpc' = [cpc EXCEPT ![c] = "staged"]
        /\ place' = [place EXCEPT ![c] = "creating"] /\ UNCHANGED <<queue, daemonVars>>
    BY <1>2 DEF Stage
  <2> QED BY <1>2, <2>1 DEF TypeOK
<1>3. ASSUME NEW c \in Clients, MakeVisible(c) PROVE Goal
  BY <1>3 DEF MakeVisible, TypeOK
<1>4. ASSUME NEW c \in Clients, WriteReference(c) PROVE Goal
  BY <1>4 DEF WriteReference, TypeOK
<1>5. ASSUME NEW c \in Clients, FinishPublication(c) PROVE Goal
  <2>1. /\ cpc[c] = "referenced" /\ cpc' = [cpc EXCEPT ![c] = "waiting"]
        /\ UNCHANGED <<queue, order, lastOrder, place, daemonVars>>
    BY <1>5 DEF FinishPublication
  <2> QED BY <1>5, <2>1 DEF TypeOK
<1>6. ASSUME NEW c \in Clients, TakeResponse(c) PROVE Goal
  BY <1>6 DEF TakeResponse, TypeOK
<1>7. ASSUME NEW c \in Clients, GiveUp(c) PROVE Goal
  BY <1>7 DEF GiveUp, TypeOK
<1>8. ASSUME NEW c \in Clients, WaitTimesOut(c) PROVE Goal
  BY <1>8 DEF WaitTimesOut, TypeOK
<1>9. ASSUME NEW c \in Clients, FailPublication(c) PROVE Goal
  BY <1>9 DEF FailPublication, TypeOK
<1>10. ASSUME NEW c \in Clients, ClientCrash(c) PROVE Goal
  BY <1>10 DEF ClientCrash, TypeOK
<1>11. ASSUME NEW c \in Clients, Tick(c) PROVE Goal
  BY <1>11 DEF Tick
<1>12. CASE FinishRecovery
  BY <1>12 DEF FinishRecovery
<1>13. CASE LockWaitKillsDaemon
  BY <1>13 DEF LockWaitKillsDaemon
<1>14. CASE ScanQueue
  <2>1. UNCHANGED <<treeVars, cpc>> /\ dpc' = "references"
    BY <1>14 DEF ScanQueue
  <2> QED BY <1>14, <2>1
<1>15. CASE QuarantineReference
  <2>1. UNCHANGED <<place, order, lastOrder, cpc>> /\ queue' \subseteq queue /\ dpc' = "references"
    BY <1>15 DEF QuarantineReference
  <2> QED BY <1>15, <2>1
<1>16. CASE ScanControls
  <2>1. UNCHANGED <<place, queue, order, lastOrder, cpc, snapshot>> /\ dpc = "references"
    BY <1>16 DEF ScanControls
  <2> QED BY <1>16, <2>1
<1>17. CASE RemoveClaimedReference
  BY <1>17 DEF RemoveClaimedReference
<1>18. CASE SkipInBackoff
  BY <1>18 DEF SkipInBackoff
<1>19. CASE BeginCollect
  BY <1>19 DEF BeginCollect
<1>20. CASE CollectTimesOut
  BY <1>20 DEF CollectTimesOut
<1>21. CASE EndCollect
  BY <1>21 DEF EndCollect
<1>22. CASE LoopTop
  BY <1>22 DEF LoopTop
<1>23. CASE Wake
  BY <1>23 DEF Wake
<1>24. ASSUME NEW c \in Clients, RecoverControl(c) PROVE Goal
  BY <1>24 DEF RecoverControl
<1>25. ASSUME NEW c \in Clients, RejectStaleReference(c) PROVE Goal
  BY <1>25 DEF RejectStaleReference
<1>26. ASSUME NEW c \in Clients, QuarantineDangling(c) PROVE Goal
  BY <1>26 DEF QuarantineDangling
<1>27. ASSUME NEW c \in Clients, ClaimTimesOut(c) PROVE Goal
  BY <1>27 DEF ClaimTimesOut
<1>28. ASSUME NEW c \in Clients, ClaimReference(c) PROVE Goal
  BY <1>28 DEF ClaimReference
<1>29. ASSUME NEW c \in Clients, DropDecidedReference(c) PROVE Goal
  BY <1>29 DEF DropDecidedReference
<1>30. ASSUME NEW c \in Clients, ClaimRefLess(c) PROVE Goal
  BY <1>30 DEF ClaimRefLess
<1>31. ASSUME NEW c \in Clients, RefLessDecided(c) PROVE Goal
  BY <1>31 DEF RefLessDecided
<1>32. ASSUME NEW c \in Clients, RejectConflict(c) PROVE Goal
  BY <1>32 DEF RejectConflict
<1>33. ASSUME NEW c \in Clients, Commit(c) PROVE Goal
  BY <1>33 DEF Commit
<1>34. ASSUME NEW c \in Clients, ClosedClaim(c) PROVE Goal
  BY <1>34 DEF ClosedClaim
<1>35. ASSUME NEW c \in Clients, Execute(c) PROVE Goal
  BY <1>35 DEF Execute
<1>36. ASSUME NEW c \in Clients, Finalize(c) PROVE Goal
  BY <1>36 DEF Finalize
<1>37. ASSUME NEW c \in Clients, VisitControl(c) PROVE Goal
  BY <1>37 DEF VisitControl, TypeOK
<1>38. CASE OtherWake
  BY <1>38 DEF OtherWake
<1>39. CASE Start
  BY <1>39 DEF Start, TypeOK
<1>40. CASE DaemonCrash
  BY <1>40 DEF DaemonCrash
<1>41. CASE UNCHANGED vars
  BY <1>41 DEF vars
<1> QED
  BY <1>1, <1>2, <1>3, <1>4, <1>5, <1>6, <1>7, <1>8, <1>9, <1>10, <1>11, <1>12,
     <1>13, <1>14, <1>15, <1>16, <1>17, <1>18, <1>19, <1>20, <1>21, <1>22, <1>23,
     <1>24, <1>25, <1>26, <1>27, <1>28, <1>29, <1>30, <1>31, <1>32, <1>33, <1>34,
     <1>35, <1>36, <1>37, <1>38, <1>39, <1>40, <1>41
     DEF Next, ClientStep, ClientProgress, DaemonProgress

\* An open record was open before, with the same publication state or a later one.
LEMMA WrittenOpen ==
  ASSUME NEW c \in Clients, PlainRecord(ctl[c]), Written(c), cpc[c] # "idle"
  PROVE  /\ IsOpen(ctl'[c]) => IsOpen(ctl[c])
         /\ ctl[c].publication_state # "VisibleUnqueued" => ctl'[c].publication_state # "VisibleUnqueued"
<1>1. ctl[c] \in Controls
  BY DEF PlainRecord
<1>2. /\ Queued(ctl[c]).publication_state = "Queued"
      /\ Claimed(ctl[c]).publication_state = "Claimed"
  BY <1>1 DEF Controls, Queued, Claimed
<1>3. ctl'[c].publication_state \in {ctl[c].publication_state, "Queued", "Claimed"}
  BY <1>1, <1>2, PublicationKept DEF Written
<1>4. CASE IsOpen(ctl[c])
  BY <1>3, <1>4
<1>5. CASE ~IsOpen(ctl[c])
  BY <1>1, <1>3, <1>5, DecisionKept, DecidedRecord DEF Written, SameDecision, IsOpen
<1> QED BY <1>4, <1>5

\* Every set of commands has an earliest one.
LEMMA EarliestExists ==
  ASSUME TypeOK, NEW S, S \subseteq Clients, S # {}
  PROVE  Earliest(S) # {}
<1> DEFINE T == {order[c] : c \in S}
<1>1. T \subseteq Nat /\ T # {}
  BY DEF TypeOK
<1>2. PICK n \in T : \A m \in T : <<m, n>> \notin OpToRel(<, Nat)
  <2> HIDE DEF T
  <2> QED
    BY <1>1, NatLessThanWellFounded, WFMin, Zenon
<1>3. PICK c \in S : n = order[c]
  OBVIOUS
<1>4. ASSUME NEW d \in S PROVE order[c] <= order[d]
  <2>1. <<order[d], n>> \notin {p \in Nat \X Nat : p[1] < p[2]}
    BY <1>2, Zenon DEF OpToRel
  <2>2. order[c] \in Nat /\ order[d] \in Nat
    BY DEF TypeOK
  <2> QED
    BY <1>3, <2>1, <2>2
<1> QED
  BY <1>4 DEF Earliest

\* A new turn: the earliest command is taken, of those with a listed reference and those
\* without one, and commands nobody will finish enqueuing are refused.
LEMMA NewTurn ==
  ASSUME TypeOK, RecordInv, OrderInv, TurnInv, ScanControls, dpc' \in Turn,
         NEW c \in cur', NEW d \in queue', order'[d] < order'[c], place'[d] = "controls"
  PROVE  ~IsOpen(ctl'[d])
<1> DEFINE refLess == Earliest({e \in Clients : RefLess(e)})
           first   == Earliest(snapshot)
<1>1. /\ dpc = "references" /\ UNCHANGED <<place, queue, order, snapshot>>
      /\ cur' = refLess \/ cur' = first
  BY DEF ScanControls, treeVars
<1>2. /\ c \in Clients /\ d \in Clients /\ d \in queue /\ order[d] < order[c] /\ place[d] = "controls"
      /\ order \in [Clients -> Nat] /\ snapshot \subseteq Clients
  BY <1>1 DEF TypeOK, Earliest
<1>3. ctl'[d] = IF AbandonedUnqueued(d) THEN CallerAbandoned(Rejected(ctl[d], "CallerEnded"))
                                        ELSE ctl[d]
  BY <1>2 DEF ScanControls
<1>4. SUFFICES ASSUME IsOpen(ctl'[d]) PROVE FALSE
  OBVIOUS
<1>5. PlainRecord(ctl[d]) /\ ctl[d] \in Controls
  BY <1>2 DEF RecordInv, PlainRecord
<1>6. ~AbandonedUnqueued(d) /\ IsOpen(ctl[d])
  <2>1. ~IsOpen(CallerAbandoned(Rejected(ctl[d], "CallerEnded")))
    BY <1>5 DEF CallerAbandoned, Rejected, Controls, IsOpen
  <2> QED BY <1>3, <1>4, <2>1
<1>7. ~Answered(ctl[d]) /\ Recoverable(ctl[d])
  BY <1>5, <1>6 DEF PlainRecord, Validate, DecisionMatchesResponse, IsOpen, Answered, Recoverable
\* The first listed reference is taken: d would have been listed before it.
<1>8. CASE cur' = first
  BY <1>1, <1>2, <1>8 DEF TurnInv, Listing, Earliest
\* A command without a reference is taken: d would be without one, too, or refused.
<1>9. CASE cur' = refLess
  <2>1. RefLess(c) /\ \A e \in Clients : RefLess(e) => order[c] <= order[e]
    BY <1>9 DEF Earliest
  <2>2. \A e \in first : order[c] < order[e]
    <3>1. CASE cur' = first
      BY <1>8, <3>1
    <3>2. CASE cur' # first
      <4>1. PICK e \in refLess : \A f \in first : order[e] < order[f]
        BY <3>2 DEF ScanControls
      <4>2. e \in Clients /\ order[c] <= order[e]
        BY <2>1, <4>1 DEF Earliest
      <4> QED BY <1>2, <4>1, <4>2 DEF Earliest
    <3> QED BY <3>1, <3>2
  <2>3. d \notin snapshot
    <3>1. SUFFICES ASSUME d \in snapshot PROVE FALSE
      OBVIOUS
    <3>2. \A e \in first : order[e] <= order[d]
      BY <3>1 DEF Earliest
    <3>3. first # {}
      BY <1>2, <3>1, EarliestExists
    <3> QED BY <1>2, <2>2, <3>2, <3>3 DEF Earliest
  <2>4. ctl[d].publication_state = "VisibleUnqueued"
    <3>1. ~RefLess(d)
      BY <1>2, <2>1
    <3> QED BY <1>2, <1>5, <1>7, <2>3, <3>1 DEF RefLess, Present, Controls, PublicationStates
  <2>5. ~LeaseFree(d)
    BY <1>2, <1>6, <1>7, <2>3, <2>4 DEF AbandonedUnqueued, Present
  <2>6. order[d] = lastOrder
    BY <1>2, <2>4, <2>5 DEF TurnInv, LeaseFree
  <2> QED BY <1>2, <2>6 DEF OrderInv, TypeOK
<1> QED BY <1>1, <1>8, <1>9

\* Turns are kept: what comes into the queue later comes later in the order.
LEMMA TurnStep ==
  ASSUME TypeOK, RecordInv, AdmissionInv, OrderInv, TurnInv, [Next]_vars,
         \A c \in Clients : Written(c)
  PROVE  TurnInv'
<1>1. lastOrder \in Nat /\ \A c \in Clients : order[c] \in Nat /\ order[c] <= lastOrder
  BY DEF TypeOK, OrderInv
<1>2. queue \subseteq Clients /\ snapshot \subseteq Clients /\ cur \subseteq Clients
  BY DEF TypeOK
<1>3. \A c \in queue \cup snapshot \cup cur : ~NotAdmitted(c)
  BY <1>2 DEF AdmissionInv
<1>4. ASSUME NEW e \in Clients, Stage(e)
      PROVE  /\ lastOrder' = lastOrder + 1 /\ order'[e] = lastOrder + 1
             /\ \A d \in Clients \ {e} : order'[d] = order[d]
             /\ \A d \in Clients : cpc[d] \notin Publishing
             /\ NotAdmitted(e)
  BY <1>4 DEF Stage, TypeOK, AdmissionFree, CallerHolds, NotAdmitted
\* An admitted command keeps its order.
<1>5. \A c \in queue \cup snapshot \cup cur : order'[c] = order[c]
  BY <1>2, <1>3, <1>4, StepTurn
\* A reference written in this step has the latest order.
<1>6. ASSUME NEW d \in queue', d \notin queue, NEW c \in queue \cup snapshot \cup cur
      PROVE  ~(order'[d] < order'[c])
  <2>1. queue' \subseteq Clients
    BY <1>2, StepTurn, TypeStep, WrittenPlain, StepWrites DEF TypeOK, RecordInv
  <2>2. d \in Clients /\ cpc[d] = "visible"
    BY <1>6, <2>1, StepTurn
  <2>3. order[d] = lastOrder /\ order' = order
    BY <1>4, <2>2, StepTurn DEF TurnInv, Publishing
  <2> QED
    BY <1>1, <1>2, <2>3
<1>7. ASSUME NEW c \in Clients, cpc'[c] \in Publishing
      PROVE  order'[c] = lastOrder'
  <2>1. CASE UNCHANGED <<order, lastOrder>>
    BY <1>1, <1>4, <1>7, <2>1, StepTurn DEF TurnInv
  <2>2. CASE \E e \in Clients : Stage(e)
    BY <1>4, <1>7, <2>2, StepTurn
  <2> QED
    BY <2>1, <2>2, StepTurn
<1>8. ASSUME dpc' \in Listing, NEW c \in snapshot', NEW d \in queue', order'[d] < order'[c]
      PROVE  d \in snapshot'
  <2>1. CASE ScanQueue
    BY <2>1 DEF ScanQueue, treeVars
  <2>2. CASE dpc \in Listing /\ UNCHANGED snapshot
    BY <1>5, <1>6, <1>8, <2>2 DEF TurnInv
  <2>3. CASE QuarantineReference
    BY <1>8, <2>3 DEF QuarantineReference, TurnInv, Listing
  <2> QED
    BY <1>8, <2>1, <2>2, <2>3, StepTurn
<1>9. ASSUME dpc' \in Turn, NEW c \in cur', NEW d \in queue', order'[d] < order'[c]
      PROVE  place'[d] # "controls" \/ ~IsOpen(ctl'[d])
  <2>1. CASE ScanControls
    BY <1>9, <2>1, NewTurn
  <2>2. CASE dpc \in Turn /\ UNCHANGED cur
    <3>1. d \in queue /\ d \in Clients /\ order[d] < order[c]
      BY <1>2, <1>5, <1>6, <1>9, <2>2
    <3>2. place[d] # "controls" \/ ~IsOpen(ctl[d])
      BY <1>9, <2>2, <3>1 DEF TurnInv
    <3>3. cpc[d] # "idle" /\ cpc[d] # "staged"
      BY <1>3, <3>1 DEF NotAdmitted
    <3> QED
      BY <3>1, <3>2, <3>3, StepTurn, WrittenOpen DEF RecordInv
  <2> QED
    BY <1>9, <2>1, <2>2, StepTurn
<1>10. ASSUME NEW c \in Clients, cpc'[c] = "waiting"
       PROVE  ctl'[c].publication_state # "VisibleUnqueued"
  <2>1. CASE cpc[c] = "waiting"
    BY <2>1, WrittenOpen DEF RecordInv, TurnInv
  <2>2. CASE FinishPublication(c)
    <3>1. ctl'[c] = Queued(ctl[c]) /\ ctl[c] \in Controls
      BY <2>2 DEF FinishPublication, TypeOK
    <3> QED
      BY <3>1 DEF Queued, Controls
  <2> QED
    BY <1>10, <2>1, <2>2, StepTurn
<1> QED
  BY <1>7, <1>8, <1>9, <1>10 DEF TurnInv

\* Only the command at hand is committed, and it is its turn.
LEMMA CommitStep ==
  ASSUME TypeOK, RecordInv, AdmissionInv, LeaseInv, TurnInv, \A c \in Clients : Written(c),
         NEW c \in Clients, NEW d \in Clients,
         IsOpen(ctl[c]), ctl'[c].decision = "Committed",
         order[d] < order[c], d \in queue, d \in Present
  PROVE  ~IsOpen(ctl[d])
<1>1. ctl[c] \in Controls /\ ctl[c].decision = "Open"
  BY DEF RecordInv, PlainRecord, IsOpen
<1>2. c \in cur /\ dpc = "holding"
  <2>1. \A why : Rejected(ctl[c], why).decision = "Rejected"
    BY <1>1 DEF Rejected, Controls
  <2>2. \A why : CallerAbandoned(Rejected(ctl[c], why)).decision = "Rejected"
    BY <1>1 DEF Rejected, CallerAbandoned, Controls
  <2>3. /\ ctl[c].decision # "Committed" /\ NewControl(Request[c], gen).decision = "Open"
        /\ Queued(ctl[c]).decision = "Open" /\ Claimed(ctl[c]).decision = "Open"
        /\ Acknowledged(ctl[c]).decision = "Open" /\ CallerAbandoned(ctl[c]).decision = "Open"
        /\ Canceled(ctl[c]).decision = "Canceled"
        /\ GenerationEnded(ctl[c]).decision = "Rejected"
    BY <1>1 DEF NewControl, Queued, Claimed, Acknowledged, CallerAbandoned, Canceled,
                GenerationEnded, Rejected, Controls
  <2>4. ~IsAuthorized(ctl[c])
    BY <1>1 DEF IsAuthorized
  <2> QED
    BY <2>1, <2>2, <2>3, <2>4 DEF Written
<1> QED
  BY <1>2 DEF TurnInv, Turn, Present

-----------------------------------------------------------------------------
(* The inductive invariant and the theorems.                               *)

IInv ==
  /\ TypeOK /\ RecordInv /\ AdmissionInv /\ LeaseInv /\ OrderInv /\ CurInv /\ EffectInv
  /\ TurnInv

\* The invariant holds before any command and any daemon.
LEMMA InitIInv == Init => IInv
<1> SUFFICES ASSUME Init PROVE IInv
  OBVIOUS
<1>1. \A c \in Clients : Request[c] \in Requests
  BY ClientsAssumption DEF Requests
<1>2. \A c \in Clients : PlainRecord(NewControl(Request[c], 0))
  BY <1>1, NewControlValid
<1>3. RecordInv
  BY <1>2 DEF Init, RecordInv
<1>4. TypeOK
  <2>1. ctl \in [Clients -> Controls]
    BY <1>2 DEF Init, PlainRecord
  <2>2. 0 \in 0..2 /\ 0 \in Nat
    OBVIOUS
  <2> QED
    BY <2>1, <2>2 DEF Init, TypeOK, ClientPCs, DaemonPCs, Down, Places, Answers
<1>5. AdmissionInv /\ LeaseInv
  BY DEF Init, AdmissionInv, LeaseInv, NewControl, Withdrawable, IsOpen
<1>6. OrderInv /\ CurInv
  BY DEF Init, OrderInv, CurInv, Publishing
<1>7. EffectInv
  BY DEF Init, EffectInv
<1>8. TurnInv
  BY DEF Init, TurnInv, Publishing, Listing, Turn
<1> QED
  BY <1>3, <1>4, <1>5, <1>6, <1>7, <1>8 DEF IInv

\* Every step keeps it.
LEMMA NextIInv == IInv /\ [Next]_vars => IInv'
<1> SUFFICES ASSUME IInv, [Next]_vars PROVE IInv'
  OBVIOUS
<1> USE DEF IInv
<1>1. ctl' = [c \in Clients |-> ctl'[c]] /\ \A c \in Clients : Written(c)
  BY StepWrites
<1>2. \A c \in Clients : PlainRecord(ctl'[c])
  BY <1>1, WrittenPlain
<1>3. TypeOK' /\ RecordInv'
  BY <1>1, <1>2, TypeStep DEF RecordInv
<1>4. AdmissionInv' /\ LeaseInv'
  BY <1>1, AdmissionStep, LeaseStep
<1>5. OrderInv' /\ CurInv'
  BY OrderStep, CurStep
<1>6. EffectInv'
  BY <1>1, <1>3, EffectStep
<1>7. TurnInv'
  BY <1>1, TurnStep
<1> QED
  BY <1>3, <1>4, <1>5, <1>6, <1>7

\* The invariant holds in every reachable state.
THEOREM Invariance == Spec => []IInv
<1> QED
  BY InitIInv, NextIInv, PTL DEF Spec

\* All variables keep their types: the program counters, records and answers
\* are the ones the code can produce.
THEOREM TypeCorrect == Spec => []TypeOK
<1>1. IInv => TypeOK
  BY DEF IInv
<1> QED
  BY <1>1, Invariance, PTL

\* No interleaving of clients, daemon and recovery writes a record that
\* read_control and write_control would refuse.
THEOREM RecordsWellFormed == Spec => []WellFormed
<1>1. IInv => WellFormed
  BY DEF IInv, RecordInv, PlainRecord, WellFormed, Present
<1> QED
  BY <1>1, Invariance, PTL

\* No command is executed twice, whatever is retried, lost or restarted.
THEOREM ExecutedAtMostOnce == Spec => []AtMostOneEffect
<1>1. IInv => AtMostOneEffect
  BY DEF IInv, EffectInv, AtMostOneEffect
<1> QED
  BY <1>1, Invariance, PTL

\* A record that says canceled or rejected is never wrong, except when commit
\* wrote it for an expired authorization.
THEOREM RecordsTruthful == Spec => []TruthfulRecord
<1>1. IInv => TruthfulRecord
  BY DEF IInv, EffectInv, Harmless, TruthfulRecord
<1> QED
  BY <1>1, Invariance, PTL

\* A caller that was told its publication failed holds a command that never runs.
THEOREM FailureDefinite == Spec => []DefiniteFailure
<1>1. IInv => DefiniteFailure
  BY DEF IInv, EffectInv, NotAdmitted, DefiniteFailure
<1> QED
  BY <1>1, Invariance, PTL

\* A waiting caller keeps its directory and its disposition.
THEOREM CallerProtected == Spec => []LeaseProtects
<1>1. IInv => LeaseProtects
  BY DEF IInv, LeaseInv, LeaseProtects, Present
<1> QED
  BY <1>1, Invariance, PTL

\* A response and its decision are final.
THEOREM ResponsesFinal == Spec => ResponseFinal
<1>1. ASSUME IInv, [Next]_vars, NEW c \in Clients, Answered(ctl[c])
      PROVE  ctl'[c].response = ctl[c].response /\ ctl'[c].decision = ctl[c].decision
  <2>1. PlainRecord(ctl[c]) /\ Written(c)
    BY <1>1, StepWrites DEF IInv, RecordInv
  <2>2. ctl[c] \in Controls /\ ~IsOpen(ctl[c]) /\ ~IsAuthorized(ctl[c])
    BY <1>1, <2>1 DEF PlainRecord, Validate, DecisionMatchesResponse, Answered, IsOpen,
                      IsAuthorized
  <2>3. cpc[c] # "idle"
    BY <1>1, <2>2 DEF IInv, LeaseInv
  <2>4. ctl'[c] \in {ctl[c], Queued(ctl[c]), Claimed(ctl[c]), Acknowledged(ctl[c]),
                     CallerAbandoned(ctl[c])}
    BY <1>1, <2>1, <2>2, <2>3 DEF Written
  <2> QED
    BY <2>2, <2>4, DecisionKept DEF SameDecision
<1>2. IInv /\ [Next]_vars =>
        [\A c \in Clients :
           Answered(ctl[c]) => /\ ctl'[c].response = ctl[c].response
                               /\ ctl'[c].decision = ctl[c].decision]_ctl
  BY <1>1
<1> QED
  BY <1>2, Invariance, PTL DEF Spec, ResponseFinal

\* Commits follow the queue order: nothing enqueued before a command for the same
\* daemon is undecided when the command is committed.
THEOREM CommitsInOrder == Spec => FifoCommit
<1> DEFINE Step ==
      \A c, d \in Clients :
        /\ IsOpen(ctl[c]) /\ ctl'[c].decision = "Committed"
        /\ order[d] < order[c] /\ d \in queue /\ d \in Present
        /\ ctl[d].target_daemon_token = ctl[c].target_daemon_token
        => ~IsOpen(ctl[d])
<1>1. IInv /\ [Next]_vars => [Step]_ctl
  <2>1. IInv /\ [Next]_vars => \A c \in Clients : Written(c)
    BY StepWrites DEF IInv
  <2> QED
    BY <2>1, CommitStep DEF IInv
<1> QED
  BY <1>1, Invariance, PTL DEF Spec, FifoCommit

-----------------------------------------------------------------------------
(* CommandQueue implements CommandPromise for every command: with PhaseOf, *)
(* effects and answer as the abstract phase, executed and answer, every    *)
(* step is, for each command, a step of the promise or a stutter.          *)

\* What one step may tell the caller of c.
Told(c) ==
  \/ answer'[c] = answer[c]
  \/ /\ answer[c] = "None" /\ cpc[c] = "waiting"
     /\ \/ /\ Answered(ctl[c]) /\ ctl'[c] = Acknowledged(ctl[c])
           /\ answer'[c] = ctl[c].response
        \/ /\ IsOpen(ctl[c]) /\ ctl'[c] = Canceled(ctl[c])
           /\ answer'[c] = "Canceled"
        \/ /\ ~Answered(ctl[c]) /\ ~IsOpen(ctl[c]) /\ ctl'[c] = CallerAbandoned(ctl[c])
           /\ answer'[c] = "CommittedIndeterminate"
  \/ /\ answer[c] = "None" /\ ctl'[c] = ctl[c]
     /\ \/ answer'[c] \in {"AdmittedIndeterminate", "WaitFailed"}
        \/ answer'[c] = "PublishFailed" /\ NotAdmitted(c)

\* Every step tells every caller the truth about its record, or that it is unknown.
LEMMA StepAnswer ==
  ASSUME IInv, [Next]_vars
  PROVE  \A c \in Clients : Told(c) /\ (effects'[c] # effects[c] => answer'[c] = answer[c])
<1> DEFINE Goal ==
      \A c \in Clients : Told(c) /\ (effects'[c] # effects[c] => answer'[c] = answer[c])
<1>a. TypeOK /\ AdmissionInv
  BY DEF IInv
<1> USE <1>a DEF TypeOK, AdmissionInv, Told, treeVars, clientVars, daemonVars, Exit, Publishing
<1>1. ASSUME NEW c \in Clients, Begin(c) PROVE Goal
  BY <1>1 DEF Begin
<1>2. ASSUME NEW c \in Clients, Stage(c) PROVE Goal
  BY <1>2 DEF Stage
<1>3. ASSUME NEW c \in Clients, MakeVisible(c) PROVE Goal
  BY <1>3 DEF MakeVisible
<1>4. ASSUME NEW c \in Clients, WriteReference(c) PROVE Goal
  BY <1>4 DEF WriteReference
<1>5. ASSUME NEW c \in Clients, FinishPublication(c) PROVE Goal
  BY <1>5 DEF FinishPublication
<1>6. ASSUME NEW c \in Clients, TakeResponse(c) PROVE Goal
  BY <1>6 DEF TakeResponse
<1>7. ASSUME NEW c \in Clients, GiveUp(c) PROVE Goal
  BY <1>7 DEF GiveUp
<1>8. ASSUME NEW c \in Clients, WaitTimesOut(c) PROVE Goal
  BY <1>8 DEF WaitTimesOut
<1>9. ASSUME NEW c \in Clients, FailPublication(c) PROVE Goal
  BY <1>9 DEF FailPublication, NotAdmitted
<1>10. ASSUME NEW c \in Clients, ClientCrash(c) PROVE Goal
  BY <1>10 DEF ClientCrash
<1>11. ASSUME NEW c \in Clients, Tick(c) PROVE Goal
  BY <1>11 DEF Tick
<1>12. CASE FinishRecovery
  BY <1>12 DEF FinishRecovery
<1>13. CASE LockWaitKillsDaemon
  BY <1>13 DEF LockWaitKillsDaemon
<1>14. CASE ScanQueue
  BY <1>14 DEF ScanQueue
<1>15. CASE QuarantineReference
  BY <1>15 DEF QuarantineReference
<1>16. CASE ScanControls
  BY <1>16 DEF ScanControls
<1>17. CASE RemoveClaimedReference
  BY <1>17 DEF RemoveClaimedReference
<1>18. CASE SkipInBackoff
  BY <1>18 DEF SkipInBackoff, Outcome
<1>19. CASE BeginCollect
  BY <1>19 DEF BeginCollect
<1>20. CASE CollectTimesOut
  BY <1>20 DEF CollectTimesOut
<1>21. CASE EndCollect
  BY <1>21 DEF EndCollect
<1>22. CASE LoopTop
  BY <1>22 DEF LoopTop
<1>23. CASE Wake
  BY <1>23 DEF Wake
<1>24. ASSUME NEW c \in Clients, RecoverControl(c) PROVE Goal
  BY <1>24 DEF RecoverControl
<1>25. ASSUME NEW c \in Clients, RejectStaleReference(c) PROVE Goal
  BY <1>25 DEF RejectStaleReference
<1>26. ASSUME NEW c \in Clients, QuarantineDangling(c) PROVE Goal
  BY <1>26 DEF QuarantineDangling
<1>27. ASSUME NEW c \in Clients, ClaimTimesOut(c) PROVE Goal
  BY <1>27 DEF ClaimTimesOut
<1>28. ASSUME NEW c \in Clients, ClaimReference(c) PROVE Goal
  BY <1>28 DEF ClaimReference
<1>29. ASSUME NEW c \in Clients, DropDecidedReference(c) PROVE Goal
  BY <1>29 DEF DropDecidedReference
<1>30. ASSUME NEW c \in Clients, ClaimRefLess(c) PROVE Goal
  BY <1>30 DEF ClaimRefLess
<1>31. ASSUME NEW c \in Clients, RefLessDecided(c) PROVE Goal
  BY <1>31 DEF RefLessDecided
<1>32. ASSUME NEW c \in Clients, RejectConflict(c) PROVE Goal
  BY <1>32 DEF RejectConflict
<1>33. ASSUME NEW c \in Clients, Commit(c) PROVE Goal
  BY <1>33 DEF Commit
<1>34. ASSUME NEW c \in Clients, ClosedClaim(c) PROVE Goal
  BY <1>34 DEF ClosedClaim
<1>35. ASSUME NEW c \in Clients, Execute(c) PROVE Goal
  BY <1>35 DEF Execute, Outcome
<1>36. ASSUME NEW c \in Clients, Finalize(c) PROVE Goal
  BY <1>36 DEF Finalize
<1>37. ASSUME NEW c \in Clients, VisitControl(c) PROVE Goal
  BY <1>37 DEF VisitControl
<1>38. CASE OtherWake
  BY <1>38 DEF OtherWake
<1>39. CASE Start
  BY <1>39 DEF Start
<1>40. CASE DaemonCrash
  BY <1>40 DEF DaemonCrash
<1>41. CASE UNCHANGED vars
  BY <1>41 DEF vars
<1> QED
  BY <1>1, <1>2, <1>3, <1>4, <1>5, <1>6, <1>7, <1>8, <1>9, <1>10, <1>11, <1>12,
     <1>13, <1>14, <1>15, <1>16, <1>17, <1>18, <1>19, <1>20, <1>21, <1>22, <1>23,
     <1>24, <1>25, <1>26, <1>27, <1>28, <1>29, <1>30, <1>31, <1>32, <1>33, <1>34,
     <1>35, <1>36, <1>37, <1>38, <1>39, <1>40, <1>41
     DEF Next, ClientStep, ClientProgress, DaemonProgress

\* The phase of a record, by its decision.
LEMMA Phases ==
  ASSUME NEW r, PlainRecord(r)
  PROVE  /\ IsOpen(r) => RecordPhase(r) = "Open"
         /\ r.decision = "Canceled" => RecordPhase(r) = "Canceled"
         /\ Withdrawable(r) /\ ~IsOpen(r) => RecordPhase(r) = "FailedNoEffect"
         /\ IsAuthorized(r) => RecordPhase(r) = "Authorized"
         /\ r.decision = "Rejected" /\ r.reason = "AuthorizationExpired"
              => RecordPhase(r) = "Expired"
         /\ r.decision = "Committed" /\ Answered(r) => RecordPhase(r) = r.response
BY DEF RecordPhase, IsOpen, IsAuthorized, Withdrawable, Answered, PlainRecord, Validate,
       DecisionMatchesResponse

\* What a caller is told of an answered record is what the promise tells it.
LEMMA AnsweredPhase ==
  ASSUME NEW r, PlainRecord(r), Answered(r), NEW c \in Clients
  PROVE  RecordPhase(r) # "Open" /\ r.response = Promise(c)!Told(RecordPhase(r))
BY DEF RecordPhase, Promise!Told, Answered, PlainRecord, Validate, Controls, Decisions,
       DecisionMatchesResponse, EffectStatuses

\* Records that agree on the decision are in the same phase.
LEMMA SamePhase ==
  ASSUME NEW r, NEW s, SameDecision(r, s)
  PROVE  RecordPhase(s) = RecordPhase(r)
BY DEF SameDecision, RecordPhase, Answered

\* The phase of a record after each transition that changes it.
LEMMA NextPhase ==
  ASSUME NEW r, PlainRecord(r)
  PROVE  /\ RecordPhase(Canceled(r)) = "Canceled"
         /\ \A why \in NoEffectReasons :
              /\ RecordPhase(Rejected(r, why)) = "FailedNoEffect"
              /\ RecordPhase(CallerAbandoned(Rejected(r, why))) = "FailedNoEffect"
         /\ RecordPhase(Rejected(r, "AuthorizationExpired")) = "Expired"
         /\ \A kind \in {"HideReady", "StartAndShow"} :
              RecordPhase(Committed(r, kind)) = "Authorized"
         /\ IsAuthorized(r) => \A ok \in BOOLEAN :
              RecordPhase(Finalized(r, ok)) \in {"Succeeded", "CommittedIndeterminate"}
         /\ ~Answered(r) => RecordPhase(GenerationEnded(r)) =
              IF IsOpen(r) THEN "FailedNoEffect" ELSE "CommittedIndeterminate"
<1>1. r \in Controls
  BY DEF PlainRecord
<1>2. RecordPhase(Canceled(r)) = "Canceled"
  BY <1>1 DEF RecordPhase, Canceled, Controls
<1>3. ASSUME NEW why
      PROVE  RecordPhase(Rejected(r, why)) =
               IF why = "AuthorizationExpired" THEN "Expired" ELSE "FailedNoEffect"
  BY <1>1 DEF RecordPhase, Rejected, Controls
<1>4. ASSUME NEW why \in NoEffectReasons
      PROVE  RecordPhase(CallerAbandoned(Rejected(r, why))) = "FailedNoEffect"
  BY <1>1 DEF RecordPhase, Rejected, CallerAbandoned, Controls, NoEffectReasons
<1>5. ASSUME NEW kind \in {"HideReady", "StartAndShow"}
      PROVE  RecordPhase(Committed(r, kind)) = "Authorized"
  BY <1>1 DEF RecordPhase, Committed, Controls, Answered
<1>6. ASSUME NEW ok \in BOOLEAN, r.decision = "Committed"
      PROVE  RecordPhase(Finalized(r, ok)) =
               IF ok THEN "Succeeded" ELSE "CommittedIndeterminate"
  BY <1>1, <1>6 DEF RecordPhase, Finalized, Controls, Answered
<1>7. IsOpen(r) => RecordPhase(GenerationEnded(r)) = "FailedNoEffect"
  BY <1>1 DEF RecordPhase, GenerationEnded, Rejected, IsOpen, Controls
<1>8. ~Answered(r) /\ ~IsOpen(r) => RecordPhase(GenerationEnded(r)) = "CommittedIndeterminate"
  <2>1. ~Answered(r) /\ ~IsOpen(r) => r.decision = "Committed"
    BY UnansweredIsRecoverable DEF IsAuthorized
  <2> QED
    BY <1>1, <2>1 DEF RecordPhase, GenerationEnded, Finalized, Answered, IsOpen, Controls
<1>9. \A why \in NoEffectReasons : why # "AuthorizationExpired"
  BY DEF NoEffectReasons
<1> QED
  BY <1>2, <1>3, <1>4, <1>5, <1>6, <1>7, <1>8, <1>9 DEF IsAuthorized

\* Every step keeps the promise made to every caller.
LEMMA PromiseStep ==
  ASSUME IInv, [Next]_vars, NEW c \in Clients
  PROVE  [Promise(c)!Next]_(Promise(c)!vars)
<1>1. /\ Written(c) /\ Told(c) /\ EffectKept(c) /\ PlainRecord(ctl[c])
      /\ effects'[c] # effects[c] => answer'[c] = answer[c]
  BY StepWrites, StepAnswer, StepEffect DEF IInv, RecordInv
<1> DEFINE phase == RecordPhase(ctl[c])
<1>2. CASE answer[c] = "PublishFailed"
  <2>1. NotAdmitted(c) /\ c \notin cur
    BY <1>2 DEF NotAdmitted, IInv, AdmissionInv
  <2>2. effects'[c] = effects[c] /\ answer'[c] = answer[c]
    BY <1>1, <1>2, <2>1 DEF EffectKept, Told
  <2> QED
    BY <1>2, <2>2 DEF PhaseOf, Promise!vars
<1>3. CASE answer[c] # "PublishFailed" /\ answer'[c] # answer[c]
  <2>1. PhaseOf(c) = phase /\ answer[c] = "None" /\ effects'[c] = effects[c]
    BY <1>1, <1>3 DEF PhaseOf, Told
  <2>2. CASE Answered(ctl[c]) /\ ctl'[c] = Acknowledged(ctl[c]) /\ answer'[c] = ctl[c].response
    <3>1. PhaseOf(c)' = phase
      <4>1. answer'[c] # "PublishFailed"
        BY <1>1, <2>2 DEF PlainRecord, Controls, Responses
      <4> QED
        BY <1>1, <2>2, <4>1, DecisionKept, SamePhase DEF PhaseOf, PlainRecord
    <3> QED
      BY <1>1, <2>1, <2>2, <3>1, AnsweredPhase DEF Promise!Next, Promise!Tell
  <2>3. CASE IsOpen(ctl[c]) /\ ctl'[c] = Canceled(ctl[c]) /\ answer'[c] = "Canceled"
    <3>1. phase = "Open" /\ PhaseOf(c)' = "Canceled"
      BY <1>1, <2>3, Phases, NextPhase DEF PhaseOf
    <3> QED
      BY <2>1, <2>3, <3>1 DEF Promise!Next, Promise!Cancel
  <2>4. CASE /\ ~Answered(ctl[c]) /\ ~IsOpen(ctl[c]) /\ ctl'[c] = CallerAbandoned(ctl[c])
             /\ answer'[c] = "CommittedIndeterminate"
    <3>1. phase = "Authorized"
      BY <1>1, <2>4, UnansweredIsRecoverable, Phases
    <3>2. PhaseOf(c)' = phase
      BY <1>1, <2>4, DecisionKept, SamePhase DEF PhaseOf, PlainRecord
    <3> QED
      BY <2>1, <2>4, <3>1, <3>2 DEF Promise!Next, Promise!Tell, Promise!Told
  <2>5. CASE ctl'[c] = ctl[c] /\ answer'[c] \in {"AdmittedIndeterminate", "WaitFailed"}
    <3>1. PhaseOf(c)' = phase
      BY <2>5 DEF PhaseOf
    <3> QED
      BY <2>1, <2>5, <3>1 DEF Promise!Next, Promise!LoseTrack
  <2>6. CASE ctl'[c] = ctl[c] /\ answer'[c] = "PublishFailed" /\ NotAdmitted(c)
    <3>1. phase \in {"Open", "FailedNoEffect"}
      BY <1>1, <2>6, Phases DEF IInv, AdmissionInv
    <3>2. PhaseOf(c)' = "Withdrawn"
      BY <2>6 DEF PhaseOf
    <3> QED
      BY <2>1, <2>6, <3>1, <3>2 DEF Promise!Next, Promise!Withdraw
  <2> QED
    BY <1>1, <1>3, <2>2, <2>3, <2>4, <2>5, <2>6 DEF Told
<1>4. CASE answer[c] # "PublishFailed" /\ answer'[c] = answer[c] /\ effects'[c] # effects[c]
  <2>1. /\ dpc = "effect" /\ c \in cur /\ ctl'[c] = ctl[c] /\ effects'[c] = effects[c] + 1
    BY <1>1, <1>4 DEF EffectKept
  <2>2. effects[c] = 0 /\ effects'[c] = 1 /\ Runnable(ctl[c])
    BY <2>1 DEF IInv, EffectInv
  <2>3. phase \in {"Authorized", "Expired"}
    BY <1>1, <2>2, Phases DEF Runnable
  <2>4. PhaseOf(c) = phase /\ PhaseOf(c)' = phase
    BY <1>4, <2>1 DEF PhaseOf
  <2> QED
    BY <1>4, <2>2, <2>3, <2>4 DEF Promise!Next, Promise!Execute
<1>5. CASE answer[c] # "PublishFailed" /\ answer'[c] = answer[c] /\ effects'[c] = effects[c]
  <2> DEFINE next == RecordPhase(ctl'[c])
  <2>1. PhaseOf(c) = phase /\ PhaseOf(c)' = next
    BY <1>5 DEF PhaseOf
  <2>2. CASE ctl'[c] \in {ctl[c], Queued(ctl[c]), Claimed(ctl[c]), Acknowledged(ctl[c]),
                          CallerAbandoned(ctl[c])}
    <3>1. next = phase
      BY <1>1, <2>2, DecisionKept, SamePhase DEF PlainRecord
    <3> QED
      BY <1>5, <2>1, <3>1 DEF Promise!vars
  <2>3. CASE cpc[c] = "idle" /\ ctl'[c] = NewControl(Request[c], gen)
    <3>1. phase = "Open"
      BY <1>1, <2>3, Phases DEF IInv, LeaseInv
    <3>2. next = "Open"
      BY <2>3 DEF NewControl, RecordPhase
    <3> QED
      BY <1>5, <2>1, <3>1, <3>2 DEF Promise!vars
  <2>4. CASE /\ IsOpen(ctl[c])
             /\ next \in {"FailedNoEffect", "Expired", "Authorized"}
    <3>1. phase = "Open"
      BY <1>1, <2>4, Phases
    <3> QED
      BY <1>5, <2>1, <2>4, <3>1 DEF Promise!Next, Promise!Decide
  <2>5. CASE IsAuthorized(ctl[c]) /\ next \in {"Succeeded", "CommittedIndeterminate"}
    <3>1. phase = "Authorized"
      BY <1>1, <2>5, Phases
    <3> QED
      BY <1>5, <2>1, <2>5, <3>1 DEF Promise!Next, Promise!Complete
  <2>6. ~(cpc[c] = "waiting" /\ answer'[c] = "Canceled")
    BY <1>5 DEF IInv, AdmissionInv
  <2>7. ~Answered(ctl[c]) => IsOpen(ctl[c]) \/ IsAuthorized(ctl[c])
    BY <1>1, UnansweredIsRecoverable
  <2>8. \/ ctl'[c] \in {ctl[c], Queued(ctl[c]), Claimed(ctl[c]), Acknowledged(ctl[c]),
                        CallerAbandoned(ctl[c])}
        \/ cpc[c] = "idle" /\ ctl'[c] = NewControl(Request[c], gen)
        \/ IsOpen(ctl[c]) /\ next \in {"FailedNoEffect", "Expired", "Authorized"}
        \/ IsAuthorized(ctl[c]) /\ next \in {"Succeeded", "CommittedIndeterminate"}
    BY <1>1, <2>6, <2>7, NextPhase DEF Written
  <2> QED
    BY <2>2, <2>3, <2>4, <2>5, <2>8
<1> QED
  BY <1>2, <1>3, <1>4, <1>5

\* The queue implements the promise: the initial states agree, and every step
\* of the system is a step of the promise of each command or leaves it alone.
THEOREM PromiseKept == Spec => KeepsPromise
<1>1. Init => \A c \in Clients : Promise(c)!Init
  BY DEF Init, Promise!Init, PhaseOf, RecordPhase, NewControl
<1>2. IInv /\ [Next]_vars =>
        [\A c \in Clients : [Promise(c)!Next]_(Promise(c)!vars)]_vars
  BY PromiseStep
<1> QED
  BY <1>1, <1>2, Invariance, PTL DEF Spec, KeepsPromise

=============================================================================
