----------------------- MODULE ActionDelivery_proofs -----------------------
(***************************************************************************)
(* Proofs about ActionDelivery, for any number of commands and intents and *)
(* any number of daemon generations and overlay processes.                 *)
(*                                                                         *)
(* The argument.  An action is published at most once (QueueInv, WaitInv,  *)
(* JournalInv), so its journal entry only moves forward, and an entry that *)
(* is Claimed belongs to the one overlay that claimed it or to nobody      *)
(* (HandInv).  The stages of the daemon's command are tied to the entry    *)
(* and the record by StageInv, and what a record or an entry says of its   *)
(* action to the number of times it was applied by ResultInv.  A claim     *)
(* pass leaves nothing behind that it could still claim (OrderInv).        *)
(***************************************************************************)
EXTENDS ActionDelivery, TLAPS

-----------------------------------------------------------------------------
(* The inductive invariant.                                                *)

\* A valid record of a command that carries an action.
OverlayRecord(r) == r \in Controls /\ Validate(r) /\ r.request.overlay_action

RecordInv == \A c \in Commands : OverlayRecord(ctl[c]) /\ ctl[c].target_daemon_token <= gen

\* No element occurs twice.
Distinct(s) == \A m, n \in DOMAIN s : s[m] = s[n] => m = n
In(x, s)    == \E n \in DOMAIN s : s[n] = x

\* An action is in the journal at most once, from its publication on.
JournalInv ==
  /\ Distinct(journal)
  /\ \A n \in DOMAIN journal : born[journal[n]] # 0
  /\ dpc \notin Gone => gen # 0
  /\ \A a \in Actions :
       /\ born[a] <= gen
       /\ born[a] = 0 => entry[a] = "none" /\ applied[a] = 0 /\ a \notin fin

\* A command waits in the queue of the generation it was sent to, unpublished.
QueueInv ==
  /\ Distinct(queue)
  /\ \A c \in Commands :
       /\ cpc[c] = "idle" => c \notin controls /\ born[c] = 0 /\ ~In(c, queue)
       /\ In(c, queue) => born[c] = 0 /\ ctl[c].target_daemon_token = gen
       /\ born[c] = 0 => ctl[c].action_status = "None"
       /\ born[c] # 0 => born[c] = ctl[c].target_daemon_token

\* An intent waits in one place, unpublished.
WaitInv ==
  /\ \A s \in {asked, kept, batch} : Distinct(s) /\ \A n \in DOMAIN s : born[s[n]] = 0
  /\ \A i \in Intents : /\ ~(In(i, asked) /\ In(i, kept))
                        /\ ~(In(i, asked) /\ In(i, batch))
                        /\ ~(In(i, kept) /\ In(i, batch))

CommandStages == {"holding", "preparing", "relocking", "committing", "retracting", "rewriting",
                  "finishing", "removing"}

\* What the daemon's program counter says of the command at hand.
Stage(c) ==
  /\ cpc[c] # "idle"
  /\ dpc \in {"holding", "preparing"} =>
       born[c] = 0 /\ ~In(c, queue) /\ ctl[c].target_daemon_token = gen
  /\ dpc \in Owning => IsOpen(ctl[c]) /\ cpc[c] # "deciding"
  /\ dpc \in {"relocking", "committing"} =>
       born[c] = gen /\ (IsOpen(ctl[c]) => entry[c] = "Prepared")
  /\ dpc = "committing" => ctl[c].action_status = "Prepared"
  /\ dpc \in {"retracting", "rewriting", "finishing"} => born[c] # 0
  /\ dpc = "finishing" => applied[c] = 0 /\ entry[c] \in {"Abandoned", "none"}
  /\ dpc = "removing" => Answered(ctl[c])

StageInv ==
  /\ \A a, b \in cur : a = b
  /\ dpc \in CommandStages => \A c \in cur : c \in Commands /\ Stage(c)

\* What the overlay's program counter says of the action in its hand.
Held(a) ==
  /\ opc = "apply" => /\ entry[a] = "Claimed" /\ applied[a] = 0 /\ Own(a)
                      /\ a \in Commands => IsAuthorized(ctl[a])
  /\ opc # "apply" => applied[a] = 1
  /\ opc = "drop" /\ a \in Commands => Answered(ctl[a])

\* And of the entry its claim pass has reached.
Reached(c) ==
  /\ opc = "claimed" => entry[c] = "Prepared" /\ Own(c) /\ IsAuthorized(ctl[c])
  /\ opc = "unlink" => Answered(ctl[c])

HandInv ==
  /\ \A a, b \in fin : a = b
  /\ \A a \in fin : Held(a)
  /\ opc \in Passing => at # 0
  /\ opc \in {"claimed", "unlink"} => \A c \in Commands : AtEntry(c) => Reached(c)

\* What entries and records say of their actions is so.
ResultInv ==
  /\ \A a \in Actions :
       /\ applied[a] <= 1
       /\ entry[a] \in {"Prepared", "Eligible", "Abandoned"} => applied[a] = 0
       /\ entry[a] = "Applied" => applied[a] = 1
  /\ \A c \in Commands :
       /\ IsOpen(ctl[c]) \/ ctl[c].response \in {"Canceled", "FailedNoEffect"} => applied[c] = 0
       /\ ctl[c].response = "Succeeded" /\ ctl[c].effect_kind # "NoOp" => applied[c] = 1

\* No overlay will ever claim a: its entry is gone or of an earlier generation.
Past(a) == entry[a] = "none" \/ born[a] # gen

\* Everything before an action that is applied, or about to be, is past.
OrderInv ==
  /\ opc \in Passing => \A m \in DOMAIN journal : m < at => Past(journal[m])
  /\ \A m, n \in DOMAIN journal :
       m < n /\ (applied[journal[n]] # 0 \/ (opc = "apply" /\ journal[n] \in fin))
         => Past(journal[m])

IInv ==
  /\ TypeOK /\ RecordInv /\ JournalInv /\ QueueInv /\ WaitInv /\ StageInv /\ HandInv
  /\ ResultInv /\ OrderInv /\ NoOrphan

-----------------------------------------------------------------------------
(* Records.                                                                *)

Results == {"Applied", "NoEffect", "Indeterminate"}

\* Everything but the caller's side and the publication state is as before.
SameOutcome(r, s) ==
  /\ s.target_daemon_token = r.target_daemon_token /\ s.decision = r.decision
  /\ s.effect_kind = r.effect_kind /\ s.effect_status = r.effect_status
  /\ s.action_status = r.action_status /\ s.response = r.response

\* The writes that decide nothing.
LEMMA NotedIs ==
  ASSUME NEW r, OverlayRecord(r)
  PROVE  /\ OverlayRecord(Claimed(r)) /\ SameOutcome(r, Claimed(r))
         /\ OverlayRecord(CallerAbandoned(r)) /\ SameOutcome(r, CallerAbandoned(r))
         /\ Answered(r) => OverlayRecord(Acknowledged(r)) /\ SameOutcome(r, Acknowledged(r))
BY DEF OverlayRecord, Claimed, CallerAbandoned, Acknowledged, SameOutcome, Controls,
       PublicationStates, Dispositions, Validate, DecisionMatchesResponse,
       ActionMatchesEffect, Answered, IsAuthorized

\* A published command is open and its action has not begun.
LEMMA PublishedIs ==
  ASSUME NEW r, OverlayRecord(r), NEW token \in Nat
  PROVE  LET s == Queued(NewControl(r.request, token))
         IN  /\ OverlayRecord(s) /\ IsOpen(s) /\ s.target_daemon_token = token
             /\ s.action_status = "None" /\ s.response = "None"
BY DEF OverlayRecord, Queued, NewControl, Controls, Requests, PublicationStates, Decisions,
       EffectKinds, ActionEffects, EffectStatuses, ActionStatuses, LiveActions, Responses,
       Reasons, Dispositions, Validate, DecisionMatchesResponse, ActionMatchesEffect,
       Answered, IsAuthorized, IsOpen

\* The three ways to decide an open record.
LEMMA RefusedIs ==
  ASSUME NEW r, OverlayRecord(r), IsOpen(r), NEW s,
         s = Canceled(r) \/ s = Rejected(r, "AuthorizationExpired")
  PROVE  /\ OverlayRecord(s) /\ ~IsOpen(s) /\ ~IsAuthorized(s) /\ Answered(s)
         /\ s.target_daemon_token = r.target_daemon_token
         /\ s.action_status = r.action_status /\ s.response # "Succeeded"
BY ZenonT(60) DEF OverlayRecord, IsOpen, Canceled, Rejected, Controls, Decisions, Responses,
       Reasons, Dispositions, Validate, DecisionMatchesResponse, ActionMatchesEffect, Answered,
       IsAuthorized

LEMMA CommittedIs ==
  ASSUME NEW r, OverlayRecord(r), IsOpen(r), NEW kind \in EffectKinds, NEW s,
         s = Committed(r, kind),
         \/ kind = "NoOp" /\ r.action_status = "None"
         \/ kind \in ActionEffects /\ r.action_status = "Prepared"
  PROVE  /\ OverlayRecord(s) /\ ~IsOpen(s) /\ (IsAuthorized(s) <=> kind # "NoOp")
         /\ s.target_daemon_token = r.target_daemon_token /\ s.effect_kind = kind
         /\ s.response = (IF kind = "NoOp" THEN "Succeeded" ELSE "None")
         /\ s.action_status = (IF kind = "NoOp" THEN "None" ELSE "Eligible")
BY ZenonT(60) DEF OverlayRecord, IsOpen, Committed, Controls, Decisions, Responses, EffectKinds,
       ActionEffects, EffectStatuses, ActionStatuses, LiveActions, Validate,
       DecisionMatchesResponse, ActionMatchesEffect, Answered, IsAuthorized

\* The action's progress alone: prepared while open, abandoned once canceled,
\* claimed once authorized.
LEMMA ProgressIs ==
  ASSUME NEW r, OverlayRecord(r), NEW status, NEW s, s = WithAction(r, status),
         \/ IsOpen(r) /\ status = "Prepared"
         \/ r.decision = "Canceled" /\ status = "Abandoned"
         \/ IsAuthorized(r) /\ r.action_status \in LiveActions /\ status = "Claimed"
  PROVE  /\ OverlayRecord(s) /\ s.target_daemon_token = r.target_daemon_token
         /\ s.decision = r.decision /\ s.effect_kind = r.effect_kind
         /\ s.effect_status = r.effect_status /\ s.response = r.response
         /\ s.action_status = status
BY DEF OverlayRecord, IsOpen, WithAction, Controls, ActionStatuses, LiveActions, Validate,
       DecisionMatchesResponse, ActionMatchesEffect, Answered, IsAuthorized

\* What finish_command_action makes of a record it accepts.
LEMMA FinishedIs ==
  ASSUME NEW r, OverlayRecord(r), NEW result \in Results, Finishable(r, result), NEW s,
         s = ActionFinished(r, result)
  PROVE  /\ OverlayRecord(s) /\ s.target_daemon_token = r.target_daemon_token
         /\ ~IsOpen(r) /\ ~IsOpen(s) /\ Answered(s) /\ s.effect_kind = r.effect_kind
         /\ \/ s.response = r.response
            \/ ~Answered(r) /\ s.response = "Succeeded" /\ result = "Applied"
            \/ ~Answered(r) /\ s.response = "FailedNoEffect" /\ result = "NoEffect"
            \/ ~Answered(r) /\ s.response = "CommittedIndeterminate"
<1> USE DEF OverlayRecord, Controls, Decisions, ActionStatuses, LiveActions, EffectStatuses,
        Responses, Results, Validate, DecisionMatchesResponse, ActionMatchesEffect, Answered,
        IsAuthorized, IsOpen, Finishable, EndedBeforeCommit, AlreadyFinished, WithAction
<1>1. CASE EndedBeforeCommit(r, result)
  <2>1. s = WithAction(r, "Abandoned")
    BY <1>1 DEF ActionFinished
  <2> QED BY <1>1, <2>1
<1>2. CASE ~EndedBeforeCommit(r, result) /\ AlreadyFinished(r, result)
  <2>1. s = r
    BY <1>2 DEF ActionFinished
  <2> QED BY <1>2, <2>1
<1>3. CASE ~EndedBeforeCommit(r, result) /\ ~AlreadyFinished(r, result)
  <2> DEFINE Ended(action, effect, response) ==
        [r EXCEPT !.action_status = action, !.effect_status = effect, !.response = response]
  <2>1. \/ result = "Applied" /\ s = Ended("Applied", "Completed", "Succeeded")
        \/ result = "NoEffect" /\ s = Ended("Abandoned", "FailedNoEffect", "FailedNoEffect")
        \/ s = Ended("Indeterminate", "Indeterminate", "CommittedIndeterminate")
    BY <1>3 DEF ActionFinished
  <2>2. /\ IsAuthorized(r) /\ ~Answered(r)
        /\ r.action_status = "Claimed" \/ r.action_status \in {"Prepared", "Eligible"}
    BY <1>3
  <2>3. CASE result = "Applied" /\ s = Ended("Applied", "Completed", "Succeeded")
    BY <2>2, <2>3
  <2>4. CASE result = "NoEffect" /\ s = Ended("Abandoned", "FailedNoEffect", "FailedNoEffect")
    BY <2>2, <2>4
  <2>5. CASE s = Ended("Indeterminate", "Indeterminate", "CommittedIndeterminate")
    BY <2>2, <2>5
  <2> QED BY <2>1, <2>3, <2>4, <2>5
<1> QED BY <1>1, <1>2, <1>3

\* What a new generation makes of an unanswered record.
LEMMA EndedIs ==
  ASSUME NEW r, OverlayRecord(r), ~Answered(r), NEW s, s = GenerationEnded(r)
  PROVE  /\ OverlayRecord(s) /\ s.target_daemon_token = r.target_daemon_token
         /\ ~IsOpen(s) /\ Answered(s) /\ s.response # "Succeeded"
         /\ IsOpen(r) <=> s.response \in {"Canceled", "FailedNoEffect"}
         /\ r.action_status = "None" => s.action_status = "None"
<1> DEFINE action == IF r.action_status \in LiveActions THEN "Indeterminate" ELSE r.action_status
<1> USE DEF OverlayRecord, Controls, Decisions, ActionStatuses, LiveActions, EffectStatuses,
        Responses, Reasons, Validate, DecisionMatchesResponse, ActionMatchesEffect, Answered,
        IsAuthorized, IsOpen
<1>1. CASE IsOpen(r)
  <2>1. s = [r EXCEPT !.decision = "Rejected", !.response = "FailedNoEffect",
                      !.reason = "PreviousGeneration", !.action_status = action]
    BY <1>1 DEF GenerationEnded, Rejected
  <2> QED BY <1>1, <2>1, ZenonT(40)
<1>2. CASE ~IsOpen(r)
  <2>1. s = [r EXCEPT !.effect_status = "Indeterminate", !.response = "CommittedIndeterminate",
                      !.action_status = action]
    BY <1>2 DEF GenerationEnded, Finalized
  <2>2. IsAuthorized(r)
    BY <1>2
  <2> QED BY <1>2, <2>1, <2>2
<1> QED BY <1>1, <1>2

\* A valid record is answered exactly when it is neither open nor authorized.
LEMMA AnsweredIs ==
  ASSUME NEW r, OverlayRecord(r)
  PROVE  /\ Answered(r) <=> ~IsOpen(r) /\ ~IsAuthorized(r)
         /\ ~(IsOpen(r) /\ IsAuthorized(r))
BY DEF OverlayRecord, Controls, Decisions, EffectStatuses, Validate, DecisionMatchesResponse,
       ActionMatchesEffect, Answered, IsAuthorized, IsOpen

-----------------------------------------------------------------------------
(* The writes of a step.                                                   *)

\* How one step may write the record of c.
Written(c) ==
  \/ ctl'[c] = ctl[c]
  \/ cpc[c] = "idle" /\ ctl'[c] = Queued(NewControl(ctl[c].request, gen))
  \/ ctl'[c] = Claimed(ctl[c])
  \/ ctl'[c] = CallerAbandoned(ctl[c])
  \/ Answered(ctl[c]) /\ ctl'[c] = Acknowledged(ctl[c])
  \/ IsOpen(ctl[c]) /\ cpc[c] = "deciding" /\ ctl'[c] = Canceled(ctl[c])
  \/ /\ IsOpen(ctl[c]) /\ c \in cur /\ dpc' \notin Owning
     /\ \/ dpc \in Owning /\ ctl'[c] = Rejected(ctl[c], "AuthorizationExpired")
        \/ dpc = "holding" /\ ctl'[c] = Committed(ctl[c], "NoOp")
        \/ dpc = "committing" /\ \E kind \in ActionEffects : ctl'[c] = Committed(ctl[c], kind)
  \/ IsOpen(ctl[c]) /\ c \in cur /\ dpc = "relocking" /\ ctl'[c] = WithAction(ctl[c], "Prepared")
  \/ /\ ctl[c].decision = "Canceled" /\ c \in cur /\ dpc = "rewriting"
     /\ ctl'[c] = WithAction(ctl[c], "Abandoned")
  \/ /\ IsAuthorized(ctl[c]) /\ ctl[c].action_status \in LiveActions
     /\ opc = "pass" /\ entry[c] = "Prepared" /\ ctl'[c] = WithAction(ctl[c], "Claimed")
  \/ \E result \in Results :
       /\ Finishable(ctl[c], result) /\ ctl'[c] = ActionFinished(ctl[c], result)
       /\ \/ c \in cur /\ dpc = "finishing" /\ result = "NoEffect"
          \/ opc = "pass" /\ entry[c] \in Terminal /\ result = ResultOf(entry[c])
          \/ opc = "report" /\ c \in fin /\ result = "Applied"
  \/ ~Answered(ctl[c]) /\ opc = "none" /\ gen' = gen + 1 /\ ctl'[c] = GenerationEnded(ctl[c])

\* Every step writes every record in one of these ways.
LEMMA StepWrites ==
  ASSUME TypeOK, RecordInv, StageInv, [Next]_vars
  PROVE  ctl' = [c \in Commands |-> ctl'[c]] /\ \A c \in Commands : Written(c)
<1> DEFINE Goal == ctl' = [c \in Commands |-> ctl'[c]] /\ \A c \in Commands : Written(c)
<1> USE DEF TypeOK, treeVars, Written, Record, OverlayFrame
<1>1. ASSUME NEW c \in Commands, PublishCommand(c) PROVE Goal
  BY <1>1 DEF PublishCommand
<1>2. ASSUME NEW c \in Commands, Inspect(c) PROVE Goal
  BY <1>2 DEF Inspect
<1>3. ASSUME NEW c \in Commands, PollAgain(c) PROVE Goal
  BY <1>3 DEF PollAgain
<1>4. ASSUME NEW c \in Commands, Conclude(c) PROVE Goal
  <2>1. \/ Answered(ctl[c]) /\ Record(c, Acknowledged(ctl[c]))
        \/ IsOpen(ctl[c]) /\ Record(c, Canceled(ctl[c]))
        \/ Record(c, CallerAbandoned(ctl[c]))
    <3>1. CASE Answered(ctl[c]) /\ ~IsOpen(ctl[c])
      BY <1>4, <3>1, Zenon DEF Conclude
    <3>2. CASE ~Answered(ctl[c]) /\ IsOpen(ctl[c])
      BY <1>4, <3>2, Zenon DEF Conclude
    <3>3. CASE ~Answered(ctl[c]) /\ ~IsOpen(ctl[c])
      BY <1>4, <3>3, Zenon DEF Conclude
    <3> QED BY <3>1, <3>2, <3>3, AnsweredIs DEF RecordInv
  <2>2. cpc[c] = "deciding"
    BY <1>4 DEF Conclude
  <2> QED BY <2>1, <2>2
<1>5. ASSUME NEW c \in Commands, ClientCrash(c) PROVE Goal
  BY <1>5 DEF ClientCrash
<1>6. ASSUME NEW c \in Commands, Claim(c) PROVE Goal
  BY <1>6 DEF Claim
<1>7. ASSUME NEW c \in Commands, Collect(c) PROVE Goal
  BY <1>7 DEF Collect
<1>8. ASSUME NEW c \in Commands, CommitNoOp(c) PROVE Goal
  BY <1>8 DEF CommitNoOp, Decide, StageInv, Stage, CommandStages, Owning
<1>9. ASSUME NEW c \in Commands, ReleaseToPrepare(c) PROVE Goal
  BY <1>9 DEF ReleaseToPrepare
<1>10. ASSUME NEW c \in Commands, PublishPrepared(c) PROVE Goal
  BY <1>10 DEF PublishPrepared
<1>11. ASSUME NEW c \in Commands, Relock(c) PROVE Goal
  BY <1>11 DEF Relock
<1>12. ASSUME NEW c \in Commands, RelockExpires(c) PROVE Goal
  BY <1>12 DEF RelockExpires
<1>13. ASSUME NEW c \in Commands, Retract(c) PROVE Goal
  BY <1>13 DEF Retract, Fails
<1>14. ASSUME NEW c \in Commands, RewriteCanceled(c) PROVE Goal
  BY <1>14 DEF RewriteCanceled, Fails
<1>15. ASSUME NEW c \in Commands, Commit(c) PROVE Goal
  BY <1>15 DEF Commit, Decide, ActionEffects, Owning
<1>16. ASSUME NEW c \in Commands, AbandonEntry(c) PROVE Goal
  BY <1>16 DEF AbandonEntry, Fails
<1>17. ASSUME NEW c \in Commands, FinishAbandoned(c) PROVE Goal
  BY <1>17 DEF FinishAbandoned, Fails, Results
<1>18. ASSUME NEW c \in Commands, RemoveAbandoned(c) PROVE Goal
  BY <1>18 DEF RemoveAbandoned, Fails
<1>19. ASSUME NEW i \in Intents, Ask(i) PROVE Goal
  BY <1>19 DEF Ask
<1>20. CASE Start
  BY <1>20 DEF Start
<1>21. CASE DaemonCrash
  BY <1>21 DEF DaemonCrash
<1>22. CASE Quit
  BY <1>22 DEF Quit
<1>23. CASE LocalHide
  BY <1>23 DEF LocalHide
<1>24. CASE NoticeExit
  BY <1>24 DEF NoticeExit
<1>25. CASE BackoffEnds
  BY <1>25 DEF BackoffEnds
<1>26. CASE DropReference
  BY <1>26 DEF DropReference
<1>27. CASE BeginBatch
  BY <1>27 DEF BeginBatch
<1>28. ASSUME NEW a \in Actions, StartOk(a) PROVE Goal
  BY <1>28 DEF StartOk
<1>29. ASSUME NEW a \in Actions, StartFails(a) PROVE Goal
  BY <1>29 DEF StartFails
<1>30. ASSUME NEW a \in Actions, SkipStart(a) PROVE Goal
  BY <1>30 DEF SkipStart
<1>31. ASSUME NEW a \in Actions, SignalOk(a) PROVE Goal
  BY <1>31 DEF SignalOk
<1>32. ASSUME NEW a \in Actions, SignalFails(a) PROVE Goal
  BY <1>32 DEF SignalFails
<1>33. ASSUME NEW i \in Intents, AbandonIntent(i) PROVE Goal
  BY <1>33 DEF AbandonIntent
<1>34. CASE SkipOff
  BY <1>34 DEF SkipOff
<1>35. CASE Admit
  BY <1>35 DEF Admit
<1>36. CASE AdmitFails
  BY <1>36 DEF AdmitFails
<1>37. CASE Admitted
  BY <1>37 DEF Admitted
<1>38. CASE Offer
  BY <1>38 DEF Offer
<1>39. CASE EndBatch
  BY <1>39 DEF EndBatch
<1>40. CASE Wake
  BY <1>40 DEF Wake
<1>41. CASE Scan
  BY <1>41 DEF Scan
<1>42. CASE ScanDefers
  BY <1>42 DEF ScanDefers
<1>43. CASE PassEnds
  BY <1>43 DEF PassEnds
<1>44. ASSUME NEW a \in Actions, SkipForeign(a) PROVE Goal
  BY <1>44 DEF SkipForeign
<1>45. ASSUME NEW a \in Actions, CloseClaimed(a) PROVE Goal
  BY <1>45 DEF CloseClaimed
<1>46. ASSUME NEW a \in Actions, ClaimIntent(a) PROVE Goal
  BY <1>46 DEF ClaimIntent
<1>47. ASSUME NEW a \in Actions, Unlink(a) PROVE Goal
  BY <1>47 DEF Unlink
<1>48. ASSUME NEW a \in Actions, Apply(a) PROVE Goal
  BY <1>48 DEF Apply
<1>49. ASSUME NEW a \in Actions, RecordApplied(a) PROVE Goal
  BY <1>49 DEF RecordApplied
<1>50. ASSUME NEW a \in Actions, DropEntry(a) PROVE Goal
  BY <1>50 DEF DropEntry
<1>51. ASSUME NEW a \in Actions, FinishDefers(a) PROVE Goal
  BY <1>51 DEF FinishDefers
<1>52. ASSUME NEW c \in Commands, ClaimCommand(c) PROVE Goal
  BY <1>52 DEF ClaimCommand, Undelivered, Visits, Takeable, LiveActions
<1>53. ASSUME NEW c \in Commands, TakeCommand(c) PROVE Goal
  BY <1>53 DEF TakeCommand
<1>54. ASSUME NEW c \in Commands, MeetBarrier(c) PROVE Goal
  BY <1>54 DEF MeetBarrier
<1>55. ASSUME NEW c \in Commands, AbandonRefused(c) PROVE Goal
  BY <1>55 DEF AbandonRefused
<1>56. ASSUME NEW c \in Commands, Settle(c) PROVE Goal
  BY <1>56 DEF Settle, Settled, Visits, ResultOf, Terminal, Results
<1>57. ASSUME NEW c \in Commands, PassDefers(c) PROVE Goal
  BY <1>57 DEF PassDefers
<1>58. ASSUME NEW c \in Commands, PassFails(c) PROVE Goal
  BY <1>58 DEF PassFails
<1>59. ASSUME NEW c \in Commands, Report(c) PROVE Goal
  BY <1>59 DEF Report, Reportable, Results
<1>60. ASSUME NEW c \in Commands, ReportFails(c) PROVE Goal
  BY <1>60 DEF ReportFails
<1>61. ASSUME NEW i \in Intents, ReportIntent(i) PROVE Goal
  BY <1>61 DEF ReportIntent
<1>62. CASE OverlayEnd
  BY <1>62 DEF OverlayEnd
<1>63. CASE UNCHANGED vars
  BY <1>63 DEF vars
<1> QED
  BY <1>1, <1>2, <1>3, <1>4, <1>5, <1>6, <1>7, <1>8, <1>9, <1>10, <1>11, <1>12, <1>13,
     <1>14, <1>15, <1>16, <1>17, <1>18, <1>19, <1>20, <1>21, <1>22, <1>23, <1>24, <1>25,
     <1>26, <1>27, <1>28, <1>29, <1>30, <1>31, <1>32, <1>33, <1>34, <1>35, <1>36, <1>37,
     <1>38, <1>39, <1>40, <1>41, <1>42, <1>43, <1>44, <1>45, <1>46, <1>47, <1>48, <1>49,
     <1>50, <1>51, <1>52, <1>53, <1>54, <1>55, <1>56, <1>57, <1>58, <1>59, <1>60, <1>61,
     <1>62, <1>63
     DEF Next, Client, DaemonCommand, Delivery, Batch, DaemonStep, OverlayEntry, OverlayCommand,
         OverlayStep

\* What those writes may change.
RecordStep(c) ==
  LET r == ctl[c]
      s == ctl'[c]
  IN  /\ OverlayRecord(s)
      /\ \/ s.target_daemon_token = r.target_daemon_token
         \/ cpc[c] = "idle" /\ s.target_daemon_token = gen
      /\ \/ s.action_status = r.action_status
         \/ r.action_status # "None"
         \/ cpc[c] = "idle" /\ s.action_status = "None"
         \/ c \in cur /\ dpc \in {"relocking", "rewriting", "finishing"}
         \/ entry[c] # "none"
         \/ c \in fin
      /\ IsOpen(s) /\ s.action_status # r.action_status =>
           cpc[c] = "idle" \/ (c \in cur /\ dpc = "relocking")
      /\ IsOpen(s) => IsOpen(r) \/ cpc[c] = "idle"
      /\ IsOpen(r) => \/ IsOpen(s) \/ cpc[c] \in {"idle", "deciding"} \/ gen' = gen + 1
                      \/ c \in cur /\ dpc \in Owning /\ dpc' \notin Owning
      /\ Answered(r) => Answered(s) \/ cpc[c] = "idle"
      /\ IsAuthorized(s) => IsAuthorized(r) \/ (c \in cur /\ dpc = "committing" /\ IsOpen(r))
      /\ IsAuthorized(r) => \/ IsAuthorized(s) \/ cpc[c] = "idle" \/ opc = "none"
                            \/ c \in cur /\ dpc = "finishing"
                            \/ opc = "pass"
                            \/ c \in fin /\ opc = "report"
      /\ s.response = "Succeeded" /\ s.effect_kind # "NoOp" =>
           \/ r.response = "Succeeded" /\ r.effect_kind # "NoOp"
           \/ entry[c] = "Applied"
           \/ c \in fin /\ opc = "report"
      /\ s.response \in {"Canceled", "FailedNoEffect"} =>
           \/ r.response \in {"Canceled", "FailedNoEffect"}
           \/ IsOpen(r) \/ entry[c] = "Abandoned"
           \/ c \in cur /\ dpc = "finishing"

LEMMA WrittenIs ==
  ASSUME NEW c \in Commands, TypeOK, RecordInv, QueueInv, StageInv, Written(c)
  PROVE  RecordStep(c)
<1> DEFINE r == ctl[c]
           s == ctl'[c]
<1>a. OverlayRecord(r) /\ gen \in Nat
  BY DEF RecordInv, TypeOK
<1>b. (Answered(r) <=> ~IsOpen(r) /\ ~IsAuthorized(r)) /\ ~(IsOpen(r) /\ IsAuthorized(r))
  BY <1>a, AnsweredIs
<1>c. ASSUME OverlayRecord(s)
      PROVE  (Answered(s) <=> ~IsOpen(s) /\ ~IsAuthorized(s)) /\ ~(IsOpen(s) /\ IsAuthorized(s))
  BY <1>c, AnsweredIs
<1>d. ASSUME OverlayRecord(s), SameOutcome(r, s) PROVE RecordStep(c)
  BY <1>d DEF RecordStep, SameOutcome, IsOpen, Answered, IsAuthorized
<1>1. CASE \/ s = r
           \/ s = Claimed(r)
           \/ s = CallerAbandoned(r)
           \/ Answered(r) /\ s = Acknowledged(r)
  BY <1>a, <1>d, <1>1, NotedIs DEF SameOutcome
<1>2. CASE cpc[c] = "idle" /\ s = Queued(NewControl(r.request, gen))
  BY <1>a, <1>b, <1>c, <1>2, PublishedIs DEF RecordStep
<1>3. CASE /\ IsOpen(r)
           /\ \/ cpc[c] = "deciding" /\ s = Canceled(r)
              \/ /\ c \in cur /\ dpc \in Owning /\ dpc' \notin Owning
                 /\ s = Rejected(r, "AuthorizationExpired")
  BY <1>a, <1>b, <1>3, RefusedIs DEF RecordStep
<1>4. CASE /\ IsOpen(r) /\ c \in cur /\ dpc = "holding" /\ dpc' \notin Owning
           /\ s = Committed(r, "NoOp")
  <2>1. r.action_status = "None"
    BY <1>4 DEF StageInv, Stage, CommandStages, QueueInv
  <2>2. dpc \in Owning /\ "NoOp" \in EffectKinds
    BY <1>4 DEF Owning, EffectKinds
  <2> QED BY <1>a, <1>b, <1>c, <1>4, <2>1, <2>2, CommittedIs DEF RecordStep
<1>5. ASSUME NEW kind \in ActionEffects, IsOpen(r), c \in cur, dpc = "committing",
             dpc' \notin Owning, s = Committed(r, kind)
      PROVE  RecordStep(c)
  <2>1. r.action_status = "Prepared"
    BY <1>5 DEF StageInv, Stage, CommandStages
  <2>2. kind \in EffectKinds /\ kind # "NoOp" /\ dpc \in Owning
    BY <1>5 DEF Owning, EffectKinds, ActionEffects
  <2> QED BY <1>a, <1>b, <1>c, <1>5, <2>1, <2>2, CommittedIs DEF RecordStep
<1>6. CASE \/ IsOpen(r) /\ c \in cur /\ dpc = "relocking" /\ s = WithAction(r, "Prepared")
           \/ /\ r.decision = "Canceled" /\ c \in cur /\ dpc = "rewriting"
              /\ s = WithAction(r, "Abandoned")
           \/ /\ IsAuthorized(r) /\ r.action_status \in LiveActions
              /\ entry[c] = "Prepared" /\ s = WithAction(r, "Claimed")
  BY <1>a, <1>b, <1>6, ProgressIs DEF RecordStep, IsOpen, Answered, IsAuthorized
<1>7. ASSUME NEW result \in Results, Finishable(r, result), s = ActionFinished(r, result),
             \/ c \in cur /\ dpc = "finishing" /\ result = "NoEffect"
             \/ opc = "pass" /\ entry[c] \in Terminal /\ result = ResultOf(entry[c])
             \/ opc = "report" /\ c \in fin /\ result = "Applied"
      PROVE  RecordStep(c)
  <2>1. entry[c] \in Terminal =>
          /\ entry[c] # "none"
          /\ ResultOf(entry[c]) = "Applied" <=> entry[c] = "Applied"
          /\ ResultOf(entry[c]) = "NoEffect" <=> entry[c] = "Abandoned"
    BY DEF Terminal, ResultOf
  <2> QED BY <1>a, <1>b, <1>c, <1>7, <2>1, FinishedIs DEF RecordStep
<1>8. CASE ~Answered(r) /\ opc = "none" /\ gen' = gen + 1 /\ s = GenerationEnded(r)
  BY <1>a, <1>b, <1>c, <1>8, EndedIs DEF RecordStep
<1> QED
  BY <1>1, <1>2, <1>3, <1>4, <1>5, <1>6, <1>7, <1>8 DEF Written

-----------------------------------------------------------------------------
(* Sequences without repetition.                                           *)

LEMMA EmptyIs == Distinct(<<>>) /\ \A x : ~In(x, <<>>)
BY DEF Distinct, In

LEMMA AppendIs ==
  ASSUME NEW S, NEW s \in Seq(S), NEW x \in S
  PROVE  /\ Append(s, x) \in Seq(S)
         /\ \A y : In(y, Append(s, x)) <=> In(y, s) \/ y = x
         /\ Distinct(s) /\ ~In(x, s) => Distinct(Append(s, x))
<1>1. /\ Append(s, x) \in Seq(S) /\ Len(s) \in Nat
      /\ DOMAIN s = 1..Len(s) /\ DOMAIN Append(s, x) = 1..(Len(s) + 1)
      /\ Append(s, x)[Len(s) + 1] = x
      /\ \A n \in 1..Len(s) : Append(s, x)[n] = s[n]
  OBVIOUS
<1>2. \A n \in DOMAIN Append(s, x) : n \in DOMAIN s \/ n = Len(s) + 1
  BY <1>1
<1> QED
  <2>1. ASSUME NEW y PROVE In(y, Append(s, x)) <=> In(y, s) \/ y = x
    BY <1>1, <1>2 DEF In
  <2>2. ASSUME Distinct(s), ~In(x, s) PROVE Distinct(Append(s, x))
    BY <1>1, <1>2, <2>2 DEF Distinct, In
  <2> QED BY <1>1, <2>1, <2>2

LEMMA TailIs ==
  ASSUME NEW S, NEW s \in Seq(S), s # <<>>
  PROVE  /\ Head(s) \in S /\ In(Head(s), s) /\ Tail(s) \in Seq(S)
         /\ \A y : In(y, Tail(s)) => In(y, s)
         /\ Distinct(s) => Distinct(Tail(s)) /\ ~In(Head(s), Tail(s))
<1>1. /\ Tail(s) \in Seq(S) /\ Len(s) \in Nat /\ Len(s) > 0 /\ Head(s) = s[1]
      /\ DOMAIN s = 1..Len(s) /\ DOMAIN Tail(s) = 1..(Len(s) - 1)
      /\ \A n \in DOMAIN Tail(s) : Tail(s)[n] = s[n + 1] /\ n + 1 \in DOMAIN s
  OBVIOUS
<1>2. Head(s) \in S /\ In(Head(s), s)
  BY <1>1 DEF In
<1>3. ASSUME NEW y, In(y, Tail(s)) PROVE In(y, s)
  BY <1>1, <1>3 DEF In
<1>4. ASSUME Distinct(s) PROVE Distinct(Tail(s)) /\ ~In(Head(s), Tail(s))
  <2>1. ASSUME NEW m \in DOMAIN Tail(s), NEW n \in DOMAIN Tail(s), Tail(s)[m] = Tail(s)[n]
        PROVE  m = n
    <3>1. s[m + 1] = s[n + 1] /\ m + 1 \in DOMAIN s /\ n + 1 \in DOMAIN s
      BY <1>1, <2>1
    <3>2. m + 1 = n + 1
      BY <3>1, <1>4 DEF Distinct
    <3> QED BY <3>2, <1>1
  <2>2. ASSUME NEW n \in DOMAIN Tail(s), Tail(s)[n] = Head(s) PROVE FALSE
    <3>1. s[n + 1] = s[1] /\ n + 1 \in DOMAIN s /\ 1 \in DOMAIN s
      BY <1>1, <2>2
    <3>2. n + 1 = 1
      BY <3>1, <1>4 DEF Distinct
    <3> QED BY <3>2, <1>1
  <2> QED BY <2>1, <2>2 DEF Distinct, In
<1> QED BY <1>1, <1>2, <1>3, <1>4

-----------------------------------------------------------------------------
(* The moves of the journal.                                               *)

Publishing(a) ==
  /\ opc \notin Passing /\ dpc \notin Gone /\ UNCHANGED <<ctl, queue, cpc, opc, fin, applied>>
  /\ journal' = Append(journal, a) /\ born' = [born EXCEPT ![a] = gen]
  /\ \/ a \in cur \cap Commands /\ dpc = "preparing" /\ entry' = [entry EXCEPT ![a] = "Prepared"]
        /\ dpc' # "preparing" /\ UNCHANGED <<asked, kept, batch>>
     \/ dpc = "admitting" /\ batch # <<>> /\ a = Head(batch) /\ batch' = Tail(batch)
        /\ entry' = [entry EXCEPT ![a] = "Eligible"] /\ UNCHANGED <<asked, kept>>

\* Who moves an existing entry, from where to where.
Moving(a) ==
  /\ UNCHANGED <<journal, born, gen>> /\ entry[a] # "none"
  /\ \E to \in EntryStates :
       /\ entry' = [entry EXCEPT ![a] = to]
       /\ \/ /\ to = "Abandoned" /\ Abandonable(a) /\ UNCHANGED <<opc, fin, applied>>
             /\ \/ /\ opc \notin Passing /\ a \in cur
                   /\ dpc' \in {"exited", "rewriting", "finishing", "delivering"}
                \/ opc = "pass" /\ (Own(a) => a \in Commands /\ Refused(ctl[a]))
          \/ /\ to = "Indeterminate" /\ entry[a] = "Claimed" /\ opc = "pass"
             /\ UNCHANGED <<opc, fin, applied>>
          \/ /\ to = "Claimed" /\ fin' = {a} /\ opc' = "apply" /\ UNCHANGED applied
             /\ AtEntry(a)
             /\ \/ opc = "pass" /\ a \in Intents /\ Own(a) /\ entry[a] = "Eligible"
                \/ opc = "claimed" /\ a \in Commands
          \/ /\ to = "Applied" /\ entry[a] = "Claimed" /\ a \in fin /\ opc = "record"
             /\ opc' # "record" /\ UNCHANGED <<fin, applied>>
          \/ /\ to = "none" /\ UNCHANGED applied /\ fin' \subseteq fin
             /\ \/ opc = "pass" /\ AtEntry(a) /\ (a \in Intents \/ ~Own(a))
                \/ opc \notin Passing /\ a \in cur /\ dpc = "removing" /\ dpc' # "removing"
                   /\ UNCHANGED <<opc, fin>>
                \/ opc = "unlink" /\ opc' # "unlink" /\ AtEntry(a) /\ a \in Commands
                \/ opc = "drop" /\ opc' # "drop" /\ a \in fin /\ entry[a] = "Applied"

Applying(a) ==
  /\ a \in fin /\ opc = "apply" /\ opc' = "record" /\ UNCHANGED <<journalVars, gen, ctl, fin>>
  /\ applied' = [applied EXCEPT ![a] = @ + 1]

\* A step publishes, moves one entry, applies one action or does none of that.
LEMMA StepJournal ==
  ASSUME TypeOK, [Next]_vars
  PROVE  \/ \E a \in Actions : Publishing(a) \/ Moving(a) \/ Applying(a)
         \/ UNCHANGED <<journalVars, applied>> /\ fin' \subseteq fin
<1> DEFINE Goal == \/ \E a \in Actions : Publishing(a) \/ Moving(a) \/ Applying(a)
                   \/ UNCHANGED <<journalVars, applied>> /\ fin' \subseteq fin
<1> USE DEF treeVars, journalVars, intentVars, viewVars, overlayVars, OverlayFrame, NoOverlay
<1>1. ASSUME NEW c \in Commands, PublishCommand(c) PROVE Goal
  BY <1>1 DEF PublishCommand
<1>2. ASSUME NEW c \in Commands, Inspect(c) PROVE Goal
  BY <1>2 DEF Inspect
<1>3. ASSUME NEW c \in Commands, PollAgain(c) PROVE Goal
  BY <1>3 DEF PollAgain
<1>4. ASSUME NEW c \in Commands, Conclude(c) PROVE Goal
  BY <1>4 DEF Conclude
<1>5. ASSUME NEW c \in Commands, ClientCrash(c) PROVE Goal
  BY <1>5 DEF ClientCrash
<1>6. ASSUME NEW c \in Commands, Claim(c) PROVE Goal
  BY <1>6 DEF Claim
<1>7. ASSUME NEW c \in Commands, Collect(c) PROVE Goal
  BY <1>7 DEF Collect
<1>8. ASSUME NEW c \in Commands, CommitNoOp(c) PROVE Goal
  BY <1>8 DEF CommitNoOp
<1>9. ASSUME NEW c \in Commands, ReleaseToPrepare(c) PROVE Goal
  BY <1>9 DEF ReleaseToPrepare
<1>10. ASSUME NEW c \in Commands, PublishPrepared(c) PROVE Goal
  BY <1>10 DEF PublishPrepared, Publish, Mark, Publishing, JournalFree, Gone, Actions
<1>11. ASSUME NEW c \in Commands, Relock(c) PROVE Goal
  BY <1>11 DEF Relock
<1>12. ASSUME NEW c \in Commands, RelockExpires(c) PROVE Goal
  BY <1>12 DEF RelockExpires, TypeOK, Mark, Abandonable, EntryStates, Terminal, Moving, Actions, JournalFree
<1>13. ASSUME NEW c \in Commands, Retract(c) PROVE Goal
  BY <1>13 DEF Retract, Fails, TypeOK, Mark, Abandonable, EntryStates, Terminal, Moving, Actions, JournalFree
<1>14. ASSUME NEW c \in Commands, RewriteCanceled(c) PROVE Goal
  BY <1>14 DEF RewriteCanceled, Fails
<1>15. ASSUME NEW c \in Commands, Commit(c) PROVE Goal
  BY <1>15 DEF Commit
<1>16. ASSUME NEW c \in Commands, AbandonEntry(c) PROVE Goal
  BY <1>16 DEF AbandonEntry, Fails, TypeOK, Mark, Abandonable, EntryStates, Terminal, Moving, Actions, JournalFree
<1>17. ASSUME NEW c \in Commands, FinishAbandoned(c) PROVE Goal
  BY <1>17 DEF FinishAbandoned, Fails
<1>18. ASSUME NEW c \in Commands, RemoveAbandoned(c) PROVE Goal
  BY <1>18 DEF RemoveAbandoned, Fails, TypeOK, Mark, Abandonable, EntryStates, Terminal, Moving, Actions, JournalFree
<1>19. ASSUME NEW i \in Intents, Ask(i) PROVE Goal
  BY <1>19 DEF Ask
<1>20. CASE Start
  BY <1>20 DEF Start
<1>21. CASE DaemonCrash
  BY <1>21 DEF DaemonCrash
<1>22. CASE Quit
  BY <1>22 DEF Quit
<1>23. CASE LocalHide
  BY <1>23 DEF LocalHide
<1>24. CASE NoticeExit
  BY <1>24 DEF NoticeExit
<1>25. CASE BackoffEnds
  BY <1>25 DEF BackoffEnds
<1>26. CASE DropReference
  BY <1>26 DEF DropReference
<1>27. CASE BeginBatch
  BY <1>27 DEF BeginBatch
<1>28. ASSUME NEW a \in Actions, StartOk(a) PROVE Goal
  BY <1>28 DEF StartOk
<1>29. ASSUME NEW a \in Actions, StartFails(a) PROVE Goal
  BY <1>29 DEF StartFails
<1>30. ASSUME NEW a \in Actions, SkipStart(a) PROVE Goal
  BY <1>30 DEF SkipStart
<1>31. ASSUME NEW a \in Actions, SignalOk(a) PROVE Goal
  BY <1>31 DEF SignalOk
<1>32. ASSUME NEW a \in Actions, SignalFails(a) PROVE Goal
  BY <1>32 DEF SignalFails
<1>33. ASSUME NEW i \in Intents, AbandonIntent(i) PROVE Goal
  BY <1>33 DEF AbandonIntent, TypeOK, Mark, Abandonable, EntryStates, Terminal, Moving, Actions, JournalFree
<1>34. CASE SkipOff
  BY <1>34 DEF SkipOff
<1>35. CASE Admit
  <2>1. Head(batch) \in Actions
    BY <1>35, TailIs DEF Admit, TypeOK, Actions
  <2> QED BY <1>35, <2>1 DEF Admit, Publish, Mark, Publishing, JournalFree, Gone
<1>36. CASE AdmitFails
  BY <1>36 DEF AdmitFails
<1>37. CASE Admitted
  BY <1>37 DEF Admitted
<1>38. CASE Offer
  BY <1>38 DEF Offer
<1>39. CASE EndBatch
  BY <1>39 DEF EndBatch
<1>40. CASE Wake
  BY <1>40 DEF Wake
<1>41. CASE Scan
  BY <1>41 DEF Scan
<1>42. CASE ScanDefers
  BY <1>42 DEF ScanDefers, Defer
<1>43. CASE PassEnds
  BY <1>43 DEF PassEnds, EndPass
<1>44. ASSUME NEW a \in Actions, SkipForeign(a) PROVE Goal
  <2>1. /\ opc = "pass" /\ entry[a] # "none" /\ ~Own(a) /\ AtEntry(a)
        /\ UNCHANGED <<journal, born, gen, opc, fin, applied>>
    BY <1>44 DEF SkipForeign, Visits, AtEntry
  <2>2. CASE entry[a] \in Terminal
    <3>1. Mark(a, "none")
      BY <1>44, <2>2, Zenon DEF SkipForeign, Terminal
    <3> QED BY <2>1, <3>1 DEF Mark, Moving, EntryStates
  <2>3. CASE entry[a] = "Claimed"
    <3>1. Mark(a, "Indeterminate")
      BY <1>44, <2>3, Zenon DEF SkipForeign, Terminal
    <3> QED BY <2>1, <2>3, <3>1 DEF Mark, Moving, EntryStates, Terminal
  <2>4. CASE entry[a] \notin Terminal /\ entry[a] # "Claimed"
    <3>1. Mark(a, "Abandoned")
      BY <1>44, <2>4, Zenon DEF SkipForeign
    <3>2. entry[a] \in EntryStates
      BY DEF TypeOK
    <3> QED BY <2>1, <2>4, <3>1, <3>2 DEF Mark, Moving, EntryStates, Terminal, Abandonable
  <2> QED BY <2>2, <2>3, <2>4
<1>45. ASSUME NEW a \in Actions, CloseClaimed(a) PROVE Goal
  BY <1>45 DEF CloseClaimed, Visits, AtEntry, TypeOK, Mark, Abandonable, EntryStates, Terminal, Moving, Actions, JournalFree
<1>46. ASSUME NEW a \in Actions, ClaimIntent(a) PROVE Goal
  <2>1. entry[a] # "none"
    BY <1>46 DEF ClaimIntent, Visits, AtEntry
  <2> QED BY <1>46, <2>1 DEF ClaimIntent, Take, Visits, TypeOK, Mark, Abandonable, EntryStates, Terminal, Moving, Actions, JournalFree
<1>47. ASSUME NEW a \in Actions, Unlink(a) PROVE Goal
  <2>1. entry[a] # "none"
    BY <1>47 DEF Unlink, AtEntry
  <2> QED BY <1>47, <2>1 DEF Unlink, Mark, Moving, EntryStates, Terminal
<1>48. ASSUME NEW a \in Actions, Apply(a) PROVE Goal
  BY <1>48 DEF Apply, Applying
<1>49. ASSUME NEW a \in Actions, RecordApplied(a) PROVE Goal
  BY <1>49 DEF RecordApplied, TypeOK, Mark, Abandonable, EntryStates, Terminal, Moving, Actions, JournalFree
<1>50. ASSUME NEW a \in Actions, DropEntry(a) PROVE Goal
  BY <1>50 DEF DropEntry, TypeOK, Mark, Abandonable, EntryStates, Terminal, Moving, Actions, JournalFree
<1>51. ASSUME NEW a \in Actions, FinishDefers(a) PROVE Goal
  BY <1>51 DEF FinishDefers, Defer
<1>52. ASSUME NEW c \in Commands, ClaimCommand(c) PROVE Goal
  BY <1>52 DEF ClaimCommand
<1>53. ASSUME NEW c \in Commands, TakeCommand(c) PROVE Goal
  <2>1. entry[c] # "none"
    BY <1>53 DEF TakeCommand, Visits, AtEntry
  <2> QED BY <1>53, <2>1 DEF TakeCommand, Take, TypeOK, Mark, Abandonable, EntryStates, Terminal, Moving, Actions, JournalFree
<1>54. ASSUME NEW c \in Commands, MeetBarrier(c) PROVE Goal
  BY <1>54 DEF MeetBarrier, EndPass
<1>55. ASSUME NEW c \in Commands, AbandonRefused(c) PROVE Goal
  BY <1>55 DEF AbandonRefused, Undelivered, Visits, AtEntry, TypeOK, Mark, Abandonable, EntryStates, Terminal, Moving, Actions, JournalFree
<1>56. ASSUME NEW c \in Commands, Settle(c) PROVE Goal
  BY <1>56 DEF Settle
<1>57. ASSUME NEW c \in Commands, PassDefers(c) PROVE Goal
  BY <1>57 DEF PassDefers, Defer
<1>58. ASSUME NEW c \in Commands, PassFails(c) PROVE Goal
  BY <1>58 DEF PassFails, EndPass
<1>59. ASSUME NEW c \in Commands, Report(c) PROVE Goal
  BY <1>59 DEF Report
<1>60. ASSUME NEW c \in Commands, ReportFails(c) PROVE Goal
  BY <1>60 DEF ReportFails, Defer
<1>61. ASSUME NEW i \in Intents, ReportIntent(i) PROVE Goal
  BY <1>61 DEF ReportIntent
<1>62. CASE OverlayEnd
  BY <1>62 DEF OverlayEnd
<1>63. CASE UNCHANGED vars
  BY <1>63 DEF vars
<1> QED
  BY <1>1, <1>2, <1>3, <1>4, <1>5, <1>6, <1>7, <1>8, <1>9, <1>10, <1>11, <1>12, <1>13,
     <1>14, <1>15, <1>16, <1>17, <1>18, <1>19, <1>20, <1>21, <1>22, <1>23, <1>24, <1>25,
     <1>26, <1>27, <1>28, <1>29, <1>30, <1>31, <1>32, <1>33, <1>34, <1>35, <1>36, <1>37,
     <1>38, <1>39, <1>40, <1>41, <1>42, <1>43, <1>44, <1>45, <1>46, <1>47, <1>48, <1>49,
     <1>50, <1>51, <1>52, <1>53, <1>54, <1>55, <1>56, <1>57, <1>58, <1>59, <1>60, <1>61,
     <1>62, <1>63
     DEF Next, Client, DaemonCommand, Delivery, Batch, DaemonStep, OverlayEntry, OverlayCommand,
         OverlayStep

-----------------------------------------------------------------------------
(* Types.                                                                  *)

\* The entry a claim pass has reached.
LEMMA AtEntryIs ==
  ASSUME TypeOK, at # 0, NEW a \in Actions, AtEntry(a)
  PROVE  /\ entry[a] # "none"
         /\ \E n \in DOMAIN journal :
              /\ journal[n] = a /\ at <= n
              /\ \A m \in DOMAIN journal : at <= m /\ m < n => entry[journal[m]] = "none"
<1>1. PICK n \in at..Len(journal) :
        /\ journal[n] = a /\ entry[a] # "none"
        /\ \A m \in at..(n - 1) : entry[journal[m]] = "none"
  BY DEF AtEntry
<1>2. at \in Nat /\ Len(journal) \in Nat /\ DOMAIN journal = 1..Len(journal)
  BY DEF TypeOK
<1> QED BY <1>1, <1>2

LEMMA TypeStep ==
  ASSUME TypeOK, HandInv, [Next]_vars, ctl' = [c \in Commands |-> ctl'[c]], \A c \in Commands : RecordStep(c)
  PROVE  TypeOK'
<1> DEFINE Goal == TypeOK'
<1>c. ctl' \in [Commands -> Controls]
  BY DEF RecordStep, OverlayRecord
<1>a. gen + 1 \in Nat /\ children + 1 \in Nat /\ Commands \subseteq Actions /\ Intents \subseteq Actions
  BY DEF TypeOK, Actions
<1>b. \A a \in Actions : applied[a] + 1 \in Nat
  <2> TAKE a \in Actions
  <2>1. applied[a] \in Nat
    BY DEF TypeOK
  <2> QED BY <2>1
<1>d. /\ <<>> \in Seq(Intents) /\ <<>> \in Seq(Commands)
      /\ \A q \in Seq(Commands) : q # <<>> => Tail(q) \in Seq(Commands)
      /\ \A q \in Seq(Intents) : q # <<>> => Tail(q) \in Seq(Intents) /\ Head(q) \in Intents
  OBVIOUS
<1>e. ASSUME NEW a \in Actions, Visits(a)
      PROVE  (1 + CHOOSE n \in DOMAIN journal : journal[n] = a) \in Nat
  <2>1. \E n \in DOMAIN journal : journal[n] = a
    BY <1>e, AtEntryIs DEF Visits, HandInv, Passing
  <2>2. (CHOOSE n \in DOMAIN journal : journal[n] = a) \in DOMAIN journal
    BY <2>1
  <2>3. journal \in Seq(Actions)
    BY DEF TypeOK
  <2>4. DOMAIN journal \subseteq Nat
    BY <2>3
  <2> QED BY <2>2, <2>4
<1> USE <1>c DEF TypeOK, treeVars, journalVars, intentVars, viewVars, overlayVars, OverlayFrame, NoOverlay,
        Gone, Owning, Journaling, DaemonPCs, Passing, OverlayPCs
<1>1. ASSUME NEW c \in Commands, PublishCommand(c) PROVE Goal
  <2>1. queue' \in Seq(Commands) /\ cpc' \in [Commands -> {"idle", "waiting", "deciding", "gone"}]
    BY <1>1 DEF PublishCommand
  <2> QED BY <1>1, <2>1 DEF PublishCommand
<1>2. ASSUME NEW c \in Commands, Inspect(c) PROVE Goal
  BY <1>2 DEF Inspect
<1>3. ASSUME NEW c \in Commands, PollAgain(c) PROVE Goal
  BY <1>3 DEF PollAgain
<1>4. ASSUME NEW c \in Commands, Conclude(c) PROVE Goal
  BY <1>4 DEF Conclude
<1>5. ASSUME NEW c \in Commands, ClientCrash(c) PROVE Goal
  BY <1>5 DEF ClientCrash
<1>6. ASSUME NEW c \in Commands, Claim(c) PROVE Goal
  BY <1>6, <1>a, <1>d DEF Claim
<1>7. ASSUME NEW c \in Commands, Collect(c) PROVE Goal
  BY <1>7 DEF Collect
<1>8. ASSUME NEW c \in Commands, CommitNoOp(c) PROVE Goal
  BY <1>8 DEF CommitNoOp
<1>9. ASSUME NEW c \in Commands, ReleaseToPrepare(c) PROVE Goal
  BY <1>9 DEF ReleaseToPrepare
<1>10. ASSUME NEW c \in Commands, PublishPrepared(c) PROVE Goal
  <2>1. /\ journal' \in Seq(Actions) /\ born' \in [Actions -> Nat]
        /\ entry' \in [Actions -> EntryStates]
    BY <1>10, <1>a DEF PublishPrepared, Publish, Mark, EntryStates, Terminal
  <2> QED BY <1>10, <2>1 DEF PublishPrepared
<1>11. ASSUME NEW c \in Commands, Relock(c) PROVE Goal
  BY <1>11 DEF Relock
<1>12. ASSUME NEW c \in Commands, RelockExpires(c) PROVE Goal
  BY <1>12, <1>a DEF RelockExpires, Mark, EntryStates, Terminal
<1>13. ASSUME NEW c \in Commands, Retract(c) PROVE Goal
  BY <1>13, <1>a DEF Retract, Fails, Mark, EntryStates, Terminal
<1>14. ASSUME NEW c \in Commands, RewriteCanceled(c) PROVE Goal
  BY <1>14 DEF RewriteCanceled, Fails
<1>15. ASSUME NEW c \in Commands, Commit(c) PROVE Goal
  BY <1>15 DEF Commit
<1>16. ASSUME NEW c \in Commands, AbandonEntry(c) PROVE Goal
  BY <1>16, <1>a DEF AbandonEntry, Fails, Mark, EntryStates, Terminal
<1>17. ASSUME NEW c \in Commands, FinishAbandoned(c) PROVE Goal
  BY <1>17 DEF FinishAbandoned, Fails
<1>18. ASSUME NEW c \in Commands, RemoveAbandoned(c) PROVE Goal
  BY <1>18, <1>a DEF RemoveAbandoned, Fails, Mark, EntryStates, Terminal
<1>19. ASSUME NEW i \in Intents, Ask(i) PROVE Goal
  <2>1. asked' \in Seq(Intents)
    BY <1>19 DEF Ask
  <2> QED BY <1>19, <2>1 DEF Ask
<1>20. CASE Start
  BY <1>20, <1>a, <1>d DEF Start
<1>21. CASE DaemonCrash
  BY <1>21 DEF DaemonCrash
<1>22. CASE Quit
  BY <1>22 DEF Quit
<1>23. CASE LocalHide
  BY <1>23 DEF LocalHide
<1>24. CASE NoticeExit
  BY <1>24 DEF NoticeExit
<1>25. CASE BackoffEnds
  BY <1>25, ZenonT(40) DEF BackoffEnds
<1>26. CASE DropReference
  BY <1>26, <1>a, <1>d DEF DropReference
<1>27. CASE BeginBatch
  <2>1. CASE kept # <<>>
    BY <1>27, <2>1, <1>d DEF BeginBatch
  <2>2. CASE kept = <<>>
    BY <1>27, <2>2, <1>d DEF BeginBatch
  <2> QED BY <2>1, <2>2
<1>28. ASSUME NEW a \in Actions, StartOk(a) PROVE Goal
  BY <1>28, <1>a DEF StartOk
<1>29. ASSUME NEW a \in Actions, StartFails(a) PROVE Goal
  BY <1>29 DEF StartFails
<1>30. ASSUME NEW a \in Actions, SkipStart(a) PROVE Goal
  BY <1>30 DEF SkipStart, Continue
<1>31. ASSUME NEW a \in Actions, SignalOk(a) PROVE Goal
  BY <1>31 DEF SignalOk, Continue
<1>32. ASSUME NEW a \in Actions, SignalFails(a) PROVE Goal
  BY <1>32 DEF SignalFails
<1>33. ASSUME NEW i \in Intents, AbandonIntent(i) PROVE Goal
  BY <1>33, <1>a DEF AbandonIntent, Mark, EntryStates, Terminal
<1>34. CASE SkipOff
  BY <1>34, <1>a, <1>d DEF SkipOff
<1>35. CASE Admit
  <2>0. Head(batch) \in Intents /\ Tail(batch) \in Seq(Intents)
    BY <1>35, <1>d DEF Admit
  <2>1. journal' \in Seq(Actions) /\ offered' \in Seq(Intents)
    BY <1>35, <1>a, <2>0 DEF Admit, Publish
  <2>2. born' \in [Actions -> Nat] /\ entry' \in [Actions -> EntryStates]
    BY <1>35, <1>a, <2>0 DEF Admit, Publish, Mark, EntryStates, Terminal
  <2> QED BY <1>35, <2>0, <2>1, <2>2 DEF Admit
<1>36. CASE AdmitFails
  BY <1>36 DEF AdmitFails
<1>37. CASE Admitted
  BY <1>37 DEF Admitted
<1>38. CASE Offer
  BY <1>38, <1>a, <1>d DEF Offer
<1>39. CASE EndBatch
  BY <1>39 DEF EndBatch
<1>40. CASE Wake
  BY <1>40 DEF Wake
<1>41. CASE Scan
  BY <1>41 DEF Scan
<1>42. CASE ScanDefers
  BY <1>42, <1>a DEF ScanDefers, Defer
<1>43. CASE PassEnds
  BY <1>43 DEF PassEnds, EndPass
<1>44. ASSUME NEW a \in Actions, SkipForeign(a) PROVE Goal
  <2>1. \E to \in EntryStates : Mark(a, to)
    <3>1. CASE entry[a] \in Terminal
      BY <1>44, <3>1, Zenon DEF SkipForeign, EntryStates, Terminal
    <3>2. CASE entry[a] \notin Terminal /\ entry[a] = "Claimed"
      BY <1>44, <3>2, Zenon DEF SkipForeign, EntryStates, Terminal
    <3>3. CASE entry[a] \notin Terminal /\ entry[a] # "Claimed"
      BY <1>44, <3>3, Zenon DEF SkipForeign, EntryStates, Terminal
    <3> QED BY <3>1, <3>2, <3>3
  <2>2. entry' \in [Actions -> EntryStates]
    BY <2>1 DEF Mark
  <2>3. at' \in Nat
    <3>1. Visits(a) /\ StepOver(a)
      BY <1>44 DEF SkipForeign
    <3> QED BY <1>e, <3>1 DEF StepOver
  <2> QED BY <1>44, <2>2, <2>3 DEF SkipForeign
<1>45. ASSUME NEW a \in Actions, CloseClaimed(a) PROVE Goal
  BY <1>45, <1>a DEF CloseClaimed, Mark, EntryStates, Terminal
<1>46. ASSUME NEW a \in Actions, ClaimIntent(a) PROVE Goal
  BY <1>46, <1>a DEF ClaimIntent, Take, Mark, EntryStates, Terminal
<1>47. ASSUME NEW a \in Actions, Unlink(a) PROVE Goal
  BY <1>47, <1>a DEF Unlink, Mark, EntryStates, Terminal
<1>48. ASSUME NEW a \in Actions, Apply(a) PROVE Goal
  BY <1>48, <1>b DEF Apply
<1>49. ASSUME NEW a \in Actions, RecordApplied(a) PROVE Goal
  BY <1>49, <1>a DEF RecordApplied, Mark, EntryStates, Terminal
<1>50. ASSUME NEW a \in Actions, DropEntry(a) PROVE Goal
  BY <1>50, <1>a DEF DropEntry, Mark, EntryStates, Terminal
<1>51. ASSUME NEW a \in Actions, FinishDefers(a) PROVE Goal
  BY <1>51, <1>a DEF FinishDefers, Defer
<1>52. ASSUME NEW c \in Commands, ClaimCommand(c) PROVE Goal
  BY <1>52 DEF ClaimCommand
<1>53. ASSUME NEW c \in Commands, TakeCommand(c) PROVE Goal
  BY <1>53, <1>a DEF TakeCommand, Take, Mark, EntryStates, Terminal
<1>54. ASSUME NEW c \in Commands, MeetBarrier(c) PROVE Goal
  BY <1>54 DEF MeetBarrier, EndPass
<1>55. ASSUME NEW c \in Commands, AbandonRefused(c) PROVE Goal
  BY <1>55, <1>a DEF AbandonRefused, Mark, EntryStates, Terminal
<1>56. ASSUME NEW c \in Commands, Settle(c) PROVE Goal
  BY <1>56 DEF Settle
<1>57. ASSUME NEW c \in Commands, PassDefers(c) PROVE Goal
  BY <1>57, <1>a DEF PassDefers, Defer
<1>58. ASSUME NEW c \in Commands, PassFails(c) PROVE Goal
  BY <1>58 DEF PassFails, EndPass
<1>59. ASSUME NEW c \in Commands, Report(c) PROVE Goal
  BY <1>59 DEF Report
<1>60. ASSUME NEW c \in Commands, ReportFails(c) PROVE Goal
  BY <1>60, <1>a DEF ReportFails, Defer
<1>61. ASSUME NEW i \in Intents, ReportIntent(i) PROVE Goal
  BY <1>61 DEF ReportIntent
<1>62. CASE OverlayEnd
  BY <1>62 DEF OverlayEnd
<1>63. CASE UNCHANGED vars
  BY <1>63 DEF vars
<1> QED
  BY <1>1, <1>2, <1>3, <1>4, <1>5, <1>6, <1>7, <1>8, <1>9, <1>10, <1>11, <1>12, <1>13,
     <1>14, <1>15, <1>16, <1>17, <1>18, <1>19, <1>20, <1>21, <1>22, <1>23, <1>24, <1>25,
     <1>26, <1>27, <1>28, <1>29, <1>30, <1>31, <1>32, <1>33, <1>34, <1>35, <1>36, <1>37,
     <1>38, <1>39, <1>40, <1>41, <1>42, <1>43, <1>44, <1>45, <1>46, <1>47, <1>48, <1>49,
     <1>50, <1>51, <1>52, <1>53, <1>54, <1>55, <1>56, <1>57, <1>58, <1>59, <1>60, <1>61,
     <1>62, <1>63
     DEF Next, Client, DaemonCommand, Delivery, Batch, DaemonStep, OverlayEntry, OverlayCommand,
         OverlayStep

-----------------------------------------------------------------------------
(* Generations, the queue and the waiting intents.                         *)

\* A new generation begins with nothing in memory, with no overlay running.
NewGeneration ==
  /\ gen' = gen + 1 /\ opc = "none" /\ dpc' = "loop" /\ cur' = {} /\ queue' = <<>>
  /\ asked' = <<>> /\ kept' = <<>> /\ batch' = <<>>
  /\ UNCHANGED <<journalVars, controls, cpc, overlayVars, applied>>

LEMMA StepGeneration ==
  ASSUME TypeOK, [Next]_vars
  PROVE  NewGeneration \/ (gen' = gen /\ (dpc' \in Gone \/ dpc \notin Gone))
<1> DEFINE Goal == NewGeneration \/ (gen' = gen /\ (dpc' \in Gone \/ dpc \notin Gone))
<1> USE DEF Gone, OverlayFrame
<1>1. ASSUME NEW c \in Commands, PublishCommand(c) PROVE Goal
  BY <1>1 DEF PublishCommand
<1>2. ASSUME NEW c \in Commands, Inspect(c) PROVE Goal
  BY <1>2 DEF Inspect
<1>3. ASSUME NEW c \in Commands, PollAgain(c) PROVE Goal
  BY <1>3 DEF PollAgain
<1>4. ASSUME NEW c \in Commands, Conclude(c) PROVE Goal
  BY <1>4 DEF Conclude
<1>5. ASSUME NEW c \in Commands, ClientCrash(c) PROVE Goal
  BY <1>5 DEF ClientCrash
<1>6. ASSUME NEW c \in Commands, Claim(c) PROVE Goal
  BY <1>6 DEF Claim
<1>7. ASSUME NEW c \in Commands, Collect(c) PROVE Goal
  BY <1>7 DEF Collect
<1>8. ASSUME NEW c \in Commands, CommitNoOp(c) PROVE Goal
  BY <1>8 DEF CommitNoOp
<1>9. ASSUME NEW c \in Commands, ReleaseToPrepare(c) PROVE Goal
  BY <1>9 DEF ReleaseToPrepare
<1>10. ASSUME NEW c \in Commands, PublishPrepared(c) PROVE Goal
  BY <1>10 DEF PublishPrepared
<1>11. ASSUME NEW c \in Commands, Relock(c) PROVE Goal
  BY <1>11 DEF Relock
<1>12. ASSUME NEW c \in Commands, RelockExpires(c) PROVE Goal
  BY <1>12 DEF RelockExpires
<1>13. ASSUME NEW c \in Commands, Retract(c) PROVE Goal
  BY <1>13 DEF Retract, Fails
<1>14. ASSUME NEW c \in Commands, RewriteCanceled(c) PROVE Goal
  BY <1>14 DEF RewriteCanceled, Fails
<1>15. ASSUME NEW c \in Commands, Commit(c) PROVE Goal
  BY <1>15 DEF Commit
<1>16. ASSUME NEW c \in Commands, AbandonEntry(c) PROVE Goal
  BY <1>16 DEF AbandonEntry, Fails
<1>17. ASSUME NEW c \in Commands, FinishAbandoned(c) PROVE Goal
  BY <1>17 DEF FinishAbandoned, Fails
<1>18. ASSUME NEW c \in Commands, RemoveAbandoned(c) PROVE Goal
  BY <1>18 DEF RemoveAbandoned, Fails
<1>19. ASSUME NEW i \in Intents, Ask(i) PROVE Goal
  BY <1>19 DEF Ask, Gone
<1>20. CASE Start
  BY <1>20 DEF Start, NewGeneration
<1>21. CASE DaemonCrash
  BY <1>21 DEF DaemonCrash
<1>22. CASE Quit
  BY <1>22 DEF Quit
<1>23. CASE LocalHide
  BY <1>23 DEF LocalHide
<1>24. CASE NoticeExit
  BY <1>24 DEF NoticeExit, Gone
<1>25. CASE BackoffEnds
  BY <1>25 DEF BackoffEnds
<1>26. CASE DropReference
  BY <1>26 DEF DropReference
<1>27. CASE BeginBatch
  BY <1>27 DEF BeginBatch
<1>28. ASSUME NEW a \in Actions, StartOk(a) PROVE Goal
  BY <1>28 DEF StartOk
<1>29. ASSUME NEW a \in Actions, StartFails(a) PROVE Goal
  BY <1>29 DEF StartFails
<1>30. ASSUME NEW a \in Actions, SkipStart(a) PROVE Goal
  BY <1>30 DEF SkipStart, Continue
<1>31. ASSUME NEW a \in Actions, SignalOk(a) PROVE Goal
  BY <1>31 DEF SignalOk, Continue
<1>32. ASSUME NEW a \in Actions, SignalFails(a) PROVE Goal
  BY <1>32 DEF SignalFails
<1>33. ASSUME NEW i \in Intents, AbandonIntent(i) PROVE Goal
  BY <1>33 DEF AbandonIntent
<1>34. CASE SkipOff
  BY <1>34 DEF SkipOff
<1>35. CASE Admit
  BY <1>35 DEF Admit
<1>36. CASE AdmitFails
  BY <1>36 DEF AdmitFails
<1>37. CASE Admitted
  BY <1>37 DEF Admitted
<1>38. CASE Offer
  BY <1>38 DEF Offer
<1>39. CASE EndBatch
  BY <1>39 DEF EndBatch
<1>40. CASE Wake
  BY <1>40 DEF Wake
<1>41. CASE Scan
  BY <1>41 DEF Scan
<1>42. CASE ScanDefers
  BY <1>42 DEF ScanDefers
<1>43. CASE PassEnds
  BY <1>43 DEF PassEnds
<1>44. ASSUME NEW a \in Actions, SkipForeign(a) PROVE Goal
  BY <1>44 DEF SkipForeign
<1>45. ASSUME NEW a \in Actions, CloseClaimed(a) PROVE Goal
  BY <1>45 DEF CloseClaimed
<1>46. ASSUME NEW a \in Actions, ClaimIntent(a) PROVE Goal
  BY <1>46 DEF ClaimIntent
<1>47. ASSUME NEW a \in Actions, Unlink(a) PROVE Goal
  BY <1>47 DEF Unlink
<1>48. ASSUME NEW a \in Actions, Apply(a) PROVE Goal
  BY <1>48 DEF Apply
<1>49. ASSUME NEW a \in Actions, RecordApplied(a) PROVE Goal
  BY <1>49 DEF RecordApplied
<1>50. ASSUME NEW a \in Actions, DropEntry(a) PROVE Goal
  BY <1>50 DEF DropEntry
<1>51. ASSUME NEW a \in Actions, FinishDefers(a) PROVE Goal
  BY <1>51 DEF FinishDefers
<1>52. ASSUME NEW c \in Commands, ClaimCommand(c) PROVE Goal
  BY <1>52 DEF ClaimCommand
<1>53. ASSUME NEW c \in Commands, TakeCommand(c) PROVE Goal
  BY <1>53 DEF TakeCommand
<1>54. ASSUME NEW c \in Commands, MeetBarrier(c) PROVE Goal
  BY <1>54 DEF MeetBarrier
<1>55. ASSUME NEW c \in Commands, AbandonRefused(c) PROVE Goal
  BY <1>55 DEF AbandonRefused
<1>56. ASSUME NEW c \in Commands, Settle(c) PROVE Goal
  BY <1>56 DEF Settle
<1>57. ASSUME NEW c \in Commands, PassDefers(c) PROVE Goal
  BY <1>57 DEF PassDefers
<1>58. ASSUME NEW c \in Commands, PassFails(c) PROVE Goal
  BY <1>58 DEF PassFails
<1>59. ASSUME NEW c \in Commands, Report(c) PROVE Goal
  BY <1>59 DEF Report
<1>60. ASSUME NEW c \in Commands, ReportFails(c) PROVE Goal
  BY <1>60 DEF ReportFails
<1>61. ASSUME NEW i \in Intents, ReportIntent(i) PROVE Goal
  BY <1>61 DEF ReportIntent
<1>62. CASE OverlayEnd
  BY <1>62 DEF OverlayEnd
<1>63. CASE UNCHANGED vars
  BY <1>63 DEF vars
<1> QED
  BY <1>1, <1>2, <1>3, <1>4, <1>5, <1>6, <1>7, <1>8, <1>9, <1>10, <1>11, <1>12, <1>13,
     <1>14, <1>15, <1>16, <1>17, <1>18, <1>19, <1>20, <1>21, <1>22, <1>23, <1>24, <1>25,
     <1>26, <1>27, <1>28, <1>29, <1>30, <1>31, <1>32, <1>33, <1>34, <1>35, <1>36, <1>37,
     <1>38, <1>39, <1>40, <1>41, <1>42, <1>43, <1>44, <1>45, <1>46, <1>47, <1>48, <1>49,
     <1>50, <1>51, <1>52, <1>53, <1>54, <1>55, <1>56, <1>57, <1>58, <1>59, <1>60, <1>61,
     <1>62, <1>63
     DEF Next, Client, DaemonCommand, Delivery, Batch, DaemonStep, OverlayEntry, OverlayCommand,
         OverlayStep

\* The publication of a command.
Sending(c) ==
  /\ cpc[c] = "idle" /\ dpc \notin Gone /\ cpc' = [cpc EXCEPT ![c] = "waiting"]
  /\ controls' = controls \cup {c} /\ queue' = Append(queue, c)
  /\ ctl' = [ctl EXCEPT ![c] = Queued(NewControl(@.request, gen))]
  /\ UNCHANGED <<journalVars, gen, dpc, cur, overlayVars, applied>>

\* A step publishes a command, takes one from the queue, empties it or leaves it.
LEMMA StepQueue ==
  ASSUME TypeOK, [Next]_vars
  PROVE  \/ \E c \in Commands : Sending(c)
         \/ /\ queue' = queue \/ queue' = <<>> \/ (queue # <<>> /\ queue' = Tail(queue))
            /\ \A c \in Commands : cpc[c] = "idle" <=> cpc'[c] = "idle"
            /\ controls' \subseteq controls
<1> DEFINE Goal == \/ \E c \in Commands : Sending(c)
                   \/ /\ queue' = queue \/ queue' = <<>> \/ (queue # <<>> /\ queue' = Tail(queue))
                      /\ \A c \in Commands : cpc[c] = "idle" <=> cpc'[c] = "idle"
                      /\ controls' \subseteq controls
<1> USE DEF TypeOK, treeVars, OverlayFrame
<1>1. ASSUME NEW c \in Commands, PublishCommand(c) PROVE Goal
  <2>1. Sending(c)
    BY <1>1 DEF PublishCommand, Record, Sending
  <2> QED BY <2>1
<1>2. ASSUME NEW c \in Commands, Inspect(c) PROVE Goal
  BY <1>2 DEF Inspect
<1>3. ASSUME NEW c \in Commands, PollAgain(c) PROVE Goal
  BY <1>3 DEF PollAgain
<1>4. ASSUME NEW c \in Commands, Conclude(c) PROVE Goal
  BY <1>4 DEF Conclude
<1>5. ASSUME NEW c \in Commands, ClientCrash(c) PROVE Goal
  BY <1>5 DEF ClientCrash
<1>6. ASSUME NEW c \in Commands, Claim(c) PROVE Goal
  BY <1>6 DEF Claim
<1>7. ASSUME NEW c \in Commands, Collect(c) PROVE Goal
  BY <1>7 DEF Collect
<1>8. ASSUME NEW c \in Commands, CommitNoOp(c) PROVE Goal
  BY <1>8 DEF CommitNoOp
<1>9. ASSUME NEW c \in Commands, ReleaseToPrepare(c) PROVE Goal
  BY <1>9 DEF ReleaseToPrepare
<1>10. ASSUME NEW c \in Commands, PublishPrepared(c) PROVE Goal
  BY <1>10 DEF PublishPrepared
<1>11. ASSUME NEW c \in Commands, Relock(c) PROVE Goal
  BY <1>11 DEF Relock
<1>12. ASSUME NEW c \in Commands, RelockExpires(c) PROVE Goal
  BY <1>12 DEF RelockExpires
<1>13. ASSUME NEW c \in Commands, Retract(c) PROVE Goal
  BY <1>13 DEF Retract, Fails
<1>14. ASSUME NEW c \in Commands, RewriteCanceled(c) PROVE Goal
  BY <1>14 DEF RewriteCanceled, Fails
<1>15. ASSUME NEW c \in Commands, Commit(c) PROVE Goal
  BY <1>15 DEF Commit
<1>16. ASSUME NEW c \in Commands, AbandonEntry(c) PROVE Goal
  BY <1>16 DEF AbandonEntry, Fails
<1>17. ASSUME NEW c \in Commands, FinishAbandoned(c) PROVE Goal
  BY <1>17 DEF FinishAbandoned, Fails
<1>18. ASSUME NEW c \in Commands, RemoveAbandoned(c) PROVE Goal
  BY <1>18 DEF RemoveAbandoned, Fails
<1>19. ASSUME NEW i \in Intents, Ask(i) PROVE Goal
  BY <1>19 DEF Ask
<1>20. CASE Start
  BY <1>20 DEF Start
<1>21. CASE DaemonCrash
  BY <1>21 DEF DaemonCrash
<1>22. CASE Quit
  BY <1>22 DEF Quit
<1>23. CASE LocalHide
  BY <1>23 DEF LocalHide
<1>24. CASE NoticeExit
  BY <1>24 DEF NoticeExit
<1>25. CASE BackoffEnds
  BY <1>25 DEF BackoffEnds
<1>26. CASE DropReference
  BY <1>26 DEF DropReference
<1>27. CASE BeginBatch
  BY <1>27 DEF BeginBatch
<1>28. ASSUME NEW a \in Actions, StartOk(a) PROVE Goal
  BY <1>28 DEF StartOk
<1>29. ASSUME NEW a \in Actions, StartFails(a) PROVE Goal
  BY <1>29 DEF StartFails
<1>30. ASSUME NEW a \in Actions, SkipStart(a) PROVE Goal
  BY <1>30 DEF SkipStart
<1>31. ASSUME NEW a \in Actions, SignalOk(a) PROVE Goal
  BY <1>31 DEF SignalOk
<1>32. ASSUME NEW a \in Actions, SignalFails(a) PROVE Goal
  BY <1>32 DEF SignalFails
<1>33. ASSUME NEW i \in Intents, AbandonIntent(i) PROVE Goal
  BY <1>33 DEF AbandonIntent
<1>34. CASE SkipOff
  BY <1>34 DEF SkipOff
<1>35. CASE Admit
  BY <1>35 DEF Admit
<1>36. CASE AdmitFails
  BY <1>36 DEF AdmitFails
<1>37. CASE Admitted
  BY <1>37 DEF Admitted
<1>38. CASE Offer
  BY <1>38 DEF Offer
<1>39. CASE EndBatch
  BY <1>39 DEF EndBatch
<1>40. CASE Wake
  BY <1>40 DEF Wake
<1>41. CASE Scan
  BY <1>41 DEF Scan
<1>42. CASE ScanDefers
  BY <1>42 DEF ScanDefers
<1>43. CASE PassEnds
  BY <1>43 DEF PassEnds
<1>44. ASSUME NEW a \in Actions, SkipForeign(a) PROVE Goal
  BY <1>44 DEF SkipForeign
<1>45. ASSUME NEW a \in Actions, CloseClaimed(a) PROVE Goal
  BY <1>45 DEF CloseClaimed
<1>46. ASSUME NEW a \in Actions, ClaimIntent(a) PROVE Goal
  BY <1>46 DEF ClaimIntent
<1>47. ASSUME NEW a \in Actions, Unlink(a) PROVE Goal
  BY <1>47 DEF Unlink
<1>48. ASSUME NEW a \in Actions, Apply(a) PROVE Goal
  BY <1>48 DEF Apply
<1>49. ASSUME NEW a \in Actions, RecordApplied(a) PROVE Goal
  BY <1>49 DEF RecordApplied
<1>50. ASSUME NEW a \in Actions, DropEntry(a) PROVE Goal
  BY <1>50 DEF DropEntry
<1>51. ASSUME NEW a \in Actions, FinishDefers(a) PROVE Goal
  BY <1>51 DEF FinishDefers
<1>52. ASSUME NEW c \in Commands, ClaimCommand(c) PROVE Goal
  BY <1>52 DEF ClaimCommand
<1>53. ASSUME NEW c \in Commands, TakeCommand(c) PROVE Goal
  BY <1>53 DEF TakeCommand
<1>54. ASSUME NEW c \in Commands, MeetBarrier(c) PROVE Goal
  BY <1>54 DEF MeetBarrier
<1>55. ASSUME NEW c \in Commands, AbandonRefused(c) PROVE Goal
  BY <1>55 DEF AbandonRefused
<1>56. ASSUME NEW c \in Commands, Settle(c) PROVE Goal
  BY <1>56 DEF Settle
<1>57. ASSUME NEW c \in Commands, PassDefers(c) PROVE Goal
  BY <1>57 DEF PassDefers
<1>58. ASSUME NEW c \in Commands, PassFails(c) PROVE Goal
  BY <1>58 DEF PassFails
<1>59. ASSUME NEW c \in Commands, Report(c) PROVE Goal
  BY <1>59 DEF Report
<1>60. ASSUME NEW c \in Commands, ReportFails(c) PROVE Goal
  BY <1>60 DEF ReportFails
<1>61. ASSUME NEW i \in Intents, ReportIntent(i) PROVE Goal
  BY <1>61 DEF ReportIntent
<1>62. CASE OverlayEnd
  BY <1>62 DEF OverlayEnd
<1>63. CASE UNCHANGED vars
  BY <1>63 DEF vars
<1> QED
  BY <1>1, <1>2, <1>3, <1>4, <1>5, <1>6, <1>7, <1>8, <1>9, <1>10, <1>11, <1>12, <1>13,
     <1>14, <1>15, <1>16, <1>17, <1>18, <1>19, <1>20, <1>21, <1>22, <1>23, <1>24, <1>25,
     <1>26, <1>27, <1>28, <1>29, <1>30, <1>31, <1>32, <1>33, <1>34, <1>35, <1>36, <1>37,
     <1>38, <1>39, <1>40, <1>41, <1>42, <1>43, <1>44, <1>45, <1>46, <1>47, <1>48, <1>49,
     <1>50, <1>51, <1>52, <1>53, <1>54, <1>55, <1>56, <1>57, <1>58, <1>59, <1>60, <1>61,
     <1>62, <1>63
     DEF Next, Client, DaemonCommand, Delivery, Batch, DaemonStep, OverlayEntry, OverlayCommand,
         OverlayStep

\* An intent is asked, moves with its batch, leaves the batch or is forgotten.
LEMMA StepWait ==
  ASSUME TypeOK, [Next]_vars
  PROVE  \/ UNCHANGED <<asked, kept, batch>>
         \/ /\ UNCHANGED <<born, kept, batch>>
            /\ \E i \in Intents : /\ born[i] = 0 /\ asked' = Append(asked, i)
                                 /\ ~In(i, asked) /\ ~In(i, kept) /\ ~In(i, batch)
         \/ UNCHANGED <<born, asked>> /\ batch' = kept /\ kept' = <<>>
         \/ UNCHANGED <<born, kept>> /\ batch' = asked /\ asked' = <<>>
         \/ UNCHANGED <<born, asked>> /\ kept' = batch /\ batch' = <<>>
         \/ UNCHANGED <<asked, kept>> /\ batch # <<>> /\ batch' = Tail(batch)
         \/ UNCHANGED born /\ asked' = <<>> /\ kept' = <<>> /\ batch' = <<>>
<1> DEFINE Goal == \/ UNCHANGED <<asked, kept, batch>>
                   \/ /\ UNCHANGED <<born, kept, batch>>
                      /\ \E i \in Intents : /\ born[i] = 0 /\ asked' = Append(asked, i)
                                           /\ ~In(i, asked) /\ ~In(i, kept) /\ ~In(i, batch)
                   \/ UNCHANGED <<born, asked>> /\ batch' = kept /\ kept' = <<>>
                   \/ UNCHANGED <<born, kept>> /\ batch' = asked /\ asked' = <<>>
                   \/ UNCHANGED <<born, asked>> /\ kept' = batch /\ batch' = <<>>
                   \/ UNCHANGED <<asked, kept>> /\ batch # <<>> /\ batch' = Tail(batch)
                   \/ UNCHANGED born /\ asked' = <<>> /\ kept' = <<>> /\ batch' = <<>>
<1> USE DEF intentVars, journalVars, OverlayFrame
<1>1. ASSUME NEW c \in Commands, PublishCommand(c) PROVE Goal
  BY <1>1 DEF PublishCommand
<1>2. ASSUME NEW c \in Commands, Inspect(c) PROVE Goal
  BY <1>2 DEF Inspect
<1>3. ASSUME NEW c \in Commands, PollAgain(c) PROVE Goal
  BY <1>3 DEF PollAgain
<1>4. ASSUME NEW c \in Commands, Conclude(c) PROVE Goal
  BY <1>4 DEF Conclude
<1>5. ASSUME NEW c \in Commands, ClientCrash(c) PROVE Goal
  BY <1>5 DEF ClientCrash
<1>6. ASSUME NEW c \in Commands, Claim(c) PROVE Goal
  BY <1>6 DEF Claim
<1>7. ASSUME NEW c \in Commands, Collect(c) PROVE Goal
  BY <1>7 DEF Collect
<1>8. ASSUME NEW c \in Commands, CommitNoOp(c) PROVE Goal
  BY <1>8 DEF CommitNoOp
<1>9. ASSUME NEW c \in Commands, ReleaseToPrepare(c) PROVE Goal
  BY <1>9 DEF ReleaseToPrepare
<1>10. ASSUME NEW c \in Commands, PublishPrepared(c) PROVE Goal
  BY <1>10 DEF PublishPrepared
<1>11. ASSUME NEW c \in Commands, Relock(c) PROVE Goal
  BY <1>11 DEF Relock
<1>12. ASSUME NEW c \in Commands, RelockExpires(c) PROVE Goal
  BY <1>12 DEF RelockExpires
<1>13. ASSUME NEW c \in Commands, Retract(c) PROVE Goal
  BY <1>13 DEF Retract
<1>14. ASSUME NEW c \in Commands, RewriteCanceled(c) PROVE Goal
  BY <1>14 DEF RewriteCanceled
<1>15. ASSUME NEW c \in Commands, Commit(c) PROVE Goal
  BY <1>15 DEF Commit
<1>16. ASSUME NEW c \in Commands, AbandonEntry(c) PROVE Goal
  BY <1>16 DEF AbandonEntry
<1>17. ASSUME NEW c \in Commands, FinishAbandoned(c) PROVE Goal
  BY <1>17 DEF FinishAbandoned
<1>18. ASSUME NEW c \in Commands, RemoveAbandoned(c) PROVE Goal
  BY <1>18 DEF RemoveAbandoned
<1>19. ASSUME NEW i \in Intents, Ask(i) PROVE Goal
  BY <1>19 DEF Ask, In
<1>20. CASE Start
  BY <1>20 DEF Start
<1>21. CASE DaemonCrash
  BY <1>21 DEF DaemonCrash
<1>22. CASE Quit
  BY <1>22 DEF Quit
<1>23. CASE LocalHide
  BY <1>23 DEF LocalHide
<1>24. CASE NoticeExit
  BY <1>24 DEF NoticeExit
<1>25. CASE BackoffEnds
  BY <1>25 DEF BackoffEnds
<1>26. CASE DropReference
  BY <1>26 DEF DropReference
<1>27. CASE BeginBatch
  <2>1. CASE kept # <<>>
    BY <1>27, <2>1 DEF BeginBatch
  <2>2. CASE kept = <<>>
    BY <1>27, <2>2 DEF BeginBatch
  <2> QED BY <2>1, <2>2
<1>28. ASSUME NEW a \in Actions, StartOk(a) PROVE Goal
  BY <1>28 DEF StartOk
<1>29. ASSUME NEW a \in Actions, StartFails(a) PROVE Goal
  BY <1>29 DEF StartFails
<1>30. ASSUME NEW a \in Actions, SkipStart(a) PROVE Goal
  BY <1>30 DEF SkipStart
<1>31. ASSUME NEW a \in Actions, SignalOk(a) PROVE Goal
  BY <1>31 DEF SignalOk
<1>32. ASSUME NEW a \in Actions, SignalFails(a) PROVE Goal
  BY <1>32 DEF SignalFails
<1>33. ASSUME NEW i \in Intents, AbandonIntent(i) PROVE Goal
  BY <1>33 DEF AbandonIntent
<1>34. CASE SkipOff
  BY <1>34 DEF SkipOff
<1>35. CASE Admit
  BY <1>35 DEF Admit
<1>36. CASE AdmitFails
  BY <1>36 DEF AdmitFails
<1>37. CASE Admitted
  BY <1>37 DEF Admitted
<1>38. CASE Offer
  BY <1>38 DEF Offer
<1>39. CASE EndBatch
  BY <1>39 DEF EndBatch
<1>40. CASE Wake
  BY <1>40 DEF Wake
<1>41. CASE Scan
  BY <1>41 DEF Scan
<1>42. CASE ScanDefers
  BY <1>42 DEF ScanDefers
<1>43. CASE PassEnds
  BY <1>43 DEF PassEnds
<1>44. ASSUME NEW a \in Actions, SkipForeign(a) PROVE Goal
  BY <1>44 DEF SkipForeign
<1>45. ASSUME NEW a \in Actions, CloseClaimed(a) PROVE Goal
  BY <1>45 DEF CloseClaimed
<1>46. ASSUME NEW a \in Actions, ClaimIntent(a) PROVE Goal
  BY <1>46 DEF ClaimIntent
<1>47. ASSUME NEW a \in Actions, Unlink(a) PROVE Goal
  BY <1>47 DEF Unlink
<1>48. ASSUME NEW a \in Actions, Apply(a) PROVE Goal
  BY <1>48 DEF Apply
<1>49. ASSUME NEW a \in Actions, RecordApplied(a) PROVE Goal
  BY <1>49 DEF RecordApplied
<1>50. ASSUME NEW a \in Actions, DropEntry(a) PROVE Goal
  BY <1>50 DEF DropEntry
<1>51. ASSUME NEW a \in Actions, FinishDefers(a) PROVE Goal
  BY <1>51 DEF FinishDefers
<1>52. ASSUME NEW c \in Commands, ClaimCommand(c) PROVE Goal
  BY <1>52 DEF ClaimCommand
<1>53. ASSUME NEW c \in Commands, TakeCommand(c) PROVE Goal
  BY <1>53 DEF TakeCommand
<1>54. ASSUME NEW c \in Commands, MeetBarrier(c) PROVE Goal
  BY <1>54 DEF MeetBarrier
<1>55. ASSUME NEW c \in Commands, AbandonRefused(c) PROVE Goal
  BY <1>55 DEF AbandonRefused
<1>56. ASSUME NEW c \in Commands, Settle(c) PROVE Goal
  BY <1>56 DEF Settle
<1>57. ASSUME NEW c \in Commands, PassDefers(c) PROVE Goal
  BY <1>57 DEF PassDefers
<1>58. ASSUME NEW c \in Commands, PassFails(c) PROVE Goal
  BY <1>58 DEF PassFails
<1>59. ASSUME NEW c \in Commands, Report(c) PROVE Goal
  BY <1>59 DEF Report
<1>60. ASSUME NEW c \in Commands, ReportFails(c) PROVE Goal
  BY <1>60 DEF ReportFails
<1>61. ASSUME NEW i \in Intents, ReportIntent(i) PROVE Goal
  BY <1>61 DEF ReportIntent
<1>62. CASE OverlayEnd
  BY <1>62 DEF OverlayEnd
<1>63. CASE UNCHANGED vars
  BY <1>63 DEF vars
<1> QED
  BY <1>1, <1>2, <1>3, <1>4, <1>5, <1>6, <1>7, <1>8, <1>9, <1>10, <1>11, <1>12, <1>13,
     <1>14, <1>15, <1>16, <1>17, <1>18, <1>19, <1>20, <1>21, <1>22, <1>23, <1>24, <1>25,
     <1>26, <1>27, <1>28, <1>29, <1>30, <1>31, <1>32, <1>33, <1>34, <1>35, <1>36, <1>37,
     <1>38, <1>39, <1>40, <1>41, <1>42, <1>43, <1>44, <1>45, <1>46, <1>47, <1>48, <1>49,
     <1>50, <1>51, <1>52, <1>53, <1>54, <1>55, <1>56, <1>57, <1>58, <1>59, <1>60, <1>61,
     <1>62, <1>63
     DEF Next, Client, DaemonCommand, Delivery, Batch, DaemonStep, OverlayEntry, OverlayCommand,
         OverlayStep

-----------------------------------------------------------------------------
(* Publication happens once.                                               *)

\* What is being published was not published before.
LEMMA PublishedOnce ==
  ASSUME TypeOK, StageInv, WaitInv, NEW a \in Actions, Publishing(a)
  PROVE  born[a] = 0
<1>1. CASE dpc = "preparing" /\ a \in cur
  BY <1>1 DEF StageInv, Stage, CommandStages
<1>2. CASE batch # <<>> /\ a = Head(batch)
  <2>1. In(a, batch)
    BY <1>2, TailIs DEF TypeOK
  <2> QED BY <2>1 DEF WaitInv, In
<1> QED BY <1>1, <1>2 DEF Publishing

LEMMA RecordInvStep ==
  ASSUME TypeOK, RecordInv, [Next]_vars, \A c \in Commands : RecordStep(c)
  PROVE  RecordInv'
<1>1. gen \in Nat /\ (gen' = gen \/ gen' = gen + 1)
  BY StepGeneration DEF TypeOK, NewGeneration
<1>2. ASSUME NEW c \in Commands PROVE OverlayRecord(ctl'[c]) /\ ctl'[c].target_daemon_token <= gen'
  <2>1. /\ OverlayRecord(ctl[c]) /\ ctl[c].target_daemon_token <= gen
        /\ OverlayRecord(ctl'[c])
        /\ ctl'[c].target_daemon_token \in {ctl[c].target_daemon_token, gen}
    BY DEF RecordInv, RecordStep
  <2>2. ctl[c].target_daemon_token \in Nat
    BY <2>1 DEF OverlayRecord, Controls
  <2> QED BY <1>1, <2>1, <2>2
<1> QED BY <1>2 DEF RecordInv

LEMMA JournalStep ==
  ASSUME TypeOK, JournalInv, StageInv, WaitInv, [Next]_vars
  PROVE  JournalInv'
<1>1. /\ gen \in Nat /\ (gen' = gen \/ gen' = gen + 1)
      /\ dpc' \notin Gone => gen' # 0
  BY StepGeneration DEF TypeOK, NewGeneration, JournalInv
<1>2. \A a \in Actions : born[a] \in Nat /\ applied[a] \in Nat
  BY DEF TypeOK
<1>3. \A n \in DOMAIN journal : journal[n] \in Actions
  BY DEF TypeOK
<1>4. CASE UNCHANGED <<journalVars, applied>> /\ fin' \subseteq fin
  BY <1>1, <1>2, <1>4 DEF JournalInv, journalVars
<1>5. ASSUME NEW a \in Actions, Publishing(a) PROVE JournalInv'
  <2>1. born[a] = 0 /\ gen # 0 /\ ~In(a, journal)
    BY <1>5, PublishedOnce DEF Publishing, JournalInv, In
  <2>2. Distinct(journal') /\ \A y : In(y, journal') <=> In(y, journal) \/ y = a
    BY <1>5, <2>1, AppendIs DEF Publishing, TypeOK, JournalInv
  <2>3. \A n \in DOMAIN journal' : journal'[n] = a \/ In(journal'[n], journal)
    BY <2>2 DEF In
  <2>4. born' = [born EXCEPT ![a] = gen]
    BY <1>5 DEF Publishing
  <2>5. \A n \in DOMAIN journal' : born'[journal'[n]] # 0
    <3> TAKE n \in DOMAIN journal'
    <3>1. CASE journal'[n] = a
      BY <2>1, <2>4, <3>1 DEF TypeOK
    <3>2. CASE In(journal'[n], journal) /\ journal'[n] # a
      BY <2>4, <3>2, <1>3 DEF TypeOK, JournalInv, In
    <3> QED BY <2>3, <3>1, <3>2
  <2>6. \A b \in Actions : b # a => born'[b] = born[b] /\ entry'[b] = entry[b]
    BY <1>5 DEF Publishing, TypeOK
  <2>7. born'[a] = gen /\ UNCHANGED <<applied, fin>>
    BY <1>5 DEF Publishing, TypeOK
  <2> QED BY <1>1, <1>2, <2>1, <2>2, <2>5, <2>6, <2>7 DEF JournalInv
<1>6. ASSUME NEW a \in Actions, Moving(a) PROVE JournalInv'
  <2>1. /\ UNCHANGED <<journal, born, gen, applied>> /\ born[a] # 0
        /\ \A b \in Actions : b # a => entry'[b] = entry[b] /\ (b \in fin' => b \in fin)
    BY <1>6 DEF Moving, TypeOK, JournalInv
  <2> QED BY <1>1, <2>1 DEF JournalInv
<1>7. ASSUME NEW a \in Actions, Applying(a) PROVE JournalInv'
  <2>1. UNCHANGED <<journalVars, gen, fin>> /\ born[a] # 0
    BY <1>7 DEF Applying, JournalInv
  <2>2. \A b \in Actions : b # a => applied'[b] = applied[b]
    BY <1>7 DEF Applying, TypeOK
  <2> QED BY <1>1, <2>1, <2>2 DEF JournalInv, journalVars
<1> QED BY <1>4, <1>5, <1>6, <1>7, StepJournal

\* A command past its publication carries the token of a generation.
LEMMA StageBorn ==
  ASSUME StageInv, TypeOK, JournalInv, NEW c \in cur, dpc \in {"relocking", "rewriting", "finishing"}
  PROVE  born[c] # 0
BY DEF StageInv, Stage, CommandStages, JournalInv, Gone

LEMMA QueueStep ==
  ASSUME TypeOK, RecordInv, JournalInv, QueueInv, StageInv, WaitInv, [Next]_vars, TypeOK', JournalInv',
         \A c \in Commands : RecordStep(c)
  PROVE  QueueInv'
<1> USE DEF QueueInv
<1>1. \A c \in Commands : born[c] \in Nat /\ (born[c] # 0 => cpc[c] # "idle") /\ c \in Actions
  BY DEF TypeOK, Actions
<1>2. /\ gen \in Nat /\ (gen' = gen \/ (gen' = gen + 1 /\ queue' = <<>>))
  BY StepGeneration DEF TypeOK, NewGeneration
\* Only a command whose publication was prepared has a token in the journal.
<1>3. ASSUME NEW c \in Commands
      PROVE  \/ born'[c] = born[c]
             \/ /\ cpc[c] # "idle" /\ ~In(c, queue) /\ ctl[c].target_daemon_token = gen
                /\ born'[c] = gen /\ gen # 0 /\ UNCHANGED <<ctl, queue, cpc>>
  <2>1. ASSUME NEW a \in Actions, Publishing(a), born'[c] # born[c]
        PROVE  /\ c \in cur /\ dpc = "preparing" /\ born'[c] = gen /\ gen # 0
               /\ UNCHANGED <<ctl, queue, cpc>>
    <3>1. a = c
      BY <2>1 DEF Publishing, TypeOK, Actions
    <3>2. ~(batch # <<>> /\ c = Head(batch))
      <4>1. batch \in Seq(Intents)
        BY DEF TypeOK
      <4> QED BY <4>1, TailIs, ActionsAssumption
    <3> QED BY <2>1, <3>1, <3>2, <1>1 DEF Publishing, TypeOK, JournalInv
  <2>2. born'[c] # born[c] => \E a \in Actions : Publishing(a)
    BY StepJournal DEF Moving, Applying, journalVars
  <2> QED BY <2>1, <2>2 DEF StageInv, Stage, CommandStages
<1>4. ASSUME NEW c \in Commands, Sending(c) PROVE QueueInv'
  <2>1. /\ UNCHANGED <<born, gen>> /\ queue' = Append(queue, c) /\ cpc'[c] = "waiting"
        /\ born[c] = 0 /\ ~In(c, queue)
    BY <1>4 DEF Sending, TypeOK, journalVars
  <2>2. Distinct(queue') /\ \A y : In(y, queue') <=> In(y, queue) \/ y = c
    BY <2>1, AppendIs DEF TypeOK
  <2>3. ctl'[c].target_daemon_token = gen /\ ctl'[c].action_status = "None"
    <3>1. OverlayRecord(ctl[c]) /\ ctl'[c] = Queued(NewControl(ctl[c].request, gen))
      BY <1>4 DEF Sending, TypeOK, RecordInv
    <3>2. gen \in Nat
      BY <1>2
    <3>3. /\ Queued(NewControl(ctl[c].request, gen)).target_daemon_token = gen
          /\ Queued(NewControl(ctl[c].request, gen)).action_status = "None"
      BY <3>1, <3>2, PublishedIs
    <3> QED BY <3>1, <3>3
  <2>4. \A d \in Commands : d # c => ctl'[d] = ctl[d] /\ cpc'[d] = cpc[d] /\ (d \in controls' => d \in controls)
    BY <1>4 DEF Sending, TypeOK
  <2> QED BY <2>1, <2>2, <2>3, <2>4
<1>5. ASSUME queue' = queue \/ queue' = <<>> \/ (queue # <<>> /\ queue' = Tail(queue)),
             \A c \in Commands : cpc[c] = "idle" <=> cpc'[c] = "idle",
             controls' \subseteq controls
      PROVE  QueueInv'
  <2>1. Distinct(queue') /\ \A y : In(y, queue') => In(y, queue)
    <3>1. queue \in Seq(Commands) /\ Distinct(queue)
      BY DEF TypeOK
    <3>2. queue # <<>> => Distinct(Tail(queue)) /\ \A y : In(y, Tail(queue)) => In(y, queue)
      BY <3>1, TailIs
    <3> QED BY <1>5, <3>1, <3>2, EmptyIs
  <2>2. ASSUME NEW c \in Commands
        PROVE  /\ cpc'[c] = "idle" => c \notin controls' /\ born'[c] = 0 /\ ~In(c, queue')
               /\ In(c, queue') => born'[c] = 0 /\ ctl'[c].target_daemon_token = gen'
    BY <1>1, <1>2, <1>3, <1>5, <2>1, EmptyIs DEF RecordStep
  <2>3. ASSUME NEW c \in Commands, born'[c] = 0 PROVE ctl'[c].action_status = "None"
    <3>1. born[c] = 0 /\ entry[c] = "none" /\ c \notin fin /\ ctl[c].action_status = "None"
      BY <2>3, <1>1, <1>3 DEF JournalInv
    <3>2. ~(c \in cur /\ dpc \in {"relocking", "rewriting", "finishing"})
      BY <3>1, StageBorn
    <3> QED BY <3>1, <3>2 DEF RecordStep
  <2>4. ASSUME NEW c \in Commands, born'[c] # 0 PROVE born'[c] = ctl'[c].target_daemon_token
    BY <2>4, <1>1, <1>3 DEF RecordStep
  <2> QED BY <2>1, <2>2, <2>3, <2>4
<1> QED BY <1>4, <1>5, StepQueue

LEMMA WaitStep ==
  ASSUME TypeOK, JournalInv, WaitInv, StageInv, [Next]_vars
  PROVE  WaitInv'
<1> USE DEF WaitInv
<1>1. /\ asked \in Seq(Intents) /\ kept \in Seq(Intents) /\ batch \in Seq(Intents)
      /\ \A i \in Intents : i \in Actions
  BY DEF TypeOK, Actions
<1>2. \A s \in {asked, kept, batch} : \A i : In(i, s) => i \in Intents /\ born[i] = 0
  BY <1>1 DEF In
<1> DEFINE Waits(s) == Distinct(s) /\ \A i : In(i, s) => i \in Intents /\ born'[i] = 0
<1>3. ASSUME Waits(asked'), Waits(kept'), Waits(batch'),
             \A i \in Intents : /\ ~(In(i, asked') /\ In(i, kept'))
                                /\ ~(In(i, asked') /\ In(i, batch'))
                                /\ ~(In(i, kept') /\ In(i, batch'))
      PROVE  WaitInv'
  BY <1>3 DEF In
<1>4. ASSUME UNCHANGED born PROVE WaitInv'
  <2>1. Waits(asked) /\ Waits(kept) /\ Waits(batch) /\ Waits(<<>>)
    BY <1>2, <1>4, EmptyIs
  <2>2. batch # <<>> => Waits(Tail(batch)) /\ \A i : In(i, Tail(batch)) => In(i, batch)
    BY <1>1, <2>1, TailIs
  <2>3. ASSUME NEW i \in Intents, born[i] = 0, ~In(i, asked)
        PROVE  Waits(Append(asked, i)) /\ \A j : In(j, Append(asked, i)) <=> In(j, asked) \/ j = i
    BY <1>1, <1>4, <2>1, <2>3, AppendIs
  <2>4. ASSUME NEW i \in Intents, born[i] = 0, asked' = Append(asked, i),
               ~In(i, asked), ~In(i, kept), ~In(i, batch), UNCHANGED <<kept, batch>>
        PROVE  WaitInv'
    BY <1>3, <2>1, <2>3, <2>4
  <2>5. CASE UNCHANGED <<asked, kept>> /\ batch # <<>> /\ batch' = Tail(batch)
    BY <1>3, <2>1, <2>2, <2>5
  <2>6. CASE \/ UNCHANGED <<asked, kept, batch>>
             \/ asked' = asked /\ batch' = kept /\ kept' = <<>>
             \/ kept' = kept /\ batch' = asked /\ asked' = <<>>
             \/ asked' = asked /\ kept' = batch /\ batch' = <<>>
             \/ asked' = <<>> /\ kept' = <<>> /\ batch' = <<>>
    BY <1>3, <2>1, <2>6, EmptyIs
  <2> QED BY <2>4, <2>5, <2>6, StepWait
<1>5. ASSUME ~UNCHANGED born PROVE WaitInv'
  <2>1. PICK a \in Actions : Publishing(a)
    BY <1>5, StepJournal DEF Moving, Applying, journalVars
  <2>2. CASE a \in Commands /\ UNCHANGED <<asked, kept, batch>>
    <3>1. \A i \in Intents : born'[i] = born[i]
      BY <2>1, <2>2, <1>1, ActionsAssumption DEF Publishing, TypeOK
    <3> QED BY <1>2, <1>3, <2>2, <3>1
  <2>3. CASE batch # <<>> /\ a = Head(batch) /\ batch' = Tail(batch) /\ UNCHANGED <<asked, kept>>
    <3>1. /\ In(a, batch) /\ ~In(a, batch') /\ Distinct(batch') /\ a \in Intents
          /\ \A i : In(i, batch') => In(i, batch)
      BY <1>1, <2>3, TailIs
    <3>2. \A i \in Intents : i # a => born'[i] = born[i]
      BY <2>1, <1>1 DEF Publishing, TypeOK
    <3>3. ~In(a, asked) /\ ~In(a, kept)
      BY <3>1
    <3> QED BY <1>2, <1>3, <2>3, <3>1, <3>2, <3>3
  <2> QED BY <2>1, <2>2, <2>3 DEF Publishing
<1> QED BY <1>4, <1>5

-----------------------------------------------------------------------------
(* The daemon's stages.                                                    *)

Advancing(c) ==
  \/ Claim(c) \/ ReleaseToPrepare(c) \/ PublishPrepared(c) \/ Relock(c)
  \/ Retract(c) \/ AbandonEntry(c) \/ FinishAbandoned(c)

\* A step advances a command, ends its treatment or leaves it where it is.
LEMMA StepStage ==
  ASSUME TypeOK, StageInv, [Next]_vars
  PROVE  /\ \A a, b \in cur' : a = b
         /\ \/ UNCHANGED <<dpc, cur>>
            \/ dpc' \notin CommandStages
            \/ \E c \in Commands : Advancing(c)
<1> DEFINE Goal == /\ \A a, b \in cur' : a = b
                   /\ \/ UNCHANGED <<dpc, cur>>
                      \/ dpc' \notin CommandStages
                      \/ \E c \in Commands : Advancing(c)
<1>a. \A a, b \in cur : a = b
  BY DEF StageInv
<1> USE <1>a DEF CommandStages, OverlayFrame
<1>1. ASSUME NEW c \in Commands, PublishCommand(c) PROVE Goal
  BY <1>1 DEF PublishCommand
<1>2. ASSUME NEW c \in Commands, Inspect(c) PROVE Goal
  BY <1>2 DEF Inspect
<1>3. ASSUME NEW c \in Commands, PollAgain(c) PROVE Goal
  BY <1>3 DEF PollAgain
<1>4. ASSUME NEW c \in Commands, Conclude(c) PROVE Goal
  BY <1>4 DEF Conclude
<1>5. ASSUME NEW c \in Commands, ClientCrash(c) PROVE Goal
  BY <1>5 DEF ClientCrash
<1>6. ASSUME NEW c \in Commands, Claim(c) PROVE Goal
  BY <1>6 DEF Claim, Advancing, Fails
<1>7. ASSUME NEW c \in Commands, Collect(c) PROVE Goal
  BY <1>7 DEF Collect
<1>8. ASSUME NEW c \in Commands, CommitNoOp(c) PROVE Goal
  BY <1>8 DEF CommitNoOp
<1>9. ASSUME NEW c \in Commands, ReleaseToPrepare(c) PROVE Goal
  BY <1>9 DEF ReleaseToPrepare, Advancing, Fails
<1>10. ASSUME NEW c \in Commands, PublishPrepared(c) PROVE Goal
  BY <1>10 DEF PublishPrepared, Advancing, Fails
<1>11. ASSUME NEW c \in Commands, Relock(c) PROVE Goal
  BY <1>11 DEF Relock, Advancing, Fails
<1>12. ASSUME NEW c \in Commands, RelockExpires(c) PROVE Goal
  BY <1>12 DEF RelockExpires
<1>13. ASSUME NEW c \in Commands, Retract(c) PROVE Goal
  BY <1>13 DEF Retract, Advancing, Fails
<1>14. ASSUME NEW c \in Commands, RewriteCanceled(c) PROVE Goal
  BY <1>14 DEF RewriteCanceled, Fails
<1>15. ASSUME NEW c \in Commands, Commit(c) PROVE Goal
  BY <1>15 DEF Commit
<1>16. ASSUME NEW c \in Commands, AbandonEntry(c) PROVE Goal
  BY <1>16 DEF AbandonEntry, Advancing, Fails
<1>17. ASSUME NEW c \in Commands, FinishAbandoned(c) PROVE Goal
  BY <1>17 DEF FinishAbandoned, Advancing, Fails
<1>18. ASSUME NEW c \in Commands, RemoveAbandoned(c) PROVE Goal
  BY <1>18 DEF RemoveAbandoned, Fails
<1>19. ASSUME NEW i \in Intents, Ask(i) PROVE Goal
  BY <1>19 DEF Ask
<1>20. CASE Start
  BY <1>20 DEF Start
<1>21. CASE DaemonCrash
  BY <1>21 DEF DaemonCrash
<1>22. CASE Quit
  BY <1>22 DEF Quit
<1>23. CASE LocalHide
  BY <1>23 DEF LocalHide
<1>24. CASE NoticeExit
  BY <1>24 DEF NoticeExit
<1>25. CASE BackoffEnds
  BY <1>25 DEF BackoffEnds
<1>26. CASE DropReference
  BY <1>26 DEF DropReference
<1>27. CASE BeginBatch
  BY <1>27 DEF BeginBatch
<1>28. ASSUME NEW a \in Actions, StartOk(a) PROVE Goal
  BY <1>28 DEF StartOk
<1>29. ASSUME NEW a \in Actions, StartFails(a) PROVE Goal
  BY <1>29 DEF StartFails
<1>30. ASSUME NEW a \in Actions, SkipStart(a) PROVE Goal
  BY <1>30 DEF SkipStart, Continue
<1>31. ASSUME NEW a \in Actions, SignalOk(a) PROVE Goal
  BY <1>31 DEF SignalOk, Continue
<1>32. ASSUME NEW a \in Actions, SignalFails(a) PROVE Goal
  BY <1>32 DEF SignalFails
<1>33. ASSUME NEW i \in Intents, AbandonIntent(i) PROVE Goal
  BY <1>33 DEF AbandonIntent
<1>34. CASE SkipOff
  BY <1>34 DEF SkipOff
<1>35. CASE Admit
  BY <1>35 DEF Admit
<1>36. CASE AdmitFails
  BY <1>36 DEF AdmitFails
<1>37. CASE Admitted
  BY <1>37 DEF Admitted
<1>38. CASE Offer
  BY <1>38 DEF Offer
<1>39. CASE EndBatch
  BY <1>39 DEF EndBatch
<1>40. CASE Wake
  BY <1>40 DEF Wake
<1>41. CASE Scan
  BY <1>41 DEF Scan
<1>42. CASE ScanDefers
  BY <1>42 DEF ScanDefers
<1>43. CASE PassEnds
  BY <1>43 DEF PassEnds
<1>44. ASSUME NEW a \in Actions, SkipForeign(a) PROVE Goal
  BY <1>44 DEF SkipForeign
<1>45. ASSUME NEW a \in Actions, CloseClaimed(a) PROVE Goal
  BY <1>45 DEF CloseClaimed
<1>46. ASSUME NEW a \in Actions, ClaimIntent(a) PROVE Goal
  BY <1>46 DEF ClaimIntent
<1>47. ASSUME NEW a \in Actions, Unlink(a) PROVE Goal
  BY <1>47 DEF Unlink
<1>48. ASSUME NEW a \in Actions, Apply(a) PROVE Goal
  BY <1>48 DEF Apply
<1>49. ASSUME NEW a \in Actions, RecordApplied(a) PROVE Goal
  BY <1>49 DEF RecordApplied
<1>50. ASSUME NEW a \in Actions, DropEntry(a) PROVE Goal
  BY <1>50 DEF DropEntry
<1>51. ASSUME NEW a \in Actions, FinishDefers(a) PROVE Goal
  BY <1>51 DEF FinishDefers
<1>52. ASSUME NEW c \in Commands, ClaimCommand(c) PROVE Goal
  BY <1>52 DEF ClaimCommand
<1>53. ASSUME NEW c \in Commands, TakeCommand(c) PROVE Goal
  BY <1>53 DEF TakeCommand
<1>54. ASSUME NEW c \in Commands, MeetBarrier(c) PROVE Goal
  BY <1>54 DEF MeetBarrier
<1>55. ASSUME NEW c \in Commands, AbandonRefused(c) PROVE Goal
  BY <1>55 DEF AbandonRefused
<1>56. ASSUME NEW c \in Commands, Settle(c) PROVE Goal
  BY <1>56 DEF Settle
<1>57. ASSUME NEW c \in Commands, PassDefers(c) PROVE Goal
  BY <1>57 DEF PassDefers
<1>58. ASSUME NEW c \in Commands, PassFails(c) PROVE Goal
  BY <1>58 DEF PassFails
<1>59. ASSUME NEW c \in Commands, Report(c) PROVE Goal
  BY <1>59 DEF Report
<1>60. ASSUME NEW c \in Commands, ReportFails(c) PROVE Goal
  BY <1>60 DEF ReportFails
<1>61. ASSUME NEW i \in Intents, ReportIntent(i) PROVE Goal
  BY <1>61 DEF ReportIntent
<1>62. CASE OverlayEnd
  BY <1>62 DEF OverlayEnd
<1>63. CASE UNCHANGED vars
  BY <1>63 DEF vars
<1> QED
  BY <1>1, <1>2, <1>3, <1>4, <1>5, <1>6, <1>7, <1>8, <1>9, <1>10, <1>11, <1>12, <1>13,
     <1>14, <1>15, <1>16, <1>17, <1>18, <1>19, <1>20, <1>21, <1>22, <1>23, <1>24, <1>25,
     <1>26, <1>27, <1>28, <1>29, <1>30, <1>31, <1>32, <1>33, <1>34, <1>35, <1>36, <1>37,
     <1>38, <1>39, <1>40, <1>41, <1>42, <1>43, <1>44, <1>45, <1>46, <1>47, <1>48, <1>49,
     <1>50, <1>51, <1>52, <1>53, <1>54, <1>55, <1>56, <1>57, <1>58, <1>59, <1>60, <1>61,
     <1>62, <1>63
     DEF Next, Client, DaemonCommand, Delivery, Batch, DaemonStep, OverlayEntry, OverlayCommand,
         OverlayStep

\* A client takes the decision lock only when it is free.
LEMMA StepInspect ==
  ASSUME TypeOK, [Next]_vars, NEW d \in Commands, cpc[d] # "deciding", ~DecisionFree(d)
  PROVE  cpc'[d] # "deciding"
<1> DEFINE Goal == cpc'[d] # "deciding"
<1> USE DEF TypeOK, OverlayFrame
<1>1. ASSUME NEW c \in Commands, PublishCommand(c) PROVE Goal
  BY <1>1 DEF PublishCommand
<1>2. ASSUME NEW c \in Commands, Inspect(c) PROVE Goal
  BY <1>2 DEF Inspect
<1>3. ASSUME NEW c \in Commands, PollAgain(c) PROVE Goal
  BY <1>3 DEF PollAgain
<1>4. ASSUME NEW c \in Commands, Conclude(c) PROVE Goal
  BY <1>4 DEF Conclude
<1>5. ASSUME NEW c \in Commands, ClientCrash(c) PROVE Goal
  BY <1>5 DEF ClientCrash
<1>6. ASSUME NEW c \in Commands, Claim(c) PROVE Goal
  BY <1>6 DEF Claim
<1>7. ASSUME NEW c \in Commands, Collect(c) PROVE Goal
  BY <1>7 DEF Collect
<1>8. ASSUME NEW c \in Commands, CommitNoOp(c) PROVE Goal
  BY <1>8 DEF CommitNoOp
<1>9. ASSUME NEW c \in Commands, ReleaseToPrepare(c) PROVE Goal
  BY <1>9 DEF ReleaseToPrepare
<1>10. ASSUME NEW c \in Commands, PublishPrepared(c) PROVE Goal
  BY <1>10 DEF PublishPrepared
<1>11. ASSUME NEW c \in Commands, Relock(c) PROVE Goal
  BY <1>11 DEF Relock
<1>12. ASSUME NEW c \in Commands, RelockExpires(c) PROVE Goal
  BY <1>12 DEF RelockExpires
<1>13. ASSUME NEW c \in Commands, Retract(c) PROVE Goal
  BY <1>13 DEF Retract
<1>14. ASSUME NEW c \in Commands, RewriteCanceled(c) PROVE Goal
  BY <1>14 DEF RewriteCanceled
<1>15. ASSUME NEW c \in Commands, Commit(c) PROVE Goal
  BY <1>15 DEF Commit
<1>16. ASSUME NEW c \in Commands, AbandonEntry(c) PROVE Goal
  BY <1>16 DEF AbandonEntry
<1>17. ASSUME NEW c \in Commands, FinishAbandoned(c) PROVE Goal
  BY <1>17 DEF FinishAbandoned
<1>18. ASSUME NEW c \in Commands, RemoveAbandoned(c) PROVE Goal
  BY <1>18 DEF RemoveAbandoned
<1>19. ASSUME NEW i \in Intents, Ask(i) PROVE Goal
  BY <1>19 DEF Ask
<1>20. CASE Start
  BY <1>20 DEF Start
<1>21. CASE DaemonCrash
  BY <1>21 DEF DaemonCrash
<1>22. CASE Quit
  BY <1>22 DEF Quit
<1>23. CASE LocalHide
  BY <1>23 DEF LocalHide
<1>24. CASE NoticeExit
  BY <1>24 DEF NoticeExit
<1>25. CASE BackoffEnds
  BY <1>25 DEF BackoffEnds
<1>26. CASE DropReference
  BY <1>26 DEF DropReference
<1>27. CASE BeginBatch
  BY <1>27 DEF BeginBatch
<1>28. ASSUME NEW a \in Actions, StartOk(a) PROVE Goal
  BY <1>28 DEF StartOk
<1>29. ASSUME NEW a \in Actions, StartFails(a) PROVE Goal
  BY <1>29 DEF StartFails
<1>30. ASSUME NEW a \in Actions, SkipStart(a) PROVE Goal
  BY <1>30 DEF SkipStart
<1>31. ASSUME NEW a \in Actions, SignalOk(a) PROVE Goal
  BY <1>31 DEF SignalOk
<1>32. ASSUME NEW a \in Actions, SignalFails(a) PROVE Goal
  BY <1>32 DEF SignalFails
<1>33. ASSUME NEW i \in Intents, AbandonIntent(i) PROVE Goal
  BY <1>33 DEF AbandonIntent
<1>34. CASE SkipOff
  BY <1>34 DEF SkipOff
<1>35. CASE Admit
  BY <1>35 DEF Admit
<1>36. CASE AdmitFails
  BY <1>36 DEF AdmitFails
<1>37. CASE Admitted
  BY <1>37 DEF Admitted
<1>38. CASE Offer
  BY <1>38 DEF Offer
<1>39. CASE EndBatch
  BY <1>39 DEF EndBatch
<1>40. CASE Wake
  BY <1>40 DEF Wake
<1>41. CASE Scan
  BY <1>41 DEF Scan
<1>42. CASE ScanDefers
  BY <1>42 DEF ScanDefers
<1>43. CASE PassEnds
  BY <1>43 DEF PassEnds
<1>44. ASSUME NEW a \in Actions, SkipForeign(a) PROVE Goal
  BY <1>44 DEF SkipForeign
<1>45. ASSUME NEW a \in Actions, CloseClaimed(a) PROVE Goal
  BY <1>45 DEF CloseClaimed
<1>46. ASSUME NEW a \in Actions, ClaimIntent(a) PROVE Goal
  BY <1>46 DEF ClaimIntent
<1>47. ASSUME NEW a \in Actions, Unlink(a) PROVE Goal
  BY <1>47 DEF Unlink
<1>48. ASSUME NEW a \in Actions, Apply(a) PROVE Goal
  BY <1>48 DEF Apply
<1>49. ASSUME NEW a \in Actions, RecordApplied(a) PROVE Goal
  BY <1>49 DEF RecordApplied
<1>50. ASSUME NEW a \in Actions, DropEntry(a) PROVE Goal
  BY <1>50 DEF DropEntry
<1>51. ASSUME NEW a \in Actions, FinishDefers(a) PROVE Goal
  BY <1>51 DEF FinishDefers
<1>52. ASSUME NEW c \in Commands, ClaimCommand(c) PROVE Goal
  BY <1>52 DEF ClaimCommand
<1>53. ASSUME NEW c \in Commands, TakeCommand(c) PROVE Goal
  BY <1>53 DEF TakeCommand
<1>54. ASSUME NEW c \in Commands, MeetBarrier(c) PROVE Goal
  BY <1>54 DEF MeetBarrier
<1>55. ASSUME NEW c \in Commands, AbandonRefused(c) PROVE Goal
  BY <1>55 DEF AbandonRefused
<1>56. ASSUME NEW c \in Commands, Settle(c) PROVE Goal
  BY <1>56 DEF Settle
<1>57. ASSUME NEW c \in Commands, PassDefers(c) PROVE Goal
  BY <1>57 DEF PassDefers
<1>58. ASSUME NEW c \in Commands, PassFails(c) PROVE Goal
  BY <1>58 DEF PassFails
<1>59. ASSUME NEW c \in Commands, Report(c) PROVE Goal
  BY <1>59 DEF Report
<1>60. ASSUME NEW c \in Commands, ReportFails(c) PROVE Goal
  BY <1>60 DEF ReportFails
<1>61. ASSUME NEW i \in Intents, ReportIntent(i) PROVE Goal
  BY <1>61 DEF ReportIntent
<1>62. CASE OverlayEnd
  BY <1>62 DEF OverlayEnd
<1>63. CASE UNCHANGED vars
  BY <1>63 DEF vars
<1> QED
  BY <1>1, <1>2, <1>3, <1>4, <1>5, <1>6, <1>7, <1>8, <1>9, <1>10, <1>11, <1>12, <1>13,
     <1>14, <1>15, <1>16, <1>17, <1>18, <1>19, <1>20, <1>21, <1>22, <1>23, <1>24, <1>25,
     <1>26, <1>27, <1>28, <1>29, <1>30, <1>31, <1>32, <1>33, <1>34, <1>35, <1>36, <1>37,
     <1>38, <1>39, <1>40, <1>41, <1>42, <1>43, <1>44, <1>45, <1>46, <1>47, <1>48, <1>49,
     <1>50, <1>51, <1>52, <1>53, <1>54, <1>55, <1>56, <1>57, <1>58, <1>59, <1>60, <1>61,
     <1>62, <1>63
     DEF Next, Client, DaemonCommand, Delivery, Batch, DaemonStep, OverlayEntry, OverlayCommand,
         OverlayStep

\* A command that stays where it is keeps what its stage says of it, whatever client
\* and overlay do.
LEMMA StageKept ==
  ASSUME TypeOK, RecordInv, JournalInv, QueueInv, StageInv, HandInv, [Next]_vars,
         UNCHANGED <<dpc, cur>>, QueueInv', \A c \in Commands : RecordStep(c),
         NEW c \in cur, dpc \in CommandStages
  PROVE  c \in Commands /\ Stage(c)'
<1> USE DEF CommandStages
<1>1. c \in Commands /\ Stage(c) /\ c \in Actions /\ c \notin Intents
  BY ActionsAssumption DEF StageInv, Actions
<1>2. RecordStep(c) /\ OverlayRecord(ctl[c])
  BY <1>1 DEF RecordInv
<1>3. gen' = gen
  BY StepGeneration DEF NewGeneration
<1>4. (cpc[c] # "idle" => cpc'[c] # "idle") /\ (cpc[c] # "idle" /\ ~In(c, queue) => ~In(c, queue'))
  <2>1. ASSUME NEW d \in Commands, Sending(d), cpc[c] # "idle"
        PROVE  cpc'[c] # "idle" /\ (In(c, queue') => In(c, queue))
    BY <2>1, <1>1, AppendIs DEF Sending, TypeOK
  <2>2. queue \in Seq(Commands)
    BY DEF TypeOK
  <2>3. queue # <<>> => (In(c, Tail(queue)) => In(c, queue))
    BY <2>2, TailIs
  <2> QED BY <1>1, <2>1, <2>3, EmptyIs, StepQueue
<1>5. born'[c] = born[c] /\ (Own(c) => Own(c)')
  <2>1. ASSUME NEW a \in Actions, Publishing(a) PROVE a # c
    <3>1. dpc # "admitting"
      OBVIOUS
    <3> QED BY <2>1, <3>1 DEF Publishing
  <2>2. born'[c] = born[c]
    BY <1>1, <2>1, StepJournal DEF Publishing, Moving, Applying, journalVars, TypeOK
  <2> QED BY <1>3, <2>2 DEF Own
<1>6. dpc \in Owning => IsOpen(ctl'[c]) /\ cpc'[c] # "deciding"
  <2> SUFFICES ASSUME dpc \in Owning PROVE IsOpen(ctl'[c]) /\ cpc'[c] # "deciding"
    OBVIOUS
  <2>1. IsOpen(ctl[c]) /\ cpc[c] # "deciding" /\ ~DecisionFree(c) /\ cpc[c] # "idle"
    BY <1>1 DEF Stage, DecisionFree, Owning, QueueInv, JournalInv, Gone
  <2>2. cpc'[c] # "deciding"
    BY <1>1, <2>1, StepInspect
  <2>3. IsOpen(ctl'[c])
    BY <1>1, <1>2, <1>3, <2>1 DEF RecordStep, TypeOK
  <2> QED BY <2>2, <2>3
<1>7. ASSUME born[c] # 0 PROVE cpc[c] # "idle"
  BY <1>1, <1>7 DEF QueueInv
\* The overlay leaves the entry of an undecided command alone.
<1>8. dpc \in {"relocking", "committing"} => (IsOpen(ctl'[c]) => entry'[c] = "Prepared")
  <2> SUFFICES ASSUME dpc \in {"relocking", "committing"}, IsOpen(ctl'[c]) PROVE entry'[c] = "Prepared"
    OBVIOUS
  <2>1. Own(c) /\ cpc[c] # "idle"
    BY <1>1, <1>7 DEF Stage, Own, JournalInv, Gone
  <2>2. IsOpen(ctl[c]) /\ entry[c] = "Prepared" /\ ~IsAuthorized(ctl[c]) /\ ~Answered(ctl[c])
    BY <1>1, <1>2, <2>1, AnsweredIs DEF RecordStep, Stage
  <2>3. ~Refused(ctl[c])
    BY <2>2 DEF Refused, IsOpen
  <2>4. ASSUME Moving(c) PROVE FALSE
    BY <1>1, <2>1, <2>2, <2>3, <2>4 DEF Moving, HandInv, Held, Reached
  <2>5. ASSUME NEW a \in Actions, a # c, Publishing(a) \/ Moving(a) PROVE entry'[c] = entry[c]
    BY <1>1, <2>5 DEF Publishing, Moving, TypeOK
  <2>6. ~Publishing(c)
    BY <2>1, <1>1, <1>5 DEF Publishing, Stage, Gone
  <2> QED BY <2>2, <2>4, <2>5, <2>6, <1>1, StepJournal DEF Applying, journalVars
<1>9. dpc = "committing" => ctl'[c].action_status = "Prepared"
  BY <1>1, <1>2, <1>6, <1>7 DEF Stage, RecordStep, Owning, JournalInv, Gone
<1>10. dpc = "finishing" => applied'[c] = 0 /\ entry'[c] \in {"Abandoned", "none"}
  <2> SUFFICES ASSUME dpc = "finishing" PROVE applied'[c] = 0 /\ entry'[c] \in {"Abandoned", "none"}
    OBVIOUS
  <2>1. applied[c] = 0 /\ entry[c] \in {"Abandoned", "none"}
    BY <1>1 DEF Stage
  <2>2. ~Applying(c) /\ ~Publishing(c)
    BY <1>1, <2>1 DEF Applying, Publishing, HandInv, Held
  <2>3. Moving(c) => applied'[c] = 0 /\ entry'[c] \in {"Abandoned", "none"}
    BY <1>1, <2>1 DEF Moving, HandInv, Held, Reached, Abandonable, TypeOK
  <2>4. ASSUME NEW a \in Actions, a # c, Publishing(a) \/ Moving(a) \/ Applying(a)
        PROVE  entry'[c] = entry[c] /\ applied'[c] = applied[c]
    BY <1>1, <2>4 DEF Publishing, Moving, Applying, TypeOK, journalVars
  <2> QED BY <1>1, <2>1, <2>2, <2>3, <2>4, StepJournal DEF journalVars
<1>11. dpc = "removing" => Answered(ctl'[c])
  BY <1>1, <1>2 DEF Stage, RecordStep
<1> QED
  BY <1>1, <1>2, <1>3, <1>4, <1>5, <1>6, <1>7, <1>8, <1>9, <1>10, <1>11 DEF Stage, RecordStep

LEMMA StageStep ==
  ASSUME TypeOK, RecordInv, JournalInv, QueueInv, StageInv, HandInv, ResultInv, [Next]_vars,
         QueueInv', \A c \in Commands : RecordStep(c)
  PROVE  StageInv'
<1>1. CASE UNCHANGED <<dpc, cur>>
  BY <1>1, StageKept, StepStage DEF StageInv
<1>2. CASE dpc' \notin CommandStages
  BY <1>2, StepStage DEF StageInv
<1>3. ASSUME NEW c \in Commands, Advancing(c) PROVE StageInv'
  <2>0. /\ c \in Actions /\ cpc \in [Commands -> {"idle", "waiting", "deciding", "gone"}]
        /\ entry \in [Actions -> EntryStates] /\ born \in [Actions -> Nat]
        /\ ctl \in [Commands -> Controls] /\ gen \in Nat /\ OverlayRecord(ctl[c])
    BY DEF TypeOK, Actions, RecordInv
  <2>a. c \in cur /\ dpc \in CommandStages => Stage(c)
    BY DEF StageInv
  <2>b. born[c] # 0 => cpc[c] # "idle"
    BY DEF QueueInv
  <2>s. ASSUME c \in cur', Stage(c)' PROVE StageInv'
    BY <2>s, StepStage DEF StageInv
  <2> USE DEF CommandStages, Owning, Gone
  <2>1. CASE Claim(c)
    <3>1. /\ ctl'[c] = Claimed(ctl[c]) /\ IsOpen(ctl[c]) /\ dpc' = "holding" /\ cur' = {c}
          /\ queue # <<>> /\ c = Head(queue) /\ queue' = Tail(queue) /\ cpc[c] # "deciding"
          /\ UNCHANGED <<born, gen, cpc>>
      BY <2>0, <2>1 DEF Claim, Record, DecisionFree, journalVars
    <3>2. queue \in Seq(Commands)
      BY DEF TypeOK
    <3>3. In(c, queue) /\ ~In(c, queue')
      BY <3>1, <3>2, TailIs DEF QueueInv
    <3>4. cpc[c] # "idle" /\ born[c] = 0 /\ ctl[c].target_daemon_token = gen
      BY <3>3 DEF QueueInv
    <3>5. IsOpen(ctl'[c]) /\ ctl'[c].target_daemon_token = gen
      BY <2>0, <3>1, <3>4, NotedIs DEF SameOutcome, IsOpen
    <3> QED BY <2>s, <3>1, <3>3, <3>4, <3>5 DEF Stage
  <2>2. CASE ReleaseToPrepare(c)
    BY <2>a, <2>s, <2>2 DEF ReleaseToPrepare, Stage, treeVars, journalVars, In
  <2>3. CASE PublishPrepared(c)
    <3>1. /\ dpc = "preparing" /\ dpc' = "relocking" /\ c \in cur /\ cur' = cur /\ UNCHANGED <<gen, cpc>>
          /\ born'[c] = gen /\ entry'[c] = "Prepared"
      BY <2>0, <2>3 DEF PublishPrepared, Publish, Mark
    <3> QED BY <2>a, <2>s, <3>1 DEF Stage
  <2>4. CASE Relock(c)
    <3>1. /\ dpc = "relocking" /\ c \in cur /\ cur' = cur /\ UNCHANGED <<gen, cpc, journalVars>>
          /\ cpc[c] # "deciding"
          /\ \/ dpc' = "committing" /\ IsOpen(ctl[c]) /\ ctl'[c] = WithAction(ctl[c], "Prepared")
             \/ dpc' = "retracting"
      BY <2>0, <2>4 DEF Relock, Record, DecisionFree
    <3>2. born[c] = gen /\ gen # 0 /\ (IsOpen(ctl[c]) => entry[c] = "Prepared") /\ cpc[c] # "idle"
      BY <2>a, <3>1 DEF Stage, JournalInv
    <3>3. CASE dpc' = "committing"
      <4>1. IsOpen(ctl'[c]) /\ ctl'[c].action_status = "Prepared"
        BY <2>0, <3>1, <3>3, ProgressIs DEF IsOpen
      <4> QED BY <2>s, <3>1, <3>2, <3>3, <4>1 DEF Stage, journalVars
    <3>4. CASE dpc' = "retracting"
      BY <2>s, <3>1, <3>2, <3>4 DEF Stage, journalVars
    <3> QED BY <3>1, <3>3, <3>4
  <2>5. CASE Retract(c)
    <3>1. /\ dpc = "retracting" /\ dpc' \in {"rewriting", "exited"} /\ c \in cur /\ cur' = cur
          /\ UNCHANGED <<gen, cpc, born>>
      BY <2>5 DEF Retract, Fails, journalVars
    <3> QED BY <1>2, <2>a, <2>s, <3>1 DEF Stage
  <2>6. CASE AbandonEntry(c)
    <3>1. /\ c \in cur /\ cur' = cur /\ UNCHANGED <<gen, cpc, born, applied>>
          /\ \/ dpc' = "finishing" /\ Abandonable(c) /\ entry'[c] = "Abandoned"
             \/ dpc' = "exited"
      BY <2>0, <2>6 DEF AbandonEntry, Fails, journalVars, Mark
    <3>2. Abandonable(c) => applied[c] = 0 /\ born[c] # 0
      BY <2>0 DEF Abandonable, ResultInv, JournalInv
    <3> QED BY <1>2, <2>b, <2>s, <3>1, <3>2 DEF Stage
  <2>7. CASE FinishAbandoned(c)
    <3>1. /\ dpc = "finishing" /\ c \in cur /\ cur' = cur /\ UNCHANGED cpc
          /\ \/ /\ dpc' = "removing" /\ Finishable(ctl[c], "NoEffect")
                /\ ctl'[c] = ActionFinished(ctl[c], "NoEffect")
             \/ dpc' = "exited"
      BY <2>0, <2>7 DEF FinishAbandoned, Fails, Record
    <3>2. dpc' = "removing" => Answered(ctl'[c])
      BY <2>0, <3>1, FinishedIs DEF Results
    <3> QED BY <1>2, <2>a, <2>s, <3>1, <3>2 DEF Stage
  <2> QED BY <1>3, <2>1, <2>2, <2>3, <2>4, <2>5, <2>6, <2>7 DEF Advancing
<1> QED BY <1>1, <1>2, <1>3, StepStage

-----------------------------------------------------------------------------
(* The overlay's hand.                                                     *)

\* A claim pass is at one entry.
LEMMA OneAtEntry ==
  ASSUME TypeOK, JournalInv, at # 0, NEW a \in Actions, AtEntry(a), NEW b \in Actions, AtEntry(b)
  PROVE  a = b
<1>1. PICK n \in DOMAIN journal :
        /\ journal[n] = a /\ at <= n
        /\ \A m \in DOMAIN journal : at <= m /\ m < n => entry[journal[m]] = "none"
  BY AtEntryIs
<1>2. PICK k \in DOMAIN journal :
        /\ journal[k] = b /\ at <= k
        /\ \A m \in DOMAIN journal : at <= m /\ m < k => entry[journal[m]] = "none"
  BY AtEntryIs
<1>3. entry[a] # "none" /\ entry[b] # "none" /\ n \in Nat /\ k \in Nat
  <2>1. entry[a] # "none" /\ entry[b] # "none"
    BY AtEntryIs
  <2>2. n \in Nat /\ k \in Nat
    <3>1. journal \in Seq(Actions)
      BY DEF TypeOK
    <3> QED BY <3>1
  <2> QED BY <2>1, <2>2
<1> QED BY <1>1, <1>2, <1>3

\* A step of the overlay that changes its program counter, or none.
Handling(a) ==
  \/ SkipForeign(a) \/ ClaimIntent(a) \/ (a \in Commands /\ TakeCommand(a))
  \/ Apply(a) \/ RecordApplied(a)
  \/ ClaimCommand(a) \/ Settle(a) \/ Unlink(a) \/ Report(a)

LEMMA StepHand ==
  ASSUME TypeOK, [Next]_vars
  PROVE  \/ UNCHANGED <<opc, at, fin>>
         \/ fin' = {} /\ opc' \notin Passing
         \/ /\ fin' = fin \/ \E a \in fin : fin' = {a}
            /\ opc # "apply" /\ opc' \in {"idle", "scan", "record", "report"}
         \/ fin' = fin /\ opc \in {"scan", "pass"} /\ opc' \in {"pass", "idle"}
            /\ (opc' = "pass" => at' = 1)
         \/ fin' = fin /\ opc = "report" /\ opc' = "drop" /\ fin \cap Intents # {}
         \/ \E a \in Actions : Handling(a)
<1> DEFINE Goal == \/ UNCHANGED <<opc, at, fin>>
                   \/ fin' = {} /\ opc' \notin Passing
                   \/ /\ fin' = fin \/ \E a \in fin : fin' = {a}
                      /\ opc # "apply" /\ opc' \in {"idle", "scan", "record", "report"}
                   \/ fin' = fin /\ opc \in {"scan", "pass"} /\ opc' \in {"pass", "idle"}
                      /\ (opc' = "pass" => at' = 1)
                   \/ fin' = fin /\ opc = "report" /\ opc' = "drop" /\ fin \cap Intents # {}
                   \/ \E a \in Actions : Handling(a)
<1> USE DEF Passing, overlayVars, NoOverlay, Actions
<1>1. ASSUME NEW c \in Commands, PublishCommand(c) PROVE Goal
  BY <1>1 DEF PublishCommand
<1>2. ASSUME NEW c \in Commands, Inspect(c) PROVE Goal
  BY <1>2 DEF Inspect
<1>3. ASSUME NEW c \in Commands, PollAgain(c) PROVE Goal
  BY <1>3 DEF PollAgain
<1>4. ASSUME NEW c \in Commands, Conclude(c) PROVE Goal
  BY <1>4 DEF Conclude
<1>5. ASSUME NEW c \in Commands, ClientCrash(c) PROVE Goal
  BY <1>5 DEF ClientCrash
<1>6. ASSUME NEW c \in Commands, Claim(c) PROVE Goal
  BY <1>6 DEF Claim
<1>7. ASSUME NEW c \in Commands, Collect(c) PROVE Goal
  BY <1>7 DEF Collect
<1>8. ASSUME NEW c \in Commands, CommitNoOp(c) PROVE Goal
  BY <1>8 DEF CommitNoOp
<1>9. ASSUME NEW c \in Commands, ReleaseToPrepare(c) PROVE Goal
  BY <1>9 DEF ReleaseToPrepare
<1>10. ASSUME NEW c \in Commands, PublishPrepared(c) PROVE Goal
  BY <1>10 DEF PublishPrepared
<1>11. ASSUME NEW c \in Commands, Relock(c) PROVE Goal
  BY <1>11 DEF Relock
<1>12. ASSUME NEW c \in Commands, RelockExpires(c) PROVE Goal
  BY <1>12 DEF RelockExpires
<1>13. ASSUME NEW c \in Commands, Retract(c) PROVE Goal
  BY <1>13 DEF Retract
<1>14. ASSUME NEW c \in Commands, RewriteCanceled(c) PROVE Goal
  BY <1>14 DEF RewriteCanceled
<1>15. ASSUME NEW c \in Commands, Commit(c) PROVE Goal
  BY <1>15 DEF Commit
<1>16. ASSUME NEW c \in Commands, AbandonEntry(c) PROVE Goal
  BY <1>16 DEF AbandonEntry
<1>17. ASSUME NEW c \in Commands, FinishAbandoned(c) PROVE Goal
  BY <1>17 DEF FinishAbandoned
<1>18. ASSUME NEW c \in Commands, RemoveAbandoned(c) PROVE Goal
  BY <1>18 DEF RemoveAbandoned
<1>19. ASSUME NEW i \in Intents, Ask(i) PROVE Goal
  BY <1>19 DEF Ask
<1>20. CASE Start
  BY <1>20 DEF Start
<1>21. CASE DaemonCrash
  BY <1>21 DEF DaemonCrash
<1>22. CASE Quit
  BY <1>22 DEF Quit
<1>23. CASE LocalHide
  BY <1>23 DEF LocalHide
<1>24. CASE NoticeExit
  BY <1>24 DEF NoticeExit
<1>25. CASE BackoffEnds
  BY <1>25 DEF BackoffEnds
<1>26. CASE DropReference
  BY <1>26 DEF DropReference
<1>27. CASE BeginBatch
  BY <1>27 DEF BeginBatch
<1>28. ASSUME NEW a \in Actions, StartOk(a) PROVE Goal
  BY <1>28 DEF StartOk
<1>29. ASSUME NEW a \in Actions, StartFails(a) PROVE Goal
  BY <1>29 DEF StartFails
<1>30. ASSUME NEW a \in Actions, SkipStart(a) PROVE Goal
  BY <1>30 DEF SkipStart
<1>31. ASSUME NEW a \in Actions, SignalOk(a) PROVE Goal
  BY <1>31 DEF SignalOk
<1>32. ASSUME NEW a \in Actions, SignalFails(a) PROVE Goal
  BY <1>32 DEF SignalFails
<1>33. ASSUME NEW i \in Intents, AbandonIntent(i) PROVE Goal
  BY <1>33 DEF AbandonIntent
<1>34. CASE SkipOff
  BY <1>34 DEF SkipOff
<1>35. CASE Admit
  BY <1>35 DEF Admit
<1>36. CASE AdmitFails
  BY <1>36 DEF AdmitFails
<1>37. CASE Admitted
  BY <1>37 DEF Admitted
<1>38. CASE Offer
  BY <1>38 DEF Offer
<1>39. CASE EndBatch
  BY <1>39 DEF EndBatch
<1>40. CASE Wake
  BY <1>40 DEF Wake
<1>41. CASE Scan
  BY <1>41 DEF Scan
<1>42. CASE ScanDefers
  BY <1>42 DEF ScanDefers, Defer
<1>43. CASE PassEnds
  BY <1>43 DEF PassEnds, EndPass, Undelivered, Settled, Visits
<1>44. ASSUME NEW a \in Actions, SkipForeign(a) PROVE Goal
  BY <1>44 DEF Handling
<1>45. ASSUME NEW a \in Actions, CloseClaimed(a) PROVE Goal
  BY <1>45 DEF CloseClaimed
<1>46. ASSUME NEW a \in Actions, ClaimIntent(a) PROVE Goal
  BY <1>46 DEF Handling
<1>47. ASSUME NEW a \in Actions, Unlink(a) PROVE Goal
  BY <1>47 DEF Handling
<1>48. ASSUME NEW a \in Actions, Apply(a) PROVE Goal
  BY <1>48 DEF Handling
<1>49. ASSUME NEW a \in Actions, RecordApplied(a) PROVE Goal
  BY <1>49 DEF Handling
<1>50. ASSUME NEW a \in Actions, DropEntry(a) PROVE Goal
  BY <1>50 DEF DropEntry
<1>51. ASSUME NEW a \in Actions, FinishDefers(a) PROVE Goal
  BY <1>51 DEF FinishDefers, Defer
<1>52. ASSUME NEW c \in Commands, ClaimCommand(c) PROVE Goal
  BY <1>52 DEF Handling
<1>53. ASSUME NEW c \in Commands, TakeCommand(c) PROVE Goal
  BY <1>53 DEF Handling
<1>54. ASSUME NEW c \in Commands, MeetBarrier(c) PROVE Goal
  BY <1>54 DEF MeetBarrier, EndPass, Undelivered, Settled, Visits
<1>55. ASSUME NEW c \in Commands, AbandonRefused(c) PROVE Goal
  BY <1>55 DEF AbandonRefused
<1>56. ASSUME NEW c \in Commands, Settle(c) PROVE Goal
  BY <1>56 DEF Handling
<1>57. ASSUME NEW c \in Commands, PassDefers(c) PROVE Goal
  BY <1>57 DEF PassDefers, Defer
<1>58. ASSUME NEW c \in Commands, PassFails(c) PROVE Goal
  BY <1>58 DEF PassFails, EndPass, Undelivered, Settled, Visits
<1>59. ASSUME NEW c \in Commands, Report(c) PROVE Goal
  BY <1>59 DEF Handling
<1>60. ASSUME NEW c \in Commands, ReportFails(c) PROVE Goal
  BY <1>60 DEF ReportFails, Defer
<1>61. ASSUME NEW i \in Intents, ReportIntent(i) PROVE Goal
  BY <1>61 DEF ReportIntent
<1>62. CASE OverlayEnd
  BY <1>62 DEF OverlayEnd
<1>63. CASE UNCHANGED vars
  BY <1>63 DEF vars
<1> QED
  BY <1>1, <1>2, <1>3, <1>4, <1>5, <1>6, <1>7, <1>8, <1>9, <1>10, <1>11, <1>12, <1>13,
     <1>14, <1>15, <1>16, <1>17, <1>18, <1>19, <1>20, <1>21, <1>22, <1>23, <1>24, <1>25,
     <1>26, <1>27, <1>28, <1>29, <1>30, <1>31, <1>32, <1>33, <1>34, <1>35, <1>36, <1>37,
     <1>38, <1>39, <1>40, <1>41, <1>42, <1>43, <1>44, <1>45, <1>46, <1>47, <1>48, <1>49,
     <1>50, <1>51, <1>52, <1>53, <1>54, <1>55, <1>56, <1>57, <1>58, <1>59, <1>60, <1>61,
     <1>62, <1>63
     DEF Next, Client, DaemonCommand, Delivery, Batch, DaemonStep, OverlayEntry, OverlayCommand,
         OverlayStep

\* While the overlay does nothing, nobody else disturbs what it holds.
LEMMA HandKept ==
  ASSUME TypeOK, RecordInv, JournalInv, QueueInv, WaitInv, StageInv, HandInv, [Next]_vars,
         UNCHANGED <<opc, at, fin>>, \A c \in Commands : RecordStep(c)
  PROVE  HandInv'
<1>1. /\ Passing \subseteq OverlayPCs /\ "claimed" \in Passing /\ "unlink" \in Passing
      /\ "apply" \notin Passing /\ Commands \subseteq Actions /\ fin \subseteq Actions
  BY DEF Passing, OverlayPCs, Actions, TypeOK
\* An answered record stays answered, an authorized one authorized.
<1>2. ASSUME NEW c \in Commands, born[c] # 0
      PROVE  /\ Answered(ctl[c]) => Answered(ctl'[c])
             /\ opc \notin {"none", "pass", "report"} /\ IsAuthorized(ctl[c])
                  /\ entry[c] \notin {"Abandoned", "none"} => IsAuthorized(ctl'[c])
  <2>1. cpc[c] # "idle"
    BY <1>2 DEF QueueInv
  <2>2. dpc = "finishing" /\ c \in cur => entry[c] \in {"Abandoned", "none"}
    BY DEF StageInv, Stage, CommandStages
  <2> QED BY <2>1, <2>2 DEF RecordStep
<1>3. ASSUME NEW a \in fin PROVE Held(a)'
  <2>1. a \in Actions /\ born[a] # 0 /\ Held(a)
    BY <1>1 DEF JournalInv, HandInv
  <2>2. ~Publishing(a)
    BY <2>1, PublishedOnce
  <2>3. opc = "apply" => ~Moving(a)
    <3>1. SUFFICES ASSUME opc = "apply", Moving(a) PROVE FALSE
      OBVIOUS
    <3>2. entry[a] = "Claimed" /\ (a \in Commands => IsAuthorized(ctl[a]))
      BY <2>1, <3>1 DEF Held
    <3>3. a \in cur /\ dpc = "removing"
      BY <3>1, <3>2, <1>1 DEF Moving, Abandonable, Passing
    <3>4. a \in Commands /\ Answered(ctl[a])
      BY <3>3 DEF StageInv, Stage, CommandStages
    <3> QED BY <3>2, <3>4, AnsweredIs DEF RecordInv
  <2>4. \A b \in Actions : ~Applying(b)
    BY DEF Applying
  <2>5. ASSUME NEW b \in Actions, b # a, Publishing(b) \/ Moving(b)
        PROVE  entry'[a] = entry[a] /\ born'[a] = born[a] /\ gen' = gen
    <3>1. entry \in [Actions -> EntryStates] /\ born \in [Actions -> Nat]
      BY DEF TypeOK
    <3>2. entry'[a] = entry[a] /\ born'[a] = born[a]
      BY <2>1, <2>5, <3>1 DEF Publishing, Moving
    <3>3. gen' = gen
      BY <2>5, StepGeneration DEF Publishing, Moving, NewGeneration, journalVars, Gone, TypeOK
    <3> QED BY <3>2, <3>3
  <2>6. gen' # gen => opc = "none"
    BY StepGeneration DEF NewGeneration
  <2>7. applied'[a] = applied[a]
    <3>1. CASE \E b \in Actions : Publishing(b) \/ Moving(b)
      BY <3>1, <2>4 DEF Publishing, Moving
    <3> QED BY <2>4, <3>1, StepJournal
  <2>8. opc = "apply" => entry'[a] = entry[a] /\ (Own(a) => Own(a)')
    <3>1. CASE UNCHANGED journalVars
      BY <2>6, <3>1 DEF journalVars, Own
    <3>2. ASSUME NEW b \in Actions, opc = "apply", Publishing(b) \/ Moving(b)
          PROVE  entry'[a] = entry[a] /\ (Own(a) => Own(a)')
      BY <2>2, <2>3, <2>5, <3>2 DEF Own
    <3> QED BY <2>4, <3>1, <3>2, StepJournal
  <2>9. a \in Commands =>
          /\ Answered(ctl[a]) => Answered(ctl'[a])
          /\ opc = "apply" /\ IsAuthorized(ctl[a]) => IsAuthorized(ctl'[a])
    BY <1>2, <2>1 DEF Held
  <2>10. UNCHANGED opc
    OBVIOUS
  <2> QED BY <2>1, <2>7, <2>8, <2>9, <2>10 DEF Held
<1>4. ASSUME opc \in {"claimed", "unlink"}, NEW c \in Commands, AtEntry(c)' PROVE Reached(c)'
  <2>1. \A b \in Actions : ~Publishing(b) /\ ~Moving(b) /\ ~Applying(b)
    BY <1>1, <1>4 DEF Publishing, Moving, Applying
  <2>2. UNCHANGED journalVars
    BY <2>1, StepJournal
  <2>3. AtEntry(c) /\ Reached(c)
    BY <1>4, <2>2 DEF AtEntry, journalVars, HandInv
  <2>4. entry[c] # "none" /\ born[c] # 0
    BY <1>1, <2>3 DEF AtEntry, JournalInv
  <2>5. gen' = gen
    BY <1>4, StepGeneration DEF NewGeneration
  <2> QED BY <1>2, <1>4, <2>2, <2>3, <2>4, <2>5 DEF Reached, journalVars, Own
<1> QED BY <1>1, <1>3, <1>4 DEF HandInv

LEMMA HandStep ==
  ASSUME TypeOK, RecordInv, JournalInv, QueueInv, WaitInv, StageInv, HandInv, ResultInv,
         [Next]_vars, \A c \in Commands : RecordStep(c)
  PROVE  HandInv'
<1>0. /\ Commands \subseteq Actions /\ fin \subseteq Actions /\ Commands \cap Intents = {}
      /\ entry \in [Actions -> EntryStates] /\ applied \in [Actions -> Nat]
      /\ ctl \in [Commands -> Controls] /\ journal \in Seq(Actions)
      /\ (\A a, b \in fin : a = b) /\ (\A a \in fin : Held(a))
      /\ opc \in Passing => at # 0
  BY ActionsAssumption DEF TypeOK, Actions, HandInv
<1>a. opc # "apply" => \A a \in fin : applied[a] = 1 /\ applied'[a] = 1
  <2>1. ASSUME opc # "apply" PROVE UNCHANGED applied
    BY <2>1, StepJournal DEF Publishing, Moving, Applying
  <2> QED BY <1>0, <2>1 DEF Held
<1> USE DEF Passing
<1>1. CASE UNCHANGED <<opc, at, fin>>
  BY <1>1, HandKept
<1>2. CASE fin' = {} /\ opc' \notin Passing
  BY <1>2 DEF HandInv
<1>3. CASE /\ fin' = fin \/ \E a \in fin : fin' = {a}
           /\ opc # "apply" /\ opc' \in {"idle", "scan", "record", "report"}
  BY <1>0, <1>a, <1>3 DEF HandInv, Held
<1>4. CASE /\ fin' = fin /\ opc \in {"scan", "pass"} /\ opc' \in {"pass", "idle"}
           /\ (opc' = "pass" => at' = 1)
  BY <1>0, <1>a, <1>4 DEF HandInv, Held
<1>5. CASE fin' = fin /\ opc = "report" /\ opc' = "drop" /\ fin \cap Intents # {}
  BY <1>0, <1>a, <1>5 DEF HandInv, Held
<1>6. ASSUME NEW a \in Actions, Handling(a) PROVE HandInv'
  <2>1. CASE SkipForeign(a)
    <3>1. opc = "pass" /\ opc' = "pass" /\ fin' = fin /\ AtEntry(a) /\ StepOver(a)
      BY <2>1 DEF SkipForeign, Visits
    <3>2. \E n \in DOMAIN journal : journal[n] = a
      BY <1>0, <3>1, AtEntryIs
    <3>3. (CHOOSE n \in DOMAIN journal : journal[n] = a) \in Nat
      BY <1>0, <3>2
    <3>4. at' # 0
      BY <3>1, <3>3 DEF StepOver
    <3> QED BY <1>0, <1>a, <3>1, <3>4 DEF HandInv, Held
  <2>2. CASE ClaimIntent(a)
    <3>1. /\ a \in Intents /\ Own(a) /\ entry[a] = "Eligible" /\ opc' = "apply" /\ fin' = {a}
          /\ entry'[a] = "Claimed" /\ UNCHANGED <<applied, born, gen>>
      BY <1>0, <2>2 DEF ClaimIntent, Take, Mark, OverlayFrame
    <3>2. applied[a] = 0
      BY <3>1 DEF ResultInv
    <3>3. a \notin Commands
      BY <1>0, <3>1
    <3> QED BY <3>1, <3>2, <3>3 DEF HandInv, Held, Own
  <2>3. CASE a \in Commands /\ TakeCommand(a)
    <3>1. /\ opc = "claimed" /\ AtEntry(a) /\ opc' = "apply" /\ fin' = {a}
          /\ entry'[a] = "Claimed" /\ UNCHANGED <<ctl, applied, born, gen>>
      BY <1>0, <2>3 DEF TakeCommand, Take, Mark, OverlayFrame
    <3>2. Reached(a)
      BY <2>3, <3>1 DEF HandInv
    <3>3. applied[a] = 0
      BY <3>1, <3>2 DEF ResultInv, Reached
    <3> QED BY <3>1, <3>2, <3>3 DEF HandInv, Held, Own, Reached
  <2>4. CASE Apply(a)
    <3>1. opc = "apply" /\ a \in fin /\ fin' = fin /\ applied'[a] = applied[a] + 1 /\ opc' = "record"
      BY <1>0, <2>4 DEF Apply
    <3>2. applied'[a] = 1
      BY <1>0, <3>1 DEF Held
    <3> QED BY <1>0, <3>1, <3>2 DEF HandInv, Held
  <2>5. CASE RecordApplied(a)
    <3>1. /\ opc = "record" /\ a \in fin /\ fin' = fin
          /\ opc' \in {"report", "drop"} /\ (opc' = "drop" => a \notin Commands)
      BY <2>5 DEF RecordApplied
    <3> QED BY <1>0, <1>a, <3>1 DEF HandInv, Held
  <2>6. CASE ClaimCommand(a)
    <3>1. /\ a \in Commands /\ opc = "pass" /\ opc' = "claimed" /\ fin' = fin /\ AtEntry(a)
          /\ Own(a) /\ entry[a] = "Prepared" /\ Takeable(ctl[a])
          /\ ctl'[a] = WithAction(ctl[a], "Claimed") /\ UNCHANGED <<entry, journal, at, born, gen>>
      BY <1>0, <2>6 DEF ClaimCommand, Undelivered, Visits, Record, OverlayFrame
    <3>2. IsAuthorized(ctl'[a])
      BY <1>0, <3>1, ProgressIs DEF RecordInv, Takeable, LiveActions, IsAuthorized
    <3>3. ASSUME NEW c \in Commands, AtEntry(c)' PROVE c = a
      <4>1. AtEntry(c)
        BY <3>1, <3>3 DEF AtEntry
      <4> QED BY <1>0, <3>1, <4>1, OneAtEntry
    <3> QED BY <1>0, <1>a, <3>1, <3>2, <3>3 DEF HandInv, Held, Reached, Own
  <2>7. CASE Settle(a)
    <3>1. /\ a \in Commands /\ opc = "pass" /\ opc' = "unlink" /\ fin' = fin /\ AtEntry(a)
          /\ entry[a] \in Terminal /\ Finishable(ctl[a], ResultOf(entry[a]))
          /\ ctl'[a] = ActionFinished(ctl[a], ResultOf(entry[a])) /\ UNCHANGED <<entry, journal, at>>
      BY <1>0, <2>7 DEF Settle, Settled, Visits, Record, OverlayFrame
    <3>2. Answered(ctl'[a])
      <4>1. ResultOf(entry[a]) \in Results
        BY <3>1 DEF ResultOf, Terminal, Results
      <4> QED BY <3>1, <4>1, FinishedIs DEF RecordInv
    <3>3. ASSUME NEW c \in Commands, AtEntry(c)' PROVE c = a
      <4>1. AtEntry(c)
        BY <3>1, <3>3 DEF AtEntry
      <4> QED BY <1>0, <3>1, <4>1, OneAtEntry
    <3> QED BY <1>0, <1>a, <3>1, <3>2, <3>3 DEF HandInv, Held, Reached
  <2>8. CASE Unlink(a)
    <3>1. opc \in {"unlink", "pass"} /\ opc' = "pass" /\ fin' = fin /\ at' = at
      BY <2>8 DEF Unlink
    <3> QED BY <1>0, <1>a, <3>1 DEF HandInv, Held
  <2>9. CASE Report(a)
    <3>1. /\ a \in fin /\ a \in Commands /\ opc = "report" /\ opc' = "drop" /\ fin' = fin
          /\ Finishable(ctl[a], "Applied") /\ ctl'[a] = ActionFinished(ctl[a], "Applied")
      BY <1>0, <2>9 DEF Report, Reportable, Record
    <3>2. Answered(ctl'[a])
      BY <3>1, FinishedIs DEF RecordInv, Results
    <3> QED BY <1>0, <1>a, <3>1, <3>2 DEF HandInv, Held
  <2> QED BY <1>6, <2>1, <2>2, <2>3, <2>4, <2>5, <2>6, <2>7, <2>8, <2>9 DEF Handling
<1> QED BY <1>1, <1>2, <1>3, <1>4, <1>5, <1>6, StepHand

-----------------------------------------------------------------------------
(* What entries and records say, the order of the actions, and orphans.    *)

LEMMA ResultStep ==
  ASSUME TypeOK, RecordInv, JournalInv, QueueInv, WaitInv, StageInv, HandInv, ResultInv,
         [Next]_vars, \A c \in Commands : RecordStep(c)
  PROVE  ResultInv'
<1>0. /\ Commands \subseteq Actions /\ entry \in [Actions -> EntryStates]
      /\ applied \in [Actions -> Nat] /\ fin \subseteq Actions
  BY DEF TypeOK, Actions
<1> DEFINE Entry(a) == /\ applied[a] <= 1
                       /\ entry[a] \in {"Prepared", "Eligible", "Abandoned"} => applied[a] = 0
                       /\ entry[a] = "Applied" => applied[a] = 1
           Told(c) ==
             /\ IsOpen(ctl[c]) \/ ctl[c].response \in {"Canceled", "FailedNoEffect"}
                  => applied[c] = 0
             /\ ctl[c].response = "Succeeded" /\ ctl[c].effect_kind # "NoOp" => applied[c] = 1
<1>1. (\A a \in Actions : Entry(a)) /\ (\A c \in Commands : Told(c))
  BY DEF ResultInv
<1>2. (\A a \in Actions : Entry(a)') /\ (\A c \in Commands : Told(c)') => ResultInv'
  BY DEF ResultInv
\* The records, where the action is not applied in this step.
<1>3. ASSUME NEW c \in Commands, applied'[c] = applied[c] PROVE Told(c)'
  <2>1. cpc[c] = "idle" => applied[c] = 0
    BY <1>0 DEF QueueInv, JournalInv
  <2>2. c \in cur /\ dpc = "finishing" => applied[c] = 0
    BY DEF StageInv, Stage, CommandStages
  <2>3. c \in fin /\ opc = "report" => applied[c] = 1
    BY DEF HandInv, Held
  <2>4. Entry(c) /\ Told(c)
    BY <1>0, <1>1
  <2>5. RecordStep(c)
    OBVIOUS
  <2> QED BY <1>3, <2>1, <2>2, <2>3, <2>4, <2>5 DEF RecordStep
<1>4. ASSUME NEW b \in Actions, Publishing(b) PROVE ResultInv'
  <2>1. born[b] = 0 /\ applied[b] = 0
    BY <1>4, PublishedOnce DEF JournalInv
  <2>2. ASSUME NEW a \in Actions PROVE Entry(a)'
    BY <1>0, <1>1, <1>4, <2>1, <2>2 DEF Publishing
  <2>3. UNCHANGED applied
    BY <1>4 DEF Publishing
  <2> QED BY <1>2, <1>3, <2>2, <2>3
<1>5. ASSUME NEW b \in Actions, Moving(b) PROVE ResultInv'
  <2>1. UNCHANGED applied
    BY <1>5 DEF Moving
  <2>2. PICK to \in EntryStates :
          /\ entry' = [entry EXCEPT ![b] = to]
          /\ \/ to = "Abandoned" /\ Abandonable(b)
             \/ to = "Applied" /\ b \in fin /\ opc = "record"
             \/ to \in {"Indeterminate", "Claimed", "none"}
    BY <1>5 DEF Moving
  <2>3. Entry(b)'
    BY <1>0, <1>1, <2>1, <2>2 DEF Abandonable, HandInv, Held
  <2>4. ASSUME NEW a \in Actions, a # b PROVE Entry(a)'
    BY <1>0, <1>1, <2>1, <2>2, <2>4
  <2> QED BY <1>2, <1>3, <2>1, <2>3, <2>4
<1>6. ASSUME NEW b \in Actions, Applying(b) PROVE ResultInv'
  <2>1. /\ entry[b] = "Claimed" /\ applied[b] = 0 /\ (b \in Commands => IsAuthorized(ctl[b]))
        /\ UNCHANGED <<entry, ctl>> /\ applied' = [applied EXCEPT ![b] = @ + 1]
    BY <1>6 DEF Applying, HandInv, Held, journalVars
  <2>2. ASSUME NEW a \in Actions PROVE Entry(a)'
    BY <1>0, <1>1, <2>1, <2>2
  <2>3. b \in Commands => ~IsOpen(ctl[b]) /\ ~Answered(ctl[b])
    BY <2>1, AnsweredIs DEF RecordInv
  <2>4. b \in Commands => Told(b)'
    BY <2>1, <2>3 DEF Answered
  <2>5. ASSUME NEW c \in Commands, c # b PROVE Told(c)'
    BY <1>0, <1>3, <2>1, <2>5
  <2> QED BY <1>2, <2>2, <2>4, <2>5
<1>7. CASE UNCHANGED <<journalVars, applied>>
  <2>1. ASSUME NEW a \in Actions PROVE Entry(a)'
    BY <1>1, <1>7 DEF journalVars
  <2> QED BY <1>2, <1>3, <1>7, <2>1
<1> QED BY <1>4, <1>5, <1>6, <1>7, StepJournal

\* What is past stays past.
LEMMA PastKept ==
  ASSUME TypeOK, JournalInv, WaitInv, StageInv, [Next]_vars,
         NEW a \in Actions, born[a] # 0, Past(a)
  PROVE  Past(a)'
<1>0. /\ entry \in [Actions -> EntryStates] /\ born \in [Actions -> Nat] /\ gen \in Nat
      /\ born[a] <= gen
  BY DEF TypeOK, JournalInv
<1>1. ASSUME NEW b \in Actions, Publishing(b) PROVE Past(a)'
  <2>1. a # b
    BY <1>1, PublishedOnce
  <2>2. gen' = gen
    <3>1. journal \in Seq(Actions) /\ journal' = Append(journal, b)
      BY <1>1 DEF Publishing, TypeOK
    <3>2. journal' # journal
      BY <3>1
    <3>3. ~NewGeneration
      BY <3>2 DEF NewGeneration, journalVars
    <3> QED BY <3>3, StepGeneration
  <2> QED BY <1>0, <1>1, <2>1, <2>2 DEF Publishing, Past
<1>2. ASSUME NEW b \in Actions, Moving(b) PROVE Past(a)'
  BY <1>0, <1>2 DEF Moving, Past
<1>3. ASSUME NEW b \in Actions, Applying(b) PROVE Past(a)'
  BY <1>3 DEF Applying, Past, journalVars
<1>4. CASE UNCHANGED journalVars
  BY <1>0, <1>4, StepGeneration DEF Past, journalVars, NewGeneration
<1> QED BY <1>1, <1>2, <1>3, <1>4, StepJournal

\* Everything before the entry that a claim pass has reached is past.
LEMMA PastBefore ==
  ASSUME TypeOK, JournalInv, HandInv, OrderInv, opc \in Passing, NEW a \in Actions, AtEntry(a)
  PROVE  \A m, n \in DOMAIN journal : journal[n] = a /\ m < n => Past(journal[m])
<1>1. at # 0
  BY DEF HandInv
<1>2. PICK k \in DOMAIN journal :
        /\ journal[k] = a /\ at <= k
        /\ \A m \in DOMAIN journal : at <= m /\ m < k => entry[journal[m]] = "none"
  BY <1>1, AtEntryIs
<1>3. journal \in Seq(Actions) /\ at \in Nat
  BY DEF TypeOK
<1>4. ASSUME NEW m \in DOMAIN journal, NEW n \in DOMAIN journal, journal[n] = a, m < n
      PROVE  Past(journal[m])
  <2>1. n = k
    BY <1>2, <1>4 DEF JournalInv, Distinct
  <2>2. m < at \/ (at <= m /\ m < k)
    BY <1>3, <1>4, <2>1
  <2>3. CASE m < at
    BY <2>3 DEF OrderInv
  <2>4. CASE at <= m /\ m < k
    BY <1>2, <2>4 DEF Past
  <2> QED BY <2>2, <2>3, <2>4
<1> QED BY <1>4

LEMMA OrderStep ==
  ASSUME TypeOK, JournalInv, WaitInv, StageInv, HandInv, OrderInv, [Next]_vars
  PROVE  OrderInv'
<1>0. /\ journal \in Seq(Actions) /\ at \in Nat /\ fin \subseteq Actions
      /\ Commands \subseteq Actions /\ Intents \subseteq Actions
  BY DEF TypeOK, Actions
<1> DEFINE Due(a) == applied[a] # 0 \/ (opc = "apply" /\ a \in fin)
<1>1. ASSUME NEW m \in DOMAIN journal, Past(journal[m]) PROVE Past(journal[m])'
  <2>1. born[journal[m]] # 0 /\ journal[m] \in Actions
    BY <1>0 DEF JournalInv
  <2>2. ASSUME NEW a \in Actions, a = journal[m] PROVE Past(a)'
    BY <1>1, <2>1, <2>2, PastKept
  <2>3. journal'[m] = journal[m]
    <3>1. CASE journal' = journal
      BY <3>1
    <3>2. ASSUME NEW b \in Actions, journal' = Append(journal, b) PROVE journal'[m] = journal[m]
      BY <1>0, <3>2
    <3> QED BY <3>1, <3>2, StepJournal DEF Publishing, Moving, Applying, journalVars
  <2> QED BY <2>1, <2>2, <2>3 DEF Past
<1>2. ASSUME NEW b \in Actions, Publishing(b) PROVE OrderInv'
  <2>1. born[b] = 0 /\ applied[b] = 0 /\ b \notin fin
    BY <1>2, PublishedOnce DEF JournalInv
  <2>2. opc' \notin Passing /\ journal' = Append(journal, b) /\ UNCHANGED <<opc, fin, applied>>
    BY <1>2 DEF Publishing
  <2>3. ASSUME NEW m \in DOMAIN journal', NEW n \in DOMAIN journal', m < n, Due(journal[n])'
        PROVE  Past(journal[m])'
    <3>1. m \in DOMAIN journal /\ journal'[m] = journal[m]
      BY <1>0, <2>2, <2>3
    <3>2. n \in DOMAIN journal /\ journal'[n] = journal[n]
      BY <1>0, <2>1, <2>2, <2>3
    <3>3. Past(journal[m])
      BY <2>2, <2>3, <3>1, <3>2 DEF OrderInv
    <3> QED BY <1>1, <3>1, <3>3
  <2> QED BY <2>2, <2>3 DEF OrderInv
<1>3. CASE journal' = journal
  <2>1. ASSUME NEW a \in Actions, SkipForeign(a), NEW m \in DOMAIN journal, m < at'
        PROVE  Past(journal[m])
    <3>1. opc = "pass" /\ AtEntry(a) /\ StepOver(a) /\ ~Own(a) /\ opc \in Passing /\ at # 0
      BY <2>1 DEF SkipForeign, Visits, Passing, HandInv
    <3>2. PICK n \in DOMAIN journal : journal[n] = a
      BY <3>1, AtEntryIs
    <3>3. (CHOOSE k \in DOMAIN journal : journal[k] = a) = n
      BY <3>2 DEF JournalInv, Distinct
    <3>4. m < n \/ m = n
      <4>1. at' = 1 + n
        BY <3>1, <3>3 DEF StepOver
      <4>2. m \in Nat /\ n \in Nat
        BY <1>0
      <4> QED BY <2>1, <4>1, <4>2
    <3> QED BY <3>1, <3>2, <3>4, PastBefore DEF Past, Own
  <2>2. ASSUME opc' \in Passing, NEW m \in DOMAIN journal, m < at' PROVE Past(journal[m])
    <3>1. CASE opc \in Passing /\ at' = at
      BY <2>2, <3>1 DEF OrderInv
    <3>2. CASE at' = 1
      BY <1>0, <2>2, <3>2
    <3>3. ASSUME NEW a \in Actions, Handling(a)
          PROVE  SkipForeign(a) \/ (opc \in Passing /\ at' = at)
      BY <2>2, <3>3 DEF Handling, ClaimIntent, TakeCommand, Take, Apply, RecordApplied,
                        ClaimCommand, Undelivered, Settle, Settled, Visits, Unlink, Report, Passing
    <3>4. \/ \E a \in Actions : SkipForeign(a)
          \/ opc \in Passing /\ at' = at
          \/ at' = 1
      BY <2>2, <3>3, StepHand DEF Passing
    <3> QED BY <2>1, <2>2, <3>1, <3>2, <3>4
  <2>3. ASSUME NEW n \in DOMAIN journal, Due(journal[n])', ~Due(journal[n]),
               NEW m \in DOMAIN journal, m < n
        PROVE  Past(journal[m])
    <3>1. journal[n] \in Actions /\ journal'[n] = journal[n]
      BY <1>0, <1>3
    <3>2. applied'[journal[n]] = applied[journal[n]]
      <4>1. applied \in [Actions -> Nat]
        BY DEF TypeOK
      <4>2. ASSUME NEW b \in Actions, Applying(b) PROVE applied'[journal[n]] = applied[journal[n]]
        BY <2>3, <3>1, <4>1, <4>2 DEF Applying
      <4> QED BY <4>2, StepJournal DEF Publishing, Moving
    <3>3. opc' = "apply" /\ journal[n] \in fin' /\ ~(opc = "apply" /\ journal[n] \in fin)
      BY <2>3, <3>1, <3>2
    <3>4. PICK a \in Actions : Handling(a)
      BY <3>3, StepHand DEF Passing
    <3>5. opc \in Passing /\ AtEntry(a) /\ journal[n] = a
      BY <3>3, <3>4 DEF Handling, SkipForeign, ClaimIntent, TakeCommand, Take, Apply, RecordApplied,
                        ClaimCommand, Undelivered, Settle, Settled, Visits, Unlink, Report, Passing
    <3> QED BY <2>3, <3>5, PastBefore
  <2>4. ASSUME NEW m \in DOMAIN journal, NEW n \in DOMAIN journal, m < n, Due(journal[n])'
        PROVE  Past(journal[m])
    <3>1. CASE Due(journal[n])
      BY <2>4, <3>1 DEF OrderInv
    <3> QED BY <2>3, <2>4, <3>1
  <2> QED BY <1>1, <1>3, <2>2, <2>4 DEF OrderInv
<1> QED BY <1>2, <1>3, StepJournal DEF Moving, Applying, journalVars

LEMMA NoOrphanStep ==
  ASSUME TypeOK, RecordInv, JournalInv, QueueInv, StageInv, HandInv, NoOrphan, [Next]_vars,
         \A c \in Commands : RecordStep(c)
  PROVE  NoOrphan'
<1>1. SUFFICES ASSUME NEW c \in controls', IsAuthorized(ctl'[c]),
                      ctl'[c].target_daemon_token = gen'
               PROVE  entry'[c] # "none"
  BY DEF NoOrphan
<1>2. /\ ~Sending(c) /\ c \in controls /\ c \in Commands
      /\ entry \in [Actions -> EntryStates] /\ c \in Actions /\ c \notin Intents
  <2>0. controls \subseteq Commands /\ ctl \in [Commands -> Controls] /\ gen \in Nat
    BY DEF TypeOK
  <2>1. ASSUME NEW d \in Commands, Sending(d) PROVE d # c /\ c \in controls
    <3>1. ctl'[d] = Queued(NewControl(ctl[d].request, gen)) /\ controls' = controls \cup {d}
      BY <2>0, <2>1 DEF Sending
    <3>2. IsOpen(ctl'[d]) /\ OverlayRecord(ctl'[d])
      BY <2>0, <3>1, PublishedIs DEF RecordInv
    <3> QED BY <1>1, <3>1, <3>2, AnsweredIs
  <2>2. c \in controls
    BY <1>1, <2>1, StepQueue
  <2> QED BY <2>0, <2>1, <2>2, ActionsAssumption DEF TypeOK, Actions
<1>3. cpc[c] # "idle" /\ RecordStep(c) /\ OverlayRecord(ctl[c])
  BY <1>2 DEF QueueInv, RecordInv
<1>4. ctl'[c].target_daemon_token = ctl[c].target_daemon_token
  BY <1>3 DEF RecordStep
<1>5. gen' = gen
  <2>1. gen \in Nat /\ ctl[c].target_daemon_token \in Nat
    BY <1>2 DEF TypeOK, Controls
  <2>2. ctl[c].target_daemon_token <= gen
    BY <1>2 DEF RecordInv
  <2>3. gen' # gen + 1
    BY <1>1, <1>4, <2>1, <2>2
  <2> QED BY <2>3, StepGeneration DEF NewGeneration
\* Before the step it had its entry, and nobody had answered for it.
<1>6. entry[c] # "none" /\ ~Answered(ctl[c])
  <2>1. CASE IsAuthorized(ctl[c])
    BY <1>1, <1>2, <1>3, <1>4, <1>5, <2>1, AnsweredIs DEF NoOrphan
  <2>2. CASE c \in cur /\ dpc = "committing" /\ IsOpen(ctl[c])
    BY <1>3, <2>2, AnsweredIs DEF StageInv, Stage, CommandStages
  <2> QED BY <1>1, <1>3, <2>1, <2>2 DEF RecordStep
<1>7. Own(c)
  BY <1>1, <1>2, <1>4, <1>5, <1>6 DEF JournalInv, QueueInv, Own
<1>8. ASSUME NEW b \in Actions, Moving(b) PROVE entry'[c] # "none"
  <2>1. CASE b # c
    BY <1>2, <1>6, <1>8, <2>1 DEF Moving
  <2>2. ASSUME b = c, entry'[c] = "none" PROVE FALSE
    <3>1. \/ c \in cur /\ dpc = "removing"
          \/ opc = "unlink" /\ AtEntry(c)
          \/ opc = "drop" /\ c \in fin
      BY <1>2, <1>7, <1>8, <2>2 DEF Moving
    <3> QED BY <1>2, <1>6, <3>1 DEF StageInv, Stage, CommandStages, HandInv, Reached, Held
  <2> QED BY <2>1, <2>2
<1>9. ASSUME NEW b \in Actions, Publishing(b) PROVE entry'[c] # "none"
  BY <1>2, <1>6, <1>9 DEF Publishing
<1> QED BY <1>6, <1>8, <1>9, StepJournal DEF Applying, journalVars

-----------------------------------------------------------------------------
(* The writes of a step to the records.                                    *)

\* A step writes at most one record, and then moves neither the journal nor an action into
\* or out of the overlay's hand; but a new generation answers all that wait.
LEMMA StepRecords ==
  ASSUME TypeOK, [Next]_vars
  PROVE  \/ gen' = gen /\ UNCHANGED ctl
         \/ /\ gen' = gen + 1
            /\ \A c \in Commands :
                 \/ ctl'[c] = ctl[c]
                 \/ /\ c \in controls /\ ~Answered(ctl[c])
                    /\ ctl'[c] = GenerationEnded(ctl[c])
         \/ /\ UNCHANGED <<gen, journalVars, applied>>
            /\ UNCHANGED <<opc, fin>> \/ (opc # "apply" /\ opc' # "apply")
            /\ \E c \in Commands : ctl' = [ctl EXCEPT ![c] = ctl'[c]]
<1> DEFINE Goal == \/ gen' = gen /\ UNCHANGED ctl
                   \/ /\ gen' = gen + 1
                      /\ \A c \in Commands :
                           \/ ctl'[c] = ctl[c]
                           \/ /\ c \in controls /\ ~Answered(ctl[c])
                              /\ ctl'[c] = GenerationEnded(ctl[c])
                   \/ /\ UNCHANGED <<gen, journalVars, applied>>
                      /\ UNCHANGED <<opc, fin>> \/ (opc # "apply" /\ opc' # "apply")
                      /\ \E c \in Commands : ctl' = [ctl EXCEPT ![c] = ctl'[c]]
<1> USE DEF treeVars, OverlayFrame, TypeOK
<1>1. ASSUME NEW c \in Commands, PublishCommand(c) PROVE Goal
  BY <1>1 DEF PublishCommand, Record, overlayVars
<1>2. ASSUME NEW c \in Commands, Inspect(c) PROVE Goal
  BY <1>2 DEF Inspect
<1>3. ASSUME NEW c \in Commands, PollAgain(c) PROVE Goal
  BY <1>3 DEF PollAgain
<1>4. ASSUME NEW c \in Commands, Conclude(c) PROVE Goal
  <2>1. PICK r : ctl' = [ctl EXCEPT ![c] = r]
    BY <1>4 DEF Conclude, Record
  <2>2. UNCHANGED <<gen, journalVars, applied, overlayVars>>
    BY <1>4 DEF Conclude
  <2> QED BY <2>1, <2>2 DEF overlayVars
<1>5. ASSUME NEW c \in Commands, ClientCrash(c) PROVE Goal
  BY <1>5 DEF ClientCrash
<1>6. ASSUME NEW c \in Commands, Claim(c) PROVE Goal
  BY <1>6 DEF Claim, Record, overlayVars
<1>7. ASSUME NEW c \in Commands, Collect(c) PROVE Goal
  BY <1>7 DEF Collect, Record, overlayVars
<1>8. ASSUME NEW c \in Commands, CommitNoOp(c) PROVE Goal
  BY <1>8 DEF CommitNoOp, Decide, Record, overlayVars
<1>9. ASSUME NEW c \in Commands, ReleaseToPrepare(c) PROVE Goal
  BY <1>9 DEF ReleaseToPrepare
<1>10. ASSUME NEW c \in Commands, PublishPrepared(c) PROVE Goal
  BY <1>10 DEF PublishPrepared
<1>11. ASSUME NEW c \in Commands, Relock(c) PROVE Goal
  BY <1>11 DEF Relock, Record, overlayVars
<1>12. ASSUME NEW c \in Commands, RelockExpires(c) PROVE Goal
  BY <1>12 DEF RelockExpires
<1>13. ASSUME NEW c \in Commands, Retract(c) PROVE Goal
  BY <1>13 DEF Retract, Fails
<1>14. ASSUME NEW c \in Commands, RewriteCanceled(c) PROVE Goal
  BY <1>14 DEF RewriteCanceled, Fails, Record, overlayVars
<1>15. ASSUME NEW c \in Commands, Commit(c) PROVE Goal
  BY <1>15 DEF Commit, Decide, Record, overlayVars
<1>16. ASSUME NEW c \in Commands, AbandonEntry(c) PROVE Goal
  BY <1>16 DEF AbandonEntry, Fails
<1>17. ASSUME NEW c \in Commands, FinishAbandoned(c) PROVE Goal
  BY <1>17 DEF FinishAbandoned, Fails, Record, overlayVars
<1>18. ASSUME NEW c \in Commands, RemoveAbandoned(c) PROVE Goal
  BY <1>18 DEF RemoveAbandoned, Fails
<1>19. ASSUME NEW i \in Intents, Ask(i) PROVE Goal
  BY <1>19 DEF Ask, Gone
<1>20. CASE Start
  BY <1>20 DEF Start
<1>21. CASE DaemonCrash
  BY <1>21 DEF DaemonCrash
<1>22. CASE Quit
  BY <1>22 DEF Quit
<1>23. CASE LocalHide
  BY <1>23 DEF LocalHide
<1>24. CASE NoticeExit
  BY <1>24 DEF NoticeExit, Gone
<1>25. CASE BackoffEnds
  BY <1>25 DEF BackoffEnds
<1>26. CASE DropReference
  BY <1>26 DEF DropReference
<1>27. CASE BeginBatch
  BY <1>27 DEF BeginBatch
<1>28. ASSUME NEW a \in Actions, StartOk(a) PROVE Goal
  BY <1>28 DEF StartOk
<1>29. ASSUME NEW a \in Actions, StartFails(a) PROVE Goal
  BY <1>29 DEF StartFails
<1>30. ASSUME NEW a \in Actions, SkipStart(a) PROVE Goal
  BY <1>30 DEF SkipStart, Continue
<1>31. ASSUME NEW a \in Actions, SignalOk(a) PROVE Goal
  BY <1>31 DEF SignalOk, Continue
<1>32. ASSUME NEW a \in Actions, SignalFails(a) PROVE Goal
  BY <1>32 DEF SignalFails
<1>33. ASSUME NEW i \in Intents, AbandonIntent(i) PROVE Goal
  BY <1>33 DEF AbandonIntent
<1>34. CASE SkipOff
  BY <1>34 DEF SkipOff
<1>35. CASE Admit
  BY <1>35 DEF Admit
<1>36. CASE AdmitFails
  BY <1>36 DEF AdmitFails
<1>37. CASE Admitted
  BY <1>37 DEF Admitted
<1>38. CASE Offer
  BY <1>38 DEF Offer
<1>39. CASE EndBatch
  BY <1>39 DEF EndBatch
<1>40. CASE Wake
  BY <1>40 DEF Wake
<1>41. CASE Scan
  BY <1>41 DEF Scan
<1>42. CASE ScanDefers
  BY <1>42 DEF ScanDefers
<1>43. CASE PassEnds
  BY <1>43 DEF PassEnds
<1>44. ASSUME NEW a \in Actions, SkipForeign(a) PROVE Goal
  BY <1>44 DEF SkipForeign
<1>45. ASSUME NEW a \in Actions, CloseClaimed(a) PROVE Goal
  BY <1>45 DEF CloseClaimed
<1>46. ASSUME NEW a \in Actions, ClaimIntent(a) PROVE Goal
  BY <1>46 DEF ClaimIntent
<1>47. ASSUME NEW a \in Actions, Unlink(a) PROVE Goal
  BY <1>47 DEF Unlink
<1>48. ASSUME NEW a \in Actions, Apply(a) PROVE Goal
  BY <1>48 DEF Apply
<1>49. ASSUME NEW a \in Actions, RecordApplied(a) PROVE Goal
  BY <1>49 DEF RecordApplied
<1>50. ASSUME NEW a \in Actions, DropEntry(a) PROVE Goal
  BY <1>50 DEF DropEntry
<1>51. ASSUME NEW a \in Actions, FinishDefers(a) PROVE Goal
  BY <1>51 DEF FinishDefers
<1>52. ASSUME NEW c \in Commands, ClaimCommand(c) PROVE Goal
  BY <1>52 DEF ClaimCommand, Undelivered, Visits, Record, journalVars
<1>53. ASSUME NEW c \in Commands, TakeCommand(c) PROVE Goal
  BY <1>53 DEF TakeCommand
<1>54. ASSUME NEW c \in Commands, MeetBarrier(c) PROVE Goal
  BY <1>54 DEF MeetBarrier
<1>55. ASSUME NEW c \in Commands, AbandonRefused(c) PROVE Goal
  BY <1>55 DEF AbandonRefused
<1>56. ASSUME NEW c \in Commands, Settle(c) PROVE Goal
  BY <1>56 DEF Settle, Settled, Visits, Record, journalVars
<1>57. ASSUME NEW c \in Commands, PassDefers(c) PROVE Goal
  BY <1>57 DEF PassDefers
<1>58. ASSUME NEW c \in Commands, PassFails(c) PROVE Goal
  BY <1>58 DEF PassFails
<1>59. ASSUME NEW c \in Commands, Report(c) PROVE Goal
  BY <1>59 DEF Report, Record, journalVars
<1>60. ASSUME NEW c \in Commands, ReportFails(c) PROVE Goal
  BY <1>60 DEF ReportFails
<1>61. ASSUME NEW i \in Intents, ReportIntent(i) PROVE Goal
  BY <1>61 DEF ReportIntent
<1>62. CASE OverlayEnd
  BY <1>62 DEF OverlayEnd
<1>63. CASE UNCHANGED vars
  BY <1>63 DEF vars
<1> QED
  BY <1>1, <1>2, <1>3, <1>4, <1>5, <1>6, <1>7, <1>8, <1>9, <1>10, <1>11, <1>12, <1>13,
     <1>14, <1>15, <1>16, <1>17, <1>18, <1>19, <1>20, <1>21, <1>22, <1>23, <1>24, <1>25,
     <1>26, <1>27, <1>28, <1>29, <1>30, <1>31, <1>32, <1>33, <1>34, <1>35, <1>36, <1>37,
     <1>38, <1>39, <1>40, <1>41, <1>42, <1>43, <1>44, <1>45, <1>46, <1>47, <1>48, <1>49,
     <1>50, <1>51, <1>52, <1>53, <1>54, <1>55, <1>56, <1>57, <1>58, <1>59, <1>60, <1>61,
     <1>62, <1>63
     DEF Next, Client, DaemonCommand, Delivery, Batch, DaemonStep, OverlayEntry, OverlayCommand,
         OverlayStep

-----------------------------------------------------------------------------
(* The invariant holds, and what follows from it.                          *)

LEMMA InitIInv == Init => IInv
<1>1. SUFFICES ASSUME Init PROVE IInv
  OBVIOUS
<1> USE <1>1 DEF Init
<1>2. ASSUME NEW c \in Commands PROVE OverlayRecord(ctl[c]) /\ ctl[c].target_daemon_token = 0
  BY DEF OverlayRecord, NewControl, Controls, Requests, SessionChoices, PublicationStates, Decisions,
         EffectKinds, ActionEffects, EffectStatuses, ActionStatuses, LiveActions, Responses,
         Reasons, Dispositions, Validate, DecisionMatchesResponse, ActionMatchesEffect,
         Answered, IsAuthorized
<1>3. ASSUME NEW c \in Commands
      PROVE  /\ IsOpen(ctl[c]) /\ ctl[c].action_status = "None" /\ ctl[c].response = "None"
  BY DEF NewControl, IsOpen
<1>4. TypeOK
  <2>1. ctl \in [Commands -> Controls]
    BY <1>2 DEF OverlayRecord
  <2>2. /\ queue \in Seq(Commands) /\ journal \in Seq(Actions)
        /\ asked \in Seq(Intents) /\ kept \in Seq(Intents)
        /\ batch \in Seq(Intents) /\ offered \in Seq(Intents)
    OBVIOUS
  <2>3. /\ entry \in [Actions -> EntryStates] /\ born \in [Actions -> Nat]
        /\ applied \in [Actions -> Nat]
        /\ cpc \in [Commands -> {"idle", "waiting", "deciding", "gone"}]
    BY DEF EntryStates
  <2>4. controls \subseteq Commands /\ cur \in SUBSET Actions /\ fin \in SUBSET Actions
    OBVIOUS
  <2>5. /\ gen \in Nat /\ dpc \in DaemonPCs /\ visible \in BOOLEAN /\ backoff \in BOOLEAN
        /\ opc \in OverlayPCs /\ at \in Nat /\ sig \in BOOLEAN /\ retry \in BOOLEAN
        /\ children \in Nat
    BY DEF DaemonPCs, Gone, OverlayPCs
  <2>6. \A s \in {asked, kept, batch, offered} : s \in Seq(Intents)
    BY <2>2
  <2> QED BY ONLY <2>1, <2>2, <2>3, <2>4, <2>5, <2>6 DEF TypeOK
<1>5. RecordInv /\ ResultInv
  <2>1. gen = 0 /\ \A a \in Actions : applied[a] = 0 /\ entry[a] = "none"
    OBVIOUS
  <2>2. Commands \subseteq Actions
    BY DEF Actions
  <2>3. RecordInv
    BY ONLY <1>2, <2>1 DEF RecordInv
  <2>4. ResultInv
    BY ONLY <1>3, <2>1, <2>2 DEF ResultInv
  <2> QED BY <2>3, <2>4
<1>6. JournalInv /\ QueueInv /\ WaitInv /\ StageInv /\ HandInv /\ OrderInv /\ NoOrphan
  <2>1. /\ \A a \in Actions : applied[a] = 0 /\ entry[a] = "none" /\ born[a] = 0
        /\ \A c \in Commands : cpc[c] = "idle"
    OBVIOUS
  <2>2. /\ Commands \subseteq Actions /\ gen = 0 /\ fin = {} /\ cur = {} /\ controls = {}
        /\ dpc \in Gone /\ dpc \notin CommandStages /\ opc \notin Passing /\ opc # "apply"
    BY DEF Actions, Gone, CommandStages, Passing
  <2>3. /\ queue = <<>> /\ journal = <<>> /\ asked = <<>> /\ kept = <<>> /\ batch = <<>>
        /\ DOMAIN journal = {}
    OBVIOUS
  <2>4. JournalInv
    BY ONLY <2>1, <2>2, <2>3, EmptyIs DEF JournalInv
  <2>5. QueueInv
    BY ONLY <1>3, <2>1, <2>2, <2>3, EmptyIs DEF QueueInv
  <2>6. WaitInv
    BY ONLY <2>3, EmptyIs DEF WaitInv, In
  <2>7. StageInv
    BY ONLY <2>2 DEF StageInv
  <2>8. HandInv
    BY ONLY <2>2 DEF HandInv, Passing
  <2>9. OrderInv
    BY ONLY <2>2, <2>3 DEF OrderInv
  <2>10. NoOrphan
    BY ONLY <2>2 DEF NoOrphan
  <2> QED BY <2>4, <2>5, <2>6, <2>7, <2>8, <2>9, <2>10
<1> QED BY <1>4, <1>5, <1>6 DEF IInv

LEMMA IInvStep == IInv /\ [Next]_vars => IInv'
<1>1. SUFFICES ASSUME IInv, [Next]_vars PROVE IInv'
  OBVIOUS
<1> USE <1>1 DEF IInv
<1>2. (\A c \in Commands : RecordStep(c)) /\ ctl' = [c \in Commands |-> ctl'[c]]
  BY StepWrites, WrittenIs
<1>3. TypeOK' /\ RecordInv'
  BY <1>2, TypeStep, RecordInvStep
<1>4. JournalInv' /\ WaitInv'
  BY JournalStep, WaitStep
<1>5. QueueInv'
  BY <1>2, <1>3, <1>4, QueueStep
<1>6. StageInv'
  BY <1>2, <1>5, StageStep
<1>7. HandInv' /\ ResultInv'
  BY <1>2, HandStep, ResultStep
<1>8. OrderInv' /\ NoOrphan'
  BY <1>2, OrderStep, NoOrphanStep
<1> QED BY <1>3, <1>4, <1>5, <1>6, <1>7, <1>8

LEMMA IInvAlways == Spec => []IInv
BY InitIInv, IInvStep, PTL DEF Spec

\* Every variable keeps its type.
THEOREM DeliveryTypesOK == Spec => []TypeOK
<1>1. IInv => TypeOK
  BY DEF IInv
<1> QED BY <1>1, IInvAlways, PTL

\* No action is ever applied twice, whatever overlays die, finishes are deferred or
\* generations follow one another (process_tray_action, claim_ordered_overlay_action).
THEOREM NeverAppliedTwice == Spec => []AppliedAtMostOnce
<1>1. IInv => AppliedAtMostOnce
  BY DEF IInv, ResultInv, AppliedAtMostOnce
<1> QED BY <1>1, IInvAlways, PTL

\* What a client is told of its action is true, and no rewrite of its record is refused by
\* the next reader (finish_command_action, write_control, the startup recovery).
THEOREM ClientsToldTruth == Spec => []OutcomeTruthful
<1>1. IInv => OutcomeTruthful
  BY DEF IInv, ResultInv, RecordInv, OverlayRecord, OutcomeTruthful
<1> QED BY <1>1, IInvAlways, PTL

\* A committed action that nobody has answered for keeps its journal entry while its
\* generation lasts.
THEOREM NoActionForgotten == Spec => []NoOrphan
<1>1. IInv => NoOrphan
  BY DEF IInv
<1> QED BY <1>1, IInvAlways, PTL

\* The overlay applies actions in the order of their publication: an action is applied only
\* while none published after it has been.
THEOREM OrderKept == Spec => AppliedInOrder
<1>1. IInv /\ [Next]_vars =>
        [\A m, n \in DOMAIN journal :
           m < n /\ applied'[journal[m]] > applied[journal[m]] => applied[journal[n]] = 0]_vars
  <2>1. SUFFICES ASSUME IInv, [Next]_vars, NEW m \in DOMAIN journal, NEW n \in DOMAIN journal,
                        m < n, applied'[journal[m]] > applied[journal[m]]
                 PROVE  applied[journal[n]] = 0
    OBVIOUS
  <2>2. applied \in [Actions -> Nat] /\ journal \in Seq(Actions) /\ journal[m] \in Actions
    BY <2>1 DEF IInv, TypeOK
  <2>3. applied' # applied
    BY <2>1, <2>2
  <2>4. PICK b \in Actions : Applying(b)
    BY <2>1, <2>3, StepJournal DEF IInv, Publishing, Moving
  <2>5. journal[m] = b
    BY <2>1, <2>2, <2>4 DEF Applying
  <2>6. ~Past(journal[m])
    BY <2>1, <2>4, <2>5 DEF IInv, HandInv, Held, Applying, Past, Own
  <2> QED BY <2>1, <2>6 DEF IInv, OrderInv
<1> QED BY <1>1, IInvAlways, PTL DEF Spec, AppliedInOrder

-----------------------------------------------------------------------------
(* ActionDelivery implements ActionPromise, with FateOf and AnswerOf as    *)
(* the refinement mapping.                                                 *)

\* What the answers rest on besides IInv: a client that has not published waits for
\* nothing, only actions are authorized, and an action is published before its command
\* has had any effect.
ToldInv ==
  /\ \A c \in Commands :
       /\ cpc[c] = "idle" => IsOpen(ctl[c])
       /\ ctl[c].effect_kind \in {"None", "NoOp"} \cup ActionEffects
  /\ dpc = "preparing" => \A c \in cur : IsOpen(ctl[c]) \/ ctl[c].decision = "Canceled"

\* How a write keeps it.
LEMMA ToldWritten ==
  ASSUME TypeOK, RecordInv, QueueInv, StageInv, ToldInv, NEW c \in Commands, Written(c)
  PROVE  /\ ctl'[c].effect_kind \in {"None", "NoOp"} \cup ActionEffects
         /\ IsOpen(ctl[c]) /\ cpc[c] = "idle" => IsOpen(ctl'[c]) \/ gen' = gen + 1
         /\ dpc = "preparing" /\ c \in cur =>
              IsOpen(ctl'[c]) \/ ctl'[c].decision = "Canceled" \/ gen' = gen + 1
<1> DEFINE r == ctl[c]
           s == ctl'[c]
           Goal == /\ s.effect_kind \in {"None", "NoOp"} \cup ActionEffects
                   /\ IsOpen(r) /\ cpc[c] = "idle" => IsOpen(s) \/ gen' = gen + 1
                   /\ dpc = "preparing" /\ c \in cur =>
                        IsOpen(s) \/ s.decision = "Canceled" \/ gen' = gen + 1
<1>a. OverlayRecord(r) /\ r \in Controls /\ r.effect_kind \in {"None", "NoOp"} \cup ActionEffects
  BY DEF RecordInv, ToldInv, OverlayRecord
<1>b. /\ Answered(r) <=> ~IsOpen(r) /\ ~IsAuthorized(r)
      /\ dpc = "preparing" /\ c \in cur =>
           (IsOpen(r) \/ r.decision = "Canceled") /\ cpc[c] # "idle"
      /\ c \in cur /\ dpc \in CommandStages => cpc[c] # "idle"
  BY <1>a, AnsweredIs DEF ToldInv, StageInv, Stage, CommandStages
<1>1. CASE \/ s = r
           \/ s = Claimed(r)
           \/ s = CallerAbandoned(r)
           \/ Answered(r) /\ s = Acknowledged(r)
  <2>1. s.effect_kind = r.effect_kind /\ s.decision = r.decision
    BY <1>a, <1>1, NotedIs DEF SameOutcome
  <2> QED BY <1>a, <1>b, <2>1 DEF IsOpen
<1>2. CASE cpc[c] = "idle" /\ s = Queued(NewControl(r.request, gen))
  <2>1. s.effect_kind = "None" /\ s.decision = "Open"
    BY <1>2 DEF Queued, NewControl
  <2> QED BY <1>b, <1>2, <2>1 DEF IsOpen
<1>3. CASE IsOpen(r) /\ cpc[c] = "deciding" /\ s = Canceled(r)
  <2>1. s.effect_kind = r.effect_kind /\ s.decision = "Canceled"
    BY <1>a, <1>3 DEF Canceled, Controls
  <2> QED BY <1>a, <1>3, <2>1
<1>4. CASE /\ IsOpen(r) /\ c \in cur /\ dpc' \notin Owning
           /\ \/ dpc \in Owning /\ s = Rejected(r, "AuthorizationExpired")
              \/ dpc = "holding" /\ s = Committed(r, "NoOp")
              \/ dpc = "committing" /\ \E kind \in ActionEffects : s = Committed(r, kind)
  <2>1. s.effect_kind \in {"None", "NoOp"} \cup ActionEffects
    <3>1. CASE s = Rejected(r, "AuthorizationExpired")
      BY <1>a, <3>1 DEF Rejected, Controls
    <3>2. ASSUME NEW kind \in {"NoOp"} \cup ActionEffects, s = Committed(r, kind)
          PROVE  s.effect_kind \in {"None", "NoOp"} \cup ActionEffects
      <4>1. s.effect_kind = kind
        BY <1>a, <3>2 DEF Committed, Controls
      <4> QED BY <4>1
    <3> QED BY <1>4, <3>1, <3>2
  <2>2. dpc # "preparing" /\ cpc[c] # "idle"
    BY <1>b, <1>4 DEF Owning, CommandStages
  <2> QED BY <2>1, <2>2
<1>5. CASE \/ IsOpen(r) /\ c \in cur /\ dpc = "relocking" /\ s = WithAction(r, "Prepared")
           \/ /\ r.decision = "Canceled" /\ c \in cur /\ dpc = "rewriting"
              /\ s = WithAction(r, "Abandoned")
           \/ /\ IsAuthorized(r) /\ r.action_status \in LiveActions
              /\ opc = "pass" /\ entry[c] = "Prepared" /\ s = WithAction(r, "Claimed")
  <2>1. s.effect_kind = r.effect_kind /\ s.decision = r.decision
    BY <1>a, <1>5, ProgressIs
  <2> QED BY <1>a, <1>b, <2>1 DEF IsOpen
<1>6. ASSUME NEW result \in Results, Finishable(r, result), s = ActionFinished(r, result)
      PROVE  Goal
  <2>1. s.effect_kind = r.effect_kind /\ ~IsOpen(r)
    BY <1>a, <1>6, FinishedIs
  <2>2. r.decision = "Canceled" => s.decision = "Canceled"
    BY <1>a, <1>6 DEF Finishable, EndedBeforeCommit, AlreadyFinished, IsAuthorized, ActionFinished,
                      WithAction, Controls
  <2> QED BY <1>a, <1>b, <2>1, <2>2
<1>7. CASE ~Answered(r) /\ opc = "none" /\ gen' = gen + 1 /\ s = GenerationEnded(r)
  <2>1. s.effect_kind = r.effect_kind
    BY <1>a, <1>7 DEF GenerationEnded, Rejected, Finalized, Controls
  <2> QED BY <1>a, <1>7, <2>1
<1> QED BY <1>1, <1>2, <1>3, <1>4, <1>5, <1>6, <1>7 DEF Written

LEMMA ToldStep ==
  ASSUME IInv, ToldInv, [Next]_vars, \A c \in Commands : Written(c)
  PROVE  ToldInv'
<1> USE DEF IInv
<1>1. ASSUME NEW c \in Commands, cpc'[c] = "idle" PROVE IsOpen(ctl'[c])
  <2>1. cpc[c] = "idle" /\ ~(\E d \in Commands : d = c /\ Sending(d))
    BY <1>1, StepQueue DEF Sending, TypeOK
  <2>2. IsOpen(ctl[c]) /\ c \notin controls
    BY <2>1 DEF ToldInv, QueueInv
  <2>3. CASE gen' = gen + 1
    BY <2>2, <2>3, StepRecords DEF TypeOK
  <2>4. CASE gen' # gen + 1
    BY <2>1, <2>2, <2>4, ToldWritten
  <2> QED BY <2>3, <2>4
<1>2. \A c \in Commands : ctl'[c].effect_kind \in {"None", "NoOp"} \cup ActionEffects
  BY ToldWritten
<1>3. ASSUME dpc' = "preparing", NEW c \in cur' PROVE IsOpen(ctl'[c]) \/ ctl'[c].decision = "Canceled"
  <2>1. dpc' # "loop" /\ gen' # gen + 1
    BY <1>3, StepGeneration DEF NewGeneration, TypeOK
  <2>2. CASE UNCHANGED <<dpc, cur>>
    <3>1. c \in Commands
      BY <1>3, <2>2 DEF StageInv, CommandStages
    <3> QED BY <1>3, <2>1, <2>2, <3>1, ToldWritten
  <2>3. ASSUME NEW d \in Commands, Advancing(d)
        PROVE  IsOpen(ctl'[c]) \/ ctl'[c].decision = "Canceled"
    <3>1. ReleaseToPrepare(d)
      BY <1>3, <2>3 DEF Advancing, Claim, PublishPrepared, Relock, Retract, AbandonEntry,
                        FinishAbandoned, Fails
    <3>2. c \in cur /\ dpc = "holding" /\ ctl' = ctl
      BY <1>3, <3>1 DEF ReleaseToPrepare, treeVars
    <3> QED BY <3>2 DEF StageInv, Stage, CommandStages, Owning
  <2> QED BY <1>3, <2>2, <2>3, StepStage DEF CommandStages
<1> QED BY <1>1, <1>2, <1>3 DEF ToldInv

\* What has become of an action.
InHand(a) == opc = "apply" /\ a \in fin

LEMMA FateIs ==
  ASSUME TypeOK, ResultInv, NEW a \in Actions
  PROVE  /\ FateOf(a) \in {"unknown", "waiting", "taken", "applied", "dropped"}
         /\ FateOf(a) = "applied" <=> applied[a] # 0
         /\ FateOf(a) = "unknown" <=> applied[a] = 0 /\ born[a] = 0
         /\ FateOf(a) = "taken"   <=> applied[a] = 0 /\ born[a] # 0 /\ InHand(a)
         /\ FateOf(a) = "waiting" <=> /\ applied[a] = 0 /\ born[a] # 0 /\ ~InHand(a)
                                      /\ Own(a) /\ Abandonable(a)
<1>1. applied[a] = 0 \/ applied[a] = 1
  BY DEF TypeOK, ResultInv
<1> QED BY <1>1 DEF FateOf, InHand

LEMMA FateNext ==
  ASSUME TypeOK', ResultInv', NEW a \in Actions
  PROVE  /\ FateOf(a)' \in {"unknown", "waiting", "taken", "applied", "dropped"}
         /\ FateOf(a)' = "applied" <=> applied'[a] # 0
         /\ FateOf(a)' = "unknown" <=> applied'[a] = 0 /\ born'[a] = 0
         /\ FateOf(a)' = "taken"   <=> applied'[a] = 0 /\ born'[a] # 0 /\ InHand(a)'
         /\ FateOf(a)' = "waiting" <=> /\ applied'[a] = 0 /\ born'[a] # 0 /\ ~InHand(a)'
                                       /\ Own(a)' /\ Abandonable(a)'
<1>1. applied'[a] = 0 \/ applied'[a] = 1
  BY DEF TypeOK, ResultInv
<1> QED BY <1>1 DEF FateOf, InHand

LEMMA FateKept ==
  ASSUME TypeOK, ResultInv, NEW a \in Actions, gen' = gen,
         applied'[a] = applied[a], born'[a] = born[a], entry'[a] = entry[a],
         applied[a] # 0 \/ (InHand(a) <=> InHand(a)')
  PROVE  FateOf(a)' = FateOf(a)
<1>1. applied[a] = 0 \/ applied[a] = 1
  BY DEF TypeOK, ResultInv
<1>2. (Own(a) <=> Own(a)') /\ (Abandonable(a) <=> Abandonable(a)')
  BY DEF Own, Abandonable
<1>3. CASE applied[a] = 1
  BY <1>3 DEF FateOf
<1>4. CASE applied[a] = 0 /\ (InHand(a) <=> InHand(a)')
  BY <1>2, <1>4 DEF FateOf, InHand
<1> QED BY <1>1, <1>3, <1>4

\* An action in the overlay's hand that is not about to be applied has been.
LEMMA InHandIs ==
  ASSUME TypeOK, HandInv, NEW a \in fin
  PROVE  /\ a \in Actions /\ \A b \in fin : b = a
         /\ opc # "apply" => applied[a] = 1
         /\ opc = "apply" => /\ InHand(a) /\ applied[a] = 0 /\ entry[a] = "Claimed" /\ Own(a)
                             /\ a \in Commands => IsAuthorized(ctl[a])
BY DEF TypeOK, HandInv, Held, InHand

\* The mapping of one fate, or of one answer, that changes.
LEMMA FatedIs ==
  ASSUME NEW a \in Actions, NEW f, FateOf(a)' = f,
         \A b \in Actions : b # a => FateOf(b)' = FateOf(b)
  PROVE  Promise!Fated(a, f)
BY DEF Promise!Fated

LEMMA AnswersKept ==
  ASSUME ctl' = ctl
  PROVE  [a \in Actions |-> AnswerOf(a)]' = [a \in Actions |-> AnswerOf(a)]
BY DEF AnswerOf

\* An action whose command is not answered, or that has none, has no answer.
LEMMA NoAnswer ==
  ASSUME RecordInv, NEW a \in Actions, a \in Commands => IsOpen(ctl[a]) \/ IsAuthorized(ctl[a])
  PROVE  AnswerOf(a) = "None"
<1>1. CASE a \in Commands
  BY <1>1, AnsweredIs, ActionsAssumption DEF RecordInv, AnswerOf, Answered
<1>2. CASE a \in Intents
  BY <1>2 DEF AnswerOf
<1> QED BY <1>1, <1>2 DEF Actions

LEMMA PublishKeeps ==
  ASSUME IInv, IInv', ToldInv, [Next]_vars, NEW a \in Actions, Publishing(a)
  PROVE  Promise!Publish(a)
<1> USE DEF IInv
<1>1. born[a] = 0 /\ applied[a] = 0 /\ a \notin fin /\ FateOf(a) = "unknown"
  BY PublishedOnce, FateIs DEF JournalInv
<1>2. gen' = gen /\ gen # 0
  <2>1. journal' # journal /\ gen \in Nat
    BY DEF Publishing, TypeOK
  <2> QED BY <2>1, StepGeneration DEF NewGeneration, journalVars, Publishing, JournalInv
<1>3. /\ born \in [Actions -> Nat] /\ entry \in [Actions -> EntryStates]
      /\ UNCHANGED <<ctl, opc, fin, applied>> /\ born' = [born EXCEPT ![a] = gen]
      /\ journal' = Append(journal, a)
  BY DEF TypeOK, Publishing
<1>4. FateOf(a)' = "waiting"
  <2>1. entry'[a] \in {"Prepared", "Eligible"}
    BY <1>3 DEF Publishing
  <2> QED BY <1>1, <1>2, <1>3, <2>1, FateNext DEF InHand, Own, Abandonable
<1>5. ASSUME NEW b \in Actions, b # a PROVE FateOf(b)' = FateOf(b)
  <2>1. entry'[b] = entry[b]
    BY <1>3, <1>5 DEF Publishing
  <2> QED BY <1>2, <1>3, <1>5, <2>1, FateKept DEF InHand
<1>6. AnswerOf(a) # "NoOp"
  <2>1. CASE a \in Intents
    BY <2>1 DEF AnswerOf
  <2>2. CASE a \in cur \cap Commands /\ dpc = "preparing"
    <3>1. IsOpen(ctl[a]) \/ ctl[a].decision = "Canceled"
      BY <2>2 DEF ToldInv
    <3>2. ctl[a].response \in {"None", "Canceled"}
      BY <2>2, <3>1 DEF RecordInv, OverlayRecord, Validate, DecisionMatchesResponse, IsOpen
    <3> QED BY <3>2 DEF AnswerOf
  <2>3. batch # <<>> /\ a = Head(batch) => a \in Intents
    BY TailIs DEF TypeOK
  <2> QED BY <2>1, <2>2, <2>3 DEF Publishing
<1>7. Promise!Fated(a, "waiting")
  BY <1>4, <1>5, FatedIs
<1> QED BY <1>1, <1>3, <1>6, <1>7, AnswersKept DEF Promise!Publish

\* One fate goes from pending to dropped, or none changes.
LEMMA DropIs ==
  ASSUME NEW a \in Actions, \A b \in Actions : b # a => FateOf(b)' = FateOf(b),
         FateOf(a)' = FateOf(a) \/ (FateOf(a) \in {"waiting", "taken"} /\ FateOf(a)' = "dropped"),
         UNCHANGED <<journal, ctl>>
  PROVE  Promise!Drop(a) \/ UNCHANGED Promise!vars
<1>1. CASE FateOf(a)' = FateOf(a)
  <2>1. \A b \in Actions : FateOf(b)' = FateOf(b)
    BY <1>1
  <2> QED BY <2>1, AnswersKept DEF Promise!vars
<1>2. CASE FateOf(a) \in {"waiting", "taken"} /\ FateOf(a)' = "dropped"
  BY <1>2, FatedIs, AnswersKept DEF Promise!Drop, Promise!Pending
<1> QED BY <1>1, <1>2

\* A move is the taking up of an action, or the end of one.
LEMMA MoveKeeps ==
  ASSUME IInv, IInv', [Next]_vars, NEW a \in Actions, Moving(a)
  PROVE  Promise!Take(a) \/ Promise!Drop(a) \/ UNCHANGED Promise!vars
<1> USE DEF IInv
<1>0. /\ born \in [Actions -> Nat] /\ entry \in [Actions -> EntryStates] /\ gen \in Nat
      /\ UNCHANGED <<journal, born, gen>> /\ born[a] # 0
      /\ \A b \in Actions : b # a => entry'[b] = entry[b]
  BY DEF TypeOK, Moving, JournalInv
<1>1. PICK to \in EntryStates :
        /\ entry' = [entry EXCEPT ![a] = to]
        /\ \/ to = "Abandoned" /\ Abandonable(a) /\ UNCHANGED <<opc, fin, applied>>
           \/ /\ to = "Indeterminate" /\ entry[a] = "Claimed" /\ opc = "pass"
              /\ UNCHANGED <<opc, fin, applied>>
           \/ /\ to = "Claimed" /\ fin' = {a} /\ opc' = "apply" /\ UNCHANGED applied /\ AtEntry(a)
              /\ \/ opc = "pass" /\ a \in Intents /\ Own(a) /\ entry[a] = "Eligible"
                 \/ opc = "claimed" /\ a \in Commands
           \/ /\ to = "Applied" /\ entry[a] = "Claimed" /\ opc = "record"
              /\ UNCHANGED <<fin, applied>>
           \/ /\ to = "none" /\ entry[a] # "none" /\ UNCHANGED applied /\ fin' \subseteq fin
              /\ opc # "apply" \/ UNCHANGED <<opc, fin>>
  BY DEF Moving
<1>2. entry'[a] = to
  BY <1>0, <1>1
<1>3. opc = "claimed" /\ AtEntry(a) /\ a \in Commands =>
        entry[a] = "Prepared" /\ Own(a) /\ IsAuthorized(ctl[a])
  BY DEF HandInv, Reached
<1>4. entry'[a] # entry[a] /\ UNCHANGED ctl
  <2>1. entry'[a] # entry[a]
    BY <1>1, <1>2, <1>3 DEF Abandonable
  <2> QED BY <1>0, <2>1, StepRecords DEF journalVars
\* The actions in hand stay there, or have been applied.
<1>5. ASSUME to # "Claimed", NEW b \in Actions PROVE applied[b] # 0 \/ (InHand(b) <=> InHand(b)')
  <2>1. CASE b \in fin /\ opc # "apply"
    BY <2>1, InHandIs
  <2>2. CASE b \notin fin \/ opc = "apply"
    BY <1>1, <1>5, <2>2 DEF InHand
  <2> QED BY <2>1, <2>2
<1>6. CASE to # "Claimed"
  <2>1. \A b \in Actions : b # a => FateOf(b)' = FateOf(b)
    BY <1>0, <1>1, <1>5, <1>6, FateKept
  <2>2. applied'[a] = applied[a] /\ born'[a] = born[a] /\ (Own(a) <=> Own(a)') /\ ~Abandonable(a)'
    BY <1>0, <1>1, <1>2, <1>6 DEF Own, Abandonable
  <2>3. FateOf(a)' = FateOf(a) \/ (FateOf(a) \in {"waiting", "taken"} /\ FateOf(a)' = "dropped")
    BY <1>0, <1>5, <1>6, <2>2, FateIs, FateNext
  <2> QED BY <1>0, <1>4, <2>1, <2>3, DropIs
<1>7. CASE to = "Claimed"
  <2>1. /\ opc \in Passing /\ AtEntry(a) /\ Own(a) /\ Abandonable(a)
        /\ a \in Commands => IsAuthorized(ctl[a])
        /\ opc # "apply" /\ fin' = {a} /\ opc' = "apply" /\ applied' = applied
    BY <1>1, <1>3, <1>7, ActionsAssumption DEF Passing, Abandonable
  <2>2. applied[a] = 0
    BY <2>1 DEF ResultInv, Abandonable
  <2>3. FateOf(a) = "waiting" /\ FateOf(a)' = "taken"
    BY <1>0, <2>1, <2>2, FateIs, FateNext DEF InHand
  <2>4. \A b \in Actions : b # a => FateOf(b)' = FateOf(b)
    BY <1>0, <2>1, FateKept DEF InHand
  <2>a. \A m \in DOMAIN journal : journal[m] \in Actions
    <3>1. journal \in Seq(Actions)
      BY DEF TypeOK
    <3> QED BY <3>1
  <2>5. ASSUME NEW m \in DOMAIN journal, NEW n \in DOMAIN journal, m < n, journal[n] = a
        PROVE  FateOf(journal[m]) \notin {"waiting", "taken"}
    <3>1. Past(journal[m])
      BY <2>1, <2>5, PastBefore
    <3> QED BY <2>a, <2>1, <3>1, FateIs DEF Past, InHand, Own, Abandonable
  <2>6. Promise!Foremost(a)
    BY <2>a, <2>5 DEF Promise!Foremost, Promise!Pending
  <2> QED BY <1>0, <1>4, <2>1, <2>3, <2>4, <2>6, FatedIs, NoAnswer, AnswersKept DEF Promise!Take
<1> QED BY <1>6, <1>7

LEMMA ApplyKeeps ==
  ASSUME IInv, IInv', [Next]_vars, NEW a \in Actions, Applying(a)
  PROVE  Promise!Apply(a)
<1> USE DEF IInv
<1>1. /\ applied \in [Actions -> Nat] /\ a \in fin /\ opc = "apply" /\ opc' = "record"
      /\ UNCHANGED <<journalVars, gen, ctl, fin>> /\ applied' = [applied EXCEPT ![a] = @ + 1]
  BY DEF TypeOK, Applying
<1>2. /\ applied[a] = 0 /\ born[a] # 0 /\ (a \in Commands => IsAuthorized(ctl[a]))
      /\ \A b \in fin : b = a
  BY <1>1, InHandIs DEF JournalInv
<1>3. FateOf(a) = "taken" /\ FateOf(a)' = "applied"
  BY <1>1, <1>2, FateIs, FateNext DEF InHand
<1>4. \A b \in Actions : b # a => FateOf(b)' = FateOf(b)
  BY <1>1, <1>2, FateKept DEF InHand, journalVars
<1> QED BY <1>1, <1>2, <1>3, <1>4, FatedIs, NoAnswer, AnswersKept DEF Promise!Apply, journalVars

\* What is told of an action that was authorized: it was published, and its entry stays
\* as long as it can still be taken up.
LEMMA AuthorizedIs ==
  ASSUME IInv, ToldInv, NEW c \in Commands, IsAuthorized(ctl[c])
  PROVE  born[c] # 0 /\ ctl[c].effect_kind \in ActionEffects
<1>1. OverlayRecord(ctl[c])
  BY DEF IInv, RecordInv
<1>2. ctl[c].effect_kind \in ActionEffects /\ ctl[c].action_status # "None"
  BY <1>1 DEF ToldInv, OverlayRecord, Validate, ActionMatchesEffect, IsAuthorized
<1> QED BY <1>2 DEF IInv, QueueInv

\* A write to a record answers its command truly, or does not answer it.
LEMMA TellKeeps ==
  ASSUME IInv, ToldInv, gen' = gen, NEW c \in Commands, Written(c)
  PROVE  \/ AnswerOf(c)' = AnswerOf(c)
         \/ /\ AnswerOf(c) = "None" /\ Promise!True(AnswerOf(c)', FateOf(c))
            /\ AnswerOf(c)' \in Promise!Answers \ {"None"}
<1> DEFINE r == ctl[c]
           s == ctl'[c]
           Goal == \/ AnswerOf(c)' = AnswerOf(c)
                   \/ /\ AnswerOf(c) = "None" /\ Promise!True(AnswerOf(c)', FateOf(c))
                      /\ AnswerOf(c)' \in Promise!Answers \ {"None"}
<1> USE DEF IInv
<1>a. /\ OverlayRecord(r) /\ r \in Controls /\ gen' # gen + 1 /\ c \notin Intents /\ c \in Actions
      /\ Answered(r) <=> ~IsOpen(r) /\ ~IsAuthorized(r)
  BY AnsweredIs, ActionsAssumption DEF RecordInv, OverlayRecord, TypeOK, Actions
<1>b. /\ s.response = r.response /\ s.effect_kind = r.effect_kind => Goal
      /\ s.response = r.response /\ r.response # "Succeeded" => Goal
  BY <1>a DEF AnswerOf
<1>c. ~Answered(r) => AnswerOf(c) = "None"
  BY <1>a DEF AnswerOf, Answered
<1>d. /\ FateOf(c) \in {"unknown", "waiting", "taken", "applied", "dropped"}
      /\ IsOpen(r) => FateOf(c) \in {"unknown", "waiting", "dropped"}
  <2>1. IsOpen(r) => applied[c] = 0 /\ ~InHand(c)
    <3>1. IsOpen(r) /\ InHand(c) => IsAuthorized(r)
      BY InHandIs DEF InHand
    <3> QED BY <1>a, <3>1, AnsweredIs DEF ResultInv
  <2> QED BY <1>a, <2>1, FateIs
<1>1. CASE \/ s = r
           \/ s = Claimed(r)
           \/ s = CallerAbandoned(r)
           \/ Answered(r) /\ s = Acknowledged(r)
  BY <1>a, <1>b, <1>1, NotedIs DEF SameOutcome
<1>2. CASE cpc[c] = "idle" /\ s = Queued(NewControl(r.request, gen))
  <2>1. s.response = "None" /\ r.response = "None"
    BY <1>a, <1>2 DEF Queued, NewControl, ToldInv, Answered
  <2> QED BY <1>b, <2>1
<1>3. CASE IsOpen(r) /\ (s = Canceled(r) \/ s = Rejected(r, "AuthorizationExpired"))
  <2>1. s.response \in {"Canceled", "FailedNoEffect"}
    BY <1>a, <1>3 DEF Canceled, Rejected, Controls
  <2>2. AnswerOf(c)' = s.response
    BY <1>a, <2>1 DEF AnswerOf
  <2> QED BY <1>a, <1>c, <1>d, <1>3, <2>1, <2>2 DEF Promise!True, Promise!Answers
<1>4. CASE IsOpen(r) /\ c \in cur /\ dpc = "holding" /\ s = Committed(r, "NoOp")
  <2>1. s.response = "Succeeded" /\ s.effect_kind = "NoOp"
    BY <1>a, <1>4 DEF Committed, Controls
  <2>2. AnswerOf(c)' = "NoOp"
    BY <1>a, <2>1 DEF AnswerOf
  <2>3. FateOf(c) = "unknown"
    <3>1. born[c] = 0
      BY <1>4 DEF StageInv, Stage, CommandStages
    <3> QED BY <1>a, <3>1, FateIs DEF JournalInv
  <2> QED BY <1>a, <1>c, <1>4, <2>2, <2>3 DEF Promise!True, Promise!Answers
<1>5. ASSUME NEW kind \in ActionEffects, IsOpen(r), s = Committed(r, kind) PROVE Goal
  <2>1. s.response = "None" /\ r.response = "None"
    BY <1>a, <1>5 DEF Committed, Controls, ActionEffects, Answered
  <2> QED BY <1>b, <2>1
<1>6. CASE \/ IsOpen(r) /\ c \in cur /\ dpc = "relocking" /\ s = WithAction(r, "Prepared")
           \/ /\ r.decision = "Canceled" /\ c \in cur /\ dpc = "rewriting"
              /\ s = WithAction(r, "Abandoned")
           \/ /\ IsAuthorized(r) /\ r.action_status \in LiveActions
              /\ opc = "pass" /\ entry[c] = "Prepared" /\ s = WithAction(r, "Claimed")
  BY <1>a, <1>b, <1>6, ProgressIs
<1>7. ASSUME NEW result \in Results, Finishable(r, result), s = ActionFinished(r, result),
             \/ c \in cur /\ dpc = "finishing" /\ result = "NoEffect"
             \/ opc = "pass" /\ entry[c] \in Terminal /\ result = ResultOf(entry[c])
             \/ opc = "report" /\ c \in fin /\ result = "Applied"
      PROVE  Goal
  <2>1. s.response = r.response => Goal
    BY <1>a, <1>b, <1>7, FinishedIs
  <2>2. CASE s.response # r.response
    <3>1. /\ ~Answered(r) /\ IsAuthorized(r) /\ s.effect_kind = r.effect_kind
          /\ \/ s.response = "Succeeded" /\ result = "Applied"
             \/ s.response = "FailedNoEffect" /\ result = "NoEffect"
             \/ s.response = "CommittedIndeterminate"
      BY <1>a, <1>7, <2>2, FinishedIs
    <3>2. born[c] # 0 /\ AnswerOf(c)' = s.response
      BY <1>a, <3>1, AuthorizedIs DEF AnswerOf, ActionEffects
    <3>3. CASE c \in cur /\ dpc = "finishing" /\ result = "NoEffect"
      <4>1. applied[c] = 0 /\ entry[c] \in {"Abandoned", "none"}
        BY <3>3 DEF StageInv, Stage, CommandStages
      <4>2. ~InHand(c)
        BY <4>1, InHandIs DEF InHand
      <4>3. FateOf(c) = "dropped"
        BY <1>a, <3>2, <4>1, <4>2, FateIs DEF Abandonable
      <4> QED BY <1>c, <3>1, <3>2, <3>3, <4>3 DEF Promise!True, Promise!Answers
    <3>4. CASE opc = "pass" /\ entry[c] \in Terminal /\ result = ResultOf(entry[c])
      <4>1. ~InHand(c) /\ ~Abandonable(c)
        BY <3>4 DEF InHand, Terminal, Abandonable
      <4>2. FateOf(c) \in {"applied", "dropped"}
        BY <1>a, <3>2, <4>1, FateIs
      <4>3. /\ result = "Applied" => applied[c] # 0
            /\ result = "NoEffect" => applied[c] = 0
        BY <1>a, <3>4 DEF ResultOf, Terminal, ResultInv
      <4>4. /\ result = "Applied" => FateOf(c) = "applied"
            /\ result = "NoEffect" => FateOf(c) = "dropped"
        BY <1>a, <4>2, <4>3, FateIs
      <4> QED BY <1>c, <3>1, <3>2, <4>2, <4>4 DEF Promise!True, Promise!Answers
    <3>5. CASE opc = "report" /\ c \in fin /\ result = "Applied"
      <4>1. FateOf(c) = "applied"
        BY <1>a, <3>5, InHandIs, FateIs
      <4> QED BY <1>c, <3>1, <3>2, <3>5, <4>1 DEF Promise!True, Promise!Answers
    <3> QED BY <1>7, <3>3, <3>4, <3>5
  <2> QED BY <2>1, <2>2
<1> QED BY <1>a, <1>1, <1>2, <1>3, <1>4, <1>5, <1>6, <1>7 DEF Written

\* The end of a generation: what was pending is dropped, and who waits is told.
LEMMA EndKeeps ==
  ASSUME IInv, IInv', ToldInv, [Next]_vars, gen' = gen + 1
  PROVE  Promise!EndGeneration
<1> USE DEF IInv
<1>1. /\ opc = "none" /\ UNCHANGED <<journalVars, overlayVars, applied>> /\ gen' # gen
  <2>1. gen' # gen
    BY DEF TypeOK
  <2> QED BY <2>1, StepGeneration DEF NewGeneration
<1>2. ASSUME NEW a \in Actions
      PROVE  FateOf(a)' = IF FateOf(a) \in {"waiting", "taken"} THEN "dropped" ELSE FateOf(a)
  <2>1. /\ applied'[a] = applied[a] /\ born'[a] = born[a] /\ ~InHand(a) /\ ~InHand(a)'
        /\ born[a] <= gen /\ born[a] \in Nat /\ gen \in Nat
    BY <1>1, <1>2 DEF journalVars, overlayVars, InHand, JournalInv, TypeOK
  <2>2. ~Own(a)'
    BY <2>1 DEF Own
  <2> QED BY <2>1, <2>2, FateIs, FateNext
<1>3. [a \in Actions |-> FateOf(a)]'
        = [a \in Actions |-> IF Promise!Pending(a) THEN "dropped" ELSE [b \in Actions |-> FateOf(b)][a]]
  BY <1>2 DEF Promise!Pending
<1>4. ASSUME NEW a \in Actions
      PROVE  /\ AnswerOf(a)' \in Promise!Answers
             /\ \/ AnswerOf(a)' = AnswerOf(a)
                \/ AnswerOf(a) = "None" /\ Promise!True(AnswerOf(a)', FateOf(a)')
  <2>1. CASE a \in Intents
    BY <2>1 DEF AnswerOf, Promise!Answers
  <2>2. CASE a \in Commands /\ ctl'[a] = ctl[a]
    <3>1. AnswerOf(a)' = AnswerOf(a)
      BY <2>2 DEF AnswerOf
    <3>2. ctl'[a].response \in Responses
      BY <2>2 DEF TypeOK, Controls
    <3> QED BY <3>1, <3>2 DEF AnswerOf, Promise!Answers, Responses
  <2>3. CASE a \in Commands \ Intents /\ ~Answered(ctl[a]) /\ ctl'[a] = GenerationEnded(ctl[a])
    <3>1. /\ OverlayRecord(ctl[a]) /\ OverlayRecord(ctl'[a]) /\ AnswerOf(a) = "None"
      BY <2>3 DEF RecordInv, AnswerOf, Answered
    <3>2. /\ ctl'[a].response \in {"Canceled", "FailedNoEffect", "CommittedIndeterminate"}
          /\ IsOpen(ctl[a]) <=> ctl'[a].response \in {"Canceled", "FailedNoEffect"}
      BY <2>3, <3>1, EndedIs DEF OverlayRecord, Controls, Responses, Answered
    <3>3. AnswerOf(a)' = ctl'[a].response
      BY <2>3, <3>2 DEF AnswerOf
    <3>4. /\ FateOf(a) \in {"unknown", "waiting", "applied", "dropped"}
          /\ FateOf(a)' \in {"unknown", "applied", "dropped"}
      BY <1>1, <1>2, FateIs DEF InHand
    <3>5. CASE IsOpen(ctl[a])
      <4>1. FateOf(a)' # "applied"
        BY <1>2, <2>3, <3>5, FateIs DEF ResultInv
      <4> QED BY <3>1, <3>2, <3>3, <3>4, <3>5, <4>1 DEF Promise!True, Promise!Answers
    <3>6. CASE ~IsOpen(ctl[a])
      <4>1. born[a] # 0
        BY <2>3, <3>1, <3>6, AnsweredIs, AuthorizedIs
      <4>2. FateOf(a)' # "unknown"
        BY <1>2, <4>1, FateIs
      <4> QED BY <3>1, <3>2, <3>3, <3>4, <3>6, <4>2 DEF Promise!True, Promise!Answers
    <3> QED BY <3>5, <3>6
  <2> QED BY <1>1, <2>1, <2>2, <2>3, StepRecords, ActionsAssumption DEF Actions
<1> QED BY <1>1, <1>3, <1>4 DEF Promise!EndGeneration, journalVars

\* Every step is a step of ActionPromise or does not concern it.
LEMMA ActionPromiseStep ==
  ASSUME IInv, IInv', ToldInv, [Next]_vars, \A c \in Commands : Written(c)
  PROVE  [Promise!Next]_(Promise!vars)
<1> USE DEF IInv
<1>1. CASE gen' = gen + 1
  BY <1>1, EndKeeps DEF Promise!Next
<1>2. CASE \E a \in Actions : Publishing(a) \/ Moving(a) \/ Applying(a)
  BY <1>2, PublishKeeps, MoveKeeps, ApplyKeeps DEF Promise!Next
<1>3. CASE gen' = gen /\ UNCHANGED <<journalVars, applied>> /\ fin' \subseteq fin
  <2>1. ASSUME NEW b \in Actions, InHand(b) <=> InHand(b)' PROVE FateOf(b)' = FateOf(b)
    BY <1>3, <2>1, FateKept DEF journalVars
  <2>2. ASSUME NEW b \in fin, opc # "apply" PROVE FateOf(b)' = FateOf(b)
    BY <1>3, <2>2, InHandIs, FateKept DEF journalVars
  <2>3. CASE UNCHANGED ctl
    <3>1. ASSUME NEW a \in fin, InHand(a), ~InHand(a)'
          PROVE  Promise!Drop(a) \/ UNCHANGED Promise!vars
      <4>1. /\ a \in Actions /\ applied[a] = 0 /\ entry[a] = "Claimed" /\ born[a] # 0
            /\ \A b \in fin : b = a
        BY <3>1, InHandIs DEF InHand, JournalInv
      <4>2. FateOf(a) = "taken" /\ FateOf(a)' = "dropped"
        BY <1>3, <3>1, <4>1, FateIs, FateNext DEF journalVars, Abandonable
      <4>3. \A b \in Actions : b # a => FateOf(b)' = FateOf(b)
        BY <1>3, <2>1, <4>1 DEF InHand
      <4> QED BY <1>3, <2>3, <4>1, <4>2, <4>3, DropIs DEF journalVars
    <3>2. CASE \A a \in fin : InHand(a) => InHand(a)'
      <4>1. ASSUME NEW b \in Actions PROVE FateOf(b)' = FateOf(b)
        BY <1>3, <2>1, <2>2, <3>2 DEF InHand
      <4> QED BY <1>3, <2>3, <4>1, AnswersKept DEF Promise!vars, journalVars
    <3> QED BY <3>1, <3>2, InHandIs DEF Promise!Next
  <2>4. ASSUME NEW c \in Commands, ctl' = [ctl EXCEPT ![c] = ctl'[c]],
               UNCHANGED <<opc, fin>> \/ (opc # "apply" /\ opc' # "apply")
        PROVE  (\E told \in Promise!Answers \ {"None"} : Promise!Tell(c, told)) \/ UNCHANGED Promise!vars
    <3>1. \A b \in Actions : FateOf(b)' = FateOf(b)
      BY <2>1, <2>4 DEF InHand
    <3>2. \A b \in Actions : b # c => AnswerOf(b)' = AnswerOf(b)
      <4>1. ctl \in [Commands -> Controls]
        BY DEF TypeOK
      <4>2. \A b \in Commands : b # c => ctl'[b] = ctl[b]
        BY <2>4, <4>1
      <4> QED BY <4>2 DEF AnswerOf, Actions
    <3>3. CASE AnswerOf(c)' = AnswerOf(c)
      <4>1. \A b \in Actions : AnswerOf(b)' = AnswerOf(b)
        BY <3>2, <3>3
      <4> QED BY <1>3, <3>1, <4>1 DEF Promise!vars, journalVars
    <3>4. CASE /\ AnswerOf(c) = "None" /\ Promise!True(AnswerOf(c)', FateOf(c))
               /\ AnswerOf(c)' \in Promise!Answers \ {"None"}
      <4>1. c \in Actions
        BY DEF Actions
      <4> QED BY <1>3, <3>1, <3>2, <3>4, <4>1 DEF Promise!Tell, journalVars
    <3> QED BY <1>3, <3>3, <3>4, TellKeeps
  <2>5. gen' # gen + 1 /\ Commands \subseteq Actions
    BY <1>3 DEF TypeOK, Actions
  <2>6. \/ UNCHANGED ctl
        \/ /\ UNCHANGED <<opc, fin>> \/ (opc # "apply" /\ opc' # "apply")
           /\ \E c \in Commands : ctl' = [ctl EXCEPT ![c] = ctl'[c]]
    BY <2>5, StepRecords
  <2> QED BY <2>3, <2>4, <2>5, <2>6 DEF Promise!Next
<1> QED BY <1>1, <1>2, <1>3, StepGeneration, StepJournal DEF NewGeneration

LEMMA InitTold == Init => ToldInv
BY DEF Init, ToldInv, NewControl, IsOpen

\* The action journal keeps the promise of ActionPromise: an action is taken up at most
\* once, in the order of publication, and applied then or never, and what clients are told
\* of it is so, is not revised, and nothing happens to the action afterwards.
THEOREM ActionPromiseKept == Spec => KeepsActionPromise
<1>1. Init => Promise!Init
  BY ActionsAssumption DEF Init, Promise!Init, FateOf, AnswerOf, NewControl, Actions
<1>2. IInv /\ [Next]_vars => \A c \in Commands : Written(c)
  BY StepWrites DEF IInv
<1>3. IInv /\ IInv' /\ ToldInv /\ [Next]_vars => ToldInv' /\ [Promise!Next]_(Promise!vars)
  BY <1>2, ToldStep, ActionPromiseStep
<1> QED BY <1>1, <1>3, InitTold, IInvAlways, PTL DEF Spec, KeepsActionPromise, Promise!Spec

=============================================================================
