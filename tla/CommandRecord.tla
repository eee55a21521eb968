--------------------------- MODULE CommandRecord ---------------------------
(***************************************************************************)
(* The durable command control record of daemon protocol v2                *)
(* (src/src/daemon/protocol_v2/wire.rs, CommandControl) and every          *)
(* transition the code applies to it.  A record is one file, rewritten     *)
(* atomically under the command's decision lock, so one transition is one  *)
(* value of the file.                                                      *)
(*                                                                         *)
(* Left out: identities, digests, clocks and boot or namespace identities  *)
(* (unique values that are only compared with themselves); the revision    *)
(* counter, which only grows; the delivery owner, which is present exactly *)
(* when effect_kind is not NoOp and always names the target token; and     *)
(* reconciliation_status and child_report_status, which no code assigns a  *)
(* value other than None.  A reason, stored in the code both in the        *)
(* decision and in the response, is one field.                             *)
(***************************************************************************)
EXTENDS Naturals

CONSTANTS SessionFiles,  \* named session files a request may carry
          NoSession      \* a request that names no session file

ASSUME NoSessionAssumption == NoSession \notin SessionFiles

SessionChoices == SessionFiles \cup {NoSession}

Requests == [overlay_action : BOOLEAN, session_file : SessionChoices]

PublicationStates == {"VisibleUnqueued", "Queued", "Claimed"}
Decisions         == {"Open", "Canceled", "Rejected", "Committed"}
ActionEffects     == {"DeliverReadyAction", "StartAndDeliverAction"}
EffectKinds       == {"None", "NoOp", "HideReady", "StartAndShow"} \cup ActionEffects
EffectStatuses    == {"None", "Authorized", "Completed", "FailedNoEffect", "Indeterminate"}
LiveActions       == {"Prepared", "Eligible", "Claimed"}
ActionStatuses    == {"None", "Applied", "Abandoned", "Indeterminate"} \cup LiveActions
Responses         == {"None", "Succeeded", "Canceled", "FailedNoEffect",
                      "CommittedIndeterminate"}
Dispositions      == {"Waiting", "Acknowledged", "Abandoned"}
Reasons           == {"None", "SessionConflict", "AuthorizationExpired",
                      "CallerEnded", "PreviousGeneration", "QueueIntegrity"}

Controls ==
  [target_daemon_token : Nat,
   request             : Requests,
   publication_state   : PublicationStates,
   decision            : Decisions,
   effect_kind         : EffectKinds,
   effect_status       : EffectStatuses,
   action_status       : ActionStatuses,
   response            : Responses,
   reason              : Reasons,
   caller_disposition  : Dispositions]

-----------------------------------------------------------------------------
(* Tests the code makes on a record.                                       *)

IsOpen(r)       == r.decision = "Open"
Answered(r)     == r.response # "None"
IsAuthorized(r) == r.decision = "Committed" /\ r.effect_status = "Authorized"

\* What earliest_ref_less_control and claim_ref_less_control may resume.
Recoverable(r) ==
  \/ IsOpen(r)
  \/ IsAuthorized(r) /\ r.action_status = "None"

-----------------------------------------------------------------------------
(* Consistency of a record.  write_control and read_control both refuse a  *)
(* record that fails it, and the refusal propagates: a client gives up, a  *)
(* daemon terminates or quarantines the command.                           *)

DecisionMatchesResponse(r) ==
  r.response = CASE r.decision = "Open"      -> "None"
                 [] r.decision = "Canceled"  -> "Canceled"
                 [] r.decision = "Rejected"  -> "FailedNoEffect"
                 [] r.decision = "Committed" ->
                      CASE r.effect_status = "Completed"      -> "Succeeded"
                        [] r.effect_status = "FailedNoEffect" -> "FailedNoEffect"
                        [] r.effect_status = "Indeterminate"  -> "CommittedIndeterminate"
                        [] OTHER                              -> "None"

ActionMatchesEffect(r) ==
  /\ r.action_status # "None" => r.request.overlay_action
  /\ r.decision = "Committed" =>
       /\ r.effect_kind # "None" /\ r.effect_status # "None"
       /\ r.effect_kind \in ActionEffects <=> r.action_status # "None"
       /\ IsAuthorized(r) => /\ r.effect_kind # "NoOp"
                             /\ r.action_status \in {"None"} \cup LiveActions
       /\ ~IsAuthorized(r) => r.action_status \notin {"Prepared", "Eligible"}

Validate(r) ==
  /\ DecisionMatchesResponse(r)
  /\ ActionMatchesEffect(r)
  /\ r.caller_disposition = "Acknowledged" => Answered(r)

-----------------------------------------------------------------------------
(* Transitions.                                                            *)

\* The record a client stages.
NewControl(request, token) ==
  [target_daemon_token |-> token,
   request             |-> request,
   publication_state   |-> "VisibleUnqueued",
   decision            |-> "Open",
   effect_kind         |-> "None",
   effect_status       |-> "None",
   action_status       |-> "None",
   response            |-> "None",
   reason              |-> "None",
   caller_disposition  |-> "Waiting"]

Queued(r)  == [r EXCEPT !.publication_state = "Queued"]
Claimed(r) == [r EXCEPT !.publication_state = "Claimed"]

Acknowledged(r)    == [r EXCEPT !.caller_disposition = "Acknowledged"]
CallerAbandoned(r) == [r EXCEPT !.caller_disposition = "Abandoned"]

\* cancel_open: cancellation, its response and its acknowledgement are one write.
Canceled(r) ==
  [r EXCEPT !.decision = "Canceled", !.response = "Canceled",
            !.caller_disposition = "Acknowledged"]

Rejected(r, why) ==
  [r EXCEPT !.decision = "Rejected", !.response = "FailedNoEffect", !.reason = why]

\* commit: a NoOp effect commits as already completed.
Committed(r, kind) ==
  [r EXCEPT !.decision      = "Committed",
            !.effect_kind   = kind,
            !.effect_status = IF kind = "NoOp" THEN "Completed" ELSE "Authorized",
            !.response      = IF kind = "NoOp" THEN "Succeeded" ELSE "None",
            !.action_status = IF @ = "Prepared" THEN "Eligible" ELSE @]

\* prepare_action, claim_command_action: the action's progress alone.
WithAction(r, status) == [r EXCEPT !.action_status = status]

\* finish_command_action on a command that was refused before its commit.
EndedBeforeCommit(r, result) ==
  /\ result = "NoEffect" /\ r.decision \in {"Canceled", "Rejected"}
  /\ r.action_status \in {"None", "Prepared", "Eligible"}

\* The same result was recorded before.
AlreadyFinished(r, result) ==
  \/ result = "Applied" /\ r.action_status = "Applied" /\ r.response = "Succeeded"
  \/ result # "Applied" /\ r.action_status \in {"Abandoned", "Indeterminate"} /\ Answered(r)

\* What finish_command_action accepts; it fails on any other record.
Finishable(r, result) ==
  \/ EndedBeforeCommit(r, result)
  \/ AlreadyFinished(r, result)
  \/ /\ IsAuthorized(r)
     /\ \/ r.action_status = "Claimed"
        \/ result # "Applied" /\ r.action_status \in {"Prepared", "Eligible"}

\* Mutant: a claimed action that is abandoned counts as not executed.
ActionFinishedHopefully(r, result) ==
  CASE EndedBeforeCommit(r, result) -> WithAction(r, "Abandoned")
    [] AlreadyFinished(r, result)   -> r
    [] OTHER -> [r EXCEPT !.action_status = IF result = "Applied" THEN "Applied" ELSE "Abandoned",
                          !.effect_status = IF result = "Applied" THEN "Completed"
                                                                  ELSE "FailedNoEffect",
                          !.response      = IF result = "Applied" THEN "Succeeded"
                                                                  ELSE "FailedNoEffect"]

\* Mutant: the effect status is stored where the response belongs.
ActionFinishedAsStatus(r, result) ==
  CASE EndedBeforeCommit(r, result) -> WithAction(r, "Abandoned")
    [] AlreadyFinished(r, result)   -> r
    [] OTHER -> [r EXCEPT !.action_status = IF result = "Applied" THEN "Applied" ELSE "Indeterminate",
                          !.effect_status = IF result = "Applied" THEN "Completed"
                                                                  ELSE "Indeterminate",
                          !.response      = IF result = "Applied" THEN "Completed"
                                                                  ELSE "Indeterminate"]

\* finish_command_action: only an action for a ready overlay is known to have
\* had no effect; a start that went with it may have happened.
ActionFinished(r, result) ==
  LET ended(action, effect, response) ==
        [r EXCEPT !.action_status = action, !.effect_status = effect, !.response = response]
  IN  CASE EndedBeforeCommit(r, result) -> WithAction(r, "Abandoned")
        [] AlreadyFinished(r, result)   -> r
        [] OTHER ->
             CASE result = "Applied" -> ended("Applied", "Completed", "Succeeded")
               [] result = "NoEffect" /\ r.effect_kind = "DeliverReadyAction" ->
                    ended("Abandoned", "FailedNoEffect", "FailedNoEffect")
               [] OTHER -> ended("Indeterminate", "Indeterminate", "CommittedIndeterminate")

\* Mutant: the effect status is stored where the response belongs.
FinalizedAsStatus(r, completed) ==
  LET status == IF completed THEN "Completed" ELSE "Indeterminate"
  IN  [r EXCEPT !.effect_status = status, !.response = status]

\* finalize: the effect ran, or its outcome is unknown.
Finalized(r, completed) ==
  [r EXCEPT !.effect_status = IF completed THEN "Completed" ELSE "Indeterminate",
            !.response      = IF completed THEN "Succeeded" ELSE "CommittedIndeterminate"]

\* Mutant: recovery closes an open command and forgets its response.
GenerationEndedSilently(r) ==
  IF IsOpen(r) THEN [r EXCEPT !.decision = "Rejected", !.reason = "PreviousGeneration"]
               ELSE Finalized(r, FALSE)

\* recover_previous_generation, for a record that has no response yet.
GenerationEnded(r) ==
  LET decided == IF IsOpen(r) THEN Rejected(r, "PreviousGeneration")
                              ELSE Finalized(r, FALSE)
  IN  [decided EXCEPT !.action_status = IF @ \in LiveActions THEN "Indeterminate" ELSE @]

=============================================================================
