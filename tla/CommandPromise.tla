--------------------------- MODULE CommandPromise ---------------------------
(***************************************************************************)
(* What the typed command protocol promises for one command, whatever the  *)
(* files, locks, processes and daemon generations behind it do:            *)
(*   - its decision is taken once and its outcome is never revised;        *)
(*   - it is executed at most once, and only after it was decided to be;   *)
(*   - a caller that is told "canceled", "failed without effect" or        *)
(*     "publication failed" holds a command that never runs.               *)
(* The last point has the one exception the code makes: a command that is  *)
(* rejected because its authorization deadline expired at commit may run.  *)
(***************************************************************************)
EXTENDS Naturals

VARIABLES phase,     \* decision and outcome
          executed,  \* how many times the request was executed
          answer     \* what the caller was told

vars == <<phase, executed, answer>>

Refused == {"Canceled", "FailedNoEffect", "Withdrawn"}
Phases  == {"Open", "Authorized", "Expired", "Succeeded", "CommittedIndeterminate"}
             \cup Refused

Init == phase = "Open" /\ executed = 0 /\ answer = "None"

\* The caller learns the outcome; a refusal it learns is a refusal.
Told(p) == CASE p = "Expired"    -> "FailedNoEffect"
             [] p = "Authorized" -> "CommittedIndeterminate"
             [] OTHER            -> p

Decide ==
  /\ phase = "Open"
  /\ phase' \in {"Authorized", "Expired", "FailedNoEffect"}
  /\ UNCHANGED <<executed, answer>>

Cancel ==
  /\ phase = "Open" /\ answer = "None"
  /\ phase' = "Canceled" /\ answer' = "Canceled"
  /\ UNCHANGED executed

Withdraw ==
  /\ phase \in {"Open", "FailedNoEffect"} /\ answer = "None"
  /\ phase' = "Withdrawn" /\ answer' = "PublishFailed"
  /\ UNCHANGED executed

Execute ==
  /\ phase \in {"Authorized", "Expired"} /\ executed = 0
  /\ executed' = 1
  /\ UNCHANGED <<phase, answer>>

Complete ==
  /\ phase = "Authorized"
  /\ phase' \in {"Succeeded", "CommittedIndeterminate"}
  /\ UNCHANGED <<executed, answer>>

Tell ==
  /\ phase # "Open" /\ answer = "None"
  /\ answer' = Told(phase)
  /\ UNCHANGED <<phase, executed>>

\* The caller stops waiting without an outcome.
LoseTrack ==
  /\ answer = "None"
  /\ answer' \in {"AdmittedIndeterminate", "WaitFailed"}
  /\ UNCHANGED <<phase, executed>>

Next == Decide \/ Cancel \/ Withdraw \/ Execute \/ Complete \/ Tell \/ LoseTrack

Spec == Init /\ [][Next]_vars

=============================================================================
