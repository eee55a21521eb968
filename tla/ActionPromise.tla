---------------------------- MODULE ActionPromise ----------------------------
(***************************************************************************)
(* What the action journal promises, whatever the entries, records, locks, *)
(* processes and daemon generations behind it do:                          *)
(*   - an action is taken up once, in its turn: everything published       *)
(*     before it has been applied by then or never will be;                *)
(*   - an action that was taken up is applied once or, if its overlay      *)
(*     ends before, never: it is not taken up again;                       *)
(*   - what a client is told of its action is so, is never revised, and    *)
(*     nothing happens to the action afterwards.                           *)
(***************************************************************************)
EXTENDS Naturals, Sequences

CONSTANT Actions

VARIABLES line,   \* the actions in the order of their publication
          fate,   \* fate[a]   : what has become of a
          answer  \* answer[a] : what was told of it

vars == <<line, fate, answer>>

Fates   == {"unknown", "waiting", "taken", "applied", "dropped"}
Answers == {"None", "NoOp", "Succeeded", "Canceled", "FailedNoEffect", "CommittedIndeterminate"}

Init ==
  /\ line = <<>>
  /\ fate = [a \in Actions |-> "unknown"] /\ answer = [a \in Actions |-> "None"]

Pending(a) == fate[a] \in {"waiting", "taken"}
Fated(a, f) == fate' = [fate EXCEPT ![a] = f]

\* A client may have canceled before; a command without effect has no action.
Publish(a) ==
  /\ fate[a] = "unknown" /\ answer[a] # "NoOp"
  /\ line' = Append(line, a) /\ Fated(a, "waiting")
  /\ UNCHANGED answer

Foremost(a) == \A m, n \in DOMAIN line : m < n /\ line[n] = a => ~Pending(line[m])

Take(a) ==
  /\ fate[a] = "waiting" /\ Foremost(a) /\ answer[a] = "None"
  /\ Fated(a, "taken") /\ UNCHANGED <<line, answer>>

Apply(a) ==
  /\ fate[a] = "taken" /\ answer[a] = "None"
  /\ Fated(a, "applied") /\ UNCHANGED <<line, answer>>

\* It was abandoned, or nobody is left who could apply it.
Drop(a) ==
  /\ Pending(a)
  /\ Fated(a, "dropped") /\ UNCHANGED <<line, answer>>

\* What may be told of an action with this fate.
True(told, f) ==
  CASE told = "NoOp"      -> f = "unknown"
    [] told = "Succeeded" -> f = "applied"
    [] told \in {"Canceled", "FailedNoEffect"} -> f \in {"unknown", "waiting", "dropped"}
    [] told = "CommittedIndeterminate"         -> f \in {"applied", "dropped"}

Tell(a, told) ==
  /\ answer[a] = "None" /\ True(told, fate[a])
  /\ answer' = [answer EXCEPT ![a] = told]
  /\ UNCHANGED <<line, fate>>

\* The daemon that published them is over: nothing pending is applied any more,
\* and clients that still wait are told.
EndGeneration ==
  /\ fate' = [a \in Actions |-> IF Pending(a) THEN "dropped" ELSE fate[a]]
  /\ answer' \in [Actions -> Answers]
  /\ \A a \in Actions : answer'[a] # answer[a] => answer[a] = "None" /\ True(answer'[a], fate'[a])
  /\ UNCHANGED line

Next ==
  \/ EndGeneration
  \/ \E a \in Actions : \/ Publish(a) \/ Take(a) \/ Apply(a) \/ Drop(a)
                        \/ \E told \in Answers \ {"None"} : Tell(a, told)

Spec == Init /\ [][Next]_vars

=============================================================================
