----------------------------- MODULE ConfigEdits -----------------------------
(***************************************************************************)
(* The overlay's durable configuration edits: the event loop's end of the  *)
(* config-edit worker, the worker's thread, the two bounded channels       *)
(* between them, and the shortcut edits that wait for the file's answer    *)
(* before they are installed (src/backend/wayland/config_edits.rs,         *)
(* state/keybindings/implementation.rs and the narrow editor of            *)
(* config/io.rs).                                                          *)
(*                                                                         *)
(* A gesture is a shortcut edit (one action and the set of chords it is to *)
(* end up with) or a slot edit (a preset slot or a quick colour: a single  *)
(* value that the run shows at once).  One slot stands for all of them.    *)
(* What a slot holds is the number of the gesture that set it.  One write  *)
(* of the file, its stale-source retry included, is one step: the file     *)
(* protocol itself is not part of this module.                             *)
(*                                                                         *)
(* The file spells out the chords of some actions; an action it omits is   *)
(* offered the ones the program ships.  A keymap is resolved from that     *)
(* each time the file is read, for that reading only: the run dispatches   *)
(* from the one its start made, and each edit is checked against a new one *)
(* (config/validate/keybindings.rs).  A chord is one key combination, and  *)
(* lists are sets: prefixes and repeats within a list are left out.        *)
(***************************************************************************)
EXTENDS Naturals, FiniteSets, Sequences, SequencesExt
CONSTANTS Actions,        \* actions a shortcut can be bound to: their places in the order
                          \* of configurable_actions
          Chords,         \* key chords
          StartFile,      \* config.toml at the start: the actions whose lists it spells out
                          \* (authored), and the list each action is offered (keys), the
                          \* shipped one if it is not authored
          Gestures,       \* the gestures the user may make, see EdRequest
          EditCapacity,   \* EDIT_QUEUE_CAPACITY, of both channels
          MaxGestures,    \* bound: gestures made in one run
          MaxDisturbances \* bound: failed starts and writes, lost or stuck workers, and changes
                          \* of the file by another program, together

EdRequest == [kind : {"shortcut"}, action : Actions, to : SUBSET Chords] \cup [kind : {"slot"}]

ASSUME EditsAssumption ==
  /\ EditCapacity \in Nat \ {0}
  /\ MaxGestures \in Nat /\ MaxDisturbances \in Nat
  /\ Actions \subseteq Nat /\ Gestures \subseteq EdRequest
  /\ StartFile \in [keys : [Actions -> SUBSET Chords], authored : SUBSET Actions]

EdEdit == [n : 1..MaxGestures, g : EdRequest]      \* gesture number n, asking for g
EdResult == {"wrote", "current", "claimed", "failed", "stopped"}
EdConfig == [keys : [Actions -> SUBSET Chords], slot : 0..MaxGestures]
EdFileConfig ==
  [keys : [Actions -> SUBSET Chords], authored : SUBSET Actions, slot : 0..MaxGestures]
NoEdit == [n |-> 0]

VARIABLES
  edPhase,     \* where the loop is: "poll", "dispatch", "requests", "answers",
               \* "quitting" (teardown queues), "handover", "wait", "gone"
  edWake,      \* the runtime wake descriptor is readable
  edPending,   \* gestures the input state holds for the next pass
  edMade,      \* gestures made so far
  edLive,      \* the configuration the run dispatches from
  edFile,      \* config.toml, as StartFile
  edRunning,   \* running: "none", "up", "closed" (commands dropped)
  edStaged,    \* staged
  edHanded,    \* handed_over
  edProjected, \* projected_shortcuts
  edChannel,   \* the worker's command channel
  edAnswered,  \* the completion channel
  edWorker,    \* the thread: "none", "idle", "writing", "sending", "stuck", "ended"
  edCurrent,   \* the edit the thread is working on
  edLate,      \* teardown's deadline has passed
  edReport,    \* what teardown reported, both parts empty until then
  edFaults, edOutside, \* bounded counters
  edSubmitted, \* history: the edits submitted, in order
  edTold,      \* history: the answers the loop received, in order
  edRefused,   \* history: gestures refused when they were made
  edLanded     \* history: gestures whose edit changed the file

edLoopVars == <<edPhase, edWake, edPending, edMade, edLive>>
edQueueVars == <<edRunning, edStaged, edHanded, edProjected, edChannel>>
edThreadVars == <<edAnswered, edWorker, edCurrent>>
edBoundVars == <<edFaults, edOutside>>
edHistoryVars == <<edSubmitted, edTold, edRefused, edLanded>>
edVars == <<edLoopVars, edQueueVars, edThreadVars, edBoundVars, edHistoryVars,
            edFile, edLate, edReport>>

-----------------------------------------------------------------------------
(* Keymaps. *)

\* The actions whose lists come before an action's own: of two authored lists the earlier
\* one, and for an omitted action every authored one and those of earlier omitted actions.
Ahead(file, a) ==
  {b \in Actions : IF a \in file.authored THEN b \in file.authored /\ b < a
                   ELSE b \in file.authored \/ b < a}

\* The keymap a reading of the file makes (validate_keybindings): each action keeps the
\* chords that no list ahead of its own names.
Resolved(file) ==
  [a \in Actions |-> file.keys[a] \ UNION {file.keys[b] : b \in Ahead(file, a)}]

IsShortcut(e) == e.g.kind = "shortcut"

\* Every chord of the list claimed by no other action of the keymap.
Unclaimed(keys, a, to) == \A b \in Actions \ {a} : keys[b] \cap to = {}

\* A keymap the run can dispatch from (build_action_map).
Unambiguous(keys) == \A a \in Actions : Unclaimed(keys, a, keys[a])

\* The delta of one shortcut edit folded into a keymap.
Folded(keys, e) == IF IsShortcut(e) THEN [keys EXCEPT ![e.g.action] = e.g.to] ELSE keys

\* The keymap the in-flight edits are going to leave behind, folded in one after the
\* other: an action ends up with what its last edit asks for.
Foreseen(keys, edits) ==
  [a \in Actions |->
     LET asking == {i \in DOMAIN edits : IsShortcut(edits[i]) /\ edits[i].g.action = a}
     IN IF asking = {} THEN keys[a] ELSE edits[Max(asking)].g.to]

-----------------------------------------------------------------------------
NoReport == [unconfirmed |-> <<>>, unwritten |-> <<>>]

EditsInit ==
  /\ edPhase = "poll" /\ edWake = FALSE /\ edPending = <<>> /\ edMade = 0
  /\ edLive = [keys |-> Resolved(StartFile), slot |-> 0]
  /\ edFile = [keys |-> StartFile.keys, authored |-> StartFile.authored, slot |-> 0]
  /\ edRunning = "none" /\ edStaged = <<>> /\ edHanded = <<>> /\ edProjected = <<>>
  /\ edChannel = <<>> /\ edAnswered = <<>> /\ edWorker = "none" /\ edCurrent = NoEdit
  /\ edLate = FALSE /\ edReport = NoReport /\ edFaults = 0 /\ edOutside = 0
  /\ edSubmitted = <<>> /\ edTold = <<>> /\ edRefused = {} /\ edLanded = {}

-----------------------------------------------------------------------------
(* The event loop. *)

EdFault == edFaults + edOutside < MaxDisturbances /\ edFaults' = edFaults + 1

\* Poll returns, for the wake descriptor or for input that makes no gesture.
EdWoken ==
  /\ edPhase = "poll" /\ edWake
  /\ edPhase' = "dispatch" /\ edWake' = FALSE
  /\ UNCHANGED <<edPending, edMade, edLive, edQueueVars, edThreadVars, edBoundVars,
                 edHistoryVars, edFile, edLate, edReport>>

\* The user makes a gesture.  A slot is shown as set at once, and the slot edit
\* of an earlier event is drained by the handler of the next one, so at most one
\* is pending; the pass takes it before the shortcuts.
EdGesture(g) ==
  /\ edPhase \in {"poll", "dispatch"} /\ edMade < MaxGestures
  /\ edPhase' = "dispatch" /\ edMade' = edMade + 1
  /\ LET e == [n |-> edMade + 1, g |-> g] IN
       IF IsShortcut(e)
       THEN edPending' = Append(edPending, e) /\ UNCHANGED edLive
       ELSE /\ \A i \in DOMAIN edPending : IsShortcut(edPending[i])
            /\ edPending' = <<e>> \o edPending
            /\ edLive' = [edLive EXCEPT !.slot = e.n]
  /\ UNCHANGED <<edWake, edQueueVars, edThreadVars, edBoundVars, edHistoryVars,
                 edFile, edLate, edReport>>

\* The batch of events ends in the ordinary pass, or in the exit that skips it.
EdPass ==
  /\ edPhase = "dispatch" /\ edPhase' = "requests"
  /\ UNCHANGED <<edWake, edPending, edMade, edLive, edQueueVars, edThreadVars, edBoundVars,
                 edHistoryVars, edFile, edLate, edReport>>
EdQuit ==
  /\ edPhase = "dispatch" /\ edPhase' = "quitting"
  /\ UNCHANGED <<edWake, edPending, edMade, edLive, edQueueVars, edThreadVars, edBoundVars,
                 edHistoryVars, edFile, edLate, edReport>>

\* pump: start the worker if there is none, then move as many staged edits into
\* its channel as there is room for.  The outcomes, from the staging queue given:
\* a start may fail, and a channel whose worker is gone takes nothing.
EdQueues(staged) == [running |-> edRunning, worker |-> edWorker, faults |-> edFaults,
                     staged |-> staged, handed |-> edHanded, channel |-> edChannel]

EdTransferred(q) ==
  LET room == EditCapacity - Len(q.channel)
      k == IF Len(q.staged) < room THEN Len(q.staged) ELSE room
      moved == SubSeq(q.staged, 1, k)
  IN [q EXCEPT !.channel = @ \o moved, !.handed = @ \o moved,
               !.staged = SubSeq(@, k + 1, Len(@))]

EdPumped(staged) ==
  LET q == EdQueues(staged) IN
  IF staged = <<>> \/ edRunning = "closed" THEN {q}
  ELSE IF edRunning = "none"
  THEN {EdTransferred([q EXCEPT !.running = "up", !.worker = "idle"])}
       \cup {f \in {[q EXCEPT !.faults = @ + 1]} : f.faults + edOutside <= MaxDisturbances}
  ELSE IF edWorker = "ended" THEN {[q EXCEPT !.running = "closed"]}
  ELSE {EdTransferred(q)}

EdTakeQueues(q) ==
  /\ edRunning' = q.running /\ edWorker' = q.worker /\ edFaults' = q.faults
  /\ edStaged' = q.staged /\ edHanded' = q.handed /\ edChannel' = q.channel

\* Mutant: the check looks at the run's keymap without the edits in flight.
EdAcceptableNow(e) ==
  Unclaimed(edLive.keys, e.g.action, e.g.to) /\ Unambiguous(Folded(edLive.keys, e))

\* The chords of a shortcut edit are free in the keymap it will be folded into.
EdAcceptable(e) ==
  LET next == Foreseen(edLive.keys, edProjected)
  IN Unclaimed(next, e.g.action, e.g.to) /\ Unambiguous(Folded(next, e))

\* One pending gesture.  A shortcut that fails the check is refused; anything
\* else is submitted, and the loop woken if no worker will ever answer.
EdRequestStep ==
  /\ edPhase \in {"requests", "quitting"} /\ edPending # <<>>
  /\ edPending' = Tail(edPending)
  /\ LET e == Head(edPending) IN
     \/ /\ IsShortcut(e) /\ ~EdAcceptable(e)
        /\ edRefused' = edRefused \cup {e.n}
        /\ UNCHANGED <<edWake, edQueueVars, edWorker, edFaults, edSubmitted>>
     \/ /\ IsShortcut(e) => EdAcceptable(e)
        /\ edProjected' = IF IsShortcut(e) THEN Append(edProjected, e) ELSE edProjected
        /\ \E q \in EdPumped(Append(edStaged, e)) :
             /\ EdTakeQueues(q)
             /\ edWake' = (edWake \/ (q.staged # <<>> /\ q.running # "up"))
        /\ edSubmitted' = Append(edSubmitted, e)
        /\ UNCHANGED edRefused
  /\ UNCHANGED <<edPhase, edMade, edLive, edAnswered, edCurrent, edOutside, edTold, edLanded,
                 edFile, edLate, edReport>>

EdRequestsDone ==
  /\ edPhase \in {"requests", "quitting"} /\ edPending = <<>>
  /\ edPhase' = IF edPhase = "requests" THEN "answers" ELSE "handover"
  /\ UNCHANGED <<edWake, edPending, edMade, edLive, edQueueVars, edThreadVars, edBoundVars,
                 edHistoryVars, edFile, edLate, edReport>>

\* finish_keybinding_edit: a refusal installs nothing; every other outcome folds
\* the delta into the keymap of the moment, unless that made it ambiguous.
Installed(live, e, result) ==
  LET keys == Folded(live.keys, e) IN
  IF result # "claimed" /\ Unambiguous(keys) THEN [live EXCEPT !.keys = keys] ELSE live

\* retire_projection: the oldest projection goes with a shortcut's answer.
Retired(e) ==
  IF IsShortcut(e) /\ edProjected # <<>> THEN Tail(edProjected) ELSE edProjected

EdTell(e, result) ==
  /\ edTold' = Append(edTold, [n |-> e.n, result |-> result])
  /\ edProjected' = Retired(e)
  /\ edLive' = Installed(edLive, e, result)

\* Mutant: a worker that is gone is taken to have left no completion.
EdSilentUndrained(q) == q.running = "none" \/ q.worker = "ended"

\* No completion can arrive: there is no worker, or it is gone and its end of
\* the completion channel is drained.
EdSilent(q) == q.running = "none" \/ (q.worker = "ended" /\ edAnswered = <<>>)

\* One try_recv of the drain: pump, then the oldest completion; with no worker
\* left the oldest staged edit comes back as a failed write; otherwise the pass
\* is over.
EdTryRecv ==
  /\ edPhase = "answers"
  /\ \E q \in EdPumped(edStaged) :
     \/ /\ edAnswered # <<>>
        /\ EdTakeQueues([q EXCEPT !.handed = Tail(@)])
        /\ EdTell(Head(edAnswered).e, Head(edAnswered).result)
        /\ edAnswered' = Tail(edAnswered)
        /\ UNCHANGED edPhase
     \/ /\ EdSilent(q) /\ q.staged # <<>>
        /\ EdTakeQueues([q EXCEPT !.staged = Tail(@),
                                  !.running = IF @ = "none" THEN @ ELSE "closed"])
        /\ EdTell(Head(q.staged), "stopped")
        /\ UNCHANGED <<edPhase, edAnswered>>
     \/ /\ edAnswered = <<>> /\ (EdSilent(q) => q.staged = <<>>)
        /\ EdTakeQueues([q EXCEPT !.running = IF @ # "none" /\ EdSilent(q) THEN "closed" ELSE @])
        /\ edPhase' = "poll"
        /\ UNCHANGED <<edAnswered, edTold, edProjected, edLive>>
  /\ UNCHANGED <<edWake, edPending, edMade, edCurrent, edOutside, edSubmitted, edRefused,
                 edLanded, edFile, edLate, edReport>>

-----------------------------------------------------------------------------
(* Teardown. *)

\* Mutant: what was handed over is reported as never taken.
EdAccountUnwritten(q) ==
  /\ EdTakeQueues([q EXCEPT !.handed = <<>>, !.staged = <<>>])
  /\ edReport' = [unconfirmed |-> <<>>, unwritten |-> q.handed \o q.staged]
  /\ edProjected' = <<>>
  /\ edPhase' = "gone"

\* account_for_the_rest: what was handed over and not answered is unconfirmed,
\* what no worker took is unwritten.
EdAccount(q) ==
  /\ EdTakeQueues([q EXCEPT !.handed = <<>>, !.staged = <<>>])
  /\ edReport' = [unconfirmed |-> q.handed, unwritten |-> q.staged]
  /\ edProjected' = <<>>
  /\ edPhase' = "gone"

\* A completion received during teardown is logged, not routed.
EdLog(q) ==
  /\ edAnswered # <<>>
  /\ EdTakeQueues([q EXCEPT !.handed = Tail(@)])
  /\ edAnswered' = Tail(edAnswered)
  /\ edTold' = Append(edTold, [n |-> Head(edAnswered).e.n, result |-> Head(edAnswered).result])

\* hand_over_staged: pump, wait for a completion to make room, again; then the
\* sender is dropped, or there is no worker and nothing to wait for.
EdHandOver ==
  /\ edPhase = "handover"
  /\ \E q \in EdPumped(edStaged) :
     LET leave == q.staged = <<>> \/ q.running # "up" \/ edLate IN
     \/ /\ leave /\ q.running = "none"
        /\ EdAccount(q) /\ UNCHANGED <<edAnswered, edTold>>
     \/ /\ leave /\ q.running # "none"
        /\ EdTakeQueues([q EXCEPT !.running = "closed"]) /\ edPhase' = "wait"
        /\ UNCHANGED <<edProjected, edReport, edAnswered, edTold>>
     \/ /\ ~leave /\ EdLog(q) /\ UNCHANGED <<edPhase, edProjected, edReport>>
     \/ /\ ~leave /\ edAnswered = <<>> /\ q.staged # edStaged /\ EdTakeQueues(q)
        /\ UNCHANGED <<edPhase, edProjected, edReport, edAnswered, edTold>>
  /\ UNCHANGED <<edWake, edPending, edMade, edLive, edCurrent, edOutside, edSubmitted, edRefused,
                 edLanded, edFile, edLate>>

\* shutdown, after the sender is dropped: completions until the worker is done
\* or the deadline is reached.
EdAwait ==
  /\ edPhase = "wait"
  /\ LET q == EdQueues(edStaged) IN
     \/ ~edLate /\ EdLog(q) /\ UNCHANGED <<edPhase, edProjected, edReport>>
     \/ (edLate \/ EdSilent(q)) /\ EdAccount(q) /\ UNCHANGED <<edAnswered, edTold>>
  /\ UNCHANGED <<edWake, edPending, edMade, edLive, edCurrent, edOutside, edSubmitted, edRefused,
                 edLanded, edFile, edLate>>

EdDeadline ==
  /\ edPhase \in {"handover", "wait"} /\ ~edLate /\ edLate' = TRUE
  /\ UNCHANGED <<edLoopVars, edQueueVars, edThreadVars, edBoundVars, edHistoryVars, edFile, edReport>>

-----------------------------------------------------------------------------
(* The worker's thread. *)

EdReceive ==
  /\ edWorker = "idle" /\ edChannel # <<>>
  /\ edCurrent' = Head(edChannel) /\ edChannel' = Tail(edChannel) /\ edWorker' = "writing"
  /\ UNCHANGED <<edLoopVars, edRunning, edStaged, edHanded, edProjected, edAnswered, edBoundVars,
                 edHistoryVars, edFile, edLate, edReport>>

\* write_edit: a chord the file gives to another action, as it is read now, refuses the
\* edit; a value it already reads as is not written.
EdFileAnswer(e) ==
  IF ~IsShortcut(e) THEN "wrote"
  ELSE IF ~Unclaimed(Resolved(edFile), e.g.action, e.g.to) THEN "claimed"
  ELSE IF Resolved(edFile)[e.g.action] = e.g.to THEN "current"
  ELSE "wrote"

\* The action's own key is written, and is spelled out from then on; the lists of the
\* others stay as they are.
EdPut(file, e) ==
  IF IsShortcut(e)
  THEN [file EXCEPT !.keys = Folded(@, e), !.authored = @ \cup {e.g.action}]
  ELSE [file EXCEPT !.slot = e.n]

EdWrite ==
  /\ edWorker = "writing"
  /\ \/ /\ LET result == EdFileAnswer(edCurrent) IN
             /\ edCurrent' = [e |-> edCurrent, result |-> result]
             /\ edFile' = IF result = "wrote" THEN EdPut(edFile, edCurrent) ELSE edFile
             /\ edLanded' = IF result = "wrote" THEN edLanded \cup {edCurrent.n} ELSE edLanded
        /\ edWorker' = "sending" /\ UNCHANGED edFaults
     \/ /\ EdFault /\ edWorker' = "sending"          \* the write fails, or panics
        /\ edCurrent' = [e |-> edCurrent, result |-> "failed"]
        /\ UNCHANGED <<edFile, edLanded>>
     \/ /\ EdFault /\ edWorker' = "sending"          \* it fails after the file was replaced
        /\ EdFileAnswer(edCurrent) = "wrote"
        /\ edCurrent' = [e |-> edCurrent, result |-> "failed"]
        /\ edFile' = EdPut(edFile, edCurrent) /\ edLanded' = edLanded \cup {edCurrent.n}
     \/ /\ EdFault /\ edWorker' = "stuck"            \* the filesystem stops answering
        /\ UNCHANGED <<edCurrent, edFile, edLanded>>
     \/ /\ EdFault /\ edWorker' = "ended" /\ edCurrent' = NoEdit  \* the thread is lost
        /\ UNCHANGED <<edFile, edLanded>>
  /\ UNCHANGED <<edLoopVars, edQueueVars, edAnswered, edOutside, edSubmitted, edTold, edRefused,
                 edLate, edReport>>

\* Mutant: the completion does not wake the loop.
EdSendUnwoken ==
  /\ edWorker = "sending" /\ edWorker' = "idle" /\ edCurrent' = NoEdit
  /\ \/ edPhase = "gone" /\ UNCHANGED edAnswered
     \/ /\ edPhase # "gone" /\ Len(edAnswered) < EditCapacity
        /\ edAnswered' = Append(edAnswered, edCurrent)
  /\ UNCHANGED <<edLoopVars, edQueueVars, edBoundVars, edHistoryVars, edFile, edLate, edReport>>

\* send, then the wake; once the receiver is gone the answer is dropped and the
\* thread goes on.
EdSend ==
  /\ edWorker = "sending" /\ edWorker' = "idle" /\ edCurrent' = NoEdit
  /\ \/ /\ edPhase = "gone" /\ UNCHANGED <<edAnswered, edWake>>
     \/ /\ edPhase # "gone" /\ Len(edAnswered) < EditCapacity
        /\ edAnswered' = Append(edAnswered, edCurrent)
        /\ edWake' = TRUE
  /\ UNCHANGED <<edPhase, edPending, edMade, edLive, edQueueVars, edBoundVars, edHistoryVars,
                 edFile, edLate, edReport>>

\* recv fails: the sender is dropped and the queue is empty.
EdFinish ==
  /\ edWorker = "idle" /\ edChannel = <<>> /\ edRunning = "closed" /\ edWorker' = "ended"
  /\ UNCHANGED <<edLoopVars, edQueueVars, edAnswered, edCurrent, edBoundVars, edHistoryVars,
                 edFile, edLate, edReport>>

\* The process exits some time after teardown, whatever the thread is doing.
EdExit ==
  /\ edPhase = "gone" /\ edWorker \notin {"none", "ended"}
  /\ edWorker' = "ended" /\ edCurrent' = NoEdit /\ edChannel' = <<>>
  /\ UNCHANGED <<edLoopVars, edRunning, edStaged, edHanded, edProjected, edAnswered, edBoundVars,
                 edHistoryVars, edFile, edLate, edReport>>

\* Another program adds a chord to an action's list, also one that another list names.
EdOutsideEdit ==
  /\ edFaults + edOutside < MaxDisturbances /\ edOutside' = edOutside + 1
  /\ \E a \in Actions, c \in Chords :
       /\ c \notin edFile.keys[a]
       /\ edFile' = [edFile EXCEPT !.keys[a] = @ \cup {c}, !.authored = @ \cup {a}]
  /\ UNCHANGED <<edLoopVars, edQueueVars, edThreadVars, edFaults, edHistoryVars, edLate, edReport>>

-----------------------------------------------------------------------------
EditsLoop == EdWoken \/ EdPass \/ EdQuit \/ EdRequestStep \/ EdRequestsDone \/ EdTryRecv
             \/ EdHandOver \/ EdAwait
EditsThread == EdReceive \/ EdWrite \/ EdSend \/ EdFinish
EditsNext == EditsLoop \/ EditsThread \/ EdDeadline \/ EdExit \/ EdOutsideEdit
             \/ \E g \in Gestures : EdGesture(g)
EditsSpec == EditsInit /\ [][EditsNext]_edVars

-----------------------------------------------------------------------------
EdRunningPhases == {"poll", "dispatch", "requests", "answers"}
SeqsOver(S, n) == UNION {[1..k -> S] : k \in 0..n}
EdAnswer == [e : EdEdit, result : EdResult]

\* Types of the variables.
EditsTypeOK ==
  /\ edPhase \in EdRunningPhases \cup {"quitting", "handover", "wait", "gone"}
  /\ edWake \in BOOLEAN /\ edLate \in BOOLEAN /\ edMade \in 0..MaxGestures
  /\ edLive \in EdConfig /\ edFile \in EdFileConfig
  /\ edRunning \in {"none", "up", "closed"}
  /\ \A q \in {edPending, edStaged, edHanded, edProjected, edChannel, edSubmitted,
               edReport.unconfirmed, edReport.unwritten} :
       Len(q) <= MaxGestures /\ \A i \in DOMAIN q : q[i] \in EdEdit
  /\ Len(edChannel) <= EditCapacity /\ Len(edAnswered) <= EditCapacity
  /\ \A i \in DOMAIN edAnswered : edAnswered[i] \in EdAnswer
  /\ edWorker \in {"none", "idle", "writing", "sending", "stuck", "ended"}
  /\ edCurrent \in EdEdit \cup EdAnswer \cup {NoEdit}
  /\ edFaults + edOutside \in 0..MaxDisturbances
  /\ edRefused \subseteq 1..MaxGestures /\ edLanded \subseteq 1..MaxGestures

\* The edits the file has not been asked to take yet, oldest first.
EdUnwritten ==
  (IF edWorker = "writing" THEN <<edCurrent>> ELSE <<>>) \o edChannel \o edStaged

\* The slot they leave behind.
SlotForeseen(slot, edits) ==
  LET setting == {i \in DOMAIN edits : ~IsShortcut(edits[i])}
  IN IF setting = {} THEN slot ELSE edits[Max(setting)].n

EdTolds(results) == {edTold[i].n : i \in {j \in DOMAIN edTold : edTold[j].result \in results}}

\* The chords that two actions are offered at the start.  A reading gives each to one of
\* them; when that one lets go of it the file offers it to the other, and the run does not
\* read the file again.
Contested ==
  {c \in Chords : \E a, b \in Actions : a # b /\ c \in StartFile.keys[a] \cap StartFile.keys[b]}

Plain(g) == g.kind = "shortcut" => g.to \cap Contested = {}

\* While nothing fails, no other program writes the file and no edit asks for a contested
\* chord, the keymap a new shortcut is checked against (the run's, with the edits in
\* flight folded in) is the one the file will be read as when every accepted edit is
\* written, but for contested chords that came back to the file meanwhile: no accepted
\* edit is refused by the file, none the file would take is refused here, and the run
\* dispatches nothing the file does not say.  An accepted edit that does ask for a chord
\* that came back is refused by the file: the write is the arbiter.  The slot the run
\* shows is the one the file will have.  (projected_shortcuts, retire_projection,
\* install_keybinding_edit, refuse_shortcut_claimed_on_disk, the order of the writes.)
EditsForesee ==
  /\ edPhase \in EdRunningPhases /\ edFaults = 0 /\ edOutside = 0
  /\ \A i \in DOMAIN edSubmitted : Plain(edSubmitted[i].g)
  =>
    LET run == Foreseen(edLive.keys, edProjected)
        next == Foreseen(Resolved(edFile), EdUnwritten)
    IN /\ \A a \in Actions : run[a] \subseteq next[a] /\ next[a] \ Contested \subseteq run[a]
       /\ \A g \in {h \in Gestures : h.kind = "shortcut" /\ Plain(h)} :
            EdAcceptable([n |-> edMade, g |-> g]) <=> Unclaimed(next, g.action, g.to)
       /\ EdTolds({"claimed"}) = {}
       /\ edLive.slot = SlotForeseen(edFile.slot, EdUnwritten \o edPending)

EdNumbers(edits) == [i \in DOMAIN edits |-> edits[i].n]

\* The order of the answers is the order of the edits, whatever was staged behind
\* a full channel; none is overtaken unless the worker was lost with it.
EdInOrder ==
  /\ \A i, j \in DOMAIN edTold, k, l \in DOMAIN edSubmitted :
       i < j /\ edTold[i].n = edSubmitted[k].n /\ edTold[j].n = edSubmitted[l].n => k < l
  /\ edWorker # "ended" => IsPrefix(EdNumbers(edTold), EdNumbers(edSubmitted))

EdNamed(edits) == {edits[i].n : i \in DOMAIN edits}

\* Every submitted edit is at one place: answered, handed over, staged, or named
\* by the report of teardown as unconfirmed or unwritten.  What is answered as
\* saved is in the file; what is answered as refused or as handed back for want
\* of a worker, or reported as unwritten, never reaches it, also not through the
\* thread that outlives teardown; and a drain within the deadline leaves nothing
\* unconfirmed while the worker lives.  Answers come in the order of the edits.
\* (pump, try_recv, shutdown, account_for_the_rest, run_worker.)
EditsReportTruthful ==
  LET told == EdTolds(EdResult)
      open == EdNamed(edHanded) \cup EdNamed(edReport.unconfirmed)
      left == EdNamed(edStaged) \cup EdNamed(edReport.unwritten)
  IN /\ told \cup open \cup left = EdNamed(edSubmitted)
     /\ Cardinality(told) + Cardinality(open) + Cardinality(left) = Len(edSubmitted)
     /\ EdInOrder
     /\ EdTolds({"wrote"}) \subseteq edLanded
     /\ edLanded \cap (EdTolds({"current", "claimed", "stopped"}) \cup left \cup edRefused) = {}
     /\ edPhase = "gone" /\ ~edLate /\ edFaults = 0 =>
          edReport = NoReport /\ edMade = Cardinality(told \cup edRefused)

EdSettled(n) ==
  n \in edRefused \cup EdTolds(EdResult) \cup EdNamed(edReport.unconfirmed)
        \cup EdNamed(edReport.unwritten)

\* Every gesture is eventually answered, refused, or named by the report of
\* teardown; only a run that is not told to exit may keep a gesture waiting, and
\* only behind a lost worker or a filesystem that has stopped answering.  (The
\* wake after each completion, the wake of a stalled submission, the pump in
\* try_recv, the deadline of shutdown.)
EditsSettled ==
  []<>(\/ \A n \in 1..edMade : EdSettled(n)
       \/ edWorker \in {"stuck", "ended"} /\ edPhase \in EdRunningPhases)
=============================================================================
