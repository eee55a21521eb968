---------------------------- MODULE CommandQueue ----------------------------
(***************************************************************************)
(* The typed command queue of daemon protocol v2: client processes         *)
(* (command/client.rs) publish a control directory and a queue reference,  *)
(* wait, and cancel at their response deadline; one daemon generation at a *)
(* time (command/owner.rs, claimed.rs, recovery.rs and process_v2_commands *)
(* of daemon/core.rs) claims, commits, executes, finalizes and collects.   *)
(* Either side may die between any two steps.  This module covers          *)
(* visibility commands; commands carrying an overlay action continue in    *)
(* the action journal.                                                     *)
(*                                                                         *)
(* Locks are flock locks, so a process holds one exactly while its         *)
(* program counter is inside the critical section, and death releases it:  *)
(* Publishing clients hold the admission lock and their decision lock, a   *)
(* client between staging and its answer holds its caller lease, the       *)
(* daemon holds the admission lock while collecting and the decision lock  *)
(* of cur while Owning.  A critical section that writes once is one step.  *)
(* A bounded lock wait either succeeds, or expires while the lock is held. *)
(***************************************************************************)
EXTENDS CommandRecord, FiniteSets

CONSTANTS Clients,   \* client processes; each publishes one command
          Request,   \* Request[c] : what c asks for
          MaxGen,    \* bound on daemon generations
          Mortal,    \* bound: the clients that may fail to publish or crash
          LocalWakes \* bound: the generations in which the overlay changes for local reasons

ASSUME ClientsAssumption ==
  /\ Request \in [Clients -> [overlay_action : {FALSE}, session_file : SessionChoices]]
  /\ MaxGen \in Nat /\ Mortal \subseteq Clients /\ LocalWakes \subseteq Nat

VARIABLES
  \* the v2 command tree
  ctl,        \* ctl[c]   : last content of c's control record
  place,      \* place[c] : where c's control directory is
  queue,      \* commands with a reference in the queue directory
  order,      \* order[c] : queue order allocated to c, 0 before that
  lastOrder,  \* admission.json high-water mark
  \* clients
  cpc,        \* cpc[c]   : program counter
  clock,      \* clock[c] : 1 after the authorization deadline, 2 after the response one
  answer,     \* answer[c]: what the caller was told
  \* the daemon
  gen,        \* current generation; its number stands for its instance token
  dpc,        \* program counter
  snapshot,   \* queue references listed by the current claim_next
  todo,       \* control directories still to visit in the current listing
  cur,        \* command at hand, {} or a singleton
  overlay,    \* "Hidden", "BackingOff" (hidden, a start failed), or the visible session
  armed,      \* commands the lifecycle deadline is armed for
  queueEvent, \* the queue watcher has something to drain
  effects     \* effects[c]: how many times c's request was executed

treeVars   == <<ctl, place, queue, order, lastOrder>>
clientVars == <<cpc, clock, answer>>
daemonVars == <<gen, dpc, snapshot, todo, cur, overlay, armed, queueEvent>>
vars       == <<treeVars, clientVars, daemonVars, effects>>

Publishing == {"staged", "visible", "referenced"}
ClientPCs  == {"idle", "admitting", "waiting", "gone"} \cup Publishing
Faults     == {"recovery contended", "claim contended", "decision closed",
               "not authorized"}
Down       == {"down"} \cup Faults
Owning     == {"unreferencing", "holding", "effect", "finalizeOk", "finalizeErr"}
DaemonPCs  == {"recovering", "scan", "references", "quarantine", "claimReference",
               "claimRefLess", "collect", "collecting", "loop", "idle"}
                \cup Down \cup Owning
Places     == {"none", "creating", "controls", "collected"}
Answers    == {"None", "Succeeded", "Canceled", "FailedNoEffect", "CommittedIndeterminate",
               "AdmittedIndeterminate", "PublishFailed", "WaitFailed"}

TypeOK ==
  /\ ctl \in [Clients -> Controls]
  /\ place \in [Clients -> Places]
  /\ queue \in SUBSET Clients
  /\ order \in [Clients -> Nat] /\ lastOrder \in Nat
  /\ cpc \in [Clients -> ClientPCs]
  /\ clock \in [Clients -> 0..2]
  /\ answer \in [Clients -> Answers]
  /\ gen \in Nat /\ dpc \in DaemonPCs
  /\ snapshot \in SUBSET Clients /\ todo \in SUBSET Clients /\ cur \in SUBSET Clients
  /\ overlay \in {"Hidden", "BackingOff"} \cup SessionChoices
  /\ armed \in SUBSET Clients /\ queueEvent \in BOOLEAN
  /\ effects \in [Clients -> Nat]

Init ==
  /\ ctl = [c \in Clients |-> NewControl(Request[c], 0)]
  /\ place = [c \in Clients |-> "none"]
  /\ queue = {} /\ order = [c \in Clients |-> 0] /\ lastOrder = 0
  /\ cpc = [c \in Clients |-> "idle"]
  /\ clock = [c \in Clients |-> 0]
  /\ answer = [c \in Clients |-> "None"]
  /\ gen = 0 /\ dpc = "down"
  /\ snapshot = {} /\ todo = {} /\ cur = {}
  /\ overlay = "Hidden" /\ armed = {} /\ queueEvent = FALSE
  /\ effects = [c \in Clients |-> 0]

-----------------------------------------------------------------------------
(* Locks and tests.                                                        *)

Present == {c \in Clients : place[c] = "controls"}

CallerHolds(c) == cpc[c] \in Publishing
DaemonHolds(c) == dpc \in Owning /\ c \in cur
DecisionFree(c) == ~CallerHolds(c) /\ ~DaemonHolds(c)
\* Mutant: the caller lease is dropped with the decision lock, before the wait.
LeaseFreeWhileWaiting(c) == ~CallerHolds(c)

LeaseFree(c) == cpc[c] \notin Publishing \cup {"waiting"}
AdmissionFree == dpc # "collecting" /\ \A c \in Clients : ~CallerHolds(c)

Stale(c) == ctl[c].target_daemon_token # gen

\* The runtime record names a live daemon.
Published == dpc \notin Down \cup {"recovering"}

-----------------------------------------------------------------------------
(* Clients.                                                                *)

\* send_daemon_toggle_request reads the daemon's token; publish then takes
\* both deadlines, before it competes for the admission lock.
Begin(c) ==
  /\ cpc[c] = "idle" /\ Published
  /\ ctl' = [ctl EXCEPT ![c] = NewControl(Request[c], gen)]
  /\ cpc' = [cpc EXCEPT ![c] = "admitting"]
  /\ UNCHANGED <<place, queue, order, lastOrder, clock, answer, daemonVars, effects>>

\* Admission lock, order allocation, staged directory, lease and decision lock.
Stage(c) ==
  /\ cpc[c] = "admitting" /\ AdmissionFree
  /\ lastOrder' = lastOrder + 1
  /\ order' = [order EXCEPT ![c] = lastOrder + 1]
  /\ place' = [place EXCEPT ![c] = "creating"]
  /\ cpc' = [cpc EXCEPT ![c] = "staged"]
  /\ UNCHANGED <<ctl, queue, clock, answer, daemonVars, effects>>

MakeVisible(c) ==
  /\ cpc[c] = "staged"
  /\ place' = [place EXCEPT ![c] = "controls"]
  /\ cpc' = [cpc EXCEPT ![c] = "visible"]
  /\ UNCHANGED <<ctl, queue, order, lastOrder, clock, answer, daemonVars, effects>>

\* Mutant: the queue watcher does not see the rename.
WriteReferenceUnseen(c) ==
  /\ cpc[c] = "visible"
  /\ queue' = queue \cup {c}
  /\ cpc' = [cpc EXCEPT ![c] = "referenced"]
  /\ UNCHANGED <<ctl, place, order, lastOrder, clock, answer, daemonVars, effects>>

\* The admission point: the queue reference is renamed into place, which the
\* daemon's queue watcher observes.
WriteReference(c) ==
  /\ cpc[c] = "visible"
  /\ queue' = queue \cup {c}
  /\ queueEvent' = TRUE
  /\ cpc' = [cpc EXCEPT ![c] = "referenced"]
  /\ UNCHANGED <<ctl, place, order, lastOrder, clock, answer, gen, dpc, snapshot, todo,
                 cur, overlay, armed, effects>>

\* The final control write, then both locks are released.
FinishPublication(c) ==
  /\ cpc[c] = "referenced"
  /\ ctl' = [ctl EXCEPT ![c] = Queued(@)]
  /\ cpc' = [cpc EXCEPT ![c] = "waiting"]
  /\ UNCHANGED <<place, queue, order, lastOrder, clock, answer, daemonVars, effects>>

\* Mutant: every publication error is reported as definite.
FailPublicationDefinite(c) ==
  /\ c \in Mortal /\ cpc[c] \in Publishing
  /\ cpc' = [cpc EXCEPT ![c] = "gone"]
  /\ answer' = [answer EXCEPT ![c] = "PublishFailed"]
  /\ UNCHANGED <<treeVars, clock, daemonVars, effects>>

\* An I/O error while publishing: definite before the reference, indeterminate
\* after it.  A contended admission lock is an error once the deadline passed.
FailPublication(c) ==
  /\ c \in Mortal
  /\ \/ cpc[c] \in Publishing
     \/ cpc[c] = "admitting" /\ (AdmissionFree \/ clock[c] >= 1)
  /\ cpc' = [cpc EXCEPT ![c] = "gone"]
  /\ answer' = [answer EXCEPT ![c] = IF cpc[c] = "referenced" THEN "AdmittedIndeterminate"
                                                             ELSE "PublishFailed"]
  /\ UNCHANGED <<treeVars, clock, daemonVars, effects>>

\* wait finds a response: acknowledge it and report it.
TakeResponse(c) ==
  /\ cpc[c] = "waiting" /\ DecisionFree(c)
  /\ Answered(ctl[c]) /\ ctl[c].caller_disposition = "Waiting"
  /\ ctl' = [ctl EXCEPT ![c] = Acknowledged(@)]
  /\ answer' = [answer EXCEPT ![c] = ctl[c].response]
  /\ cpc' = [cpc EXCEPT ![c] = "gone"]
  /\ UNCHANGED <<place, queue, order, lastOrder, clock, daemonVars, effects>>

\* Mutant: the deadline cancels whatever the decision is.
GiveUpCancelsAlways(c) ==
  /\ cpc[c] = "waiting" /\ DecisionFree(c) /\ clock[c] = 2
  /\ ~Answered(ctl[c])
  /\ ctl' = [ctl EXCEPT ![c] = Canceled(@)]
  /\ answer' = [answer EXCEPT ![c] = "Canceled"]
  /\ cpc' = [cpc EXCEPT ![c] = "gone"]
  /\ UNCHANGED <<place, queue, order, lastOrder, clock, daemonVars, effects>>

\* Mutant: the deadline only knows how to cancel an open command.
GiveUpOpenOnly(c) == IsOpen(ctl[c]) /\ GiveUpCancelsAlways(c)

\* wait reaches the response deadline first: cancel if still Open, else give
\* up on a committed effect.
GiveUp(c) ==
  /\ cpc[c] = "waiting" /\ DecisionFree(c) /\ clock[c] = 2
  /\ ~Answered(ctl[c])
  /\ IF IsOpen(ctl[c])
     THEN /\ ctl' = [ctl EXCEPT ![c] = Canceled(@)]
          /\ answer' = [answer EXCEPT ![c] = "Canceled"]
     ELSE /\ ctl' = [ctl EXCEPT ![c] = CallerAbandoned(@)]
          /\ answer' = [answer EXCEPT ![c] = "CommittedIndeterminate"]
  /\ cpc' = [cpc EXCEPT ![c] = "gone"]
  /\ UNCHANGED <<place, queue, order, lastOrder, clock, daemonVars, effects>>

\* The decision lock is still held at the response deadline.
WaitTimesOut(c) ==
  /\ cpc[c] = "waiting" /\ DaemonHolds(c) /\ clock[c] = 2
  /\ answer' = [answer EXCEPT ![c] = "WaitFailed"]
  /\ cpc' = [cpc EXCEPT ![c] = "gone"]
  /\ UNCHANGED <<treeVars, clock, daemonVars, effects>>

ClientCrash(c) ==
  /\ c \in Mortal /\ cpc[c] \in {"waiting"} \cup Publishing
  /\ cpc' = [cpc EXCEPT ![c] = "gone"]
  /\ UNCHANGED <<treeVars, clock, answer, daemonVars, effects>>

\* Time passes, where somebody still compares it with a deadline of c.
Tick(c) ==
  /\ \/ clock[c] = 0 /\ cpc[c] # "idle" /\ IsOpen(ctl[c])
     \/ clock[c] < 2 /\ cpc[c] = "waiting"
  /\ clock' = [clock EXCEPT ![c] = @ + 1]
  /\ UNCHANGED <<treeVars, cpc, answer, daemonVars, effects>>

-----------------------------------------------------------------------------
(* The daemon: death and recovery.                                         *)

\* Any exit: the process's locks go with it and the overlay's watchdog (or the
\* shutdown path) takes the overlay down.
Exit(pc) ==
  /\ dpc' = pc
  /\ snapshot' = {} /\ todo' = {} /\ cur' = {}
  /\ overlay' = "Hidden" /\ armed' = {}
  /\ UNCHANGED <<gen, queueEvent>>

DaemonCrash ==
  /\ dpc \notin Down
  /\ Exit("down")
  /\ UNCHANGED <<treeVars, clientVars, effects>>

\* CommandOwner::open: recover_staging runs under the admission lock (every
\* staged directory is then an orphan), and recovery lists the controls.
Start ==
  /\ dpc \in Down /\ gen < MaxGen /\ AdmissionFree
  /\ gen' = gen + 1
  /\ place' = [c \in Clients |-> IF place[c] = "creating" THEN "none" ELSE place[c]]
  /\ dpc' = "recovering" /\ todo' = Present
  /\ UNCHANGED <<ctl, queue, order, lastOrder, clientVars, snapshot, cur, overlay, armed,
                 queueEvent, effects>>

\* Mutant: recovery also rewrites commands that already have a response.
RecoverAnsweredToo(c) ==
  /\ dpc = "recovering" /\ c \in todo /\ ~CallerHolds(c)
  /\ ctl' = [ctl EXCEPT ![c] = IF Stale(c) THEN GenerationEnded(@) ELSE @]
  /\ todo' = todo \ {c}
  /\ UNCHANGED <<place, queue, order, lastOrder, clientVars, gen, dpc, snapshot, cur,
                 overlay, armed, queueEvent, effects>>

RecoverControl(c) ==
  /\ dpc = "recovering" /\ c \in todo /\ ~CallerHolds(c)
  /\ ctl' = [ctl EXCEPT ![c] = IF Stale(c) /\ ~Answered(@) THEN GenerationEnded(@) ELSE @]
  /\ todo' = todo \ {c}
  /\ UNCHANGED <<place, queue, order, lastOrder, clientVars, gen, dpc, snapshot, cur,
                 overlay, armed, queueEvent, effects>>

\* Foreign references go, the watcher is created and the runtime record
\* published; the control loop starts with process_v2_commands.
FinishRecovery ==
  /\ dpc = "recovering" /\ todo = {}
  /\ queue' = {c \in queue : ~Stale(c)}
  /\ queueEvent' = FALSE
  /\ dpc' = "scan"
  /\ UNCHANGED <<ctl, place, order, lastOrder, clientVars, gen, snapshot, todo, cur,
                 overlay, armed, effects>>

\* lock_until expires in a place where the error propagates: recovery of a
\* control, rejection of a cross-generation reference, or any quarantine.
LockWaitKillsDaemon ==
  /\ \/ /\ dpc = "recovering" /\ \E c \in todo : CallerHolds(c)
        /\ Exit("recovery contended")
     \/ /\ \/ dpc = "references" /\ \E c \in snapshot : Stale(c) /\ CallerHolds(c)
           \/ dpc = "quarantine" /\ ~AdmissionFree
           \/ dpc = "claimReference" /\ ~AdmissionFree /\ cur \cap Present = {}
        /\ Exit("claim contended")
  /\ UNCHANGED <<treeVars, clientVars, effects>>

-----------------------------------------------------------------------------
(* claim_next: the queue is listed first, then the controls.               *)

ScanQueue ==
  /\ dpc = "scan"
  /\ snapshot' = queue
  /\ dpc' = "references"
  /\ UNCHANGED <<treeVars, clientVars, gen, todo, cur, overlay, armed, queueEvent, effects>>

\* A reference to another generation: its command is rejected if still Open
\* (reject_queue_integrity_failure), then the reference is quarantined.
RejectStaleReference(c) ==
  /\ dpc = "references" /\ c \in snapshot /\ Stale(c)
  /\ ~CallerHolds(c)
  /\ ctl' = [ctl EXCEPT ![c] = IF place[c] = "controls" /\ IsOpen(@)
                               THEN Rejected(@, "QueueIntegrity") ELSE @]
  /\ cur' = {c}
  /\ dpc' = "quarantine"
  /\ UNCHANGED <<place, queue, order, lastOrder, clientVars, gen, snapshot, todo, overlay,
                 armed, queueEvent, effects>>

QuarantineReference ==
  /\ dpc = "quarantine" /\ AdmissionFree
  /\ queue' = queue \ cur
  /\ snapshot' = snapshot \ cur
  /\ cur' = {}
  /\ dpc' = "references"
  /\ UNCHANGED <<ctl, place, order, lastOrder, clientVars, gen, todo, overlay, armed,
                 queueEvent, effects>>

\* A control that is visible but not enqueued, and whose caller is gone.
AbandonedUnqueued(c) ==
  /\ c \in Present \ snapshot
  /\ ctl[c].publication_state = "VisibleUnqueued"
  /\ LeaseFree(c) /\ IsOpen(ctl[c]) /\ ~Answered(ctl[c])

\* A control that no listed reference leads to, read without its lock.
RefLess(c) ==
  /\ c \in Present
  /\ \/ ctl[c].publication_state = "Claimed"
     \/ ctl[c].publication_state = "Queued" /\ c \notin snapshot
  /\ ~Answered(ctl[c]) /\ Recoverable(ctl[c])

\* Mutant: the comparison of queue orders is swapped.
LatestFirst(S) == {c \in S : \A d \in S : order[d] <= order[c]}

Earliest(S) == {c \in S : \A d \in S : order[c] <= order[d]}

\* earliest_ref_less_control (the listing and its unlocked reads are one step:
\* admissions are serial, so a later read sees no other order), and the choice between it and the first
\* reference of the listing.
ScanControls ==
  LET refLess == Earliest({c \in Clients : RefLess(c)})
      first   == Earliest(snapshot)
      useRefLess == \E c \in refLess : \A d \in first : order[c] < order[d]
  IN
  /\ dpc = "references" /\ \A c \in snapshot : ~Stale(c)
  /\ ctl' = [c \in Clients |-> IF AbandonedUnqueued(c)
                               THEN CallerAbandoned(Rejected(ctl[c], "CallerEnded"))
                               ELSE ctl[c]]
  /\ cur' = IF useRefLess THEN refLess ELSE first
  /\ dpc' = IF useRefLess THEN "claimRefLess"
            ELSE IF first # {} THEN "claimReference" ELSE "collect"
  /\ UNCHANGED <<place, queue, order, lastOrder, clientVars, gen, snapshot, todo, overlay,
                 armed, queueEvent, effects>>

\* Nothing was claimed: the caller's loop ends and terminal commands are
\* collected (in one place twice, which collects no more than once).
ClaimNothing ==
  /\ dpc' = "collect" /\ cur' = {} /\ snapshot' = {}

\* The reference of a command whose control was already collected.
QuarantineDangling(c) ==
  /\ dpc = "claimReference" /\ c \in cur /\ place[c] # "controls" /\ AdmissionFree
  /\ queue' = queue \ {c}
  /\ ClaimNothing
  /\ UNCHANGED <<ctl, place, order, lastOrder, clientVars, gen, todo, overlay, armed,
                 queueEvent, effects>>

ClaimTimesOut(c) ==
  /\ dpc \in {"claimReference", "claimRefLess"} /\ c \in cur
  /\ place[c] = "controls" /\ CallerHolds(c)
  /\ ClaimNothing
  /\ UNCHANGED <<treeVars, clientVars, gen, todo, overlay, armed, queueEvent, effects>>

\* Claiming through the reference: an Open command is marked Claimed before
\* its reference is removed; a Committed one is handed over as it is.
ClaimReference(c) ==
  /\ dpc = "claimReference" /\ c \in cur /\ place[c] = "controls" /\ ~CallerHolds(c)
  /\ ctl[c].decision \notin {"Canceled", "Rejected"}
  /\ IF IsOpen(ctl[c])
     THEN /\ ctl' = [ctl EXCEPT ![c] = Claimed(@)]
          /\ dpc' = "unreferencing"
          /\ UNCHANGED queue
     ELSE /\ queue' = queue \ {c}
          /\ dpc' = "holding"
          /\ UNCHANGED ctl
  /\ snapshot' = {}
  /\ UNCHANGED <<place, order, lastOrder, clientVars, gen, todo, cur, overlay, armed,
                 queueEvent, effects>>

RemoveClaimedReference ==
  /\ dpc = "unreferencing"
  /\ queue' = queue \ cur
  /\ dpc' = "holding"
  /\ UNCHANGED <<ctl, place, order, lastOrder, clientVars, gen, snapshot, todo, cur,
                 overlay, armed, queueEvent, effects>>

DropDecidedReference(c) ==
  /\ dpc = "claimReference" /\ c \in cur /\ place[c] = "controls" /\ ~CallerHolds(c)
  /\ ctl[c].decision \in {"Canceled", "Rejected"}
  /\ queue' = queue \ {c}
  /\ ClaimNothing
  /\ UNCHANGED <<ctl, place, order, lastOrder, clientVars, gen, todo, overlay, armed,
                 queueEvent, effects>>

\* Claiming without a reference: the control is read again under its lock.
ClaimRefLess(c) ==
  /\ dpc = "claimRefLess" /\ c \in cur /\ ~CallerHolds(c)
  /\ ~Answered(ctl[c]) /\ Recoverable(ctl[c])
  /\ ctl' = [ctl EXCEPT ![c] = Claimed(@)]
  /\ dpc' = "holding" /\ snapshot' = {}
  /\ UNCHANGED <<place, queue, order, lastOrder, clientVars, gen, todo, cur, overlay,
                 armed, queueEvent, effects>>

RefLessDecided(c) ==
  /\ dpc = "claimRefLess" /\ c \in cur /\ ~CallerHolds(c)
  /\ Answered(ctl[c]) \/ ~Recoverable(ctl[c])
  /\ ClaimNothing
  /\ UNCHANGED <<treeVars, clientVars, gen, todo, overlay, armed, queueEvent, effects>>

-----------------------------------------------------------------------------
(* process_v2_commands: what the daemon does with a claimed command while  *)
(* it holds the command's decision lock.                                   *)

Visible == overlay \in SessionChoices

\* ensure_visible_overlay_can_accept_request refuses the request.
SessionConflict(c) ==
  /\ Visible
  /\ Request[c].session_file \notin {NoSession, overlay}

RejectConflict(c) ==
  /\ dpc = "holding" /\ c \in cur /\ IsOpen(ctl[c]) /\ SessionConflict(c)
  /\ ctl' = [ctl EXCEPT ![c] = Rejected(@, "SessionConflict")]
  /\ dpc' = "scan" /\ cur' = {}
  /\ UNCHANGED <<place, queue, order, lastOrder, clientVars, gen, snapshot, todo, overlay,
                 armed, queueEvent, effects>>

\* Mutant: commit does not check that the decision is still open.
CommitUnchecked(c) ==
  /\ dpc = "holding" /\ c \in cur /\ ~SessionConflict(c)
  /\ ctl' = [ctl EXCEPT ![c] = Committed(@, IF Visible THEN "HideReady" ELSE "StartAndShow")]
  /\ dpc' = "effect"
  /\ UNCHANGED <<place, queue, order, lastOrder, clientVars, gen, snapshot, todo, cur,
                 overlay, armed, queueEvent, effects>>

\* commit.  Past the authorization deadline it rejects the command and still
\* returns Ok, so the caller goes on to the effect.
Commit(c) ==
  /\ dpc = "holding" /\ c \in cur /\ IsOpen(ctl[c]) /\ ~SessionConflict(c)
  /\ ctl' = [ctl EXCEPT ![c] = IF clock[c] >= 1
                               THEN Rejected(@, "AuthorizationExpired")
                               ELSE Committed(@, IF Visible THEN "HideReady"
                                                            ELSE "StartAndShow")]
  /\ dpc' = "effect"
  /\ UNCHANGED <<place, queue, order, lastOrder, clientVars, gen, snapshot, todo, cur,
                 overlay, armed, queueEvent, effects>>

\* A claimed command that is no longer Open: an authorized effect is finalized
\* as indeterminate; reject and commit both refuse any other decision.
ClosedClaim(c) ==
  /\ dpc = "holding" /\ c \in cur /\ ~IsOpen(ctl[c])
  /\ IF IsAuthorized(ctl[c]) /\ ~SessionConflict(c)
     THEN /\ ctl' = [ctl EXCEPT ![c] = Finalized(@, FALSE)]
          /\ dpc' = "scan" /\ cur' = {}
          /\ UNCHANGED <<gen, snapshot, todo, overlay, armed, queueEvent>>
     ELSE /\ Exit("decision closed")
          /\ UNCHANGED ctl
  /\ UNCHANGED <<place, queue, order, lastOrder, clientVars, effects>>

Outcome(newOverlay, ok) ==
  /\ overlay' = newOverlay
  /\ dpc' = IF ok THEN "finalizeOk" ELSE "finalizeErr"
  /\ UNCHANGED <<treeVars, clientVars, gen, snapshot, todo, cur, armed, queueEvent>>

\* process_single_toggle: hide a visible overlay, or start a hidden one.  A
\* failed start begins a backoff.
Execute(c) ==
  /\ dpc = "effect" /\ c \in cur
  /\ effects' = [effects EXCEPT ![c] = @ + 1]
  /\ IF Visible
     THEN Outcome("Hidden", TRUE) \/ Outcome(overlay, FALSE)
     ELSE Outcome(Request[c].session_file, TRUE) \/ Outcome("BackingOff", FALSE)

\* During a backoff show_overlay returns Ok without starting anything.
SkipInBackoff ==
  /\ dpc = "effect" /\ overlay = "BackingOff"
  /\ Outcome(overlay, TRUE)
  /\ UNCHANGED effects

Finalize(c) ==
  /\ dpc \in {"finalizeOk", "finalizeErr"} /\ c \in cur
  /\ IF IsAuthorized(ctl[c])
     THEN /\ ctl' = [ctl EXCEPT ![c] = Finalized(@, dpc = "finalizeOk")]
          /\ dpc' = "scan" /\ cur' = {}
          /\ UNCHANGED <<gen, snapshot, todo, overlay, armed, queueEvent>>
     ELSE /\ Exit("not authorized")
          /\ UNCHANGED ctl
  /\ UNCHANGED <<place, queue, order, lastOrder, clientVars, effects>>

-----------------------------------------------------------------------------
(* collect_terminal, and the control loop around process_v2_commands.      *)

BeginCollect ==
  /\ dpc = "collect" /\ AdmissionFree
  /\ dpc' = "collecting" /\ todo' = Present
  /\ UNCHANGED <<treeVars, clientVars, gen, snapshot, cur, overlay, armed, queueEvent, effects>>

CollectTimesOut ==
  /\ dpc = "collect" /\ ~AdmissionFree
  /\ dpc' = "loop"
  /\ UNCHANGED <<treeVars, clientVars, gen, snapshot, todo, cur, overlay, armed, queueEvent,
                 effects>>

\* Lease and decision lock are tried, the record must be answered; a caller
\* still Waiting is marked Abandoned before its directory is removed.
VisitControl(c) ==
  /\ dpc = "collecting" /\ c \in todo
  /\ IF LeaseFree(c) /\ Answered(ctl[c])
     THEN /\ place' = [place EXCEPT ![c] = "collected"]
          /\ ctl' = [ctl EXCEPT ![c] = IF @.caller_disposition = "Waiting"
                                       THEN CallerAbandoned(@) ELSE @]
     ELSE UNCHANGED <<place, ctl>>
  /\ todo' = todo \ {c}
  /\ UNCHANGED <<queue, order, lastOrder, clientVars, gen, dpc, snapshot, cur, overlay,
                 armed, queueEvent, effects>>

EndCollect ==
  /\ dpc = "collecting" /\ todo = {}
  /\ dpc' = "loop"
  /\ UNCHANGED <<treeVars, clientVars, gen, snapshot, todo, cur, overlay, armed, queueEvent,
                 effects>>

\* Mutant: the deadline is not armed for answered commands.
NeedsMaintenanceOpen(c) ==
  /\ c \in Present
  /\ ctl[c].publication_state = "VisibleUnqueued" \/ Recoverable(ctl[c])

\* next_maintenance_deadline has a candidate for c.
NeedsMaintenance(c) ==
  /\ c \in Present
  /\ \/ Answered(ctl[c])
     \/ ctl[c].publication_state = "VisibleUnqueued"
     \/ Recoverable(ctl[c])

\* Top of the control loop: an exited overlay is noticed, a visibility intent
\* from a signal, tray or shortcut is served, the lifecycle deadline is armed.
LoopTop ==
  /\ dpc = "loop"
  /\ overlay' \in {overlay} \cup IF gen \notin LocalWakes THEN {}
                                 ELSE {NoSession, "BackingOff"} \cup
                                      (IF Visible THEN {"Hidden"} ELSE {})
  /\ armed' = {c \in Clients : NeedsMaintenance(c)}
  /\ dpc' = "idle"
  /\ UNCHANGED <<treeVars, clientVars, gen, snapshot, todo, cur, queueEvent, effects>>

\* The deadline armed for c has passed: its authorization deadline while it is
\* undecided and visible but not enqueued, a retry delay otherwise.
Due(c) ==
  /\ c \in armed
  /\ ~Answered(ctl[c]) /\ ctl[c].publication_state = "VisibleUnqueued" /\ c \notin queue
       => clock[c] >= 1

\* The deadline and the queue watcher each lead to process_v2_commands, the
\* deadline first; the watcher is drained before it does.
Wake ==
  /\ dpc = "idle"
  /\ IF \E c \in Clients : Due(c) THEN UNCHANGED queueEvent
                                  ELSE queueEvent /\ queueEvent' = FALSE
  /\ armed' = {}
  /\ dpc' = "scan"
  /\ UNCHANGED <<treeVars, clientVars, gen, snapshot, todo, cur, overlay, effects>>

\* Any other descriptor: a signal, tray or shortcut intent, or overlay exit.
OtherWake ==
  /\ dpc = "idle" /\ ~queueEvent /\ \A c \in Clients : ~Due(c)
  /\ dpc' = "loop" /\ armed' = {}
  /\ UNCHANGED <<treeVars, clientVars, gen, snapshot, todo, cur, overlay, queueEvent, effects>>

-----------------------------------------------------------------------------
ClientProgress(c) ==
  \/ Begin(c) \/ Stage(c) \/ MakeVisible(c) \/ WriteReference(c) \/ FinishPublication(c)
  \/ TakeResponse(c) \/ GiveUp(c) \/ WaitTimesOut(c)

ClientStep(c) == ClientProgress(c) \/ FailPublication(c) \/ ClientCrash(c) \/ Tick(c)

DaemonProgress ==
  \/ FinishRecovery \/ LockWaitKillsDaemon \/ ScanQueue \/ QuarantineReference
  \/ ScanControls \/ RemoveClaimedReference \/ SkipInBackoff
  \/ BeginCollect \/ CollectTimesOut \/ EndCollect \/ LoopTop \/ Wake
  \/ \E c \in Clients :
       \/ RecoverControl(c) \/ RejectStaleReference(c) \/ QuarantineDangling(c)
       \/ ClaimTimesOut(c) \/ ClaimReference(c) \/ DropDecidedReference(c)
       \/ ClaimRefLess(c) \/ RefLessDecided(c)
       \/ RejectConflict(c) \/ Commit(c) \/ ClosedClaim(c) \/ Execute(c) \/ Finalize(c)
       \/ VisitControl(c)

Next ==
  \/ \E c \in Clients : ClientStep(c)
  \/ DaemonProgress \/ OtherWake \/ Start \/ DaemonCrash

Spec == Init /\ [][Next]_vars

\* A live client keeps running and time passes; a live daemon keeps running
\* and is restarted while restarts remain.  Nothing has to crash or fail, and
\* nothing but the queue watcher and the armed deadline has to wake the daemon.
Fairness ==
  /\ \A c \in Clients : WF_vars(ClientProgress(c)) /\ WF_vars(Tick(c))
  /\ WF_vars(DaemonProgress) /\ WF_vars(Start)

FairSpec == Spec /\ Fairness

-----------------------------------------------------------------------------
(* Safety.                                                                 *)

\* Every control record on disk passes the validation that write_control and
\* read_control apply: no interleaving of client, daemon and recovery writes
\* produces a record that would make the next reader fail.
WellFormed == \A c \in Present : Validate(ctl[c])

\* A command is executed at most once over all claims, retries, lost
\* references, crashes and daemon generations.
AtMostOneEffect == \A c \in Clients : effects[c] <= 1

\* A decision that says "no effect" is true for ever: a canceled or rejected
\* command is never executed, before or after (except when commit rejected it
\* for its expired authorization, which the caller of commit ignores).
TruthfulRecord ==
  \A c \in Clients :
    \/ ctl[c].decision = "Canceled"
    \/ ctl[c].decision = "Rejected" /\ ctl[c].reason # "AuthorizationExpired"
    => effects[c] = 0

\* A caller whose publication failed before the queue reference existed was
\* told a definite failure: no claim path, with or without a reference, and
\* no later generation picks up what it left behind.
DefiniteFailure ==
  \A c \in Clients : answer[c] = "PublishFailed" => effects[c] = 0

\* While a caller waits, its control directory stays in place and nobody but
\* the caller closes its disposition: collection respects the caller lease.
LeaseProtects ==
  \A c \in Clients :
    cpc[c] = "waiting" => c \in Present /\ ctl[c].caller_disposition = "Waiting"

\* A response, once durable, is never replaced, and neither is its decision.
ResponseFinal ==
  [][\A c \in Clients :
       Answered(ctl[c]) => /\ ctl'[c].response = ctl[c].response
                           /\ ctl'[c].decision = ctl[c].decision]_ctl

\* Commits follow the queue order: when a command is committed no command
\* enqueued before it for the same daemon is still undecided.
FifoCommit ==
  [][\A c, d \in Clients :
       /\ IsOpen(ctl[c]) /\ ctl'[c].decision = "Committed"
       /\ order[d] < order[c] /\ d \in queue /\ d \in Present
       /\ ctl[d].target_daemon_token = ctl[c].target_daemon_token
       => ~IsOpen(ctl[d])]_ctl

-----------------------------------------------------------------------------
(* Implementation of the promise.                                          *)

RecordPhase(r) ==
  CASE r.decision = "Open"      -> "Open"
    [] r.decision = "Canceled"  -> "Canceled"
    [] r.decision = "Rejected"  -> IF r.reason = "AuthorizationExpired" THEN "Expired"
                                                                      ELSE "FailedNoEffect"
    [] r.decision = "Committed" -> IF Answered(r) THEN r.response ELSE "Authorized"

PhaseOf(c) == IF answer[c] = "PublishFailed" THEN "Withdrawn" ELSE RecordPhase(ctl[c])

Promise(c) == INSTANCE CommandPromise
                WITH phase <- PhaseOf(c), executed <- effects[c], answer <- answer[c]

\* The protocol keeps the promise of CommandPromise for every command.
\* A step of the system is, for each command, a step of the promise or none.
KeepsPromise ==
  /\ \A c \in Clients : Promise(c)!Init
  /\ [][\A c \in Clients : [Promise(c)!Next]_(Promise(c)!vars)]_vars

-----------------------------------------------------------------------------
(* Liveness.                                                               *)

\* Every caller that got as far as waiting is released, whatever happens to
\* the daemon: the response deadline bounds the wait.
EveryCallerReleased == \A c \in Clients : cpc[c] = "waiting" ~> cpc[c] = "gone"

DaemonStays == <>[](dpc \notin Down)

\* A daemon that stays up settles every admitted command, even one whose
\* caller died: its reference is consumed or its directory is collected.  The
\* watcher and the armed deadline together miss no wake-up that matters,
\* without a periodic tick.  (A reference may outlive its directory: nothing is
\* armed for it, it goes when a later command wakes the daemon.)
QueueDrains ==
  DaemonStays => \A c \in Clients :
                   (c \in queue /\ c \in Present) ~> ~(c \in queue /\ c \in Present)

\* A daemon that stays up collects every answered command whose caller is gone.
AnsweredCollected ==
  DaemonStays => \A c \in Clients :
                   (c \in Present /\ Answered(ctl[c]) /\ LeaseFree(c)) ~> c \notin Present

-----------------------------------------------------------------------------
(* Statements of the documentation and the code that the code breaks.      *)

\* "The control loop linearizes cancellation and effect commit under the
\* durable decision lock": an effect runs only for a committed decision.
EffectIsCommitted ==
  dpc = "effect" => \A c \in cur : IsAuthorized(ctl[c])

\* commit's assertion that its command is still Open: what claim_next hands
\* over is undecided or an effect to resume.
ClaimIsUndecided ==
  dpc = "holding" => \A c \in cur : Recoverable(ctl[c])

\* "Expected claim or collection lock contention defers work [...] instead of
\* terminating the daemon."
ContentionDefers == dpc # "claim contended"

\* Only the daemon generation a command targets executes it: "Restart recovery
\* rejects prior-generation open commands with a durable no-effect response".
OwnGenerationExecutes ==
  dpc = "effect" => \A c \in cur : ~Stale(c)

=============================================================================
