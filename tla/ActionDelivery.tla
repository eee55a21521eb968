--------------------------- MODULE ActionDelivery ---------------------------
(***************************************************************************)
(* The action journal of daemon protocol v2: the daemon publishes actions  *)
(* for the overlay, some on behalf of a client's command and some from its *)
(* own intents (tray, shortcuts); the overlay process claims them in       *)
(* order, applies them and reports.  A command's action lives in two       *)
(* files, its journal entry and the action status of its control record.   *)
(*                                                                         *)
(* Locks.  The journal lock is held by the overlay during a claim pass     *)
(* (Passing); the daemon's critical sections on the journal and every      *)
(* other section that writes once are one step.  The overlay never waits:  *)
(* where it finds a lock taken it defers.  Decision locks are held by a    *)
(* client that inspects its record and by the daemon while Owning.         *)
(***************************************************************************)
EXTENDS CommandRecord, Sequences

CONSTANTS Commands,   \* clients, each publishing one command with an action
          Intents,    \* actions asked of the daemon itself
          Off,        \* those that are LightDrawOff, which needs no hidden overlay
          MaxGen,     \* bound on daemon generations
          MaxChildren \* bound on overlay processes

Actions == Commands \cup Intents

ASSUME ActionsAssumption ==
  /\ Commands \cap Intents = {} /\ Off \subseteq Actions
  /\ MaxGen \in Nat /\ MaxChildren \in Nat

VARIABLES
  \* the v2 command tree
  ctl,       \* ctl[c] : content of c's control record
  controls,  \* commands whose control directory exists
  queue,     \* queue references, in order
  \* the journal
  journal,   \* every action ever published, in action order
  entry,     \* entry[a] : state of a's journal record, "none" without a record
  born,      \* born[a]  : generation whose token the record carries
  \* clients
  cpc,       \* cpc[c] : program counter
  \* the daemon
  gen,       \* generation; stands for its instance token
  dpc,       \* program counter; "exited" removed the runtime record, "down" did not
  cur,       \* the action at hand, {} or a singleton
  asked,     \* overlay_action_intents: not yet claimed
  kept,      \* pending_action_admission_retry
  batch,     \* claimed and not yet admitted
  offered,   \* admitted and not yet delivered
  visible,   \* overlay_state
  backoff,   \* a failed start forbids the next one
  \* the overlay
  opc,       \* program counter, "none" without a process
  at,        \* position of the claim pass in the journal
  fin,       \* the claimed action, from its claim to its collection
  sig,       \* SIGUSR2 is pending
  retry,     \* durable_action_retry_at is set
  children,  \* overlay processes started so far
  \* history
  applied    \* applied[a] : how many times a was applied

treeVars    == <<ctl, controls, queue>>
journalVars == <<journal, entry, born>>
intentVars  == <<asked, kept, batch, offered>>
viewVars    == <<visible, backoff>>
overlayVars == <<opc, at, fin, sig, retry, children>>
vars == <<treeVars, journalVars, cpc, gen, dpc, cur, intentVars, viewVars, overlayVars, applied>>

Gone      == {"down", "exited"}
Owning    == {"holding", "committing"}
Journaling == {"preparing", "relocking", "retracting", "abandoning", "removing", "admitting"}
DaemonPCs == Gone \cup Owning \cup Journaling
               \cup {"loop", "rewriting", "starting", "signalling", "finishing", "delivering"}
Passing   == {"pass", "claimed", "unlink"}
OverlayPCs == Passing \cup {"none", "idle", "scan", "apply", "record", "report", "drop"}
Terminal  == {"Applied", "Abandoned", "Indeterminate"}
EntryStates == {"none", "Prepared", "Eligible", "Claimed"} \cup Terminal

TypeOK ==
  /\ ctl \in [Commands -> Controls] /\ controls \subseteq Commands
  /\ queue \in Seq(Commands) /\ journal \in Seq(Actions)
  /\ entry \in [Actions -> EntryStates] /\ born \in [Actions -> Nat]
  /\ cpc \in [Commands -> {"idle", "waiting", "deciding", "gone"}]
  /\ gen \in Nat /\ dpc \in DaemonPCs /\ cur \in SUBSET Actions
  /\ \A s \in {asked, kept, batch, offered} : s \in Seq(Intents)
  /\ visible \in BOOLEAN /\ backoff \in BOOLEAN
  /\ opc \in OverlayPCs /\ at \in Nat /\ fin \in SUBSET Actions
  /\ sig \in BOOLEAN /\ retry \in BOOLEAN /\ children \in Nat
  /\ applied \in [Actions -> Nat]

Init ==
  /\ ctl = [c \in Commands |-> NewControl([overlay_action |-> TRUE, session_file |-> NoSession], 0)]
  /\ controls = {} /\ queue = <<>> /\ journal = <<>>
  /\ entry = [a \in Actions |-> "none"] /\ born = [a \in Actions |-> 0]
  /\ cpc = [c \in Commands |-> "idle"]
  /\ gen = 0 /\ dpc = "down" /\ cur = {}
  /\ asked = <<>> /\ kept = <<>> /\ batch = <<>> /\ offered = <<>>
  /\ visible = FALSE /\ backoff = FALSE
  /\ opc = "none" /\ at = 0 /\ fin = {} /\ sig = FALSE /\ retry = FALSE /\ children = 0
  /\ applied = [a \in Actions |-> 0]

-----------------------------------------------------------------------------
(* Locks and updates.                                                      *)

DecisionFree(c) == cpc[c] # "deciding" /\ ~(dpc \in Owning /\ c \in cur)
JournalFree     == opc \notin Passing

Record(c, r)  == ctl' = [ctl EXCEPT ![c] = r]
Mark(a, s)    == entry' = [entry EXCEPT ![a] = s]
Abandonable(a) == entry[a] \in {"Prepared", "Eligible"}

Publish(a, state) ==
  /\ journal' = Append(journal, a) /\ Mark(a, state) /\ born' = [born EXCEPT ![a] = gen]

-----------------------------------------------------------------------------
(* Clients: publication and the polling wait, whose locked part is a state *)
(* of its own.  The stages of a publication are in CommandQueue.           *)

PublishCommand(c) ==
  /\ cpc[c] = "idle" /\ dpc \notin Gone
  /\ Record(c, Queued(NewControl(ctl[c].request, gen)))
  /\ controls' = controls \cup {c} /\ queue' = Append(queue, c)
  /\ cpc' = [cpc EXCEPT ![c] = "waiting"]
  /\ UNCHANGED <<journalVars, gen, dpc, cur, intentVars, viewVars, overlayVars, applied>>

Inspect(c) ==
  /\ cpc[c] = "waiting" /\ DecisionFree(c)
  /\ cpc' = [cpc EXCEPT ![c] = "deciding"]
  /\ UNCHANGED <<treeVars, journalVars, gen, dpc, cur, intentVars, viewVars, overlayVars, applied>>

\* Not answered and the response deadline is ahead.
PollAgain(c) ==
  /\ cpc[c] = "deciding" /\ ~Answered(ctl[c])
  /\ cpc' = [cpc EXCEPT ![c] = "waiting"]
  /\ UNCHANGED <<treeVars, journalVars, gen, dpc, cur, intentVars, viewVars, overlayVars, applied>>

\* The response is taken, or the response deadline has passed.
Conclude(c) ==
  /\ cpc[c] = "deciding"
  /\ Record(c, CASE Answered(ctl[c]) -> Acknowledged(ctl[c])
                 [] IsOpen(ctl[c])   -> Canceled(ctl[c])
                 [] OTHER            -> CallerAbandoned(ctl[c]))
  /\ cpc' = [cpc EXCEPT ![c] = "gone"]
  /\ UNCHANGED <<controls, queue, journalVars, gen, dpc, cur, intentVars, viewVars, overlayVars,
                 applied>>

ClientCrash(c) ==
  /\ cpc[c] \in {"waiting", "deciding"}
  /\ cpc' = [cpc EXCEPT ![c] = "gone"]
  /\ UNCHANGED <<treeVars, journalVars, gen, dpc, cur, intentVars, viewVars, overlayVars, applied>>

-----------------------------------------------------------------------------
(* The daemon process.                                                     *)

\* The next overlay starts with nothing of the previous one's memory.
NoOverlay ==
  /\ opc' = "none" /\ at' = 0 /\ fin' = {} /\ sig' = FALSE /\ retry' = FALSE
  /\ UNCHANGED children

\* Stale children are gone, every unanswered record is answered and the queue
\* is emptied before the runtime record appears.
Start ==
  /\ dpc \in Gone /\ gen < MaxGen /\ opc = "none"
  /\ \A c \in controls : DecisionFree(c)
  /\ gen' = gen + 1 /\ dpc' = "loop" /\ cur' = {}
  /\ ctl' = [c \in Commands |-> IF c \in controls /\ ~Answered(ctl[c])
                                  THEN GenerationEnded(ctl[c]) ELSE ctl[c]]
  /\ queue' = <<>>
  /\ asked' = <<>> /\ kept' = <<>> /\ batch' = <<>> /\ offered' = <<>>
  /\ visible' = FALSE /\ backoff' = FALSE
  /\ UNCHANGED <<controls, journalVars, cpc, overlayVars, applied>>

DaemonCrash ==
  /\ dpc \notin Gone /\ dpc' = "down"
  /\ UNCHANGED <<treeVars, journalVars, cpc, gen, cur, intentVars, viewVars, overlayVars, applied>>

Quit ==
  /\ dpc = "loop" /\ dpc' = "exited" /\ visible' = FALSE /\ NoOverlay
  /\ UNCHANGED <<treeVars, journalVars, cpc, gen, cur, intentVars, backoff, applied>>

\* The control loop ended with an error: the runtime record goes first.
Fails == dpc' = "exited" /\ UNCHANGED <<treeVars, journalVars>>

\* Tray, shortcuts and signals.
Ask(i) ==
  /\ dpc \notin Gone /\ born[i] = 0
  /\ \A s \in {asked, kept, batch, offered} : \A n \in DOMAIN s : s[n] # i
  /\ asked' = Append(asked, i)
  /\ UNCHANGED <<treeVars, journalVars, cpc, gen, dpc, cur, kept, batch, offered, viewVars,
                 overlayVars, applied>>

LocalHide ==
  /\ dpc = "loop" /\ visible /\ visible' = FALSE /\ NoOverlay
  /\ UNCHANGED <<treeVars, journalVars, cpc, gen, dpc, cur, intentVars, backoff, applied>>

NoticeExit ==
  /\ dpc = "loop" /\ visible /\ opc = "none" /\ visible' = FALSE
  /\ UNCHANGED <<treeVars, journalVars, cpc, gen, dpc, cur, intentVars, backoff, overlayVars,
                 applied>>

BackoffEnds ==
  /\ backoff /\ backoff' = FALSE
  /\ UNCHANGED <<treeVars, journalVars, cpc, gen, dpc, cur, intentVars, visible, overlayVars,
                 applied>>

-----------------------------------------------------------------------------
(* Commands: claim, prepare, commit.                                       *)

Claim(c) ==
  /\ dpc = "loop" /\ queue # <<>> /\ c = Head(queue)
  /\ c \in controls /\ DecisionFree(c) /\ IsOpen(ctl[c])
  /\ Record(c, Claimed(ctl[c])) /\ queue' = Tail(queue)
  /\ dpc' = "holding" /\ cur' = {c}
  /\ UNCHANGED <<controls, journalVars, cpc, gen, intentVars, viewVars, overlayVars, applied>>

\* The reference of a canceled or already collected command.
DropReference ==
  /\ dpc = "loop" /\ queue # <<>>
  /\ LET c == Head(queue)
     IN  c \in controls => DecisionFree(c) /\ ctl[c].decision = "Canceled"
  /\ queue' = Tail(queue)
  /\ UNCHANGED <<ctl, controls, journalVars, cpc, gen, dpc, cur, intentVars, viewVars,
                 overlayVars, applied>>

Collect(c) ==
  /\ dpc = "loop" /\ c \in controls /\ Answered(ctl[c])
  /\ cpc[c] = "gone"
  /\ controls' = controls \ {c}
  /\ Record(c, IF ctl[c].caller_disposition = "Waiting" THEN CallerAbandoned(ctl[c]) ELSE ctl[c])
  /\ UNCHANGED <<queue, journalVars, cpc, gen, dpc, cur, intentVars, viewVars, overlayVars,
                 applied>>

\* Whether the authorization deadline has passed is left open.
Decide(c, kind) ==
  \/ Record(c, Committed(ctl[c], kind))
  \/ Record(c, Rejected(ctl[c], "AuthorizationExpired"))

\* Switching the light off when nothing is shown.
CommitNoOp(c) ==
  /\ dpc = "holding" /\ c \in cur /\ c \in Off /\ ~visible
  /\ Decide(c, "NoOp")
  /\ dpc' = "loop" /\ cur' = {}
  /\ UNCHANGED <<controls, queue, journalVars, cpc, gen, intentVars, viewVars, overlayVars,
                 applied>>

\* prepare_action gives up the decision lock before it takes the journal's.
ReleaseToPrepare(c) ==
  /\ dpc = "holding" /\ c \in cur /\ ~(c \in Off /\ ~visible)
  /\ dpc' = "preparing"
  /\ UNCHANGED <<treeVars, journalVars, cpc, gen, cur, intentVars, viewVars, overlayVars, applied>>

PublishPrepared(c) ==
  /\ dpc = "preparing" /\ c \in cur /\ JournalFree
  /\ Publish(c, "Prepared") /\ dpc' = "relocking"
  /\ UNCHANGED <<treeVars, cpc, gen, cur, intentVars, viewVars, overlayVars, applied>>

\* Meanwhile the client may have canceled; nothing else can have changed.
Relock(c) ==
  /\ dpc = "relocking" /\ c \in cur /\ DecisionFree(c)
  /\ IF IsOpen(ctl[c])
       THEN Record(c, WithAction(ctl[c], "Prepared")) /\ dpc' = "committing"
       ELSE dpc' = "retracting" /\ UNCHANGED ctl
  /\ UNCHANGED <<controls, queue, journalVars, cpc, gen, cur, intentVars, viewVars, overlayVars,
                 applied>>

\* The authorization deadline passes while the client holds the lock.
RelockExpires(c) ==
  /\ dpc = "relocking" /\ c \in cur /\ cpc[c] = "deciding" /\ JournalFree
  /\ IF Abandonable(c) THEN Mark(c, "Abandoned") ELSE UNCHANGED entry
  /\ dpc' = "exited"
  /\ UNCHANGED <<treeVars, journal, born, cpc, gen, cur, intentVars, viewVars, overlayVars,
                 applied>>

\* Canceled meanwhile: the entry first, then the record.  The overlay may have
\* come first with either, which the daemon does not survive.
Retract(c) ==
  /\ dpc = "retracting" /\ c \in cur /\ JournalFree
  /\ IF Abandonable(c)
       THEN Mark(c, "Abandoned") /\ dpc' = "rewriting" /\ UNCHANGED <<treeVars, journal, born>>
       ELSE Fails
  /\ UNCHANGED <<cpc, gen, cur, intentVars, viewVars, overlayVars, applied>>

\* A lock that is not had within 200 ms ends the daemon like a record that changed.
RewriteCanceled(c) ==
  /\ dpc = "rewriting" /\ c \in cur
  /\ IF DecisionFree(c) /\ ctl[c].decision = "Canceled" /\ ctl[c].action_status = "None"
       THEN /\ Record(c, WithAction(ctl[c], "Abandoned")) /\ dpc' = "loop"
            /\ UNCHANGED <<controls, queue, journalVars>>
       ELSE Fails
  /\ cur' = {}
  /\ UNCHANGED <<cpc, gen, intentVars, viewVars, overlayVars, applied>>

\* A rejected command goes on like a committed one: the entry it leaves is
\* for the overlay to clear.
Commit(c) ==
  /\ dpc = "committing" /\ c \in cur /\ IsOpen(ctl[c])
  /\ Decide(c, IF visible THEN "DeliverReadyAction" ELSE "StartAndDeliverAction")
  /\ dpc' = IF visible THEN "signalling" ELSE "starting"
  /\ UNCHANGED <<controls, queue, journalVars, cpc, gen, cur, intentVars, viewVars, overlayVars,
                 applied>>

-----------------------------------------------------------------------------
(* Delivery: start or wake the overlay, or abandon.                        *)

\* What follows a delivery.
Continue(a) == dpc' = IF a \in Commands THEN "loop" ELSE "delivering"

\* The overlay process is up and its first scan is due.
StartOk(a) ==
  /\ dpc = "starting" /\ a \in cur /\ ~backoff /\ opc = "none" /\ children < MaxChildren
  /\ opc' = "idle" /\ retry' = TRUE /\ children' = children + 1
  /\ visible' = TRUE /\ dpc' = "signalling"
  /\ UNCHANGED <<treeVars, journalVars, cpc, gen, cur, intentVars, backoff, at, fin, sig, applied>>

StartFails(a) ==
  /\ dpc = "starting" /\ a \in cur /\ ~backoff
  /\ backoff' = TRUE /\ dpc' = "abandoning"
  /\ UNCHANGED <<treeVars, journalVars, cpc, gen, cur, intentVars, visible, overlayVars, applied>>

\* show_overlay returns Ok while a failed start is recent, and nothing is
\* signalled to a hidden overlay.
SkipStart(a) ==
  /\ dpc = "starting" /\ a \in cur /\ backoff
  /\ Continue(a) /\ cur' = {}
  /\ UNCHANGED <<treeVars, journalVars, cpc, gen, intentVars, viewVars, overlayVars, applied>>

\* A signal to a process that ended and was not reaped is delivered to nobody.
SignalOk(a) ==
  /\ dpc = "signalling" /\ a \in cur
  /\ sig' = (opc # "none") /\ Continue(a) /\ cur' = {}
  /\ UNCHANGED <<treeVars, journalVars, cpc, gen, intentVars, viewVars, opc, at, fin, retry,
                 children, applied>>

SignalFails(a) ==
  /\ dpc = "signalling" /\ a \in cur
  /\ dpc' = "abandoning"
  /\ UNCHANGED <<treeVars, journalVars, cpc, gen, cur, intentVars, viewVars, overlayVars, applied>>

\* abandon_command: entry, record, removal, each under its own lock.
AbandonEntry(c) ==
  /\ dpc = "abandoning" /\ c \in cur \cap Commands /\ JournalFree
  /\ IF Abandonable(c)
       THEN Mark(c, "Abandoned") /\ dpc' = "finishing" /\ UNCHANGED <<treeVars, journal, born>>
       ELSE Fails
  /\ UNCHANGED <<cpc, gen, cur, intentVars, viewVars, overlayVars, applied>>

FinishAbandoned(c) ==
  /\ dpc = "finishing" /\ c \in cur
  /\ IF DecisionFree(c) /\ c \in controls /\ Finishable(ctl[c], "NoEffect")
       THEN /\ Record(c, ActionFinished(ctl[c], "NoEffect")) /\ dpc' = "removing"
            /\ UNCHANGED <<controls, queue, journalVars>>
       ELSE Fails
  /\ UNCHANGED <<cpc, gen, cur, intentVars, viewVars, overlayVars, applied>>

\* A failed start is logged; a failed wake-up, of a visible overlay, ends the
\* control loop.
RemoveAbandoned(c) ==
  /\ dpc = "removing" /\ c \in cur /\ JournalFree
  /\ IF entry[c] = "Abandoned"
       THEN /\ Mark(c, "none") /\ dpc' = IF visible THEN "exited" ELSE "loop"
            /\ UNCHANGED <<treeVars, journal, born>>
       ELSE Fails
  /\ cur' = {}
  /\ UNCHANGED <<cpc, gen, intentVars, viewVars, overlayVars, applied>>

AbandonIntent(i) ==
  /\ dpc = "abandoning" /\ i \in cur \cap Intents /\ JournalFree
  /\ IF Abandonable(i) THEN Mark(i, "Abandoned") ELSE UNCHANGED entry
  /\ dpc' = "delivering" /\ cur' = {}
  /\ UNCHANGED <<treeVars, journal, born, cpc, gen, intentVars, viewVars, overlayVars, applied>>

-----------------------------------------------------------------------------
(* Intents: the whole batch is admitted before any of it is delivered.     *)

BeginBatch ==
  /\ dpc = "loop"
  /\ IF kept # <<>> THEN batch' = kept /\ kept' = <<>> /\ UNCHANGED asked
                    ELSE asked # <<>> /\ batch' = asked /\ asked' = <<>> /\ UNCHANGED kept
  /\ dpc' = "admitting"
  /\ UNCHANGED <<treeVars, journalVars, cpc, gen, cur, offered, viewVars, overlayVars, applied>>

WillBeVisible == visible \/ offered # <<>>

SkipOff ==
  /\ dpc = "admitting" /\ batch # <<>> /\ Head(batch) \in Off /\ ~WillBeVisible
  /\ batch' = Tail(batch)
  /\ UNCHANGED <<treeVars, journalVars, cpc, gen, dpc, cur, asked, kept, offered, viewVars,
                 overlayVars, applied>>

Admit ==
  /\ dpc = "admitting" /\ batch # <<>> /\ (Head(batch) \in Off => WillBeVisible) /\ JournalFree
  /\ Publish(Head(batch), "Eligible")
  /\ batch' = Tail(batch) /\ offered' = Append(offered, Head(batch))
  /\ UNCHANGED <<treeVars, cpc, gen, dpc, cur, asked, kept, viewVars, overlayVars, applied>>

\* The rest of the batch waits for a retry.
AdmitFails ==
  /\ dpc = "admitting" /\ batch # <<>> /\ (Head(batch) \in Off => WillBeVisible)
  /\ kept' = batch /\ batch' = <<>>
  /\ UNCHANGED <<treeVars, journalVars, cpc, gen, dpc, cur, asked, offered, viewVars, overlayVars,
                 applied>>

Admitted ==
  /\ dpc = "admitting" /\ batch = <<>> /\ dpc' = "delivering"
  /\ UNCHANGED <<treeVars, journalVars, cpc, gen, cur, intentVars, viewVars, overlayVars, applied>>

Offer ==
  /\ dpc = "delivering" /\ offered # <<>>
  /\ cur' = {Head(offered)} /\ offered' = Tail(offered)
  /\ dpc' = IF visible THEN "signalling"
            ELSE IF Head(offered) \in Off THEN "abandoning" ELSE "starting"
  /\ UNCHANGED <<treeVars, journalVars, cpc, gen, asked, kept, batch, viewVars, overlayVars,
                 applied>>

EndBatch ==
  /\ dpc = "delivering" /\ offered = <<>> /\ dpc' = "loop"
  /\ UNCHANGED <<treeVars, journalVars, cpc, gen, cur, intentVars, viewVars, overlayVars, applied>>

-----------------------------------------------------------------------------
(* The overlay: process_tray_action.                                       *)

\* What the overlay leaves alone.
OverlayFrame == UNCHANGED <<controls, queue, journal, born, cpc, gen, dpc, cur, intentVars,
                            viewVars, children>>

\* A daemon step on the journal may hold its lock at that moment.
JournalBusy == dpc \in Journaling

\* Mutant: a deferral sets no retry time.
DeferForGood(held) == opc' = "idle" /\ at' = 0 /\ fin' = held /\ UNCHANGED retry

\* durable_action_retry_at is set; fin keeps a claimed action or is empty.
Defer(held) == opc' = "idle" /\ at' = 0 /\ retry' = TRUE /\ fin' = held

\* A finish deferred earlier is resumed before the next claim.
Wake ==
  /\ opc = "idle" /\ (sig \/ retry)
  /\ sig' = FALSE /\ retry' = FALSE
  /\ opc' = IF fin = {} THEN "scan"
            ELSE IF \E a \in fin : entry[a] = "Claimed" THEN "record" ELSE "report"
  /\ UNCHANGED <<ctl, entry, at, fin, applied>> /\ OverlayFrame

\* Without a runtime record there is nothing to claim.
Scan ==
  /\ opc = "scan"
  /\ IF dpc = "exited" THEN opc' = "idle" /\ UNCHANGED at ELSE opc' = "pass" /\ at' = 1
  /\ UNCHANGED <<ctl, entry, fin, sig, retry, applied>> /\ OverlayFrame

ScanDefers ==
  /\ opc = "scan" /\ JournalBusy
  /\ Defer({}) /\ UNCHANGED <<ctl, entry, sig, applied>> /\ OverlayFrame

\* Mutant: the records are visited as the directory lists them.
AtEntryUnsorted(a) == entry[a] # "none" /\ \E n \in DOMAIN journal : journal[n] = a

\* The entries are visited in action order.
AtEntry(a) ==
  \E n \in at..Len(journal) : /\ journal[n] = a /\ entry[a] # "none"
                             /\ \A m \in at..(n - 1) : entry[journal[m]] = "none"
Visits(a) == opc = "pass" /\ AtEntry(a)
StepOver(a) == at' = 1 + CHOOSE n \in DOMAIN journal : journal[n] = a

Own(a) == born[a] = gen

EndPass == opc' = "idle" /\ at' = 0 /\ UNCHANGED <<fin, retry>>

PassEnds ==
  /\ opc = "pass" /\ \A n \in at..Len(journal) : entry[journal[n]] = "none"
  /\ EndPass /\ UNCHANGED <<ctl, entry, sig, applied>> /\ OverlayFrame

SkipForeign(a) ==
  /\ Visits(a) /\ ~Own(a)
  /\ Mark(a, CASE entry[a] \in Terminal -> "none"
              [] entry[a] = "Claimed"   -> "Indeterminate"
              [] OTHER                  -> "Abandoned")
  /\ StepOver(a)
  /\ UNCHANGED <<ctl, opc, fin, sig, retry, applied>> /\ OverlayFrame

\* Mutant: a claim left by an earlier overlay process is taken up again.
ReplayClaimed(a) ==
  /\ Visits(a) /\ Own(a) /\ entry[a] = "Claimed"
  /\ opc' = "apply" /\ at' = 0 /\ fin' = {a}
  /\ UNCHANGED <<ctl, entry, sig, retry, applied>> /\ OverlayFrame

\* A claim left by an earlier overlay process is never replayed.
CloseClaimed(a) ==
  /\ Visits(a) /\ Own(a) /\ entry[a] = "Claimed"
  /\ Mark(a, "Indeterminate")
  /\ UNCHANGED <<ctl, opc, at, fin, sig, retry, applied>> /\ OverlayFrame

\* The claimed entry is written and the journal unlocked.
Take(a) == Mark(a, "Claimed") /\ opc' = "apply" /\ at' = 0 /\ fin' = {a}

ClaimIntent(a) ==
  /\ Visits(a) /\ Own(a) /\ a \in Intents /\ entry[a] = "Eligible"
  /\ Take(a) /\ UNCHANGED <<ctl, sig, retry, applied>> /\ OverlayFrame

Undelivered(c) == Visits(c) /\ Own(c) /\ c \in Commands /\ entry[c] = "Prepared"
Takeable(r)    == IsAuthorized(r) /\ r.action_status \in {"Eligible", "Claimed"}
Barrier(r)     == IsOpen(r) /\ r.action_status \in {"None", "Prepared"}
Refused(r)     == r.decision \in {"Canceled", "Rejected"}

\* The record says claimed before the entry does.
ClaimCommand(c) ==
  /\ Undelivered(c) /\ c \in controls /\ DecisionFree(c) /\ Takeable(ctl[c])
  /\ Record(c, WithAction(ctl[c], "Claimed")) /\ opc' = "claimed"
  /\ UNCHANGED <<entry, at, fin, sig, retry, applied>> /\ OverlayFrame

TakeCommand(c) ==
  /\ opc = "claimed" /\ AtEntry(c)
  /\ Take(c) /\ UNCHANGED <<ctl, sig, retry, applied>> /\ OverlayFrame

\* An undecided command holds back everything after it; the daemon signals
\* once it has decided.
MeetBarrier(c) ==
  /\ Undelivered(c) /\ c \in controls /\ DecisionFree(c) /\ Barrier(ctl[c])
  /\ EndPass /\ UNCHANGED <<ctl, entry, sig, applied>> /\ OverlayFrame

AbandonRefused(c) ==
  /\ Undelivered(c) /\ c \in controls /\ DecisionFree(c) /\ Refused(ctl[c])
  /\ Mark(c, "Abandoned")
  /\ UNCHANGED <<ctl, opc, at, fin, sig, retry, applied>> /\ OverlayFrame

ResultOf(state) == IF state = "Abandoned" THEN "NoEffect" ELSE state
Settled(c)      == Visits(c) /\ Own(c) /\ c \in Commands /\ entry[c] \in Terminal

\* A terminal entry is reported to the command before it goes.
Settle(c) ==
  /\ Settled(c)
  /\ c \in controls /\ DecisionFree(c) /\ Finishable(ctl[c], ResultOf(entry[c]))
  /\ Record(c, ActionFinished(ctl[c], ResultOf(entry[c]))) /\ opc' = "unlink"
  /\ UNCHANGED <<entry, at, fin, sig, retry, applied>> /\ OverlayFrame

Unlink(a) ==
  /\ \/ opc = "unlink" /\ a \in Commands
     \/ opc = "pass" /\ a \in Intents /\ Own(a) /\ entry[a] \in Terminal
  /\ AtEntry(a)
  /\ Mark(a, "none") /\ opc' = "pass"
  /\ UNCHANGED <<ctl, at, fin, sig, retry, applied>> /\ OverlayFrame

PassDefers(c) ==
  /\ Undelivered(c) \/ Settled(c)
  /\ c \in controls /\ ~DecisionFree(c)
  /\ Defer({}) /\ UNCHANGED <<ctl, entry, sig, applied>> /\ OverlayFrame

\* The record is missing or does not fit the entry.  The error is logged and
\* no retry is set.
PassFails(c) ==
  /\ \/ (Undelivered(c) \/ Settled(c)) /\ c \notin controls
     \/ /\ c \in controls /\ DecisionFree(c)
        /\ \/ Undelivered(c) /\ ~(Takeable(ctl[c]) \/ Barrier(ctl[c]) \/ Refused(ctl[c]))
           \/ Settled(c) /\ ~Finishable(ctl[c], ResultOf(entry[c]))
  /\ EndPass /\ UNCHANGED <<ctl, entry, sig, applied>> /\ OverlayFrame

Apply(a) ==
  /\ opc = "apply" /\ a \in fin
  /\ applied' = [applied EXCEPT ![a] = @ + 1] /\ opc' = "record"
  /\ UNCHANGED <<ctl, entry, at, fin, sig, retry>> /\ OverlayFrame

\* Mutant: the entry goes without a report to the command.
RecordUnreported(a) ==
  /\ opc = "record" /\ a \in fin /\ entry[a] = "Claimed"
  /\ Mark(a, "Applied") /\ opc' = "drop"
  /\ UNCHANGED <<ctl, at, fin, sig, retry, applied>> /\ OverlayFrame

RecordApplied(a) ==
  /\ opc = "record" /\ a \in fin /\ entry[a] = "Claimed"
  /\ Mark(a, "Applied") /\ opc' = IF a \in Commands THEN "report" ELSE "drop"
  /\ UNCHANGED <<ctl, at, fin, sig, retry, applied>> /\ OverlayFrame

Reportable(c) == c \in controls /\ Finishable(ctl[c], "Applied")

Report(c) ==
  /\ opc = "report" /\ c \in fin \cap Commands /\ DecisionFree(c) /\ Reportable(c)
  /\ Record(c, ActionFinished(ctl[c], "Applied")) /\ opc' = "drop"
  /\ UNCHANGED <<entry, at, fin, sig, retry, applied>> /\ OverlayFrame

\* The action in hand is forgotten; its entry is left to the next claim pass.
ReportFails(c) ==
  /\ opc = "report" /\ c \in fin \cap Commands
  /\ c \in controls => DecisionFree(c) /\ ~Reportable(c)
  /\ Defer({}) /\ UNCHANGED <<ctl, entry, sig, applied>> /\ OverlayFrame

ReportIntent(i) ==
  /\ opc = "report" /\ i \in fin \cap Intents
  /\ opc' = "drop"
  /\ UNCHANGED <<ctl, entry, at, fin, sig, retry, applied>> /\ OverlayFrame

DropEntry(a) ==
  /\ opc = "drop" /\ a \in fin /\ entry[a] = "Applied"
  /\ Mark(a, "none") /\ opc' = "scan" /\ fin' = {}
  /\ UNCHANGED <<ctl, at, sig, retry, applied>> /\ OverlayFrame

FinishDefers(a) ==
  /\ a \in fin
  /\ \/ opc \in {"record", "drop"} /\ JournalBusy
     \/ opc = "report" /\ a \in controls /\ ~DecisionFree(a)
  /\ Defer({a}) /\ UNCHANGED <<ctl, entry, sig, applied>> /\ OverlayFrame

\* Exit, crash or termination, at any step.
OverlayEnd ==
  /\ opc # "none" /\ NoOverlay
  /\ UNCHANGED <<treeVars, journalVars, cpc, gen, dpc, cur, intentVars, viewVars, applied>>

-----------------------------------------------------------------------------
(* Specification.                                                          *)

Client(c) == Inspect(c) \/ PollAgain(c) \/ Conclude(c)

DaemonCommand(c) ==
  \/ Claim(c) \/ Collect(c) \/ CommitNoOp(c) \/ ReleaseToPrepare(c) \/ PublishPrepared(c)
  \/ Relock(c) \/ RelockExpires(c) \/ Retract(c) \/ RewriteCanceled(c) \/ Commit(c)
  \/ AbandonEntry(c) \/ FinishAbandoned(c) \/ RemoveAbandoned(c)

Delivery(a) == StartOk(a) \/ StartFails(a) \/ SkipStart(a) \/ SignalOk(a) \/ SignalFails(a)

Batch == \/ SkipOff \/ Admit \/ AdmitFails \/ Admitted \/ Offer \/ EndBatch

\* A command or a batch, once begun, runs to its end.
DaemonStep ==
  \/ dpc # "loop" /\ \E c \in Commands : DaemonCommand(c)
  \/ \E a \in Actions : Delivery(a)
  \/ \E i \in Intents : AbandonIntent(i)
  \/ Batch

OverlayEntry(a) ==
  \/ SkipForeign(a) \/ CloseClaimed(a) \/ ClaimIntent(a) \/ Unlink(a) \/ Apply(a)
  \/ RecordApplied(a) \/ DropEntry(a) \/ FinishDefers(a)

OverlayCommand(c) ==
  \/ ClaimCommand(c) \/ TakeCommand(c) \/ MeetBarrier(c) \/ AbandonRefused(c) \/ Settle(c)
  \/ PassDefers(c) \/ PassFails(c) \/ Report(c) \/ ReportFails(c)

OverlayStep ==
  \/ Wake \/ Scan \/ ScanDefers \/ PassEnds
  \/ \E a \in Actions : OverlayEntry(a)
  \/ \E c \in Commands : OverlayCommand(c)
  \/ \E i \in Intents : ReportIntent(i)

Next ==
  \/ \E c \in Commands : PublishCommand(c) \/ Client(c) \/ ClientCrash(c) \/ DaemonCommand(c)
  \/ \E i \in Intents : Ask(i)
  \/ Start \/ DaemonCrash \/ Quit \/ LocalHide \/ NoticeExit \/ BackoffEnds \/ DropReference
  \/ BeginBatch \/ DaemonStep \/ OverlayStep \/ OverlayEnd

Spec == Init /\ [][Next]_vars

\* The response deadline comes; a daemon and an overlay that can run do; and
\* a lock that is tried again and again is not found taken each time.
FairSpec ==
  /\ Spec
  /\ \A c \in Commands : WF_vars(Inspect(c)) /\ SF_vars(Conclude(c))
  /\ WF_vars(DaemonStep) /\ WF_vars(OverlayStep)
  /\ SF_vars(Scan) /\ SF_vars(\E a \in Actions : RecordApplied(a) \/ DropEntry(a))

-----------------------------------------------------------------------------
(* Safety.                                                                 *)

\* An action is applied at most once, across overlay deaths, deferred finishes
\* and daemon generations.
AppliedAtMostOnce == \A a \in Actions : applied[a] <= 1

\* What a client is told about its action is true: succeeded means applied;
\* canceled, rejected and failed mean not applied, now and later.  And no rewrite by
\* daemon, client or overlay leaves a record that the next reader refuses, so that it
\* is told at all (write_control and read_control validate).
OutcomeTruthful ==
  \A c \in Commands :
    /\ Validate(ctl[c])
    /\ ctl[c].response = "Succeeded" /\ ctl[c].effect_kind # "NoOp" => applied[c] = 1
    /\ ctl[c].response \in {"Canceled", "FailedNoEffect"} => applied[c] = 0

\* The overlay applies actions in the order in which the daemon published
\* them, whoever asked for them.
AppliedInOrder ==
  [][\A m, n \in DOMAIN journal :
       m < n /\ applied'[journal[m]] > applied[journal[m]] => applied[journal[n]] = 0]_vars

\* A committed action that nobody has answered for still has its journal
\* entry: the overlay cannot forget it while its generation lasts.
NoOrphan ==
  \A c \in controls : IsAuthorized(ctl[c]) /\ ctl[c].target_daemon_token = gen
                        => entry[c] # "none"

-----------------------------------------------------------------------------
(* Refinement of ActionPromise.                                            *)

\* An action that was published and not applied waits while its entry does, in its
\* own generation.
FateOf(a) ==
  IF applied[a] # 0 THEN IF applied[a] = 1 THEN "applied" ELSE "applied again"
  ELSE IF born[a] = 0 THEN "unknown"
  ELSE IF opc = "apply" /\ a \in fin THEN "taken"
  ELSE IF Own(a) /\ Abandonable(a) THEN "waiting"
  ELSE "dropped"

AnswerOf(a) ==
  IF a \in Intents THEN "None"
  ELSE IF ctl[a].response = "Succeeded" /\ ctl[a].effect_kind = "NoOp" THEN "NoOp"
  ELSE ctl[a].response

Promise == INSTANCE ActionPromise WITH
  line <- journal, fate <- [a \in Actions |-> FateOf(a)], answer <- [a \in Actions |-> AnswerOf(a)]

\* The journal keeps the promise of ActionPromise: actions are taken up once, in the
\* order of their publication, and what clients are told of them is so.
KeepsActionPromise == Promise!Spec

-----------------------------------------------------------------------------
(* Liveness.                                                               *)

Live(a) == Own(a) /\ entry[a] \in {"Prepared", "Eligible", "Claimed"}

\* An entry whose control directory was collected: every claim pass fails at it.
Wedged == \E c \in Commands \ controls : Own(c) /\ entry[c] # "none"

BothStay == <>[](dpc \notin Gone /\ opc # "none")

\* While daemon and overlay stay up, every admitted entry is delivered or
\* abandoned, unless a collected record blocks the journal.
Disposed == BothStay /\ []~Wedged => \A a \in Actions : Live(a) ~> ~Live(a)

\* "Every admitted entry receives an explicit delivery or abandonment
\* disposition": so the comment in process_overlay_action_intents, of intents.
EveryIntentDisposed == BothStay => \A i \in Intents : Live(i) ~> ~Live(i)

=============================================================================
