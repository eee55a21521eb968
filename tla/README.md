# Formal model of wayscriber

Wayscriber is a screen annotation tool for Wayland. A resident *daemon* starts
and stops an *overlay* process; short-lived *clients* (`wayscriber
--daemon-toggle`, shortcut helpers, the tray) ask the daemon for things; the
overlay draws, captures, saves sessions and edits the configuration. The parts
talk through files under a private runtime directory, `flock` locks, `inotify`,
pidfds and bounded channels. Nearly everything that can go wrong lies in the
order in which independent processes and threads take their steps, and in who
dies between two of them. That is what this project models, together with
the undo history of a page, whose difficulty is a long sequence of legal edits.
Geometry and rendering are left out.

Paths below are relative to `src/src/` of the repository unless they say
otherwise; `v2/` abbreviates `daemon/protocol_v2/`.

## 1. Inventory

### 1.1 Typed command queue (`v2/command/`, `v2/wire.rs`)

* **State.** A command tree on disk: `staging/`, `controls/<id>/control.json`
  with a decision lock and a caller lease in each directory, `queue/<order>-<id>`
  references, `admission.json` (the order high-water mark) under an admission
  lock, `quarantine/`, `gc/`. A control record has a publication state, a
  decision, an effect with its status, an action status, a response, a reason
  and the caller's disposition; `CommandControl::validate` says which
  combinations are legal.
* **Operations.** Client: publish (stage, make visible, write the reference,
  rewrite as Queued), wait, take the response, cancel at the response deadline.
  Daemon: recover at start, claim with a reference or without one, commit,
  finalize, reject, quarantine, collect, compute the next maintenance deadline.
* **Hard behaviour.** Any number of clients and successive daemon generations;
  each may die between any two file operations; every lock wait is bounded.
  Decision lock, caller lease and admission lock protect different things and
  are taken in different orders. The directory and the reference of one
  command are separate files and can each exist without the other.
* **Correct when** a command runs at most once, and only if it was decided to;
  a caller told "canceled" or "failed" holds a command that never runs; answers
  are final; commits follow the admission order; callers are always released;
  nothing is left behind for ever.

### 1.2 Daemon control loop (`daemon/core.rs`, `daemon/core/`, `daemon/overlay/`)

* **State.** Overlay state, the pending toggle request, spawn backoff, the
  lifecycle deadline, action-admission retry, pending intents.
* **Operations.** `run_control_loop` waits without a periodic tick on the
  lifecycle descriptors (intents, tray, shortcuts, overlay pidfd, queue
  watcher, deadline); `process_v2_commands` runs one claim to its end;
  `process_single_toggle` executes a request.
* **Hard behaviour.** A wake-up that is not armed is lost; an error of any
  called function ends the daemon; a start waits up to five seconds for the
  child while a command's decision lock is held.
* **Correct when** every admitted or answered command is eventually treated
  without a tick, and what is reported as done was done.

### 1.3 Action journal and delivery (`v2/action/`, `v2/command/action_link.rs`, `backend/wayland/backend/tray.rs`)

* **State.** Journal records (Prepared, Eligible, Claimed, Applied, Abandoned,
  Indeterminate) in action order, the action status in the command control, and
  the overlay's pending finish.
* **Operations.** The daemon prepares and publishes actions; the overlay claims
  them in order, applies them and finishes; both abandon.
* **Hard behaviour.** One logical step is two durable writes under two locks
  that the two processes take in opposite orders, one of them without waiting;
  a client may cancel and either process may die in between.
* **Correct when** an action is applied at most once, in order, `Succeeded`
  means applied, "no effect" and "canceled" mean never applied, and journal
  and control agree in the end.

### 1.4 Overlay child (`v2/child.rs`, `daemon/overlay/spawn.rs`, `daemon/overlay/process.rs`)

* **State.** The owner's phase (Stopped, Reserved, Starting, Ready,
  StopPending), a generation id, the child's pidfd, and the ready, signals,
  active and enabled records on disk.
* **Operations.** Reserve, spawn through the broker, wait for one of two proofs,
  enable, abort and try the next candidate, stop, reap, recover the records of an
  earlier daemon; the child arms its watchdog, takes the overlay lock and proves
  that it is ready.
* **Hard behaviour.** The child publishes while the daemon times out, aborts
  and tries the next candidate program; the daemon, its broker and the children
  die one by one.
* **Correct when** at most one child may claim actions, every child and record
  of a daemon that is back in its loop is the owned one's, no child outlives its
  daemon, and every wait ends.

### 1.5 Configuration edits (`backend/wayland/config_edits.rs`) and document (`config/document.rs`, `config/document/lock.rs`)

* **State.** A staging queue, two bounded channels, the identities handed over,
  projected shortcuts; on disk the configuration file, its lock and a backup.
* **Operations.** Submit, pump, write, answer, install, tear down; load, lock,
  compare, back up, compare, replace, retry.
* **Hard behaviour.** Back pressure, a worker that stops, teardown with a time
  limit; several programs edit one file, some without taking the lock.
* **Correct when** edits are written and answered in submission order, each
  exactly once accounted for (answered, unconfirmed, unwritten), a shortcut is
  checked against the keymap the file will be read as, as far as the run can know
  it, and no save undoes a change it has not seen.

### 1.6 Runtime UI state (`runtime_ui_state/`)

* **State.** Accepted revisions, one source mutation in flight, pending stages
  (replace, flush, reset, shutdown), receipts, barriers, recovery incidents;
  a writer thread behind two bounded channels; on disk one file without a lock,
  which each overlay process writes.
* **Operations.** The store inspects, replaces and resets the file: it claims
  the file by moving it aside, compares, installs, reads back, removes; the
  controller turns its results into outcomes, retries and incidents.
* **Hard behaviour.** Other overlays and other programs replace, edit and remove
  the file between any two of these calls, and each call may fail.
* **Correct when** every accepted revision has exactly one durability outcome,
  what is reported as persisted is on disk, the settled revisions are a
  prefix; and the store discards no revision it was not asked to, and reports
  what it did.

### 1.7 Capture (`capture/manager.rs`, `backend/wayland/state/capture/`, `frozen/`, `zoom/`)

* **State.** Which operation suppresses the overlay, the barrier (a generation,
  the phase of its hidden frame, whether GTK toolbars must confirm), the render
  throttle, the frozen and the zoomed image with the layout they were taken
  under, the operation in progress, the manager with its worker.
* **Operations.** Screenshot, PDF export with the desktop behind it, canvas
  export, freeze, zoom, session dialog; the callback of a frame, the answers of
  the toolbars and of the compositor, deadlines, the worker's result.
* **Hard behaviour.** Everything is asynchronous: callbacks and answers of
  captures that were given up arrive during later ones, the outputs change in
  between, a frame is never presented, the worker ends.
* **Correct when** nobody reads a screen on which the overlay still is, an image
  of another layout is never shown, and the overlay always comes back.

The process broker (`process_broker/`) is a separate process that starts every
helper program, owns children and answers one request at a time over a socket.
It is correct when each caller gets its own answer, a shutdown pre-empts an
operation, and of the processes it keeps hold of only the clipboard's provider
outlives an orderly end; those started detached are left to themselves.

### 1.8 Sessions (`session/snapshot/`, `backend/wayland/session.rs`)

* **State.** On disk a session file, one backup, a recovery copy and three
  markers, told apart by their times; in the event loop whether the session was
  loaded, had content, is dirty, and whether an autosave is in flight; one
  worker with one save at a time.
* **Operations.** Load at the start and again after a failure, autosave, save,
  clear, save at exit.
* **Hard behaviour.** A save is a dozen durable steps, each may fail, and the
  process may be killed or the power fail between any two; the user draws on
  while an autosave runs.
* **Correct when** the next start restores the last saved drawing or one whose
  saving had begun, a cleared one stays away, and every change is saved in the
  end.

### 1.9 Drawing history and the rest

* A page (`draw/frame/`) keeps its shapes in stacking order and two bounded
  stacks of entries that name shapes and positions; edits of a selection, drags
  that change shapes before they are recorded, cancels, and the restore of a
  session (`session/snapshot/history.rs`) must leave entries that fit the page.
  Correct when undo gives back the page as it was.
* Named sessions (`session/catalog.rs`), the journals of `durable_io/`, boards
  (`input/boards`), the input state machine (`input/state`), tool bars,
  rendering, text recognition, update check, onboarding, the configurator,
  signals and clipboard. The first three carry logic worth modelling and are in
  the plan; the others are user interface, pure computation, or thin wrappers.

`PROJECT.json` lists every component with its status and, under `hazards`, the
places of the code that are hard to test.

### 1.10 How they interact

```
client --publish/cancel--> command tree <--claim/commit/finalize-- daemon
   ^------- response record ------'             | starts, signals, reaps
                                                v
             journal <--prepare-- daemon    overlay child
                 ^------- claim/finish --------'|
                                                +--> config edit worker --> config.toml
                                                +--> capture worker, UI state writer
                       process broker <--requests-- daemon and overlay
```

## 2. Modules

| Module | What it is |
|---|---|
| `CommandRecord` | The control record: its fields, `Validate`, and one operator for each way the code rewrites it. Pure data. |
| `CommandQueue` | Clients, daemon generations and the command tree of 1.1, with the part of the control loop (1.2) that serves it. |
| `CommandPromise` | The abstract specification: what the protocol promises for *one* command (decided once, executed at most once, refusals are final). |
| `ActionPromise` | The abstract specification of the action journal: every action is taken up once and in its turn, applied or dropped for good, and what is told of it is so and final. |
| `ActionDelivery` | The action journal (1.3): clients with commands that carry an action, the daemon's own intents, daemon generations, overlay processes. |
| `ConfigEdits` | The overlay's configuration edits (1.5): event loop, worker thread, the channels between them, teardown. |
| `ConfigDocument` | One save of the configuration file next to other programs (1.5). |
| `OverlayChild` | The daemon's ownership of its overlay (1.4), with crashes of daemon, broker and child. |
| `ProcessBroker` | The broker's exchange, its children and its shutdown (1.7). |
| `DrawingHistory` | The undo and redo stacks of a page (1.9). |
| `ScreenCapture` | Suppression of the overlay, the capture barrier and its users (1.7). |
| `RuntimeStateStore` | Conditional mutation of the runtime UI state file by several writers (1.6). |
| `SessionSave` | Saves and loads of one session, with failures, kills and power failures (1.8). |
| `MC_CommandQueue`, `MC_ActionDelivery` | Clients, intents and requests for TLC. |
| `MC_Components` | The eight modules from `ConfigEdits` on in one run: a behaviour belongs to one of them. |
| `CommandQueue_proofs` | The inductive invariant of `CommandQueue`, its safety theorems, and that it implements `CommandPromise`. |
| `ActionDelivery_proofs` | The inductive invariant of `ActionDelivery`, its safety theorems, and that it implements `ActionPromise`. |
| `ScreenCapture_proofs` | The inductive invariant of `ScreenCapture` and its safety theorems. |
| `RuntimeStateStore_proofs` | The inductive invariants of `RuntimeStateStore`: no revision is lost, and results are true. |
| `Processes_proofs` | The inductive invariants of `OverlayChild` (one overlay acts, and the loop is tidy) and of `ProcessBroker` (answers meet their callers, and what is left behind). |
| `ConfigEdits_proofs` | The inductive invariants of `ConfigEdits`: every edit is accounted for, what is told of it is true, and the run foresees the file. |
| `ConfigDocument_proofs` | The inductive invariant of `ConfigDocument`: a save loses nothing and its outcome is true. |
| `SessionSave_proofs` | The inductive invariant of `SessionSave`: what a start restores. |

### 2.1 `CommandQueue` and the code

The state is what the processes can see: `ctl`, `place`, `queue`, `order`,
`lastOrder` are the command tree; `cpc`, `clock`, `answer` belong to a client;
`gen` stands for the daemon's instance token and `dpc`, `snapshot`, `todo`,
`cur`, `overlay`, `armed`, `queueEvent` are the daemon's memory; `effects`
counts executions and is read by properties only.

Locks need no variables: a `flock` is held exactly while its process is in the
critical section, so the program counters say who holds what, and the death of
a process releases its locks as the kernel does. A critical section that makes
a single durable write is one step; one that makes several is a step per write,
because a crash can fall between them.

| Code | Actions |
|---|---|
| `ClientCommand::publish`, `wait`, `cancel_open` | `Begin`, `Stage`, `MakeVisible`, `WriteReference`, `FinishPublication`, `FailPublication`, `TakeResponse`, `GiveUp`, `WaitTimesOut` |
| `recover_staging`, `recover_previous_generation` | `Start`, `RecoverControl`, `FinishRecovery` |
| `CommandOwner::claim_next` and what it calls | `ScanQueue`, `RejectStaleReference`, `QuarantineReference`, `ScanControls`, `QuarantineDangling`, `ClaimTimesOut`, `ClaimReference`, `RemoveClaimedReference`, `DropDecidedReference`, `ClaimRefLess`, `RefLessDecided`, `ClaimNothing` |
| `Daemon::process_v2_commands` | `RejectConflict`, `Commit`, `ClosedClaim`, `Execute`, `SkipInBackoff`, `Finalize` |
| `CommandOwner::collect_terminal` | `BeginCollect`, `CollectTimesOut`, `VisitControl`, `EndCollect` |
| `run_control_loop`, `next_maintenance_deadline` | `LoopTop`, `Wake`, `OtherWake`, `LockWaitKillsDaemon` |
| process deaths, passing time | `ClientCrash`, `DaemonCrash`, `Tick` |

The deadlines of a command are the three values of `clock`: before the
authorization deadline, after it, after the response deadline. A program
counter in `Faults` is a daemon that ended with that error; it is restarted
like one that was killed.

Simplifications, each with its reason:

* The listing of `earliest_ref_less_control` is one step: admissions are
  serial and it reads records only. The listings of the queue and of the
  controls are *two* steps, because commands appear in between.
* The inner collection of `DropDecidedReference` is merged with the one that
  follows it in the loop.
* Recovery of the staging directory takes the admission lock, so `Start` asks
  for it to be free; contention there makes the start fail and be retried. It
  keeps it for the listing of the old controls too, so that a wait for the lock
  between the two (`recovery.rs:39`), which also ends in a failed start, is not told
  apart from the first.
* The creation of the queue watcher and the publication of the runtime record
  are merged into `FinishRecovery`; no client acts on a record not yet there.
* Quarantine of unreadable records is left out: `WellFormed` shows that none
  arise from the protocol's own writes.
* The caps of 1024 entries per directory are left out.
* A session file that cannot be normalized takes the path of `RejectConflict`.
* Requests carry no overlay action here (`overlay_action` is FALSE in
  `ClientsAssumption`); those are the subject of `ActionDelivery`.

### 2.2 `CommandPromise`

One command has a `phase`, the number of times it was `executed`, and the
`answer` its caller got. `KeepsPromise` in `CommandQueue` maps the record's
decision and response to the phase and asks that every step of the system is,
for every command, a step of the promise or a stutter. The promise contains one
exception the code makes: a command whose authorization expired at commit may
run although it is recorded as rejected (see finding `expired`).

### 2.3 `ActionDelivery` and the code

The same control records (`ctl`, from `CommandRecord`) next to the journal:
`journal` is the order in which entries were published, `entry` the state of
each entry's record (`"none"` once removed), `born` the generation whose token
it carries. `dpc` and `cur` say where the daemon is and with which action,
`asked`, `kept`, `batch` and `offered` are the stages of an intent from its
arrival to its delivery. The overlay has a program counter `opc`, the position
`at` of its claim pass, the action in hand `fin` (`durable_action_finish` while
idle), the pending SIGUSR2 `sig` and `retry` (`durable_action_retry_at`).
`applied` counts applications and is read by properties only.

| Code | Actions |
|---|---|
| `ClientCommand` | `PublishCommand`, `Inspect`, `PollAgain`, `Conclude` |
| `claim_next`, `collect_terminal` | `Claim`, `DropReference`, `Collect` |
| `ClaimedCommand::prepare_action`, `commit` | `ReleaseToPrepare`, `PublishPrepared`, `Relock`, `RelockExpires`, `Retract`, `RewriteCanceled`, `Commit`, `CommitNoOp` |
| `show_overlay`, `signal_overlay_action_ready` | `StartOk`, `StartFails`, `SkipStart`, `SignalOk`, `SignalFails` |
| `ActionJournal::abandon`, `abandon_command` | `AbandonEntry`, `FinishAbandoned`, `RemoveAbandoned`, `AbandonIntent` |
| `process_overlay_action_intents` | `BeginBatch`, `SkipOff`, `Admit`, `AdmitFails`, `Admitted`, `Offer`, `EndBatch` |
| `process_tray_action` | `Wake`, `Scan`, `ScanDefers`, `PassEnds`, `Apply`, `PassFails` |
| `ActionJournal::claim_next_inner`, `try_claim_command_action` | `SkipForeign`, `CloseClaimed`, `ClaimIntent`, `ClaimCommand`, `TakeCommand`, `MeetBarrier`, `AbandonRefused`, `Settle`, `Unlink`, `PassDefers` |
| `ClaimedAction::try_finish` | `RecordApplied`, `Report`, `ReportFails`, `ReportIntent`, `DropEntry`, `FinishDefers` |
| process starts and ends | `Start`, `Quit`, `DaemonCrash`, `OverlayEnd`, `NoticeExit`, `LocalHide`, `ClientCrash`, `BackoffEnds` |

The two locks are program counters again: the overlay holds the journal lock in
`Passing`, the daemon's sections on the journal are one step each. The overlay
never waits: `ScanDefers`, `PassDefers` and `FinishDefers` are what it does when
it finds a lock taken, and they set `retry`. A claim that ends with an error
(`PassFails`) sets none.

Simplifications:

* Publication of a command, its claim with the removal of the reference, and
  the recovery at start are one step each. `CommandQueue` has their parts; none
  of them touches the journal. Clients publish to a running daemon only.
* Commits go through the claim with a reference; the path without one adds no
  record that this path does not produce.
* After each command the daemon is back in its loop. In the code it may go on to
  the next one at once; the loop allows that too.
* Whether the authorization deadline has passed at commit is a free choice
  (`Decide`), as is the success of a start, a signal or an admission.
* The start of an overlay is one step; what happens inside belongs to
  `OverlayChild`. The options of the pending toggle request are left out.
* Errors of single file operations other than a failed admission, quarantine,
  the capacity of the journal and the bound of 64 actions per drain (after
  which the overlay retries) are left out.

**`ActionPromise`** is what a caller may rely on, without entries, records, locks
and processes: the actions in the order of their publication (`line`), what has
become of each (`fate`: waiting, taken up, applied or dropped) and what was
told of it (`answer`). An action is taken up only while it is the first that may
still be applied, applied only once it was taken up, dropped at most once; an
answer is given once, is true of the fate it is given at, and nothing happens to
the action after it. The end of a generation drops everything pending at once.
`KeepsActionPromise` in `ActionDelivery` reads the fate off the journal, the
generation and the overlay's hand (`FateOf`) and the answer off the record
(`AnswerOf`), and asks that every step is one of the promise or a stutter. It shows in the mapping that
an action is dropped as soon as its entry is abandoned or of a dead generation,
long before the entry is gone, and that an answer counts from the write of the
record, not from the moment the caller reads it.

### 2.4 `ConfigEdits` and the code

A gesture (a shortcut edit, or the setting of a slot: a preset or a quick
colour) goes from `edPending` through `edStaged` (`staged`), `edChannel` (the
bounded channel of commands) and `edCurrent` (in the thread) to `edAnswered` (the
channel of completions); `edHanded` is `handed_over`, `edProjected` is
`projected_shortcuts`. `edLive` and `edFile` are what the run dispatches from
and what the file holds. `edSubmitted`, `edTold`, `edRefused` and `edLanded`
record what happened and are read by properties only.

| Code | Actions |
|---|---|
| the event loop | `EdGesture`, `EdWoken`, `EdPass`, `EdRequestStep`, `EdRequestsDone` |
| `ConfigEditWorker::try_recv`, with `pump`, `retire_projection` and `finish_keybinding_edit` | `EdTryRecv` |
| `finish_config_edits`, `shutdown`, `hand_over_staged`, `account_for_the_rest` | `EdQuit`, `EdHandOver`, `EdAwait`, `EdDeadline` |
| `run_worker`, `write_edit` | `EdReceive`, `EdWrite`, `EdSend`, `EdFinish` |
| process exit, other programs | `EdExit`, `EdOutsideEdit` |

One write of the file, its retry included, is one step, because its protocol is
`ConfigDocument`. All slots are one slot, since slots do not interact. A thread
that hangs in the file system, ends, cannot be started or fails to write is a
disturbance, bounded by `MaxDisturbances`.

The code folds the deltas in flight into its keymap, one after the other. A delta sets
all chords of one action, so `Foreseen` says what that comes to: an action has what
its last edit asks for.

The file and the keymap read from it are not the same. The file spells out the lists
of some actions (`authored`) and omits the others, whose lists are the shipped ones;
`edFile.keys` has both. A reading (`validate_keybindings`) gives a chord that several
lists name to one action, for the session only: an authored list goes before a shipped
one, among equals the earlier action before the later (`Ahead`), and every other
action loses the chord (`Resolved`). The run resolves the file once, at its start, and
changes its keymap by its own edits from then on; each write resolves a new reading,
checks the chord against that and marks the edited action as authored. So the two may
differ although nothing has failed and nobody else has written: a chord named by two
lists (`Contested`) goes to the other action in the file when its holder lets it go,
and the run does not know. Then the write is the arbiter (`docs/codebase-overview.md:353`).
Prefixes of chords and chords named twice in one list are left out.

### 2.5 `ConfigDocument` and the code

`docStep` is where each writer is in `ConfigDocument::save`: load (two steps,
`DocStat` and `DocRead`, since the file may change between them), lock, compare,
back up, compare again, write the temporary file, look once more, rename, sync.
`docRev` is the revision its document was read from. Edit workers load for each
edit and retry once; configurators keep their document. Other programs write in
place or by replacement, without the lock, and the path may be a link that is
pointed elsewhere between any two steps. The contents of a file are the set of
edits it carries, because what matters is whose edits are lost, not what they
say. The merge of a document into a file, repair and migration are left out.

### 2.6 `OverlayChild` and the code

| Code | Actions |
|---|---|
| `recover_stale_child_records`, daemon start | `OcStart`, `OcRecover` |
| `update_overlay_process_state`, the choice of the loop | `OcUpdate`, `OcChoose` |
| `spawn_overlay_process` and `wait_until_ready` | `OcReserve`, `OcSpawn`, `OcUnready`, `OcEnable`, `OcCommit`, `OcWaitDeadline`, `OcAbort`, `OcAbortKill`, `OcRetry` |
| `hide_overlay`, stop | `OcHide`, `OcStopped`, `OcStopDeadline`, `OcClose` |
| the child (`app/mod.rs`, `v2/child.rs`) | `OcArm`, `OcTakeLock`, `OcProve`, `OcChildEnds`, `OcWatchdog` |
| processes that die, requests that are lost | `OcCrash`, `OcBrokerEnds`, `OcBrokerCrash`, `OcLateSpawn` |

The daemon reaches its children through the broker; here a request is one step
that is answered or fails, with or without its effect (`OcLost`), and a failed
transport is never used again, which is what `ProcessBroker` shows of it.
Environment and options of a start are left out.

### 2.7 `ProcessBroker` and the code

The number of a request is its `request_id`. `brLock` is the exchange lock,
`brHealthy` the flag that ends a transport after one failed exchange, `brIn` and
`brOut` are the socket, `brByte` is the shutdown byte. An operation is what the
request asks for with its lifetime: a helper that is waited for, a publication, an
owned child, its end, or a process started detached (`Detached`: `spawn` and
`try_spawn` with `DetachedAfterExec`), which needs room among the children like any
other and takes none (`BrSpawn`). Its process is not tracked, since the broker does
not; `Apart` names such requests. `BrLock`, `BrCheck`,
`BrSend`, `BrReceive` and `BrGiveUp` are `ProcessBrokerClient`'s exchange;
`BrWake`, `BrBegin`, `BrHelperDone`, `BrReply` are the server's loop;
`BrDrop`, `BrLeave`, `BrKilled` are the ends of the runtime. The wire format
and limits of output are left out, and so is a provider that ends because
another program takes the selection.

### 2.8 `DrawingHistory` and the code

A shape is its identity, one of two places, and whether it is locked; an entry
is a sequence of basic actions. `dwPast` and `dwFuture` remember the page before
and after each entry and are read by properties only. Each edit of a selection
is an action (`DwDraw`, `DwDelete`, `DwDuplicate`, `DwLock`, `DwNudge`,
`DwReorder`), a drag is `DwGrab`, `DwDragTo` and one of `DwDropMoved`,
`DwDropResized`, `DwCancel`; `DwUndo`, `DwRedo` and `DwRestart` are what they
say. Text and image edits, which push entries of the same kinds, boards and
pages are left out.

### 2.9 `ScreenCapture` and the code

`scCover` is the suppression with its barrier, `scFrame` what was committed,
what is on the screen and the frame callbacks, `scGtk` the GTK toolbars,
`scFreeze` and `scZoom` the two states of those names, `scOp` is `CaptureState`,
`scMgr` the manager and its worker, `scLayout` the number of the current output
layout (`output_layout_generation` and the active output together).

| Code | Actions |
|---|---|
| `handle_frozen_toggle`, `cancel_eyedropper`, `cancel_ocr` | `ScFreeze`, `ScUnfreeze`, `ScCancelFreeze` |
| `apply_zoom_factor`, `handle_zoom_action`, `exit_zoom`, `sync_zoom_board_mode` | `ScZoomIn`, `ScZoomRefresh`, `ScZoomExit`, `ScSyncZoom` |
| `handle_capture_action`, the PDF and canvas exports, the session dialog | `ScScreenshot`, `ScExport`, `ScDialog` |
| `maybe_render`, `handle_render_failure`, the frame callback, `begin_ready_overlay_capture` | `ScRender`, `ScRenderFails`, `ScFrameCallback`, `ScBarrierTimeout` |
| `acknowledge_` and `reject_gtk_capture_suppression`, a lost bridge | `ScGtkFeedback`, `ScGtkLost` |
| `FrozenState` | `ScFreezeReady`, `ScFreezeFallback`, `ScFreezePortalFails`, `ScActivateFrozen` |
| `ZoomState` | `ScZoomAnswer` |
| `apply_capture_completion`, `handle_capture_results`, `CaptureManager` | `ScApplyCompletion`, `ScCaptureResults`, `ScWorkerDone`, `ScWorkerEnds` |
| output and surface events | `ScLayoutChange` |
| compositor, GTK thread, user | `ScPresent`, `ScFrameLost`, `ScGtkPaint`, `ScGtkAnswer`, `ScSwitchBoard` |

Simplifications: the surface is rendered with vsync (without it there is no
throttle); the freeze that first turns an xdg window into a fullscreen one is
left out; of the eyedropper and of text recognition only that they cancel the
freeze they asked for; the built-in layer-shell toolbars, which take the place of
the GTK ones when those are lost (`gtk_toolbar.rs:196`) and are drawn with the overlay
after its own commit (`state/render/mod.rs:446`); the tenth failed frame in a row,
which ends the loop; a zoom's two ways of reading the screen are one stage,
which differs from the code in that its answer is always assumed to come; what
the worker does inside (`capture/pipeline.rs`) is one step with a result.

### 2.10 `RuntimeStateStore` and the code

`rsFile` is what the path names, `rsAside` what each writer's mutation has moved
aside, `rsKept` what earlier mutations left beside the path. A revision is a
number: the code compares bytes together with the identity of the file, so that
two files with the same bytes are told apart. `rsResult`, `rsMoved`,
`rsLanded`, `rsGone` and `rsTold` record what happened; no action reads them.

| Code | Actions |
|---|---|
| `RuntimeUiStateStore::inspect` of a program between mutations | `RsInspect` |
| `execute_source_mutation`, `execute_preserve_invalid` | `RsRequest` |
| `execute_conditional` | `RsPrepare`, `RsLook`, `RsClaim`, `RsCheck` |
| `restore_or_retain_changed_claim`, `retained_after_claim` | `RsRestoreLook`, `RsRestore`, `RsRetain` |
| `install_at_missing`, `install_after_claim` | `RsInstallLook`, `RsPut`, `RsVerify`, `RsDrop`, `RsFinal` |
| `finish_reset_after_claim` | `RsResetLook`, `RsDrop`, `RsFinal` |
| the look that completes a result | `RsReport` |
| other programs, process deaths | `RsOutsideWrite`, `RsOutsideRemove`, `RsOutsideClean`, `RsCrash` |

Each call to the file system that others can come between is a step, and each
may fail (`Trouble`); two failures in a row, as of a claim and of the look that
follows it, are two troubles. An inspection reads twice and compares, and is one
step that succeeds or fails. What is retained is named by the result only if it
can still be read (`Found`), and a failing sync makes the outcome unknown.

Simplifications: other programs act on the path, not through a descriptor they
hold on a file that was moved aside meanwhile; the temporary file of a
replacement is left out, because only its own mutation names it; the read-back
after an installation compares bytes only, which is the same here because every
write is a new revision; the directory itself stays in place. The controller
that issues the commands is free: each mode may follow each, on the revision
the program observed last.

### 2.11 `SessionSave` and the code

`ssDisk` are the session's files and markers, `ssSurvive` the contents of the
directory that a power failure may leave: everything the directory has been
since its last sync. A drawing is a number, 0 when the boards are empty; a time
is the number of the save that wrote the file. `ssLoaded`, `ssOnDisk`, `ssDirty`
and `ssFlight` are the fields of `SessionState`, `ssWork` the worker's save.
Two history variables are read by no guard and no other variable: `ssExpected`
records the last drawing saved and those whose saving began since, `ssMislaid`
whether a blank session has replaced one with content because of a backup marker
that an earlier save left behind (section 5).

| Code | Actions |
|---|---|
| start and end of the overlay, its death | `SsStart`, `SsWithoutSave`, `SsExitEnds`, `SsCrash` |
| `autosave_if_due`, `complete_autosave` | `SsAutosave`, `SsAutosaveEnds` |
| `save_current_before_explicit_target_change` | `SsSaveNow`, `SsSaveEnds` |
| `clear_current_session_runtime` | `SsClear`, `SsClearEnds` |
| `persist_final_session` | `SsExit`, `SsExitEnds` |
| `run_output_transition` when the first load is retried | `SsReload`, `SsReloadEnds` |
| `save_snapshot_inner` | `SsPrepare`, `SsClearMark`, `SsRotate`, `SsMark`, `SsRename`, `SsSync`, `SsTidy` |
| `load_snapshot_with_expanded_limit_inner`, `load_normal_session_or_empty` | `RestoredFrom` |

Simplifications: every artifact that is there can be read; a save writes its
time when it is prepared; times never collide except within one save; the tools
are a part of the session or not, and their values are left out; a session too large
to be written is left out, with its answers (`payload.rs:106`). External
assumption: what a power failure leaves is the directory as it was after one of
the operations since its last sync, never a mixture of two orders, and a synced
file has its contents.

### 2.12 `MC_Components`

The eight components of 2.4 to 2.11 share no state. Their run chooses one at the
start (`part`) and takes steps of that one only, so that each is explored as if
alone; their variables differ in name by a prefix (`ed`, `doc`, `oc`, `br`, `dw`,
`sc`, `rs`, `ss`). Where two of them do interact, one stands in the other as a single step:
a file write in `ConfigEdits`, a broker's request in `OverlayChild`, an overlay's
start in `ActionDelivery` and `CommandQueue`.

## 3. What is model-checked

The runs of `CommandQueue` use two clients: `c1` asks for a plain toggle, `c2`
for a named session file. Bounds: `MaxGen` limits daemon generations, `Mortal` says which
clients may crash or fail to publish, `LocalWakes` the generations in which the
overlay is also toggled by tray, shortcut or signal. The system may come to rest when all
clients are gone, hence `CHECK_DEADLOCK FALSE`.

| Run | Shows | Bounds, distinct states |
|---|---|---|
| `generations` | with local visibility intents in the first generation: type invariant; `WellFormed`, `AtMostOneEffect`, `TruthfulRecord`, `DefiniteFailure`, `LeaseProtects`, `ResponseFinal`, `FifoCommit`; refinement `KeepsPromise` | `MaxGen` 2, `c1` mortal, `LocalWakes` {1}; 2.1 million |
| `live` | `EveryCallerReleased`, `QueueDrains`, `AnsweredCollected` under fairness | `MaxGen` 1; 0.1 million |
| `expired`, `reclaim`, `contention`, `foreign` | each reaches one disagreement of section 5 | 1 or 2 generations |

The runs of `ActionDelivery`. `MaxGen` bounds daemon generations, `MaxChildren`
overlay processes; each client publishes one command, each intent arrives once.
`Off` names the actions that are LightDrawOff, which takes paths of its own
when nothing is shown. Every process may die at any step.

| Run | Shows | Bounds, distinct states |
|---|---|---|
| `order` | `TypeOK`, `NoOrphan`, `AppliedInOrder` | commands `c1`, `c2`, intent `i1`, `Off` = `{c2, i1}`, one generation, one overlay; 0.9 million |
| `restarts` | `OutcomeTruthful`, that `ActionPromise` is implemented (`KeepsActionPromise`), and `Disposed` under fairness | `c1`, `i1`, two generations, two overlays; 0.14 million |
| `wedged` | reaches the disagreement of section 5 | `c1`, `i1`, one generation, one overlay |

`order` has three entries, so that an entry can be overtaken, block and be
blocked at once; `restarts` has the second overlay that finds what the first
left behind, and the second generation that finds entries of another token. The
two dimensions multiply the states and meet in no action: a second overlay reads
the journal and the records, never what the first had in memory.

Why these bounds suffice for the command queue: the interesting races are between two commands (order,
a listing that sees one and not the other) and between one command and a daemon
that dies with it; a third client adds no new relation, because records of
different clients interact only through `order`, the admission lock and the
listings, all of which are pairwise. Two generations let a client of the dead
one publish, wait and cancel during recovery; a third meets only states the
second has met. One mortal client keeps the other as a witness that must be
served correctly next to every kind of failure. The safety properties of these
runs are also proved without any bound (section 4.1).

The run `components` is that of 2.12, with 1.06 million distinct states.

| Part | Properties | Bounds, distinct states |
|---|---|---|
| edits | `EditsForesee`, `EditsReportTruthful` (the order of writes and answers included), `EditsSettled` | two actions, a chord of the first and one named by both, the first list authored, both channels of capacity 1, `MaxGestures` 3, `MaxDisturbances` 1; 0.16 million |
| document | `DocNothingLost`, `DocOutcomeTrue` | one edit worker, one configurator, `MaxSaves` 1, two files, `MaxOutside` 2; 0.3 million |
| child | `OverlayOneActor`, `OverlayTidy`, `OverlayFollowsDaemon`, `OverlayAlwaysReturns` | `MaxGenerations` 3, `MaxDaemons` 2, two candidates, `MaxMishaps` 2; 0.12 million |
| broker | `BrokerAnswersOwn`, `BrokerLeaves`, `BrokerStops` | two threads, `MaxRequests` 2, `Capacity` 1; 45 thousand |
| drawing | `HistoryExact` | `HistoryLimit`, `PersistLimit` 2, `MaxShapes` 3, `MaxSelected` 2, `MaxEdits` 4; 41 thousand |
| capture | `CaptureUncovered`, `CaptureOwned`, `CaptureFresh`, `CaptureReturns` | backends wlr and portal, `MaxAttempts` 2, `MaxLayouts` 2, `MaxFaults` 1, with and without GTK toolbars; 0.24 million |
| store | `StoreLosesNothing`, `StoreReportsTrue` | two writers, one kind of unreadable file, `MaxMutations` 1, `MaxTroubles` 1; 35 thousand |
| session | `SessionRestores`, `SessionAutosaved` | `BackupRetention` 1, an earlier session on disk, with and without tools, `MaxStrokes` 2, `MaxOrders` 1, `MaxLosses` 2; 0.13 million |

`ComponentTypesOK` is the type invariant of all eight. `tofront` is a run of
`DrawingHistory` alone with `HistoryLimit` 3, `retention` one of `SessionSave`
alone with `BackupRetention` 0; each reaches its disagreement of section 5.

Why these bounds. *Edits*: with channels of one place three gestures fill the
channel, the thread and the staging queue at once, which is every place an edit
can wait in; the second action asks for the chord that only the first has and may
have let go of, so that an edit can depend on the one before it, and the chord named by
both comes back to the file then. With three chords and a gesture that asks for the
one that came back (0.5 million states) the part was explored once more, and nothing
else was found (both safety properties: also section 4.8). *Document*: a writer that
retries, a writer that keeps its document and a program without the lock are all kinds of writers;
two outside events can hit the first attempt and the retry, or both sides of one
comparison; two files are what a retargeted link needs; the properties are also
proved without any bound (section 4.7). *Child*: two candidates
and a third generation let an aborted child live next to its successor and a
later start; the second daemon meets the leavings of the first; two mishaps are
a crash and the failure of its repair (both safety properties: also section 4.6).
*Broker*: one request in the exchange and
one that waits for the lock are all positions; capacity 1 is reached by one
child (both safety properties: also section 4.5). *Drawing*: four edits overflow stacks of two and allow an undo, a redo
and an edit after them; three shapes have a middle one. *Capture*: two attempts are a
capture and the one that meets its leavings; two backends have a fallback; one
change of the layout can fall between any two steps. A third attempt
(`MaxAttempts` 3, 2.6 million states for this part alone) was explored as well for
the three safety properties and found nothing more; they are also proved
without any bound (section 4.3). *Store*: the second writer is the other program that
comes between two steps of the first, at each of them, and the one trouble is a
third program, a failure or a crash on top. With two troubles (0.3 million
states) and with two mutations of each writer (4.5 million) the part was explored
once more and found nothing else; both properties are also proved without any
bound (section 4.4). *Session*: two losses are a failure and the crash that meets
its leavings; two strokes beside the session on disk are three drawings, as many
as there are copies; the one order is a clear, a save, an exit or a reload among
autosaves without limit. Without a session on disk at first, and with three
strokes, two orders and two losses (3.8 million states), the part was explored
once more and found nothing else. The two states that `SessionRestores` excepts need
more: the widest form of `Shadowed` and `ssMislaid` are both first reached with four
losses, outside the run; the property is therefore also proved without any bound
(section 4.9).

**Fairness** (`FairSpec`). Weak fairness of each client's own progress and of
its clock, of the daemon's progress, and of its restart: a process that can run
does run, time passes, a supervisor restarts the daemon while `MaxGen` allows.
Nothing is assumed of crashes, of publication failures, or of wake-ups other
than the queue watcher and the armed deadline (`OtherWake` is not fair), so
`QueueDrains` and `AnsweredCollected` show that these two suffice. They speak of
a daemon that stays up (`DaemonStays`); without that nothing drains the queue.
Lock waits need no strong fairness: a lock held by a client is released by the
client's own progress or crash, and one held by the daemon by the daemon's.
For `ActionDelivery`: weak fairness of the daemon's steps within a command or
a batch and of the overlay's steps; strong fairness of a client's `Conclude`,
whose response deadline comes whatever the polling does; strong fairness of
`Scan`, `RecordApplied` and `DropEntry`, which try a lock without waiting: the
daemon holds the journal lock for single short sections and the overlay tries
again every retry delay, so it does not find it taken for ever. Starts, crashes
and intents are not fair. `Disposed` speaks of a daemon and an overlay that both
stay (`BothStay`) and excepts a `Wedged` journal, which is the finding `wedged`;
`EveryIntentDisposed` is the same statement of intents without the exception.

For `components` (`Fairness` in `MC_Components`): the overlay's loop and the
edit thread run on (they are threads of a living process; a thread that hangs or
ends is a separate step after which nothing of it is enabled), and teardown's
deadline comes; the daemon, the broker and the threads that use it run on; a
broker whose daemon is gone ends, and a watchdog whose parent is gone fires, as
the kernel closes their socket and signals them; the capture loop runs on or
reaches a deadline, and the compositor presents or the GTK thread paints and
answers; the session's event loop and its worker run on. Where several actions are joined in one weak fairness condition that
assumes *less* than one condition for each: the loop must take some step, not
any one in particular. Two assumptions go beyond the code: a zoom's direct capture and the
worker's request are taken to end (section 5), and what wakes the
capture loop from its blocking dispatch is not modelled. Nothing is assumed of
the user, of other programs, of failures, or of a child's progress towards
readiness. The liveness properties of this run have the form `[]<>`, "again and
again": what they forbid is a state that is stuck for ever.

`QueueDrains` speaks of references whose control directory exists. A dangling
reference is noticed only when another event wakes the daemon, because the
watcher's mask lacks `IN_MOVED_FROM` and no deadline is armed for it.

## 4. What is proved

### 4.1 The command queue

With TLAPS, in the module `CommandQueue_proofs`, for any set of clients, any requests without overlay actions, any
number of daemon generations and any set of mortal clients. The assumptions are
`ClientsAssumption` (the constants have these types) and `NoSessionAssumption`
(the absent session file is not a session file).

* `TypeCorrect`, `RecordsWellFormed`, `ExecutedAtMostOnce`, `RecordsTruthful`,
  `FailureDefinite`, `CallerProtected`, `ResponsesFinal`, `CommitsInOrder`;
* `PromiseKept`: the refinement of `CommandPromise`.

The argument is one inductive invariant, `IInv`, the conjunction of

* `TypeOK`;
* `RecordInv`: every control record passes `Validate` and carries no action;
* `AdmissionInv`: a command whose client has not written the reference yet, or
  was told that it failed to, is in no queue, listing or hand of the daemon,
  and nobody has decided to run it;
* `LeaseInv`: while its caller publishes or waits, the disposition is Waiting
  and, once visible, the directory is in place;
* `OrderInv`: orders are below the high-water mark, positive for every admitted
  command, and never given twice;
* `CurInv`: the daemon has at most one command at hand (the earliest of a set
  is one command, which is what `OrderInv` is needed for);
* `EffectInv`: at most one execution; none of a command that is undecided,
  refused, or not admitted; and when the daemon is about to execute, the
  command at hand has not been executed and its record lets it through commit;
* `TurnInv`: admissions are serial; a reference written after the daemon listed
  the queue is later than every listed one; of the references before the command
  at hand none leads to an undecided command; and the caller of a command whose
  record still says it is not enqueued does not wait yet.

`AtMostOneEffect` and `TruthfulRecord` are not inductive: `Execute` keeps them
only because the command at hand has not run yet, which commit guarantees only
if the record was Open, which holds only if nobody else rewrote it under the
daemon's decision lock. `DefiniteFailure` needs that an unadmitted command is
out of reach of every claim path, including the one without references, and
`LeaseProtects` that collection cannot pass the caller lease. `NextIInv` brings
these together; one lemma per conjunct goes through the actions, after
the lemmas that each transition of a record keeps it valid. The refinement then needs `IInv` in the first state of each step.

`FifoCommit` is the property with the longest reason (`NewTurn`). A daemon lists
the references first and reads the controls later, so the order of two commands
could be lost between the two readings. It is not, because orders are allocated
under the admission lock, which the publisher keeps until its reference is
written: a reference the listing misses is later than all that it has. A command
taken without a reference is earlier than every listed one, and a command before
it that is enqueued but not listed would be without a listed reference itself,
or abandoned before it was enqueued and refused in this very step. That a listing
which is not empty has an earliest command is an instance of the library's
theorem that the natural numbers are well-founded (`EarliestExists`).

### 4.2 The action journal

For any commands and intents, any number of daemon generations and overlay
processes (`ActionsAssumption`: commands and intents differ, the bounds are
numbers). In the module `ActionDelivery_proofs`, of `Spec`:

* `DeliveryTypesOK`: the types;
* `NeverAppliedTwice`: `AppliedAtMostOnce` (what the promise says of one fate, as a count);
* `ClientsToldTruth`: `OutcomeTruthful`, the truth of responses and the validity
  of every record in one;
* `NoActionForgotten`: `NoOrphan`;
* `OrderKept`: the action property `AppliedInOrder`;
* `ActionPromiseKept`: `KeepsActionPromise`, that every behaviour is one of
  `ActionPromise`.

None of them is inductive. `Apply` changes neither the journal nor the record, so
at that step the claim must already say that the action has not been applied,
that it is authorized and that everything before it is out of reach. `IInv` is
the conjunction of

* `RecordInv`: every record passes `Validate`, and targets no future generation;
* `QueueInv`, `WaitInv`, `JournalInv`: a command waits in the queue of its own
  generation, an intent in one of the three places of a batch, both unpublished;
  from its publication on an action is in the journal, once. Together: an action
  is published at most once (`PublishedOnce`);
* `StageInv`: what the daemon's program counter says of the command at hand. The
  hard stages are those after `prepare_action` gave up the decision lock: at
  `relocking` the entry is Prepared if the record is still open, at `finishing`
  the action has not been applied, at `removing` the record is answered;
* `HandInv`: what the overlay holds. Until it is applied the entry says Claimed,
  is of the present generation and its record authorized; afterwards it was
  applied exactly once; before its entry goes, the record is answered. The same
  of the entry a claim pass has reached between its two writes;
* `ResultInv`: what an entry or a response says of the count is so;
* `OrderInv`: all entries before the position of a claim pass, and before one that
  is applied or about to be, are past: gone, or of an earlier generation.

There are sixty-two actions, two files per command and three processes. The proof
first sorts the steps by what they do: `StepWrites` and `WrittenIs` say how a
step may rewrite a record and what that does to its decision and response
(`RecordStep`), `StepJournal` that a step publishes one action, moves one
entry or applies one action, `StepQueue`, `StepWait`, `StepGeneration`, `StepStage`
and `StepHand` the same of the remaining variables. Each conjunct is then
preserved by a handful of cases, and only these lemmas go through the actions.

For the refinement the steps are sorted by what they are in the promise: a step
publishes one action (`PublishKeeps`), moves one entry (`MoveKeeps`), applies one
action (`ApplyKeeps`), answers one command (`TellKeeps`) or ends the generation
(`EndKeeps`), and what is neither leaves `line`, `fate` and `answer` alone. That
one step never does two of these is `StepRecords`: whoever writes the record of a
command moves neither the journal nor what the overlay holds, except where a new
generation answers all at once. What the answers rest on beside `IInv` is `ToldInv`, an auxiliary
invariant: a client that has not published waits for nothing, only actions are ever
authorized, and an action is published before its command has had any effect.
`FateIs` computes the fate of an action from the conjuncts of `IInv`, so that no
later step has to look at the order of the branches of `FateOf`.

### 4.3 The capture barrier

For any set of screen-copy backends, any number of capture attempts, changes of
the output layout and faults (`CaptureAssumption` gives the constants their
types, and at least one layout). In the module `ScreenCapture_proofs`, of
`CaptureSpec`, which is `ScreenCapture` without fairness:

* `CaptureTypeCorrect`: the types;
* `CaptureNeverCovered`: whoever reads the screen does not find the overlay on it;
* `CaptureAlwaysOwned`: a suppression, a barrier and an operation in progress
  have each other, and the manager has the request the loop waits for;
* `CaptureImagesFresh`: an image appears only under the layout it was taken of.

`CaptureUncovered` is a statement about the screen and the reader at one moment,
and nothing in it says why a *late* callback or answer is harmless. The inductive
invariant, `CaptureInv`, says why: besides the types it has

* `CoverInv`: the barrier carries the reason of the suppression in force
  (`BarrierInv`); a callback with the barrier's generation is owed only once the
  hidden frame is committed and sent only once it is on the screen (`FrameInv`);
  a toolbar's answer for the barrier's generation means transparent toolbars,
  and so does a barrier that no longer waits for one (`ToolbarInv`);
* `OwnerInv`: each user of the barrier (`FreezeInv`, `ZoomInv`, `OperationInv`)
  has the suppression exactly while it is in progress, has its pixels of the
  layout of its token, and waits for the request that the manager works on;
* `ReaderInv`: who reads holds the suppression, is past its barrier, and the
  frame on the screen *and the last committed one* are its hidden frame. Without
  the committed one the compositor's next presentation would break the claim.

There are some forty actions and only a few ways to touch the cover, so the proof
does not take each action through each conjunct. Every step `Kept` the cover,
`Lowered` it for one reason or `Raised` it, or is a step of the frame or of the
toolbars; one lemma for each of these preserves `CoverInv`, and what remains
to an action is its own user's part of `OwnerInv` and `ReaderInv`. The `...Is`
lemmas at the head say what each helper returns, field by field, so that the
steps above never expand a helper.

### 4.4 The store of the runtime UI state

For any set of writers, any kinds of unreadable files (`StoreAssumption`: they
are not called like the readable ones or like a mode), any number of mutations,
failures, crashes and writes by other programs; of `StoreSpec`, in the module
`RuntimeStateStore_proofs`:

* `StoreTypeCorrect`: the types;
* `StoreKeepsOthersWork`: `StoreLosesNothing`, that every revision the path ever
  named is at the path or beside it, unless another program discarded it or a
  command to replace or reset was about exactly this one;
* `StoreTellsTruth`: `StoreReportsTrue`, that a mutation's result is what it did,
  and that no two mutations report a success about the same revision.

`StoreLosesNothing` alone does not say that what a writer is about to remove is
what it was asked about. `StoreInv` adds `StageInv`: at each step of a mutation,
what is held aside is nothing or the expected revision from the comparison on,
the mode is one that may remove it, and a readable revision so held has been
asked about. With that, every step only moves a revision between the path, a
claim and what is left beside the path, or removes one that may go; the lemma
`Moves` says that this is enough, and each action is one lemma.

The results need two more invariants. `ReportInv` is local to a writer: at each
step, what it has moved, what it holds and what it has noted down are what the
results it may still give will say. `OwnInv` relates the writers: what one holds
aside is nowhere else, a writer past its comparison has its revision for itself,
and the revision of a reported success is nowhere and never comes back. The last
part holds because a revision moves in four ways only (`Moved`: it vanishes, a
new one is written, the path's is claimed, a claim goes back) and the last of
them belongs to a writer whose comparison has failed.

### 4.5 The process broker

For any threads (`BrokerAssumption`: none of them is called like the absence of
one), any number of requests and any capacity; of `BrokerSpec`, in the module
`Processes_proofs`:

* `BrokerTypeCorrect`: the types, with the limit of owned children;
* `CallersAnswered`: `BrokerAnswersOwn`, that what a thread is told is about its
  own request and true;
* `ProviderStays`: `BrokerLeaves`, that of the processes the broker keeps hold of the
  provider of the last successful publication is what remains, however it ends, and
  that no process started detached is ever among the children, which it kills.

`BrokerInv` is the conjunction of six parts beside the types. `Callers`: the lock
is held from the look at the transport to the answer. `OneRequest`: between the
socket's two ends there is one request at most, in one of three places. It holds
also after a thread has given up, which leaves its request behind, because of
`OfHolder`: a request nobody waits for leaves the transport given up, and a thread
looks at the transport under the lock, so nobody sends behind it. `Fates`: a
request that has not been sent has not been carried out, one that was answered
"ok" has, and one that was refused never will be. `Owned`: the one provider alive
is the one retained, or the last published once nothing is retained. `Spawned`: its children are those it was
asked to own. The lemma `Places` turns `OneRequest` into the four cases every step is proved by.

### 4.6 The overlay child

For any number of daemons one after the other, generations, candidate programs
and mishaps (`OverlayAssumption`: they are numbers); of `OverlaySpec`, in the
module `Processes_proofs`:

* `OverlayTypeCorrect`: the types, among them that the owner's child is of the
  owner's generation;
* `OneOverlayActs`: `OverlayOneActor`;
* `LoopIsTidy`: `OverlayTidy`.

Neither property is inductive. `OverlayInv` adds: `Fresh`, that a generation not
reserved yet has nothing; `Enabled`, that one generation at most is enabled,
living or not, and that a daemon past its recovery owns it; `Over`, that while the
broker answers, the daemon's other generations have no living child, no record and
no spawn request that is still to come; `Published`, that a record exists only from
a certain point of its child's start on; `Place` and `Stage`, what the owner, the
child's records and the child have come to at each step of the daemon, whether the
broker answers or only while it does. `Over` is about
the requests a broker may still serve because a daemon gives its transport up with
the first of them. `ChildMove` says what a child does to itself and nothing else,
so that its actions are one case of each proof.

### 4.7 The configuration document

For any files, edit workers and configurators, any number of saves, of writes by
other programs and of retargeted links (`DocAssumption`: no writer is both, and
none is called like the absence of one or like the other programs); of
`DocSpec`, in the module `ConfigDocument_proofs`:

* `DocTypeCorrect`: the types;
* `NothingLost`: `DocNothingLost`, that of the edits ever put into a file only those
  are gone that another program wrote between a save's last look and its rename
  (`docGap`), where the code has no way to notice;
* `OutcomeTrue`: `DocOutcomeTrue`, what a save reports of its edit, its backup and
  its lost races.

`DocInv` gives each writer five facts by where it is in its save. `Path`: what it
has loaded and written by then. `Owner`: the write lock of the file it has pinned
is its own from the comparison to the end, wherever the link points by then.
`Carried`: what it is about to rename carries all that is in the file's place,
but for `docGap`. `Race`: what it has loaded is still current, or the file was
moved since it began, once for each attempt, and once on either side of the
backup if this holds something else. `Told`: what it has reported last.
`Unwritten` relates the writers: an edit not yet renamed into place is in no file
and in nobody's document, so that an edit refused is nowhere for good. The steps
that touch no file keep all of this for the same reason (`Local`), which is proved
once (`LocalKeeps`); the rename, the writes of other programs and the
retargeted link are a lemma each.

### 4.8 The configuration edits

For any actions, chords and gestures, any capacity of the two channels, any number
of gestures and of disturbances, and from any file, whatever lists it spells out and
whatever chords they share (`EditsAssumption`: the constants have these types,
the capacity is not zero, and actions are numbers, in the order of
their resolution); of `EditsSpec`, in the module `ConfigEdits_proofs`:

* `EditsTypeCorrect`: the types, and that neither channel exceeds its capacity;
* `EditsReported`: `EditsReportTruthful`, that every submitted edit is answered,
  handed over, staged or named by the report of teardown, exactly one of these; that
  answers come in the order of the edits; and that what was answered and reported is
  true of the file, also when the thread outlives the loop;
* `EditsForeseen`: `EditsForesee`, that while nothing fails, no other program writes
  the file and no edit asks for a contested chord, the keymap a new shortcut is checked
  against is the one the file will be read as when the edits in flight are written, but
  for contested chords that came back to the file meanwhile; that the file refuses none
  of these edits, and would not have taken one that was refused; and that
  the slot shown is the one the file will have.

`EditsReportTruthful` speaks of sets of numbers, which no step moves one at a time.
`EditsInv` therefore keeps the submitted edits as a ledger (`EdBooks`): those
answered, then those handed over, then those staged, each part in order. Handing
over and answering move a boundary. The exception is an edit given back because no
worker will take it, which is answered before an open one that died with the worker:
the ledger allows for it only once the worker is gone and its completions are drained,
and `EdInOrder` is worded the same way. That the completion received answers the
first open edit is `Pipe`: as long as the worker lives, the open edits are the
completions not yet received, the edit in its hand and its channel, in this order.
`EdCounted` says that a gesture is pending, refused or submitted, and only one of
them, `EdLanding` and `EdUnderway` which edits the file has by where they are, and
`EdSmooth` what a run without a fault never meets: a worker that ends before the
sender is dropped, or a report that names anything before the deadline. The
invariant was checked by TLC before it was proved.

What pump may do to the queues is brought to four cases (`Pumped`) and proved to keep
the invariant once (`PumpSound`), for the submission, the drain and teardown
alike. The steps of the thread change the parts that speak of it (`Worked`), and
`Outlives` is what remains of `Pipe` for a thread that goes on after teardown.

`EditsForesee` compares two keymaps of the future, and neither is one a step changes.
`EdAgreed`, the invariant beside `EditsInv`, ties both to the list of submitted edits:
the run's keymap is what its first stretch up to the last answered edit leaves behind,
and the file agrees (`FileAgrees`) with what the stretch up to the last edit it was
asked to take does (`AskedOver`: for each action, what the last edit of the stretch
asks for). To agree is to offer every action at least what the keymap gives it after
resolution, and to name nothing beyond it but contested chords. At the start this holds
for any file (`StartAgrees`): resolution gives each chord to one action, and to the only
one if there is only one. The
projections are the shortcuts behind the first stretch, in order (`Picks`), and the
ledger says that the edits not yet written are those behind the second (`InLine`), so
both keymaps of the future are what the whole list leaves behind (`AskedNear`: two
that differ in contested chords only still do after the same edits). That the file takes
each edit (`FileTakes`), and that the run can install it, needs one thing more: every first stretch
of the list leaves a keymap in which no chord has two actions. A submission adds one
stretch, and `EdAcceptable` is the check that it is such a one; that is what the check
is made against the projected keymap for. TLC checked `EdAgreed` before it was proved.

### 4.9 What a session restores

For any numbers of changes, requests and losses, and for any number of backups
(`SessionAssumption`: they are numbers), with one at least for the second theorem:
without backups the code does not keep it, which the run `retention` shows. Of
`SessionSpec`, in the module `SessionSave_proofs`:

* `SessionTypeCorrect`: the types;
* `SessionRestored`: `SessionRestores`, that whatever a kill or a power failure
  leaves of the directory, the next start restores the last drawing saved or one
  whose saving has begun since, but for the two leftovers the property names.

`SessionRestores` speaks of what a start would do with each directory; a step of a
save looks at the files and markers one by one, and cannot be seen to keep it. `SsInv`
says that there is a save, at the time `f`, which was the last to become durable, and
that three things hold since. `Current`: in every directory that may be found, a file
not older than `f` holds a drawing a start may restore, and a clear marker is not older
than `f` only if the blank session may be restored. `Covered`: unless the user has cleared
since, the session file, if there is one, is not older than `f`, and it has content,
or a backup not older than `f` stands in for it, marked if a blank session hides it.
`WorkOK`: what each step of a save has established for the next one, such as that
every artifact is older than the save until it renames (`Replacing`), that the backup
of a blank session is marked or about to be (`Marking`), and that what is removed at the
end is not what a start would need (`Tidying`). `f` moves to the save's own
time when its directory is synced, unless it saves a blank session without a clear,
or when its clear marker is synced and there is nothing else to write, and stays
otherwise. A kill changes none of the files, and a power
failure takes one of the directories `AllGood` already speaks of. The lemma
`GoodRestores` draws the property from it.

Both exceptions were found on the way: the invariant first tried failed on TLC with
four losses, where the run has two, and the property with it. `Shadowed` was widened
to the state TLC found, `ssMislaid` added for the other, both are the code's own
behaviour (section 5), and the corrected invariant was checked by TLC before it was
proved.

### 4.10 What is not proved

Only model-checked:

* **Liveness**, `CaptureReturns` of the capture barrier and `SessionAutosaved` among it:
  TLAPS does not treat fairness and ENABLED.
* **`HistoryExact`** of the drawing history.  It says what a sequence of edits of a list
  of shapes amounts to, and the pages are computed with `FoldLeft` and `SelectSeq`, whose
  recursion needs the induction theorems that no installed prover can instantiate.  A
  proof has not been attempted: it would need these operators written as recursive
  functions first, with an induction over sets for each, and an invariant that relates
  every entry of both stacks to the pages before and after it, which `dwPast` and
  `dwFuture` record for that purpose.
* **`ComponentTypesOK`** as a whole: it contains `DrawingTypeOK`, whose distinct
  identities rest on the same page operators.

Both abstract specifications, `CommandPromise` and `ActionPromise`, are proved to be
implemented.

## 5. Where the code disagrees with its own statements

| Run | What it shows |
|---|---|
| `expired` | `ClaimedCommand::commit` rejects a command whose authorization deadline passed and returns Ok; `process_v2_commands` executes it all the same and then fails in `finalize`. |
| `reclaim` | A command published between the two listings of `claim_next` is claimed without its reference, executed, and handed over again afterwards; the assertion in `commit` then ends the daemon. |
| `contention` | Two lock waits inside `claim_next` turn contention with a publishing client into an error that ends the daemon, against the statement that contention defers work. |
| `foreign` | A command of a dead generation whose reference recovery removed is executed by the successor through the path without references. |
| `wedged` | A command refused after its action was prepared leaves its journal entry to the overlay. If `collect_terminal` removes the command's directory first, every claim pass fails at that entry without a retry, and the actions behind it are never delivered nor abandoned. |
| `tofront` | `Frame::move_shape` corrects the target position for a removal that has shortened the list already: a shape brought to the front ends one below it, and of two shapes the back one does not move. |
| `retention` | With `backup_retention` 0 a save removes the session file before it renames the new one into its place: a kill, a power failure or a failing rename in between leaves no session at all. |

`PROJECT.json` quotes the contradicted lines. None of the first four breaks the promise of
`CommandPromise` beyond the exception named there: also in these behaviours a
command runs at most once.

Noticed while modelling, without a run of their own:

* **Spawn backoff.** While a failed start is backed off, `show_overlay` returns
  Ok without starting anything, and a show command is answered `Succeeded`
  (`daemon/overlay/mod.rs:60`); `docs/daemon-protocol-v2.md:17` names a readiness
  record as the proof of a shown overlay. `SkipInBackoff` is this step.
* **Recovery copy.** A recovery copy that a later save failed to remove is older
  than the backup and is still preferred to it when the process dies between the
  rotation and the rename, because it is compared with the session file only
  (`session/snapshot/load/markers.rs:140`); or when session and backup are blank
  and a later save marked the copy recoverable. `SessionRestores` excepts these
  states by name (`Shadowed`).
* **Leftover backup marker.** The marker that keeps a backup alive beside a blank
  session is removed at the end of the save that makes it obsolete
  (`session/snapshot/save.rs:547`), and stays if that fails. If a load fails after
  that and the overlay saves the blank session it shows, the branch that keeps an
  existing backup (`session/snapshot/save.rs:461`) removes the session file as a
  "previous contentless session file" (`:464`), though it has content, and the
  next start restores the older backup. Four failures in a row lead there;
  `SessionRestores` excepts it by name (`ssMislaid`), until the next save with content
  is durable, and holds otherwise.
* **Failed clear.** A clear that fails after its marker reached the disk leaves
  the drawing on the canvas, unmarked as unsaved, and the saved one suppressed:
  it comes back at the next start only if it is changed before
  (`session/snapshot/save.rs:400`). `SessionAutosaved` excepts it.
* **Stacking order.** Undo of a send-to-back does not give back the order: of
  `[a, b, c]` with `c` sent to the back, undo gives `[a, c, b]`
  (`draw/frame/history/frame/apply.rs:85`). `HistoryExact` therefore claims the
  order only until a change of it is undone or redone.
* **Edits during a drag.** Undo, deletion and delayed playback are not blocked
  while a selection is dragged; the release records the drag with the shapes as
  they were when it began. `HistoryExact` claims nothing after one. Delayed
  playback of all steps acts on whichever page is shown when its delay ends
  (`input/state/core/highlight_controls.rs:176`).
* **Restart.** The restore drops the entries that modify a shape that is
  currently undone or deleted, where `docs/CONFIG.md:1545` says that history
  survives restarts; `HistoryExact` excepts restarts that dropped something.
  `docs/CONFIG.md:1550` says `max_shapes_per_frame` trims older shapes;
  `enforce_shape_limits` trims the newest ones, on load only, and duplication
  ignores the limit.
* **Configuration backup.** Between the two comparisons of a save the file may
  change and change back, and the backup then holds what was there in between
  (`config/document.rs:681`); `DocOutcomeTrue` allows for it by asking for at
  most one outside change.
* **Render throttle.** A barrier that is cancelled while its hidden frame is
  awaited, by the user or by a change of the output, leaves the render throttle
  armed; only the barrier's own timeout releases it
  (`state/capture/barrier.rs:225`). If that frame's callback never arrives, the
  frame that restores the overlay is not rendered, and a later barrier waits for
  a rendering without a deadline. `CaptureReturns` excepts this state by name
  (`Unconfirmed`).
* **Failed frame.** A frame whose rendering fails is not asked for again
  (`event_loop/render.rs:147`). If it was the hidden frame of a barrier, the barrier
  stays in its first phase, which has no deadline, and the overlay stays suppressed;
  if it was the one that shows the overlay again, it stays as it was; both until
  something else asks for a frame. `CaptureReturns` excepts this state by name
  (`Unrendered`) and holds but for these two.
* **Contested chord.** When an action lets go of a chord that the file offers to a
  second one too, the run lets a third ask for it and the file refuses it
  (`config/io.rs:566`), although nothing failed and nobody else wrote: the run has not
  read the file since its start. The write is named the arbiter, so this
  is as documented; `EditsForesee` excepts edits that ask for such chords.
* **Zoom.** A direct capture for zoom has no deadline, where one for freeze has
  three seconds and the portal ten. In `sync_zoom_board_mode`
  (`state/zoom.rs:23`) the branch that turns a pending activation into a zoom
  without a capture is never taken, because the abort before it has cleared it.
* **Claimed preferences.** A process that ends between the claim of the runtime
  UI state file and the installation leaves the preferences in a `.recovery`
  sibling only; nothing looks for it at the next start, which begins with the
  defaults. `StoreLosesNothing` counts such a file as kept.

## 6. Plan

In this order; each module extends or is composed with those before it.

1. An abstract specification of a save (the file is a set of edits, each added
   once or refused), refined by `ConfigDocument`, and the same for the worker.
2. `RuntimeUiState`: the controller's pipeline of revisions and its writer
   thread over `RuntimeStateStore`; abstract specification: each accepted
   revision gets one truthful outcome.
3. The rest of `ScreenCapture`: the fullscreen freeze, rendering without vsync,
   the eyedropper's and text recognition's own states, the pipeline.
4. Named sessions over `SessionSave` and the journals of `durable_io`; boards and
   pages over `DrawingHistory`; text and image edits.

### Not modelled

* The controller of the runtime UI state, named sessions (Open, Save As, the
  catalog, the lock) and the journals of `durable_io`: not reached; each is a
  protocol of the kind treated here and in the plan.
* Of a session: files that are corrupt, of a newer version, too large to load or
  not regular, and the paths protected because of them; history trimming; the
  worker's panic and the direct save that replaces it; changes of the output;
  the reset of the tool state.
* The input state machine: single-threaded and sequential; its interesting part,
  the history, is modelled, the rest maps events to modes and has no second
  actor. Its size, not TLC, is the obstacle.
* Toolbars, rendering, theming, text recognition, update check and onboarding:
  output, geometry or thin wrappers of a helper program; their correctness is
  about pixels and words, which these models abstract from.
* Signals, input monitor and clipboard: single calls of system services; the
  clipboard's provider is in `ProcessBroker`.
* The legacy v1 control route and rollback: a compatibility path of the same
  commands without their guarantees.
