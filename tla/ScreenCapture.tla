---------------------------- MODULE ScreenCapture ----------------------------
(***************************************************************************)
(* How the overlay gets out of the way of a capture and comes back: the      *)
(* exclusive suppression of the overlay, the barrier that waits for a hidden *)
(* frame and for the GTK toolbars, and the three users of it: screenshots    *)
(* and PDF backdrops (one worker, one request at a time), freeze, and zoom   *)
(* (src/backend/wayland/state/capture.rs, state/capture/barrier.rs,          *)
(* state/core/overlay.rs, state/zoom.rs, frozen/, zoom/, capture.rs,         *)
(* backend/event_loop/capture.rs, and src/capture/manager.rs).              *)
(*                                                                         *)
(* The main surface uses vsync; an xdg window's fullscreen freeze, and the   *)
(* eyedropper and text recognition beyond their cancelling of a freeze, are  *)
(* left out.  A layout is a number: output, geometry and scale of the       *)
(* surface.  A zoom's direct and portal captures differ only in the         *)
(* deadline of the second and are one stage here.  The toolbars are the GTK  *)
(* ones: the built-in layer toolbars, which take over when the GTK bridge    *)
(* fails and are rendered beside the main surface, are left out, and with    *)
(* them what they show under a capture.                                      *)
(***************************************************************************)
EXTENDS Integers, FiniteSets
CONSTANTS Backends,     \* available frozen backends, of "wlr", "ext", "portal"
          MaxAttempts,  \* bound: actions of the user
          MaxLayouts,   \* bound: layouts of the outputs
          MaxFaults     \* bound: frames not rendered or never presented, workers and GTK
                        \* threads that end

ASSUME CaptureAssumption ==
  /\ Backends \subseteq {"wlr", "ext", "portal"} /\ Backends # {}
  /\ MaxAttempts \in Nat /\ MaxLayouts \in Nat \ {0} /\ MaxFaults \in Nat

Nothing == 0      \* no layout, no request
Unthrottled == -1 \* no frame callback outstanding
MaxRenderFailures == 10
Screenshots == {"capture", "backdrop"}
Guarded == Screenshots \cup {"frozen", "zoom"}   \* requires_capture_barrier
Direct == {"wlr", "ext"}

VARIABLES
  scCover,   \* suppression of the overlay, its barrier, last generation, needs_redraw
  scFrame,   \* last committed content, content on the screen, callbacks owed and sent,
             \* throttle, consecutive_render_failures
  scGtk,     \* GTK toolbars: alive, what they show, last generation answered, feedback sent
  scFreeze,  \* FrozenState: stage, preflight layout, layout of the capture and token, image shown
  scZoom,    \* ZoomState: the same, and whether zoom is off, pending or on
  scOp,      \* CaptureState: in_progress, accepted_id, preflight, request, pending PDF export
  scMgr,     \* CaptureManager and its worker
  scLayout,  \* output_layout_generation and the active output
  scOpaque,  \* the board hides the desktop
  scSpent    \* bounds used up: attempts, faults

scVars == <<scCover, scFrame, scGtk, scFreeze, scZoom, scOp, scMgr, scLayout, scOpaque, scSpent>>

NoBarrier == [gen |-> 0, reason |-> "none", phase |-> "none", gtk |-> FALSE]
OpIdle == [busy |-> FALSE, accepted |-> Nothing, phase |-> "none", request |-> "none", pdf |-> Nothing]
NoMessage == [id |-> Nothing, ok |-> FALSE]

CaptureInit ==
  /\ scCover = [sup |-> "none", barrier |-> NoBarrier, gen |-> 0, redraw |-> FALSE]
  /\ scFrame = [committed |-> "full", screen |-> "full", owed |-> {}, sent |-> {},
                throttle |-> Unthrottled, failures |-> 0]
  /\ scGtk \in [alive : BOOLEAN, bars : {"shown"}, answered : {0}, said : {{}}]
  /\ scFreeze = [stage |-> "idle", pre |-> Nothing, at |-> Nothing, token |-> Nothing,
                 image |-> Nothing, done |-> FALSE]
  /\ scZoom = [stage |-> "idle", pre |-> Nothing, at |-> Nothing, image |-> Nothing,
               done |-> FALSE, mode |-> "off"]
  /\ scOp = OpIdle
  /\ scMgr = [active |-> Nothing, next |-> 1, healthy |-> TRUE, dead |-> FALSE,
              work |-> Nothing, kind |-> "none", message |-> NoMessage]
  /\ scLayout = 1 /\ scOpaque = FALSE /\ scSpent = [attempts |-> 0, faults |-> 0]

---------------------------------------------------------------------------
(* Suppression and what a frame shows under it *)

Entered(c, reason) ==
  IF reason \in Guarded
  THEN [sup |-> reason, gen |-> c.gen + 1, redraw |-> TRUE,
        barrier |-> [gen |-> c.gen + 1, reason |-> reason, phase |-> "render", gtk |-> scGtk.alive]]
  ELSE [c EXCEPT !.sup = reason, !.redraw = TRUE]

\* Mutant: nothing asks for the frame that shows the overlay again.
LeftUnseen(c, reason) ==
  IF c.sup # reason THEN c
  ELSE [c EXCEPT !.sup = "none", !.barrier = IF @.reason = reason THEN NoBarrier ELSE @]

Left(c, reason) ==
  IF c.sup # reason THEN c
  ELSE [c EXCEPT !.sup = "none", !.redraw = TRUE,
                 !.barrier = IF @.reason = reason THEN NoBarrier ELSE @]

\* Mutant: a PDF export's suppression is not ended.
OverlayShownForCapture(c) == Left(c, "capture")

OverlayShown(c) == Left(Left(c, "capture"), "backdrop")

\* A screenshot keeps the drawing and hides the interface; the others hide both.
Content(reason) ==
  IF reason = "none" THEN "full" ELSE IF reason = "capture" THEN "canvas" ELSE "clear"

---------------------------------------------------------------------------
(* Freeze and zoom *)

Freezing == scFreeze.stage # "idle"
\* Ends without a cancel: the layout of the preflight is kept.
FreezeEnded(f) ==
  [f EXCEPT !.stage = "idle", !.at = Nothing, !.token = Nothing, !.image = Nothing, !.done = TRUE]
FreezeCancelled(f) == [FreezeEnded(f) EXCEPT !.pre = Nothing]

FallbacksOf(backend) ==
  Backends \cap (IF backend = "wlr" THEN {"ext", "portal"}
                ELSE IF backend = "ext" THEN {"portal"} ELSE {})
PreferredBackend ==
  IF "wlr" \in Backends THEN "wlr" ELSE IF "ext" \in Backends THEN "ext" ELSE "portal"

PreflightCurrent(source) == source.pre \in {Nothing, scLayout}

\* begin_capture_chain over the backends left: one that starts, or none does.
ChainOutcomes(f, backends) ==
  {FreezeCancelled(f)} \cup
  {[f EXCEPT !.stage = b, !.at = scLayout, !.done = @ /\ b # "wlr"] :
     b \in {b \in backends : PreflightCurrent(f)}}

\* Mutant: the layout under which the attempt began is not compared.
PixelsTaken(f) == [f EXCEPT !.stage = "pending", !.token = scLayout]

\* A direct attempt whose pixels arrived, or a portal's.
PixelsReady(f) ==
  IF f.at = scLayout THEN [f EXCEPT !.stage = "pending", !.token = scLayout] ELSE FreezeEnded(f)

ZoomCancelled(z, forced) ==
  LET gone == forced \/ z.image = Nothing
  IN [z EXCEPT !.stage = "idle", !.pre = Nothing, !.at = Nothing, !.done = TRUE,
               !.image = IF gone THEN Nothing ELSE @,
               !.mode = IF gone \/ @ = "pending" THEN "off" ELSE @]

ZoomAborted(z) ==
  [z EXCEPT !.stage = "idle", !.pre = Nothing, !.at = Nothing, !.done = @ \/ z.stage # "idle" \/ z.mode = "pending",
            !.mode = IF @ = "pending" THEN "off" ELSE @]

ZoomRead(z) ==
  IF z.at # scLayout THEN ZoomCancelled(z, FALSE)
  ELSE [z EXCEPT !.stage = "idle", !.at = Nothing, !.image = z.at, !.done = TRUE,
                 !.mode = IF @ = "pending" THEN "on" ELSE @]

ZoomOutcomes(z) ==
  {ZoomCancelled(z, FALSE)} \cup {r \in {[z EXCEPT !.stage = "read", !.at = scLayout]} : PreflightCurrent(z)}

\* start_zoom_capture has nothing to do, or cannot enter its suppression.
ZoomIdles(z, forced) ==
  z.stage # "idle" \/ (~forced /\ z.image # Nothing) \/ scOpaque \/ Freezing
ZoomPreflight(z) == [z EXCEPT !.stage = "preflight", !.pre = scLayout, !.done = FALSE]

\* start_zoom_capture, and what its callers do with its failure.
StartZoom(z) ==
  IF ZoomIdles(z, FALSE) THEN scZoom' = z /\ UNCHANGED scCover
  ELSE IF scCover.sup = "none"
       THEN scZoom' = ZoomPreflight(z) /\ scCover' = Entered(scCover, "zoom")
       ELSE scZoom' = ZoomCancelled(z, TRUE) /\ scCover' = Left(scCover, "zoom")

---------------------------------------------------------------------------
(* The capture manager *)

\* try_submit and accept_capture_submission, for a state in progress.
Submit(kind, op, c) ==
  LET refused == ~scMgr.healthy \/ (scMgr.active = Nothing /\ scMgr.dead)
      busy == scMgr.healthy /\ scMgr.active # Nothing
  IN IF refused
     THEN /\ scOp' = OpIdle /\ scCover' = OverlayShown(c)
          /\ scMgr' = [scMgr EXCEPT !.healthy = FALSE]
     ELSE IF busy THEN scOp' = op /\ scCover' = c /\ UNCHANGED scMgr
     ELSE /\ scOp' = [op EXCEPT !.accepted = scMgr.next] /\ scCover' = c
          /\ scMgr' = [scMgr EXCEPT !.active = scMgr.next, !.next = @ + 1, !.work = scMgr.next,
                                    !.kind = kind]

CancelPreflight(reason, c) ==
  /\ scCover' = IF reason \in Screenshots THEN OverlayShown(c) ELSE Left(c, reason)
  /\ scOp' = IF reason \in Screenshots THEN OpIdle ELSE scOp
  /\ scFreeze' = IF reason = "frozen" THEN FreezeCancelled(scFreeze) ELSE scFreeze
  /\ scZoom' = IF reason = "zoom" THEN ZoomCancelled(scZoom, FALSE) ELSE scZoom

\* begin_ready_overlay_capture: the barrier is taken, and its owner reads the screen.
BeginReady(reason, c) ==
  IF c.sup = reason /\ reason = "frozen" /\ scFreeze.stage = "preflight"
  THEN /\ scFreeze' \in ChainOutcomes(scFreeze, {PreferredBackend} \cup FallbacksOf(PreferredBackend))
       /\ scCover' = c /\ UNCHANGED <<scZoom, scOp, scMgr>>
  ELSE IF c.sup = reason /\ reason = "zoom" /\ scZoom.stage = "preflight"
  THEN scZoom' \in ZoomOutcomes(scZoom) /\ scCover' = c /\ UNCHANGED <<scFreeze, scOp, scMgr>>
  ELSE IF c.sup = reason /\ reason \in Screenshots /\ scOp.phase = "frame"
  THEN /\ Submit(reason, [scOp EXCEPT !.phase = "none", !.request = "none"], c)
       /\ UNCHANGED <<scFreeze, scZoom>>
  ELSE CancelPreflight(reason, c) /\ UNCHANGED scMgr

---------------------------------------------------------------------------
(* Actions of the user: a freeze is toggled after apply_capture_completion, the others
   are taken as their event arrives *)

Applied == ~scFreeze.done /\ ~scZoom.done
Spend ==
  /\ scSpent.attempts < MaxAttempts
  /\ scSpent' = [scSpent EXCEPT !.attempts = @ + 1]
Attempt == Spend /\ UNCHANGED <<scFrame, scGtk, scLayout>>

ScFreeze ==
  /\ Attempt /\ Applied /\ ~Freezing /\ scFreeze.image = Nothing /\ scCover.sup = "none"
  /\ scCover' = Entered(scCover, "frozen")
  /\ scFreeze' = [scFreeze EXCEPT !.stage = "preflight", !.pre = scLayout, !.done = FALSE]
  /\ UNCHANGED <<scZoom, scOp, scMgr, scOpaque>>

ScUnfreeze ==
  /\ Attempt /\ Applied /\ ~Freezing /\ scFreeze.image # Nothing
  /\ scFreeze' = [scFreeze EXCEPT !.image = Nothing] /\ scCover' = [scCover EXCEPT !.redraw = TRUE]
  /\ UNCHANGED <<scZoom, scOp, scMgr, scOpaque>>

\* The eyedropper, or text recognition, gives up the freeze it asked for.
ScCancelFreeze ==
  /\ Attempt /\ Freezing
  /\ scFreeze' = FreezeCancelled(scFreeze) /\ scCover' = Left(scCover, "frozen")
  /\ UNCHANGED <<scZoom, scOp, scMgr, scOpaque>>

\* On a board that hides the desktop, zoom needs no image: what there was is dropped.
ScZoomIn ==
  /\ Attempt
  /\ IF scOpaque
     THEN /\ scZoom' = [ZoomAborted(scZoom) EXCEPT !.image = Nothing, !.mode = "on"]
          /\ scCover' = IF scZoom.stage # "idle" \/ scZoom.mode = "pending"
                        THEN Left(scCover, "zoom") ELSE scCover
     ELSE StartZoom([scZoom EXCEPT !.mode = IF @ = "off" THEN "pending" ELSE @])
  /\ UNCHANGED <<scFreeze, scOp, scMgr, scOpaque>>

ScZoomRefresh ==
  /\ Attempt /\ scZoom.mode = "on" /\ ~ZoomIdles(scZoom, TRUE) /\ scCover.sup = "none"
  /\ scZoom' = ZoomPreflight(scZoom) /\ scCover' = Entered(scCover, "zoom")
  /\ UNCHANGED <<scFreeze, scOp, scMgr, scOpaque>>

ScZoomExit ==
  /\ Attempt /\ scZoom.mode # "off"
  /\ scZoom' = ZoomCancelled(scZoom, TRUE) /\ scCover' = Left(scCover, "zoom")
  /\ UNCHANGED <<scFreeze, scOp, scMgr, scOpaque>>

\* handle_capture_action, and a PDF export that needs the desktop behind the drawing.
ScScreenshot ==
  /\ Attempt /\ ~scOp.busy /\ scCover.sup = "none"
  /\ \E reason \in Screenshots :
       /\ scCover' = Entered(scCover, reason)
       /\ scOp' = [OpIdle EXCEPT !.busy = TRUE, !.phase = "render", !.request = reason,
                                 !.pdf = IF reason = "backdrop" THEN scLayout ELSE Nothing]
  /\ UNCHANGED <<scFreeze, scZoom, scMgr, scOpaque>>

\* A canvas export, or a PDF export without the desktop, is submitted at once.
ScExport ==
  /\ Attempt /\ ~scOp.busy
  /\ Submit("export", [scOp EXCEPT !.busy = TRUE], scCover)
  /\ UNCHANGED <<scFreeze, scZoom, scOpaque>>

\* The session file dialog covers no capture, and has no barrier.  Its frames are
\* committed at once, throttled or not, unless every buffer is in flight or rendering
\* fails: then it is not opened, and when it closes the frame is left to the loop.
ScDialog ==
  LET flushed(content) == [scFrame EXCEPT !.committed = content, !.throttle = 0, !.owed = @ \cup {0}]
  IN /\ Spend /\ UNCHANGED <<scGtk, scLayout, scFreeze, scZoom, scOp, scMgr, scOpaque>>
     /\ \/ /\ scCover.sup = "none" /\ scCover' = Entered(scCover, "dialog")
           /\ scFrame' = flushed("clear")
        \/ /\ scCover.sup = "none" /\ scCover' = [scCover EXCEPT !.redraw = TRUE]
           /\ scFrame' \in {scFrame, flushed("full")}
        \/ /\ scCover.sup = "dialog" /\ scCover' = Left(scCover, "dialog")
           /\ scFrame' \in {scFrame, flushed("full")}

\* Another board is shown, from the keyboard or by an action of the daemon.
ScSwitchBoard ==
  /\ Attempt /\ scOpaque' = ~scOpaque /\ scCover' = [scCover EXCEPT !.redraw = TRUE]
  /\ UNCHANGED <<scFreeze, scZoom, scOp, scMgr>>

---------------------------------------------------------------------------
(* The event loop *)

\* What sync_zoom_board_mode has to correct, in every pass before it renders.
ZoomUnsettled ==
  IF scOpaque
  THEN scCover.sup = "zoom" \/ scZoom.stage # "idle" \/ scZoom.mode = "pending" \/ scZoom.image # Nothing
  ELSE scZoom.mode # "off" /\ scZoom.image = Nothing /\ scZoom.stage = "idle" /\ ~Freezing

ScSyncZoom ==
  /\ Applied /\ ZoomUnsettled
  /\ IF scOpaque
     THEN /\ scZoom' = [ZoomAborted(scZoom) EXCEPT !.image = Nothing]
          /\ scCover' = [Left(scCover, "zoom") EXCEPT !.redraw = TRUE]
     ELSE StartZoom(scZoom)
  /\ UNCHANGED <<scFrame, scGtk, scFreeze, scOp, scMgr, scLayout, scOpaque, scSpent>>

ScApplyCompletion ==
  /\ ~Applied
  /\ LET c == IF scFreeze.done THEN Left(scCover, "frozen") ELSE scCover
     IN scCover' = IF scZoom.done THEN Left(c, "zoom") ELSE c
  /\ scFreeze' = [scFreeze EXCEPT !.done = FALSE] /\ scZoom' = [scZoom EXCEPT !.done = FALSE]
  /\ UNCHANGED <<scFrame, scGtk, scOp, scMgr, scLayout, scOpaque, scSpent>>

\* The commit carries the barrier's generation when nothing else is waited for.
CommitGeneration ==
  IF scCover.barrier.phase = "render" /\ ~scCover.barrier.gtk THEN scCover.barrier.gen ELSE 0

RenderDue == scCover.redraw /\ scFrame.throttle = Unthrottled /\ ~ZoomUnsettled

\* While every buffer is held by the compositor the frame stays due and nothing is done.
ScRender ==
  /\ RenderDue
  /\ scFrame' = [scFrame EXCEPT !.committed = Content(scCover.sup), !.throttle = CommitGeneration,
                                !.owed = @ \cup {CommitGeneration}, !.failures = 0]
  /\ scCover' = [scCover EXCEPT !.redraw = FALSE,
                                !.barrier.phase = IF CommitGeneration # 0 THEN "frame" ELSE @]
  /\ scOp' = [scOp EXCEPT !.phase = IF scCover.sup \in Screenshots /\ @ = "render" THEN "frame" ELSE @]
  /\ UNCHANGED <<scGtk, scFreeze, scZoom, scMgr, scLayout, scOpaque, scSpent>>

\* handle_render_failure: a frame that cannot be rendered commits nothing and is not
\* asked for again.  The tenth failure in a row, which ends the loop, is left out.
ScRenderFails ==
  /\ RenderDue /\ scFrame.failures + 1 < MaxRenderFailures /\ scSpent.faults < MaxFaults
  /\ scSpent' = [scSpent EXCEPT !.faults = @ + 1]
  /\ scFrame' = [scFrame EXCEPT !.failures = @ + 1] /\ scCover' = [scCover EXCEPT !.redraw = FALSE]
  /\ UNCHANGED <<scGtk, scFreeze, scZoom, scOp, scMgr, scLayout, scOpaque>>

\* Mutant: any guarded frame confirms the barrier.
MarksReadyLate(gen) == scCover.barrier.phase = "frame"

MarksReady(gen) == scCover.barrier.gen = gen /\ scCover.barrier.phase = "frame"

ScFrameCallback ==
  \E gen \in scFrame.sent :
    /\ scFrame' = [scFrame EXCEPT !.sent = @ \ {gen},
                                  !.throttle = IF @ = gen THEN Unthrottled ELSE @]
    /\ IF gen # 0 /\ MarksReady(gen)
       THEN BeginReady(scCover.barrier.reason, [scCover EXCEPT !.barrier = NoBarrier])
       ELSE UNCHANGED <<scCover, scFreeze, scZoom, scOp, scMgr>>
    /\ UNCHANGED <<scGtk, scLayout, scOpaque, scSpent>>

\* A second without the callback: the throttle is released and the capture given up.
ScBarrierTimeout ==
  /\ scCover.barrier.phase = "frame"
  /\ scFrame' = [scFrame EXCEPT !.throttle = Unthrottled]
  /\ CancelPreflight(scCover.barrier.reason, scCover)
  /\ UNCHANGED <<scGtk, scMgr, scLayout, scOpaque, scSpent>>

WaitsForGtk(gen) == scCover.barrier.gtk /\ scCover.barrier.gen = gen

ScGtkFeedback ==
  \E said \in scGtk.said :
    /\ scGtk' = [scGtk EXCEPT !.said = @ \ {said}]
    /\ IF ~WaitsForGtk(said.gen) THEN UNCHANGED <<scCover, scFreeze, scZoom, scOp>>
       ELSE IF said.ok
       THEN /\ scCover' = [scCover EXCEPT !.barrier.gtk = FALSE, !.barrier.phase = "render", !.redraw = TRUE]
            /\ UNCHANGED <<scFreeze, scZoom, scOp>>
       ELSE CancelPreflight(scCover.barrier.reason, scCover)
    /\ UNCHANGED <<scFrame, scMgr, scLayout, scOpaque, scSpent>>

\* A failed bridge is dropped once the feedback before it has been applied.
ScGtkLost ==
  /\ scGtk.alive /\ scGtk.said = {} /\ scSpent.faults < MaxFaults
  /\ scSpent' = [scSpent EXCEPT !.faults = @ + 1]
  /\ scGtk' = [scGtk EXCEPT !.alive = FALSE, !.bars = "clear"]
  /\ IF scCover.barrier.gtk THEN CancelPreflight(scCover.barrier.reason, scCover)
     ELSE UNCHANGED <<scCover, scFreeze, scZoom, scOp>>
  /\ UNCHANGED <<scFrame, scMgr, scLayout, scOpaque>>

\* A direct attempt delivers, a portal's result is polled, a pending image is shown.
ScFreezeReady ==
  /\ scFreeze.stage \in Direct \cup {"portal"}
  /\ scFreeze' = PixelsReady(scFreeze)
  /\ UNCHANGED <<scCover, scFrame, scGtk, scZoom, scOp, scMgr, scLayout, scOpaque, scSpent>>

\* A direct attempt fails, or its three seconds pass: the next backend is tried.
ScFreezeFallback ==
  /\ scFreeze.stage \in Direct
  /\ scFreeze' \in ChainOutcomes(scFreeze, FallbacksOf(scFreeze.stage))
  /\ UNCHANGED <<scCover, scFrame, scGtk, scZoom, scOp, scMgr, scLayout, scOpaque, scSpent>>

\* The portal refuses, breaks, or its ten seconds pass.
ScFreezePortalFails ==
  /\ scFreeze.stage = "portal" /\ scFreeze' = FreezeEnded(scFreeze)
  /\ UNCHANGED <<scCover, scFrame, scGtk, scZoom, scOp, scMgr, scLayout, scOpaque, scSpent>>

\* An image of this layout may still not fit the surface.
ScActivateFrozen ==
  /\ scFreeze.stage = "pending"
  /\ \/ /\ scFreeze.token = scLayout
        /\ scFreeze' = [FreezeEnded(scFreeze) EXCEPT !.image = scFreeze.at]
        /\ scCover' = [scCover EXCEPT !.redraw = TRUE]
     \/ scFreeze' = FreezeEnded(scFreeze) /\ UNCHANGED scCover
  /\ UNCHANGED <<scFrame, scGtk, scZoom, scOp, scMgr, scLayout, scOpaque, scSpent>>

ScZoomAnswer ==
  /\ scZoom.stage = "read" /\ scZoom' \in {ZoomRead(scZoom), ZoomCancelled(scZoom, FALSE)}
  /\ scCover' = [scCover EXCEPT !.redraw = TRUE]
  /\ UNCHANGED <<scFrame, scGtk, scFreeze, scOp, scMgr, scLayout, scOpaque, scSpent>>

\* handle_capture_manager_failure
ManagerFailed(m) ==
  /\ scMgr' = [m EXCEPT !.healthy = FALSE, !.active = Nothing, !.kind = "none", !.work = Nothing]
  /\ scOp' = OpIdle /\ scCover' = OverlayShown(scCover)

\* A result that arrived: a backdrop goes on to its document, everything else ends.
TakeResult ==
  LET ended == [scMgr EXCEPT !.message = NoMessage, !.active = Nothing, !.kind = "none"]
      document == scMgr.kind = "backdrop" /\ scMgr.message.ok /\ scOp.pdf = scLayout
  IN IF ~document
     THEN scMgr' = ended /\ scOp' = OpIdle /\ scCover' = OverlayShown(scCover)
     ELSE IF scMgr.dead
     THEN scMgr' = [ended EXCEPT !.healthy = FALSE] /\ scOp' = OpIdle /\ scCover' = OverlayShown(scCover)
     ELSE /\ scMgr' = [ended EXCEPT !.active = scMgr.next, !.next = @ + 1, !.work = scMgr.next,
                                    !.kind = "export"]
          /\ scOp' = [OpIdle EXCEPT !.busy = TRUE, !.accepted = scMgr.next]
          /\ scCover' = OverlayShown(scCover)

ScCaptureResults ==
  /\ scMgr.healthy
  /\ IF scMgr.message # NoMessage
     THEN IF scMgr.message.id = scMgr.active /\ scOp.accepted = scMgr.active THEN TakeResult
          ELSE ManagerFailed([scMgr EXCEPT !.message = NoMessage])
     ELSE scMgr.dead /\ ManagerFailed(scMgr)
  /\ UNCHANGED <<scFrame, scGtk, scFreeze, scZoom, scLayout, scOpaque, scSpent>>

\* The compositor reports another geometry of the surface, or another output.
ScLayoutChange ==
  /\ scLayout < MaxLayouts /\ scLayout' = scLayout + 1
  /\ \E kind \in {"same size", "resized", "moved"} :
       /\ scFreeze' = [scFreeze EXCEPT !.image = IF kind = "same size" THEN @ ELSE Nothing]
       /\ scZoom' = IF kind = "moved" \/ (kind = "resized" /\ scZoom.image # Nothing)
                    THEN ZoomCancelled(scZoom, TRUE) ELSE scZoom
       /\ scCover' = [scCover EXCEPT !.redraw = @ \/ kind # "same size"]
  /\ UNCHANGED <<scFrame, scGtk, scOp, scMgr, scOpaque, scSpent>>

---------------------------------------------------------------------------
(* The compositor, the GTK thread and the worker *)

\* What was committed last reaches the screen, and every callback owed is sent.
ScPresent ==
  /\ scFrame.owed # {}
  /\ scFrame' = [scFrame EXCEPT !.screen = scFrame.committed, !.sent = @ \cup scFrame.owed, !.owed = {}]
  /\ UNCHANGED <<scCover, scGtk, scFreeze, scZoom, scOp, scMgr, scLayout, scOpaque, scSpent>>

\* A hidden frame is never presented, nor its callback sent.
ScFrameLost ==
  /\ scSpent.faults < MaxFaults /\ scSpent' = [scSpent EXCEPT !.faults = @ + 1]
  /\ \E gen \in scFrame.owed \ {0} : scFrame' = [scFrame EXCEPT !.owed = @ \ {gen}]
  /\ UNCHANGED <<scCover, scGtk, scFreeze, scZoom, scOp, scMgr, scLayout, scOpaque>>

\* The toolbars follow the last update sent to them.
GtkTarget == IF scCover.sup = "none" THEN "shown" ELSE "clear"
ScGtkPaint ==
  /\ scGtk.alive /\ scGtk.bars # GtkTarget /\ scGtk' = [scGtk EXCEPT !.bars = GtkTarget]
  /\ UNCHANGED <<scCover, scFrame, scFreeze, scZoom, scOp, scMgr, scLayout, scOpaque, scSpent>>

ScGtkAnswer ==
  /\ scGtk.alive /\ scCover.barrier.gtk /\ scGtk.answered < scCover.barrier.gen
  /\ \E ok \in BOOLEAN :
       /\ ok => scGtk.bars = "clear"
       /\ scGtk' = [scGtk EXCEPT !.answered = scCover.barrier.gen,
                                 !.said = @ \cup {[gen |-> scCover.barrier.gen, ok |-> ok]}]
  /\ UNCHANGED <<scCover, scFrame, scFreeze, scZoom, scOp, scMgr, scLayout, scOpaque, scSpent>>

ScWorkerDone ==
  /\ scMgr.work # Nothing
  /\ \E ok \in BOOLEAN :
       scMgr' = [scMgr EXCEPT !.message = [id |-> scMgr.work, ok |-> ok], !.work = Nothing]
  /\ UNCHANGED <<scCover, scFrame, scGtk, scFreeze, scZoom, scOp, scLayout, scOpaque, scSpent>>

ScWorkerEnds ==
  /\ ~scMgr.dead /\ scMgr.healthy /\ scSpent.faults < MaxFaults
  /\ scSpent' = [scSpent EXCEPT !.faults = @ + 1]
  /\ scMgr' = [scMgr EXCEPT !.dead = TRUE, !.work = Nothing]
  /\ UNCHANGED <<scCover, scFrame, scGtk, scFreeze, scZoom, scOp, scLayout, scOpaque>>

---------------------------------------------------------------------------
CaptureUser ==
  \/ ScFreeze \/ ScUnfreeze \/ ScCancelFreeze \/ ScZoomIn \/ ScZoomRefresh \/ ScZoomExit
  \/ ScScreenshot \/ ScExport \/ ScDialog \/ ScSwitchBoard

CaptureLoop ==
  \/ ScSyncZoom \/ ScApplyCompletion \/ ScRender \/ ScFrameCallback \/ ScGtkFeedback
  \/ ScActivateFrozen \/ ScCaptureResults

\* What ends by a deadline or by an answer of somebody else.
CaptureEnds ==
  ScBarrierTimeout \/ ScFreezeFallback \/ ScFreezePortalFails \/ ScZoomAnswer \/ ScWorkerDone

CaptureNext ==
  \/ CaptureUser \/ CaptureLoop \/ CaptureEnds \/ ScFreezeReady \/ ScLayoutChange
  \/ ScPresent \/ ScFrameLost \/ ScRenderFails \/ ScGtkPaint \/ ScGtkAnswer \/ ScGtkLost \/ ScWorkerEnds

CaptureSpec == CaptureInit /\ [][CaptureNext]_scVars

---------------------------------------------------------------------------
Layouts == 1..MaxLayouts

Barriers == [gen : Nat, reason : Guarded \cup {"none"}, phase : {"none", "render", "frame"},
             gtk : BOOLEAN]
Covers == [sup : Guarded \cup {"none", "dialog"}, gen : Nat, redraw : BOOLEAN, barrier : Barriers]

\* With callbacks and feedback of no later generation than the last one.
Frames(last) ==
  [committed : {"full", "canvas", "clear"}, screen : {"full", "canvas", "clear"},
   owed : SUBSET (0..last), sent : SUBSET (0..last), throttle : Unthrottled..last,
   failures : Nat]
Toolbars(last) ==
  [alive : BOOLEAN, bars : {"shown", "clear"}, answered : 0..last,
   said : SUBSET [gen : 1..last, ok : BOOLEAN]]

Freezes ==
  LET layout == Layouts \cup {Nothing}
  IN [stage : {"idle", "preflight", "pending"} \cup Backends, done : BOOLEAN,
      pre : layout, at : layout, token : layout, image : layout]
Zooms ==
  LET layout == Layouts \cup {Nothing}
  IN [stage : {"idle", "preflight", "read"}, done : BOOLEAN, mode : {"off", "pending", "on"},
      pre : layout, at : layout, image : layout]

CaptureOps ==
  [busy : BOOLEAN, accepted : Nat, phase : {"none", "render", "frame"},
   request : Screenshots \cup {"none"}, pdf : Layouts \cup {Nothing}]
Managers ==
  [active : Nat, next : Nat, healthy : BOOLEAN, dead : BOOLEAN, work : Nat,
   kind : Screenshots \cup {"none", "export"}, message : [id : Nat, ok : BOOLEAN]]

Bounds == [attempts : 0..MaxAttempts, faults : 0..MaxFaults]

\* Types of the variables.
CaptureTypeOK ==
  /\ scCover \in Covers /\ scFrame \in Frames(scCover.gen) /\ scGtk \in Toolbars(scCover.gen)
  /\ scFreeze \in Freezes /\ scZoom \in Zooms /\ scOp \in CaptureOps /\ scMgr \in Managers
  /\ scLayout \in Layouts /\ scOpaque \in BOOLEAN
  /\ scSpent \in Bounds

\* Who reads the screen now.
Reads(reason) ==
  \/ reason = "frozen" /\ scFreeze.stage \in Backends
  \/ reason = "zoom" /\ scZoom.stage = "read"
  \/ reason \in Screenshots /\ scMgr.work # Nothing /\ scMgr.kind = reason

\* Whoever reads the screen finds on it only what his capture may contain: the hidden
\* frame has been presented, not just committed, and the GTK toolbars are transparent
\* (state/capture/barrier.rs: a late callback or a late answer of an earlier barrier
\* never starts a capture).
CaptureUncovered ==
  \A reason \in Guarded : Reads(reason) =>
     scFrame.screen = Content(reason) /\ (scGtk.alive => scGtk.bars = "clear")

\* A suppression, a barrier and an operation in progress always have each other, so
\* that none is left behind that nobody ends, and the manager is never busy with a
\* request the loop does not wait for (manager.rs answers Busy, and a Busy answer
\* leaves the operation of the loop in progress).
CaptureOwned ==
  /\ scCover.barrier # NoBarrier => scCover.barrier.reason = scCover.sup
  /\ scCover.sup = "frozen" => Freezing \/ scFreeze.done
  /\ Freezing => scCover.sup = "frozen"
  /\ scCover.sup = "zoom" => scZoom.stage # "idle" \/ scZoom.done
  /\ scZoom.stage # "idle" => scCover.sup = "zoom"
  /\ scCover.sup \in Screenshots <=> scOp.busy /\ (scOp.request # "none" \/ scMgr.kind \in Screenshots)
  /\ scOp.busy <=> scOp.request # "none" \/ scOp.accepted # Nothing
  /\ scOp.accepted = scMgr.active
  /\ scOp.accepted # Nothing => scMgr.work = scOp.accepted \/ scMgr.message.id = scOp.accepted \/ scMgr.dead

\* A frozen or zoomed image that appears was taken under the layout that is current
\* then (frozen/capture.rs, zoom/capture.rs: the outputs may change between the
\* request, the pixels and the activation).
CaptureFresh ==
  [][/\ scFreeze'.image \in {scFreeze.image, Nothing, scLayout}
     /\ scZoom'.image \in {scZoom.image, Nothing, scLayout}]_scVars

\* The overlay waits for a callback that was lost and that no barrier waits for any more:
\* the capture ended while its hidden frame was awaited, by the user or by a change of
\* the output, and only the barrier's own deadline would have released the throttle.
Unconfirmed ==
  /\ scFrame.throttle \notin {Unthrottled} \cup scFrame.owed \cup scFrame.sent
  /\ scCover.barrier.phase # "frame"

\* A frame could not be rendered and nothing has asked for another one since
\* (handle_render_failure clears needs_redraw).  A barrier that waits for its hidden frame
\* to be rendered has no deadline yet, and a frame that was to show the overlay again is
\* not made up for: both wait for the next event that asks for a frame.
Unrendered == scFrame.failures > 0 /\ ~scCover.redraw

\* The overlay comes back: again and again nothing but a dialog of the user's keeps it
\* hidden, no capture is in progress, and a frame that shows the drawing is committed,
\* although a frame may not be rendered at first, a hidden frame may never be presented,
\* a compositor may not answer a freeze, and the worker or the GTK thread may end
\* (barrier.rs, poll_overlay_capture_barrier_timeout).  The two exceptions are
\* Unconfirmed and Unrendered.
CaptureReturns ==
  []<>\/ Unconfirmed \/ Unrendered
      \/ /\ scCover.sup \in {"none", "dialog"} /\ ~scOp.busy
         /\ scCover.sup = "none" => scFrame.committed = "full"
=============================================================================
