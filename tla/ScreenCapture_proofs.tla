----------------------- MODULE ScreenCapture_proofs -----------------------
(***************************************************************************)
(* Proofs about ScreenCapture, for any backends, any number of attempts,   *)
(* layouts and faults.  The argument:                                      *)
(*   - the ...Is lemmas say what a helper returns, field by field;         *)
(*   - a step keeps the cover of the overlay, lowers it for one reason,    *)
(*     raises it again, or is one of the three steps of the barrier        *)
(*     (Kept, Lowered, Raised), and the parts of the inductive invariant   *)
(*     CaptureInv that speak of the cover follow from that alone;          *)
(*   - what is left to each action is the part of its own user.            *)
(***************************************************************************)
EXTENDS ScreenCapture, TLAPS

-----------------------------------------------------------------------------
(* The inductive invariant.                                                *)

\* A barrier belongs to the suppression that is in force, and its generation was given out.
BarrierInv ==
  \/ scCover.barrier = NoBarrier
  \/ /\ scCover.barrier.gen \in 1..scCover.gen /\ scCover.barrier.phase \in {"render", "frame"}
     /\ scCover.barrier.reason \in Guarded /\ scCover.barrier.reason = scCover.sup

\* A freeze in progress and its suppression have each other, up to the completion that
\* is still to be applied; it reads no screen before its barrier is gone, and its
\* pixels are of the layout of its token.
FreezeInv ==
  /\ Freezing => scCover.sup = "frozen" /\ ~scFreeze.done
  /\ scCover.sup = "frozen" => Freezing \/ scFreeze.done
  /\ scCover.barrier.reason = "frozen" => scFreeze.stage = "preflight"
  /\ scFreeze.stage = "pending" => scFreeze.at = scFreeze.token

\* The same for a zoom.
ZoomInv ==
  /\ scZoom.stage # "idle" => scCover.sup = "zoom" /\ ~scZoom.done
  /\ scCover.sup = "zoom" => scZoom.stage # "idle" \/ scZoom.done
  /\ scCover.barrier.reason = "zoom" => scZoom.stage # "read"

\* The loop waits for the request the manager has, or for its own barrier; a request
\* that reads the screen is suppressed by its own reason and past its barrier.
OperationInv ==
  /\ scOp.accepted = scMgr.active
  /\ scMgr.active < scMgr.next
  /\ scMgr.work \in {Nothing, scMgr.active}
  /\ scMgr.message.id < scMgr.next
  /\ scMgr.work # Nothing => scMgr.message.id # scMgr.work
  /\ scMgr.kind # "none" <=> scMgr.active # Nothing
  /\ scOp.busy <=> scOp.request # "none" \/ scOp.accepted # Nothing
  /\ scOp.request # "none" => scOp.accepted = Nothing /\ scCover.sup = scOp.request
  /\ scOp.phase # "none" <=> scOp.request # "none"
  /\ scMgr.kind \in Screenshots => scCover.sup = scMgr.kind /\ scCover.barrier = NoBarrier
  /\ scCover.sup \in Screenshots => scOp.request = scCover.sup \/ scMgr.kind = scCover.sup
  /\ scMgr.active # Nothing => scMgr.work = scMgr.active \/ scMgr.message.id = scMgr.active \/ scMgr.dead

\* A callback of the barrier's generation is only owed once the hidden frame is committed,
\* and only sent once it is on the screen.
FrameInv ==
  /\ scCover.barrier.gen \in (scFrame.owed \cup scFrame.sent) \ {0} => scCover.barrier.phase = "frame"
  /\ scCover.barrier.phase = "frame" => scFrame.committed = Content(scCover.sup) /\ ~scCover.barrier.gtk
  /\ scCover.barrier.gen \in scFrame.sent \ {0} => scFrame.screen = Content(scCover.sup)

\* Feedback for the barrier's generation, and a barrier that waits for none, mean that
\* the toolbars are transparent.
ToolbarInv ==
  /\ \A said \in scGtk.said : said.ok /\ said.gen = scCover.barrier.gen => scGtk.bars = "clear"
  /\ scCover.barrier # NoBarrier /\ ~scCover.barrier.gtk /\ scGtk.alive => scGtk.bars = "clear"

\* Who reads the screen holds the suppression and is past his barrier.
ReaderInv ==
  \A reason \in Guarded : Reads(reason) =>
    /\ scCover.sup = reason /\ scCover.barrier = NoBarrier
    /\ scFrame.committed = Content(reason) /\ scFrame.screen = Content(reason)
    /\ scGtk.alive => scGtk.bars = "clear"

CoverInv == BarrierInv /\ FrameInv /\ ToolbarInv
OwnerInv == FreezeInv /\ ZoomInv /\ OperationInv
CaptureInv == CaptureTypeOK /\ CoverInv /\ OwnerInv /\ ReaderInv

-----------------------------------------------------------------------------
(* What a step does to the cover.                                          *)

\* The suppression, its barrier and its generation stay as they are.
Kept ==
  /\ scCover' \in Covers /\ scCover'.sup = scCover.sup
  /\ scCover'.barrier = scCover.barrier /\ scCover'.gen = scCover.gen

\* A suppression with a barrier begins.
Lowered(reason) ==
  /\ scCover' \in Covers /\ scCover.sup = "none" /\ scCover'.sup = reason
  /\ scCover'.gen = scCover.gen + 1
  /\ scCover'.barrier = [gen |-> scCover'.gen, reason |-> reason, phase |-> "render",
                         gtk |-> scGtk.alive]

\* The suppression that was in force ends, and its barrier with it.
Raised ==
  /\ scCover' \in Covers /\ scCover.sup # "none" /\ scCover'.sup = "none"
  /\ scCover'.barrier = NoBarrier /\ scCover'.gen = scCover.gen

-----------------------------------------------------------------------------
(* What the helpers return, field by field.                                *)

\* A guarded suppression has a barrier of a new generation that waits for a frame and for
\* the toolbars.
LEMMA EnteredIs ==
  ASSUME NEW c \in Covers, NEW reason \in Guarded, scGtk.alive \in BOOLEAN
  PROVE  /\ Entered(c, reason) \in Covers
         /\ Entered(c, reason).sup = reason
         /\ Entered(c, reason).gen = c.gen + 1
         /\ Entered(c, reason).barrier =
              [gen |-> c.gen + 1, reason |-> reason, phase |-> "render", gtk |-> scGtk.alive]
  BY DEF Entered, Covers, Barriers

\* The dialog's suppression has no barrier of its own.
LEMMA DialogIs ==
  ASSUME NEW c \in Covers
  PROVE  /\ Entered(c, "dialog") \in Covers
         /\ Entered(c, "dialog").sup = "dialog"
         /\ Entered(c, "dialog").gen = c.gen
         /\ Entered(c, "dialog").barrier = c.barrier
  BY DEF Entered, Covers, Guarded, Screenshots

\* Leaving a suppression ends it and its barrier, and leaves another one alone.
LEMMA LeftIs ==
  ASSUME NEW c \in Covers, NEW reason
  PROVE  /\ Left(c, reason) \in Covers
         /\ Left(c, reason).sup = IF c.sup = reason THEN "none" ELSE c.sup
         /\ Left(c, reason).gen = c.gen
         /\ Left(c, reason).barrier =
              IF c.sup = reason /\ c.barrier.reason = reason THEN NoBarrier ELSE c.barrier
<1>1. NoBarrier \in Barriers
  BY DEF NoBarrier, Barriers, Guarded
<1>2. CASE c.sup = reason /\ c.barrier.reason = reason
  BY <1>1, <1>2 DEF Left, Covers
<1>3. CASE c.sup = reason /\ c.barrier.reason # reason
  BY <1>3 DEF Left, Covers
<1>4. CASE c.sup # reason
  BY <1>4 DEF Left, Covers
<1> QED BY <1>2, <1>3, <1>4

\* The overlay is shown after a screenshot or a PDF backdrop, whichever it was.
LEMMA OverlayShownIs ==
  ASSUME NEW c \in Covers
  PROVE  /\ OverlayShown(c) \in Covers
         /\ OverlayShown(c).sup = IF c.sup \in Screenshots THEN "none" ELSE c.sup
         /\ OverlayShown(c).gen = c.gen
         /\ OverlayShown(c).barrier =
              IF c.sup \in Screenshots /\ c.barrier.reason = c.sup THEN NoBarrier ELSE c.barrier
<1>1. PICK d : d = Left(c, "capture")
  OBVIOUS
<1>2. d \in Covers
  BY <1>1, LeftIs
<1>3. CASE c.sup = "capture"
  <2>1. d.sup = "none"
    BY <1>1, <1>3, LeftIs
  <2>2. Left(d, "backdrop") = d
    BY <2>1 DEF Left
  <2> QED BY <1>1, <1>3, <2>2, LeftIs DEF OverlayShown, Screenshots
<1>4. CASE c.sup # "capture"
  <2>1. d = c
    BY <1>1, <1>4 DEF Left
  <2> QED BY <1>1, <1>4, <2>1, LeftIs DEF OverlayShown, Screenshots
<1> QED BY <1>3, <1>4

\* Asking for a frame touches nothing else.
LEMMA RedrawnIs ==
  ASSUME NEW c \in Covers, NEW redraw \in BOOLEAN
  PROVE  /\ [c EXCEPT !.redraw = redraw] \in Covers
         /\ [c EXCEPT !.redraw = redraw].sup = c.sup
         /\ [c EXCEPT !.redraw = redraw].gen = c.gen
         /\ [c EXCEPT !.redraw = redraw].barrier = c.barrier
  BY DEF Covers

\* An ended freeze is idle, has no image and a completion to apply.
LEMMA FreezeEndedIs ==
  ASSUME NEW f \in Freezes
  PROVE  /\ FreezeEnded(f) \in Freezes
         /\ FreezeEnded(f).stage = "idle" /\ FreezeEnded(f).done
         /\ FreezeEnded(f).image = Nothing
  BY DEF FreezeEnded, Freezes

\* So has a cancelled one.
LEMMA FreezeCancelledIs ==
  ASSUME NEW f \in Freezes
  PROVE  /\ FreezeCancelled(f) \in Freezes
         /\ FreezeCancelled(f).stage = "idle" /\ FreezeCancelled(f).done
         /\ FreezeCancelled(f).image = Nothing
  BY FreezeEndedIs DEF FreezeCancelled, FreezeEnded, Freezes

\* A chain of backends is cancelled or runs on one of them.
LEMMA ChainIs ==
  ASSUME NEW f \in Freezes, NEW backends \in SUBSET Backends, scLayout \in Layouts,
         NEW g \in ChainOutcomes(f, backends)
  PROVE  \/ g = FreezeCancelled(f)
         \/ /\ g \in Freezes /\ g.stage \in backends
            /\ g.done => f.done
            /\ g.image = f.image
<1> SUFFICES ASSUME g # FreezeCancelled(f)
             PROVE  /\ g \in Freezes /\ g.stage \in backends
                    /\ g.done => f.done
                    /\ g.image = f.image
  OBVIOUS
<1>1. PICK b \in backends : g = [f EXCEPT !.stage = b, !.at = scLayout, !.done = @ /\ b # "wlr"]
  BY DEF ChainOutcomes
<1> QED BY <1>1 DEF Freezes

\* Pixels that arrived end the freeze, or are of the layout of their token.
LEMMA PixelsReadyIs ==
  ASSUME NEW f \in Freezes, scLayout \in Layouts
  PROVE  \/ PixelsReady(f) = FreezeEnded(f)
         \/ /\ PixelsReady(f) \in Freezes /\ PixelsReady(f).stage = "pending"
            /\ PixelsReady(f).done = f.done /\ PixelsReady(f).image = f.image
            /\ PixelsReady(f).at = PixelsReady(f).token
  BY DEF PixelsReady, Freezes

\* A cancelled zoom is idle, keeps or drops its image, and has a completion to apply.
LEMMA ZoomCancelledIs ==
  ASSUME NEW z \in Zooms, NEW forced \in BOOLEAN
  PROVE  /\ ZoomCancelled(z, forced) \in Zooms
         /\ ZoomCancelled(z, forced).stage = "idle" /\ ZoomCancelled(z, forced).done
         /\ ZoomCancelled(z, forced).image \in {z.image, Nothing}
<1> DEFINE gone == forced \/ z.image = Nothing
<1>1. CASE gone
  BY <1>1 DEF ZoomCancelled, Zooms
<1>2. CASE ~gone
  BY <1>2 DEF ZoomCancelled, Zooms
<1> QED BY <1>1, <1>2

\* An aborted zoom is idle and keeps its image; its completion is to be applied if it was
\* active.
LEMMA ZoomAbortedIs ==
  ASSUME NEW z \in Zooms
  PROVE  /\ ZoomAborted(z) \in Zooms
         /\ ZoomAborted(z).stage = "idle"
         /\ z.done \/ z.stage # "idle" => ZoomAborted(z).done
         /\ ZoomAborted(z).image = z.image
  BY DEF ZoomAborted, Zooms

\* A zoom whose pixels arrived is idle, with the image it had, none, or one of this
\* layout.
LEMMA ZoomReadIs ==
  ASSUME NEW z \in Zooms, scLayout \in Layouts
  PROVE  /\ ZoomRead(z) \in Zooms
         /\ ZoomRead(z).stage = "idle" /\ ZoomRead(z).done
         /\ ZoomRead(z).image \in {z.image, Nothing, scLayout}
<1>1. CASE z.at # scLayout
  BY <1>1, ZoomCancelledIs DEF ZoomRead
<1>2. CASE z.at = scLayout
  BY <1>2 DEF ZoomRead, Zooms
<1> QED BY <1>1, <1>2

\* A zoom past its barrier is cancelled, or reads the screen with the image it had.
LEMMA ZoomOutcomesIs ==
  ASSUME NEW z \in Zooms, scLayout \in Layouts, NEW r \in ZoomOutcomes(z)
  PROVE  \/ r = ZoomCancelled(z, FALSE)
         \/ r \in Zooms /\ r.stage = "read" /\ r.done = z.done /\ r.image = z.image
  BY DEF ZoomOutcomes, Zooms

\* A zoom that begins waits for its barrier with the image it had.
LEMMA ZoomPreflightIs ==
  ASSUME NEW z \in Zooms, scLayout \in Layouts
  PROVE  /\ ZoomPreflight(z) \in Zooms
         /\ ZoomPreflight(z).stage = "preflight" /\ ~ZoomPreflight(z).done
         /\ ZoomPreflight(z).image = z.image
  BY DEF ZoomPreflight, Zooms

\* start_zoom_capture has nothing to do, lowers the cover, or gives the zoom up.
LEMMA StartZoomIs ==
  ASSUME CaptureTypeOK, NEW z \in Zooms, StartZoom(z)
  PROVE  \/ scZoom' = z /\ scCover' = scCover
         \/ /\ scCover.sup = "none" /\ z.stage = "idle"
            /\ scZoom' = ZoomPreflight(z) /\ scCover' = Entered(scCover, "zoom")
         \/ /\ scCover.sup # "none" /\ z.stage = "idle"
            /\ scZoom' = ZoomCancelled(z, TRUE) /\ scCover' = Left(scCover, "zoom")
  BY DEF StartZoom, ZoomIdles

\* With no request in the manager, a submission is refused or becomes its request.
LEMMA SubmitIs ==
  ASSUME CaptureTypeOK, NEW kind \in Screenshots \cup {"export"}, NEW op \in CaptureOps,
         NEW c \in Covers, scMgr.active = Nothing, Submit(kind, op, c)
  PROVE  /\ scMgr' \in Managers /\ scMgr'.message = scMgr.message /\ scMgr'.dead = scMgr.dead
         /\ \/ /\ scOp' = OpIdle /\ scCover' = OverlayShown(c)
               /\ scMgr'.active = Nothing /\ scMgr'.next = scMgr.next
               /\ scMgr'.work = scMgr.work /\ scMgr'.kind = scMgr.kind
            \/ /\ scOp' \in CaptureOps /\ scCover' = c
               /\ scOp'.busy = op.busy /\ scOp'.phase = op.phase /\ scOp'.request = op.request
               /\ scOp'.accepted = scMgr.next
               /\ scMgr'.active = scMgr.next /\ scMgr'.next = scMgr.next + 1
               /\ scMgr'.work = scMgr.next /\ scMgr'.kind = kind /\ scMgr'.healthy
<1>1. CASE ~scMgr.healthy \/ scMgr.dead
  BY <1>1 DEF Submit, CaptureTypeOK, Managers
<1>2. CASE scMgr.healthy /\ ~scMgr.dead
  <2>1. /\ scOp' = [op EXCEPT !.accepted = scMgr.next] /\ scCover' = c
        /\ scMgr' = [scMgr EXCEPT !.active = scMgr.next, !.next = @ + 1, !.work = scMgr.next,
                                   !.kind = kind]
    BY <1>2 DEF Submit
  <2>2. scOp' \in CaptureOps /\ scMgr.next \in Nat
    BY <2>1 DEF CaptureOps, CaptureTypeOK, Managers
  <2>3. scOp'.accepted = scMgr.next /\ scOp'.busy = op.busy /\ scOp'.phase = op.phase
          /\ scOp'.request = op.request
    BY <2>1 DEF CaptureOps
  <2>4. scMgr' \in Managers
    <3>1. scMgr.next + 1 \in Nat /\ kind \in Screenshots \cup {"none", "export"}
      BY <2>2
    <3> QED BY <2>1, <2>2, <3>1 DEF CaptureTypeOK, Managers
  <2> QED BY <1>2, <2>1, <2>2, <2>3, <2>4 DEF CaptureTypeOK, Managers
<1> QED BY <1>1, <1>2

\* The idle operation waits for nothing.
LEMMA OpIdleIs ==
  OpIdle \in CaptureOps /\ ~OpIdle.busy /\ OpIdle.accepted = Nothing
    /\ OpIdle.phase = "none" /\ OpIdle.request = "none"
  BY DEF OpIdle, CaptureOps, Nothing

\* NoBarrier is a barrier of no generation.
LEMMA NoBarrierIs ==
  /\ NoBarrier \in Barriers /\ NoBarrier.gen = 0 /\ NoBarrier.reason = "none"
  /\ NoBarrier.phase = "none" /\ ~NoBarrier.gtk
  BY DEF NoBarrier, Barriers

\* Without a suppression there is no barrier, and a barrier has the reason of its suppression.
LEMMA NoneNoBarrier ==
  ASSUME CaptureTypeOK, BarrierInv, scCover.sup \notin Guarded
  PROVE  scCover.barrier = NoBarrier
  BY DEF BarrierInv

\* Entering a guarded suppression lowers the cover.
LEMMA EnterLowers ==
  ASSUME CaptureTypeOK, NEW reason \in Guarded, scCover.sup = "none",
         scCover' = Entered(scCover, reason)
  PROVE  Lowered(reason)
<1>1. scGtk.alive \in BOOLEAN
  BY DEF CaptureTypeOK, Toolbars
<1>2. scCover \in Covers
  BY DEF CaptureTypeOK
<1> QED BY <1>1, <1>2, EnteredIs DEF Lowered

\* Leaving the suppression in force raises the cover, whether or not its barrier was taken.
LEMMA LeaveRaises ==
  ASSUME CaptureTypeOK, NEW c \in Covers, NEW reason \in Guarded, scCover.sup = reason,
         c.sup = reason, c.gen = scCover.gen, c.barrier = NoBarrier \/ c.barrier.reason = reason,
         scCover' = Left(c, reason)
  PROVE  Raised
<1>1. reason # "none"
  BY DEF Guarded, Screenshots
<1> QED BY <1>1, LeftIs DEF Raised

\* Leaving another one changes nothing.
LEMMA LeaveKeeps ==
  ASSUME CaptureTypeOK, NEW reason, scCover.sup # reason, scCover' = Left(scCover, reason)
  PROVE  Kept
  BY DEF Kept, Left, CaptureTypeOK

\* The same for the two suppressions of a screenshot.
LEMMA ShowRaises ==
  ASSUME CaptureTypeOK, NEW c \in Covers, scCover.sup \in Screenshots, c.sup = scCover.sup,
         c.gen = scCover.gen, c.barrier = NoBarrier \/ c.barrier.reason = c.sup,
         scCover' = OverlayShown(c)
  PROVE  Raised
<1>1. scCover.sup # "none"
  BY DEF Screenshots
<1> QED BY <1>1, OverlayShownIs DEF Raised

\* A result of no screenshot changes nothing of the cover.
LEMMA ShowKeeps ==
  ASSUME CaptureTypeOK, scCover.sup \notin Screenshots, scCover' = OverlayShown(scCover)
  PROVE  Kept
  BY DEF Kept, OverlayShown, Left, Screenshots, CaptureTypeOK

\* Asking for a frame changes nothing.
LEMMA RedrawKeeps ==
  ASSUME CaptureTypeOK, NEW redraw \in BOOLEAN, scCover' = [scCover EXCEPT !.redraw = redraw]
  PROVE  Kept
  BY DEF Kept, CaptureTypeOK, Covers

\* Neither does a step that leaves the cover alone change it.
LEMMA StandKeeps ==
  ASSUME CaptureTypeOK, scCover' = scCover
  PROVE  Kept
  BY DEF Kept, CaptureTypeOK

-----------------------------------------------------------------------------
(* The parts of the invariant after such a step.                           *)

\* Callbacks and feedback stay within the generations given out.
LEMMA Grows ==
  ASSUME CaptureTypeOK, scCover' \in Covers, scCover'.gen \in {scCover.gen, scCover.gen + 1}
  PROVE  /\ scFrame' = scFrame => scFrame' \in Frames(scCover'.gen)
         /\ scGtk' = scGtk => scGtk' \in Toolbars(scCover'.gen)
<1>1. 0..scCover.gen \subseteq 0..scCover'.gen /\ 1..scCover.gen \subseteq 1..scCover'.gen
      /\ Unthrottled..scCover.gen \subseteq Unthrottled..scCover'.gen
  BY DEF CaptureTypeOK, Covers, Unthrottled
<1>2. scFrame' = scFrame => scFrame' \in Frames(scCover'.gen)
  BY <1>1 DEF CaptureTypeOK, Frames
<1>3. [gen : 1..scCover.gen, ok : BOOLEAN] \subseteq [gen : 1..scCover'.gen, ok : BOOLEAN]
  BY <1>1
<1>4. scGtk' = scGtk => scGtk' \in Toolbars(scCover'.gen)
  BY <1>1, <1>3 DEF CaptureTypeOK, Toolbars
<1> QED BY <1>2, <1>4

\* No frame and no content that was not there before.
FramesKept ==
  /\ scFrame'.committed = scFrame.committed /\ scFrame'.screen = scFrame.screen
  /\ scFrame'.owed \subseteq scFrame.owed /\ scFrame'.sent \subseteq scFrame.sent

\* With the cover kept, and nothing new of the frames, its part of the invariant stays.
LEMMA KeptCover ==
  ASSUME CaptureInv, Kept, FramesKept, scGtk' = scGtk
  PROVE  CoverInv'
<1>1. BarrierInv'
  BY DEF CaptureInv, CoverInv, BarrierInv, Kept
<1>2. FrameInv'
  BY DEF CaptureInv, CoverInv, FrameInv, Kept, FramesKept, Content
<1>3. ToolbarInv'
  BY DEF CaptureInv, CoverInv, ToolbarInv, Kept
<1> QED BY <1>1, <1>2, <1>3 DEF CoverInv

\* A barrier of a new generation: no callback and no feedback can be of it yet.
LEMMA LoweredCover ==
  ASSUME CaptureInv, NEW reason \in Guarded, Lowered(reason), scFrame' = scFrame, scGtk' = scGtk
  PROVE  CoverInv'
<1>1. scCover.gen \in Nat
  BY DEF CaptureInv, CaptureTypeOK, Covers
<1>2. BarrierInv'
  BY <1>1 DEF BarrierInv, Lowered
<1>3. scCover'.barrier.gen \notin scFrame.owed \cup scFrame.sent
  BY <1>1 DEF Lowered, CaptureInv, CaptureTypeOK, Frames
<1>4. FrameInv'
  BY <1>3 DEF FrameInv, Lowered
<1>5. \A said \in scGtk.said : said.gen # scCover'.barrier.gen
  BY <1>1 DEF Lowered, CaptureInv, CaptureTypeOK, Toolbars
<1>6. ToolbarInv'
  BY <1>5 DEF ToolbarInv, Lowered
<1> QED BY <1>2, <1>4, <1>6 DEF CoverInv

\* Whatever the frames and the toolbars are: there is no barrier any more.
LEMMA RaisedCover ==
  ASSUME CaptureTypeOK', scCover'.barrier = NoBarrier
  PROVE  CoverInv'
<1>1. BarrierInv'
  BY DEF BarrierInv
<1>2. FrameInv'
  BY NoBarrierIs DEF FrameInv
<1>3. \A said \in scGtk'.said : said.gen # 0
  BY DEF CaptureTypeOK, Toolbars
<1>4. ToolbarInv'
  BY <1>3, NoBarrierIs DEF ToolbarInv
<1> QED BY <1>1, <1>2, <1>4 DEF CoverInv

\* A user that is not touched, and whose reason a step of the cover does not concern.
LEMMA FreezeAside ==
  ASSUME FreezeInv, scFreeze' = scFreeze,
         scCover'.sup = "frozen" <=> scCover.sup = "frozen",
         scCover'.barrier.reason = "frozen" => scCover.barrier.reason = "frozen"
  PROVE  FreezeInv'
  BY DEF FreezeInv, Freezing

\* The same for the zoom.
LEMMA ZoomAside ==
  ASSUME ZoomInv, scZoom' = scZoom,
         scCover'.sup = "zoom" <=> scCover.sup = "zoom",
         scCover'.barrier.reason = "zoom" => scCover.barrier.reason = "zoom"
  PROVE  ZoomInv'
  BY DEF ZoomInv

\* The same for the operation of the loop, past its barrier or not.
LEMMA OperationAside ==
  ASSUME CaptureTypeOK, OperationInv, scOp' = scOp, scMgr' = scMgr,
         scCover.sup \in Screenshots \/ scCover'.sup \in Screenshots => scCover'.sup = scCover.sup,
         scCover.sup \in Screenshots => scCover'.barrier \in {scCover.barrier, NoBarrier}
  PROVE  OperationInv'
  BY DEF OperationInv, CaptureTypeOK, CaptureOps

\* Nobody reads the screen without a suppression, or before the barrier is gone.
LEMMA NoReader ==
  ASSUME CaptureTypeOK', BarrierInv', OwnerInv',
         scCover'.sup \notin Guarded \/ scCover'.barrier # NoBarrier
  PROVE  ReaderInv'
<1> SUFFICES ASSUME NEW reason \in Guarded, Reads(reason)'
             PROVE  FALSE
  BY DEF ReaderInv
<1>1. scCover'.sup = reason
  BY CaptureAssumption DEF Reads, OwnerInv, FreezeInv, ZoomInv, OperationInv, Freezing, Direct, Screenshots
<1>2. scCover'.barrier.reason = reason
  BY <1>1 DEF BarrierInv
<1> QED BY <1>1, <1>2, CaptureAssumption DEF Reads, OwnerInv, FreezeInv, ZoomInv, OperationInv, BarrierInv, Screenshots

\* Readers that are no new ones keep what they had.
LEMMA ReadersKept ==
  ASSUME CaptureInv, Kept, scGtk' = scGtk, FramesKept,
         \A reason \in Guarded : Reads(reason)' => Reads(reason)
  PROVE  ReaderInv'
  BY DEF CaptureInv, ReaderInv, Kept, FramesKept, Content

-----------------------------------------------------------------------------
(* The actions of the user.                                                *)

\* The budget of the attempts stays within its bound.
LEMMA SpendIs ==
  ASSUME CaptureTypeOK, Spend
  PROVE  scSpent' \in Bounds
  BY CaptureAssumption DEF Spend, CaptureTypeOK, Bounds

\* What every action of the user leaves alone.
LEMMA AttemptIs ==
  ASSUME CaptureTypeOK, Attempt
  PROVE  /\ scFrame' = scFrame /\ scGtk' = scGtk /\ scLayout' = scLayout /\ scLayout' \in Layouts
         /\ scSpent' \in Bounds
  BY SpendIs DEF Attempt, CaptureTypeOK

\* What a step has to show when it touches neither the frames nor the toolbars.
LEMMA TypesKept ==
  ASSUME CaptureTypeOK, Kept \/ Raised \/ (\E reason \in Guarded : Lowered(reason)),
         scFrame' = scFrame, scGtk' = scGtk, scFreeze' \in Freezes, scZoom' \in Zooms,
         scOp' \in CaptureOps, scMgr' \in Managers, scLayout' \in Layouts,
         scOpaque' \in BOOLEAN, scSpent' \in Bounds
  PROVE  CaptureTypeOK'
<1>1. scCover' \in Covers /\ scCover'.gen \in {scCover.gen, scCover.gen + 1}
  BY DEF Kept, Raised, Lowered
<1> QED BY <1>1, Grows DEF CaptureTypeOK

\* A step that raises the cover for one owner leaves the others to themselves.
LEMMA RaisedAside ==
  ASSUME CaptureInv, Raised
  PROVE  /\ scFreeze' = scFreeze /\ scCover.sup # "frozen" => FreezeInv'
         /\ scZoom' = scZoom /\ scCover.sup # "zoom" => ZoomInv'
         /\ scOp' = scOp /\ scMgr' = scMgr /\ scCover.sup \notin Screenshots => OperationInv'
  BY FreezeAside, ZoomAside, OperationAside, NoBarrierIs
     DEF Raised, CaptureInv, OwnerInv, Screenshots

\* So does a step that keeps the cover.
LEMMA KeptAside ==
  ASSUME CaptureInv, Kept
  PROVE  /\ scFreeze' = scFreeze => FreezeInv'
         /\ scZoom' = scZoom => ZoomInv'
         /\ scOp' = scOp /\ scMgr' = scMgr => OperationInv'
  BY FreezeAside, ZoomAside, OperationAside DEF Kept, CaptureInv, OwnerInv, Screenshots

\* So does a step that lowers it for another owner.
LEMMA LoweredAside ==
  ASSUME CaptureInv, NEW reason \in Guarded, Lowered(reason)
  PROVE  /\ scFreeze' = scFreeze /\ reason # "frozen" => FreezeInv'
         /\ scZoom' = scZoom /\ reason # "zoom" => ZoomInv'
         /\ scOp' = scOp /\ scMgr' = scMgr /\ reason \notin Screenshots => OperationInv'
<1>1. scCover'.sup = reason /\ scCover.sup = "none" /\ scCover'.barrier.reason = reason
  BY DEF Lowered
<1> QED BY <1>1, FreezeAside, ZoomAside, OperationAside DEF CaptureInv, OwnerInv, Screenshots

\* The invariant of a step of the cover from the invariants of its owners.
LEMMA KeptInv ==
  ASSUME CaptureInv, Kept, FramesKept \/ scFrame' = scFrame, scGtk' = scGtk, CaptureTypeOK',
         OwnerInv', \A reason \in Guarded : Reads(reason)' => Reads(reason)
  PROVE  CaptureInv'
<1>1. FramesKept
  BY DEF FramesKept
<1> QED BY <1>1, KeptCover, ReadersKept DEF CaptureInv

\* The same when the cover is lowered: nobody reads before the barrier is gone.
LEMMA LoweredInv ==
  ASSUME CaptureInv, NEW reason \in Guarded, Lowered(reason), scFrame' = scFrame, scGtk' = scGtk,
         CaptureTypeOK', OwnerInv'
  PROVE  CaptureInv'
<1>1. CoverInv'
  BY LoweredCover
<1>2. scCover'.barrier # NoBarrier
  BY NoBarrierIs DEF Lowered, Guarded, Screenshots
<1> QED BY <1>1, <1>2, NoReader DEF CaptureInv, CoverInv

\* The same when it is raised: nobody reads without a suppression.
LEMMA RaisedInv ==
  ASSUME CaptureInv, Raised, CaptureTypeOK', OwnerInv'
  PROVE  CaptureInv'
<1>1. CoverInv'
  BY RaisedCover DEF Raised
<1>2. scCover'.sup \notin Guarded
  BY DEF Raised, Guarded, Screenshots
<1> QED BY <1>1, <1>2, NoReader DEF CaptureInv, CoverInv

\* A freeze begins: its cover is lowered.
LEMMA StepFreeze ==
  ASSUME CaptureInv, ScFreeze
  PROVE  CaptureInv'
<1>1. Lowered("frozen") /\ "frozen" \in Guarded
  BY EnterLowers DEF ScFreeze, CaptureInv, Guarded
<1>2. scFreeze' \in Freezes /\ scFreeze'.stage = "preflight" /\ ~scFreeze'.done
  BY DEF ScFreeze, CaptureInv, CaptureTypeOK, Freezes
<1>3. CaptureTypeOK'
  BY <1>1, <1>2, TypesKept, AttemptIs DEF ScFreeze, CaptureInv, CaptureTypeOK
<1>4. FreezeInv'
  BY <1>1, <1>2 DEF FreezeInv, Freezing, Lowered
<1>5. OwnerInv'
  BY <1>1, <1>4, LoweredAside DEF OwnerInv, ScFreeze, Screenshots
<1> QED BY <1>1, <1>3, <1>5, LoweredInv, AttemptIs DEF ScFreeze, CaptureInv

\* The frozen image is dropped: the cover is kept.
LEMMA StepUnfreeze ==
  ASSUME CaptureInv, ScUnfreeze
  PROVE  CaptureInv'
<1>1. Kept
  BY RedrawKeeps DEF ScUnfreeze, CaptureInv
<1>2. /\ scFreeze' \in Freezes /\ scFreeze'.stage = scFreeze.stage /\ scFreeze'.done = scFreeze.done
      /\ scFreeze'.at = scFreeze.at /\ scFreeze'.token = scFreeze.token
  BY DEF ScUnfreeze, CaptureInv, CaptureTypeOK, Freezes
<1>3. CaptureTypeOK'
  BY <1>1, <1>2, TypesKept, AttemptIs DEF ScUnfreeze, CaptureInv, CaptureTypeOK
<1>4. FreezeInv'
  BY <1>1, <1>2 DEF FreezeInv, Freezing, Kept, CaptureInv, OwnerInv
<1>5. OwnerInv'
  BY <1>1, <1>4, KeptAside DEF OwnerInv, ScUnfreeze
<1> QED BY <1>1, <1>2, <1>3, <1>5, KeptInv, AttemptIs DEF ScUnfreeze, CaptureInv, Reads

\* A freeze is given up: the cover is raised.
LEMMA StepCancelFreeze ==
  ASSUME CaptureInv, ScCancelFreeze
  PROVE  CaptureInv'
<1>1. scCover.sup = "frozen"
  BY DEF ScCancelFreeze, CaptureInv, OwnerInv, FreezeInv
<1>2. Raised
  BY <1>1, LeaveRaises DEF ScCancelFreeze, CaptureInv, CoverInv, BarrierInv, CaptureTypeOK, Guarded
<1>3. scFreeze' \in Freezes /\ scFreeze'.stage = "idle"
  BY FreezeCancelledIs DEF ScCancelFreeze, CaptureInv, CaptureTypeOK
<1>4. CaptureTypeOK'
  BY <1>2, <1>3, TypesKept, AttemptIs DEF ScCancelFreeze, CaptureInv, CaptureTypeOK
<1>5. FreezeInv'
  BY <1>2, <1>3, NoBarrierIs DEF FreezeInv, Freezing, Raised
<1>6. OwnerInv'
  BY <1>1, <1>2, <1>5, RaisedAside DEF OwnerInv, ScCancelFreeze, Screenshots
<1> QED BY <1>2, <1>4, <1>6, RaisedInv DEF CaptureInv

\* What start_zoom_capture does, whoever calls it.
LEMMA StepStartZoom ==
  ASSUME CaptureInv, NEW z \in Zooms, z.stage = scZoom.stage, z.done = scZoom.done, StartZoom(z),
         UNCHANGED <<scFrame, scGtk, scFreeze, scOp, scMgr>>,
         scLayout' \in Layouts, scOpaque' \in BOOLEAN, scSpent' \in Bounds
  PROVE  CaptureInv'
<1>1. CASE scZoom' = z /\ scCover' = scCover
  <2>1. Kept
    BY <1>1, StandKeeps DEF CaptureInv
  <2>2. CaptureTypeOK'
    BY <1>1, <2>1, TypesKept DEF CaptureInv, CaptureTypeOK
  <2>3. ZoomInv'
    BY <1>1, <2>1 DEF ZoomInv, CaptureInv, OwnerInv
  <2>4. OwnerInv'
    BY <2>1, <2>3, KeptAside DEF OwnerInv
  <2> QED BY <1>1, <2>1, <2>2, <2>4, KeptInv DEF Reads
<1>2. CASE /\ scCover.sup = "none" /\ z.stage = "idle"
           /\ scZoom' = ZoomPreflight(z) /\ scCover' = Entered(scCover, "zoom")
  <2>1. Lowered("zoom") /\ "zoom" \in Guarded
    BY <1>2, EnterLowers DEF CaptureInv, Guarded
  <2>2. scZoom' \in Zooms /\ scZoom'.stage = "preflight" /\ ~scZoom'.done
    BY <1>2, ZoomPreflightIs DEF CaptureInv, CaptureTypeOK
  <2>3. CaptureTypeOK'
    BY <2>1, <2>2, TypesKept DEF CaptureInv, CaptureTypeOK
  <2>4. ZoomInv'
    BY <2>1, <2>2 DEF ZoomInv, Lowered
  <2>5. OwnerInv'
    BY <2>1, <2>4, LoweredAside DEF OwnerInv, Screenshots
  <2> QED BY <2>1, <2>3, <2>5, LoweredInv
<1>3. CASE /\ scCover.sup # "none" /\ z.stage = "idle"
           /\ scZoom' = ZoomCancelled(z, TRUE) /\ scCover' = Left(scCover, "zoom")
  <2>1. scZoom' \in Zooms /\ scZoom'.stage = "idle"
    BY <1>3, ZoomCancelledIs
  <2>2. CASE scCover.sup = "zoom"
    <3>1. Raised
      BY <1>3, <2>2, LeaveRaises DEF CaptureInv, CoverInv, BarrierInv, CaptureTypeOK, Guarded
    <3>2. CaptureTypeOK'
      BY <2>1, <3>1, TypesKept DEF CaptureInv, CaptureTypeOK
    <3>3. ZoomInv'
      BY <2>1, <3>1, NoBarrierIs DEF ZoomInv, Raised
    <3>4. OwnerInv'
      BY <2>2, <3>1, <3>3, RaisedAside DEF OwnerInv, Screenshots
    <3> QED BY <3>1, <3>2, <3>4, RaisedInv
  <2>3. CASE scCover.sup # "zoom"
    <3>1. Kept
      BY <1>3, <2>3, LeaveKeeps DEF CaptureInv
    <3>2. CaptureTypeOK'
      BY <2>1, <3>1, TypesKept DEF CaptureInv, CaptureTypeOK
    <3>3. ZoomInv'
      BY <2>1, <2>3, <3>1 DEF ZoomInv, Kept
    <3>4. OwnerInv'
      BY <3>1, <3>3, KeptAside DEF OwnerInv
    <3> QED BY <2>1, <3>1, <3>2, <3>4, KeptInv DEF Reads
  <2> QED BY <2>2, <2>3
<1> QED BY <1>1, <1>2, <1>3, StartZoomIs DEF CaptureInv

\* A zoom that ends for good, with its suppression if it is in force.
LEMMA StepEndZoom ==
  ASSUME CaptureInv, scZoom' \in Zooms, scZoom'.stage = "idle",
         \/ scCover.sup = "zoom" /\ Raised
         \/ scCover.sup # "zoom" /\ Kept
         \/ scCover.sup = "zoom" /\ Kept /\ scZoom'.done,
         UNCHANGED <<scFrame, scGtk, scFreeze, scOp, scMgr>>,
         scLayout' \in Layouts, scOpaque' \in BOOLEAN, scSpent' \in Bounds
  PROVE  CaptureInv'
<1>1. CaptureTypeOK'
  BY TypesKept DEF CaptureInv, CaptureTypeOK
<1>2. CASE scCover.sup = "zoom" /\ Raised
  <2>1. ZoomInv'
    BY <1>2, NoBarrierIs DEF ZoomInv, Raised
  <2>2. OwnerInv'
    BY <1>2, <2>1, RaisedAside DEF OwnerInv, Screenshots
  <2> QED BY <1>1, <1>2, <2>2, RaisedInv
<1>3. CASE Kept /\ (scCover.sup = "zoom" => scZoom'.done)
  <2>1. ZoomInv'
    BY <1>3 DEF ZoomInv, Kept
  <2>2. OwnerInv'
    BY <1>3, <2>1, KeptAside DEF OwnerInv
  <2> QED BY <1>1, <1>3, <2>2, KeptInv DEF Reads
<1> QED BY <1>2, <1>3

\* Leaving the zoom's suppression raises the cover, or it is not the zoom's.
LEMMA LeaveZoom ==
  ASSUME CaptureInv, scCover' = Left(scCover, "zoom")
  PROVE  \/ scCover.sup = "zoom" /\ Raised
         \/ scCover.sup # "zoom" /\ Kept
<1>1. scCover \in Covers /\ "zoom" \in Guarded /\ CaptureTypeOK
  BY DEF CaptureInv, CaptureTypeOK, Guarded
<1>2. CASE scCover.sup = "zoom"
  <2>1. scCover.barrier = NoBarrier \/ scCover.barrier.reason = "zoom"
    BY <1>2 DEF CaptureInv, CoverInv, BarrierInv
  <2> QED BY <1>1, <1>2, <2>1, LeaveRaises
<1>3. CASE scCover.sup # "zoom"
  BY <1>1, <1>3, LeaveKeeps
<1> QED BY <1>2, <1>3

\* Zooming in ends a capture for zoom on an opaque board, and begins one on another.
LEMMA StepZoomIn ==
  ASSUME CaptureInv, ScZoomIn
  PROVE  CaptureInv'
<1>1. /\ UNCHANGED <<scFrame, scGtk, scFreeze, scOp, scMgr, scLayout, scOpaque>>
      /\ scLayout' \in Layouts /\ scOpaque' \in BOOLEAN /\ scSpent' \in Bounds
  BY AttemptIs DEF ScZoomIn, CaptureInv, CaptureTypeOK
<1>2. CASE scOpaque
  <2>1. ZoomAborted(scZoom) \in Zooms /\ ZoomAborted(scZoom).stage = "idle"
        /\ (scZoom.done \/ scZoom.stage # "idle" => ZoomAborted(scZoom).done)
    BY ZoomAbortedIs DEF CaptureInv, CaptureTypeOK
  <2>2. /\ scZoom' \in Zooms /\ scZoom'.stage = "idle"
        /\ scZoom.done \/ scZoom.stage # "idle" => scZoom'.done
    BY <1>2, <2>1 DEF ScZoomIn, Zooms
  <2>3. CASE scZoom.stage # "idle" \/ scZoom.mode = "pending"
    <3>1. scCover' = Left(scCover, "zoom")
      BY <1>2, <2>3 DEF ScZoomIn
    <3> QED BY <1>1, <2>2, <3>1, LeaveZoom, StepEndZoom
  <2>4. CASE ~(scZoom.stage # "idle" \/ scZoom.mode = "pending")
    <3>1. scCover' = scCover
      BY <1>2, <2>4 DEF ScZoomIn
    <3>2. Kept
      BY <3>1, StandKeeps DEF CaptureInv
    <3>3. scCover.sup = "zoom" => scZoom'.done
      BY <2>2, <2>4 DEF CaptureInv, OwnerInv, ZoomInv
    <3> QED BY <1>1, <2>2, <3>2, <3>3, StepEndZoom
  <2> QED BY <2>3, <2>4
<1>3. CASE ~scOpaque
  <2>1. PICK z : /\ z = [scZoom EXCEPT !.mode = IF @ = "off" THEN "pending" ELSE @]
                 /\ StartZoom(z)
    BY <1>3 DEF ScZoomIn
  <2>2. z \in Zooms /\ z.stage = scZoom.stage /\ z.done = scZoom.done
    BY <2>1 DEF CaptureInv, CaptureTypeOK, Zooms
  <2> QED BY <1>1, <2>1, <2>2, StepStartZoom
<1> QED BY <1>2, <1>3

\* The zoomed image is taken again: the cover is lowered.
LEMMA StepZoomRefresh ==
  ASSUME CaptureInv, ScZoomRefresh
  PROVE  CaptureInv'
<1>1. scZoom.stage = "idle"
  BY DEF ScZoomRefresh, ZoomIdles
<1>2. Lowered("zoom") /\ "zoom" \in Guarded
  BY EnterLowers DEF ScZoomRefresh, CaptureInv, Guarded
<1>3. scZoom' \in Zooms /\ scZoom'.stage = "preflight" /\ ~scZoom'.done
  BY ZoomPreflightIs DEF ScZoomRefresh, CaptureInv, CaptureTypeOK
<1>4. CaptureTypeOK'
  BY <1>2, <1>3, TypesKept, AttemptIs DEF ScZoomRefresh, CaptureInv, CaptureTypeOK
<1>5. ZoomInv'
  BY <1>2, <1>3 DEF ZoomInv, Lowered
<1>6. OwnerInv'
  BY <1>2, <1>5, LoweredAside DEF OwnerInv, ScZoomRefresh, Screenshots
<1> QED BY <1>2, <1>4, <1>6, LoweredInv, AttemptIs DEF ScZoomRefresh, CaptureInv

\* Zoom is left: its capture ends.
LEMMA StepZoomExit ==
  ASSUME CaptureInv, ScZoomExit
  PROVE  CaptureInv'
<1>1. scZoom' \in Zooms /\ scZoom'.stage = "idle"
  BY ZoomCancelledIs DEF ScZoomExit, CaptureInv, CaptureTypeOK
<1>2. /\ UNCHANGED <<scFrame, scGtk, scFreeze, scOp, scMgr>>
      /\ scLayout' \in Layouts /\ scOpaque' \in BOOLEAN /\ scSpent' \in Bounds
  BY AttemptIs DEF ScZoomExit, CaptureInv, CaptureTypeOK
<1>3. scCover' = Left(scCover, "zoom")
  BY DEF ScZoomExit
<1> QED BY <1>1, <1>2, <1>3, LeaveZoom, StepEndZoom

\* The loop corrects the zoom of a board that was switched.
LEMMA StepSyncZoom ==
  ASSUME CaptureInv, ScSyncZoom
  PROVE  CaptureInv'
<1>1. /\ UNCHANGED <<scFrame, scGtk, scFreeze, scOp, scMgr>>
      /\ scLayout' \in Layouts /\ scOpaque' \in BOOLEAN /\ scSpent' \in Bounds
  BY DEF ScSyncZoom, CaptureInv, CaptureTypeOK
<1>2. CASE scOpaque
  <2>1. ZoomAborted(scZoom) \in Zooms /\ ZoomAborted(scZoom).stage = "idle"
    BY ZoomAbortedIs DEF CaptureInv, CaptureTypeOK
  <2>2. scZoom' \in Zooms /\ scZoom'.stage = "idle"
    BY <1>2, <2>1 DEF ScSyncZoom, Zooms
  <2>3. scCover' = [Left(scCover, "zoom") EXCEPT !.redraw = TRUE]
    BY <1>2 DEF ScSyncZoom
  <2>4. \/ scCover.sup = "zoom" /\ Raised
        \/ scCover.sup # "zoom" /\ Kept
    <3>1. PICK c : c = Left(scCover, "zoom")
      OBVIOUS
    <3>2. /\ c \in Covers /\ c.gen = scCover.gen
          /\ c.sup = IF scCover.sup = "zoom" THEN "none" ELSE scCover.sup
          /\ c.barrier = IF scCover.sup = "zoom" /\ scCover.barrier.reason = "zoom" THEN NoBarrier
                         ELSE scCover.barrier
      BY <3>1, LeftIs DEF CaptureInv, CaptureTypeOK
    <3>3. scCover' \in Covers /\ scCover'.sup = c.sup /\ scCover'.gen = c.gen /\ scCover'.barrier = c.barrier
      BY <2>3, <3>1, <3>2, RedrawnIs
    <3>4. scCover.barrier = NoBarrier \/ scCover.barrier.reason = scCover.sup
      BY DEF CaptureInv, CoverInv, BarrierInv
    <3>5. CASE scCover.sup = "zoom"
      BY <3>2, <3>3, <3>4, <3>5 DEF Raised
    <3>6. CASE scCover.sup # "zoom"
      BY <3>2, <3>3, <3>6 DEF Kept
    <3> QED BY <3>5, <3>6
  <2> QED BY <1>1, <2>2, <2>4, StepEndZoom
<1>3. CASE ~scOpaque
  BY <1>1, <1>3, StepStartZoom DEF ScSyncZoom, CaptureInv, CaptureTypeOK
<1> QED BY <1>2, <1>3

\* A screenshot, or a PDF backdrop, begins: the cover is lowered.
LEMMA StepScreenshot ==
  ASSUME CaptureInv, ScScreenshot
  PROVE  CaptureInv'
<1>1. PICK reason \in Screenshots :
        /\ scCover' = Entered(scCover, reason)
        /\ scOp' = [OpIdle EXCEPT !.busy = TRUE, !.phase = "render", !.request = reason,
                                  !.pdf = IF reason = "backdrop" THEN scLayout ELSE Nothing]
  BY DEF ScScreenshot
<1>2. reason \in Guarded /\ reason \notin {"none", "frozen", "zoom"} /\ scCover.sup = "none"
  BY DEF Guarded, Screenshots, ScScreenshot
<1>3. Lowered(reason)
  BY <1>1, <1>2, EnterLowers DEF CaptureInv
<1>4. scLayout \in Layouts
  BY DEF CaptureInv, CaptureTypeOK
<1>5. /\ scOp' \in CaptureOps /\ scOp'.busy /\ scOp'.accepted = Nothing /\ scOp'.phase = "render"
      /\ scOp'.request = reason
  BY <1>1, <1>4 DEF OpIdle, CaptureOps, Nothing
<1>6. CaptureTypeOK'
  BY <1>2, <1>3, <1>5, TypesKept, AttemptIs DEF ScScreenshot, CaptureInv, CaptureTypeOK
<1>7. scMgr.active = Nothing /\ scMgr' = scMgr
  BY DEF ScScreenshot, CaptureInv, OwnerInv, OperationInv
<1>8. OperationInv'
  BY <1>2, <1>3, <1>5, <1>7 DEF OperationInv, Lowered, CaptureInv, OwnerInv, Screenshots
<1>9. OwnerInv'
  BY <1>2, <1>3, <1>8, LoweredAside DEF OwnerInv, ScScreenshot
<1> QED BY <1>2, <1>3, <1>6, <1>9, LoweredInv, AttemptIs DEF ScScreenshot, CaptureInv

\* An export is submitted, or refused: it has no suppression.
LEMMA StepExport ==
  ASSUME CaptureInv, ScExport
  PROVE  CaptureInv'
<1>1. PICK op : op = [scOp EXCEPT !.busy = TRUE] /\ Submit("export", op, scCover)
  BY DEF ScExport
<1>2. /\ op \in CaptureOps /\ op.busy /\ op.phase = scOp.phase /\ op.request = scOp.request
  BY <1>1 DEF CaptureInv, CaptureTypeOK, CaptureOps
<1>3. /\ CaptureTypeOK /\ scCover \in Covers /\ "export" \in Screenshots \cup {"export"}
      /\ scOp.request = "none" /\ scOp.phase = "none" /\ scOp.accepted = Nothing
      /\ scMgr.active = Nothing /\ scMgr.kind = "none" /\ scMgr.work = Nothing
      /\ scCover.sup \notin Screenshots
  BY DEF ScExport, CaptureInv, OwnerInv, OperationInv, CaptureTypeOK, Screenshots
<1>4. /\ UNCHANGED <<scFrame, scGtk, scFreeze, scZoom>> /\ scLayout' \in Layouts
      /\ scOpaque' \in BOOLEAN /\ scSpent' \in Bounds
  BY AttemptIs DEF ScExport, CaptureInv, CaptureTypeOK
<1>5. CASE /\ scOp' = OpIdle /\ scCover' = OverlayShown(scCover) /\ scMgr' \in Managers
           /\ scMgr'.active = Nothing /\ scMgr'.next = scMgr.next
           /\ scMgr'.work = scMgr.work /\ scMgr'.kind = scMgr.kind /\ scMgr'.message = scMgr.message
  <2>1. Kept
    BY <1>3, <1>5, ShowKeeps
  <2>2. CaptureTypeOK'
    BY <1>3, <1>4, <1>5, <2>1, TypesKept, OpIdleIs DEF CaptureTypeOK
  <2>3. scMgr.next \in Nat
    BY <1>3 DEF CaptureTypeOK, Managers
  <2>4. OperationInv'
    BY <1>3, <1>5, <2>1, <2>3, OpIdleIs DEF OperationInv, Kept, CaptureInv, OwnerInv, Nothing, Screenshots
  <2>5. OwnerInv'
    BY <1>4, <2>1, <2>4, KeptAside DEF OwnerInv
  <2>6. \A reason \in Guarded : Reads(reason)' => Reads(reason)
    BY <1>4, <1>5 DEF Reads
  <2> QED BY <1>4, <2>1, <2>2, <2>5, <2>6, KeptInv
<1>6. CASE /\ scOp' \in CaptureOps /\ scCover' = scCover /\ scMgr' \in Managers
           /\ scOp'.busy = op.busy /\ scOp'.phase = op.phase /\ scOp'.request = op.request
           /\ scOp'.accepted = scMgr.next
           /\ scMgr'.active = scMgr.next /\ scMgr'.next = scMgr.next + 1
           /\ scMgr'.work = scMgr.next /\ scMgr'.kind = "export" /\ scMgr'.message = scMgr.message
  <2>1. Kept
    BY <1>3, <1>6, StandKeeps
  <2>2. CaptureTypeOK'
    BY <1>3, <1>4, <1>6, <2>1, TypesKept DEF CaptureTypeOK
  <2>3. /\ scMgr.next \in Nat /\ scMgr.next # Nothing /\ scMgr.message.id \in Nat
        /\ scMgr.message.id < scMgr.next
    BY <1>3 DEF CaptureTypeOK, Managers, CaptureInv, OwnerInv, OperationInv, Nothing
  <2>4. OperationInv'
    BY <1>2, <1>3, <1>6, <2>1, <2>3 DEF OperationInv, Kept, Screenshots
  <2>5. OwnerInv'
    BY <1>4, <2>1, <2>4, KeptAside DEF OwnerInv
  <2>6. \A reason \in Guarded : Reads(reason)' => Reads(reason)
    BY <1>4, <1>6 DEF Reads, Screenshots
  <2> QED BY <1>4, <2>1, <2>2, <2>5, <2>6, KeptInv
<1> QED BY <1>1, <1>2, <1>3, <1>5, <1>6, SubmitIs

\* The session dialog comes and goes without a barrier, and without a capture.
LEMMA StepDialog ==
  ASSUME CaptureInv, ScDialog
  PROVE  CaptureInv'
<1> DEFINE flushed(content) == [scFrame EXCEPT !.committed = content, !.throttle = 0, !.owed = @ \cup {0}]
<1>1. /\ UNCHANGED <<scGtk, scFreeze, scZoom, scOp, scMgr>> /\ scLayout' \in Layouts
      /\ scOpaque' \in BOOLEAN /\ scSpent' \in Bounds
  BY SpendIs DEF ScDialog, CaptureInv, CaptureTypeOK
<1>2. /\ CaptureTypeOK /\ scCover \in Covers /\ scCover.sup \notin Guarded
      /\ scCover.barrier = NoBarrier /\ scCover.gen \in Nat
  BY NoneNoBarrier DEF ScDialog, CaptureInv, CoverInv, CaptureTypeOK, Guarded, Screenshots, Covers
<1>3. /\ scCover' \in Covers /\ scCover'.sup \in {"none", "dialog"} /\ scCover'.gen = scCover.gen
      /\ scCover'.barrier = NoBarrier
  <2>1. CASE scCover' = Entered(scCover, "dialog")
    BY <1>2, <2>1, DialogIs
  <2>2. CASE scCover.sup = "none" /\ scCover' = [scCover EXCEPT !.redraw = TRUE]
    BY <1>2, <2>2, RedrawnIs
  <2>3. CASE scCover.sup = "dialog" /\ scCover' = Left(scCover, "dialog")
    BY <1>2, <2>3, LeftIs
  <2> QED BY <2>1, <2>2, <2>3 DEF ScDialog
<1>4. scFrame' \in {scFrame, flushed("clear"), flushed("full")}
  BY DEF ScDialog
<1>5. scFrame' \in Frames(scCover'.gen) /\ scGtk' \in Toolbars(scCover'.gen)
  <2>1. 0 \in 0..scCover.gen /\ 0 \in Unthrottled..scCover.gen
    BY <1>2 DEF Unthrottled
  <2>2. ASSUME NEW content \in {"full", "clear"} PROVE flushed(content) \in Frames(scCover.gen)
    BY <1>2, <2>1 DEF CaptureTypeOK, Frames
  <2>3. scFrame' \in Frames(scCover.gen)
    BY <1>2, <1>4, <2>2 DEF CaptureTypeOK
  <2> QED BY <1>1, <1>2, <1>3, <2>3 DEF CaptureTypeOK
<1>6. CaptureTypeOK'
  BY <1>1, <1>2, <1>3, <1>5 DEF CaptureTypeOK
<1>7. CoverInv'
  BY <1>3, <1>6, RaisedCover
<1>8. scCover'.sup \notin Guarded /\ scCover.sup \notin Guarded
  BY <1>2, <1>3 DEF Guarded, Screenshots
<1>9. OwnerInv'
  BY <1>1, <1>2, <1>3, <1>8, FreezeAside, ZoomAside, OperationAside
     DEF OwnerInv, CaptureInv, Guarded
<1> QED BY <1>6, <1>7, <1>8, <1>9, NoReader DEF CaptureInv, CoverInv

\* Another board: the cover is kept.
LEMMA StepSwitchBoard ==
  ASSUME CaptureInv, ScSwitchBoard
  PROVE  CaptureInv'
<1>1. Kept
  BY RedrawKeeps DEF ScSwitchBoard, CaptureInv
<1>2. CaptureTypeOK'
  BY <1>1, TypesKept, AttemptIs DEF ScSwitchBoard, CaptureInv, CaptureTypeOK
<1>3. OwnerInv'
  BY <1>1, KeptAside DEF OwnerInv, ScSwitchBoard
<1> QED BY <1>1, <1>2, <1>3, KeptInv, AttemptIs DEF ScSwitchBoard, CaptureInv, Reads

-----------------------------------------------------------------------------
(* The event loop.                                                         *)

\* The completions of freeze and zoom raise the cover of their own suppression only.
LEMMA StepApplyCompletion ==
  ASSUME CaptureInv, ScApplyCompletion
  PROVE  CaptureInv'
<1>1. /\ CaptureTypeOK /\ scCover \in Covers /\ scFreeze \in Freezes /\ scZoom \in Zooms
      /\ {"frozen", "zoom"} \subseteq Guarded
      /\ scCover.barrier = NoBarrier \/ scCover.barrier.reason = scCover.sup
  BY DEF CaptureInv, CoverInv, BarrierInv, CaptureTypeOK, Guarded
<1>2. /\ scFreeze' \in Freezes /\ scFreeze'.stage = scFreeze.stage /\ ~scFreeze'.done
      /\ scFreeze'.at = scFreeze.at /\ scFreeze'.token = scFreeze.token
  BY <1>1 DEF ScApplyCompletion, Freezes
<1>3. scZoom' \in Zooms /\ scZoom'.stage = scZoom.stage /\ ~scZoom'.done
  BY <1>1 DEF ScApplyCompletion, Zooms
<1>4. PICK c : /\ c = IF scFreeze.done THEN Left(scCover, "frozen") ELSE scCover
               /\ scCover' = IF scZoom.done THEN Left(c, "zoom") ELSE c
  BY DEF ScApplyCompletion
<1>5. /\ UNCHANGED <<scFrame, scGtk, scOp, scMgr>> /\ scLayout' \in Layouts
      /\ scOpaque' \in BOOLEAN /\ scSpent' \in Bounds
  BY <1>1 DEF ScApplyCompletion, CaptureTypeOK
<1>6. \A reason \in Guarded : Reads(reason)' => Reads(reason)
  BY <1>2, <1>3, <1>5 DEF Reads
<1>7. CASE scCover.sup = "frozen" /\ scFreeze.done
  <2>1. Left(scCover, "frozen") \in Covers /\ Left(scCover, "frozen").sup = "none"
    BY <1>1, <1>7, LeftIs
  <2>2. scCover' = Left(scCover, "frozen")
    BY <1>4, <1>7, <2>1 DEF Left
  <2>3. Raised
    BY <1>1, <1>7, <2>2, LeaveRaises
  <2>4. CaptureTypeOK'
    BY <1>1, <1>2, <1>3, <1>5, <2>3, TypesKept DEF CaptureTypeOK
  <2>5. FreezeInv'
    BY <1>2, <1>7, <2>3, NoBarrierIs DEF FreezeInv, Freezing, Raised, CaptureInv, OwnerInv
  <2>6. ZoomInv'
    BY <1>3, <1>7, <2>3, NoBarrierIs DEF ZoomInv, Raised, CaptureInv, OwnerInv
  <2>7. OwnerInv'
    BY <1>5, <1>7, <2>3, <2>5, <2>6, RaisedAside DEF OwnerInv, Screenshots
  <2> QED BY <2>3, <2>4, <2>7, RaisedInv
<1>8. CASE scCover.sup = "zoom" /\ scZoom.done
  <2>1. scCover' = Left(scCover, "zoom")
    BY <1>4, <1>8 DEF Left
  <2>2. Raised
    BY <1>1, <1>8, <2>1, LeaveRaises
  <2>3. CaptureTypeOK'
    BY <1>1, <1>2, <1>3, <1>5, <2>2, TypesKept DEF CaptureTypeOK
  <2>4. FreezeInv'
    BY <1>2, <1>8, <2>2, NoBarrierIs DEF FreezeInv, Freezing, Raised, CaptureInv, OwnerInv
  <2>5. ZoomInv'
    BY <1>3, <1>8, <2>2, NoBarrierIs DEF ZoomInv, Raised, CaptureInv, OwnerInv
  <2>6. OwnerInv'
    BY <1>5, <1>8, <2>2, <2>4, <2>5, RaisedAside DEF OwnerInv, Screenshots
  <2> QED BY <2>2, <2>3, <2>6, RaisedInv
<1>9. CASE /\ ~(scCover.sup = "frozen" /\ scFreeze.done)
           /\ ~(scCover.sup = "zoom" /\ scZoom.done)
  <2>1. scCover' = scCover
    BY <1>4, <1>9 DEF Left
  <2>2. Kept
    BY <1>1, <2>1, StandKeeps
  <2>3. CaptureTypeOK'
    BY <1>1, <1>2, <1>3, <1>5, <2>2, TypesKept DEF CaptureTypeOK
  <2>4. FreezeInv' /\ ZoomInv'
    BY <1>2, <1>3, <1>9, <2>1 DEF FreezeInv, ZoomInv, Freezing, CaptureInv, OwnerInv
  <2>5. OwnerInv'
    BY <1>5, <2>2, <2>4, KeptAside DEF OwnerInv
  <2> QED BY <1>5, <1>6, <2>2, <2>3, <2>5, KeptInv
<1> QED BY <1>7, <1>8, <1>9

\* The loop commits a frame: the barrier's if it waits for nothing else.
LEMMA StepRender ==
  ASSUME CaptureInv, ScRender
  PROVE  CaptureInv'
<1> DEFINE g == CommitGeneration
           p == IF g # 0 THEN "frame" ELSE scCover.barrier.phase
<1>1. /\ CaptureTypeOK /\ scCover \in Covers /\ scCover.gen \in Nat /\ scFrame \in Frames(scCover.gen)
      /\ scOp \in CaptureOps /\ scCover.barrier \in Barriers
      /\ scCover.sup \in Guarded \cup {"none", "dialog"}
  BY DEF CaptureInv, CaptureTypeOK, Covers
<1>2. /\ g \in 0..scCover.gen
      /\ g # 0 => /\ g = scCover.barrier.gen /\ scCover.barrier.phase = "render"
                  /\ ~scCover.barrier.gtk /\ scCover.barrier # NoBarrier
  BY <1>1, NoBarrierIs DEF CommitGeneration, CaptureInv, CoverInv, BarrierInv
<1>3. /\ scCover' \in Covers /\ scCover'.sup = scCover.sup /\ scCover'.gen = scCover.gen
      /\ scCover'.barrier = [scCover.barrier EXCEPT !.phase = p]
  BY <1>1 DEF ScRender, Covers, Barriers
<1>4. /\ scCover'.barrier.gen = scCover.barrier.gen /\ scCover'.barrier.reason = scCover.barrier.reason
      /\ scCover'.barrier.gtk = scCover.barrier.gtk /\ scCover'.barrier.phase = p
      /\ g = 0 => scCover'.barrier = scCover.barrier
  BY <1>1, <1>3 DEF Barriers
<1>5. /\ scFrame'.committed = Content(scCover.sup) /\ scFrame'.screen = scFrame.screen
      /\ scFrame'.owed = scFrame.owed \cup {g} /\ scFrame'.sent = scFrame.sent
      /\ scFrame' \in Frames(scCover.gen)
  <2>1. Content(scCover.sup) \in {"full", "canvas", "clear"}
    BY DEF Content
  <2>2. g \in Unthrottled..scCover.gen
    BY <1>1, <1>2 DEF Unthrottled
  <2> QED BY <1>1, <1>2, <2>1, <2>2 DEF ScRender, Frames
<1>6. /\ scOp' \in CaptureOps /\ scOp'.busy = scOp.busy /\ scOp'.accepted = scOp.accepted
      /\ scOp'.request = scOp.request
      /\ scOp'.phase # "none" <=> scOp.phase # "none"
  BY <1>1 DEF ScRender, CaptureOps
<1>7. CaptureTypeOK'
  BY <1>1, <1>3, <1>5, <1>6 DEF ScRender, CaptureTypeOK
<1>8. BarrierInv'
  BY <1>2, <1>3, <1>4 DEF BarrierInv, CaptureInv, CoverInv
<1>9. FrameInv'
  BY <1>2, <1>3, <1>4, <1>5, NoBarrierIs DEF FrameInv, BarrierInv, CaptureInv, CoverInv, Content
<1>10. ToolbarInv'
  BY <1>2, <1>3, <1>4 DEF ScRender, ToolbarInv, CaptureInv, CoverInv
<1>11. OwnerInv'
  <2>1. FreezeInv' /\ ZoomInv'
    BY <1>3, <1>4, FreezeAside, ZoomAside DEF ScRender, CaptureInv, OwnerInv
  <2>2. scMgr' = scMgr
    BY DEF ScRender
  <2>3. scCover'.barrier # NoBarrier => scCover.barrier # NoBarrier
    BY <1>2, <1>4
  <2>4. OperationInv'
    BY <1>1, <1>3, <1>6, <2>2, <2>3 DEF OperationInv, CaptureInv, OwnerInv, CaptureOps
  <2> QED BY <2>1, <2>4 DEF OwnerInv
<1>12. ReaderInv'
  <2>1. \A reason \in Guarded : Reads(reason)' => Reads(reason)
    BY DEF ScRender, Reads
  <2>2. scCover.barrier = NoBarrier => scCover'.barrier = NoBarrier
    BY <1>2, <1>4
  <2>3. scGtk' = scGtk
    BY DEF ScRender
  <2> QED BY <1>3, <1>5, <2>1, <2>2, <2>3 DEF ReaderInv, CaptureInv, Content
<1> QED BY <1>7, <1>8, <1>9, <1>10, <1>11, <1>12 DEF CaptureInv, CoverInv

\* The preflight of the reason in force is given up, by a deadline, by the toolbars or
\* because its owner is not waiting for it; its barrier may have been taken already.
LEMMA CancelRaises ==
  ASSUME CaptureInv, NEW reason \in Guarded, NEW c \in Covers,
         scCover.barrier # NoBarrier, scCover.sup = reason, c.sup = reason, c.gen = scCover.gen,
         c.barrier = NoBarrier \/ c.barrier.reason = reason, CancelPreflight(reason, c),
         scMgr' = scMgr
  PROVE  /\ Raised /\ OwnerInv'
         /\ scFreeze' \in Freezes /\ scZoom' \in Zooms /\ scOp' \in CaptureOps
<1>1. /\ CaptureTypeOK /\ scFreeze \in Freezes /\ scZoom \in Zooms /\ scOp \in CaptureOps
  BY DEF CaptureInv, CaptureTypeOK
<1>2. CASE reason = "frozen"
  <2>1. /\ scCover' = Left(c, reason) /\ scFreeze' = FreezeCancelled(scFreeze)
        /\ scZoom' = scZoom /\ scOp' = scOp
    BY <1>2 DEF CancelPreflight, Screenshots
  <2>2. Raised
    BY <1>1, <2>1, LeaveRaises
  <2>3. scFreeze' \in Freezes /\ scFreeze'.stage = "idle"
    BY <1>1, <2>1, FreezeCancelledIs
  <2>4. FreezeInv'
    BY <2>2, <2>3, NoBarrierIs DEF FreezeInv, Freezing, Raised
  <2>5. OwnerInv'
    BY <1>2, <2>1, <2>2, <2>4, RaisedAside DEF OwnerInv, Screenshots
  <2> QED BY <1>1, <2>1, <2>2, <2>3, <2>5
<1>3. CASE reason = "zoom"
  <2>1. /\ scCover' = Left(c, reason) /\ scZoom' = ZoomCancelled(scZoom, FALSE)
        /\ scFreeze' = scFreeze /\ scOp' = scOp
    BY <1>3 DEF CancelPreflight, Screenshots
  <2>2. Raised
    BY <1>1, <2>1, LeaveRaises
  <2>3. scZoom' \in Zooms /\ scZoom'.stage = "idle"
    BY <1>1, <2>1, ZoomCancelledIs
  <2>4. ZoomInv'
    BY <2>2, <2>3, NoBarrierIs DEF ZoomInv, Raised
  <2>5. OwnerInv'
    BY <1>3, <2>1, <2>2, <2>4, RaisedAside DEF OwnerInv, Screenshots
  <2> QED BY <1>1, <2>1, <2>2, <2>3, <2>5
<1>4. CASE reason \in Screenshots
  <2>1. /\ scCover' = OverlayShown(c) /\ scOp' = OpIdle
        /\ scFreeze' = scFreeze /\ scZoom' = scZoom
    BY <1>4 DEF CancelPreflight, Screenshots
  <2>2. Raised
    BY <1>1, <1>4, <2>1, ShowRaises
  <2>3. scMgr.active = Nothing
    BY <1>4 DEF CaptureInv, OwnerInv, OperationInv, Screenshots
  <2>4. OperationInv'
    BY <1>4, <2>1, <2>2, <2>3, OpIdleIs DEF OperationInv, Raised, CaptureInv, OwnerInv, Screenshots
  <2>5. OwnerInv'
    BY <1>4, <2>1, <2>2, <2>4, RaisedAside DEF OwnerInv, Screenshots
  <2> QED BY <1>1, <2>1, <2>2, <2>5, OpIdleIs
<1> QED BY <1>2, <1>3, <1>4 DEF Guarded

\* A frame callback: an old one, or the one that confirms the barrier and lets its owner
\* read.
LEMMA StepFrameCallback ==
  ASSUME CaptureInv, ScFrameCallback
  PROVE  CaptureInv'
<1>1. PICK gen \in scFrame.sent :
        /\ scFrame' = [scFrame EXCEPT !.sent = @ \ {gen},
                                      !.throttle = IF @ = gen THEN Unthrottled ELSE @]
        /\ IF gen # 0 /\ MarksReady(gen)
           THEN BeginReady(scCover.barrier.reason, [scCover EXCEPT !.barrier = NoBarrier])
           ELSE UNCHANGED <<scCover, scFreeze, scZoom, scOp, scMgr>>
  BY DEF ScFrameCallback
<1>2. /\ CaptureTypeOK /\ scCover \in Covers /\ scCover.gen \in Nat /\ scFrame \in Frames(scCover.gen)
      /\ scFreeze \in Freezes /\ scZoom \in Zooms /\ scOp \in CaptureOps /\ scMgr \in Managers
      /\ scLayout \in Layouts
  BY DEF CaptureInv, CaptureTypeOK, Covers
<1>3. /\ scGtk' = scGtk /\ scLayout' = scLayout /\ scOpaque' = scOpaque /\ scSpent' = scSpent
  BY DEF ScFrameCallback
<1>4. FramesKept /\ scFrame' \in Frames(scCover.gen)
  <2>1. Unthrottled \in Unthrottled..scCover.gen
    BY <1>2 DEF Unthrottled
  <2>2. scFrame' \in Frames(scCover.gen)
    BY <1>1, <1>2, <2>1 DEF Frames
  <2> QED BY <1>1, <1>2, <2>2 DEF FramesKept, Frames
<1>5. CASE UNCHANGED <<scCover, scFreeze, scZoom, scOp, scMgr>>
  <2>1. Kept
    BY <1>2, <1>5, StandKeeps
  <2>2. CaptureTypeOK'
    BY <1>2, <1>3, <1>4, <1>5 DEF CaptureTypeOK
  <2>3. OwnerInv'
    BY <1>5, <2>1, KeptAside DEF OwnerInv
  <2> QED BY <1>3, <1>4, <1>5, <2>1, <2>2, <2>3, KeptInv DEF Reads
<1>6. ASSUME NEW reason, NEW c, reason = scCover.barrier.reason,
             c = [scCover EXCEPT !.barrier = NoBarrier],
             gen # 0, MarksReady(gen), BeginReady(reason, c)
      PROVE  CaptureInv'
  <2>1. /\ scCover.barrier # NoBarrier /\ reason \in Guarded /\ reason = scCover.sup
    BY <1>6, NoBarrierIs DEF MarksReady, CaptureInv, CoverInv, BarrierInv
  <2>2. /\ c \in Covers /\ c.sup = reason /\ c.gen = scCover.gen /\ c.barrier = NoBarrier
    BY <1>2, <1>6, <2>1, NoBarrierIs DEF Covers
  <2>3. scFrame.committed = Content(reason) /\ scFrame.screen = Content(reason)
    BY <1>1, <1>6, <2>1 DEF MarksReady, CaptureInv, CoverInv, FrameInv
  <2>4. scGtk.alive => scGtk.bars = "clear"
    BY <1>1, <1>6, <2>1 DEF MarksReady, CaptureInv, CoverInv, FrameInv, ToolbarInv
  <2>5. /\ scCover' \in Covers /\ scCover'.gen = scCover.gen /\ scFreeze' \in Freezes
        /\ scZoom' \in Zooms /\ scOp' \in CaptureOps /\ scMgr' \in Managers
        => CaptureTypeOK'
    BY <1>2, <1>3, <1>4 DEF CaptureTypeOK
  <2>6. CASE Raised /\ OwnerInv' /\ CaptureTypeOK'
    BY <2>6, RaisedInv
  <2>7. CASE scCover' = c /\ OwnerInv' /\ CaptureTypeOK'
    <3>1. CoverInv'
      BY <2>2, <2>7, RaisedCover
    <3>2. \A r \in Guarded : Reads(r)' => r = reason
      BY <2>2, <2>7, CaptureAssumption
         DEF Reads, OwnerInv, FreezeInv, ZoomInv, OperationInv, Freezing, Direct, Screenshots
    <3>3. ReaderInv'
      BY <1>3, <1>4, <2>2, <2>3, <2>4, <2>7, <3>2 DEF ReaderInv, FramesKept, Content
    <3> QED BY <2>7, <3>1, <3>3 DEF CaptureInv
  <2>8. CASE CancelPreflight(reason, c) /\ scMgr' = scMgr
    <3>1. /\ Raised /\ OwnerInv'
          /\ scFreeze' \in Freezes /\ scZoom' \in Zooms /\ scOp' \in CaptureOps
      BY <2>1, <2>2, <2>8, CancelRaises
    <3> QED BY <1>2, <2>5, <2>6, <2>8, <3>1 DEF Raised
  <2>9. CASE /\ reason = "frozen" /\ scFreeze.stage = "preflight"
             /\ scFreeze' \in ChainOutcomes(scFreeze, {PreferredBackend} \cup FallbacksOf(PreferredBackend))
             /\ scCover' = c /\ UNCHANGED <<scZoom, scOp, scMgr>>
    <3>1. {PreferredBackend} \cup FallbacksOf(PreferredBackend) \in SUBSET Backends
      BY CaptureAssumption DEF PreferredBackend, FallbacksOf
    <3>2. /\ scFreeze' \in Freezes
          /\ \/ scFreeze'.stage = "idle" /\ scFreeze'.done
             \/ scFreeze'.stage \in Backends /\ (scFreeze'.done => scFreeze.done)
      BY <1>2, <2>9, <3>1, ChainIs, FreezeCancelledIs
    <3>3. FreezeInv'
      BY <2>1, <2>2, <2>9, <3>2, NoBarrierIs, CaptureAssumption
         DEF FreezeInv, Freezing, CaptureInv, OwnerInv
    <3>4. ZoomInv' /\ OperationInv'
      BY <1>2, <2>1, <2>2, <2>9, NoBarrierIs, ZoomAside, OperationAside
         DEF CaptureInv, OwnerInv
    <3> QED BY <1>2, <2>2, <2>5, <2>7, <2>9, <3>2, <3>3, <3>4 DEF OwnerInv
  <2>10. CASE /\ reason = "zoom" /\ scZoom.stage = "preflight"
              /\ scZoom' \in ZoomOutcomes(scZoom) /\ scCover' = c /\ UNCHANGED <<scFreeze, scOp, scMgr>>
    <3>1. /\ scZoom' \in Zooms
          /\ \/ scZoom'.stage = "idle" /\ scZoom'.done
             \/ scZoom'.stage = "read" /\ scZoom'.done = scZoom.done
      <4>1. CASE scZoom' = ZoomCancelled(scZoom, FALSE)
        BY <1>2, <4>1, ZoomCancelledIs
      <4>2. CASE scZoom' # ZoomCancelled(scZoom, FALSE)
        BY <1>2, <2>10, <4>2, ZoomOutcomesIs
      <4> QED BY <4>1, <4>2
    <3>2. ZoomInv'
      BY <2>1, <2>2, <2>10, <3>1, NoBarrierIs DEF ZoomInv, CaptureInv, OwnerInv
    <3>3. FreezeInv' /\ OperationInv'
      BY <1>2, <2>1, <2>2, <2>10, NoBarrierIs, FreezeAside, OperationAside
         DEF CaptureInv, OwnerInv
    <3> QED BY <1>2, <2>2, <2>5, <2>7, <2>10, <3>1, <3>2, <3>3 DEF OwnerInv
  <2>11. CASE /\ reason \in Screenshots /\ scOp.phase = "frame"
              /\ Submit(reason, [scOp EXCEPT !.phase = "none", !.request = "none"], c)
              /\ UNCHANGED <<scFreeze, scZoom>>
    <3>1. PICK op : op = [scOp EXCEPT !.phase = "none", !.request = "none"] /\ Submit(reason, op, c)
      BY <2>11
    <3>2. op \in CaptureOps /\ op.busy = scOp.busy /\ op.phase = "none" /\ op.request = "none"
      BY <1>2, <3>1 DEF CaptureOps
    <3>3. /\ scMgr.active = Nothing /\ scMgr.kind = "none" /\ scMgr.work = Nothing /\ scOp.busy
          /\ scMgr.next \in Nat /\ scMgr.next # Nothing /\ scMgr.message.id \in Nat
          /\ scMgr.message.id < scMgr.next
      BY <1>2, <2>11 DEF CaptureInv, OwnerInv, OperationInv, Managers, Nothing, Screenshots
    <3>4. reason \in Screenshots \cup {"export"} /\ reason \notin {"none", "frozen", "zoom"}
      BY <2>11 DEF Screenshots
    <3>5. CASE /\ scOp' = OpIdle /\ scCover' = OverlayShown(c) /\ scMgr' \in Managers
               /\ scMgr'.active = Nothing /\ scMgr'.next = scMgr.next
               /\ scMgr'.work = scMgr.work /\ scMgr'.kind = scMgr.kind /\ scMgr'.message = scMgr.message
      <4>1. Raised
        BY <1>2, <2>1, <2>2, <2>11, <3>5, ShowRaises
      <4>2. CaptureTypeOK'
        BY <1>2, <2>5, <2>11, <3>5, <4>1, OpIdleIs DEF Raised
      <4>3. OperationInv'
        BY <3>3, <3>5, <4>1, OpIdleIs DEF OperationInv, Raised, Screenshots, Nothing
      <4>4. OwnerInv'
        BY <2>1, <2>11, <3>4, <4>1, <4>3, RaisedAside DEF OwnerInv
      <4> QED BY <2>6, <4>1, <4>2, <4>4
    <3>6. CASE /\ scOp' \in CaptureOps /\ scCover' = c /\ scMgr' \in Managers
               /\ scOp'.busy = op.busy /\ scOp'.phase = op.phase /\ scOp'.request = op.request
               /\ scOp'.accepted = scMgr.next
               /\ scMgr'.active = scMgr.next /\ scMgr'.next = scMgr.next + 1
               /\ scMgr'.work = scMgr.next /\ scMgr'.kind = reason /\ scMgr'.message = scMgr.message
      <4>1. OperationInv'
        BY <2>2, <3>2, <3>3, <3>4, <3>6 DEF OperationInv
      <4>2. FreezeInv' /\ ZoomInv'
        BY <2>1, <2>2, <2>11, <3>6, NoBarrierIs, FreezeAside, ZoomAside DEF CaptureInv, OwnerInv
      <4> QED BY <1>2, <2>2, <2>5, <2>7, <2>11, <3>6, <4>1, <4>2 DEF OwnerInv
    <3>7. c \in Covers
      BY <2>2
    <3>8. /\ scMgr' \in Managers /\ scMgr'.message = scMgr.message
          /\ \/ /\ scOp' = OpIdle /\ scCover' = OverlayShown(c)
                /\ scMgr'.active = Nothing /\ scMgr'.next = scMgr.next
                /\ scMgr'.work = scMgr.work /\ scMgr'.kind = scMgr.kind
             \/ /\ scOp' \in CaptureOps /\ scCover' = c
                /\ scOp'.busy = op.busy /\ scOp'.phase = op.phase /\ scOp'.request = op.request
                /\ scOp'.accepted = scMgr.next
                /\ scMgr'.active = scMgr.next /\ scMgr'.next = scMgr.next + 1
                /\ scMgr'.work = scMgr.next /\ scMgr'.kind = reason
      BY <1>2, <3>1, <3>2, <3>3, <3>4, <3>7, SubmitIs
    <3> QED BY <3>5, <3>6, <3>8
  <2> QED BY <1>6, <2>2, <2>8, <2>9, <2>10, <2>11 DEF BeginReady
<1> QED BY <1>1, <1>5, <1>6

\* The deadline of the barrier.
LEMMA StepBarrierTimeout ==
  ASSUME CaptureInv, ScBarrierTimeout
  PROVE  CaptureInv'
<1>1. /\ CaptureTypeOK /\ scCover \in Covers /\ scCover.barrier # NoBarrier
      /\ scCover.sup \in Guarded /\ scCover.barrier.reason = scCover.sup
  BY NoBarrierIs DEF ScBarrierTimeout, CaptureInv, CaptureTypeOK, CoverInv, BarrierInv
<1>2. /\ Raised /\ OwnerInv'
      /\ scFreeze' \in Freezes /\ scZoom' \in Zooms /\ scOp' \in CaptureOps
  BY <1>1, CancelRaises DEF ScBarrierTimeout
<1>3. scFrame' \in Frames(scCover.gen)
  <2>1. Unthrottled \in Unthrottled..scCover.gen
    BY <1>1 DEF Covers, Unthrottled
  <2> QED BY <1>1, <2>1 DEF ScBarrierTimeout, CaptureTypeOK, Frames
<1>4. CaptureTypeOK'
  BY <1>1, <1>2, <1>3 DEF ScBarrierTimeout, CaptureTypeOK, Raised
<1> QED BY <1>2, <1>4, RaisedInv

\* Feedback of the toolbars: of another generation, an acknowledgement, or a failure.
LEMMA StepGtkFeedback ==
  ASSUME CaptureInv, ScGtkFeedback
  PROVE  CaptureInv'
<1>1. PICK said \in scGtk.said :
        /\ scGtk' = [scGtk EXCEPT !.said = @ \ {said}]
        /\ IF ~WaitsForGtk(said.gen) THEN UNCHANGED <<scCover, scFreeze, scZoom, scOp>>
           ELSE IF said.ok
           THEN /\ scCover' = [scCover EXCEPT !.barrier.gtk = FALSE, !.barrier.phase = "render", !.redraw = TRUE]
                /\ UNCHANGED <<scFreeze, scZoom, scOp>>
           ELSE CancelPreflight(scCover.barrier.reason, scCover)
  BY DEF ScGtkFeedback
<1>2. /\ CaptureTypeOK /\ scCover \in Covers /\ scCover.barrier \in Barriers /\ scGtk \in Toolbars(scCover.gen)
  BY DEF CaptureInv, CaptureTypeOK, Covers
<1>3. /\ UNCHANGED <<scFrame, scMgr>> /\ scLayout' = scLayout /\ scOpaque' = scOpaque /\ scSpent' = scSpent
  BY DEF ScGtkFeedback
<1>4. /\ scGtk' \in Toolbars(scCover.gen) /\ scGtk'.said \subseteq scGtk.said
      /\ scGtk'.alive = scGtk.alive /\ scGtk'.bars = scGtk.bars
  BY <1>1, <1>2 DEF Toolbars
<1>5. CASE ~WaitsForGtk(said.gen)
  <2>1. UNCHANGED <<scCover, scFreeze, scZoom, scOp>>
    BY <1>1, <1>5
  <2>2. Kept
    BY <1>2, <2>1, StandKeeps
  <2>3. CaptureTypeOK'
    BY <1>2, <1>3, <1>4, <2>1 DEF CaptureTypeOK
  <2>4. OwnerInv'
    BY <1>3, <2>1, <2>2, KeptAside DEF OwnerInv
  <2>5. BarrierInv' /\ FrameInv'
    BY <1>3, <2>1 DEF BarrierInv, FrameInv, CaptureInv, CoverInv
  <2>6. ToolbarInv'
    BY <1>4, <2>1 DEF ToolbarInv, CaptureInv, CoverInv
  <2>7. ReaderInv'
    BY <1>3, <1>4, <2>1 DEF ReaderInv, CaptureInv, Reads
  <2> QED BY <2>3, <2>4, <2>5, <2>6, <2>7 DEF CaptureInv, CoverInv
<1>6. CASE WaitsForGtk(said.gen) /\ said.ok
  <2>1. /\ scCover' = [scCover EXCEPT !.barrier.gtk = FALSE, !.barrier.phase = "render", !.redraw = TRUE]
        /\ UNCHANGED <<scFreeze, scZoom, scOp>>
    BY <1>1, <1>6
  <2>2. /\ scCover' \in Covers /\ scCover'.sup = scCover.sup /\ scCover'.gen = scCover.gen
        /\ scCover'.barrier = [scCover.barrier EXCEPT !.gtk = FALSE, !.phase = "render"]
    BY <1>2, <2>1 DEF Covers, Barriers
  <2>3. /\ scCover'.barrier.gen = scCover.barrier.gen /\ scCover'.barrier.phase = "render"
        /\ scCover'.barrier.reason = scCover.barrier.reason /\ ~scCover'.barrier.gtk
    BY <1>2, <2>2 DEF Barriers
  <2>4. /\ scCover.barrier # NoBarrier /\ scCover'.barrier # NoBarrier /\ scCover.barrier.gtk
        /\ scCover.barrier.gen = said.gen
    BY <1>6, <2>3, NoBarrierIs DEF WaitsForGtk
  <2>5. CaptureTypeOK'
    BY <1>2, <1>3, <1>4, <2>1, <2>2 DEF CaptureTypeOK
  <2>6. BarrierInv'
    BY <2>2, <2>3, <2>4 DEF BarrierInv, CaptureInv, CoverInv
  <2>7. FrameInv'
    BY <1>3, <2>2, <2>3, <2>4 DEF FrameInv, CaptureInv, CoverInv
  <2>8. ToolbarInv'
    BY <1>1, <1>4, <1>6, <2>3, <2>4 DEF ToolbarInv, CaptureInv, CoverInv
  <2>9. FreezeInv' /\ ZoomInv'
    BY <2>1, <2>2, <2>3, FreezeAside, ZoomAside DEF CaptureInv, OwnerInv
  <2>10. OperationInv'
    BY <1>2, <1>3, <2>1, <2>2, <2>4 DEF OperationInv, CaptureInv, OwnerInv, CaptureTypeOK, CaptureOps
  <2> QED BY <2>4, <2>5, <2>6, <2>7, <2>8, <2>9, <2>10, NoReader DEF CaptureInv, CoverInv, OwnerInv
<1>7. CASE WaitsForGtk(said.gen) /\ ~said.ok
  <2>1. /\ scCover.barrier # NoBarrier /\ scCover.sup \in Guarded
        /\ scCover.barrier.reason = scCover.sup
    BY <1>7, NoBarrierIs DEF WaitsForGtk, CaptureInv, CoverInv, BarrierInv
  <2>2. /\ Raised /\ OwnerInv'
        /\ scFreeze' \in Freezes /\ scZoom' \in Zooms /\ scOp' \in CaptureOps
    BY <1>1, <1>2, <1>3, <1>7, <2>1, CancelRaises
  <2>3. CaptureTypeOK'
    BY <1>2, <1>3, <1>4, <2>2 DEF CaptureTypeOK, Raised
  <2> QED BY <2>2, <2>3, RaisedInv
<1> QED BY <1>5, <1>6, <1>7

\* The GTK thread ends: a barrier that waits for it is given up.
LEMMA StepGtkLost ==
  ASSUME CaptureInv, ScGtkLost
  PROVE  CaptureInv'
<1>1. /\ CaptureTypeOK /\ scCover \in Covers
  BY DEF CaptureInv, CaptureTypeOK
<1>2. /\ UNCHANGED <<scFrame, scMgr>> /\ scLayout' = scLayout /\ scOpaque' = scOpaque
      /\ scSpent' \in Bounds
  BY <1>1, CaptureAssumption DEF ScGtkLost, CaptureTypeOK, Bounds
<1>3. /\ scGtk' \in Toolbars(scCover.gen) /\ scGtk'.said = scGtk.said
      /\ ~scGtk'.alive /\ scGtk'.bars = "clear"
  BY <1>1 DEF ScGtkLost, CaptureTypeOK, Toolbars
<1>4. CASE scCover.barrier.gtk
  <2>1. /\ scCover.barrier # NoBarrier /\ scCover.sup \in Guarded
        /\ scCover.barrier.reason = scCover.sup
    BY <1>4, NoBarrierIs DEF CaptureInv, CoverInv, BarrierInv
  <2>2. /\ Raised /\ OwnerInv'
        /\ scFreeze' \in Freezes /\ scZoom' \in Zooms /\ scOp' \in CaptureOps
    BY <1>1, <1>2, <1>4, <2>1, CancelRaises DEF ScGtkLost
  <2>3. CaptureTypeOK'
    BY <1>1, <1>2, <1>3, <2>2 DEF CaptureTypeOK, Raised
  <2> QED BY <2>2, <2>3, RaisedInv
<1>5. CASE ~scCover.barrier.gtk
  <2>1. UNCHANGED <<scCover, scFreeze, scZoom, scOp>>
    BY <1>5 DEF ScGtkLost
  <2>2. CaptureTypeOK'
    BY <1>1, <1>2, <1>3, <2>1 DEF CaptureTypeOK
  <2>3. BarrierInv' /\ FrameInv'
    BY <1>2, <2>1 DEF BarrierInv, FrameInv, CaptureInv, CoverInv
  <2>4. ToolbarInv'
    BY <1>3 DEF ToolbarInv
  <2>5. OwnerInv'
    BY <1>1, <1>2, <2>1, StandKeeps, KeptAside DEF OwnerInv
  <2>6. ReaderInv'
    BY <1>2, <1>3, <2>1 DEF ReaderInv, CaptureInv, Reads
  <2> QED BY <2>2, <2>3, <2>4, <2>5, <2>6 DEF CaptureInv, CoverInv
<1> QED BY <1>4, <1>5

\* A freeze that stays in progress without a barrier, or ends with a completion to apply.
LEMMA StepFreezeMoves ==
  ASSUME CaptureInv, scFreeze.stage \notin {"idle", "preflight"}, scFreeze' \in Freezes, Kept,
         \/ scFreeze'.stage = "idle" /\ scFreeze'.done
         \/ /\ scFreeze.stage \in Backends /\ scFreeze'.stage \in Backends
            /\ scFreeze'.done => scFreeze.done
         \/ /\ scFreeze'.stage = "pending" /\ scFreeze'.done = scFreeze.done
            /\ scFreeze'.at = scFreeze'.token,
         UNCHANGED <<scFrame, scGtk, scZoom, scOp, scMgr, scLayout, scOpaque, scSpent>>
  PROVE  CaptureInv'
<1>1. CaptureTypeOK'
  BY TypesKept DEF CaptureInv, CaptureTypeOK
<1>2. FreezeInv'
  BY CaptureAssumption DEF FreezeInv, Freezing, Kept, CaptureInv, OwnerInv
<1>3. OwnerInv'
  BY <1>2, KeptAside DEF OwnerInv
<1>4. \A reason \in Guarded : Reads(reason)' => Reads(reason)
  BY CaptureAssumption DEF Reads
<1> QED BY <1>1, <1>3, <1>4, KeptInv

\* The pixels of a freeze arrive.
LEMMA StepFreezeReady ==
  ASSUME CaptureInv, ScFreezeReady
  PROVE  CaptureInv'
<1>1. /\ scFreeze \in Freezes /\ scLayout \in Layouts
      /\ scFreeze.stage \notin {"idle", "preflight"}
  BY DEF ScFreezeReady, CaptureInv, CaptureTypeOK, Direct
<1>2. Kept
  BY StandKeeps DEF ScFreezeReady, CaptureInv
<1>3. /\ scFreeze' \in Freezes
      /\ \/ scFreeze'.stage = "idle" /\ scFreeze'.done
         \/ /\ scFreeze'.stage = "pending" /\ scFreeze'.done = scFreeze.done
            /\ scFreeze'.at = scFreeze'.token
  BY <1>1, PixelsReadyIs, FreezeEndedIs DEF ScFreezeReady
<1> QED BY <1>1, <1>2, <1>3, StepFreezeMoves DEF ScFreezeReady

\* A direct backend fails and the next one is tried.
LEMMA StepFreezeFallback ==
  ASSUME CaptureInv, ScFreezeFallback
  PROVE  CaptureInv'
<1>1. /\ scFreeze \in Freezes /\ scLayout \in Layouts /\ scFreeze.stage \in Backends
      /\ scFreeze.stage \notin {"idle", "preflight"}
  BY DEF ScFreezeFallback, CaptureInv, CaptureTypeOK, Direct, Freezes
<1>2. Kept
  BY StandKeeps DEF ScFreezeFallback, CaptureInv
<1>3. FallbacksOf(scFreeze.stage) \in SUBSET Backends
  BY DEF FallbacksOf
<1>4. /\ scFreeze' \in Freezes
      /\ \/ scFreeze'.stage = "idle" /\ scFreeze'.done
         \/ scFreeze'.stage \in Backends /\ (scFreeze'.done => scFreeze.done)
  BY <1>1, <1>3, ChainIs, FreezeCancelledIs DEF ScFreezeFallback
<1> QED BY <1>1, <1>2, <1>4, StepFreezeMoves DEF ScFreezeFallback

\* The portal fails.
LEMMA StepFreezePortalFails ==
  ASSUME CaptureInv, ScFreezePortalFails
  PROVE  CaptureInv'
<1>1. Kept
  BY StandKeeps DEF ScFreezePortalFails, CaptureInv
<1>2. /\ scFreeze' \in Freezes /\ scFreeze'.stage = "idle" /\ scFreeze'.done
  BY FreezeEndedIs DEF ScFreezePortalFails, CaptureInv, CaptureTypeOK
<1> QED BY <1>1, <1>2, StepFreezeMoves DEF ScFreezePortalFails

\* The pixels become the frozen image, or are dropped.
LEMMA StepActivateFrozen ==
  ASSUME CaptureInv, ScActivateFrozen
  PROVE  CaptureInv'
<1>1. Kept
  BY RedrawKeeps, StandKeeps DEF ScActivateFrozen, CaptureInv
<1>2. /\ scFreeze' \in Freezes /\ scFreeze'.stage = "idle" /\ scFreeze'.done
  <2>1. FreezeEnded(scFreeze) \in Freezes /\ FreezeEnded(scFreeze).stage = "idle" /\ FreezeEnded(scFreeze).done
    BY FreezeEndedIs DEF CaptureInv, CaptureTypeOK
  <2>2. scFreeze.at \in Layouts \cup {Nothing}
    BY DEF CaptureInv, CaptureTypeOK, Freezes
  <2> QED BY <2>1, <2>2 DEF ScActivateFrozen, Freezes
<1> QED BY <1>1, <1>2, StepFreezeMoves DEF ScActivateFrozen

\* The pixels of a zoom arrive, or fail to.
LEMMA StepZoomAnswer ==
  ASSUME CaptureInv, ScZoomAnswer
  PROVE  CaptureInv'
<1>1. Kept
  BY RedrawKeeps DEF ScZoomAnswer, CaptureInv
<1>2. scZoom \in Zooms /\ scLayout \in Layouts
  BY DEF CaptureInv, CaptureTypeOK
<1>3. scZoom' \in Zooms /\ scZoom'.stage = "idle" /\ scZoom'.done
  <2>1. CASE scZoom' = ZoomRead(scZoom)
    BY <1>2, <2>1, ZoomReadIs
  <2>2. CASE scZoom' = ZoomCancelled(scZoom, FALSE)
    BY <1>2, <2>2, ZoomCancelledIs
  <2> QED BY <2>1, <2>2 DEF ScZoomAnswer
<1>4. /\ UNCHANGED <<scFrame, scGtk, scFreeze, scOp, scMgr>>
      /\ scLayout' \in Layouts /\ scOpaque' \in BOOLEAN /\ scSpent' \in Bounds
  BY DEF ScZoomAnswer, CaptureInv, CaptureTypeOK
<1> QED BY <1>1, <1>3, <1>4, StepEndZoom

\* A later layout within the bound.
LEMMA NextLayout ==
  ASSUME NEW n \in Layouts, n < MaxLayouts
  PROVE  n + 1 \in Layouts
<1>1. MaxLayouts \in Nat
  BY CaptureAssumption
<1> QED BY <1>1 DEF Layouts

\* The layout changes: images are dropped, the cover is kept.
LEMMA StepLayoutChange ==
  ASSUME CaptureInv, ScLayoutChange
  PROVE  CaptureInv'
<1>1. /\ CaptureTypeOK /\ scFreeze \in Freezes /\ scZoom \in Zooms
  BY DEF CaptureInv, CaptureTypeOK
<1>2. PICK kind \in {"same size", "resized", "moved"} :
        /\ scFreeze' = [scFreeze EXCEPT !.image = IF kind = "same size" THEN @ ELSE Nothing]
        /\ scZoom' = IF kind = "moved" \/ (kind = "resized" /\ scZoom.image # Nothing)
                     THEN ZoomCancelled(scZoom, TRUE) ELSE scZoom
        /\ scCover' = [scCover EXCEPT !.redraw = @ \/ kind # "same size"]
  BY DEF ScLayoutChange
<1>3. Kept
  <2>1. PICK redraw \in BOOLEAN : scCover' = [scCover EXCEPT !.redraw = redraw]
    BY <1>1, <1>2 DEF CaptureTypeOK, Covers
  <2> QED BY <1>1, <2>1, RedrawKeeps
<1>4. /\ scFreeze' \in Freezes /\ scFreeze'.stage = scFreeze.stage /\ scFreeze'.done = scFreeze.done
      /\ scFreeze'.at = scFreeze.at /\ scFreeze'.token = scFreeze.token
  BY <1>1, <1>2 DEF Freezes
<1>5. /\ scZoom' \in Zooms
      /\ \/ scZoom' = scZoom
         \/ scZoom'.stage = "idle" /\ scZoom'.done
  <2>1. CASE scZoom' = ZoomCancelled(scZoom, TRUE)
    BY <1>1, <2>1, ZoomCancelledIs
  <2>2. CASE scZoom' = scZoom
    BY <1>1, <2>2
  <2> QED BY <1>2, <2>1, <2>2
<1>6. /\ UNCHANGED <<scFrame, scGtk, scOp, scMgr>> /\ scLayout' \in Layouts
      /\ scOpaque' \in BOOLEAN /\ scSpent' \in Bounds
  <2>1. scLayout' \in Layouts
    <3>1. scLayout < MaxLayouts /\ scLayout' = scLayout + 1 /\ scLayout \in Layouts
      BY <1>1 DEF ScLayoutChange, CaptureTypeOK
    <3> QED BY <3>1, NextLayout
  <2> QED BY <1>1, <2>1 DEF ScLayoutChange, CaptureTypeOK
<1>7. CaptureTypeOK'
  BY <1>1, <1>3, <1>4, <1>5, <1>6, TypesKept DEF CaptureTypeOK
<1>8. FreezeInv' /\ ZoomInv'
  BY <1>3, <1>4, <1>5 DEF FreezeInv, ZoomInv, Freezing, Kept, CaptureInv, OwnerInv
<1>9. OwnerInv'
  BY <1>3, <1>6, <1>8, KeptAside DEF OwnerInv
<1>10. \A reason \in Guarded : Reads(reason)' => Reads(reason)
  BY <1>4, <1>5, <1>6 DEF Reads
<1> QED BY <1>3, <1>6, <1>7, <1>9, <1>10, KeptInv

\* The operation of the loop ends together with the request the manager had.
LEMMA OperationEnds ==
  ASSUME CaptureInv, scOp' = OpIdle, scCover' = OverlayShown(scCover), scMgr' \in Managers,
         scMgr'.active = Nothing, scMgr'.kind = "none", scMgr'.work = Nothing,
         scMgr'.next = scMgr.next, scMgr'.message.id < scMgr.next,
         UNCHANGED <<scFrame, scGtk, scFreeze, scZoom, scLayout, scOpaque, scSpent>>
  PROVE  CaptureInv'
<1>1. /\ CaptureTypeOK /\ scCover \in Covers /\ scMgr.next \in Nat /\ scMgr.next > Nothing
      /\ scCover.barrier = NoBarrier \/ scCover.barrier.reason = scCover.sup
  BY DEF CaptureInv, CaptureTypeOK, Managers, OwnerInv, OperationInv, CoverInv, BarrierInv, Nothing
<1>2. CASE scCover.sup \in Screenshots
  <2>1. Raised
    BY <1>1, <1>2, ShowRaises
  <2>2. CaptureTypeOK'
    BY <1>1, <2>1, TypesKept, OpIdleIs DEF CaptureTypeOK
  <2>3. OperationInv'
    BY <1>1, <2>1, OpIdleIs DEF OperationInv, Raised, Screenshots
  <2>4. OwnerInv'
    BY <1>2, <2>1, <2>3, RaisedAside DEF OwnerInv, Screenshots
  <2> QED BY <2>1, <2>2, <2>4, RaisedInv
<1>3. CASE scCover.sup \notin Screenshots
  <2>1. Kept
    BY <1>1, <1>3, ShowKeeps
  <2>2. CaptureTypeOK'
    BY <1>1, <2>1, TypesKept, OpIdleIs DEF CaptureTypeOK
  <2>3. OperationInv'
    BY <1>1, <1>3, <2>1, OpIdleIs DEF OperationInv, Kept, Screenshots
  <2>4. OwnerInv'
    BY <2>1, <2>3, KeptAside DEF OwnerInv
  <2>5. \A reason \in Guarded : Reads(reason)' => Reads(reason)
    BY DEF Reads
  <2> QED BY <2>1, <2>2, <2>4, <2>5, KeptInv
<1> QED BY <1>2, <1>3

\* A result, a result nobody waits for, or the loss of the worker.
LEMMA StepCaptureResults ==
  ASSUME CaptureInv, ScCaptureResults
  PROVE  CaptureInv'
<1> DEFINE ended == [scMgr EXCEPT !.message = NoMessage, !.active = Nothing, !.kind = "none"]
<1>1. /\ CaptureTypeOK /\ scMgr \in Managers /\ scMgr.next \in Nat /\ scMgr.next > Nothing
      /\ scMgr.message.id \in Nat /\ scMgr.message.id < scMgr.next /\ scCover \in Covers
      /\ NoMessage \in [id : Nat, ok : BOOLEAN] /\ NoMessage.id < scMgr.next
  BY DEF CaptureInv, CaptureTypeOK, Managers, OwnerInv, OperationInv, Nothing, NoMessage
<1>2. UNCHANGED <<scFrame, scGtk, scFreeze, scZoom, scLayout, scOpaque, scSpent>>
  BY DEF ScCaptureResults
<1>3. ASSUME NEW m \in Managers, m.next = scMgr.next, m.message.id < scMgr.next, ManagerFailed(m)
      PROVE  CaptureInv'
  <2>1. /\ scMgr' \in Managers /\ scMgr'.active = Nothing /\ scMgr'.kind = "none"
        /\ scMgr'.work = Nothing /\ scMgr'.next = m.next /\ scMgr'.message = m.message
    BY <1>3 DEF ManagerFailed, Managers, Nothing
  <2> QED BY <1>2, <1>3, <2>1, OperationEnds DEF ManagerFailed
<1>4. CASE ManagerFailed(scMgr)
  BY <1>1, <1>3, <1>4
<1>5. CASE ManagerFailed([scMgr EXCEPT !.message = NoMessage])
  <2>1. PICK m : m = [scMgr EXCEPT !.message = NoMessage] /\ ManagerFailed(m)
    BY <1>5
  <2>2. m \in Managers /\ m.next = scMgr.next /\ m.message = NoMessage
    BY <1>1, <2>1 DEF Managers
  <2> QED BY <1>1, <1>3, <2>1, <2>2
<1>6. CASE scMgr.message.id = scMgr.active /\ TakeResult
  <2>1. scMgr.work = Nothing
    BY <1>6 DEF CaptureInv, OwnerInv, OperationInv
  <2>2. /\ ended \in Managers /\ ended.next = scMgr.next /\ ended.active = Nothing
        /\ ended.kind = "none" /\ ended.work = Nothing /\ ended.message = NoMessage
    BY <1>1, <2>1 DEF Managers, Nothing
  <2>3. CASE /\ scMgr' \in {ended, [ended EXCEPT !.healthy = FALSE]}
             /\ scOp' = OpIdle /\ scCover' = OverlayShown(scCover)
    <3>1. /\ scMgr' \in Managers /\ scMgr'.next = scMgr.next /\ scMgr'.active = Nothing
          /\ scMgr'.kind = "none" /\ scMgr'.work = Nothing /\ scMgr'.message = NoMessage
      BY <2>2, <2>3 DEF Managers
    <3> QED BY <1>1, <1>2, <2>3, <3>1, OperationEnds
  <2>4. CASE /\ scMgr.kind = "backdrop"
             /\ scMgr' = [ended EXCEPT !.active = scMgr.next, !.next = @ + 1, !.work = scMgr.next,
                                       !.kind = "export"]
             /\ scOp' = [OpIdle EXCEPT !.busy = TRUE, !.accepted = scMgr.next]
             /\ scCover' = OverlayShown(scCover)
    <3>1. /\ scMgr' \in Managers /\ scMgr'.next = scMgr.next + 1 /\ scMgr'.active = scMgr.next
          /\ scMgr'.kind = "export" /\ scMgr'.work = scMgr.next /\ scMgr'.message = NoMessage
      <4>1. scMgr.next + 1 \in Nat /\ ended.next + 1 = scMgr.next + 1
        BY <1>1, <2>2
      <4> HIDE DEF ended
      <4> QED BY <1>1, <2>2, <2>4, <4>1 DEF Managers
    <3>2. /\ scOp' \in CaptureOps /\ scOp'.busy /\ scOp'.accepted = scMgr.next
          /\ scOp'.phase = "none" /\ scOp'.request = "none"
      BY <1>1, <2>4, OpIdleIs DEF CaptureOps, OpIdle
    <3>3. scCover.sup = "backdrop" /\ scCover.barrier = NoBarrier /\ "backdrop" \in Screenshots
      BY <2>4 DEF CaptureInv, OwnerInv, OperationInv, Screenshots
    <3>4. Raised
      BY <1>1, <2>4, <3>3, ShowRaises
    <3>5. CaptureTypeOK'
      BY <1>1, <1>2, <3>1, <3>2, <3>4, TypesKept DEF CaptureTypeOK
    <3>6. NoMessage.id = 0
      BY DEF NoMessage, Nothing
    <3>7. OperationInv'
      BY <1>1, <3>1, <3>2, <3>4, <3>6 DEF OperationInv, Raised, Screenshots, Nothing
    <3>8. OwnerInv'
      BY <1>2, <3>3, <3>4, <3>7, RaisedAside DEF OwnerInv
    <3> QED BY <3>4, <3>5, <3>8, RaisedInv
  <2> QED BY <1>6, <2>3, <2>4 DEF TakeResult
<1> QED BY <1>4, <1>5, <1>6 DEF ScCaptureResults

-----------------------------------------------------------------------------
(* The compositor, the GTK thread and the worker.                          *)

\* What was committed is presented, with the callbacks owed.
LEMMA StepPresent ==
  ASSUME CaptureInv, ScPresent
  PROVE  CaptureInv'
<1>1. /\ CaptureTypeOK /\ scFrame \in Frames(scCover.gen)
      /\ UNCHANGED <<scCover, scGtk, scFreeze, scZoom, scOp, scMgr, scLayout, scOpaque, scSpent>>
  BY DEF ScPresent, CaptureInv, CaptureTypeOK
<1>2. /\ scFrame' \in Frames(scCover.gen) /\ scFrame'.owed = {}
      /\ scFrame'.sent = scFrame.sent \cup scFrame.owed
      /\ scFrame'.committed = scFrame.committed /\ scFrame'.screen = scFrame.committed
  BY <1>1 DEF ScPresent, Frames
<1>3. CaptureTypeOK'
  BY <1>1, <1>2 DEF CaptureTypeOK
<1>4. FrameInv'
  BY <1>1, <1>2 DEF FrameInv, CaptureInv, CoverInv, Content
<1>5. BarrierInv' /\ ToolbarInv'
  BY <1>1 DEF BarrierInv, ToolbarInv, CaptureInv, CoverInv
<1>6. OwnerInv'
  BY <1>1, StandKeeps, KeptAside DEF OwnerInv
<1>7. ReaderInv'
  BY <1>1, <1>2 DEF ReaderInv, CaptureInv, Reads, Content
<1> QED BY <1>3, <1>4, <1>5, <1>6, <1>7 DEF CaptureInv, CoverInv

\* A frame that is not rendered: neither the frames nor the cover change, it is only
\* no longer asked for.
LEMMA StepRenderFails ==
  ASSUME CaptureInv, ScRenderFails
  PROVE  CaptureInv'
<1>1. /\ CaptureTypeOK /\ scFrame \in Frames(scCover.gen) /\ scCover \in Covers
      /\ UNCHANGED <<scGtk, scFreeze, scZoom, scOp, scMgr, scLayout, scOpaque>>
      /\ scCover' = [scCover EXCEPT !.redraw = FALSE]
  BY DEF ScRenderFails, CaptureInv, CaptureTypeOK
<1>2. scCover' \in Covers /\ scCover'.gen = scCover.gen
  BY <1>1 DEF Covers
<1>3. scFrame' \in Frames(scCover.gen) /\ FramesKept
  BY <1>1 DEF ScRenderFails, Frames, FramesKept
<1>4. scSpent' \in Bounds
  BY <1>1, CaptureAssumption DEF ScRenderFails, CaptureTypeOK, Bounds
<1>5. CaptureTypeOK'
  BY <1>1, <1>2, <1>3, <1>4 DEF CaptureTypeOK
<1>6. Kept
  BY <1>1, RedrawKeeps
<1>7. OwnerInv'
  BY <1>1, <1>6, KeptAside DEF OwnerInv
<1> QED BY <1>1, <1>3, <1>5, <1>6, <1>7, KeptInv DEF Reads

\* A step that touches only the frames, and takes from them.
LEMMA StepFrameLost ==
  ASSUME CaptureInv, ScFrameLost
  PROVE  CaptureInv'
<1>1. /\ CaptureTypeOK /\ scFrame \in Frames(scCover.gen)
      /\ UNCHANGED <<scCover, scGtk, scFreeze, scZoom, scOp, scMgr, scLayout, scOpaque>>
  BY DEF ScFrameLost, CaptureInv, CaptureTypeOK
<1>2. scFrame' \in Frames(scCover.gen) /\ FramesKept
  BY <1>1 DEF ScFrameLost, Frames, FramesKept
<1>3. scSpent' \in Bounds
  BY <1>1, CaptureAssumption DEF ScFrameLost, CaptureTypeOK, Bounds
<1>4. CaptureTypeOK'
  BY <1>1, <1>2, <1>3 DEF CaptureTypeOK
<1>5. Kept
  BY <1>1, StandKeeps
<1>6. OwnerInv'
  BY <1>1, <1>5, KeptAside DEF OwnerInv
<1> QED BY <1>1, <1>2, <1>4, <1>5, <1>6, KeptInv DEF Reads

\* The toolbars are painted as the last update wants them.
LEMMA StepGtkPaint ==
  ASSUME CaptureInv, ScGtkPaint
  PROVE  CaptureInv'
<1>1. /\ CaptureTypeOK /\ scGtk \in Toolbars(scCover.gen)
      /\ UNCHANGED <<scCover, scFrame, scFreeze, scZoom, scOp, scMgr, scLayout, scOpaque, scSpent>>
  BY DEF ScGtkPaint, CaptureInv, CaptureTypeOK
<1>2. /\ scGtk' \in Toolbars(scCover.gen) /\ scGtk'.said = scGtk.said /\ scGtk'.alive = scGtk.alive
      /\ scCover.sup # "none" => scGtk'.bars = "clear"
  BY <1>1 DEF ScGtkPaint, GtkTarget, Toolbars
<1>3. CaptureTypeOK'
  BY <1>1, <1>2 DEF CaptureTypeOK
<1>4. BarrierInv' /\ FrameInv'
  BY <1>1 DEF BarrierInv, FrameInv, CaptureInv, CoverInv
<1>5. ToolbarInv'
  <2>1. CASE scCover.barrier = NoBarrier
    <3>1. \A said \in scGtk.said : said.gen # 0
      BY <1>1 DEF Toolbars
    <3> QED BY <1>1, <1>2, <2>1, <3>1, NoBarrierIs DEF ToolbarInv
  <2>2. CASE scCover.barrier # NoBarrier
    <3>1. scCover.sup # "none"
      BY <2>2 DEF CaptureInv, CoverInv, BarrierInv, Guarded, Screenshots
    <3> QED BY <1>1, <1>2, <3>1 DEF ToolbarInv
  <2> QED BY <2>1, <2>2
<1>6. OwnerInv'
  BY <1>1, StandKeeps, KeptAside DEF OwnerInv
<1>7. ReaderInv'
  <2>1. "none" \notin Guarded
    BY DEF Guarded, Screenshots
  <2> QED BY <1>1, <1>2, <2>1 DEF ReaderInv, CaptureInv, Reads
<1> QED BY <1>3, <1>4, <1>5, <1>6, <1>7 DEF CaptureInv, CoverInv

\* The toolbars answer for the barrier's generation, in the affirmative only when
\* transparent.
LEMMA StepGtkAnswer ==
  ASSUME CaptureInv, ScGtkAnswer
  PROVE  CaptureInv'
<1>1. /\ CaptureTypeOK /\ scGtk \in Toolbars(scCover.gen) /\ scCover.gen \in Nat
      /\ UNCHANGED <<scCover, scFrame, scFreeze, scZoom, scOp, scMgr, scLayout, scOpaque, scSpent>>
  BY DEF ScGtkAnswer, CaptureInv, CaptureTypeOK, Covers
<1>2. PICK ok \in BOOLEAN :
        /\ ok => scGtk.bars = "clear"
        /\ scGtk' = [scGtk EXCEPT !.answered = scCover.barrier.gen,
                                  !.said = @ \cup {[gen |-> scCover.barrier.gen, ok |-> ok]}]
  BY DEF ScGtkAnswer
<1>3. scCover.barrier.gen \in 1..scCover.gen /\ scCover.barrier.gtk
  BY NoBarrierIs DEF ScGtkAnswer, CaptureInv, CoverInv, BarrierInv
<1>4. /\ scGtk' \in Toolbars(scCover.gen) /\ scGtk'.alive = scGtk.alive /\ scGtk'.bars = scGtk.bars
      /\ scGtk'.said = scGtk.said \cup {[gen |-> scCover.barrier.gen, ok |-> ok]}
  <2>1. [gen |-> scCover.barrier.gen, ok |-> ok] \in [gen : 1..scCover.gen, ok : BOOLEAN]
    BY <1>3
  <2>2. scCover.barrier.gen \in 0..scCover.gen
    BY <1>1, <1>3
  <2> QED BY <1>1, <1>2, <2>1, <2>2 DEF Toolbars
<1>5. CaptureTypeOK'
  BY <1>1, <1>4 DEF CaptureTypeOK
<1>6. BarrierInv' /\ FrameInv'
  BY <1>1 DEF BarrierInv, FrameInv, CaptureInv, CoverInv
<1>7. ToolbarInv'
  BY <1>1, <1>2, <1>3, <1>4 DEF ToolbarInv, CaptureInv, CoverInv
<1>8. OwnerInv'
  BY <1>1, StandKeeps, KeptAside DEF OwnerInv
<1>9. ReaderInv'
  BY <1>1, <1>4 DEF ReaderInv, CaptureInv, Reads
<1> QED BY <1>5, <1>6, <1>7, <1>8, <1>9 DEF CaptureInv, CoverInv

\* The worker answers, or ends: the request it had is no longer worked on.
LEMMA StepWorker ==
  ASSUME CaptureInv, scMgr' \in Managers, scMgr'.work = Nothing,
         scMgr'.active = scMgr.active, scMgr'.next = scMgr.next, scMgr'.kind = scMgr.kind,
         \/ scMgr'.message.id = scMgr.work /\ scMgr.work # Nothing
         \/ scMgr'.message = scMgr.message /\ scMgr'.dead,
         UNCHANGED <<scCover, scFrame, scGtk, scFreeze, scZoom, scOp, scLayout, scOpaque>>,
         scSpent' \in Bounds
  PROVE  CaptureInv'
<1>1. CaptureTypeOK /\ scMgr \in Managers
  BY DEF CaptureInv, CaptureTypeOK
<1>2. Kept
  BY <1>1, StandKeeps
<1>3. CaptureTypeOK'
  BY <1>1, <1>2, TypesKept DEF CaptureTypeOK
<1>4. OperationInv'
  <2>1. scMgr.next \in Nat /\ scMgr.active \in Nat /\ scMgr.message.id \in Nat /\ scOp.busy \in BOOLEAN
    BY <1>1 DEF Managers, CaptureTypeOK, CaptureOps
  <2> QED BY <2>1 DEF OperationInv, CaptureInv, OwnerInv
<1>5. OwnerInv'
  BY <1>2, <1>4, KeptAside DEF OwnerInv
<1>6. \A reason \in Guarded : Reads(reason)' => Reads(reason)
  BY DEF Reads
<1> QED BY <1>2, <1>3, <1>5, <1>6, KeptInv

\* The worker answers.
LEMMA StepWorkerDone ==
  ASSUME CaptureInv, ScWorkerDone
  PROVE  CaptureInv'
<1>1. scMgr \in Managers /\ scSpent' \in Bounds
  BY DEF ScWorkerDone, CaptureInv, CaptureTypeOK
<1>2. PICK ok \in BOOLEAN :
        scMgr' = [scMgr EXCEPT !.message = [id |-> scMgr.work, ok |-> ok], !.work = Nothing]
  BY DEF ScWorkerDone
<1>3. /\ scMgr' \in Managers /\ scMgr'.work = Nothing
      /\ scMgr'.active = scMgr.active /\ scMgr'.next = scMgr.next /\ scMgr'.kind = scMgr.kind
      /\ scMgr'.message.id = scMgr.work
  <2>1. [id |-> scMgr.work, ok |-> ok] \in [id : Nat, ok : BOOLEAN] /\ Nothing \in Nat
    BY <1>1 DEF Managers, Nothing
  <2> QED BY <1>1, <1>2, <2>1 DEF Managers
<1> QED BY <1>1, <1>3, StepWorker DEF ScWorkerDone

\* The worker ends.
LEMMA StepWorkerEnds ==
  ASSUME CaptureInv, ScWorkerEnds
  PROVE  CaptureInv'
<1>1. scMgr \in Managers
  BY DEF CaptureInv, CaptureTypeOK
<1>2. scSpent' \in Bounds
  BY CaptureAssumption DEF ScWorkerEnds, CaptureInv, CaptureTypeOK, Bounds
<1>3. /\ scMgr' \in Managers /\ scMgr'.work = Nothing /\ scMgr'.dead
      /\ scMgr'.active = scMgr.active /\ scMgr'.next = scMgr.next /\ scMgr'.kind = scMgr.kind
      /\ scMgr'.message = scMgr.message
  BY <1>1 DEF ScWorkerEnds, Managers, Nothing
<1> QED BY <1>2, <1>3, StepWorker DEF ScWorkerEnds

-----------------------------------------------------------------------------
(* The theorems.                                                           *)

\* The invariant holds at the start.
LEMMA CaptureInvInit ==
  ASSUME CaptureInit
  PROVE  CaptureInv
<1>1. CaptureTypeOK
  <2>1. scCover \in Covers /\ scCover.gen = 0
    BY NoBarrierIs DEF CaptureInit, Covers
  <2>2. scFrame \in Frames(0) /\ scGtk \in Toolbars(0)
    BY DEF CaptureInit, Frames, Toolbars, Unthrottled
  <2>3. scFreeze \in Freezes /\ scZoom \in Zooms /\ scOp \in CaptureOps
    BY OpIdleIs DEF CaptureInit, Freezes, Zooms, Nothing
  <2>4. scMgr \in Managers
    BY DEF CaptureInit, Managers, NoMessage, Nothing
  <2>5. scLayout \in Layouts /\ scOpaque \in BOOLEAN /\ scSpent \in Bounds
    <3>1. MaxLayouts \in Nat /\ MaxLayouts # 0 /\ MaxAttempts \in Nat /\ MaxFaults \in Nat
      BY CaptureAssumption
    <3>2. 1 \in Layouts
      BY <3>1 DEF Layouts
    <3>3. [attempts |-> 0, faults |-> 0] \in Bounds
      BY <3>1 DEF Bounds
    <3> QED BY <3>2, <3>3 DEF CaptureInit
  <2> QED BY <2>1, <2>2, <2>3, <2>4, <2>5 DEF CaptureTypeOK
<1>2. CoverInv
  BY NoBarrierIs DEF CaptureInit, CoverInv, BarrierInv, FrameInv, ToolbarInv
<1>3. FreezeInv /\ ZoomInv
  BY NoBarrierIs DEF CaptureInit, FreezeInv, ZoomInv, Freezing
<1>4. OperationInv
  BY OpIdleIs DEF CaptureInit, OperationInv, Screenshots, NoMessage, Nothing
<1>5. ReaderInv
  BY CaptureAssumption DEF CaptureInit, ReaderInv, Reads
<1> QED BY <1>1, <1>2, <1>3, <1>4, <1>5 DEF CaptureInv, OwnerInv

\* Every step keeps it.
LEMMA CaptureInvStep ==
  ASSUME CaptureInv, [CaptureNext]_scVars
  PROVE  CaptureInv'
<1>1. CASE CaptureUser
  BY <1>1, StepFreeze, StepUnfreeze, StepCancelFreeze, StepZoomIn, StepZoomRefresh, StepZoomExit,
     StepScreenshot, StepExport, StepDialog, StepSwitchBoard DEF CaptureUser
<1>2. CASE CaptureLoop
  BY <1>2, StepSyncZoom, StepApplyCompletion, StepRender, StepFrameCallback, StepGtkFeedback,
     StepActivateFrozen, StepCaptureResults DEF CaptureLoop
<1>3. CASE CaptureEnds
  BY <1>3, StepBarrierTimeout, StepFreezeFallback, StepFreezePortalFails, StepZoomAnswer,
     StepWorkerDone DEF CaptureEnds
<1>4. CASE ScFreezeReady \/ ScLayoutChange \/ ScPresent \/ ScFrameLost \/ ScRenderFails
           \/ ScGtkPaint \/ ScGtkAnswer \/ ScGtkLost \/ ScWorkerEnds
  BY <1>4, StepFreezeReady, StepLayoutChange, StepPresent, StepFrameLost, StepRenderFails,
     StepGtkPaint, StepGtkAnswer, StepGtkLost, StepWorkerEnds
<1>5. CASE UNCHANGED scVars
  BY <1>5 DEF scVars, CaptureInv, CaptureTypeOK, CoverInv, BarrierInv, FrameInv, ToolbarInv, OwnerInv,
     FreezeInv, Freezing, ZoomInv, OperationInv, ReaderInv, Reads
<1> QED BY <1>1, <1>2, <1>3, <1>4, <1>5 DEF CaptureNext

\* The invariant holds in every state of the suppression, its barrier and their users.
THEOREM CaptureInvariant == CaptureSpec => []CaptureInv
<1>1. CaptureInit => CaptureInv
  BY CaptureInvInit
<1>2. CaptureInv /\ [CaptureNext]_scVars => CaptureInv'
  BY CaptureInvStep
<1> QED BY <1>1, <1>2, PTL DEF CaptureSpec

\* The variables keep their types, whatever the numbers of attempts, layouts and faults:
\* a callback, a throttle and an answer of the toolbars never carry a generation that was
\* not given out (state/capture/barrier.rs, begin).
THEOREM CaptureTypeCorrect == CaptureSpec => []CaptureTypeOK
<1>1. CaptureInv => CaptureTypeOK
  BY DEF CaptureInv
<1> QED BY <1>1, CaptureInvariant, PTL

\* Nothing of the overlay is in a capture: whoever reads the screen finds the hidden frame
\* presented and the GTK toolbars transparent, in any interleaving of late callbacks, late
\* answers, deadlines and changes of the layout (state/capture/barrier.rs,
\* backend/event_loop/capture.rs).
THEOREM CaptureNeverCovered == CaptureSpec => []CaptureUncovered
<1>1. CaptureInv => CaptureUncovered
  BY DEF CaptureInv, ReaderInv, CaptureUncovered
<1> QED BY <1>1, CaptureInvariant, PTL

\* A suppression, a barrier and an operation in progress always have each other, and the
\* manager is never busy with a request the loop does not wait for (state/core/overlay.rs,
\* backend/event_loop/capture.rs, capture/manager.rs).
THEOREM CaptureAlwaysOwned == CaptureSpec => []CaptureOwned
<1>1. ASSUME CaptureInv PROVE CaptureOwned
  <2>1. scOp.request \in Screenshots \cup {"none"} /\ "none" \notin Screenshots
    BY <1>1 DEF CaptureInv, CaptureTypeOK, CaptureOps, Screenshots
  <2>2. scCover.barrier # NoBarrier => scCover.barrier.reason = scCover.sup
    BY <1>1 DEF CaptureInv, CoverInv, BarrierInv
  <2>3. /\ scCover.sup = "frozen" => Freezing \/ scFreeze.done
        /\ Freezing => scCover.sup = "frozen"
        /\ scCover.sup = "zoom" => scZoom.stage # "idle" \/ scZoom.done
        /\ scZoom.stage # "idle" => scCover.sup = "zoom"
    BY <1>1 DEF CaptureInv, OwnerInv, FreezeInv, ZoomInv
  <2>4. scCover.sup \in Screenshots <=> scOp.busy /\ (scOp.request # "none" \/ scMgr.kind \in Screenshots)
    BY <1>1, <2>1 DEF CaptureInv, OwnerInv, OperationInv
  <2>5. /\ scOp.busy <=> scOp.request # "none" \/ scOp.accepted # Nothing
        /\ scOp.accepted = scMgr.active
        /\ scOp.accepted # Nothing =>
             scMgr.work = scOp.accepted \/ scMgr.message.id = scOp.accepted \/ scMgr.dead
    BY <1>1 DEF CaptureInv, OwnerInv, OperationInv
  <2> QED BY <2>2, <2>3, <2>4, <2>5 DEF CaptureOwned
<1>2. CaptureInv => CaptureOwned
  BY <1>1
<1> QED BY <1>2, CaptureInvariant, PTL

-----------------------------------------------------------------------------
(* The images.                                                             *)

FreezeFresh == scFreeze'.image \in {scFreeze.image, Nothing, scLayout}
ZoomFresh == scZoom'.image \in {scZoom.image, Nothing, scLayout}

\* Giving a preflight up drops images at most.
LEMMA CancelFresh ==
  ASSUME CaptureTypeOK, NEW reason, NEW c, CancelPreflight(reason, c)
  PROVE  FreezeFresh /\ ZoomFresh
  BY FreezeCancelledIs, ZoomCancelledIs DEF CancelPreflight, FreezeFresh, ZoomFresh, CaptureTypeOK

\* Starting a capture for zoom drops its image at most.
LEMMA StartZoomFresh ==
  ASSUME CaptureTypeOK, NEW z \in Zooms, z.image = scZoom.image, StartZoom(z)
  PROVE  ZoomFresh
<1>1. ZoomCancelled(z, TRUE).image \in {z.image, Nothing}
  BY ZoomCancelledIs
<1>2. ZoomPreflight(z).image = z.image
  BY ZoomPreflightIs DEF CaptureTypeOK
<1> QED BY <1>1, <1>2, StartZoomIs DEF ZoomFresh

\* Neither does a capture past its barrier show an image at once.
LEMMA ReadyFresh ==
  ASSUME CaptureTypeOK, NEW reason, NEW c, BeginReady(reason, c)
  PROVE  FreezeFresh /\ ZoomFresh
<1>1. scFreeze \in Freezes /\ scZoom \in Zooms /\ scLayout \in Layouts
  BY DEF CaptureTypeOK
<1>2. CASE CancelPreflight(reason, c)
  BY <1>2, CancelFresh
<1>3. CASE /\ scFreeze' \in ChainOutcomes(scFreeze, {PreferredBackend} \cup FallbacksOf(PreferredBackend))
           /\ UNCHANGED scZoom
  <2>1. {PreferredBackend} \cup FallbacksOf(PreferredBackend) \in SUBSET Backends
    BY CaptureAssumption DEF PreferredBackend, FallbacksOf
  <2> QED BY <1>1, <1>3, <2>1, ChainIs, FreezeCancelledIs DEF FreezeFresh, ZoomFresh
<1>4. CASE scZoom' \in ZoomOutcomes(scZoom) /\ UNCHANGED scFreeze
  <2>1. ZoomCancelled(scZoom, FALSE).image \in {scZoom.image, Nothing}
    BY <1>1, ZoomCancelledIs
  <2> QED BY <1>1, <1>4, <2>1, ZoomOutcomesIs DEF FreezeFresh, ZoomFresh
<1>5. CASE UNCHANGED <<scFreeze, scZoom>>
  BY <1>5 DEF FreezeFresh, ZoomFresh
<1> QED BY <1>2, <1>3, <1>4, <1>5 DEF BeginReady

\* The images of a step: the ones there were, none, or ones of the current layout.
LEMMA FreshStep ==
  ASSUME CaptureInv, CaptureNext
  PROVE  FreezeFresh /\ ZoomFresh
<1>1. /\ CaptureTypeOK /\ scFreeze \in Freezes /\ scZoom \in Zooms /\ scLayout \in Layouts
  BY DEF CaptureInv, CaptureTypeOK
<1>2. CASE UNCHANGED <<scFreeze, scZoom>>
  BY <1>2 DEF FreezeFresh, ZoomFresh
<1>3. ASSUME UNCHANGED scZoom,
             \/ ScFreeze \/ ScUnfreeze \/ ScCancelFreeze \/ ScActivateFrozen \/ ScFreezeReady
             \/ ScFreezeFallback \/ ScFreezePortalFails
      PROVE  FreezeFresh /\ ZoomFresh
  <2>0. ZoomFresh
    BY <1>3 DEF ZoomFresh
  <2>1. CASE ScFreeze \/ ScUnfreeze
    BY <2>0, <1>1, <2>1 DEF ScFreeze, ScUnfreeze, FreezeFresh, Freezes
  <2>2. CASE ScCancelFreeze \/ ScFreezePortalFails
    BY <2>0, <1>1, <2>2, FreezeCancelledIs, FreezeEndedIs DEF ScCancelFreeze, ScFreezePortalFails, FreezeFresh
  <2>3. CASE ScFreezeReady
    BY <2>0, <1>1, <2>3, PixelsReadyIs, FreezeEndedIs DEF ScFreezeReady, FreezeFresh
  <2>4. CASE ScFreezeFallback
    <3>1. FallbacksOf(scFreeze.stage) \in SUBSET Backends
      BY DEF FallbacksOf
    <3> QED BY <2>0, <1>1, <2>4, <3>1, ChainIs, FreezeCancelledIs DEF ScFreezeFallback, FreezeFresh
  <2>5. CASE ScActivateFrozen
    <3>1. scFreeze.stage = "pending" => scFreeze.at = scFreeze.token
      BY DEF CaptureInv, OwnerInv, FreezeInv
    <3>2. FreezeEnded(scFreeze) \in Freezes /\ FreezeEnded(scFreeze).image = Nothing
      BY <1>1, FreezeEndedIs
    <3> QED BY <2>0, <2>5, <3>1, <3>2 DEF ScActivateFrozen, FreezeFresh, Freezes
  <2> QED BY <1>3, <2>1, <2>2, <2>3, <2>4, <2>5
<1>4. ASSUME UNCHANGED scFreeze,
             ScZoomIn \/ ScZoomRefresh \/ ScZoomExit \/ ScSyncZoom \/ ScZoomAnswer
      PROVE  FreezeFresh /\ ZoomFresh
  <2>0. FreezeFresh
    BY <1>4 DEF FreezeFresh
  <2>1. ZoomAborted(scZoom) \in Zooms /\ ZoomAborted(scZoom).image = scZoom.image
    BY <1>1, ZoomAbortedIs
  <2>2. CASE ScZoomIn
    <3>1. CASE scOpaque
      BY <2>0, <2>1, <2>2, <3>1 DEF ScZoomIn, ZoomFresh, Zooms
    <3>2. CASE ~scOpaque
      <4>1. PICK z : z = [scZoom EXCEPT !.mode = IF @ = "off" THEN "pending" ELSE @] /\ StartZoom(z)
        BY <2>2, <3>2 DEF ScZoomIn
      <4>2. z \in Zooms /\ z.image = scZoom.image
        BY <1>1, <4>1 DEF Zooms
      <4> QED BY <2>0, <1>1, <4>1, <4>2, StartZoomFresh
    <3> QED BY <3>1, <3>2
  <2>3. CASE ScZoomRefresh
    BY <2>0, <1>1, <2>3, ZoomPreflightIs DEF ScZoomRefresh, ZoomFresh
  <2>4. CASE ScZoomExit
    BY <2>0, <1>1, <2>4, ZoomCancelledIs DEF ScZoomExit, ZoomFresh
  <2>5. CASE ScSyncZoom
    <3>1. CASE scOpaque
      BY <2>0, <2>1, <2>5, <3>1 DEF ScSyncZoom, ZoomFresh, Zooms
    <3>2. CASE ~scOpaque
      BY <2>0, <1>1, <2>5, <3>2, StartZoomFresh DEF ScSyncZoom
    <3> QED BY <3>1, <3>2
  <2>6. CASE ScZoomAnswer
    <3>1. /\ ZoomRead(scZoom).image \in {scZoom.image, Nothing, scLayout}
          /\ ZoomCancelled(scZoom, FALSE).image \in {scZoom.image, Nothing}
      BY <1>1, ZoomReadIs, ZoomCancelledIs
    <3> QED BY <2>0, <2>6, <3>1 DEF ScZoomAnswer, ZoomFresh
  <2> QED BY <1>4, <2>2, <2>3, <2>4, <2>5, <2>6
<1>5. CASE ScApplyCompletion
  BY <1>1, <1>5 DEF ScApplyCompletion, FreezeFresh, ZoomFresh, Freezes, Zooms
<1>6. CASE ScFrameCallback
  BY <1>1, <1>2, <1>6, ReadyFresh DEF ScFrameCallback
<1>7. CASE ScBarrierTimeout \/ ScGtkFeedback \/ ScGtkLost
  BY <1>1, <1>2, <1>7, CancelFresh DEF ScBarrierTimeout, ScGtkFeedback, ScGtkLost
<1>8. CASE ScLayoutChange
  <2>1. ZoomCancelled(scZoom, TRUE).image \in {scZoom.image, Nothing}
    BY <1>1, ZoomCancelledIs
  <2> QED BY <1>1, <1>8, <2>1 DEF ScLayoutChange, FreezeFresh, ZoomFresh, Freezes
<1>9. CASE CaptureUser
  <2>1. CASE ScScreenshot \/ ScExport \/ ScDialog \/ ScSwitchBoard
    BY <1>2, <2>1 DEF ScScreenshot, ScExport, ScDialog, ScSwitchBoard
  <2>2. CASE ScFreeze \/ ScUnfreeze \/ ScCancelFreeze
    BY <1>3, <2>2 DEF ScFreeze, ScUnfreeze, ScCancelFreeze
  <2>3. CASE ScZoomIn \/ ScZoomRefresh \/ ScZoomExit
    BY <1>4, <2>3 DEF ScZoomIn, ScZoomRefresh, ScZoomExit
  <2> QED BY <1>9, <2>1, <2>2, <2>3 DEF CaptureUser
<1>10. CASE CaptureLoop
  <2>1. CASE ScRender \/ ScCaptureResults
    BY <1>2, <2>1 DEF ScRender, ScCaptureResults
  <2>2. CASE ScSyncZoom
    BY <1>4, <2>2 DEF ScSyncZoom
  <2>3. CASE ScActivateFrozen
    BY <1>3, <2>3 DEF ScActivateFrozen
  <2> QED BY <1>5, <1>6, <1>7, <1>10, <2>1, <2>2, <2>3 DEF CaptureLoop
<1>11. CASE CaptureEnds
  <2>1. CASE ScFreezeFallback \/ ScFreezePortalFails
    BY <1>3, <2>1 DEF ScFreezeFallback, ScFreezePortalFails
  <2>2. CASE ScZoomAnswer
    BY <1>4, <2>2 DEF ScZoomAnswer
  <2>3. CASE ScWorkerDone
    BY <1>2, <2>3 DEF ScWorkerDone
  <2> QED BY <1>7, <1>11, <2>1, <2>2, <2>3 DEF CaptureEnds
<1>12. CASE ScFreezeReady
  BY <1>3, <1>12 DEF ScFreezeReady
<1>13. CASE ScPresent \/ ScFrameLost \/ ScRenderFails \/ ScGtkPaint \/ ScGtkAnswer \/ ScWorkerEnds
  BY <1>2, <1>13 DEF ScPresent, ScFrameLost, ScRenderFails, ScGtkPaint, ScGtkAnswer, ScWorkerEnds
<1> QED BY <1>7, <1>8, <1>9, <1>10, <1>11, <1>12, <1>13 DEF CaptureNext

\* A frozen or zoomed image that appears was taken under the layout that is current then,
\* however often the outputs change between the request, the pixels and the activation
\* (frozen/capture.rs, zoom/capture.rs).
THEOREM CaptureImagesFresh == CaptureSpec => CaptureFresh
<1>1. ASSUME CaptureInv, [CaptureNext]_scVars
      PROVE  [/\ scFreeze'.image \in {scFreeze.image, Nothing, scLayout}
              /\ scZoom'.image \in {scZoom.image, Nothing, scLayout}]_scVars
  BY <1>1, FreshStep DEF FreezeFresh, ZoomFresh
<1>2. CaptureInv /\ [CaptureNext]_scVars =>
        [/\ scFreeze'.image \in {scFreeze.image, Nothing, scLayout}
         /\ scZoom'.image \in {scZoom.image, Nothing, scLayout}]_scVars
  BY <1>1
<1> QED BY <1>2, CaptureInvariant, PTL DEF CaptureSpec, CaptureFresh

=============================================================================
