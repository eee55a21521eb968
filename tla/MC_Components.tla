---------------------------- MODULE MC_Components ----------------------------
(***************************************************************************)
(* One run for the components that share no state with each other: a       *)
(* behaviour belongs to one of them, chosen at the start, and the others   *)
(* stay as they are.  Each component's own fairness is stated only for the *)
(* behaviours that belong to it.                                           *)
(***************************************************************************)
EXTENDS ConfigEdits, ConfigDocument, OverlayChild, ProcessBroker, DrawingHistory,
        ScreenCapture, RuntimeStateStore, SessionSave
CONSTANTS k1, k2, f1, f2, w1, w2, t1, t2, r1, r2

\* The file spells out the list of the first action, which takes a chord from the second
\* one's shipped list.  A gesture clears the first, gives the second the chord that only
\* the first has, or sets a slot.
MCStartFile == [keys |-> <<{k1, k2}, {k2}>>, authored |-> {1}]
MCGestures == {[kind |-> "slot"], [kind |-> "shortcut", action |-> 1, to |-> {}],
               [kind |-> "shortcut", action |-> 2, to |-> {k1}]}

VARIABLE part   \* the component of this behaviour
vars == <<part, edVars, docVars, ocVars, brVars, dwVars, scVars, rsVars, ssVars>>

Init ==
  /\ part \in {"edits", "document", "child", "broker", "drawing", "capture", "store", "session"}
  /\ EditsInit /\ DocInit /\ OverlayInit /\ BrokerInit /\ DrawingInit
  /\ CaptureInit /\ StoreInit /\ SessionInit
  /\ part # "capture" => scGtk.alive
  /\ part # "store" => rsFile = Missing
  /\ (part = "session" <=> ssDisk # EmptyDisk) /\ (part # "session" => ~ssTools)
  /\ part # "document" => \A f \in DocFiles : docFile[f] = Absent

Next ==
  \/ /\ part = "edits" /\ EditsNext
     /\ UNCHANGED <<part, docVars, ocVars, brVars, dwVars, scVars, rsVars, ssVars>>
  \/ /\ part = "document" /\ DocNext
     /\ UNCHANGED <<part, edVars, ocVars, brVars, dwVars, scVars, rsVars, ssVars>>
  \/ /\ part = "child" /\ OverlayNext
     /\ UNCHANGED <<part, edVars, docVars, brVars, dwVars, scVars, rsVars, ssVars>>
  \/ /\ part = "broker" /\ BrokerNext
     /\ UNCHANGED <<part, edVars, docVars, ocVars, dwVars, scVars, rsVars, ssVars>>
  \/ /\ part = "drawing" /\ DrawingNext
     /\ UNCHANGED <<part, edVars, docVars, ocVars, brVars, scVars, rsVars, ssVars>>
  \/ /\ part = "capture" /\ CaptureNext
     /\ UNCHANGED <<part, edVars, docVars, ocVars, brVars, dwVars, rsVars, ssVars>>
  \/ /\ part = "store" /\ StoreNext
     /\ UNCHANGED <<part, edVars, docVars, ocVars, brVars, dwVars, scVars, ssVars>>
  \/ /\ part = "session" /\ SessionNext
     /\ UNCHANGED <<part, edVars, docVars, ocVars, brVars, dwVars, scVars, rsVars>>

\* The loop and the thread of the edits run on, and the deadline of teardown is
\* reached; the daemon, its brokers' ends and the watchdogs of its children run
\* on; the broker and the threads that use it run on.  The overlay's event loop runs
\* on and its deadlines are reached; the compositor presents what is committed, the
\* GTK thread paints and answers, and the capture worker ends each request; so does the
\* worker that saves the session.  Nothing is assumed of the user, of other programs, of
\* failures, or of a child's progress.
Fairness ==
  /\ WF_edVars(part = "edits" /\ EditsLoop)
  /\ WF_edVars(part = "edits" /\ (EditsThread \/ EdDeadline))
  /\ WF_ocVars(part = "child" /\ OcDaemonStep)
  /\ WF_ocVars(part = "child" /\ \/ \E d \in Daemons : OcBrokerEnds(d)
                                 \/ \E g \in Generations : OcArm(g) \/ OcWatchdog(g))
  /\ WF_brVars(part = "broker" /\ BrServe)
  /\ WF_brVars(part = "broker" /\ (BrLeave \/ \E t \in Threads : BrThread(t)))
  /\ WF_scVars(part = "capture" /\ (CaptureLoop \/ CaptureEnds))
  /\ WF_scVars(part = "capture" /\ (ScPresent \/ ScGtkPaint \/ ScGtkAnswer))
  /\ WF_ssVars(part = "session" /\ SessionLoop)
  /\ WF_ssVars(part = "session" /\ SessionWorker)

Spec == Init /\ [][Next]_vars /\ Fairness

\* Types of the variables, of each component in the behaviours that belong to it.
ComponentTypesOK ==
  CASE part = "edits" -> EditsTypeOK [] part = "document" -> DocTypeOK
    [] part = "child" -> OverlayTypeOK [] part = "broker" -> BrokerTypeOK
    [] part = "drawing" -> DrawingTypeOK [] part = "store" -> StoreTypeOK
    [] part = "session" -> SessionTypeOK
    [] OTHER -> CaptureTypeOK
=============================================================================
