--------------------------- MODULE Processes_proofs ---------------------------
(***************************************************************************)
(* Proofs about the two other processes of the program: the overlay that    *)
(* the daemon owns (OverlayChild), and the broker that starts every helper  *)
(* program for the runtime (ProcessBroker).  The two parts do not use each  *)
(* other; each begins with its argument.                                    *)
(***************************************************************************)
EXTENDS OverlayChild, ProcessBroker, FiniteSetTheorems, TLAPS

-----------------------------------------------------------------------------
(***************************************************************************)
(* Proof that at most one overlay may act on the queue of actions, over any *)
(* number of daemons, generations, crashes and lost exchanges, and that a   *)
(* daemon whose broker answers is never in its loop with a child, a record  *)
(* or a phase left over.  The argument: only an owned child is enabled      *)
(* (Enabled), and while the broker answers every generation of the daemon   *)
(* that it does not own is over (Over); where the daemon is in its start    *)
(* and stop says what the child has published (Stage).                      *)
(***************************************************************************)

\* Generations not reserved yet have nothing, and none is of a daemon to come; the
\* owner's is of this daemon.
Fresh ==
  /\ \A g \in Generations : ocParent[g] <= ocDaemon
  /\ \A g \in Generations : g > ocReserved =>
       ocChild[g] = "none" /\ ocRecords[g] = {} /\ g \notin ocLate
  /\ ocGen <= ocReserved
  /\ ocGen # 0 => ocParent[ocGen] = ocDaemon

\* A daemon between its recovery and its end.
Running == ocStep \notin {"down", "recover", "closing"}

\* At most one generation is enabled, and a running daemon owns it.
Enabled ==
  /\ \A g, h \in Generations : "enabled" \in ocRecords[g] /\ "enabled" \in ocRecords[h] => g = h
  /\ Running => \A g \in Generations : "enabled" \in ocRecords[g] => g = ocOwned

\* While the broker answers, the daemon's other generations are over, and no child of
\* its own is still to come.
Over ==
  ocHealthy => \A g \in Generations : ocParent[g] = ocDaemon =>
    /\ g \notin ocLate
    /\ g # ocOwned => ~OcAlive(g) /\ ocRecords[g] = {}

\* What a child has published, by what it is doing.
Published ==
  \A g \in Generations :
    /\ "ready" \in ocRecords[g] => ocChild[g] \in {"ready", "signals", "dead"}
    /\ "signals" \in ocRecords[g] => ocChild[g] \in {"signals", "dead"}
    /\ ocChild[g] = "none" => ocRecords[g] = {}
    /\ g \in ocLate => ocChild[g] = "none"

Stopped == ocOwned = 0 /\ ocGen = 0 /\ ocPhase = "Stopped" /\ ~ocVisible
Shown ==
  /\ ocOwned # 0 /\ ocPhase = "Ready" /\ ocVisible
  /\ ocRecords[ocOwned] = {"active", "enabled"} /\ ocChild[ocOwned] \in {"signals", "dead"}

\* The records of a child that is starting.
Starting ==
  /\ ocChild[ocOwned] \in {"forked", "armed", "locked"} => ocRecords[ocOwned] = {}
  /\ ocChild[ocOwned] = "active" => ocRecords[ocOwned] = {"active"}
  /\ ocChild[ocOwned] = "ready" => ocRecords[ocOwned] = {"active", "ready"}
  /\ ocChild[ocOwned] = "signals" => ocRecords[ocOwned] = {"active", "ready", "signals"}
  /\ ocRecords[ocOwned] \in {{}, {"active"}, {"active", "ready"}, {"active", "ready", "signals"}}

\* Where the daemon is in its start and stop, whether its broker answers or not.
Place ==
  /\ ocStep \in {"wait", "unready", "unsignal", "abortkill", "stopping"} => ocOwned # 0
  /\ ocStep = "spawn" => ocGen # 0 /\ ocOwned = 0 /\ ocChild[ocGen] = "none" /\ ocGen \notin ocLate
  /\ ocStep = "recover" => Stopped
  /\ ocOwned # 0 => ocChild[ocOwned] # "none"

\* What holds there while it does.
Stage ==
  ocHealthy =>
    /\ ocStep \in {"top", "choose", "hide"} => Stopped \/ Shown
    /\ ocStep \in {"reserve", "retry"} => Stopped
    /\ ocStep \in {"spawn", "wait", "unready", "unsignal", "abort", "abortkill"} => ~ocVisible
    /\ ocStep = "spawn" => ocPhase = "Reserved"
    /\ ocStep = "wait" => Starting
    /\ ocStep = "unready" => ocRecords[ocOwned] = {"active", "ready", "signals", "enabled"}
    /\ ocStep = "unsignal" => ocRecords[ocOwned] = {"active", "signals", "enabled"}

OverlayInv == OverlayTypeOK /\ Fresh /\ Enabled /\ Over /\ Published /\ Place /\ Stage
-----------------------------------------------------------------------------
(* Every step keeps the types. *)

LEMMA Constants ==
  /\ MaxGenerations \in Nat /\ MaxDaemons \in Nat /\ Candidates \in Nat /\ MaxMishaps \in Nat
  /\ 0 \in 0..MaxGenerations /\ 0 \in 0..MaxDaemons /\ 0 \in 0..Candidates
  /\ Candidates \in 0..Candidates
  /\ 0 \notin Generations /\ Generations \subseteq 0..MaxGenerations
  /\ \A g \in Generations : g \in Nat
  BY OverlayAssumption DEF Generations

\* What a child does to itself, and to nothing else.
ChildMove(g) ==
  /\ OcChildUnchanged
  /\ \A h \in Generations \ {g} : ocChild'[h] = ocChild[h] /\ ocRecords'[h] = ocRecords[h]
  /\ ocChild' \in [Generations -> OcLive \cup {"none", "dead"}]
  /\ ocRecords' \in [Generations -> SUBSET OcRecord]
  /\ ocLock' \in 0..MaxGenerations
  /\ OcAlive(g)
  /\ \/ ocChild'[g] = "dead" /\ ocRecords'[g] = ocRecords[g]
     \/ ocChild[g] = "forked" /\ ocChild'[g] = "armed" /\ ocRecords'[g] = ocRecords[g]
     \/ ocChild[g] = "armed" /\ ocChild'[g] = "locked" /\ ocRecords'[g] = ocRecords[g]
     \/ \E s \in {<<"locked", "active">>, <<"active", "ready">>, <<"ready", "signals">>} :
          /\ ocChild[g] = s[1] /\ ocChild'[g] = s[2] /\ ocRecords'[g] = ocRecords[g] \cup {s[2]}

LEMMA ChildMoves ==
  ASSUME OverlayTypeOK, NEW g \in Generations, OcChildStep(g) \/ OcChildEnds(g) \/ OcWatchdog(g)
  PROVE  ChildMove(g)
<1> USE Constants
<1>T. /\ ocChild \in [Generations -> OcLive \cup {"none", "dead"}]
      /\ ocRecords \in [Generations -> SUBSET OcRecord] /\ ocLock \in 0..MaxGenerations
      /\ g \in 0..MaxGenerations
  BY DEF OverlayTypeOK
<1>1. ASSUME OcEnds({g}), UNCHANGED ocRecords, OcChildUnchanged, OcAlive(g) PROVE ChildMove(g)
  BY <1>T, <1>1 DEF ChildMove, OcEnds, OcLive
<1>2. CASE OcArm(g)
  BY <1>T, <1>2 DEF OcArm, ChildMove, OcLive, OcAlive
<1>3. CASE OcTakeLock(g)
  <2>1. CASE ocLock = 0
    BY <1>T, <1>3, <2>1 DEF OcTakeLock, ChildMove, OcLive, OcAlive
  <2> QED
    BY <1>T, <1>1, <1>3, <2>1 DEF OcTakeLock, OcLive, OcAlive
<1>4. ASSUME NEW s \in {<<"locked", "active">>, <<"active", "ready">>, <<"ready", "signals">>},
             OcProve(g, s[1], s[2])
      PROVE  ChildMove(g)
  <2>1. OcAlive(g) /\ s[2] \in OcRecord /\ s[2] \in OcLive /\ OcChildUnchanged
    BY <1>4 DEF OcProve, OcAlive, OcLive, OcRecord
  <2>2. CASE OcEnds({g}) /\ UNCHANGED ocRecords
    BY <1>1, <2>1, <2>2
  <2>3. CASE /\ ocChild' = [ocChild EXCEPT ![g] = s[2]] /\ UNCHANGED ocLock
             /\ ocRecords' = [ocRecords EXCEPT ![g] = @ \cup {s[2]}]
    BY <1>T, <1>4, <2>1, <2>3 DEF OcProve, ChildMove
  <2> QED
    BY <1>4, <2>2, <2>3 DEF OcProve
<1>5. CASE OcProve(g, "locked", "active") \/ OcProve(g, "active", "ready")
           \/ OcProve(g, "ready", "signals")
  <2>1. \A s \in {<<"locked", "active">>, <<"active", "ready">>, <<"ready", "signals">>} :
          OcProve(g, s[1], s[2]) => ChildMove(g)
    BY <1>4
  <2>2. /\ <<"locked", "active">>[1] = "locked" /\ <<"locked", "active">>[2] = "active"
        /\ <<"active", "ready">>[1] = "active" /\ <<"active", "ready">>[2] = "ready"
        /\ <<"ready", "signals">>[1] = "ready" /\ <<"ready", "signals">>[2] = "signals"
    OBVIOUS
  <2> QED
    BY <1>5, <2>1, <2>2
<1>6. CASE OcChildEnds(g)
  BY <1>1, <1>6 DEF OcChildEnds
<1>7. CASE OcWatchdog(g)
  BY <1>1, <1>7 DEF OcWatchdog
<1> QED
  BY <1>2, <1>3, <1>5, <1>6, <1>7 DEF OcChildStep


\* The types of the daemon's own variables, and of what it shares.
OwnerTypes ==
  /\ ocDaemon \in 0..MaxDaemons
  /\ ocStep \in {"down", "recover", "top", "choose", "reserve", "spawn", "wait", "unready",
                 "unsignal", "abort", "abortkill", "retry", "hide", "stopping", "closing"}
  /\ ocPhase \in {"Stopped", "Reserved", "Starting", "Ready", "StopPending"}
  /\ ocGen \in 0..MaxGenerations /\ ocOwned \in {0, ocGen} /\ ocTries \in 0..Candidates
  /\ ocVisible \in BOOLEAN /\ ocHealthy \in BOOLEAN /\ ocQuit \in BOOLEAN
  /\ ocMishaps \in 0..MaxMishaps /\ ocReserved \in 0..MaxGenerations
ProcessTypes ==
  /\ ocBroker \in [Daemons -> {"up", "gone"}] /\ ocLate \subseteq Generations
  /\ ocParent \in [Generations -> 0..MaxDaemons]
  /\ ocChild \in [Generations -> OcLive \cup {"none", "dead"}]
  /\ ocRecords \in [Generations -> SUBSET OcRecord]
  /\ ocLock \in 0..MaxGenerations

LEMMA TypeParts ==
  /\ OverlayTypeOK <=> OwnerTypes /\ ProcessTypes
  /\ OverlayTypeOK' <=> OwnerTypes' /\ ProcessTypes'
  BY DEF OverlayTypeOK, OwnerTypes, ProcessTypes

\* A process that ends keeps the types; so do the records that are cleared.
LEMMA Ends ==
  ASSUME OverlayTypeOK, NEW dead, OcEnds(dead)
  PROVE  /\ ocChild' \in [Generations -> OcLive \cup {"none", "dead"}]
         /\ ocLock' \in 0..MaxGenerations
  BY Constants DEF OcEnds, OverlayTypeOK

\* So does an exchange, or a mishap.
LEMMA OverlayAnswers ==
  ASSUME OverlayTypeOK
  PROVE  /\ OcAnswered \/ OcLost => ocHealthy' \in BOOLEAN /\ ocMishaps' \in 0..MaxMishaps
         /\ Mishap => ocMishaps' \in 0..MaxMishaps
         /\ UNCHANGED ocMishaps => ocMishaps' \in 0..MaxMishaps
         /\ OcReap => /\ ocRecords' \in [Generations -> SUBSET OcRecord]
                      /\ ocPhase' = "Stopped" /\ ocGen' = 0 /\ ocOwned' = 0
<1>1. OwnerTypes /\ ProcessTypes /\ MaxMishaps \in Nat
  BY TypeParts, Constants
<1>2. \A m \in 0..MaxMishaps : m < MaxMishaps => m + 1 \in 0..MaxMishaps
  BY <1>1
<1>3. /\ Mishap => ocMishaps' \in 0..MaxMishaps
      /\ UNCHANGED ocMishaps => ocMishaps' \in 0..MaxMishaps
  BY <1>1, <1>2 DEF Mishap, OwnerTypes
<1>4. OcAnswered \/ OcLost => ocHealthy' \in BOOLEAN /\ ocMishaps' \in 0..MaxMishaps
  BY <1>1, <1>3 DEF OcAnswered, OcLost, OwnerTypes
<1>5. OcReap => /\ ocRecords' \in [Generations -> SUBSET OcRecord]
                /\ ocPhase' = "Stopped" /\ ocGen' = 0 /\ ocOwned' = 0
  BY <1>1 DEF OcReap, ProcessTypes
<1> QED
  BY <1>3, <1>4, <1>5

\* Recovery adds no record, and leaves none when it lets the daemon go on.
LEMMA RecoverRemoves ==
  ASSUME OcRecover, ProcessTypes
  PROVE  /\ \A g \in Generations : ocRecords'[g] \subseteq ocRecords[g]
         /\ Running' => \A g \in Generations : ocRecords'[g] = {}
<1>1. \A g \in Generations : ocRecords'[g] \subseteq ocRecords[g]
  BY DEF OcRecover
<1>2. ASSUME Running', NEW g \in Generations, NEW r \in ocRecords'[g]
      PROVE  FALSE
  <2> DEFINE dead == {d \in Generations \X OcRecord : ~OcAlive(d[1]) /\ d[2] \in ocRecords[d[1]]}
  <2>1. ~\E h \in Generations : OcAlive(h) /\ ocRecords[h] # {}
    BY <1>2 DEF OcRecover, Running
  <2>2. ocRecords' = [h \in Generations |-> {d \in ocRecords[h] : <<h, d>> \notin dead}]
    BY <2>1 DEF OcRecover
  <2>3. r \in ocRecords[g] /\ r \in OcRecord
    BY <1>1, <1>2 DEF ProcessTypes
  <2>4. ~OcAlive(g)
    BY <2>1, <2>3
  <2>5. <<g, r>> \in dead
    BY <2>3, <2>4
  <2> HIDE DEF dead
  <2> QED
    BY <1>2, <2>2, <2>5
<1> QED
  BY <1>1, <1>2

LEMMA TypesStep ==
  ASSUME OverlayInv, [OverlayNext]_ocVars
  PROVE  OverlayTypeOK'
<1> USE Constants DEF ocOwnerVars, ocProcessVars
<1>T. OverlayTypeOK /\ OwnerTypes /\ ProcessTypes
  BY TypeParts DEF OverlayInv
<1>1. CASE OcRecover
  <2>1. OwnerTypes'
    BY <1>1, <1>T, OverlayAnswers DEF OcRecover, OwnerTypes
  <2>2. ProcessTypes'
    BY <1>1, <1>T, Ends, OverlayAnswers DEF OcRecover, ProcessTypes
  <2> QED
    BY <2>1, <2>2, TypeParts
<1>2. CASE OcUpdate
  <2>1. OwnerTypes'
    BY <1>2, <1>T, OverlayAnswers DEF OcUpdate, OwnerTypes
  <2>2. ProcessTypes'
    BY <1>2, <1>T, Ends, OverlayAnswers DEF OcUpdate, ProcessTypes
  <2> QED
    BY <2>1, <2>2, TypeParts
<1>3. CASE OcReserve
  <2>1. OwnerTypes'
    BY <1>3, <1>T, OverlayAnswers DEF OcReserve, OwnerTypes
  <2>2. ProcessTypes'
    BY <1>3, <1>T, Ends, OverlayAnswers DEF OcReserve, ProcessTypes, OwnerTypes
  <2> QED
    BY <2>1, <2>2, TypeParts
<1>4. CASE OcSpawn
  <2>1. OwnerTypes'
    BY <1>4, <1>T, OverlayAnswers DEF OcSpawn, OwnerTypes
  <2>2. ProcessTypes'
    <3>1. ocGen \in Generations
      BY <1>4, <1>T DEF OcSpawn, OverlayInv, Place, OwnerTypes, Generations
    <3>2. ocLate' \subseteq Generations
      BY <1>4, <1>T, <3>1 DEF OcSpawn, ProcessTypes
    <3>3. ocChild' \in [Generations -> OcLive \cup {"none", "dead"}]
      BY <1>4, <1>T DEF OcSpawn, ProcessTypes, OcLive
    <3> QED
      BY <1>4, <1>T, <3>2, <3>3 DEF OcSpawn, ProcessTypes
  <2> QED
    BY <2>1, <2>2, TypeParts
<1>5. CASE OcWaitUnready
  <2>1. OwnerTypes'
    BY <1>5, <1>T, OverlayAnswers DEF OcWaitUnready, OwnerTypes
  <2>2. ProcessTypes'
    BY <1>5, <1>T, Ends, OverlayAnswers DEF OcWaitUnready, ProcessTypes
  <2> QED
    BY <2>1, <2>2, TypeParts
<1>6. CASE OcWaitDeadline
  <2>1. OwnerTypes'
    BY <1>6, <1>T, OverlayAnswers DEF OcWaitDeadline, OcKill, OwnerTypes
  <2>2. ProcessTypes'
    BY <1>6, <1>T, Ends, OverlayAnswers DEF OcWaitDeadline, OcKill, ProcessTypes, OwnerTypes, OcLive,
       OcRecord
  <2> QED
    BY <2>1, <2>2, TypeParts
<1>7. CASE OcEnable
  <2>1. OwnerTypes'
    BY <1>7, <1>T, OverlayAnswers DEF OcEnable, OcPublish, OwnerTypes
  <2>2. ProcessTypes'
    BY <1>7, <1>T, Ends, OverlayAnswers DEF OcEnable, OcPublish, ProcessTypes, OcRecord
  <2> QED
    BY <2>1, <2>2, TypeParts
<1>8. CASE OcUnready
  <2>1. OwnerTypes'
    BY <1>8, <1>T, OverlayAnswers DEF OcUnready, OcPublish, OwnerTypes
  <2>2. ProcessTypes'
    BY <1>8, <1>T, Ends, OverlayAnswers DEF OcUnready, OcPublish, ProcessTypes, OwnerTypes, OcLive,
       OcRecord
  <2> QED
    BY <2>1, <2>2, TypeParts
<1>9. CASE OcCommit
  <2>1. OwnerTypes'
    BY <1>9, <1>T, OverlayAnswers DEF OcCommit, OcPublish, OwnerTypes
  <2>2. ProcessTypes'
    BY <1>9, <1>T, Ends, OverlayAnswers DEF OcCommit, OcPublish, ProcessTypes
  <2> QED
    BY <2>1, <2>2, TypeParts
<1>10. CASE OcAbort
  <2>1. OwnerTypes'
    BY <1>10, <1>T, OverlayAnswers DEF OcAbort, OwnerTypes
  <2>2. ProcessTypes'
    BY <1>10, <1>T, Ends, OverlayAnswers DEF OcAbort, ProcessTypes
  <2> QED
    BY <2>1, <2>2, TypeParts
<1>11. CASE OcAbortKill
  <2>1. OwnerTypes'
    BY <1>11, <1>T, OverlayAnswers DEF OcAbortKill, OcKill, OwnerTypes
  <2>2. ProcessTypes'
    BY <1>11, <1>T, Ends, OverlayAnswers DEF OcAbortKill, OcKill, ProcessTypes, OwnerTypes, OcLive,
       OcRecord
  <2> QED
    BY <2>1, <2>2, TypeParts
<1>12. CASE OcRetry
  <2>1. OwnerTypes'
    BY <1>12, <1>T, OverlayAnswers DEF OcRetry, OwnerTypes
  <2>2. ProcessTypes'
    BY <1>12, <1>T, Ends, OverlayAnswers DEF OcRetry, ProcessTypes
  <2> QED
    BY <2>1, <2>2, TypeParts
<1>13. CASE OcHide
  <2>1. OwnerTypes'
    BY <1>13, <1>T, OverlayAnswers DEF OcHide, OwnerTypes, OcAfterHide
  <2>2. ProcessTypes'
    BY <1>13, <1>T, Ends, OverlayAnswers DEF OcHide, ProcessTypes
  <2> QED
    BY <2>1, <2>2, TypeParts
<1>14. CASE OcStopped
  <2>1. OwnerTypes'
    BY <1>14, <1>T, OverlayAnswers DEF OcStopped, OwnerTypes, OcAfterHide
  <2>2. ProcessTypes'
    BY <1>14, <1>T, Ends, OverlayAnswers DEF OcStopped, ProcessTypes
  <2> QED
    BY <2>1, <2>2, TypeParts
<1>15. CASE OcStopDeadline
  <2>1. OwnerTypes'
    BY <1>15, <1>T, OverlayAnswers DEF OcStopDeadline, OcKill, OwnerTypes, OcAfterHide
  <2>2. ProcessTypes'
    BY <1>15, <1>T, Ends, OverlayAnswers DEF OcStopDeadline, OcKill, ProcessTypes, OwnerTypes, OcLive,
       OcRecord
  <2> QED
    BY <2>1, <2>2, TypeParts
<1>16. CASE OcClose
  <2>1. OwnerTypes'
    BY <1>16, <1>T, OverlayAnswers DEF OcClose, OwnerTypes
  <2>2. ProcessTypes'
    BY <1>16, <1>T, Ends, OverlayAnswers DEF OcClose, ProcessTypes
  <2> QED
    BY <2>1, <2>2, TypeParts
<1>17. CASE OcStart
  <2>1. OwnerTypes'
    <3>1. ocDaemon' \in 0..MaxDaemons
      BY <1>17, <1>T DEF OcStart, OwnerTypes
    <3>2. ocHealthy' \in BOOLEAN /\ ocQuit' \in BOOLEAN /\ ocVisible' \in BOOLEAN
      BY <1>17 DEF OcStart
    <3>3. ocMishaps' \in 0..MaxMishaps /\ ocReserved' \in 0..MaxGenerations
      BY <1>17, <1>T DEF OcStart, OwnerTypes
    <3> QED
      BY <1>17, <3>1, <3>2, <3>3 DEF OcStart, OwnerTypes
  <2>2. ProcessTypes'
    BY <1>17, <1>T, Ends, OverlayAnswers DEF OcStart, ProcessTypes
  <2> QED
    BY <2>1, <2>2, TypeParts
<1>18. CASE OcCrash
  <2>1. OwnerTypes'
    BY <1>18, <1>T, OverlayAnswers DEF OcCrash, OwnerTypes
  <2>2. ProcessTypes'
    BY <1>18, <1>T, Ends, OverlayAnswers DEF OcCrash, ProcessTypes
  <2> QED
    BY <2>1, <2>2, TypeParts
<1>19. ASSUME NEW what \in {"toggle", "wake", "quit"}, OcChoose(what)
      PROVE  OverlayTypeOK'
  BY <1>19, <1>T, Ends DEF OcChoose, OverlayTypeOK
<1>20. ASSUME NEW d \in Daemons, OcBrokerEnds(d) PROVE OverlayTypeOK'
  <2>1. OwnerTypes'
    BY <1>20, <1>T, OverlayAnswers DEF OcBrokerEnds, OwnerTypes
  <2>2. ProcessTypes'
    BY <1>20, <1>T, Ends, OverlayAnswers DEF OcBrokerEnds, ProcessTypes
  <2> QED
    BY <2>1, <2>2, TypeParts
<1>21. ASSUME NEW d \in Daemons, OcBrokerCrash(d) PROVE OverlayTypeOK'
  <2>1. OwnerTypes'
    BY <1>21, <1>T, OverlayAnswers DEF OcBrokerCrash, OwnerTypes
  <2>2. ProcessTypes'
    BY <1>21, <1>T, Ends, OverlayAnswers DEF OcBrokerCrash, ProcessTypes
  <2> QED
    BY <2>1, <2>2, TypeParts
<1>22. ASSUME NEW g \in Generations, OcLateSpawn(g) PROVE OverlayTypeOK'
  <2>1. OwnerTypes'
    BY <1>22, <1>T, OverlayAnswers DEF OcLateSpawn, OwnerTypes
  <2>2. ProcessTypes'
    BY <1>22, <1>T, Ends, OverlayAnswers DEF OcLateSpawn, ProcessTypes, OcLive
  <2> QED
    BY <2>1, <2>2, TypeParts
<1>23. ASSUME NEW g \in Generations, ChildMove(g) PROVE OverlayTypeOK'
  BY <1>23, <1>T, Ends DEF ChildMove, OcChildUnchanged, OverlayTypeOK
<1>24. CASE UNCHANGED ocVars
  BY <1>24, <1>T, Ends DEF ocVars, OverlayTypeOK
<1> QED
  BY <1>1, <1>2, <1>3, <1>4, <1>5, <1>6, <1>7, <1>8, <1>9, <1>10, <1>11, <1>12, <1>13, <1>14,
     <1>15, <1>16, <1>17, <1>18, <1>19, <1>20, <1>21, <1>22, <1>23, <1>24, ChildMoves DEF
     OverlayNext, OcDaemonStep, OverlayInv
-----------------------------------------------------------------------------
(* Every step keeps the other conjuncts. *)

LEMMA FreshStep ==
  ASSUME OverlayInv, [OverlayNext]_ocVars
  PROVE  Fresh'
<1> USE Constants DEF OcAnswered, OcLost, Mishap, OcReap, ocOwnerVars, ocProcessVars
<1>T. OverlayTypeOK /\ OwnerTypes /\ ProcessTypes /\ Fresh /\ Enabled /\ Over /\ Published /\ Place
      /\ Stage
  BY TypeParts DEF OverlayInv
<1>1. CASE OcRecover
  BY <1>1, <1>T DEF OcRecover, Fresh
<1>2. CASE OcUpdate
  BY <1>2, <1>T DEF OcUpdate, Fresh, OwnerTypes, ProcessTypes
<1>3. CASE OcReserve
  <2>1. CASE ocReserved' = ocReserved
    BY <1>3, <1>T, <2>1 DEF OcReserve, Fresh, OwnerTypes, ProcessTypes
  <2>2. CASE ocReserved' # ocReserved
    <3>1. /\ ocReserved' = ocReserved + 1 /\ ocGen' = ocReserved' /\ ocReserved \in Nat
          /\ ocParent' = [ocParent EXCEPT ![ocReserved'] = ocDaemon]
          /\ UNCHANGED <<ocDaemon, ocChild, ocRecords, ocLate>>
      BY <1>3, <1>T, <2>2 DEF OcReserve, OwnerTypes
    <3>2. ocReserved' \in Generations
      BY <1>3, <1>T, <2>2, <3>1 DEF OcReserve, OwnerTypes, Generations
    <3>3. ocParent'[ocGen'] = ocDaemon /\ \A g \in Generations : ocParent'[g] <= ocDaemon
      BY <1>T, <3>1, <3>2 DEF Fresh, OwnerTypes, ProcessTypes
    <3>4. \A g \in Generations : g > ocReserved' => g > ocReserved
      BY <3>1
    <3>5. ocGen' <= ocReserved'
      BY <3>1
    <3> QED
      BY <1>T, <3>1, <3>3, <3>4, <3>5 DEF Fresh
  <2> QED
    BY <2>1, <2>2
<1>4. CASE OcSpawn
  BY <1>4, <1>T DEF OcSpawn, Fresh, OwnerTypes, ProcessTypes
<1>5. CASE OcWaitUnready
  BY <1>5, <1>T DEF OcWaitUnready, Fresh, OwnerTypes, ProcessTypes
<1>6. CASE OcWaitDeadline
  BY <1>6, <1>T DEF OcWaitDeadline, OcKill, Fresh, OwnerTypes, ProcessTypes, OcEnds
<1>7. CASE OcEnable
  BY <1>7, <1>T DEF OcEnable, OcPublish, Fresh, ProcessTypes
<1>8. CASE OcUnready
  BY <1>8, <1>T DEF OcUnready, OcPublish, Fresh, ProcessTypes
<1>9. CASE OcCommit
  BY <1>9, <1>T DEF OcCommit, OcPublish, Fresh, ProcessTypes
<1>10. CASE OcAbort
  BY <1>10, <1>T DEF OcAbort, Fresh, OwnerTypes
<1>11. CASE OcAbortKill
  BY <1>11, <1>T DEF OcAbortKill, OcKill, Fresh, OwnerTypes, ProcessTypes, OcEnds
<1>12. CASE OcRetry
  BY <1>12, <1>T DEF OcRetry, Fresh
<1>13. CASE OcHide
  BY <1>13, <1>T DEF OcHide, Fresh
<1>14. CASE OcStopped
  BY <1>14, <1>T DEF OcStopped, Fresh, OwnerTypes, ProcessTypes
<1>15. CASE OcStopDeadline
  BY <1>15, <1>T DEF OcStopDeadline, OcKill, Fresh, OwnerTypes, ProcessTypes, OcEnds
<1>16. CASE OcClose
  BY <1>16, <1>T DEF OcClose, Fresh
<1>17. CASE OcStart
  BY <1>17, <1>T DEF OcStart, Fresh, OwnerTypes, ProcessTypes
<1>18. CASE OcCrash
  BY <1>18, <1>T DEF OcCrash, Fresh
<1>19. ASSUME NEW what \in {"toggle", "wake", "quit"}, OcChoose(what)
      PROVE  Fresh'
  BY <1>19, <1>T DEF OcChoose, Fresh
<1>20. ASSUME NEW d \in Daemons, OcBrokerEnds(d) PROVE Fresh'
  BY <1>20, <1>T DEF OcBrokerEnds, Fresh, OcEnds, OcAlive, OcLive
<1>21. ASSUME NEW d \in Daemons, OcBrokerCrash(d) PROVE Fresh'
  BY <1>21, <1>T DEF OcBrokerCrash, Fresh
<1>22. ASSUME NEW g \in Generations, OcLateSpawn(g) PROVE Fresh'
  BY <1>22, <1>T DEF OcLateSpawn, Fresh, OwnerTypes
<1>23. ASSUME NEW g \in Generations, ChildMove(g) PROVE Fresh'
  <2>1. \A h \in Generations : h > ocReserved => h # g
    BY <1>23, <1>T DEF ChildMove, Fresh, OcAlive, OcLive
  <2> QED
    BY <1>23, <1>T, <2>1 DEF ChildMove, OcChildUnchanged, Fresh
<1>24. CASE UNCHANGED ocVars
  BY <1>24, <1>T DEF ocVars, Fresh
<1> QED
  BY <1>1, <1>2, <1>3, <1>4, <1>5, <1>6, <1>7, <1>8, <1>9, <1>10, <1>11, <1>12, <1>13, <1>14,
     <1>15, <1>16, <1>17, <1>18, <1>19, <1>20, <1>21, <1>22, <1>23, <1>24, ChildMoves DEF
     OverlayNext, OcDaemonStep, OverlayInv

LEMMA EnabledStep ==
  ASSUME OverlayInv, [OverlayNext]_ocVars
  PROVE  Enabled'
<1> USE Constants DEF OcAnswered, OcLost, Mishap, OcReap, ocOwnerVars, ocProcessVars
<1>T. OverlayTypeOK /\ OwnerTypes /\ ProcessTypes /\ Fresh /\ Enabled /\ Over /\ Published /\ Place
      /\ Stage
  BY TypeParts DEF OverlayInv
<1>1. CASE OcRecover
  BY <1>1, <1>T, RecoverRemoves DEF Enabled
<1>2. CASE OcUpdate
  BY <1>2, <1>T DEF OcUpdate, Enabled, Running, OwnerTypes, ProcessTypes
<1>3. CASE OcReserve
  BY <1>3, <1>T DEF OcReserve, Enabled, Running
<1>4. CASE OcSpawn
  BY <1>4, <1>T DEF OcSpawn, Enabled, Running, OwnerTypes
<1>5. CASE OcWaitUnready
  BY <1>5, <1>T DEF OcWaitUnready, Enabled, Running, OwnerTypes, ProcessTypes
<1>6. CASE OcWaitDeadline
  BY <1>6, <1>T DEF OcWaitDeadline, OcKill, Enabled, Running, OwnerTypes, ProcessTypes
<1>7. CASE OcEnable
  BY <1>7, <1>T DEF OcEnable, OcPublish, Enabled, Running, OwnerTypes, ProcessTypes, Place
<1>8. CASE OcUnready
  BY <1>8, <1>T DEF OcUnready, OcPublish, Enabled, Running, ProcessTypes
<1>9. CASE OcCommit
  BY <1>9, <1>T DEF OcCommit, OcPublish, Enabled, Running, ProcessTypes
<1>10. CASE OcAbort
  BY <1>10, <1>T DEF OcAbort, Enabled, Running
<1>11. CASE OcAbortKill
  BY <1>11, <1>T DEF OcAbortKill, OcKill, Enabled, Running, OwnerTypes, ProcessTypes
<1>12. CASE OcRetry
  BY <1>12, <1>T DEF OcRetry, Enabled, Running
<1>13. CASE OcHide
  BY <1>13, <1>T DEF OcHide, Enabled, Running
<1>14. CASE OcStopped
  BY <1>14, <1>T DEF OcStopped, Enabled, Running, OwnerTypes, ProcessTypes
<1>15. CASE OcStopDeadline
  BY <1>15, <1>T DEF OcStopDeadline, OcKill, Enabled, Running, OwnerTypes, ProcessTypes
<1>16. CASE OcClose
  BY <1>16, <1>T DEF OcClose, Enabled, Running
<1>17. CASE OcStart
  BY <1>17, <1>T DEF OcStart, Enabled, Running
<1>18. CASE OcCrash
  BY <1>18, <1>T DEF OcCrash, Enabled, Running
<1>19. ASSUME NEW what \in {"toggle", "wake", "quit"}, OcChoose(what)
      PROVE  Enabled'
  BY <1>19, <1>T DEF OcChoose, Enabled, Running
<1>20. ASSUME NEW d \in Daemons, OcBrokerEnds(d) PROVE Enabled'
  BY <1>20, <1>T DEF OcBrokerEnds, Enabled, Running
<1>21. ASSUME NEW d \in Daemons, OcBrokerCrash(d) PROVE Enabled'
  BY <1>21, <1>T DEF OcBrokerCrash, Enabled, Running
<1>22. ASSUME NEW g \in Generations, OcLateSpawn(g) PROVE Enabled'
  BY <1>22, <1>T DEF OcLateSpawn, Enabled, Running
<1>23. ASSUME NEW g \in Generations, ChildMove(g) PROVE Enabled'
  BY <1>23, <1>T DEF ChildMove, OcChildUnchanged, Enabled, Running
<1>24. CASE UNCHANGED ocVars
  BY <1>24, <1>T DEF ocVars, Enabled, Running
<1> QED
  BY <1>1, <1>2, <1>3, <1>4, <1>5, <1>6, <1>7, <1>8, <1>9, <1>10, <1>11, <1>12, <1>13, <1>14,
     <1>15, <1>16, <1>17, <1>18, <1>19, <1>20, <1>21, <1>22, <1>23, <1>24, ChildMoves DEF
     OverlayNext, OcDaemonStep, OverlayInv

LEMMA OverStep ==
  ASSUME OverlayInv, [OverlayNext]_ocVars
  PROVE  Over'
<1> USE Constants DEF OcAnswered, OcLost, Mishap, OcReap, ocOwnerVars, ocProcessVars
<1>T. OverlayTypeOK /\ OwnerTypes /\ ProcessTypes /\ Fresh /\ Enabled /\ Over /\ Published /\ Place
      /\ Stage
  BY TypeParts DEF OverlayInv
<1>1. CASE OcRecover
  <2>1. UNCHANGED <<ocDaemon, ocOwnerVars, ocHealthy, ocProcessVars, ocParent>>
    BY <1>1 DEF OcRecover
  <2> QED
    BY <1>1, <2>1, <1>T, RecoverRemoves DEF Over, OcAlive
<1>2. CASE OcUpdate
  <2>1. UNCHANGED <<ocDaemon, ocParent, ocLate, ocChild>> /\ (ocHealthy' => ocHealthy)
    BY <1>2 DEF OcUpdate
  <2>2. CASE UNCHANGED <<ocRecords, ocOwned>>
    BY <1>T, <2>1, <2>2 DEF Over, OcAlive
  <2>3. CASE OcReap /\ ~OcAlive(ocOwned) /\ ocOwned # 0
    <3>1. ocGen = ocOwned /\ ocOwned \in Generations
      BY <1>T, <2>3 DEF OwnerTypes, Generations
    <3>2. \A h \in Generations : ocRecords'[h] = IF h = ocOwned THEN {} ELSE ocRecords[h]
      BY <1>T, <2>3, <3>1 DEF ProcessTypes
    <3> QED
      BY <1>T, <2>1, <2>3, <3>1, <3>2 DEF Over, OcAlive
  <2> QED
    BY <1>2, <2>2, <2>3 DEF OcUpdate
<1>3. CASE OcReserve
  BY <1>3, <1>T DEF OcReserve, Over, Fresh, OwnerTypes, ProcessTypes, OcAlive, OcLive
<1>4. CASE OcSpawn
  <2> SUFFICES ASSUME ocHealthy', NEW h \in Generations, ocParent'[h] = ocDaemon'
               PROVE  h \notin ocLate' /\ (h # ocOwned' => ~OcAlive(h)' /\ ocRecords'[h] = {})
    BY DEF Over
  <2>1. /\ UNCHANGED <<ocDaemon, ocParent, ocRecords, ocLate>> /\ ocHealthy /\ ocOwned = 0
        /\ ocGen \in Generations
    <3>1. UNCHANGED <<ocDaemon, ocParent, ocRecords>> /\ ocStep = "spawn"
      BY <1>4 DEF OcSpawn
    <3>2. ocGen \in Generations /\ ocOwned = 0
      BY <1>T, <3>1 DEF OwnerTypes, Place, Generations
    <3>3. ~OcLost
      BY DEF OcLost
    <3>4. ocHealthy /\ ocLate' = ocLate
      BY <1>4, <3>3 DEF OcSpawn
    <3> QED
      BY <3>1, <3>2, <3>4
  <2>2. h \notin ocLate /\ ocRecords[h] = {} /\ ~OcAlive(h)
    BY <1>T, <2>1 DEF Over, Generations
  <2>3. \/ ocChild' = [ocChild EXCEPT ![ocGen] = "forked"] /\ ocOwned' = ocGen
        \/ ocChild' = ocChild
        \/ ocChild' = [ocChild EXCEPT ![ocGen] = "dead"]
    BY <1>4 DEF OcSpawn
  <2>4. h # ocOwned' => ~OcAlive(h)'
    BY <1>T, <2>1, <2>2, <2>3 DEF OcAlive, OcLive, ProcessTypes
  <2> QED
    BY <2>1, <2>2, <2>4
<1>5. CASE OcWaitUnready
  BY <1>5, <1>T DEF OcWaitUnready, Over, OwnerTypes, ProcessTypes, OcAlive
<1>6. CASE OcWaitDeadline
  BY <1>6, <1>T DEF OcWaitDeadline, OcKill, Over, OwnerTypes, ProcessTypes, OcEnds, OcAlive, OcLive
<1>7. CASE OcEnable
  BY <1>7, <1>T DEF OcEnable, OcPublish, Over, ProcessTypes, OcAlive
<1>8. CASE OcUnready
  BY <1>8, <1>T DEF OcUnready, OcPublish, Over, ProcessTypes, OcAlive
<1>9. CASE OcCommit
  BY <1>9, <1>T DEF OcCommit, OcPublish, Over, ProcessTypes, OcAlive
<1>10. CASE OcAbort
  BY <1>10, <1>T DEF OcAbort, Over, OcAlive
<1>11. CASE OcAbortKill
  BY <1>11, <1>T DEF OcAbortKill, OcKill, Over, OwnerTypes, ProcessTypes, OcEnds, OcAlive, OcLive
<1>12. CASE OcRetry
  BY <1>12, <1>T DEF OcRetry, Over, OcAlive
<1>13. CASE OcHide
  BY <1>13, <1>T DEF OcHide, Over, OcAlive
<1>14. CASE OcStopped
  BY <1>14, <1>T DEF OcStopped, Over, OwnerTypes, ProcessTypes, OcAlive
<1>15. CASE OcStopDeadline
  BY <1>15, <1>T DEF OcStopDeadline, OcKill, Over, OwnerTypes, ProcessTypes, OcEnds, OcAlive, OcLive
<1>16. CASE OcClose
  BY <1>16, <1>T DEF OcClose, Over, OcAlive
<1>17. CASE OcStart
  BY <1>17, <1>T DEF OcStart, Over, Fresh, OwnerTypes
<1>18. CASE OcCrash
  BY <1>18, <1>T DEF OcCrash, Over, OcAlive
<1>19. ASSUME NEW what \in {"toggle", "wake", "quit"}, OcChoose(what)
      PROVE  Over'
  BY <1>19, <1>T DEF OcChoose, Over, OcAlive
<1>20. ASSUME NEW d \in Daemons, OcBrokerEnds(d) PROVE Over'
  BY <1>20, <1>T DEF OcBrokerEnds, Over, OcEnds, OcAlive
<1>21. ASSUME NEW d \in Daemons, OcBrokerCrash(d) PROVE Over'
  BY <1>21, <1>T DEF OcBrokerCrash, Over, OcAlive
<1>22. ASSUME NEW g \in Generations, OcLateSpawn(g) PROVE Over'
  BY <1>22, <1>T DEF OcLateSpawn, Over, ProcessTypes, OcAlive
<1>23. ASSUME NEW g \in Generations, ChildMove(g) PROVE Over'
  BY <1>23, <1>T DEF ChildMove, OcChildUnchanged, Over, OcAlive
<1>24. CASE UNCHANGED ocVars
  BY <1>24, <1>T DEF ocVars, Over, OcAlive
<1> QED
  BY <1>1, <1>2, <1>3, <1>4, <1>5, <1>6, <1>7, <1>8, <1>9, <1>10, <1>11, <1>12, <1>13, <1>14,
     <1>15, <1>16, <1>17, <1>18, <1>19, <1>20, <1>21, <1>22, <1>23, <1>24, ChildMoves DEF
     OverlayNext, OcDaemonStep, OverlayInv

LEMMA PublishedStep ==
  ASSUME OverlayInv, [OverlayNext]_ocVars
  PROVE  Published'
<1> USE Constants DEF OcAnswered, OcLost, Mishap, OcReap, ocOwnerVars, ocProcessVars
<1>T. OverlayTypeOK /\ OwnerTypes /\ ProcessTypes /\ Fresh /\ Enabled /\ Over /\ Published /\ Place
      /\ Stage
  BY TypeParts DEF OverlayInv
<1>1. CASE OcRecover
  BY <1>1, <1>T DEF OcRecover, Published
<1>2. CASE OcUpdate
  BY <1>2, <1>T DEF OcUpdate, Published, ProcessTypes
<1>3. CASE OcReserve
  BY <1>3, <1>T DEF OcReserve, Published
<1>4. CASE OcSpawn
  BY <1>4, <1>T DEF OcSpawn, Published, ProcessTypes, Place
<1>5. CASE OcWaitUnready
  BY <1>5, <1>T DEF OcWaitUnready, Published, ProcessTypes
<1>6. CASE OcWaitDeadline
  BY <1>6, <1>T DEF OcWaitDeadline, OcKill, Published, ProcessTypes, OcEnds, Place
<1>7. CASE OcEnable
  BY <1>7, <1>T DEF OcEnable, OcPublish, Published, ProcessTypes
<1>8. CASE OcUnready
  BY <1>8, <1>T DEF OcUnready, OcPublish, Published, ProcessTypes
<1>9. CASE OcCommit
  BY <1>9, <1>T DEF OcCommit, OcPublish, Published, ProcessTypes
<1>10. CASE OcAbort
  BY <1>10, <1>T DEF OcAbort, Published
<1>11. CASE OcAbortKill
  BY <1>11, <1>T DEF OcAbortKill, OcKill, Published, ProcessTypes, OcEnds, Place
<1>12. CASE OcRetry
  BY <1>12, <1>T DEF OcRetry, Published
<1>13. CASE OcHide
  BY <1>13, <1>T DEF OcHide, Published
<1>14. CASE OcStopped
  BY <1>14, <1>T DEF OcStopped, Published, ProcessTypes
<1>15. CASE OcStopDeadline
  BY <1>15, <1>T DEF OcStopDeadline, OcKill, Published, ProcessTypes, OcEnds, Place
<1>16. CASE OcClose
  BY <1>16, <1>T DEF OcClose, Published
<1>17. CASE OcStart
  BY <1>17, <1>T DEF OcStart, Published
<1>18. CASE OcCrash
  BY <1>18, <1>T DEF OcCrash, Published
<1>19. ASSUME NEW what \in {"toggle", "wake", "quit"}, OcChoose(what)
      PROVE  Published'
  BY <1>19, <1>T DEF OcChoose, Published
<1>20. ASSUME NEW d \in Daemons, OcBrokerEnds(d) PROVE Published'
  BY <1>20, <1>T DEF OcBrokerEnds, Published, OcEnds
<1>21. ASSUME NEW d \in Daemons, OcBrokerCrash(d) PROVE Published'
  BY <1>21, <1>T DEF OcBrokerCrash, Published
<1>22. ASSUME NEW g \in Generations, OcLateSpawn(g) PROVE Published'
  BY <1>22, <1>T DEF OcLateSpawn, Published, OwnerTypes
<1>23. ASSUME NEW g \in Generations, ChildMove(g) PROVE Published'
  BY <1>23, <1>T DEF ChildMove, OcChildUnchanged, Published, OcAlive, OcLive
<1>24. CASE UNCHANGED ocVars
  BY <1>24, <1>T DEF ocVars, Published
<1> QED
  BY <1>1, <1>2, <1>3, <1>4, <1>5, <1>6, <1>7, <1>8, <1>9, <1>10, <1>11, <1>12, <1>13, <1>14,
     <1>15, <1>16, <1>17, <1>18, <1>19, <1>20, <1>21, <1>22, <1>23, <1>24, ChildMoves DEF
     OverlayNext, OcDaemonStep, OverlayInv

LEMMA PlaceStep ==
  ASSUME OverlayInv, [OverlayNext]_ocVars
  PROVE  Place'
<1> USE Constants DEF OcAnswered, OcLost, Mishap, OcReap, ocOwnerVars, ocProcessVars
<1>T. OverlayTypeOK /\ OwnerTypes /\ ProcessTypes /\ Fresh /\ Enabled /\ Over /\ Published /\ Place
      /\ Stage
  BY TypeParts DEF OverlayInv
<1>1. CASE OcRecover
  BY <1>1, <1>T DEF OcRecover, Place
<1>2. CASE OcUpdate
  BY <1>2, <1>T DEF OcUpdate, Place
<1>3. CASE OcReserve
  <2>1. UNCHANGED <<ocOwned, ocChild, ocLate>>
    BY <1>3 DEF OcReserve
  <2>2. CASE ocStep' = "top"
    BY <1>T, <2>1, <2>2 DEF Place
  <2>3. CASE ocStep' # "top"
    <3>1. /\ ocStep' = "spawn" /\ ocOwned = 0 /\ ocGen' = ocReserved + 1
          /\ ocReserved # MaxGenerations
      BY <1>3, <2>3 DEF OcReserve
    <3>2. ocGen' \in Generations /\ ocGen' # 0 /\ ocGen' > ocReserved
      BY <1>T, <3>1 DEF OwnerTypes, Generations
    <3>3. ocChild[ocGen'] = "none" /\ ocGen' \notin ocLate
      BY <1>T, <3>2 DEF Fresh
    <3> QED
      BY <1>T, <2>1, <3>1, <3>2, <3>3 DEF Place
  <2> QED
    BY <2>2, <2>3
<1>4. CASE OcSpawn
  <2>1. ocOwned = 0 /\ ocGen \in Generations /\ ocStep' \in {"wait", "abort"}
    BY <1>4, <1>T DEF OcSpawn, OwnerTypes, Place, Generations
  <2>2. CASE ocStep' = "wait"
    <3>1. ocChild' = [ocChild EXCEPT ![ocGen] = "forked"] /\ ocOwned' = ocGen
      BY <1>4, <2>2 DEF OcSpawn
    <3> QED
      BY <1>T, <2>1, <2>2, <3>1 DEF Place, ProcessTypes, Generations
  <2>3. CASE ocStep' = "abort"
    BY <1>4, <2>1, <2>3 DEF OcSpawn, Place
  <2> QED
    BY <2>1, <2>2, <2>3
<1>5. CASE OcWaitUnready
  BY <1>5, <1>T DEF OcWaitUnready, Place
<1>6. CASE OcWaitDeadline
  <2>1. ocOwned \in Generations /\ ocStep' = "abort"
    BY <1>6, <1>T DEF OcWaitDeadline, OcKill, OwnerTypes, Place, Generations
  <2>2. (ocOwned' = 0 \/ ocOwned' = ocOwned) /\ (ocChild' = ocChild \/ OcEnds({ocOwned}))
    BY <1>6 DEF OcWaitDeadline, OcKill
  <2>3. ocChild'[ocOwned] # "none"
    BY <1>T, <2>1, <2>2, <1>6 DEF Place, OcEnds, OcWaitDeadline
  <2> QED
    BY <2>1, <2>2, <2>3 DEF Place
<1>7. CASE OcEnable
  BY <1>7, <1>T DEF OcEnable, OcPublish, Place
<1>8. CASE OcUnready
  BY <1>8, <1>T DEF OcUnready, OcPublish, Place
<1>9. CASE OcCommit
  BY <1>9, <1>T DEF OcCommit, OcPublish, Place
<1>10. CASE OcAbort
  BY <1>10, <1>T DEF OcAbort, Place
<1>11. CASE OcAbortKill
  BY <1>11, <1>T DEF OcAbortKill, OcKill, ProcessTypes, OcEnds, Place
<1>12. CASE OcRetry
  BY <1>12, <1>T DEF OcRetry, Place
<1>13. CASE OcHide
  BY <1>13, <1>T DEF OcHide, Place, OcAfterHide
<1>14. CASE OcStopped
  BY <1>14, <1>T DEF OcStopped, Place, OcAfterHide
<1>15. CASE OcStopDeadline
  BY <1>15, <1>T DEF OcStopDeadline, OcKill, ProcessTypes, OcEnds, Place, OcAfterHide
<1>16. CASE OcClose
  BY <1>16, <1>T DEF OcClose, Place
<1>17. CASE OcStart
  BY <1>17, <1>T DEF OcStart, Stopped, Place
<1>18. CASE OcCrash
  BY <1>18, <1>T DEF OcCrash, Place
<1>19. ASSUME NEW what \in {"toggle", "wake", "quit"}, OcChoose(what)
      PROVE  Place'
  BY <1>19, <1>T DEF OcChoose, Place
<1>20. ASSUME NEW d \in Daemons, OcBrokerEnds(d) PROVE Place'
  <2>1. UNCHANGED <<ocStep, ocOwnerVars>> /\ ocLate' \subseteq ocLate
    BY <1>20 DEF OcBrokerEnds
  <2>2. \A h \in Generations : ocChild'[h] = "none" <=> ocChild[h] = "none"
    BY <1>20, <1>T DEF OcBrokerEnds, OcEnds, OcAlive, OcLive
  <2>3. /\ ocOwned # 0 => ocOwned \in Generations
        /\ ocStep = "spawn" => ocGen \in Generations
    BY <1>T DEF OwnerTypes, Generations, Place
  <2>4. ocOwned # 0 => ocChild'[ocOwned] # "none"
    BY <1>T, <2>2, <2>3 DEF Place
  <2>5. ocStep = "spawn" => ocChild'[ocGen] = "none"
    BY <1>T, <2>2, <2>3 DEF Place
  <2> QED
    BY <1>T, <2>1, <2>4, <2>5 DEF Place, Stopped
<1>21. ASSUME NEW d \in Daemons, OcBrokerCrash(d) PROVE Place'
  BY <1>21, <1>T DEF OcBrokerCrash, Stopped, Place
<1>22. ASSUME NEW g \in Generations, OcLateSpawn(g) PROVE Place'
  BY <1>22, <1>T DEF OcLateSpawn, Stopped, Place
<1>23. ASSUME NEW g \in Generations, ChildMove(g) PROVE Place'
  <2>1. /\ UNCHANGED <<ocStep, ocOwnerVars, ocLate>> /\ OcAlive(g) /\ ocChild'[g] # "none"
        /\ \A h \in Generations : ocChild'[h] = ocChild[h] \/ h = g
    BY <1>23 DEF ChildMove, OcChildUnchanged
  <2>2. ocStep = "spawn" => ocGen \in Generations /\ g # ocGen
    BY <1>T, <2>1 DEF Place, OwnerTypes, OcAlive, OcLive, Generations
  <2>3. ocOwned # 0 => ocOwned \in Generations
    BY <1>T DEF OwnerTypes, Generations
  <2>4. ocOwned # 0 => ocChild'[ocOwned] # "none"
    BY <1>T, <2>1, <2>3 DEF Place
  <2>5. ocStep = "spawn" => ocChild'[ocGen] = "none"
    BY <1>T, <2>1, <2>2 DEF Place
  <2> QED
    BY <1>T, <2>1, <2>4, <2>5 DEF Place, Stopped
<1>24. CASE UNCHANGED ocVars
  BY <1>24, <1>T DEF ocVars, Stopped, Place
<1> QED
  BY <1>1, <1>2, <1>3, <1>4, <1>5, <1>6, <1>7, <1>8, <1>9, <1>10, <1>11, <1>12, <1>13, <1>14,
     <1>15, <1>16, <1>17, <1>18, <1>19, <1>20, <1>21, <1>22, <1>23, <1>24, ChildMoves DEF
     OverlayNext, OcDaemonStep, OverlayInv

\* Only the owned child's records and its life matter to the stage.
LEMMA StageKept ==
  ASSUME Stage, Place, UNCHANGED <<ocStep, ocOwnerVars, ocHealthy>>,
         ocOwned # 0 => /\ ocRecords'[ocOwned] = ocRecords[ocOwned]
                        /\ ocChild'[ocOwned] = ocChild[ocOwned] \/ ocChild'[ocOwned] = "dead"
  PROVE  Stage'
<1> USE DEF ocOwnerVars
<1>1. (Stopped => Stopped') /\ (Shown => Shown')
  BY DEF Stopped, Shown
<1>2. ocStep = "wait" /\ Starting => Starting'
  BY DEF Starting, Place
<1>3. /\ ocStep = "unready" => ocRecords'[ocOwned] = ocRecords[ocOwned]
      /\ ocStep = "unsignal" => ocRecords'[ocOwned] = ocRecords[ocOwned]
  BY DEF Place
<1> QED
  BY <1>1, <1>2, <1>3 DEF Stage

LEMMA StageStep ==
  ASSUME OverlayInv, [OverlayNext]_ocVars
  PROVE  Stage'
<1> USE Constants DEF OcAnswered, OcLost, Mishap, OcReap, ocOwnerVars, ocProcessVars
<1>T. OverlayTypeOK /\ OwnerTypes /\ ProcessTypes /\ Fresh /\ Enabled /\ Over /\ Published /\ Place
      /\ Stage
  BY TypeParts DEF OverlayInv
<1>1. CASE OcRecover
  BY <1>1, <1>T DEF OcRecover, Stage, Stopped, Place
<1>2. CASE OcUpdate
  BY <1>2, <1>T DEF OcUpdate, Stage, Stopped, Shown
<1>3. CASE OcReserve
  BY <1>3, <1>T DEF OcReserve, Stage, Stopped
<1>4. CASE OcSpawn
  <2>1. ocVisible' = ocVisible /\ ocRecords' = ocRecords /\ ocStep = "spawn"
    BY <1>4 DEF OcSpawn
  <2>2. ocHealthy' => ocHealthy
    BY <1>4 DEF OcSpawn
  <2>3. ocHealthy => ~ocVisible
    BY <1>T, <2>1 DEF Stage
  <2>4. CASE ocStep' = "abort"
    BY <2>1, <2>2, <2>3, <2>4 DEF Stage
  <2>5. CASE ocStep' # "abort"
    <3>1. /\ ocStep' = "wait" /\ ocOwned' = ocGen /\ ocChild' = [ocChild EXCEPT ![ocGen] = "forked"]
      BY <1>4, <2>5 DEF OcSpawn
    <3>2. ocGen \in Generations /\ ocRecords[ocGen] = {}
      BY <1>T, <2>1 DEF Place, OwnerTypes, Generations, Published
    <3>3. Starting'
      BY <1>T, <2>1, <3>1, <3>2 DEF Starting, ProcessTypes
    <3> QED
      BY <2>1, <2>2, <2>3, <3>1, <3>3 DEF Stage
  <2> QED
    BY <2>4, <2>5
<1>5. CASE OcWaitUnready
  BY <1>5, <1>T DEF OcWaitUnready, Stage
<1>6. CASE OcWaitDeadline
  BY <1>6, <1>T DEF OcWaitDeadline, OcKill, Stage
<1>7. CASE OcEnable
  <2>1. ocHealthy' = ocHealthy /\ ocOwned' = ocOwned /\ ocGen' = ocGen
    BY <1>7 DEF OcEnable
  <2>2. ocOwned \in Generations /\ ocGen = ocOwned
    BY <1>7, <1>T DEF OcEnable, OcPublish, OwnerTypes, Generations, Place
  <2>3. CASE ocStep' = "abort"
    BY <1>7, <1>T, <2>1, <2>3 DEF OcEnable, OcPublish, Stage
  <2>4. CASE ocStep' # "abort"
    <3>1. ocStep' = "unready" /\ ocRecords'[ocOwned] = ocRecords[ocOwned] \cup {"enabled"}
      BY <1>7, <1>T, <2>2, <2>4 DEF OcEnable, OcPublish, ProcessTypes
    <3>2. ocHealthy => ocRecords[ocOwned] = {"active", "ready", "signals"}
      BY <1>7, <1>T, <2>2 DEF OcEnable, Stage, Starting
    <3>3. ocVisible' = ocVisible /\ (ocHealthy => ~ocVisible)
      BY <1>7, <1>T DEF OcEnable, Stage
    <3> QED
      BY <2>1, <3>1, <3>2, <3>3 DEF Stage
  <2> QED
    BY <2>3, <2>4
<1>8. CASE OcUnready
  <2>1. ocHealthy' = ocHealthy /\ ocOwned' = ocOwned /\ ocGen' = ocGen
    BY <1>8 DEF OcUnready
  <2>2. ocOwned \in Generations /\ ocGen = ocOwned
    BY <1>8, <1>T DEF OcUnready, OcPublish, OwnerTypes, Generations, Place
  <2>3. CASE ocStep' = "abort"
    BY <1>8, <1>T, <2>1, <2>3 DEF OcUnready, OcPublish, Stage
  <2>4. CASE ocStep' # "abort"
    <3>1. ocStep' = "unsignal" /\ ocRecords'[ocOwned] = ocRecords[ocOwned] \ {"ready"}
      BY <1>8, <1>T, <2>2, <2>4 DEF OcUnready, OcPublish, ProcessTypes
    <3>2. ocHealthy => ocRecords[ocOwned] = {"active", "ready", "signals", "enabled"}
      BY <1>8, <1>T DEF OcUnready, OcPublish, Stage
    <3>3. ocVisible' = ocVisible /\ (ocHealthy => ~ocVisible)
      BY <1>8, <1>T DEF OcUnready, OcPublish, Stage
    <3> QED
      BY <2>1, <3>1, <3>2, <3>3 DEF Stage
  <2> QED
    BY <2>3, <2>4
<1>9. CASE OcCommit
  <2>1. ocHealthy' = ocHealthy /\ ocOwned' = ocOwned /\ ocGen' = ocGen
    BY <1>9 DEF OcCommit
  <2>2. ocOwned \in Generations /\ ocGen = ocOwned
    BY <1>9, <1>T DEF OcCommit, OcPublish, OwnerTypes, Generations, Place
  <2>3. CASE ocStep' = "abort"
    BY <1>9, <1>T, <2>1, <2>3 DEF OcCommit, OcPublish, Stage
  <2>4. CASE ocStep' # "abort"
    <3>1. ocStep' = "top" /\ ocRecords'[ocOwned] = ocRecords[ocOwned] \ {"signals"}
      BY <1>9, <1>T, <2>2, <2>4 DEF OcCommit, OcPublish, ProcessTypes
    <3>2. ocHealthy => ocRecords[ocOwned] = {"active", "signals", "enabled"}
      BY <1>9, <1>T DEF OcCommit, OcPublish, Stage
    <3>3. ocVisible' /\ ocPhase' = "Ready" /\ ocChild' = ocChild
      BY <1>9, <3>1 DEF OcCommit
    <3>4. ocHealthy => ocChild[ocOwned] \in {"signals", "dead"}
      BY <1>T, <2>2, <3>2 DEF Published
    <3>5. ocHealthy => Shown'
      BY <2>1, <2>2, <3>1, <3>2, <3>3, <3>4 DEF Shown, Generations
    <3> QED
      BY <2>1, <3>1, <3>5 DEF Stage
  <2> QED
    BY <2>3, <2>4
<1>10. CASE OcAbort
  BY <1>10, <1>T DEF OcAbort, Stage, Stopped
<1>11. CASE OcAbortKill
  BY <1>11, <1>T DEF OcAbortKill, OcKill, Stage, Stopped
<1>12. CASE OcRetry
  BY <1>12, <1>T DEF OcRetry, Stage, Stopped
<1>13. CASE OcHide
  BY <1>13, <1>T DEF OcHide, Stage, Stopped, Shown, OcAfterHide
<1>14. CASE OcStopped
  BY <1>14, <1>T DEF OcStopped, Stage, Stopped, OcAfterHide
<1>15. CASE OcStopDeadline
  BY <1>15, <1>T DEF OcStopDeadline, OcKill, Stage, Stopped, OcAfterHide
<1>16. CASE OcClose
  BY <1>16, <1>T DEF OcClose, Stage
<1>17. CASE OcStart
  BY <1>17, <1>T DEF OcStart, Stage
<1>18. CASE OcCrash
  BY <1>18, <1>T DEF OcCrash, Stage
<1>19. ASSUME NEW what \in {"toggle", "wake", "quit"}, OcChoose(what)
      PROVE  Stage'
  BY <1>19, <1>T DEF OcChoose, Stage, Stopped, Shown
<1>20. ASSUME NEW d \in Daemons, OcBrokerEnds(d) PROVE Stage'
  <2>1. ocOwned # 0 => ocOwned \in Generations
    BY <1>T DEF OwnerTypes, Generations
  <2>2. UNCHANGED <<ocStep, ocOwnerVars, ocHealthy, ocRecords>>
    BY <1>20 DEF OcBrokerEnds
  <2>3. ocOwned # 0 => ocChild'[ocOwned] = ocChild[ocOwned] \/ ocChild'[ocOwned] = "dead"
    BY <1>20, <2>1 DEF OcBrokerEnds, OcEnds
  <2> QED
    BY <1>T, <2>2, <2>3, StageKept
<1>21. ASSUME NEW d \in Daemons, OcBrokerCrash(d) PROVE Stage'
  BY <1>21, <1>T DEF OcBrokerCrash, Stage, Stopped, Shown, Starting
<1>22. ASSUME NEW g \in Generations, OcLateSpawn(g) PROVE Stage'
  <2>1. ocOwned # 0 => ocOwned \in Generations /\ ocOwned # g
    BY <1>22, <1>T DEF OcLateSpawn, OwnerTypes, Generations, Place, Published
  <2>2. UNCHANGED <<ocStep, ocOwnerVars, ocHealthy, ocRecords>>
    BY <1>22 DEF OcLateSpawn
  <2>3. ocOwned # 0 => ocChild'[ocOwned] = ocChild[ocOwned]
    BY <1>22, <1>T, <2>1 DEF OcLateSpawn, ProcessTypes
  <2> QED
    BY <1>T, <2>2, <2>3, StageKept
<1>23. ASSUME NEW g \in Generations, ChildMove(g) PROVE Stage'
  <2>1. UNCHANGED <<ocStep, ocOwnerVars, ocHealthy>> /\ OcAlive(g)
    BY <1>23 DEF ChildMove, OcChildUnchanged
  <2>2. ocOwned # 0 => ocOwned \in Generations
    BY <1>T DEF OwnerTypes, Generations
  <2>3. CASE g # ocOwned \/ (ocChild'[g] = "dead" /\ ocRecords'[g] = ocRecords[g])
    BY <1>23, <1>T, <2>1, <2>2, <2>3, StageKept DEF ChildMove
  <2>4. CASE g = ocOwned /\ ~(ocChild'[g] = "dead" /\ ocRecords'[g] = ocRecords[g])
    <3>1. ocChild[ocOwned] \in {"forked", "armed", "locked", "active", "ready"} /\ ocOwned # 0
      BY <1>23, <2>4 DEF ChildMove
    <3>2. "signals" \notin ocRecords[ocOwned]
      BY <1>T, <2>2, <3>1 DEF Published
    <3>3. ocHealthy => ~Shown /\ ocStep \notin {"unready", "unsignal"}
      BY <1>T, <3>1, <3>2 DEF Shown, Stage
    <3>4. Starting => Starting'
      <4> SUFFICES ASSUME Starting PROVE Starting'
        OBVIOUS
      <4>1. CASE ocChild[g] = "forked" /\ ocChild'[g] = "armed" /\ ocRecords'[g] = ocRecords[g]
        BY <2>1, <2>4, <4>1 DEF Starting
      <4>2. CASE ocChild[g] = "armed" /\ ocChild'[g] = "locked" /\ ocRecords'[g] = ocRecords[g]
        BY <2>1, <2>4, <4>2 DEF Starting
      <4>3. ASSUME NEW s \in {<<"locked", "active">>, <<"active", "ready">>,
                              <<"ready", "signals">>},
                   ocChild[g] = s[1], ocChild'[g] = s[2], ocRecords'[g] = ocRecords[g] \cup {s[2]}
            PROVE  Starting'
        <5>1. ocOwned' = g /\ ocOwned = g
          BY <2>1, <2>4
        <5>2. CASE s = <<"locked", "active">>
          BY <4>3, <5>1, <5>2 DEF Starting
        <5>3. CASE s = <<"active", "ready">>
          BY <4>3, <5>1, <5>3 DEF Starting
        <5>4. CASE s = <<"ready", "signals">>
          BY <4>3, <5>1, <5>4 DEF Starting
        <5> QED
          BY <4>3, <5>2, <5>3, <5>4
      <4> QED
        BY <1>23, <2>4, <4>1, <4>2, <4>3 DEF ChildMove
    <3> QED
      BY <1>T, <2>1, <3>1, <3>3, <3>4 DEF Stage, Stopped
  <2> QED
    BY <2>3, <2>4
<1>24. CASE UNCHANGED ocVars
  BY <1>24, <1>T DEF ocVars, Stage, Stopped, Shown, Starting
<1> QED
  BY <1>1, <1>2, <1>3, <1>4, <1>5, <1>6, <1>7, <1>8, <1>9, <1>10, <1>11, <1>12, <1>13, <1>14,
     <1>15, <1>16, <1>17, <1>18, <1>19, <1>20, <1>21, <1>22, <1>23, <1>24, ChildMoves DEF
     OverlayNext, OcDaemonStep, OverlayInv

-----------------------------------------------------------------------------
LEMMA InvInit == ASSUME OverlayInit PROVE OverlayInv
<1>1. /\ ocDaemon = 0 /\ ocStep = "down" /\ ocPhase = "Stopped" /\ ocGen = 0 /\ ocOwned = 0
      /\ ocTries = 0 /\ ocLate = {} /\ ocReserved = 0 /\ ocLock = 0 /\ ocMishaps = 0
      /\ ocBroker = [d \in Daemons |-> "gone"] /\ ocParent = [g \in Generations |-> 0]
      /\ ocChild = [g \in Generations |-> "none"] /\ ocRecords = [g \in Generations |-> {}]
  BY DEF OverlayInit
<1>2. ocVisible = FALSE /\ ocHealthy = FALSE /\ ocQuit = FALSE
  BY DEF OverlayInit
<1>3. OwnerTypes
  <2>1. 0 \in 0..MaxMishaps
    BY Constants
  <2> QED
    BY <1>1, <1>2, <2>1, Constants DEF OwnerTypes
<1>4. ProcessTypes
  BY <1>1, Constants DEF ProcessTypes
<1>5. Fresh /\ Enabled /\ Published
  BY <1>1, Constants DEF Fresh, Enabled, Running, Published
<1>6. Over /\ Place /\ Stage
  BY <1>1, <1>2 DEF Over, Place, Stage
<1> QED
  BY <1>3, <1>4, <1>5, <1>6, TypeParts DEF OverlayInv

LEMMA InvStep == ASSUME OverlayInv, [OverlayNext]_ocVars PROVE OverlayInv'
  BY TypesStep, FreshStep, EnabledStep, OverStep, PublishedStep, PlaceStep, StageStep DEF OverlayInv

\* The invariant: who is enabled, what is over, what a child has published and where
\* the daemon is, in every state (OverlayChildOwner with its child and its records).
THEOREM OverlayInvariant == OverlaySpec => []OverlayInv
<1>1. OverlayInit => OverlayInv
  BY InvInit
<1>2. OverlayInv /\ [OverlayNext]_ocVars => OverlayInv'
  BY InvStep
<1> QED
  BY <1>1, <1>2, PTL DEF OverlaySpec

\* Every variable keeps its type: the owner has no child or that of its generation.
THEOREM OverlayTypeCorrect == OverlaySpec => []OverlayTypeOK
  BY OverlayInvariant, PTL DEF OverlayInv

\* Never two living overlays that could claim actions, across the daemon's crash and
\* the start of the next one, whatever is lost on the way to the broker; and a daemon
\* past its recovery owns the one there is (the enable record, the start refused
\* while a recorded child lives).
THEOREM OneOverlayActs == OverlaySpec => []OverlayOneActor
<1>1. OverlayInv => OverlayOneActor
  <2> SUFFICES ASSUME OverlayInv PROVE OverlayOneActor
    OBVIOUS
  <2> DEFINE actors == {g \in Generations : MayClaim(g)}
  <2>1. \A g \in actors : g \in Generations /\ "enabled" \in ocRecords[g]
    BY DEF MayClaim
  <2>2. \A g, h \in actors : g = h
    BY <2>1 DEF OverlayInv, Enabled
  <2>3. Cardinality(actors) <= 1
    <3>1. CASE actors = {}
      <4>1. Cardinality(actors) = 0
        BY <3>1, FS_EmptySet
      <4> QED
        BY <4>1
    <3>2. CASE actors # {}
      <4>1. PICK g \in actors : TRUE
        BY <3>2
      <4>2. actors = {g}
        BY <2>2, <4>1
      <4>3. Cardinality(actors) = 1
        BY <4>2, FS_Singleton
      <4> QED
        BY <4>3
    <3> QED
      BY <3>1, <3>2
  <2>4. Running => actors \subseteq {ocOwned}
    BY <2>1 DEF OverlayInv, Enabled
  <2> QED
    BY <2>3, <2>4 DEF OverlayOneActor, Running
<1> QED
  BY <1>1, OverlayInvariant, PTL

\* A daemon whose broker answers is back in its loop only with everything settled:
\* nothing of its other generations lives or has a record, and what it shows is what
\* it owns and has enabled (abort_reservation, try_wait, commit).
THEOREM LoopIsTidy == OverlaySpec => []OverlayTidy
<1>1. OverlayInv => OverlayTidy
  <2> SUFFICES ASSUME OverlayInv, ocStep = "choose", ocHealthy
               PROVE  OverlayTidy
    BY DEF OverlayTidy
  <2>1. \A g \in Generations \ {ocOwned} :
          ocParent[g] = ocDaemon => ~OcAlive(g) /\ ocRecords[g] = {}
    BY DEF OverlayInv, Over
  <2>2. Stopped \/ Shown
    BY DEF OverlayInv, Stage
  <2>3. ocVisible <=> ocOwned # 0
    BY <2>2 DEF Stopped, Shown
  <2>4. ocOwned # 0 => ocPhase = "Ready" /\ ocRecords[ocOwned] = {"active", "enabled"}
    BY <2>2 DEF Stopped, Shown
  <2>5. ocOwned = 0 => ocPhase = "Stopped" /\ ocGen = 0
    BY <2>2 DEF Stopped, Shown
  <2> QED
    BY <2>1, <2>3, <2>4, <2>5 DEF OverlayTidy
<1> QED
  BY <1>1, OverlayInvariant, PTL

-----------------------------------------------------------------------------
(***************************************************************************)
(* Proof that the broker's callers are told of their own requests only, and *)
(* that it leaves behind the clipboard's last provider and nothing else,    *)
(* for any number of threads, requests and owned children.  The argument:   *)
(* one request at most is between the lock and its answer (OneRequest),     *)
(* also after a thread has given up and the guard has been dropped, because *)
(* a thread looks at the transport under the lock; and each request is in   *)
(* one place of its way (Fates).                                            *)
(***************************************************************************)

Answers == [id : Requests, result : {"ok", "refused", "timed_out"}]
Serving == {"begin", "helper", "reply"}
Told == {"none", "ok", "refused", "timed_out", "busy", "unusable", "failed"}

\* The types, with the sequences as such.
TypesOK ==
  /\ brOp \in Seq(Operations) /\ Len(brOp) <= MaxRequests
  /\ brCaller \in [Threads -> 0..MaxRequests]
  /\ brAt \in [Threads -> {"idle", "queue", "check", "send", "receive"}]
  /\ brLock \in Threads \cup {Nobody} /\ brHealthy \in BOOLEAN /\ brHelper \in BOOLEAN
  /\ brByte \in BOOLEAN
  /\ brIn \in Seq(Requests) /\ brOut \in Seq(Answers) /\ brDone \in Seq(Requests)
  /\ brServer \in Serving \cup {"poll", "handover", "failed"}
  /\ brCurrent \in {Idle} \cup [id : Requests, result : {"none", "ok", "refused", "timed_out"}]
  /\ brRetained \in 0..MaxRequests /\ brProviders \subseteq Requests
  /\ brKids \subseteq Requests /\ Cardinality(brKids) <= Capacity
  /\ brRuntime \in {"up", "dropping", "gone", "killed"}
  /\ brTold \in [Requests -> Told]

\* Requests on their way to the broker, in it, or on their way back.
InExchange(r) ==
  \/ \E i \in DOMAIN brIn : brIn[i] = r
  \/ brCurrent.id = r
  \/ \E i \in DOMAIN brOut : brOut[i].id = r
WasDone(r) == \E i \in DOMAIN brDone : brDone[i] = r
Asked(r) == r \in 1..Len(brOp)

\* The lock is held from the look at the transport to the answer, and a thread that is
\* not idle has a request of its own, of which nobody has been told.
Callers ==
  \A t \in Threads :
    /\ brLock = t <=> brAt[t] \in {"check", "send", "receive"}
    /\ brAt[t] = "idle" <=> brCaller[t] = 0
    /\ brAt[t] # "idle" => Asked(brCaller[t]) /\ brTold[brCaller[t]] = "none"
    /\ \A u \in Threads : brAt[t] # "idle" /\ brCaller[t] = brCaller[u] => t = u

\* One exchange at a time, in one place.
OneRequest ==
  /\ \/ brIn = <<>> /\ brOut = <<>>
     \/ brIn = <<>> /\ brCurrent = Idle /\ \E a \in Answers : brOut = <<a>>
     \/ brOut = <<>> /\ brCurrent = Idle /\ \E r \in Requests : brIn = <<r>>
  /\ brServer \in Serving <=> brCurrent # Idle
  /\ brServer \in {"begin", "helper"} => brCurrent.result = "none"
  /\ brServer = "reply" => brCurrent.result # "none"

\* It is the lock holder's, who has sent its request; one that nobody waits for leaves
\* the transport given up.
OfHolder ==
  \A r \in Requests : InExchange(r) =>
    /\ Asked(r)
    /\ \A t \in Threads : brAt[t] # "send" /\ (brAt[t] = "receive" => r = brCaller[t])
    /\ brHealthy => brLock # Nobody /\ brAt[brLock] = "receive"

\* Where a request is, and what has been made of it.
Fates ==
  /\ \A r \in Requests :
       /\ WasDone(r) => Asked(r)
       /\ ~Asked(r) => brTold[r] = "none"
       /\ brTold[r] = "ok" => WasDone(r)
       /\ brTold[r] \in {"busy", "unusable", "refused", "timed_out"} =>
            ~WasDone(r) /\ ~InExchange(r)
  /\ \A t \in Threads : brAt[t] \in {"queue", "check", "send"} =>
       ~WasDone(brCaller[t]) /\ ~InExchange(brCaller[t])
  /\ \A i \in DOMAIN brIn : ~WasDone(brIn[i])
  /\ brCurrent # Idle => (WasDone(brCurrent.id) <=> brCurrent.result = "ok")
  /\ \A i \in DOMAIN brOut : WasDone(brOut[i].id) <=> brOut[i].result = "ok"

\* What the broker owns.
Owned ==
  /\ brServer = "failed" => brRuntime = "killed"
  /\ brRuntime = "gone" => BrokerEnded
  /\ brProviders = IF brServer = "failed" THEN {} ELSE LastPublished
  /\ ~BrokerEnded => brProviders = {brRetained} \ {0}
  /\ brHelper => brServer = "helper"
  /\ BrokerEnded => brKids = {}

\* Its children are those it was asked to own.
Spawned == \A r \in brKids : Asked(r) /\ brOp[r] = "spawn"

BrokerInv == TypesOK /\ Callers /\ OneRequest /\ OfHolder /\ Fates /\ Owned /\ Spawned
-----------------------------------------------------------------------------
(* The sequences. *)

LEMMA One ==
  ASSUME NEW S, NEW e \in S
  PROVE  /\ <<e>> \in Seq(S) /\ Head(<<e>>) = e /\ Tail(<<e>>) = <<>> /\ Append(<<>>, e) = <<e>>
         /\ DOMAIN <<e>> = {1} /\ <<e>>[1] = e /\ <<e>> # <<>> /\ <<>> \in Seq(S)
         /\ DOMAIN <<>> = {}
  OBVIOUS

\* The four places of the request that is in the exchange.
LEMMA Places ==
  ASSUME TypesOK, OneRequest
  PROVE  \/ /\ brIn = <<>> /\ brOut = <<>> /\ brCurrent = Idle
            /\ \A r \in Requests : ~InExchange(r)
         \/ \E q \in Requests :
              /\ brIn = <<q>> /\ brOut = <<>> /\ brCurrent = Idle
              /\ \A r \in Requests : InExchange(r) <=> r = q
         \/ /\ brIn = <<>> /\ brOut = <<>> /\ brCurrent # Idle /\ brCurrent.id \in Requests
            /\ \A r \in Requests : InExchange(r) <=> r = brCurrent.id
         \/ \E a \in Answers :
              /\ brIn = <<>> /\ brOut = <<a>> /\ brCurrent = Idle
              /\ \A r \in Requests : InExchange(r) <=> r = a.id
<1>1. \A r \in Requests : Idle.id # r
  BY DEF Idle, Requests
<1>2. CASE brIn = <<>> /\ brOut = <<>>
  BY <1>1, <1>2 DEF InExchange, TypesOK
<1>3. ASSUME NEW a \in Answers, brIn = <<>> /\ brCurrent = Idle /\ brOut = <<a>>
      PROVE  \A r \in Requests : InExchange(r) <=> r = a.id
  BY <1>1, <1>3, One DEF InExchange
<1>4. ASSUME NEW q \in Requests, brOut = <<>> /\ brCurrent = Idle /\ brIn = <<q>>
      PROVE  \A r \in Requests : InExchange(r) <=> r = q
  BY <1>1, <1>4, One DEF InExchange
<1> QED
  BY <1>2, <1>3, <1>4 DEF OneRequest

LEMMA DoneMore ==
  ASSUME brDone \in Seq(Requests), NEW c \in Requests, brDone' = Append(brDone, c)
  PROVE  /\ brDone' \in Seq(Requests)
         /\ \A r : WasDone(r)' <=> WasDone(r) \/ r = c
<1>1. /\ brDone' \in Seq(Requests) /\ Len(brDone) \in Nat
      /\ DOMAIN brDone = 1..Len(brDone) /\ DOMAIN brDone' = 1..(Len(brDone) + 1)
      /\ \A i \in 1..Len(brDone) : brDone'[i] = brDone[i]
      /\ brDone'[Len(brDone) + 1] = c
  OBVIOUS
<1>2. DOMAIN brDone' = DOMAIN brDone \cup {Len(brDone) + 1}
  BY <1>1
<1> QED
  BY <1>1, <1>2 DEF WasDone

\* A publication that succeeds is the last one; another request's end changes nothing.
LEMMA PublishedMore ==
  ASSUME brDone \in Seq(Requests), NEW c \in Requests, brDone' = Append(brDone, c), brOp' = brOp
  PROVE  LastPublished' = IF brOp[c] = "publish" THEN {c} ELSE LastPublished
<1> DEFINE n == Len(brDone)
           Pub == {i \in DOMAIN brDone : brOp[brDone[i]] = "publish"}
<1>1. /\ n \in Nat /\ DOMAIN brDone = 1..n /\ DOMAIN brDone' = 1..n \cup {n + 1}
      /\ \A i \in 1..n : brDone'[i] = brDone[i]
      /\ brDone'[n + 1] = c
  OBVIOUS
<1>2. Pub' = Pub \cup {i \in {n + 1} : brOp[c] = "publish"}
  BY <1>1
<1>3. LastPublished = {brDone[i] : i \in {j \in Pub : \A k \in Pub : k <= j}}
  BY DEF LastPublished
<1>4. LastPublished' = {brDone'[i] : i \in {j \in Pub' : \A k \in Pub' : k <= j}}
  BY DEF LastPublished
<1>5. Pub \subseteq 1..n
  BY <1>1
<1> HIDE DEF Pub, n
<1>6. CASE brOp[c] = "publish"
  <2>1. n + 1 \in Pub' /\ \A k \in Pub' : k \in Nat /\ k <= n + 1
    BY <1>1, <1>2, <1>5, <1>6
  <2>2. ASSUME NEW j \in Pub', \A k \in Pub' : k <= j PROVE j = n + 1
    BY <1>1, <2>1, <2>2
  <2>3. {j \in Pub' : \A k \in Pub' : k <= j} = {n + 1}
    BY <2>1, <2>2
  <2> QED
    BY <1>1, <1>4, <1>6, <2>3
<1>7. CASE brOp[c] # "publish"
  <2>1. Pub' = Pub
    BY <1>2, <1>7
  <2> QED
    BY <1>1, <1>3, <1>4, <1>5, <1>7, <2>1
<1> QED
  BY <1>6, <1>7
-----------------------------------------------------------------------------
(* Every step keeps the types. *)

LEMMA TypesThread ==
  ASSUME BrokerInv, NEW t \in Threads, BrThread(t) \/ \E op \in Operations : BrAsk(t, op)
  PROVE  TypesOK'
<1>0. UNCHANGED <<brServerVars, brByte, brRuntime>>
  BY DEF BrThread, BrLock, BrCheck, BrSend, BrReceive, BrGiveUp, BrAsk
<1>T. TypesOK /\ Nobody \notin Threads /\ MaxRequests \in Nat
  BY BrokerAssumption DEF BrokerInv
<1>S. /\ UNCHANGED <<brServer, brCurrent, brHelper, brRetained, brProviders, brKids, brDone>>
      /\ UNCHANGED <<brByte, brRuntime>>
  BY <1>0 DEF brServerVars
<1>1. ASSUME NEW op \in Operations, BrAsk(t, op) PROVE TypesOK'
  <2>1. /\ brOp' \in Seq(Operations) /\ Len(brOp') = Len(brOp) + 1 /\ Len(brOp) < MaxRequests
        /\ Len(brOp) \in Nat
    BY <1>1, <1>T DEF BrAsk, TypesOK
  <2> QED
    BY <1>S, <1>T, <1>1, <2>1 DEF BrAsk, TypesOK
<1>2. ASSUME NEW result \in {"ok", "refused", "timed_out", "busy", "unusable", "failed"},
             BrTell(t, result)
      PROVE  /\ brTold' \in [Requests -> Told]
             /\ brCaller' \in [Threads -> 0..MaxRequests] /\ brLock' \in Threads \cup {Nobody}
             /\ brAt' \in [Threads -> {"idle", "queue", "check", "send", "receive"}]
  <2>1. 0 \in 0..MaxRequests
    BY <1>T
  <2> QED
    BY <1>T, <1>2, <2>1 DEF BrTell, TypesOK, Told
<1>3. CASE BrLock(t)
  BY <1>S, <1>T, <1>2, <1>3, ZenonT(40) DEF BrLock, TypesOK
<1>4. CASE BrCheck(t)
  BY <1>S, <1>T, <1>2, <1>4 DEF BrCheck, TypesOK
<1>5. CASE BrSend(t)
  <2>1. brCaller[t] \in Requests
    BY <1>T, <1>5 DEF BrSend, BrokerInv, Callers, Asked, TypesOK, Requests
  <2>2. brIn' \in Seq(Requests)
    <3>1. brIn' = brIn \/ brIn' = Append(brIn, brCaller[t])
      BY <1>5 DEF BrSend
    <3>2. brIn \in Seq(Requests)
      BY <1>T DEF TypesOK
    <3> QED
      BY ONLY <2>1, <3>1, <3>2
  <2> QED
    BY <1>S, <1>T, <1>2, <1>5, <2>2, ZenonT(40) DEF BrSend, TypesOK
<1>6. CASE BrReceive(t)
  <2>1. PICK a \in Answers : brOut = <<a>>
    BY <1>6, Places DEF BrReceive, BrokerInv
  <2>2. /\ Head(brOut) = a /\ brOut' = <<>> /\ brOut' \in Seq(Answers)
        /\ a.result \in {"ok", "refused", "timed_out"}
    BY <1>6, <2>1, One DEF BrReceive, Answers
  <2> QED
    BY <1>S, <1>T, <1>2, <1>6, <2>2, ZenonT(40) DEF BrReceive, TypesOK
<1>7. CASE BrGiveUp(t)
  BY <1>S, <1>T, <1>2, <1>7 DEF BrGiveUp, TypesOK
<1> QED
  BY <1>1, <1>3, <1>4, <1>5, <1>6, <1>7 DEF BrThread

\* What the broker works on is a request it was asked for.
LEMMA Current ==
  ASSUME BrokerInv, brServer \in Serving
  PROVE  /\ brCurrent # Idle /\ brCurrent.id \in Requests /\ Asked(brCurrent.id)
         /\ brCurrent \in [id : Requests, result : {"none", "ok", "refused", "timed_out"}]
         /\ brOp[brCurrent.id] \in Operations
<1>1. brCurrent # Idle /\ brCurrent.id \in Requests /\ InExchange(brCurrent.id)
  BY DEF BrokerInv, TypesOK, OneRequest, InExchange
<1>2. Asked(brCurrent.id)
  BY <1>1 DEF BrokerInv, OfHolder
<1> QED
  BY <1>1, <1>2 DEF Asked, BrokerInv, TypesOK

LEMMA Kids ==
  ASSUME brKids \subseteq Requests, NEW r
  PROVE  /\ Cardinality(brKids \ {r}) <= Cardinality(brKids)
         /\ Cardinality(brKids \cup {r}) <= Cardinality(brKids) + 1
         /\ Cardinality(brKids) \in Nat /\ Cardinality(brKids \ {r}) \in Nat
         /\ Cardinality(brKids \cup {r}) \in Nat
<1>1. IsFiniteSet(Requests)
  <2>1. 1 \in Int /\ MaxRequests \in Int
    BY BrokerAssumption
  <2> QED
    BY <2>1, FS_Interval DEF Requests
<1>2. IsFiniteSet(brKids)
  BY <1>1, FS_Subset
<1>3. Cardinality(brKids) \in Nat
  BY <1>2, FS_CardinalityType
<1>4. /\ IsFiniteSet(brKids \cup {r})
      /\ Cardinality(brKids \cup {r}) =
           IF r \in brKids THEN Cardinality(brKids) ELSE Cardinality(brKids) + 1
  BY <1>2, FS_AddElement
<1>5. /\ IsFiniteSet(brKids \ {r})
      /\ Cardinality(brKids \ {r}) =
           IF r \in brKids THEN Cardinality(brKids) - 1 ELSE Cardinality(brKids)
  BY <1>2, FS_RemoveElement
<1>6. Cardinality(brKids \ {r}) \in Nat
  BY <1>5, FS_CardinalityType
<1> QED
  BY <1>3, <1>4, <1>5, <1>6

LEMMA TypesServer ==
  ASSUME BrokerInv, BrServe \/ BrDrop \/ BrLeave \/ BrKilled \/ \E r \in Requests : BrChildEnds(r)
  PROVE  TypesOK'
<1>0. Cardinality({}) = 0 /\ 0 <= Capacity
  BY FS_EmptySet, BrokerAssumption
<1>T. TypesOK /\ MaxRequests \in Nat /\ 0 \in 0..MaxRequests /\ Requests \subseteq 0..MaxRequests
  BY BrokerAssumption DEF BrokerInv, Requests
<1>1. CASE BrWake
  <2>1. CASE brIn # <<>>
    <3>1. PICK q \in Requests : brIn = <<q>>
      BY <2>1, Places DEF BrokerInv
    <3>2. Head(brIn) = q /\ Tail(brIn) = <<>> /\ <<>> \in Seq(Requests)
      BY <3>1, One
    <3>3. brIn' \in Seq(Requests)
      BY <1>T, <1>1, <3>2 DEF BrWake, TypesOK
    <3>4. brCurrent' \in {Idle} \cup [id : Requests,
                                      result : {"none", "ok", "refused", "timed_out"}]
      BY <1>T, <1>1, <3>2 DEF BrWake, TypesOK
    <3>5. brKids' \subseteq Requests /\ Cardinality(brKids') <= Capacity
      BY <1>0, <1>T, <1>1 DEF BrWake, TypesOK
    <3> QED
      BY <1>T, <1>1, <3>3, <3>4, <3>5
         DEF BrWake, BrHandOver, BrFail, TypesOK, brCallerVars, Serving
  <2>2. CASE brIn = <<>>
    BY <1>0, <1>T, <1>1, <2>2 DEF BrWake, BrHandOver, BrFail, TypesOK, brCallerVars, Serving
  <2> QED
    BY <2>1, <2>2
<1>2. CASE BrBegin
  <2>1. /\ brCurrent \in [id : Requests, result : {"none", "ok", "refused", "timed_out"}]
        /\ brCurrent.id \in Requests
    BY <1>2, Current DEF BrBegin, BrSpawn, Serving
  <2>2. brDone' \in Seq(Requests) /\ brServer' \in Serving
    BY <1>T, <1>2, <2>1, DoneMore DEF BrBegin, BrSpawn, BrResult, Serving, TypesOK
  <2>3. brCurrent' \in [id : Requests, result : {"none", "ok", "refused", "timed_out"}]
    BY <1>2, <2>1 DEF BrBegin, BrSpawn, BrResult
  <2>4. brKids' \subseteq Requests /\ Cardinality(brKids') <= Capacity
    <3>1. \/ brKids' = brKids
          \/ brKids' = brKids \cup {brCurrent.id} /\ Cardinality(brKids) < Capacity
          \/ \E r \in brKids : brKids' = brKids \ {r}
      BY <1>2 DEF BrBegin, BrSpawn, HasRoom
    <3>2. brKids \subseteq Requests /\ Cardinality(brKids) <= Capacity /\ Capacity \in Nat
      BY <1>T, BrokerAssumption DEF TypesOK
    <3>3. CASE brKids' = brKids
      BY <3>2, <3>3
    <3>4. CASE brKids' = brKids \cup {brCurrent.id} /\ Cardinality(brKids) < Capacity
      <4>1. /\ Cardinality(brKids \cup {brCurrent.id}) <= Cardinality(brKids) + 1
            /\ Cardinality(brKids) \in Nat /\ Cardinality(brKids \cup {brCurrent.id}) \in Nat
        BY <3>2, Kids
      <4> QED
        BY <2>1, <3>2, <3>4, <4>1
    <3>5. ASSUME NEW r \in brKids, brKids' = brKids \ {r}
          PROVE  brKids' \subseteq Requests /\ Cardinality(brKids') <= Capacity
      <4>1. /\ Cardinality(brKids \ {r}) <= Cardinality(brKids)
            /\ Cardinality(brKids) \in Nat /\ Cardinality(brKids \ {r}) \in Nat
        BY <3>2, Kids
      <4> QED
        BY <3>2, <3>5, <4>1
    <3> QED
      BY <3>1, <3>3, <3>4, <3>5
  <2>5. brHelper' \in BOOLEAN
    BY <1>T, <1>2 DEF BrBegin, BrSpawn, TypesOK
  <2> QED
    BY <1>T, <1>2, <2>2, <2>3, <2>4, <2>5 DEF BrBegin, BrSpawn, TypesOK, brCallerVars, Serving
<1>3. CASE BrHelperDone
  <2>1. /\ brCurrent \in [id : Requests, result : {"none", "ok", "refused", "timed_out"}]
        /\ brCurrent.id \in Requests
    BY <1>3, Current DEF BrHelperDone, Serving
  <2>2. brDone' \in Seq(Requests) /\ brServer' \in Serving
    BY <1>T, <1>3, <2>1, DoneMore DEF BrHelperDone, BrResult, Serving, TypesOK
  <2>3. brCurrent' \in [id : Requests, result : {"none", "ok", "refused", "timed_out"}]
    BY <1>3, <2>1 DEF BrHelperDone, BrResult
  <2>4. brRetained' \in 0..MaxRequests /\ brProviders' \subseteq Requests
    BY <1>T, <1>3, <2>1 DEF BrHelperDone, TypesOK
  <2> QED
    BY <1>T, <1>3, <2>2, <2>3, <2>4 DEF BrHelperDone, TypesOK, brCallerVars, Serving
<1>4. CASE BrReply
  <2>1. brCurrent \in Answers /\ brOut = <<>>
    <3>1. /\ brCurrent \in [id : Requests, result : {"none", "ok", "refused", "timed_out"}]
          /\ brCurrent # Idle /\ brCurrent.result # "none"
      BY <1>4, Current DEF BrReply, Serving, BrokerInv, OneRequest
    <3> QED
      BY <3>1, Places DEF Answers, BrokerInv
  <2>2. Append(brOut, brCurrent) \in Seq(Answers)
    BY <2>1, One
  <2>3. brOut' \in Seq(Answers)
    BY <1>T, <1>4, <2>2 DEF BrReply, TypesOK
  <2> QED
    BY <1>0, <1>T, <1>4, <2>3 DEF BrReply, BrHandOver, BrFail, TypesOK, brCallerVars, Serving
<1>5. CASE BrDrop \/ BrLeave \/ BrKilled
  BY <1>T, <1>5 DEF BrDrop, BrLeave, BrKilled, TypesOK, brServerVars, brCallerVars
<1>6. ASSUME NEW r \in Requests, BrChildEnds(r) PROVE TypesOK'
  <2>1. brKids' = brKids \ {r} /\ brKids \subseteq Requests /\ Cardinality(brKids) <= Capacity
    BY <1>T, <1>6 DEF BrChildEnds, TypesOK
  <2>2. Cardinality(brKids') <= Capacity
    BY <2>1, Kids, BrokerAssumption
  <2> QED
    BY <1>T, <1>6, <2>1, <2>2 DEF BrChildEnds, TypesOK, brCallerVars
<1> QED
  BY <1>1, <1>2, <1>3, <1>4, <1>5, <1>6 DEF BrServe
-----------------------------------------------------------------------------
(* Every step keeps the callers apart. *)

LEMMA Telling ==
  ASSUME BrokerInv, NEW t \in Threads, NEW result, brAt[t] # "idle", BrTell(t, result), brOp' = brOp
  PROVE  Callers'
<1>1. /\ brTold' = [brTold EXCEPT ![brCaller[t]] = result] /\ brCaller' = [brCaller EXCEPT ![t] = 0]
      /\ brAt' = [brAt EXCEPT ![t] = "idle"] /\ brLock' = IF brLock = t THEN Nobody ELSE brLock
      /\ Nobody \notin Threads
  BY BrokerAssumption DEF BrTell
<1>2. /\ brCaller \in [Threads -> 0..MaxRequests] /\ Callers /\ Len(brOp) \in Nat
      /\ brAt \in [Threads -> {"idle", "queue", "check", "send", "receive"}]
      /\ brTold \in [Requests -> Told]
      /\ brLock \in Threads \cup {Nobody}
  BY DEF BrokerInv, TypesOK
<1>3. \A u \in Threads : brAt[u] # "idle" => brCaller[u] # 0
  BY <1>2 DEF Callers
<1> QED
  BY <1>1, <1>2, <1>3 DEF Callers, Asked

LEMMA Advancing ==
  ASSUME BrokerInv, NEW t \in Threads, NEW at \in {"check", "send", "receive"}, brAt[t] # "idle",
         brLock = t \/ brLock = Nobody, brLock' = t, brAt' = [brAt EXCEPT ![t] = at],
         UNCHANGED <<brOp, brCaller, brTold>>
  PROVE  Callers'
BY BrokerAssumption DEF BrokerInv, TypesOK, Callers, Asked

LEMMA CallersStep ==
  ASSUME BrokerInv, [BrokerNext]_brVars
  PROVE  Callers'
<1>1. ASSUME NEW t \in Threads, NEW op \in Operations, BrAsk(t, op) PROVE Callers'
  <2>1. /\ brOp \in Seq(Operations) /\ brOp' = Append(brOp, op) /\ Len(brOp) < MaxRequests
        /\ brCaller' = [brCaller EXCEPT ![t] = Len(brOp) + 1] /\ brAt[t] = "idle"
        /\ brAt' = [brAt EXCEPT ![t] = "queue"] /\ UNCHANGED <<brLock, brTold>>
        /\ brCaller \in [Threads -> 0..MaxRequests]
        /\ brAt \in [Threads -> {"idle", "queue", "check", "send", "receive"}]
    BY <1>1 DEF BrAsk, BrokerInv, TypesOK
  <2>2. Len(brOp) \in Nat /\ Len(brOp') = Len(brOp) + 1
    BY <2>1
  <2>3. brTold[Len(brOp) + 1] = "none"
    BY <2>1, <2>2, BrokerAssumption DEF BrokerInv, Fates, Asked, Requests
  <2>4. \A u \in Threads : brAt[u] # "idle" => brCaller[u] # Len(brOp) + 1
    BY <2>2 DEF BrokerInv, Callers, Asked
  <2> QED
    BY <2>1, <2>2, <2>3, <2>4 DEF BrokerInv, Callers, Asked
<1>2. ASSUME NEW t \in Threads, BrThread(t) PROVE Callers'
  <2>1. /\ brAt[t] # "idle" /\ brOp' = brOp
        /\ brAt[t] \in {"check", "send", "receive"} => brLock = t
    BY <1>2 DEF BrThread, BrLock, BrCheck, BrSend, BrReceive, BrGiveUp, BrokerInv, Callers
  <2>2. \/ \E result : BrTell(t, result)
        \/ /\ \E at \in {"check", "send", "receive"} : brAt' = [brAt EXCEPT ![t] = at]
           /\ brLock = t \/ brLock = Nobody
           /\ brLock' = t /\ UNCHANGED <<brCaller, brTold>>
    BY <1>2, <2>1 DEF BrThread, BrLock, BrCheck, BrSend, BrReceive, BrGiveUp
  <2> QED
    BY <2>1, <2>2, Telling, Advancing
<1>3. CASE UNCHANGED brCallerVars
  BY <1>3 DEF brCallerVars, BrokerInv, Callers, Asked
<1>4. CASE BrDrop
  BY <1>4 DEF BrDrop, BrokerInv, Callers, Asked
<1> QED
  BY <1>1, <1>2, <1>3, <1>4
     DEF BrokerNext, BrServe, BrWake, BrBegin, BrSpawn, BrHelperDone, BrReply, BrLeave, BrKilled,
         BrChildEnds, brVars, brCallerVars

-----------------------------------------------------------------------------
(* One request is in the exchange. *)

LEMMA OneThread ==
  ASSUME BrokerInv, NEW t \in Threads, BrThread(t) \/ \E op \in Operations : BrAsk(t, op)
  PROVE  /\ OneRequest'
         /\ \A r \in Requests : InExchange(r)' =>
              InExchange(r) \/ (BrSend(t) /\ r = brCaller[t] /\ brAt'[t] = "receive")
         /\ BrReceive(t) => \A r \in Requests : ~InExchange(r)'
<1>1. UNCHANGED <<brServer, brCurrent>> /\ OneRequest /\ TypesOK
  BY DEF BrThread, BrLock, BrCheck, BrSend, BrReceive, BrGiveUp, BrAsk, brServerVars, BrokerInv
<1>2. CASE BrSend(t)
  <2>1. brIn = <<>> /\ brOut = <<>> /\ brCurrent = Idle
    <3>1. \A r \in Requests : ~InExchange(r)
      BY <1>2 DEF BrSend, BrokerInv, OfHolder
    <3> QED
      BY <1>1, <3>1, Places DEF Answers
  <2>2. brCaller[t] \in Requests /\ ~BrReceive(t)
    BY <1>1, <1>2 DEF BrSend, BrReceive, BrokerInv, Callers, Asked, TypesOK, Requests
  <2>3. CASE brIn' = brIn /\ brOut' = brOut
    BY <1>1, <2>2, <2>3 DEF OneRequest, InExchange
  <2>4. CASE brIn' = Append(brIn, brCaller[t]) /\ brOut' = brOut /\ brAt'[t] = "receive"
    <3>1. brIn' = <<brCaller[t]>>
      BY <2>1, <2>2, <2>4, One
    <3>2. OneRequest'
      BY <1>1, <2>1, <2>2, <2>4, <3>1 DEF OneRequest
    <3>3. \A r \in Requests : InExchange(r)' => InExchange(r) \/ r = brCaller[t]
      BY <1>1, <2>2, <2>4, <3>1, One DEF InExchange
    <3> QED
      BY <1>2, <2>2, <2>4, <3>2, <3>3
  <2> QED
    BY <1>1, <1>2, <2>3, <2>4 DEF BrSend, TypesOK
<1>3. CASE BrReceive(t)
  <2>1. PICK a \in Answers : brOut = <<a>> /\ brIn = <<>> /\ brCurrent = Idle
    BY <1>1, <1>3, Places DEF BrReceive
  <2>2. brOut' = <<>> /\ brIn' = <<>> /\ brCurrent' = Idle
    BY <1>1, <1>3, <2>1, One DEF BrReceive
  <2>3. \A r \in Requests : ~InExchange(r)'
    BY <2>2 DEF InExchange, Idle, Requests
  <2> QED
    BY <1>1, <2>2, <2>3 DEF OneRequest
<1>4. CASE UNCHANGED <<brIn, brOut>> /\ ~BrReceive(t)
  BY <1>1, <1>4 DEF OneRequest, InExchange
<1>5. ASSUME BrReceive(t),
             BrLock(t) \/ BrCheck(t) \/ BrGiveUp(t) \/ \E op \in Operations : BrAsk(t, op)
      PROVE  FALSE
  BY <1>5 DEF BrReceive, BrLock, BrCheck, BrGiveUp, BrAsk
<1> QED
  BY <1>2, <1>3, <1>4, <1>5 DEF BrThread, BrLock, BrCheck, BrGiveUp, BrAsk

LEMMA OneServer ==
  ASSUME BrokerInv, BrServe \/ BrDrop \/ BrLeave \/ BrKilled \/ \E r \in Requests : BrChildEnds(r)
  PROVE  /\ OneRequest'
         /\ \A r \in Requests : InExchange(r)' => InExchange(r)
<1>0. OneRequest /\ TypesOK
  BY DEF BrokerInv
<1>1. CASE BrWake
  <2>1. CASE ~brByte /\ brIn # <<>>
    <3>1. PICK q \in Requests : brIn = <<q>> /\ brOut = <<>>
      BY <1>0, <2>1, Places
    <3>2. brCurrent' = [id |-> q, result |-> "none"] /\ brIn' = <<>> /\ brOut' = <<>>
          /\ brServer' = "begin"
      BY <1>1, <2>1, <3>1, One DEF BrWake
    <3>3. brCurrent' # Idle /\ brCurrent'.id = q /\ brCurrent'.result = "none"
      BY <3>2 DEF Idle, Requests
    <3>4. InExchange(q)
      BY <3>1, One DEF InExchange
    <3>5. \A r \in Requests : InExchange(r)' => r = q
      BY <3>2, <3>3, One DEF InExchange
    <3> QED
      BY <3>2, <3>3, <3>4, <3>5 DEF OneRequest, Serving
  <2>2. CASE UNCHANGED <<brIn, brOut, brCurrent>> /\ brServer' \in {"handover", "failed"}
    BY <1>0, <1>1, <2>2 DEF OneRequest, InExchange, Serving, BrWake
  <2> QED
    BY <1>1, <2>1, <2>2 DEF BrWake, BrHandOver, BrFail
<1>2. CASE BrBegin \/ BrHelperDone
  <2>1. /\ brCurrent # Idle /\ brCurrent.id \in Requests /\ brCurrent.result = "none"
        /\ brCurrent \in [id : Requests, result : {"none", "ok", "refused", "timed_out"}]
    BY <1>2, Current DEF BrBegin, BrSpawn, BrHelperDone, Serving, BrokerInv, OneRequest
  <2>2. \/ brServer' = "helper" /\ brCurrent' = brCurrent
        \/ /\ brServer' = "reply"
           /\ \E x \in {"ok", "refused", "timed_out"} : brCurrent' = [brCurrent EXCEPT !.result = x]
    BY <1>2 DEF BrBegin, BrSpawn, BrHelperDone, BrResult
  <2>3. /\ brCurrent'.id = brCurrent.id /\ brCurrent' # Idle
        /\ brServer' = "helper" => brCurrent'.result = "none"
        /\ brServer' = "reply" => brCurrent'.result # "none"
    BY <2>1, <2>2 DEF Idle, Requests
  <2>4. UNCHANGED <<brIn, brOut>>
    BY <1>2 DEF BrBegin, BrSpawn, BrHelperDone
  <2> QED
    BY <1>0, <2>1, <2>2, <2>3, <2>4 DEF OneRequest, InExchange, Serving
<1>3. CASE BrReply
  <2>1. /\ brCurrent \in Answers /\ brOut = <<>> /\ brIn = <<>>
    <3>1. /\ brCurrent \in [id : Requests, result : {"none", "ok", "refused", "timed_out"}]
          /\ brCurrent # Idle /\ brCurrent.result # "none"
      BY <1>3, Current DEF BrReply, Serving, BrokerInv, OneRequest
    <3> QED
      BY <1>0, <3>1, Places DEF Answers
  <2>2. /\ brCurrent' = Idle /\ brIn' = <<>> /\ brServer' \notin Serving
        /\ brOut' = <<>> \/ brOut' = <<brCurrent>>
    BY <1>3, <2>1, One DEF BrReply, BrFail, BrHandOver, Serving
  <2>3. \A r \in Requests : InExchange(r)' => InExchange(r)
    BY <2>1, <2>2, One DEF InExchange, Idle, Requests
  <2> QED
    BY <2>1, <2>2, <2>3 DEF OneRequest, Serving
<1>4. CASE BrDrop \/ BrLeave \/ BrKilled \/ \E r \in Requests : BrChildEnds(r)
  BY <1>0, <1>4 DEF BrDrop, BrLeave, BrKilled, BrChildEnds, OneRequest, InExchange, brServerVars
<1> QED
  BY <1>1, <1>2, <1>3, <1>4 DEF BrServe
-----------------------------------------------------------------------------
(* It is the lock holder's. *)

\* A thread sends into a clean exchange, and takes its own answer out of it or gives the
\* transport up.
LEMMA HolderThread ==
  ASSUME BrokerInv, NEW t \in Threads, BrThread(t) \/ \E op \in Operations : BrAsk(t, op)
  PROVE  OfHolder'
<1> USE DEF OfHolder
<1>1. /\ TypesOK /\ Callers /\ OfHolder /\ Nobody \notin Threads
      /\ brAt \in [Threads -> {"idle", "queue", "check", "send", "receive"}]
      /\ brCaller \in [Threads -> 0..MaxRequests]
  BY BrokerAssumption DEF BrokerInv, TypesOK
<1>2. ASSUME NEW op \in Operations, BrAsk(t, op) PROVE OfHolder'
  <2>1. /\ \A r \in Requests : InExchange(r)' => InExchange(r)
        /\ brAt' = [brAt EXCEPT ![t] = "queue"] /\ UNCHANGED <<brHealthy, brLock>>
        /\ brCaller' = [brCaller EXCEPT ![t] = Len(brOp) + 1] /\ brAt[t] = "idle"
    BY <1>2, OneThread DEF BrAsk, BrSend
  <2>2. Len(brOp') = Len(brOp) + 1 /\ Len(brOp) \in Nat
    BY <1>1, <1>2 DEF BrAsk, TypesOK
  <2>3. \A r \in Requests : Asked(r) => Asked(r)'
    BY <2>2 DEF Asked
  <2> QED
    BY <1>1, <2>1, <2>3
<1>3. ASSUME NEW result, BrTell(t, result), ~BrSend(t), UNCHANGED brOp,
             brHealthy' => brHealthy /\ brAt[t] = "queue"
      PROVE  OfHolder'
  <2>1. \A r \in Requests : InExchange(r)' => InExchange(r)
    BY <1>3, OneThread
  <2>2. /\ brAt' = [brAt EXCEPT ![t] = "idle"] /\ brCaller' = [brCaller EXCEPT ![t] = 0]
        /\ brLock # t => brLock' = brLock
        /\ brLock = t <=> brAt[t] \in {"check", "send", "receive"}
    BY <1>1, <1>3 DEF BrTell, Callers
  <2> QED
    BY <1>1, <1>3, <2>1, <2>2 DEF Asked
<1>4. CASE BrLock(t)
  <2>1. CASE brLock = Nobody
    <3>1. /\ \A r \in Requests : InExchange(r)' => InExchange(r)
          /\ brAt' = [brAt EXCEPT ![t] = "check"] /\ UNCHANGED <<brHealthy, brOp, brCaller>>
      BY <1>4, <2>1, OneThread DEF BrLock, BrSend
    <3> QED
      BY <1>1, <2>1, <3>1 DEF Asked
  <2>2. CASE BrTell(t, "busy")
    <3>1. ~BrSend(t) /\ UNCHANGED <<brOp, brHealthy>> /\ brAt[t] = "queue"
      BY <1>4 DEF BrLock, BrSend
    <3> QED
      BY <1>3, <2>2, <3>1
  <2> QED
    BY <1>4, <2>1, <2>2 DEF BrLock
<1>5. CASE BrCheck(t)
  <2>1. ~BrSend(t) /\ UNCHANGED <<brOp, brHealthy>> /\ brAt[t] = "check" /\ brLock = t
    BY <1>1, <1>5 DEF BrCheck, BrSend, Callers
  <2>2. \A r \in Requests : InExchange(r)' => InExchange(r)
    BY <2>1, OneThread
  <2>3. CASE brHealthy
    BY <1>1, <2>1, <2>2, <2>3
  <2>4. CASE ~brHealthy
    <3>1. BrTell(t, "unusable")
      BY <1>5, <2>4 DEF BrCheck
    <3> QED
      BY <1>3, <2>1, <2>4, <3>1
  <2> QED
    BY <2>3, <2>4
<1>6. CASE BrSend(t)
  <2>1. \A r \in Requests : InExchange(r)' => r = brCaller[t] /\ brAt'[t] = "receive"
    BY <1>1, <1>6, OneThread DEF BrSend
  <2>2. /\ brLock = t /\ Asked(brCaller[t]) /\ UNCHANGED brOp
        /\ \A u \in Threads \ {t} : brAt[u] \notin {"check", "send", "receive"}
    BY <1>1, <1>6 DEF BrSend, Callers
  <2>3. CASE brAt' = [brAt EXCEPT ![t] = "receive"] /\ UNCHANGED <<brCaller, brLock>>
    BY <1>1, <2>1, <2>2, <2>3 DEF Asked
  <2>4. CASE BrTell(t, "failed")
    BY <1>1, <2>1, <2>4 DEF BrTell
  <2> QED
    BY <1>6, <2>3, <2>4 DEF BrSend
<1>7. CASE BrReceive(t)
  BY <1>7, OneThread
<1>8. CASE BrGiveUp(t)
  <2>1. BrTell(t, "failed") /\ ~BrSend(t) /\ UNCHANGED brOp /\ ~brHealthy'
    BY <1>8 DEF BrGiveUp, BrSend
  <2> QED
    BY <1>3, <2>1
<1> QED
  BY <1>2, <1>4, <1>5, <1>6, <1>7, <1>8 DEF BrThread

LEMMA HolderServer ==
  ASSUME BrokerInv, BrServe \/ BrDrop \/ BrLeave \/ BrKilled \/ \E r \in Requests : BrChildEnds(r)
  PROVE  OfHolder'
<1>1. /\ UNCHANGED <<brOp, brCaller, brAt, brLock>> /\ brHealthy' \in {brHealthy, FALSE}
  BY DEF BrServe, BrWake, BrBegin, BrSpawn, BrHelperDone, BrReply, BrDrop, BrLeave, BrKilled, BrChildEnds,
         brCallerVars
<1>2. \A r \in Requests : InExchange(r)' => InExchange(r)
  BY OneServer
<1> QED
  BY <1>1, <1>2 DEF BrokerInv, OfHolder, Asked
-----------------------------------------------------------------------------
(* Every request is where its caller was told. *)

LEMMA FatesThread ==
  ASSUME BrokerInv, NEW t \in Threads, BrThread(t) \/ \E op \in Operations : BrAsk(t, op)
  PROVE  Fates'
<1> DEFINE c == brCaller[t]
<1>1. /\ TypesOK /\ Callers /\ OneRequest /\ OfHolder /\ Fates /\ Len(brOp) \in Nat
      /\ brAt \in [Threads -> {"idle", "queue", "check", "send", "receive"}]
      /\ brCaller \in [Threads -> 0..MaxRequests]
      /\ brTold \in [Requests -> Told]
  BY DEF BrokerInv, TypesOK
<1>2. /\ UNCHANGED <<brDone, brCurrent>>
      /\ \A r : WasDone(r)' <=> WasDone(r)
  BY DEF BrThread, BrLock, BrCheck, BrSend, BrReceive, BrGiveUp, BrAsk, brServerVars, WasDone
<1>3. ASSUME BrThread(t)
      PROVE  /\ brOp' = brOp /\ brAt[t] # "idle" /\ Asked(c) /\ c \in Requests /\ brTold[c] = "none"
             /\ \A u \in Threads : brAt[u] # "idle" /\ brCaller[u] = c => u = t
  <2>1. brOp' = brOp /\ brAt[t] # "idle"
    BY <1>3 DEF BrThread, BrLock, BrCheck, BrSend, BrReceive, BrGiveUp
  <2> QED
    BY <1>1, <2>1 DEF Callers, Asked, Requests, TypesOK
<1>4. ASSUME NEW op \in Operations, BrAsk(t, op) PROVE Fates'
  <2>1. /\ brCaller' = [brCaller EXCEPT ![t] = Len(brOp) + 1]
        /\ brAt' = [brAt EXCEPT ![t] = "queue"] /\ UNCHANGED <<brTold, brIn, brOut>>
        /\ Len(brOp') = Len(brOp) + 1 /\ Len(brOp) + 1 \in Requests
    BY <1>1, <1>4, BrokerAssumption DEF BrAsk, TypesOK, Requests
  <2>2. ~WasDone(Len(brOp) + 1) /\ ~InExchange(Len(brOp) + 1)
    BY <1>1, <2>1 DEF Fates, OfHolder, Asked
  <2>3. \A r \in Requests : /\ InExchange(r)' <=> InExchange(r)
                            /\ Asked(r) => Asked(r)'
    BY <1>1, <1>2, <2>1 DEF InExchange, Asked
  <2>4. \A u \in Threads : brAt[u] \in {"queue", "check", "send"} => brCaller[u] \in Requests
    BY <1>1 DEF Callers, Asked, TypesOK, Requests
  <2> QED
    BY <1>1, <1>2, <2>1, <2>2, <2>3, <2>4 DEF Fates
\* A thread that is told something, in one step.
<1>5. ASSUME BrThread(t), NEW result, BrTell(t, result), ~(BrSend(t) /\ brAt'[t] = "receive"),
             result = "ok" => WasDone(c),
             result \in {"busy", "unusable", "refused", "timed_out"} =>
               ~WasDone(c) /\ \A r \in Requests : r = c => ~InExchange(r)',
             brIn' \in {brIn, <<>>}, brOut' \in {brOut, <<>>}
      PROVE  Fates'
  <2>1. /\ brTold' = [brTold EXCEPT ![c] = result] /\ brCaller' = [brCaller EXCEPT ![t] = 0]
        /\ brAt' = [brAt EXCEPT ![t] = "idle"]
    BY <1>5 DEF BrTell
  <2>2. \A r \in Requests : InExchange(r)' => InExchange(r)
    BY <1>5, OneThread
  <2>3. /\ brOp' = brOp /\ Asked(c) /\ c \in Requests
    BY <1>3, <1>5
  <2>4. \A r : Asked(r)' <=> Asked(r)
    BY <2>3 DEF Asked
  <2>5. \A u \in Threads : brAt[u] \in {"queue", "check", "send"} => brCaller[u] \in Requests
    BY <1>1 DEF Callers, Asked, TypesOK, Requests
  <2>6. /\ (\A i \in DOMAIN brIn : ~WasDone(brIn[i]))'
        /\ (\A i \in DOMAIN brOut : WasDone(brOut[i].id) <=> brOut[i].result = "ok")'
    BY <1>1, <1>2, <1>5, One DEF Fates
  <2> QED
    BY <1>1, <1>2, <1>5, <2>1, <2>2, <2>3, <2>4, <2>5, <2>6 DEF Fates
\* A thread that goes on.
<1>6. ASSUME BrThread(t), NEW at \in {"check", "send", "receive"}, brAt' = [brAt EXCEPT ![t] = at],
             UNCHANGED <<brCaller, brTold, brOut>>,
             at \in {"check", "send"} => brAt[t] \in {"queue", "check", "send"} /\ brIn' = brIn,
             at = "receive" => brAt[t] = "send" /\ brIn' = <<c>>
      PROVE  Fates'
  <2>1. \A r \in Requests : InExchange(r)' => InExchange(r) \/ (r = c /\ at = "receive")
    <3>1. brAt'[t] = at
      BY <1>1, <1>6
    <3> QED
      BY <1>6, <3>1, OneThread
  <2>2. /\ brOp' = brOp /\ c \in Requests /\ brTold[c] = "none"
        /\ \A u \in Threads : brAt[u] # "idle" /\ brCaller[u] = c => u = t
    BY <1>3, <1>6
  <2>3. \A r : Asked(r)' <=> Asked(r)
    BY <2>2 DEF Asked
  <2>4. \A u \in Threads : brAt[u] \in {"queue", "check", "send"} => brCaller[u] \in Requests
    BY <1>1 DEF Callers, Asked, TypesOK, Requests
  <2>5. (\A i \in DOMAIN brIn : ~WasDone(brIn[i]))'
    BY <1>1, <1>2, <1>6, <2>2, One DEF Fates
  <2> QED
    BY <1>1, <1>2, <1>6, <2>1, <2>2, <2>3, <2>4, <2>5 DEF Fates
<1>7. CASE BrLock(t)
  <2>1. BrThread(t) /\ ~BrSend(t) /\ UNCHANGED <<brIn, brOut>> /\ brAt[t] = "queue"
    BY <1>7 DEF BrThread, BrLock, BrSend
  <2>2. CASE BrTell(t, "busy")
    <3>1. ~WasDone(c) /\ \A r \in Requests : r = c => ~InExchange(r)'
      BY <1>1, <1>3, <2>1, OneThread DEF Fates
    <3> QED
      BY <1>5, <2>1, <2>2, <3>1
  <2>3. CASE brAt' = [brAt EXCEPT ![t] = "check"] /\ UNCHANGED <<brCaller, brTold>>
    BY <1>6, <2>1, <2>3
  <2> QED
    BY <1>7, <2>2, <2>3 DEF BrLock
<1>8. CASE BrCheck(t)
  <2>1. BrThread(t) /\ ~BrSend(t) /\ UNCHANGED <<brIn, brOut>> /\ brAt[t] = "check"
    BY <1>8 DEF BrThread, BrCheck, BrSend
  <2>2. CASE BrTell(t, "unusable")
    <3>1. ~WasDone(c) /\ \A r \in Requests : r = c => ~InExchange(r)'
      BY <1>1, <1>3, <2>1, OneThread DEF Fates
    <3> QED
      BY <1>5, <2>1, <2>2, <3>1
  <2>3. CASE brAt' = [brAt EXCEPT ![t] = "send"] /\ UNCHANGED <<brCaller, brTold>>
    BY <1>6, <2>1, <2>3
  <2> QED
    BY <1>8, <2>2, <2>3 DEF BrCheck
<1>9. CASE BrSend(t)
  <2>1. BrThread(t) /\ brOut' = brOut /\ brAt[t] = "send"
    BY <1>9 DEF BrThread, BrSend
  <2>2. CASE BrTell(t, "failed") /\ brIn' = brIn
    <3>1. brAt'[t] # "receive"
      BY <1>1, <2>2 DEF BrTell
    <3> QED
      BY <1>5, <2>1, <2>2, <3>1
  <2>3. CASE brAt' = [brAt EXCEPT ![t] = "receive"] /\ UNCHANGED <<brCaller, brTold>>
             /\ brIn' = Append(brIn, c)
    <3>1. brIn = <<>>
      <4>1. \A r \in Requests : ~InExchange(r)
        BY <1>1, <2>1 DEF OfHolder
      <4> QED
        BY <1>1, <4>1, Places DEF Answers
    <3>2. brIn' = <<c>>
      BY <1>3, <2>1, <2>3, <3>1, One
    <3> QED
      BY <1>6, <2>1, <2>3, <3>2
  <2> QED
    BY <1>9, <2>2, <2>3 DEF BrSend
<1>10. CASE BrReceive(t)
  <2>1. PICK a \in Answers : brOut = <<a>> /\ brIn = <<>>
    BY <1>1, <1>10, Places DEF BrReceive
  <2>2. /\ BrThread(t) /\ ~BrSend(t) /\ Head(brOut) = a /\ brOut' = <<>> /\ brIn' = brIn
        /\ brOut[1] = a /\ 1 \in DOMAIN brOut
    BY <1>10, <2>1, One DEF BrThread, BrReceive, BrSend
  <2>3. /\ \A r \in Requests : ~InExchange(r)'
        /\ WasDone(a.id) <=> a.result = "ok"
    BY <1>1, <1>10, <2>2, OneThread DEF Fates
  <2>4. \/ BrTell(t, "failed")
        \/ BrTell(t, a.result) /\ a.id = c
    BY <1>10, <2>1, <2>2 DEF BrReceive, BrAnswerOf
  <2> QED
    BY <1>3, <1>5, <2>2, <2>3, <2>4
<1>11. CASE BrGiveUp(t)
  <2>1. BrThread(t) /\ ~BrSend(t) /\ UNCHANGED <<brIn, brOut>> /\ BrTell(t, "failed")
    BY <1>11 DEF BrThread, BrGiveUp, BrSend
  <2> QED
    BY <1>5, <2>1
<1> QED
  BY <1>4, <1>7, <1>8, <1>9, <1>10, <1>11 DEF BrThread

LEMMA FatesServer ==
  ASSUME BrokerInv, BrServe \/ BrDrop \/ BrLeave \/ BrKilled \/ \E r \in Requests : BrChildEnds(r)
  PROVE  Fates'
<1>1. /\ TypesOK /\ OneRequest /\ OfHolder /\ Fates
      /\ UNCHANGED <<brOp, brCaller, brAt, brTold>>
      /\ \A r \in Requests : InExchange(r)' => InExchange(r)
  BY OneServer DEF BrokerInv, BrServe, BrWake, BrBegin, BrSpawn, BrHelperDone, BrReply, BrDrop, BrLeave,
       BrKilled, BrChildEnds, brCallerVars
<1>2. \A r : Asked(r)' <=> Asked(r)
  BY <1>1 DEF Asked
<1>3. \A u \in Threads : brAt[u] \in {"queue", "check", "send"} => brCaller[u] \in Requests
  BY DEF BrokerInv, Callers, Asked, TypesOK, Requests
<1>4. ASSUME brDone' = brDone,
             \A i \in DOMAIN brIn' : ~WasDone(brIn'[i]),
             brCurrent' # Idle => (WasDone(brCurrent'.id) <=> brCurrent'.result = "ok"),
             \A i \in DOMAIN brOut' : WasDone(brOut'[i].id) <=> brOut'[i].result = "ok"
      PROVE  Fates'
  <2>1. \A r : WasDone(r)' <=> WasDone(r)
    BY <1>4 DEF WasDone
  <2> QED
    BY <1>1, <1>2, <1>3, <1>4, <2>1 DEF Fates
<1>5. CASE BrWake
  <2>1. CASE ~brByte /\ brIn # <<>>
    <3>1. PICK q \in Requests : brIn = <<q>> /\ brOut = <<>>
      BY <1>1, <2>1, Places
    <3>2. /\ brCurrent' = [id |-> q, result |-> "none"] /\ brIn' = <<>> /\ brOut' = <<>>
          /\ brDone' = brDone /\ ~WasDone(q)
      BY <1>1, <1>5, <2>1, <3>1, One DEF BrWake, Fates
    <3> QED
      BY <1>4, <3>2, One
  <2>2. CASE UNCHANGED <<brIn, brOut, brCurrent, brDone>>
    BY <1>1, <1>4, <2>2 DEF Fates
  <2> QED
    BY <1>5, <2>1, <2>2 DEF BrWake
<1>6. CASE BrBegin \/ BrHelperDone
  <2>1. /\ brCurrent # Idle /\ brCurrent.id \in Requests /\ brCurrent.result = "none"
        /\ brCurrent \in [id : Requests, result : {"none", "ok", "refused", "timed_out"}]
        /\ Asked(brCurrent.id)
    BY <1>1, <1>6, Current DEF BrBegin, BrSpawn, BrHelperDone, Serving, OneRequest
  <2>2. brIn = <<>> /\ brOut = <<>> /\ UNCHANGED <<brIn, brOut>>
    BY <1>1, <1>6, <2>1, Places DEF BrBegin, BrSpawn, BrHelperDone
  <2>3. InExchange(brCurrent.id) /\ ~WasDone(brCurrent.id)
    BY <1>1, <2>1 DEF InExchange, Fates
  <2>4. \/ /\ brDone' = brDone
           /\ brCurrent' = brCurrent \/ \E x \in {"refused", "timed_out"} :
                                          brCurrent' = [brCurrent EXCEPT !.result = x]
        \/ brDone' = Append(brDone, brCurrent.id) /\ brCurrent' = [brCurrent EXCEPT !.result = "ok"]
    BY <1>6 DEF BrBegin, BrSpawn, BrHelperDone, BrResult
  <2>5. CASE brDone' = brDone /\ (brCurrent' = brCurrent \/ \E x \in {"refused", "timed_out"} :
                                          brCurrent' = [brCurrent EXCEPT !.result = x])
    <3>1. brCurrent'.id = brCurrent.id /\ brCurrent'.result # "ok"
      BY <2>1, <2>5
    <3> QED
      BY <1>4, <2>2, <2>3, <2>5, <3>1, One
  <2>6. CASE /\ brDone' = Append(brDone, brCurrent.id)
             /\ brCurrent' = [brCurrent EXCEPT !.result = "ok"]
    <3>1. \A r : WasDone(r)' <=> WasDone(r) \/ r = brCurrent.id
      BY <1>1, <2>1, <2>6, DoneMore DEF TypesOK
    <3>2. brCurrent'.id = brCurrent.id /\ brCurrent'.result = "ok"
      BY <2>1, <2>6
    <3>3. /\ (\A i \in DOMAIN brIn : ~WasDone(brIn[i]))'
          /\ (\A i \in DOMAIN brOut : WasDone(brOut[i].id) <=> brOut[i].result = "ok")'
      BY <2>2, One
    <3> QED
      BY <1>1, <1>2, <1>3, <2>1, <2>3, <3>1, <3>2, <3>3 DEF Fates
  <2> QED
    BY <2>4, <2>5, <2>6
<1>7. CASE BrReply
  <2>1. /\ brCurrent # Idle /\ brCurrent \in Answers /\ brOut = <<>> /\ brIn = <<>>
    <3>1. /\ brCurrent \in [id : Requests, result : {"none", "ok", "refused", "timed_out"}]
          /\ brCurrent # Idle /\ brCurrent.result # "none"
      BY <1>1, <1>7, Current DEF BrReply, Serving, OneRequest
    <3> QED
      BY <1>1, <3>1, Places DEF Answers
  <2>2. /\ brCurrent' = Idle /\ brIn' = <<>> /\ brDone' = brDone
        /\ brOut' = <<>> \/ brOut' = <<brCurrent>>
    BY <1>7, <2>1, One DEF BrReply
  <2> QED
    BY <1>1, <1>4, <2>1, <2>2, One DEF Fates
<1>8. CASE BrDrop \/ BrLeave \/ BrKilled \/ \E r \in Requests : BrChildEnds(r)
  <2>1. UNCHANGED <<brIn, brOut, brCurrent, brDone>>
    BY <1>8 DEF BrDrop, BrLeave, BrKilled, BrChildEnds, brServerVars
  <2> QED
    BY <1>1, <1>4, <2>1 DEF Fates
<1> QED
  BY <1>5, <1>6, <1>7, <1>8 DEF BrServe
-----------------------------------------------------------------------------
(* The broker keeps what it owns. *)

LEMMA OwnedStep ==
  ASSUME BrokerInv, [BrokerNext]_brVars
  PROVE  Owned'
<1>1. /\ TypesOK /\ Owned /\ brOp \in Seq(Operations) /\ brDone \in Seq(Requests)
      /\ brRetained \in 0..MaxRequests /\ brProviders \subseteq Requests
  BY DEF BrokerInv, TypesOK
<1>2. ASSUME UNCHANGED <<brOp, brDone>> PROVE LastPublished' = LastPublished
  BY <1>2 DEF LastPublished
<1>3. ASSUME NEW t \in Threads, NEW op \in Operations, BrAsk(t, op) PROVE Owned'
  <2>1. brOp' = Append(brOp, op) /\ UNCHANGED brServerVars /\ UNCHANGED brRuntime
    BY <1>3 DEF BrAsk
  <2>2. \A i \in DOMAIN brDone : brDone[i] \in 1..Len(brOp)
    BY <1>1 DEF BrokerInv, Fates, WasDone, Asked
  <2>3. \A r \in 1..Len(brOp) : brOp'[r] = brOp[r]
    BY <1>1, <2>1
  <2>4. LastPublished' = LastPublished
    <3>1. brDone' = brDone /\ \A i \in DOMAIN brDone : brOp'[brDone[i]] = brOp[brDone[i]]
      BY <2>1, <2>2, <2>3 DEF brServerVars
    <3>2. {i \in DOMAIN brDone' : brOp'[brDone'[i]] = "publish"} =
            {i \in DOMAIN brDone : brOp[brDone[i]] = "publish"}
      BY <3>1
    <3> QED
      BY <3>1, <3>2 DEF LastPublished
  <2> QED
    BY <1>1, <2>1, <2>4 DEF Owned, BrokerEnded, brServerVars
<1>4. ASSUME NEW t \in Threads, BrThread(t) PROVE Owned'
  <2>1. UNCHANGED <<brOp, brServerVars, brRuntime>>
    BY <1>4 DEF BrThread, BrLock, BrCheck, BrSend, BrReceive, BrGiveUp
  <2> QED
    BY <1>1, <1>2, <2>1 DEF Owned, BrokerEnded, brServerVars
<1>5. CASE BrWake
  <2>1. LastPublished' = LastPublished
    BY <1>2, <1>5 DEF BrWake, brCallerVars
  <2> QED
    BY <1>1, <1>5, <2>1
       DEF Owned, BrWake, BrHandOver, BrFail, BrokerEnded, HungUp, RuntimeRuns, TypesOK
<1>6. CASE BrBegin
  <2>1. brServer = "begin" /\ brOp' = brOp /\ brCurrent.id \in Requests
    BY <1>6, Current DEF BrBegin, BrSpawn, brCallerVars, Serving
  <2>2. LastPublished' = LastPublished
    <3>1. CASE brDone' = brDone
      BY <1>2, <2>1, <3>1
    <3>2. CASE brDone' = Append(brDone, brCurrent.id) /\ brOp[brCurrent.id] # "publish"
      BY <1>1, <2>1, <3>2, PublishedMore
    <3> QED
      BY <1>6, <3>1, <3>2 DEF BrBegin, BrSpawn, Detached
  <2>3. /\ brServer' \in {"helper", "reply"} /\ (brHelper' => brHelper \/ brServer' = "helper")
        /\ UNCHANGED <<brRetained, brProviders, brRuntime>>
    BY <1>6 DEF BrBegin, BrSpawn, BrResult
  <2> QED
    BY <1>1, <2>1, <2>2, <2>3 DEF Owned, BrokerEnded
<1>7. CASE BrHelperDone
  <2>1. /\ brServer = "helper" /\ brServer' = "reply" /\ brOp' = brOp /\ ~brHelper'
        /\ brCurrent.id \in Requests /\ brRuntime' = brRuntime
    BY <1>7, Current DEF BrHelperDone, BrResult, brCallerVars, Serving
  <2>2. CASE brDone' = brDone /\ UNCHANGED <<brRetained, brProviders>>
    BY <1>1, <1>2, <2>1, <2>2 DEF Owned, BrokerEnded
  <2>3. CASE brOp[brCurrent.id] = "run" /\ brDone' = Append(brDone, brCurrent.id)
             /\ UNCHANGED <<brRetained, brProviders>>
    <3>1. LastPublished' = LastPublished
      BY <1>1, <2>1, <2>3, PublishedMore
    <3> QED
      BY <1>1, <2>1, <2>3, <3>1 DEF Owned, BrokerEnded
  <2>4. CASE /\ brOp[brCurrent.id] = "publish" /\ brDone' = Append(brDone, brCurrent.id)
             /\ brRetained' = brCurrent.id
             /\ brProviders' = (brProviders \ {brRetained}) \cup {brCurrent.id}
    <3>1. LastPublished' = {brCurrent.id}
      BY <1>1, <2>1, <2>4, PublishedMore
    <3>2. brProviders' = {brCurrent.id} /\ brCurrent.id # 0
      BY <1>1, <2>1, <2>4 DEF Owned, BrokerEnded, Requests
    <3> QED
      BY <1>1, <2>1, <2>4, <3>1, <3>2 DEF Owned, BrokerEnded
  <2> QED
    BY <1>7, <2>2, <2>3, <2>4 DEF BrHelperDone
<1>8. CASE BrReply
  <2>1. LastPublished' = LastPublished
    BY <1>2, <1>8 DEF BrReply, brCallerVars
  <2> QED
    BY <1>1, <1>8, <2>1
       DEF Owned, BrReply, BrHandOver, BrFail, BrokerEnded, HungUp, RuntimeRuns, TypesOK
<1>9. CASE BrDrop \/ BrLeave \/ BrKilled
  <2>1. UNCHANGED <<brOp, brServerVars>>
    BY <1>9 DEF BrDrop, BrLeave, BrKilled, brCallerVars
  <2> QED
    BY <1>1, <1>2, <1>9, <2>1 DEF Owned, BrDrop, BrLeave, BrKilled, BrokerEnded, brServerVars
<1>10. ASSUME NEW r \in Requests, BrChildEnds(r) PROVE Owned'
  BY <1>1, <1>2, <1>10 DEF Owned, BrChildEnds, BrokerEnded, brCallerVars
<1>11. CASE UNCHANGED brVars
  BY <1>1, <1>2, <1>11 DEF Owned, brVars, brCallerVars, brServerVars, BrokerEnded
<1> QED
  BY <1>3, <1>4, <1>5, <1>6, <1>7, <1>8, <1>9, <1>10, <1>11 DEF BrokerNext, BrServe

\* A child is added only by the request that asks for it to be owned.
LEMMA SpawnedStep ==
  ASSUME BrokerInv, [BrokerNext]_brVars
  PROVE  Spawned'
<1>1. TypesOK /\ Spawned /\ brOp \in Seq(Operations)
  BY DEF BrokerInv, TypesOK
<1>2. ASSUME NEW r, Asked(r), brOp[r] = "spawn" PROVE Asked(r)' /\ brOp'[r] = "spawn"
  <2>1. brOp' = brOp \/ \E op \in Operations : brOp' = Append(brOp, op)
    BY DEF BrokerNext, BrThread, BrAsk, BrLock, BrCheck, BrSend, BrReceive, BrGiveUp, BrServe,
         BrWake, BrBegin, BrHelperDone, BrReply, BrDrop, BrLeave, BrKilled, BrChildEnds,
         brVars, brCallerVars
  <2> QED
    BY <1>1, <1>2, <2>1 DEF Asked
<1>3. CASE BrBegin
  <2>1. Asked(brCurrent.id) /\ brOp[brCurrent.id] \in Operations
    BY <1>3, Current DEF BrBegin, Serving
  <2>2. \/ brKids' \subseteq brKids
        \/ brKids' = brKids \cup {brCurrent.id} /\ brOp[brCurrent.id] = "spawn"
    BY <1>3 DEF BrBegin, BrSpawn
  <2> QED
    BY <1>1, <1>2, <2>1, <2>2 DEF Spawned
<1>4. CASE ~BrBegin
  <2>1. brKids' \subseteq brKids
    BY <1>4 DEF BrokerNext, BrThread, BrAsk, BrLock, BrCheck, BrSend, BrReceive, BrGiveUp, BrServe,
         BrWake, BrHelperDone, BrReply, BrDrop, BrLeave, BrKilled, BrChildEnds, brVars, brServerVars
  <2> QED
    BY <1>1, <1>2, <2>1 DEF Spawned
<1> QED
  BY <1>3, <1>4

-----------------------------------------------------------------------------
LEMMA BrokerStart == BrokerInit => BrokerInv
<1> SUFFICES ASSUME BrokerInit PROVE BrokerInv
  OBVIOUS
<1>0. Cardinality({}) = 0 /\ DOMAIN <<>> = {}
  BY FS_EmptySet
<1>1. TypesOK
  <2>1. /\ <<>> \in Seq(Operations) /\ <<>> \in Seq(Requests) /\ <<>> \in Seq(Answers)
        /\ Len(<<>>) = 0 /\ MaxRequests \in Nat /\ Capacity \in Nat /\ 0 \in 0..MaxRequests
    BY BrokerAssumption
  <2>2. /\ brCaller \in [Threads -> 0..MaxRequests]
        /\ brAt \in [Threads -> {"idle", "queue", "check", "send", "receive"}]
        /\ brTold \in [Requests -> Told]
    BY <2>1 DEF BrokerInit, Told
  <2>3. /\ brOp = <<>> /\ brIn = <<>> /\ brOut = <<>> /\ brDone = <<>> /\ brLock = Nobody
        /\ brHealthy = TRUE /\ brHelper = FALSE /\ brByte = FALSE /\ brServer = "poll"
        /\ brCurrent = Idle /\ brRetained = 0 /\ brProviders = {} /\ brKids = {} /\ brRuntime = "up"
    BY DEF BrokerInit
  <2>4. brHealthy \in BOOLEAN /\ brHelper \in BOOLEAN /\ brByte \in BOOLEAN
    BY ONLY <2>3
  <2>5. Len(brOp) <= MaxRequests /\ Cardinality(brKids) <= Capacity
    BY ONLY <1>0, <2>1, <2>3
  <2> QED
    BY ONLY <2>1, <2>2, <2>3, <2>4, <2>5 DEF TypesOK
<1>2. Callers
  BY BrokerAssumption DEF BrokerInit, Callers
<1>3. OneRequest
  BY DEF BrokerInit, OneRequest, Serving
<1>4. \A r \in Requests : ~InExchange(r) /\ ~WasDone(r) /\ brTold[r] = "none"
  BY <1>0 DEF BrokerInit, InExchange, WasDone, Idle, Requests
<1>5. OfHolder /\ Fates
  BY <1>0, <1>4 DEF OfHolder, Fates, BrokerInit
<1>6. LastPublished = {}
  BY <1>0 DEF LastPublished, BrokerInit
<1>7. Owned /\ Spawned
  BY <1>6 DEF Owned, Spawned, BrokerInit, BrokerEnded
<1> QED
  BY <1>1, <1>2, <1>3, <1>5, <1>7 DEF BrokerInv

LEMMA BrokerStep == BrokerInv /\ [BrokerNext]_brVars => BrokerInv'
<1> SUFFICES ASSUME BrokerInv, [BrokerNext]_brVars PROVE BrokerInv'
  OBVIOUS
<1>1. Callers' /\ Owned' /\ Spawned'
  BY CallersStep, OwnedStep, SpawnedStep
<1>2. ASSUME NEW t \in Threads, BrThread(t) \/ \E op \in Operations : BrAsk(t, op)
      PROVE  TypesOK' /\ OneRequest' /\ OfHolder' /\ Fates'
  BY <1>2, TypesThread, OneThread, HolderThread, FatesThread
<1>3. CASE BrServe \/ BrDrop \/ BrLeave \/ BrKilled \/ \E r \in Requests : BrChildEnds(r)
  BY <1>1, <1>3, TypesServer, OneServer, HolderServer, FatesServer DEF BrokerInv
<1>4. CASE UNCHANGED brVars
  <2>1. /\ UNCHANGED <<brOp, brCaller, brAt, brLock, brHealthy, brTold, brIn, brOut, brServer>>
        /\ UNCHANGED <<brCurrent, brHelper, brRetained, brProviders, brKids, brDone, brByte>>
        /\ UNCHANGED brRuntime
    BY <1>4 DEF brVars, brCallerVars, brServerVars
  <2>2. TypesOK'
    BY <2>1 DEF BrokerInv, TypesOK
  <2>3. OneRequest'
    BY <2>1 DEF BrokerInv, OneRequest
  <2>4. /\ \A r : InExchange(r)' <=> InExchange(r)
        /\ \A r : WasDone(r)' <=> WasDone(r)
        /\ \A r : Asked(r)' <=> Asked(r)
    BY <2>1 DEF InExchange, WasDone, Asked
  <2>5. OfHolder' /\ Fates'
    BY <2>1, <2>4 DEF BrokerInv, OfHolder, Fates
  <2> QED
    BY <1>1, <2>2, <2>3, <2>5 DEF BrokerInv
<1> QED
  BY <1>1, <1>2, <1>3, <1>4 DEF BrokerNext, BrokerInv

\* The inductive invariant holds in every behaviour of the runtime and its broker.
THEOREM BrokerInvariant == BrokerSpec => []BrokerInv
BY BrokerStart, BrokerStep, PTL DEF BrokerSpec

\* The variables keep their types; the broker never owns more children than it may.
THEOREM BrokerTypeCorrect == BrokerSpec => []BrokerTypeOK
<1>1. BrokerInv => BrokerTypeOK
  <2> SUFFICES ASSUME TypesOK PROVE BrokerTypeOK
    BY DEF BrokerInv
  <2>1. /\ \A i \in DOMAIN brOp : brOp[i] \in Operations
        /\ \A i \in DOMAIN brIn : brIn[i] \in Requests
        /\ \A i \in DOMAIN brOut : brOut[i].id \in Requests
        /\ \A i \in DOMAIN brDone : brDone[i] \in Requests
    <3>1. /\ brOp \in Seq(Operations) /\ brIn \in Seq(Requests) /\ brOut \in Seq(Answers)
          /\ brDone \in Seq(Requests)
      BY DEF TypesOK
    <3>2. \A S, q : q \in Seq(S) => \A i \in DOMAIN q : q[i] \in S
      OBVIOUS
    <3>3. \A i \in DOMAIN brOut : brOut[i] \in Answers
      BY <3>1, <3>2
    <3> QED
      BY <3>1, <3>2, <3>3 DEF Answers
  <2>2. ToSet(brDone) \subseteq Requests
    BY <2>1 DEF ToSet
  <2> QED
    BY <2>1, <2>2 DEF TypesOK, BrokerTypeOK, Serving
<1> QED
  BY <1>1, BrokerInvariant, PTL

\* A caller is told of its own request and nothing else: what it is told was done was
\* done, what it is told was refused or not sent never is, and no answer meets another
\* request than its own, whatever threads give up and whenever the runtime leaves
\* (ProcessBrokerClient::exchange, lock_exchange).
THEOREM CallersAnswered == BrokerSpec => []BrokerAnswersOwn
<1>1. BrokerInv => BrokerAnswersOwn
  <2> SUFFICES ASSUME BrokerInv PROVE BrokerAnswersOwn
    OBVIOUS
  <2>1. \A r \in Requests :
          /\ r \in ToSet(brDone) <=> WasDone(r)
          /\ (\E i \in DOMAIN brIn : brIn[i] = r) => InExchange(r)
    BY DEF ToSet, WasDone, InExchange
  <2>2. ASSUME NEW t \in Threads, brAt[t] = "receive", brOut # <<>> PROVE BrAnswerOf(t)
    <3>1. PICK a \in Answers : brOut = <<a>>
      BY <2>2, Places DEF BrokerInv
    <3>2. Head(brOut) = a /\ a.id \in Requests /\ InExchange(a.id)
      BY <3>1, One DEF Answers, InExchange
    <3> QED
      BY <2>2, <3>2 DEF BrokerInv, OfHolder, BrAnswerOf
  <2> QED
    BY <2>1, <2>2 DEF BrokerInv, Fates, BrokerAnswersOwn
<1> QED
  BY <1>1, BrokerInvariant, PTL

\* However the runtime and its broker end, the provider of the last successful
\* publication is all that is left of the processes the broker keeps hold of, and a
\* killed runtime leaves none; a process that was started detached is never among them
\* (replace_retained_publication, release_retained_publication, spawn_helper).
THEOREM ProviderStays == BrokerSpec => []BrokerLeaves
<1>1. ASSUME BrokerInv PROVE BrokerLeaves
  <2>1. \A r \in brKids : brOp[r] \notin Detached
    BY <1>1 DEF BrokerInv, Spawned, Detached
  <2> QED
    BY <1>1, <2>1 DEF BrokerInv, Owned, BrokerLeaves, BrokerEnded, Apart
<1>2. BrokerInv => BrokerLeaves
  BY <1>1
<1> QED
  BY <1>2, BrokerInvariant, PTL

===============================================================================
