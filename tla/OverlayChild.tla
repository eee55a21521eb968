----------------------------- MODULE OverlayChild -----------------------------
(***************************************************************************)
(* The daemon's ownership of its overlay: the owner's phases, one child     *)
(* process per generation, the readiness and enable records the two         *)
(* exchange, the watchdog in the child, and what a daemon does about the    *)
(* records of the daemon before it (src/daemon/protocol_v2/child.rs,        *)
(* daemon/overlay/, the entry of the child in app/mod.rs).                  *)
(*                                                                         *)
(* The daemon reaches its children only through its process broker, whose   *)
(* own protocol is module ProcessBroker.  Here a request is one step: it is *)
(* answered, or the exchange fails, with or without its effect, and the     *)
(* transport is then never used again.  A generation is a number.           *)
(***************************************************************************)
EXTENDS Naturals, FiniteSets
CONSTANTS MaxGenerations, \* bound: reservations, over all daemons
          MaxDaemons,     \* bound: daemons, one after the other
          Candidates,     \* programs the daemon tries for one overlay
          MaxMishaps      \* bound: crashes, lost exchanges and failing record operations, together

ASSUME OverlayAssumption ==
  MaxGenerations \in Nat /\ MaxDaemons \in Nat /\ Candidates \in Nat \ {0} /\ MaxMishaps \in Nat

Generations == 1..MaxGenerations
Daemons == 1..MaxDaemons
OcRecord == {"ready", "active", "signals", "enabled"}
OcLive == {"forked", "armed", "locked", "active", "ready", "signals"}

VARIABLES
  ocDaemon,  \* number of the current daemon, or of the last one
  ocStep,    \* where the daemon is; "down" when there is none
  ocPhase,   \* phase of the OverlayChildOwner
  ocGen,     \* generation, 0 for None
  ocOwned,   \* generation of the owned child, 0 for None
  ocTries,   \* candidates left
  ocVisible, \* overlay_state is Visible, with overlay_active
  ocHealthy, \* the broker's transport is usable
  ocQuit,    \* the daemon is on its way out
  ocBroker,  \* each daemon's broker: "up" or "gone"
  ocLate,    \* spawn requests the daemon gave up on and the broker has not served
  ocReserved,\* generations reserved so far
  ocParent,  \* the daemon of each generation
  ocChild,   \* what each generation's child is doing: "none", OcLive, "dead"
  ocRecords, \* each generation's records
  ocLock,    \* the child that holds the overlay lock, 0 for none
  ocMishaps

ocOwnerVars == <<ocPhase, ocGen, ocOwned, ocTries, ocVisible>>
ocProcessVars == <<ocBroker, ocLate, ocChild, ocLock>>
ocVars == <<ocDaemon, ocStep, ocOwnerVars, ocHealthy, ocQuit, ocProcessVars, ocReserved, ocParent,
            ocRecords, ocMishaps>>

OverlayInit ==
  /\ ocDaemon = 0 /\ ocStep = "down" /\ ocPhase = "Stopped" /\ ocGen = 0 /\ ocOwned = 0
  /\ ocTries = 0 /\ ocVisible = FALSE /\ ocHealthy = FALSE /\ ocQuit = FALSE
  /\ ocBroker = [d \in Daemons |-> "gone"] /\ ocLate = {} /\ ocReserved = 0
  /\ ocParent = [g \in Generations |-> 0] /\ ocChild = [g \in Generations |-> "none"]
  /\ ocRecords = [g \in Generations |-> {}] /\ ocLock = 0 /\ ocMishaps = 0

Mishap == ocMishaps < MaxMishaps /\ ocMishaps' = ocMishaps + 1
OcAlive(g) == ocChild[g] \in OcLive
DaemonAlive(d) == d = ocDaemon /\ ocStep # "down"

-----------------------------------------------------------------------------
(* Requests to the broker, and what the owner does with the answers. *)

\* The exchange fails: the broker is gone or does not answer, or the transport
\* was given up before.
OcLost ==
  /\ ocHealthy' = FALSE
  /\ \/ (~ocHealthy \/ ocBroker[ocDaemon] = "gone") /\ UNCHANGED ocMishaps
     \/ ocHealthy /\ ocBroker[ocDaemon] = "up" /\ Mishap
OcAnswered == ocHealthy /\ ocBroker[ocDaemon] = "up" /\ UNCHANGED <<ocHealthy, ocMishaps>>

\* A process ends, and its lock with it.
OcEnds(dead) ==
  /\ ocChild' = [g \in Generations |-> IF g \in dead THEN "dead" ELSE ocChild[g]]
  /\ ocLock' = IF ocLock \in dead THEN 0 ELSE ocLock

\* Mutant: the records of the reaped child stay.
OcReapOnly == UNCHANGED ocRecords /\ ocPhase' = "Stopped" /\ ocGen' = 0 /\ ocOwned' = 0

\* clear_generation_records after the child is reaped, and the owner's reset.
OcReap ==
  /\ ocRecords' = [ocRecords EXCEPT ![ocGen] = {}]
  /\ ocPhase' = "Stopped" /\ ocGen' = 0 /\ ocOwned' = 0

\* kill_wait, answered or lost; a lost one may have killed the child all the same.
OcKill(after, failed) ==
  \/ /\ OcAnswered /\ OcEnds({ocOwned}) /\ OcReap /\ ocStep' = after
     /\ UNCHANGED <<ocBroker, ocLate>>
  \/ /\ OcLost /\ ocStep' = failed
     /\ \/ UNCHANGED ocProcessVars
        \/ ocBroker[ocDaemon] = "up" /\ OcEnds({ocOwned}) /\ UNCHANGED <<ocBroker, ocLate>>
     /\ UNCHANGED <<ocRecords, ocPhase, ocGen, ocOwned>>

-----------------------------------------------------------------------------
(* The daemon. *)

\* Mutant: recovery leaves the records of the living alone and goes on.
OcRecoverBoldly ==
  /\ ocStep = "recover"
  /\ ocRecords' = [g \in Generations |-> IF OcAlive(g) THEN ocRecords[g] ELSE {}]
  /\ ocStep' = "top"
  /\ UNCHANGED <<ocDaemon, ocOwnerVars, ocHealthy, ocQuit, ocProcessVars, ocReserved, ocParent,
                 ocMishaps>>

\* recover_stale_child_records: a start is refused while a recorded child of an
\* earlier daemon lives; the records of the dead are removed, of those that the
\* directory happens to list before a living one's when there is one.
OcRecover ==
  /\ ocStep = "recover"
  /\ LET dead == {r \in Generations \X OcRecord : ~OcAlive(r[1]) /\ r[2] \in ocRecords[r[1]]}
         living == \E g \in Generations : OcAlive(g) /\ ocRecords[g] # {}
     IN \E removed \in IF living THEN SUBSET dead ELSE {dead} :
          /\ ocRecords' = [g \in Generations |-> {r \in ocRecords[g] : <<g, r>> \notin removed}]
          /\ ocStep' = IF living THEN "closing" ELSE "top"
  /\ UNCHANGED <<ocDaemon, ocOwnerVars, ocHealthy, ocQuit, ocProcessVars, ocReserved, ocParent,
                 ocMishaps>>

OcStart ==
  /\ ocStep = "down" /\ ocDaemon < MaxDaemons
  /\ ocDaemon' = ocDaemon + 1 /\ ocBroker' = [ocBroker EXCEPT ![ocDaemon + 1] = "up"]
  /\ ocStep' = "recover" /\ ocHealthy' = TRUE /\ ocQuit' = FALSE
  /\ ocPhase' = "Stopped" /\ ocGen' = 0 /\ ocOwned' = 0 /\ ocTries' = 0 /\ ocVisible' = FALSE
  /\ UNCHANGED <<ocLate, ocReserved, ocParent, ocChild, ocRecords, ocLock, ocMishaps>>

\* update_overlay_process_state at the top of the loop.  A failed query ends the
\* daemon.
OcUpdate ==
  /\ ocStep = "top"
  /\ \/ ocOwned = 0 /\ ocStep' = "choose"
        /\ UNCHANGED <<ocRecords, ocPhase, ocGen, ocOwned, ocVisible, ocHealthy, ocQuit, ocMishaps>>
     \/ /\ ocOwned # 0 /\ OcAnswered /\ ocStep' = "choose" /\ UNCHANGED ocQuit
        /\ IF OcAlive(ocOwned)
           THEN UNCHANGED <<ocRecords, ocPhase, ocGen, ocOwned, ocVisible>>
           ELSE OcReap /\ ocVisible' = FALSE
     \/ /\ ocOwned # 0 /\ OcLost /\ ocStep' = "hide" /\ ocQuit' = TRUE
        /\ UNCHANGED <<ocRecords, ocPhase, ocGen, ocOwned, ocVisible>>
  /\ UNCHANGED <<ocDaemon, ocTries, ocProcessVars, ocReserved, ocParent>>

\* Something to do, or a wake with nothing: show, hide or quit.
OcChoose(what) ==
  /\ ocStep = "choose"
  /\ ocStep' = CASE what = "quit" -> "hide"
                 [] what = "wake" -> "top"
                 [] what = "toggle" -> IF ocVisible THEN "hide" ELSE "reserve"
  /\ ocQuit' = (what = "quit")
  /\ ocTries' = Candidates
  /\ UNCHANGED <<ocDaemon, ocPhase, ocGen, ocOwned, ocVisible, ocHealthy, ocProcessVars, ocReserved,
                 ocParent, ocRecords, ocMishaps>>

\* reserve, once per candidate.  An owner that is not stopped fails the whole
\* attempt; so does the end of the generations, in the model only.
OcReserve ==
  /\ ocStep = "reserve"
  /\ IF ocOwned # 0 \/ ocPhase # "Stopped" \/ ocReserved = MaxGenerations
     THEN ocStep' = "top" /\ UNCHANGED <<ocPhase, ocGen, ocReserved, ocParent>>
     ELSE /\ ocReserved' = ocReserved + 1 /\ ocGen' = ocReserved'
          /\ ocParent' = [ocParent EXCEPT ![ocReserved'] = ocDaemon]
          /\ ocPhase' = "Reserved" /\ ocStep' = "spawn"
  /\ UNCHANGED <<ocDaemon, ocOwned, ocTries, ocVisible, ocHealthy, ocQuit, ocProcessVars, ocRecords,
                 ocMishaps>>

\* spawn_with_watchdog and start.  The program may be missing; a request given
\* up on may be served later; and a child whose pidfd cannot be opened is killed
\* at once, the result ignored.
OcSpawn ==
  /\ ocStep = "spawn"
  /\ \/ /\ OcAnswered
        /\ ocChild' = [ocChild EXCEPT ![ocGen] = "forked"]
        /\ ocOwned' = ocGen /\ ocPhase' = "Starting" /\ ocStep' = "wait" /\ UNCHANGED ocLate
     \/ /\ ocHealthy /\ Mishap /\ ocStep' = "abort"           \* no such program
        /\ UNCHANGED <<ocChild, ocOwned, ocPhase, ocLate, ocHealthy>>
     \/ /\ OcLost /\ ocStep' = "abort"
        /\ ocLate' \in {ocLate} \cup {l \in {ocLate \cup {ocGen}} : ocHealthy}
        /\ UNCHANGED <<ocChild, ocOwned, ocPhase>>
     \/ /\ ocHealthy /\ ocBroker[ocDaemon] = "up" /\ Mishap /\ ocStep' = "abort" \* no pidfd
        /\ \/ ocChild' = [ocChild EXCEPT ![ocGen] = "dead"] /\ UNCHANGED ocHealthy
           \/ ocChild' = [ocChild EXCEPT ![ocGen] = "forked"] /\ ocHealthy' = FALSE
        /\ UNCHANGED <<ocOwned, ocPhase, ocLate>>
  /\ UNCHANGED <<ocDaemon, ocGen, ocTries, ocVisible, ocQuit, ocBroker, ocReserved, ocParent,
                 ocRecords, ocLock>>

\* One round of wait_until_ready without a ready record: a child that has ended
\* is reaped, and the deadline kills one that has not.
OcWaitUnready ==
  /\ ocStep = "wait" /\ "ready" \notin ocRecords[ocGen]
  /\ \/ /\ OcAnswered /\ ~OcAlive(ocOwned) /\ OcReap /\ ocStep' = "abort"
        /\ UNCHANGED ocProcessVars
     \/ OcLost /\ ocStep' = "abort" /\ UNCHANGED <<ocRecords, ocPhase, ocGen, ocOwned, ocProcessVars>>
  /\ UNCHANGED <<ocDaemon, ocTries, ocVisible, ocQuit, ocReserved, ocParent>>

\* Mutant: the deadline is not looked at while only the listener's proof is missing.
OcWaitDeadlineUnready ==
  /\ ocStep = "wait" /\ "ready" \notin ocRecords[ocGen]
  /\ OcKill("abort", "abort")
  /\ UNCHANGED <<ocDaemon, ocTries, ocVisible, ocQuit, ocReserved, ocParent>>

\* The deadline, also while only the proof of the signal listener is missing.
OcWaitDeadline ==
  /\ ocStep = "wait" /\ ~({"ready", "signals"} \subseteq ocRecords[ocGen])
  /\ OcKill("abort", "abort")
  /\ UNCHANGED <<ocDaemon, ocTries, ocVisible, ocQuit, ocReserved, ocParent>>

\* Both proofs are there, also those of a child that has ended since: enable it,
\* then remove the two records, then commit.  Each of the three may fail.
OcPublish(step, next, records) ==
  /\ ocStep = step
  /\ \/ ocRecords' = [ocRecords EXCEPT ![ocGen] = records] /\ ocStep' = next /\ UNCHANGED ocMishaps
     \/ Mishap /\ ocStep' = "abort" /\ UNCHANGED ocRecords
OcEnable ==
  /\ ocStep = "wait" /\ {"ready", "signals"} \subseteq ocRecords[ocGen]
  /\ OcPublish("wait", "unready", ocRecords[ocGen] \cup {"enabled"})
  /\ UNCHANGED <<ocDaemon, ocOwnerVars, ocHealthy, ocQuit, ocProcessVars, ocReserved, ocParent>>
OcUnready ==
  /\ OcPublish("unready", "unsignal", ocRecords[ocGen] \ {"ready"})
  /\ UNCHANGED <<ocDaemon, ocOwnerVars, ocHealthy, ocQuit, ocProcessVars, ocReserved, ocParent>>
OcCommit ==
  /\ OcPublish("unsignal", "top", ocRecords[ocGen] \ {"signals"})
  /\ IF ocStep' = "top" THEN ocPhase' = "Ready" /\ ocVisible' = TRUE
                        ELSE UNCHANGED <<ocPhase, ocVisible>>
  /\ UNCHANGED <<ocDaemon, ocGen, ocOwned, ocTries, ocHealthy, ocQuit, ocProcessVars, ocReserved,
                 ocParent>>

\* abort_reservation: the records go before the child is killed, and again after
\* it is reaped; without a child the owner is simply stopped.
OcAbort ==
  /\ ocStep = "abort"
  /\ ocRecords' = IF ocGen = 0 THEN ocRecords ELSE [ocRecords EXCEPT ![ocGen] = {}]
  /\ IF ocOwned = 0
     THEN ocPhase' = "Stopped" /\ ocGen' = 0 /\ ocStep' = "retry"
     ELSE ocStep' = "abortkill" /\ UNCHANGED <<ocPhase, ocGen>>
  /\ UNCHANGED <<ocDaemon, ocOwned, ocTries, ocVisible, ocHealthy, ocQuit, ocProcessVars, ocReserved,
                 ocParent, ocMishaps>>
OcAbortKill ==
  /\ ocStep = "abortkill" /\ OcKill("retry", "retry")
  /\ UNCHANGED <<ocDaemon, ocTries, ocVisible, ocQuit, ocReserved, ocParent>>

\* The next candidate; after the last one the reservation is aborted once more.
OcRetry ==
  /\ ocStep = "retry"
  /\ ocTries' = IF ocTries = 0 THEN 0 ELSE ocTries - 1
  /\ ocStep' = IF ocTries > 1 THEN "reserve" ELSE IF ocTries = 1 THEN "abort" ELSE "top"
  /\ UNCHANGED <<ocDaemon, ocPhase, ocGen, ocOwned, ocVisible, ocHealthy, ocQuit, ocProcessVars,
                 ocReserved, ocParent, ocRecords, ocMishaps>>

\* hide_overlay and terminate_overlay_process: SIGTERM, whose delivery is not
\* checked, then exit or the deadline's kill.  A broker that cannot say leaves
\* the overlay visible and owned.
OcAfterHide == IF ocQuit THEN "closing" ELSE "top"
OcHide ==
  /\ ocStep = "hide"
  /\ IF ocVisible /\ ocOwned # 0
     THEN /\ ocPhase' = "StopPending" /\ ocStep' = "stopping" /\ UNCHANGED ocVisible
          /\ OcAnswered \/ OcLost
     ELSE /\ ocVisible' = FALSE /\ ocStep' = OcAfterHide
          /\ UNCHANGED <<ocPhase, ocHealthy, ocMishaps>>
  /\ UNCHANGED <<ocDaemon, ocGen, ocOwned, ocTries, ocQuit, ocProcessVars, ocReserved, ocParent,
                 ocRecords>>
OcStopped ==
  /\ ocStep = "stopping"
  /\ \/ OcAnswered /\ ~OcAlive(ocOwned) /\ OcReap /\ ocVisible' = FALSE
     \/ OcLost /\ UNCHANGED <<ocRecords, ocPhase, ocGen, ocOwned, ocVisible>>
  /\ ocStep' = OcAfterHide
  /\ UNCHANGED <<ocDaemon, ocTries, ocQuit, ocProcessVars, ocReserved, ocParent>>
OcStopDeadline ==
  /\ ocStep = "stopping" /\ OcAlive(ocOwned)
  /\ OcKill(OcAfterHide, OcAfterHide) /\ ocVisible' = (ocOwned' # 0)
  /\ UNCHANGED <<ocDaemon, ocTries, ocQuit, ocReserved, ocParent>>

\* The daemon is gone once its broker is; or it is killed.
OcClose ==
  /\ ocStep = "closing" /\ ocBroker[ocDaemon] = "gone" /\ ocStep' = "down"
  /\ UNCHANGED <<ocDaemon, ocOwnerVars, ocHealthy, ocQuit, ocProcessVars, ocReserved, ocParent,
                 ocRecords, ocMishaps>>
OcCrash ==
  /\ ocStep # "down" /\ Mishap /\ ocStep' = "down"
  /\ UNCHANGED <<ocDaemon, ocOwnerVars, ocHealthy, ocQuit, ocProcessVars, ocReserved, ocParent,
                 ocRecords>>

-----------------------------------------------------------------------------
(* The broker and the children. *)

\* The broker of a daemon that closes or has died kills its children and ends.
OcBrokerEnds(d) ==
  /\ ocBroker[d] = "up" /\ (d # ocDaemon \/ ocStep \in {"closing", "down"})
  /\ ocBroker' = [ocBroker EXCEPT ![d] = "gone"]
  /\ OcEnds({g \in Generations : ocParent[g] = d /\ OcAlive(g)})
  /\ ocLate' = {g \in ocLate : ocParent[g] # d}
  /\ UNCHANGED <<ocDaemon, ocStep, ocOwnerVars, ocHealthy, ocQuit, ocReserved, ocParent, ocRecords,
                 ocMishaps>>
\* The broker itself is killed: its children outlive it.
OcBrokerCrash(d) ==
  /\ ocBroker[d] = "up" /\ Mishap
  /\ ocBroker' = [ocBroker EXCEPT ![d] = "gone"]
  /\ ocLate' = {g \in ocLate : ocParent[g] # d}
  /\ UNCHANGED <<ocDaemon, ocStep, ocOwnerVars, ocHealthy, ocQuit, ocReserved, ocParent, ocRecords,
                 ocChild, ocLock>>
OcLateSpawn(g) ==
  /\ g \in ocLate /\ ocLate' = ocLate \ {g} /\ ocChild' = [ocChild EXCEPT ![g] = "forked"]
  /\ UNCHANGED <<ocDaemon, ocStep, ocOwnerVars, ocHealthy, ocQuit, ocBroker, ocReserved, ocParent,
                 ocRecords, ocLock, ocMishaps>>

OcChildUnchanged ==
  UNCHANGED <<ocDaemon, ocStep, ocOwnerVars, ocHealthy, ocQuit, ocBroker, ocLate, ocReserved,
              ocParent, ocMishaps>>

\* The child arms its watchdog, which needs a live daemon.
OcArm(g) ==
  /\ ocChild[g] = "forked"
  /\ ocChild' = [ocChild EXCEPT ![g] = IF DaemonAlive(ocParent[g]) THEN "armed" ELSE "dead"]
  /\ UNCHANGED <<ocLock, ocRecords>> /\ OcChildUnchanged

\* Only one overlay runs: a second one ends.  Then the records, which are created
\* and never replaced; the proof of the listener copies the active record.
OcTakeLock(g) ==
  /\ ocChild[g] = "armed"
  /\ IF ocLock = 0 THEN ocLock' = g /\ ocChild' = [ocChild EXCEPT ![g] = "locked"]
                   ELSE OcEnds({g})
  /\ UNCHANGED ocRecords /\ OcChildUnchanged
OcProve(g, from, record) ==
  /\ ocChild[g] = from
  /\ IF record = "signals" /\ "active" \notin ocRecords[g]
     THEN OcEnds({g}) /\ UNCHANGED ocRecords
     ELSE /\ ocChild' = [ocChild EXCEPT ![g] = record] /\ UNCHANGED ocLock
          /\ ocRecords' = [ocRecords EXCEPT ![g] = @ \cup {record}]
  /\ OcChildUnchanged

\* A child ends by itself, by its signal or by a crash.
OcChildEnds(g) ==
  /\ OcAlive(g) /\ OcEnds({g}) /\ UNCHANGED ocRecords /\ OcChildUnchanged

\* Mutant: the watchdog is armed with the listener, at the end of the start.
OcWatchdogLate(g) ==
  /\ ocChild[g] = "signals" /\ ~DaemonAlive(ocParent[g])
  /\ OcEnds({g}) /\ UNCHANGED ocRecords /\ OcChildUnchanged

\* The watchdog: loss of the daemon stops the child.
OcWatchdog(g) ==
  /\ OcAlive(g) /\ ocChild[g] # "forked" /\ ~DaemonAlive(ocParent[g])
  /\ OcEnds({g}) /\ UNCHANGED ocRecords /\ OcChildUnchanged

-----------------------------------------------------------------------------
OcDaemonStep ==
  OcRecover \/ OcUpdate \/ OcReserve \/ OcSpawn \/ OcWaitUnready \/ OcWaitDeadline \/ OcEnable
  \/ OcUnready \/ OcCommit \/ OcAbort \/ OcAbortKill \/ OcRetry \/ OcHide \/ OcStopped
  \/ OcStopDeadline \/ OcClose
OcChildStep(g) ==
  OcArm(g) \/ OcTakeLock(g) \/ OcProve(g, "locked", "active") \/ OcProve(g, "active", "ready")
  \/ OcProve(g, "ready", "signals")
OverlayNext ==
  \/ OcDaemonStep \/ OcStart \/ OcCrash
  \/ \E what \in {"toggle", "wake", "quit"} : OcChoose(what)
  \/ \E d \in Daemons : OcBrokerEnds(d) \/ OcBrokerCrash(d)
  \/ \E g \in Generations : OcLateSpawn(g) \/ OcChildStep(g) \/ OcChildEnds(g) \/ OcWatchdog(g)
OverlaySpec == OverlayInit /\ [][OverlayNext]_ocVars

-----------------------------------------------------------------------------
\* Types of the variables.
OverlayTypeOK ==
  /\ ocDaemon \in 0..MaxDaemons /\ ocReserved \in 0..MaxGenerations
  /\ ocStep \in {"down", "recover", "top", "choose", "reserve", "spawn", "wait", "unready",
                 "unsignal", "abort", "abortkill", "retry", "hide", "stopping", "closing"}
  /\ ocPhase \in {"Stopped", "Reserved", "Starting", "Ready", "StopPending"}
  /\ ocGen \in 0..MaxGenerations /\ ocOwned \in {0, ocGen} /\ ocTries \in 0..Candidates
  /\ {ocVisible, ocHealthy, ocQuit} \subseteq BOOLEAN
  /\ ocBroker \in [Daemons -> {"up", "gone"}] /\ ocLate \subseteq Generations
  /\ ocParent \in [Generations -> 0..MaxDaemons]
  /\ ocChild \in [Generations -> OcLive \cup {"none", "dead"}]
  /\ ocRecords \in [Generations -> SUBSET OcRecord]
  /\ ocLock \in 0..MaxGenerations /\ ocMishaps \in 0..MaxMishaps

\* The child finds its generation enabled (active_generation_from_environment).
MayClaim(g) == OcAlive(g) /\ {"active", "enabled"} \subseteq ocRecords[g]

\* At most one living overlay can claim actions, over the generations of one
\* daemon and across its crash and the start of the next one; and once a daemon
\* is past its recovery that is the one it owns.  (The enable record written for
\* the owned generation only, the kill before the next reservation, the start
\* that is refused while a recorded child lives.)
OverlayOneActor ==
  LET actors == {g \in Generations : MayClaim(g)} IN
    /\ Cardinality(actors) <= 1
    /\ ocStep \notin {"down", "recover", "closing"} => actors \subseteq {ocOwned}

\* While its broker answers, a daemon back in its loop has no living child and no
\* record but those of the child it owns, it shows the overlay as visible exactly
\* when it owns one, and that child has been enabled.  The records of a child
\* that was aborted while it was publishing are included.  (abort_reservation,
\* which clears before the kill and after the reap; try_wait.)
OverlayTidy ==
  ocStep = "choose" /\ ocHealthy =>
    /\ \A g \in Generations \ {ocOwned} :
         ocParent[g] = ocDaemon => ~OcAlive(g) /\ ocRecords[g] = {}
    /\ ocVisible <=> ocOwned # 0
    /\ ocOwned # 0 => ocPhase = "Ready" /\ ocRecords[ocOwned] = {"active", "enabled"}
    /\ ocOwned = 0 => ocPhase = "Stopped" /\ ocGen = 0

\* No overlay outlives its daemon, however the daemon ended and also when the
\* broker that owned the process is gone.  (The watchdog and its check when it is
\* armed, the broker's end.)
OverlayFollowsDaemon ==
  []<>(\A g \in Generations : OcAlive(g) => DaemonAlive(ocParent[g]))

\* A daemon that begins to show or to hide an overlay comes back to its loop or
\* ends: every wait has its deadline.
OverlayAlwaysReturns ==
  []<>(ocStep \in {"choose", "down"})
=============================================================================
