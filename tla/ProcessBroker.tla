---------------------------- MODULE ProcessBroker ----------------------------
(***************************************************************************)
(* The process broker: a small process that starts every helper program of  *)
(* the runtime, over one socket that carries one exchange at a time, and    *)
(* that hands the clipboard's provider over when the runtime leaves in an   *)
(* orderly way (src/process_broker/client.rs, server.rs, execution.rs,      *)
(* transport.rs, bootstrap.rs).                                             *)
(*                                                                         *)
(* A request runs a bounded helper ("run"), publishes the clipboard through *)
(* a helper whose background provider stays ("publish"), starts a child the *)
(* broker owns ("spawn"), starts one that is left to itself once it runs    *)
(* ("detach", and "try_spawn" from the callback thread), or kills an owned  *)
(* one ("kill").  A request's number is its request_id and names the        *)
(* process it leaves behind.  A provider whose selection another program    *)
(* replaces, and the end of a detached process, are not modelled.           *)
(***************************************************************************)
EXTENDS Naturals, FiniteSets, Sequences, SequencesExt
CONSTANTS Threads,     \* threads of the runtime that use the broker
          Nobody,      \* nobody holds the exchange lock
          Capacity,    \* MAX_OWNED_CHILDREN
          MaxRequests  \* bound: requests made

ASSUME BrokerAssumption ==
  Nobody \notin Threads /\ Capacity \in Nat \ {0} /\ MaxRequests \in Nat

Requests == 1..MaxRequests
Detached == {"detach", "try_spawn"}   \* HelperLifetime::DetachedAfterExec
Operations == {"run", "publish", "spawn", "kill"} \cup Detached
Idle == [id |-> 0, result |-> "none"]

VARIABLES
  brOp,        \* what each request asks for
  brCaller,    \* the request of each thread, 0 for none
  brAt,        \* where the thread is: "idle", "queue", "check", "send", "receive"
  brLock,      \* exchange_lock
  brHealthy,   \* healthy
  brIn, brOut, \* the socket, towards the broker and back
  brServer,    \* the broker: "poll", "begin", "helper", "reply", "handover", "failed"
  brCurrent,   \* the request it serves and the result it is going to send
  brHelper,    \* the helper of a run or of a publication is alive
  brRetained,  \* retained_publication, 0 for None
  brProviders, \* clipboard providers alive
  brKids,      \* owned children alive
  brByte,      \* the shutdown byte is in its channel
  brRuntime,   \* "up", "dropping" (ProcessBrokerGuard::drop), "gone", "killed"
  brTold,      \* history: what each request's caller was told
  brDone       \* history: the requests that were carried out, in order

brCallerVars == <<brOp, brCaller, brAt, brLock, brHealthy, brTold>>
brServerVars == <<brServer, brCurrent, brHelper, brRetained, brProviders, brKids, brDone>>
brVars == <<brCallerVars, brIn, brOut, brServerVars, brByte, brRuntime>>

BrokerInit ==
  /\ brOp = <<>> /\ brCaller = [t \in Threads |-> 0] /\ brAt = [t \in Threads |-> "idle"]
  /\ brLock = Nobody /\ brHealthy = TRUE /\ brIn = <<>> /\ brOut = <<>>
  /\ brServer = "poll" /\ brCurrent = Idle /\ brHelper = FALSE /\ brRetained = 0
  /\ brProviders = {} /\ brKids = {} /\ brByte = FALSE /\ brRuntime = "up"
  /\ brTold = [r \in Requests |-> "none"] /\ brDone = <<>>

BrokerEnded == brServer \in {"handover", "failed"}
RuntimeRuns == brRuntime \in {"up", "dropping"}

-----------------------------------------------------------------------------
(* The runtime's threads. *)

BrAsk(t, op) ==
  /\ RuntimeRuns /\ brAt[t] = "idle" /\ Len(brOp) < MaxRequests
  /\ brOp' = Append(brOp, op) /\ brCaller' = [brCaller EXCEPT ![t] = Len(brOp) + 1]
  /\ brAt' = [brAt EXCEPT ![t] = "queue"]
  /\ UNCHANGED <<brLock, brHealthy, brTold, brIn, brOut, brServerVars, brByte, brRuntime>>

\* The call returns; whoever holds the exchange lock gives it back.
BrTell(t, result) ==
  /\ brTold' = [brTold EXCEPT ![brCaller[t]] = result]
  /\ brCaller' = [brCaller EXCEPT ![t] = 0] /\ brAt' = [brAt EXCEPT ![t] = "idle"]
  /\ brLock' = IF brLock = t THEN Nobody ELSE brLock

\* lock_exchange: the callback thread does not wait for the lock.
BrLock(t) ==
  /\ RuntimeRuns /\ brAt[t] = "queue"
  /\ \/ /\ brLock = Nobody /\ brLock' = t /\ brAt' = [brAt EXCEPT ![t] = "check"]
        /\ UNCHANGED <<brTold, brCaller>>
     \/ brLock # Nobody /\ brOp[brCaller[t]] = "try_spawn" /\ BrTell(t, "busy")
  /\ UNCHANGED <<brOp, brHealthy, brIn, brOut, brServerVars, brByte, brRuntime>>

\* The transport is looked at under the lock, which the drop of the guard does not
\* take; the request is then sent, or the broker has ended and the send fails.
BrCheck(t) ==
  /\ RuntimeRuns /\ brAt[t] = "check"
  /\ IF brHealthy THEN brAt' = [brAt EXCEPT ![t] = "send"] /\ UNCHANGED <<brTold, brCaller, brLock>>
                  ELSE BrTell(t, "unusable")
  /\ UNCHANGED <<brOp, brHealthy, brIn, brOut, brServerVars, brByte, brRuntime>>
BrSend(t) ==
  /\ RuntimeRuns /\ brAt[t] = "send"
  /\ IF BrokerEnded
     THEN brHealthy' = FALSE /\ BrTell(t, "failed") /\ UNCHANGED brIn
     ELSE /\ brIn' = Append(brIn, brCaller[t]) /\ brAt' = [brAt EXCEPT ![t] = "receive"]
          /\ UNCHANGED <<brHealthy, brTold, brCaller, brLock>>
  /\ UNCHANGED <<brOp, brOut, brServerVars, brByte, brRuntime>>

\* Whatever else than the request's own answer ends the use of the transport: a
\* timeout, the broker's end, the answer of another request.
BrAnswerOf(t) == brOut # <<>> /\ Head(brOut).id = brCaller[t]

BrReceive(t) ==
  /\ RuntimeRuns /\ brAt[t] = "receive" /\ brOut # <<>> /\ brOut' = Tail(brOut)
  /\ IF BrAnswerOf(t) THEN BrTell(t, Head(brOut).result) /\ UNCHANGED brHealthy
                      ELSE BrTell(t, "failed") /\ brHealthy' = FALSE
  /\ UNCHANGED <<brOp, brIn, brServerVars, brByte, brRuntime>>
\* Mutant: a timeout leaves the transport in use.
BrGiveUpOnce(t) ==
  /\ RuntimeRuns /\ brAt[t] = "receive" /\ brOut = <<>>
  /\ BrTell(t, "failed")
  /\ UNCHANGED <<brOp, brHealthy, brIn, brOut, brServerVars, brByte, brRuntime>>

BrGiveUp(t) ==
  /\ RuntimeRuns /\ brAt[t] = "receive" /\ brOut = <<>>
  /\ BrTell(t, "failed") /\ brHealthy' = FALSE
  /\ UNCHANGED <<brOp, brIn, brOut, brServerVars, brByte, brRuntime>>

\* Mutant: the guard waits for a broker it has not told to stop.
BrDropUntold ==
  /\ brRuntime = "up" /\ brRuntime' = "dropping" /\ brHealthy' = FALSE
  /\ UNCHANGED <<brOp, brCaller, brAt, brLock, brTold, brIn, brOut, brServerVars, brByte>>

\* The guard is dropped, possibly under the requests of other threads: the
\* transport is given up, the byte sent, the broker waited for.
BrDrop ==
  /\ brRuntime = "up" /\ brRuntime' = "dropping" /\ brHealthy' = FALSE /\ brByte' = TRUE
  /\ UNCHANGED <<brOp, brCaller, brAt, brLock, brTold, brIn, brOut, brServerVars>>
BrLeave ==
  /\ brRuntime = "dropping" /\ BrokerEnded /\ brRuntime' = "gone"
  /\ UNCHANGED <<brCallerVars, brIn, brOut, brServerVars, brByte>>

\* The runtime is killed; both channels hang up.
BrKilled ==
  /\ brRuntime = "up" /\ brRuntime' = "killed"
  /\ UNCHANGED <<brCallerVars, brIn, brOut, brServerVars, brByte>>

-----------------------------------------------------------------------------
(* The broker. *)

HungUp == ~RuntimeRuns
ShutdownRequested == brByte \/ HungUp

\* Mutant: an orderly shutdown does not release the provider.
BrHandOverNothing ==
  brServer' = "handover" /\ brRetained' = 0 /\ brProviders' = brProviders \ {brRetained}

\* release_retained_publication: the provider is left to the compositor.
\* BrokerOwnership::drop takes what is left.
BrHandOver == brServer' = "handover" /\ brRetained' = 0 /\ UNCHANGED brProviders
BrFail == brServer' = "failed" /\ brRetained' = 0 /\ brProviders' = brProviders \ {brRetained}

\* wait_for_request: the byte first, then a request, then a hang-up.
BrWake ==
  /\ brServer = "poll"
  /\ \/ /\ brByte /\ brByte' = FALSE /\ BrHandOver /\ brKids' = {}
        /\ UNCHANGED <<brIn, brCurrent>>
     \/ /\ ~brByte /\ brIn # <<>> /\ brServer' = "begin" /\ brIn' = Tail(brIn)
        /\ brCurrent' = [id |-> Head(brIn), result |-> "none"]
        /\ UNCHANGED <<brByte, brRetained, brProviders, brKids>>
     \/ /\ ~brByte /\ brIn = <<>> /\ HungUp /\ BrFail /\ brKids' = {}
        /\ UNCHANGED <<brByte, brIn, brCurrent>>
  /\ UNCHANGED <<brCallerVars, brOut, brHelper, brDone, brRuntime>>

BrResult(result) == brServer' = "reply" /\ brCurrent' = [brCurrent EXCEPT !.result = result]

\* Mutant: one child too many.
HasRoomForOneMore == Cardinality(brKids) <= Capacity

\* spawn_helper refuses a child beyond the broker's capacity.
HasRoom == Cardinality(brKids) < Capacity

\* spawn_helper: every process needs room among the owned children, and one that is
\* detached takes none: a thread reaps it, and nothing else of the broker knows it.
BrSpawn(op) ==
  /\ HasRoom /\ BrResult("ok") /\ brDone' = Append(brDone, brCurrent.id)
  /\ brKids' = IF op \in Detached THEN brKids ELSE brKids \cup {brCurrent.id}

\* handle_operation up to the start of a process: a run or a publication has its
\* helper, a spawn and a kill are finished.  Any of them may be refused: for a
\* shutdown, which lets nothing else begin, for want of room, for a program that does
\* not start, and for the handle of a child that has been reaped.
BrBegin ==
  /\ brServer = "begin"
  /\ LET op == brOp[brCurrent.id] IN
     \/ BrResult("refused") /\ UNCHANGED <<brHelper, brKids, brDone>>
     \/ /\ ~ShutdownRequested /\ op \in {"run", "publish"} /\ brHelper' = TRUE
        /\ brServer' = "helper" /\ UNCHANGED <<brKids, brCurrent, brDone>>
     \/ /\ ~ShutdownRequested /\ op \in {"spawn"} \cup Detached /\ BrSpawn(op)
        /\ UNCHANGED brHelper
     \/ /\ ~ShutdownRequested /\ op = "kill" /\ UNCHANGED brHelper
        /\ \E r \in brKids : /\ brKids' = brKids \ {r} /\ brDone' = Append(brDone, brCurrent.id)
                             /\ BrResult("ok")
  /\ UNCHANGED <<brCallerVars, brIn, brOut, brRetained, brProviders, brByte, brRuntime>>

\* run_bounded and publish_bounded: the helper ends, well or not, is killed at
\* its deadline, or is killed because of the shutdown.  A publication that
\* succeeds retains its provider and kills the one before.
BrHelperDone ==
  /\ brServer = "helper" /\ brHelper' = FALSE
  /\ \/ /\ brOp[brCurrent.id] = "publish" /\ BrResult("ok") /\ brDone' = Append(brDone, brCurrent.id)
        /\ brRetained' = brCurrent.id
        /\ brProviders' = (brProviders \ {brRetained}) \cup {brCurrent.id}
     \/ /\ brOp[brCurrent.id] = "run" /\ BrResult("ok") /\ brDone' = Append(brDone, brCurrent.id)
        /\ UNCHANGED <<brRetained, brProviders>>
     \/ BrResult("timed_out") /\ UNCHANGED <<brRetained, brProviders, brDone>>
     \/ ShutdownRequested /\ BrResult("refused") /\ UNCHANGED <<brRetained, brProviders, brDone>>
  /\ UNCHANGED <<brCallerVars, brIn, brOut, brKids, brByte, brRuntime>>

\* The answer, then the byte once more before the next wait.  Nobody to send to
\* ends the broker.
BrReply ==
  /\ brServer = "reply" /\ brCurrent' = Idle
  /\ \/ /\ HungUp /\ BrFail /\ brKids' = {} /\ UNCHANGED <<brOut, brByte>>
     \/ /\ ~HungUp /\ brOut' = Append(brOut, brCurrent)
        /\ IF brByte THEN brByte' = FALSE /\ BrHandOver /\ brKids' = {}
                     ELSE /\ brServer' = "poll"
                          /\ UNCHANGED <<brByte, brRetained, brProviders, brKids>>
  /\ UNCHANGED <<brCallerVars, brIn, brHelper, brDone, brRuntime>>

\* A child ends and is reaped by a query of its owner.
BrChildEnds(r) ==
  /\ r \in brKids /\ brKids' = brKids \ {r}
  /\ UNCHANGED <<brCallerVars, brIn, brOut, brServer, brCurrent, brHelper, brRetained, brProviders,
                 brDone, brByte, brRuntime>>

-----------------------------------------------------------------------------
BrThread(t) == BrLock(t) \/ BrCheck(t) \/ BrSend(t) \/ BrReceive(t) \/ BrGiveUp(t)
BrServe == BrWake \/ BrBegin \/ BrHelperDone \/ BrReply
BrokerNext ==
  \/ BrServe \/ BrDrop \/ BrLeave \/ BrKilled
  \/ \E t \in Threads : BrThread(t) \/ \E op \in Operations : BrAsk(t, op)
  \/ \E r \in Requests : BrChildEnds(r)
BrokerSpec == BrokerInit /\ [][BrokerNext]_brVars

-----------------------------------------------------------------------------
\* Types of the variables.
BrokerTypeOK ==
  /\ Len(brOp) <= MaxRequests /\ \A i \in DOMAIN brOp : brOp[i] \in Operations
  /\ brCaller \in [Threads -> 0..MaxRequests]
  /\ brAt \in [Threads -> {"idle", "queue", "check", "send", "receive"}]
  /\ brLock \in Threads \cup {Nobody} /\ {brHealthy, brHelper, brByte} \subseteq BOOLEAN
  /\ \A i \in DOMAIN brIn : brIn[i] \in Requests
  /\ \A i \in DOMAIN brOut : brOut[i].id \in Requests
  /\ brServer \in {"poll", "begin", "helper", "reply", "handover", "failed"}
  /\ brRetained \in 0..MaxRequests /\ brProviders \subseteq Requests
  /\ brKids \subseteq Requests /\ Cardinality(brKids) <= Capacity
  /\ brRuntime \in {"up", "dropping", "gone", "killed"} /\ ToSet(brDone) \subseteq Requests

\* A caller that is told its request was done had exactly that request done, and
\* one that is told it was not sent or was refused never has it done later.  Only
\* a caller whose exchange broke off does not know.  A late answer never reaches
\* the request after it: no thread is failed by a transport that another thread
\* has already seen fail.  (request_id, healthy, the check under the lock.)
BrokerAnswersOwn ==
  /\ \A r \in Requests :
       /\ brTold[r] = "ok" => r \in ToSet(brDone)
       /\ brTold[r] \in {"busy", "unusable", "refused", "timed_out"} =>
            r \notin ToSet(brDone) /\ \A i \in DOMAIN brIn : brIn[i] # r
  /\ \A t \in Threads : brAt[t] = "receive" /\ brOut # <<>> => BrAnswerOf(t)

\* The last publication that succeeded, if any did.
LastPublished ==
  LET published == {i \in DOMAIN brDone : brOp[brDone[i]] = "publish"}
  IN {brDone[i] : i \in {j \in published : \A k \in published : k <= j}}

\* The processes that were started to be left to themselves.
Apart == {r \in ToSet(brDone) : brOp[r] \in Detached}

\* Of the processes the broker keeps hold of, the clipboard's provider is the only one
\* it leaves behind.  The last successful publication has the one provider that is
\* alive, for as long as the runtime lives, through the shutdown of the runtime and
\* after it, also when requests of other threads are cancelled by that shutdown or the
\* transport had failed before; it goes only with a runtime that was killed.  No
\* bounded helper and no owned child outlives the broker, and no detached process is
\* ever among the children, which are what it kills: those outlive it, as they are meant
\* to (an initial detach, the launchers of the overlay and the tray, a desktop opener).
\* (replace_retained_publication, release_retained_publication, the byte looked at
\* before a request and after an answer, the drop of the broker's ownership, the
\* lifetimes of spawn_helper.)
BrokerLeaves ==
  /\ brServer = "failed" => brRuntime = "killed" /\ brProviders = {}
  /\ brServer # "failed" => brProviders = LastPublished
  /\ BrokerEnded => brKids = {} /\ ~brHelper
  /\ brKids \cap Apart = {}

\* A dropped guard is not held up by a helper, by requests in flight or by a
\* transport that was given up; and every caller gets an answer while the runtime
\* runs.  (The cancellation of helpers, the timeout of the socket.)
BrokerStops ==
  []<>(RuntimeRuns => brRuntime = "up" /\ \A t \in Threads : brCaller[t] = 0)
=============================================================================
