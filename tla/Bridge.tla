------------------------------- MODULE Bridge -------------------------------
(***************************************************************************)
(* The MQTT command bridge (mqtt-bridge/): how a message becomes an HTTP   *)
(* request to a robot service, an answer on MQTT and, when the service     *)
(* answers with a task, a watcher that reports how the task ended.         *)
(*                                                                         *)
(* The process is multi-threaded: four MQTT handler threads, four HTTP     *)
(* worker threads, one thread per e-stop, one per watched task, and the    *)
(* main thread that runs stop().  Each message has its own program counter *)
(* pc[m], which moves through handler, worker or e-stop code; a pool of n  *)
(* threads is the condition that at most n messages are in its stages      *)
(* (which queued message a free thread takes is left open).  Steps are as  *)
(* long as the code between two accesses to shared state.                  *)
(*                                                                         *)
(* Two messages with the same identifier are a redelivery (QoS 1) or a     *)
(* client's retry.  Commands and service requests use two deduplicators    *)
(* with disjoint identifiers here, so one table stands for both.           *)
(***************************************************************************)
EXTENDS DedupTable, FiniteSets

CONSTANTS Messages,        \* the messages the broker delivers
          Deliveries,      \* the ways they may carry the identifiers
          KindOf,          \* [Ids -> Kinds]
          HandlerThreads,  \* LightMQTTClient._handler_executor
          WorkerThreads,   \* BRIDGE_HTTP_EXECUTOR_MAX_WORKERS
          HttpSlots,       \* _http_semaphore: running and queued requests
          WatcherSlots,    \* MAX_TASK_WATCHERS, a number for each of Deliveries
          EstopSlots,      \* _ESTOP_MAX_CONCURRENT
          EstopAttempts    \* _ESTOP_MAX_RETRIES

Kinds == {"command", "estop", "service"}

ASSUME BridgeAssumption ==
    /\ Deliveries \subseteq [Messages -> Ids]
    /\ KindOf \in [Ids -> Kinds]
    /\ IsFiniteSet(Messages)
    /\ HandlerThreads \in Nat \ {0} /\ WorkerThreads \in Nat \ {0}
    /\ HttpSlots \in Nat \ {0} /\ WatcherSlots \in [Deliveries -> Nat] /\ EstopSlots \in Nat
    /\ EstopAttempts \in Nat \ {0}
    /\ Payloads = {"ack", "error", "final"}

VARIABLES idOf,          \* [Messages -> Ids]: their command_id or request_id
          pc,            \* [Messages -> Stages]
          watch,         \* [Messages -> WatchStages]: the watcher m started
          active,        \* _active_tasks: identifiers of the watched tasks
          slots, watcherSlots, estopSlots,     \* free permits
          attempts,      \* e-stop: attempts made
          lastTry,       \* e-stop: messages whose shutdown_detected is set
          phase,         \* progress of stop()
          joining,       \* the threads stop() is joining
          executed,      \* messages whose request reached the robot service
          answered,      \* messages answered on MQTT (or queued for it)
          alerted        \* e-stops whose failure raised a safety alert

Id(m)   == idOf[m]
Kind(m) == KindOf[idOf[m]]

observed == <<executed, answered, alerted>>
permits  == <<slots, watcherSlots, estopSlots>>
estopVars == <<attempts, lastTry>>
watchVars == <<watch, active>>
stopVars == <<phase, joining>>
vars == <<idOf, pc, inFlight, history, watchVars, permits, estopVars, stopVars, observed>>

HandlerStages == {"looked", "checked", "replaying", "accepted", "rejected",
                  "submitting", "enqueuing"}
WorkerStages  == {"running", "failed", "watching", "registering", "storing",
                  "stored", "finishing", "releasing"}
EstopStages   == {"estop", "estopWait", "estopAcked", "estopStored",
                  "estopGivenUp", "estopFailed", "estopAlert", "estopEnd"}
Stages == {"pending", "queued", "done", "dropped"}
              \cup HandlerStages \cup WorkerStages \cup EstopStages
WatchStages == {"none", "polling", "removing", "releasing", "ended"}

Phases == {"up", "draining", "joiningEstops", "joiningWatchers",
           "closingHttp", "closingMqtt", "stopped"}

TypeOK ==
    /\ DedupTypeOK
    /\ idOf \in [Messages -> Ids]
    /\ pc \in [Messages -> Stages]
    /\ watch \in [Messages -> WatchStages]
    /\ active \subseteq Ids
    /\ slots \in Nat /\ watcherSlots \in Nat /\ estopSlots \in Nat
    /\ attempts \in [Messages -> Nat]
    /\ lastTry \subseteq Messages
    /\ phase \in Phases
    /\ joining \subseteq Messages
    /\ executed \subseteq Messages
    /\ answered \subseteq Messages
    /\ alerted \subseteq Messages

Init ==
    /\ DedupInit
    /\ idOf \in Deliveries
    /\ pc = [m \in Messages |-> "pending"]
    /\ watch = [m \in Messages |-> "none"]
    /\ active = {}
    /\ slots = HttpSlots
    /\ watcherSlots = WatcherSlots[idOf]
    /\ estopSlots = EstopSlots
    /\ attempts = [m \in Messages |-> 0]
    /\ lastTry = {}
    /\ phase = "up"
    /\ joining = {}
    /\ executed = {} /\ answered = {} /\ alerted = {}

Shutdown == phase # "up"
PoolOpen == phase \in {"up", "draining", "joiningEstops", "joiningWatchers"}
MqttUp   == phase \notin {"closingMqtt", "stopped"}

IsCommand(m) == Kind(m) # "service"

InStages(S) == {m \in Messages : pc[m] \in S}

Go(m, from, to) == /\ pc[m] = from
                   /\ pc' = [pc EXCEPT ![m] = to]
                   /\ UNCHANGED idOf

(* publish_command_error and send_response: what is sent does not matter,  *)
(* that m was answered does (module Responses has what happens to it then).*)
Answer(m) == answered' = answered \cup {m}

-----------------------------------------------------------------------------
(* The handler thread: _handle_command_message, _handle_service_message.   *)

HandlerFree == phase # "stopped" /\ Cardinality(InStages(HandlerStages)) < HandlerThreads

(* Refused before the deduplicator is asked: a malformed command, an       *)
(* unknown service, or a write to a service during a safety lockout.  A    *)
(* topic with an empty level (lines 348-349), which names no service to    *)
(* answer for, is ignored by the code and no message here.                 *)
Refuse(m) ==
    /\ HandlerFree
    /\ Go(m, "pending", "done")
    /\ Answer(m)
    /\ UNCHANGED <<dedupVars, watchVars, permits, estopVars, stopVars, executed, alerted>>

(* A message is taken up by looking for the outcome of an earlier one.     *)
Receive(m) ==
    /\ HandlerFree
    /\ Go(m, "pending", IF Get(Id(m)) # Absent THEN "replaying"
                        ELSE IF IsCommand(m) THEN "checked" ELSE "looked")
    /\ UNCHANGED <<dedupVars, watchVars, permits, estopVars, stopVars, observed>>

(* Only the service path also asks was_processed, which sees sentinels.    *)
CheckProcessed(m) ==
    /\ Go(m, "looked", IF WasProcessed(Id(m)) THEN "dropped" ELSE "checked")
    /\ UNCHANGED <<dedupVars, watchVars, permits, estopVars, stopVars, observed>>

Replay(m) ==
    /\ Go(m, "replaying", "done")
    /\ Answer(m)
    /\ UNCHANGED <<dedupVars, watchVars, permits, estopVars, stopVars, executed, alerted>>

(* Mistake: the in-flight set is added to without being asked. *)
AcceptBlindly(m) ==
    /\ Go(m, "checked", "accepted")
    /\ inFlight' = inFlight \cup {Id(m)}
    /\ UNCHANGED <<history, watchVars, permits, estopVars, stopVars, observed>>

Accept(m) ==
    /\ Go(m, "checked", "accepted")
    /\ TryStart(Id(m))
    /\ UNCHANGED <<watchVars, permits, estopVars, stopVars, observed>>

DropDuplicate(m) ==
    /\ Go(m, "checked", "dropped")
    /\ Id(m) \in inFlight
    /\ UNCHANGED <<dedupVars, watchVars, permits, estopVars, stopVars, observed>>

(* A command that fails validation, meets a safety lockout or finds every  *)
(* e-stop permit taken is answered with an error and finished.             *)
RejectCommand(m) ==
    /\ IsCommand(m)
    /\ Go(m, "accepted", "rejected")
    /\ Answer(m)
    /\ UNCHANGED <<dedupVars, watchVars, permits, estopVars, stopVars, executed, alerted>>

FinishRejected(m) ==
    /\ Go(m, "rejected", "done")
    /\ Finish(Id(m))
    /\ UNCHANGED <<watchVars, permits, estopVars, stopVars, observed>>

(* A service request that fails validation is answered and left: nothing   *)
(* on this path calls finish(), so it stays in flight for good.            *)
RejectService(m) ==
    /\ ~IsCommand(m)
    /\ Go(m, "accepted", "done")
    /\ Answer(m)
    /\ UNCHANGED <<dedupVars, watchVars, permits, estopVars, stopVars, executed, alerted>>

-----------------------------------------------------------------------------
(* HttpExecutor.submit, still on the handler thread. *)

Submit(m) ==
    /\ Kind(m) # "estop"
    /\ Go(m, "accepted", IF ~Shutdown THEN "submitting"
                         ELSE IF IsCommand(m) THEN "rejected" ELSE "done")
    /\ UNCHANGED <<dedupVars, watchVars, permits, estopVars, stopVars, observed>>

(* Mistake: a permit is taken that is not there. *)
AcquireSlotBlindly(m) ==
    /\ Go(m, "submitting", "enqueuing")
    /\ slots' = slots - 1
    /\ UNCHANGED <<dedupVars, watchVars, watcherSlots, estopSlots, estopVars, stopVars, observed>>

AcquireSlot(m) ==
    /\ Go(m, "submitting", "enqueuing")
    /\ slots > 0
    /\ slots' = slots - 1
    /\ UNCHANGED <<dedupVars, watchVars, watcherSlots, estopSlots, estopVars, stopVars, observed>>

(* Mistake: the overload is logged only. *)
OverloadedSilently(m) ==
    /\ slots = 0
    /\ Go(m, "submitting", IF IsCommand(m) THEN "rejected" ELSE "done")
    /\ UNCHANGED <<dedupVars, watchVars, permits, estopVars, stopVars, observed>>

Overloaded(m) ==
    /\ slots = 0
    /\ Go(m, "submitting", IF IsCommand(m) THEN "rejected" ELSE "done")
    /\ Answer(m)
    /\ UNCHANGED <<dedupVars, watchVars, permits, estopVars, stopVars, executed, alerted>>

Enqueue(m) ==
    /\ PoolOpen
    /\ Go(m, "enqueuing", "queued")
    /\ UNCHANGED <<dedupVars, watchVars, permits, estopVars, stopVars, observed>>

(* Mistakes: the permit is kept; the submission is tried again and again. *)
PoolRefusesKeepingSlot(m) ==
    /\ ~PoolOpen
    /\ Go(m, "enqueuing", IF IsCommand(m) THEN "rejected" ELSE "done")
    /\ UNCHANGED <<dedupVars, watchVars, permits, estopVars, stopVars, observed>>

PoolRefusesRetrying(m) ==
    /\ ~PoolOpen
    /\ Go(m, "enqueuing", "submitting")
    /\ slots' = slots + 1
    /\ UNCHANGED <<dedupVars, watchVars, watcherSlots, estopSlots, estopVars, stopVars, observed>>

(* The pool was shut down after the check in Submit: RuntimeError. *)
PoolRefuses(m) ==
    /\ ~PoolOpen
    /\ Go(m, "enqueuing", IF IsCommand(m) THEN "rejected" ELSE "done")
    /\ slots' = slots + 1
    /\ UNCHANGED <<dedupVars, watchVars, watcherSlots, estopSlots, estopVars, stopVars, observed>>

-----------------------------------------------------------------------------
(* The worker thread: HttpExecutor._execute. *)

Run(m) ==
    /\ Cardinality(InStages(WorkerStages)) < WorkerThreads
    /\ Go(m, "queued", "running")
    /\ UNCHANGED <<dedupVars, watchVars, permits, estopVars, stopVars, observed>>

(* Mistake: the command is not finished in the finally block. *)
SessionRefusedUnfinished(m) ==
    /\ Shutdown
    /\ Go(m, "running", "releasing")
    /\ UNCHANGED <<dedupVars, watchVars, permits, estopVars, stopVars, observed>>

(* A worker without a session cannot open one during shutdown: the         *)
(* RuntimeError reaches the finally block, past every answer.              *)
SessionRefused(m) ==
    /\ Shutdown
    /\ Go(m, "running", IF IsCommand(m) THEN "finishing" ELSE "releasing")
    /\ UNCHANGED <<dedupVars, watchVars, permits, estopVars, stopVars, observed>>

(* Mistake: a failed request is not reported. *)
RequestFailsSilently(m) ==
    /\ Go(m, "running", "failed")
    /\ executed' \in {executed, executed \cup {m}}
    /\ UNCHANGED <<dedupVars, watchVars, permits, estopVars, stopVars, answered, alerted>>

(* The request failed, before or after it reached the robot service. *)
RequestFails(m) ==
    /\ Go(m, "running", "failed")
    /\ executed' \in {executed, executed \cup {m}}
    /\ Answer(m)
    /\ UNCHANGED <<dedupVars, watchVars, permits, estopVars, stopVars, alerted>>

StoreError(m) ==
    /\ Go(m, "failed", IF IsCommand(m) THEN "finishing" ELSE "stored")
    /\ Store(Id(m), "error")
    /\ UNCHANGED <<watchVars, permits, estopVars, stopVars, observed>>

(* The service answered, with or without a task to watch. *)
Respond(m) ==
    /\ \/ Go(m, "running", "watching")
       \/ Go(m, "running", "storing")
    /\ executed' = executed \cup {m}
    /\ Answer(m)
    /\ UNCHANGED <<dedupVars, watchVars, permits, estopVars, stopVars, alerted>>

AcquireWatcher(m) ==
    /\ Go(m, "watching", "registering")
    /\ watcherSlots > 0
    /\ watcherSlots' = watcherSlots - 1
    /\ UNCHANGED <<dedupVars, watchVars, slots, estopSlots, estopVars, stopVars, observed>>

(* No permit: a failure result is sent and, for a command, stored. *)
WatcherLimit(m) ==
    /\ watcherSlots = 0
    /\ Go(m, "watching", "storing")
    /\ IF IsCommand(m) THEN Store(Id(m), "final") ELSE UNCHANGED dedupVars
    /\ UNCHANGED <<watchVars, permits, estopVars, stopVars, observed>>

(* Mistake: the watcher already running is replaced in the table. *)
RegisterWatcherAgain(m) ==
    /\ Go(m, "registering", "storing")
    /\ active' = active \cup {Id(m)}
    /\ watch' = [watch EXCEPT ![m] = "polling"]
    /\ UNCHANGED <<dedupVars, permits, estopVars, stopVars, observed>>

(* The task is named after the request that started it, so a second        *)
(* execution of a command meets the watcher of the first.                  *)
RegisterWatcher(m) ==
    /\ Go(m, "registering", "storing")
    /\ IF Id(m) \in active
       THEN watcherSlots' = watcherSlots + 1 /\ UNCHANGED watchVars
       ELSE /\ active' = active \cup {Id(m)}
            /\ watch' = [watch EXCEPT ![m] = "polling"]
            /\ UNCHANGED watcherSlots
    /\ UNCHANGED <<dedupVars, slots, estopSlots, estopVars, stopVars, observed>>

StoreAck(m) ==
    /\ Go(m, "storing", IF IsCommand(m) THEN "finishing" ELSE "stored")
    /\ Store(Id(m), "ack")
    /\ UNCHANGED <<watchVars, permits, estopVars, stopVars, observed>>

(* service_dedup.finish for a service, finish_command for a command. *)
FinishExecution(m) ==
    /\ Go(m, IF IsCommand(m) THEN "finishing" ELSE "stored", "releasing")
    /\ Finish(Id(m))
    /\ UNCHANGED <<watchVars, permits, estopVars, stopVars, observed>>

ReleaseSlot(m) ==
    /\ Go(m, "releasing", "done")
    /\ slots' = slots + 1
    /\ UNCHANGED <<dedupVars, watchVars, watcherSlots, estopSlots, estopVars, stopVars, observed>>

-----------------------------------------------------------------------------
(* The watcher thread: TaskWatcher._watcher_loop. *)

GoWatch(m, from, to) == /\ watch[m] = from
                        /\ watch' = [watch EXCEPT ![m] = to]
                        /\ UNCHANGED idOf

(* The task is done, or the watcher's time is up: both store the result of *)
(* a command, report it and end.  Polls that fail or find the task still   *)
(* running change nothing.                                                 *)
WatchEnds(m) ==
    /\ GoWatch(m, "polling", "removing")
    /\ IF IsCommand(m) THEN Store(Id(m), "final") ELSE UNCHANGED dedupVars
    /\ UNCHANGED <<pc, active, permits, estopVars, stopVars, observed>>

WatchInterrupted(m) ==
    /\ Shutdown
    /\ GoWatch(m, "polling", "removing")
    /\ UNCHANGED <<pc, dedupVars, active, permits, estopVars, stopVars, observed>>

RemoveTask(m) ==
    /\ GoWatch(m, "removing", "releasing")
    /\ active' = active \ {Id(m)}
    /\ UNCHANGED <<pc, dedupVars, permits, estopVars, stopVars, observed>>

ReleaseWatcher(m) ==
    /\ GoWatch(m, "releasing", "ended")
    /\ watcherSlots' = watcherSlots + 1
    /\ UNCHANGED <<pc, dedupVars, active, slots, estopSlots, estopVars, stopVars, observed>>

-----------------------------------------------------------------------------
(* The e-stop: handle_estop on the handler thread, then _estop_retry_loop  *)
(* on a thread of its own.                                                 *)

StartEstop(m) ==
    /\ Kind(m) = "estop"
    /\ Go(m, "accepted", "estop")
    /\ estopSlots > 0
    /\ estopSlots' = estopSlots - 1
    /\ UNCHANGED <<dedupVars, watchVars, slots, watcherSlots, estopVars, stopVars, observed>>

(* Any HTTP answer ends the attempts, one that reports a failure too: the  *)
(* service was reached, and what it said is the answer.                    *)
EstopAnswered(m) ==
    /\ Go(m, "estop", "estopAcked")
    /\ executed' = executed \cup {m}
    /\ Answer(m)
    /\ UNCHANGED <<dedupVars, watchVars, permits, estopVars, stopVars, alerted>>

EstopStore(m) ==
    /\ Go(m, "estopAcked", "estopStored")
    /\ Store(Id(m), "ack")
    /\ UNCHANGED <<watchVars, permits, estopVars, stopVars, observed>>

(* Mistake: the thread ends once the command is finished. *)
EstopFinishWithoutAlert(m) ==
    /\ \/ Go(m, "estopStored", "estopEnd")
       \/ Go(m, "estopFailed", "estopEnd")
    /\ Finish(Id(m))
    /\ UNCHANGED <<watchVars, permits, estopVars, stopVars, observed>>

EstopFinish(m) ==
    /\ \/ Go(m, "estopStored", "estopEnd")
       \/ Go(m, "estopFailed", "estopAlert")
    /\ Finish(Id(m))
    /\ UNCHANGED <<watchVars, permits, estopVars, stopVars, observed>>

(* The last attempt, or the one extra attempt after a shutdown, gives up.  *)
EstopFails(m) ==
    /\ attempts' = [attempts EXCEPT ![m] = @ + 1]
    /\ Go(m, "estop", IF attempts'[m] = EstopAttempts \/ m \in lastTry
                      THEN "estopGivenUp" ELSE "estopWait")
    /\ executed' \in {executed, executed \cup {m}}
    /\ UNCHANGED <<dedupVars, watchVars, permits, lastTry, stopVars, answered, alerted>>

(* The backoff is a wait for the shutdown event. *)
EstopWait(m) ==
    /\ Go(m, "estopWait", "estop")
    /\ lastTry' = IF Shutdown THEN lastTry \cup {m} ELSE lastTry
    /\ UNCHANGED <<dedupVars, watchVars, permits, attempts, stopVars, observed>>

EstopGiveUp(m) ==
    /\ Go(m, "estopGivenUp", "estopFailed")
    /\ Answer(m)
    /\ UNCHANGED <<dedupVars, watchVars, permits, estopVars, stopVars, executed, alerted>>

(* _on_estop_failure publishes a safety alert. *)
EstopAlert(m) ==
    /\ Go(m, "estopAlert", "estopEnd")
    /\ alerted' = alerted \cup {m}
    /\ UNCHANGED <<dedupVars, watchVars, permits, estopVars, stopVars, executed, answered>>

ReleaseEstop(m) ==
    /\ Go(m, "estopEnd", "done")
    /\ estopSlots' = estopSlots + 1
    /\ UNCHANGED <<dedupVars, watchVars, slots, watcherSlots, estopVars, stopVars, observed>>

-----------------------------------------------------------------------------
(* The main thread: MqttCommandBridge.stop().  Its joins have time limits  *)
(* longer than what a thread still does once the shutdown event is set, so *)
(* they are modelled as waits for the threads that were there at the time. *)

Advance(from, to, joined) ==
    /\ phase = from /\ phase' = to
    /\ joining' = joined
    /\ UNCHANGED <<idOf, pc, dedupVars, watchVars, permits, estopVars, observed>>

StopBegins == Advance("up", "draining", {})

(* Either nothing is in flight any more or the drain time is over. *)
Drained == Advance("draining", "joiningEstops", InStages(EstopStages))

EstopsJoined ==
    /\ joining \cap InStages(EstopStages) = {}
    /\ Advance("joiningEstops", "joiningWatchers",
               {m \in Messages : watch[m] \in {"polling", "removing"}})

WatchersJoined ==
    /\ \A m \in joining : watch[m] = "ended"
    /\ Advance("joiningWatchers", "closingHttp", {})

(* Mistake: the pool is shut down without waiting. *)
HttpClosedAtOnce == Advance("closingHttp", "closingMqtt", {})

HttpClosed ==
    /\ InStages(WorkerStages \cup {"queued"}) = {}
    /\ Advance("closingHttp", "closingMqtt", {})

MqttClosed ==
    /\ InStages(HandlerStages) = {}
    /\ Advance("closingMqtt", "stopped", {})

StopNext == \/ StopBegins \/ Drained \/ EstopsJoined \/ WatchersJoined
            \/ HttpClosed \/ MqttClosed

-----------------------------------------------------------------------------
(* The history forgets outcomes by age. *)
HistoryForgets(id) ==
    /\ Forget(id)
    /\ UNCHANGED <<idOf, pc, watchVars, permits, estopVars, stopVars, observed>>

HandlerStep(m) ==
    \/ CheckProcessed(m) \/ Replay(m) \/ Accept(m) \/ DropDuplicate(m)
    \/ RejectCommand(m) \/ FinishRejected(m) \/ RejectService(m)
    \/ Submit(m) \/ AcquireSlot(m) \/ Overloaded(m) \/ Enqueue(m) \/ PoolRefuses(m)
    \/ StartEstop(m)

WorkerStep(m) ==
    \/ Run(m) \/ SessionRefused(m) \/ RequestFails(m) \/ StoreError(m)
    \/ Respond(m) \/ AcquireWatcher(m) \/ WatcherLimit(m) \/ RegisterWatcher(m)
    \/ StoreAck(m) \/ FinishExecution(m) \/ ReleaseSlot(m)

WatcherStep(m) ==
    \/ WatchEnds(m) \/ WatchInterrupted(m)
    \/ RemoveTask(m) \/ ReleaseWatcher(m)

EstopStep(m) ==
    \/ EstopAnswered(m) \/ EstopStore(m) \/ EstopFinish(m) \/ EstopFails(m)
    \/ EstopWait(m) \/ EstopGiveUp(m) \/ EstopAlert(m) \/ ReleaseEstop(m)

Next ==
    \/ \E m \in Messages : \/ Refuse(m) \/ Receive(m)
                           \/ HandlerStep(m) \/ WorkerStep(m)
                           \/ WatcherStep(m) \/ EstopStep(m)
    \/ \E id \in Ids : HistoryForgets(id)
    \/ StopNext

(* Handler, watcher and e-stop threads run: none of them waits for more    *)
(* than a lock or a request with a time limit.  Nothing obliges the broker *)
(* to deliver or the operator to stop the bridge; once asked to, stop()    *)
(* runs.  That the HTTP workers run is not assumed: the properties that    *)
(* need it say so.                                                         *)
Fairness ==
    /\ \A m \in Messages : /\ WF_vars(HandlerStep(m))
                           /\ WF_vars(WatcherStep(m))
                           /\ WF_vars(EstopStep(m))
    /\ WF_vars(StopNext /\ Shutdown)

Spec == Init /\ [][Next]_vars /\ Fairness

(* The behaviours in which no outcome ages out of the history. *)
SpecRemembering ==
    Init /\ [][Next /\ \A id \in Ids : WasProcessed(id) => WasProcessed(id)']_vars

WorkersRun == \A m \in Messages : WF_vars(WorkerStep(m))

-----------------------------------------------------------------------------
(* The stages whose code will finish the identifier. *)
OwningStages ==
    {"accepted", "rejected", "submitting", "enqueuing", "queued"}
        \cup (WorkerStages \ {"releasing"})
        \cup (EstopStages \ {"estopAlert", "estopEnd"})

Owner(m) == pc[m] \in OwningStages

(* No two threads process one identifier, and a command is in flight       *)
(* exactly while a handler, worker, queue entry or e-stop thread owns it:  *)
(* every path out of processing finishes the command, and finishes it once.*)
InFlightHasOneOwner ==
    /\ \A m1, m2 \in Messages :
          Owner(m1) /\ Owner(m2) /\ Id(m1) = Id(m2) => m1 = m2
    /\ \A m \in Messages : Owner(m) => Id(m) \in inFlight
    /\ \A id \in inFlight : KindOf[id] # "service" =>
          \E m \in Messages : Owner(m) /\ Id(m) = id

(* Semaphore permits are neither leaked nor returned twice on any path,    *)
(* including the refused pool submission, the watcher already running and  *)
(* the e-stop that gives up.                                               *)
PermitsAccountedFor ==
    /\ slots + Cardinality(InStages(WorkerStages \cup {"enqueuing", "queued"}))
          = HttpSlots
    /\ estopSlots + Cardinality(InStages(EstopStages)) = EstopSlots
    /\ watcherSlots + Cardinality(InStages({"registering"}))
          + Cardinality({m \in Messages : watch[m] \notin {"none", "ended"}})
          = WatcherSlots[idOf]

(* The table of active tasks and the watcher threads agree: a task in the  *)
(* table is watched, by one thread, and a thread that still polls or has   *)
(* yet to remove its task finds it in the table.                           *)
Watches(m) == watch[m] \in {"polling", "removing"}

ActiveTasksAreWatched ==
    /\ active = {Id(m) : m \in {w \in Messages : Watches(w)}}
    /\ \A m1, m2 \in Messages :
          Watches(m1) /\ Watches(m2) /\ Id(m1) = Id(m2) => m1 = m2

(* While the bridge is up, no message it took in ends without an answer.   *)
(* (A duplicate of a command in flight is dropped, not ended.)             *)
NoSilentEnd ==
    \A m \in Messages : pc[m] = "done" /\ m \notin answered => Shutdown

(* stop() disconnects from the broker only when no HTTP request is queued  *)
(* or running, so that the answers of the requests under way still go out: *)
(* the order of steps 6 and 7 that its docstring insists on.               *)
RequestsEndBeforeMqtt ==
    ~MqttUp => InStages(WorkerStages \cup {"queued"}) = {}

(* An accepted e-stop ends with an answer of the robot service or a safety *)
(* alert raised, whatever the HTTP workers do: it does not queue behind    *)
(* them.                                                                   *)
EstopReachesRobotOrAlerts ==
    \A m \in Messages : pc[m] = "estop" ~> m \in executed \cup alerted

(* With workers running, every identifier a message starts is finished.    *)
(* Service requests are left out: see RejectService.                       *)
CommandsFinish ==
    WorkersRun => \A id \in Ids : (id \in inFlight /\ KindOf[id] # "service")
                                      ~> id \notin inFlight

(* A duplicate dropped because its command was in flight gets its answer   *)
(* from the other message, unless the bridge is stopped first.             *)
DroppedDuplicateIsAnswered ==
    WorkersRun => \A m \in Messages :
        pc[m] = "dropped" ~> \/ Shutdown
                             \/ \E o \in answered : Id(o) = Id(m)

(* A stop that began comes to an end. *)
StopTerminates == WorkersRun => (Shutdown ~> phase = "stopped")

-----------------------------------------------------------------------------
(* What the code's documentation says and the code does not do.            *)

(* command_dedup.py:4: the in-flight guard "prevents duplicate execution". *)
ExecutedOnce ==
    \A m1, m2 \in executed : Id(m1) = Id(m2) => m1 = m2
=============================================================================
