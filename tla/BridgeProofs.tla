---------------------------- MODULE BridgeProofs ----------------------------
(***************************************************************************)
(* Theorems about Bridge, for any number of messages, threads and permits. *)
(***************************************************************************)
EXTENDS Bridge, FiniteSetTheorems, TLAPS

-----------------------------------------------------------------------------
(* Type correctness. *)

(* Every operation of the deduplicator keeps the type of its table. *)
LEMMA DedupTypes ==
  ASSUME DedupTypeOK, NEW id \in Ids, NEW p \in Payloads,
         TryStart(id) \/ Finish(id) \/ Store(id, p) \/ Forget(id)
  PROVE  DedupTypeOK'
<1>1. CASE TryStart(id)
  BY <1>1 DEF DedupTypeOK, TryStart
<1>2. CASE Finish(id)
  BY <1>2 DEF DedupTypeOK, Finish, Outcomes
<1>3. CASE Store(id, p)
  BY <1>3 DEF DedupTypeOK, Store, Without, Outcomes
<1>4. CASE Forget(id)
  BY <1>4 DEF DedupTypeOK, Forget, Outcomes
<1>5. QED
  BY <1>1, <1>2, <1>3, <1>4

LEMMA TypeInit == Init => TypeOK
  BY BridgeAssumption DEF Init, TypeOK, DedupInit, DedupTypeOK, Outcomes, Stages,
     WatchStages, Phases

LEMMA TypeStep == TypeOK /\ [Next]_vars => TypeOK'
<1> SUFFICES ASSUME TypeOK, [Next]_vars PROVE TypeOK'
  OBVIOUS
<1> USE DEF TypeOK, DedupTypeOK, Stages, HandlerStages, WorkerStages, EstopStages,
            WatchStages, Phases, dedupVars, watchVars, permits, estopVars,
            stopVars, observed
<1>1. ASSUME NEW m \in Messages, Refuse(m) \/ Receive(m) PROVE TypeOK'
  BY <1>1 DEF Refuse, Receive, Go, Answer, IsCommand, Kind
<1>2. ASSUME NEW m \in Messages, HandlerStep(m) PROVE TypeOK'
  <2>1. CASE Accept(m) \/ FinishRejected(m)
    BY <2>1, DedupTypes, BridgeAssumption DEF Accept, FinishRejected, Go, Id
  <2>2. CASE CheckProcessed(m) \/ Replay(m) \/ DropDuplicate(m)
    BY <2>2 DEF CheckProcessed, Replay, DropDuplicate, Go, Answer
  <2>3. CASE RejectCommand(m) \/ RejectService(m) \/ Submit(m)
    BY <2>3 DEF RejectCommand, RejectService, Submit, Go, Answer, IsCommand, Kind
  <2>4. CASE AcquireSlot(m) \/ Overloaded(m) \/ Enqueue(m)
    BY <2>4 DEF AcquireSlot, Overloaded, Enqueue, Go, Answer, IsCommand, Kind
  <2>5. CASE PoolRefuses(m) \/ StartEstop(m)
    BY <2>5 DEF PoolRefuses, StartEstop, Go, IsCommand, Kind
  <2>6. QED
    BY <1>2, <2>1, <2>2, <2>3, <2>4, <2>5 DEF HandlerStep
<1>3. ASSUME NEW m \in Messages, WorkerStep(m) PROVE TypeOK'
  <2>1. CASE Run(m) \/ SessionRefused(m) \/ RequestFails(m) \/ Respond(m)
    BY <2>1 DEF Run, SessionRefused, RequestFails, Respond, Go, Answer, IsCommand, Kind
  <2>2. CASE StoreError(m)
    BY <2>2, DedupTypes, BridgeAssumption DEF StoreError, Go, Id, IsCommand, Kind
  <2>3. CASE AcquireWatcher(m) \/ RegisterWatcher(m) \/ ReleaseSlot(m)
    BY <2>3 DEF AcquireWatcher, RegisterWatcher, ReleaseSlot, Go, Id
  <2>4. CASE WatcherLimit(m)
    BY <2>4, DedupTypes, BridgeAssumption DEF WatcherLimit, Go, Id, IsCommand, Kind
  <2>5. CASE StoreAck(m)
    BY <2>5, DedupTypes, BridgeAssumption DEF StoreAck, Go, Id, IsCommand, Kind
  <2>6. CASE FinishExecution(m)
    BY <2>6, DedupTypes, BridgeAssumption DEF FinishExecution, Go, Id, IsCommand, Kind
  <2>7. QED
    BY <1>3, <2>1, <2>2, <2>3, <2>4, <2>5, <2>6 DEF WorkerStep
<1>4. ASSUME NEW m \in Messages, WatcherStep(m) PROVE TypeOK'
  <2>1. CASE WatchEnds(m)
    BY <2>1, DedupTypes, BridgeAssumption DEF WatchEnds, GoWatch, Id, IsCommand, Kind
  <2>2. CASE WatchInterrupted(m) \/ RemoveTask(m) \/ ReleaseWatcher(m)
    BY <2>2 DEF WatchInterrupted, RemoveTask, ReleaseWatcher, GoWatch, Id
  <2>3. QED
    BY <1>4, <2>1, <2>2 DEF WatcherStep
<1>5. ASSUME NEW m \in Messages, EstopStep(m) PROVE TypeOK'
  <2>1. CASE EstopStore(m) \/ EstopFinish(m)
    BY <2>1, DedupTypes, BridgeAssumption DEF EstopStore, EstopFinish, Go, Id
  <2>2. CASE EstopAnswered(m) \/ EstopFails(m) \/ EstopWait(m)
    BY <2>2 DEF EstopAnswered, EstopFails, EstopWait, Go, Answer
  <2>3. CASE EstopGiveUp(m) \/ EstopAlert(m) \/ ReleaseEstop(m)
    BY <2>3 DEF EstopGiveUp, EstopAlert, ReleaseEstop, Go, Answer
  <2>4. QED
    BY <1>5, <2>1, <2>2, <2>3 DEF EstopStep
<1>6. ASSUME NEW id \in Ids, HistoryForgets(id) PROVE TypeOK'
  BY <1>6 DEF HistoryForgets, Forget
<1>7. CASE StopNext
  BY <1>7 DEF StopNext, StopBegins, Drained, EstopsJoined, WatchersJoined,
     HttpClosed, MqttClosed, Advance, InStages
<1>8. CASE UNCHANGED vars
  BY <1>8 DEF vars
<1>9. QED
  BY <1>1, <1>2, <1>3, <1>4, <1>5, <1>6, <1>7, <1>8 DEF Next

(* Every variable of the bridge keeps its type. *)
THEOREM TypeCorrect == Spec => []TypeOK
<1>1. Init => TypeOK
  BY TypeInit
<1>2. TypeOK /\ [Next]_vars => TypeOK'
  BY TypeStep
<1>3. QED
  BY <1>1, <1>2, PTL DEF Spec

-----------------------------------------------------------------------------
(* Ownership of in-flight identifiers.  InFlightHasOneOwner is inductive   *)
(* relative to the types; a step does one of five things to it.            *)

LEMMA OwnersUntouched ==
  ASSUME InFlightHasOneOwner, UNCHANGED <<idOf, pc, inFlight>>
  PROVE  InFlightHasOneOwner'
  BY DEF InFlightHasOneOwner, Owner, Id

(* The message moves on within, or outside, the owning stages. *)
LEMMA OwnerKept ==
  ASSUME TypeOK, InFlightHasOneOwner, NEW m \in Messages, NEW to,
         pc' = [pc EXCEPT ![m] = to], UNCHANGED <<idOf, inFlight>>,
         Owner(m) <=> to \in OwningStages
  PROVE  InFlightHasOneOwner'
<1>1. \A o \in Messages : Owner(o)' <=> Owner(o)
  BY DEF Owner, TypeOK
<1>2. QED
  BY <1>1 DEF InFlightHasOneOwner, Id

(* The message starts its identifier: Accept. *)
LEMMA OwnerAdded ==
  ASSUME TypeOK, InFlightHasOneOwner, NEW m \in Messages, NEW to \in OwningStages,
         pc' = [pc EXCEPT ![m] = to], UNCHANGED idOf, TryStart(Id(m))
  PROVE  InFlightHasOneOwner'
<1>1. \A o \in Messages : Owner(o)' <=> Owner(o) \/ o = m
  BY DEF Owner, TypeOK
<1>2. \A o \in Messages : Owner(o) => Id(o) # Id(m)
  BY DEF InFlightHasOneOwner, TryStart
<1>3. QED
  BY <1>1, <1>2 DEF InFlightHasOneOwner, Id, TryStart

(* The owner finishes its identifier. *)
LEMMA OwnerFinishes ==
  ASSUME TypeOK, InFlightHasOneOwner, NEW m \in Messages, NEW to,
         pc' = [pc EXCEPT ![m] = to], UNCHANGED idOf, Finish(Id(m)),
         Owner(m), to \notin OwningStages
  PROVE  InFlightHasOneOwner'
<1>1. \A o \in Messages : Owner(o)' <=> Owner(o) /\ o # m
  BY DEF Owner, TypeOK
<1>2. \A o \in Messages : Owner(o) /\ o # m => Id(o) # Id(m)
  BY DEF InFlightHasOneOwner
<1>3. QED
  BY <1>1, <1>2 DEF InFlightHasOneOwner, Id, Finish

(* A service request is left in flight. *)
LEMMA ServiceOwnerLeaves ==
  ASSUME TypeOK, InFlightHasOneOwner, NEW m \in Messages, NEW to,
         pc' = [pc EXCEPT ![m] = to], UNCHANGED <<idOf, inFlight>>,
         Kind(m) = "service", to \notin OwningStages
  PROVE  InFlightHasOneOwner'
<1>1. \A o \in Messages : Owner(o)' <=> Owner(o) /\ o # m
  BY DEF Owner, TypeOK
<1>2. QED
  BY <1>1 DEF InFlightHasOneOwner, Id, Kind

LEMMA OwnerStep == TypeOK /\ InFlightHasOneOwner /\ [Next]_vars => InFlightHasOneOwner'
<1> SUFFICES ASSUME TypeOK, InFlightHasOneOwner, [Next]_vars
             PROVE  InFlightHasOneOwner'
  OBVIOUS
<1> USE DEF OwningStages, WorkerStages, EstopStages, dedupVars
<1>1. ASSUME NEW m \in Messages, Refuse(m) \/ Receive(m) PROVE InFlightHasOneOwner'
  BY <1>1, OwnerKept DEF Refuse, Receive, Go, Owner
<1>2. ASSUME NEW m \in Messages, HandlerStep(m) PROVE InFlightHasOneOwner'
  <2>1. CASE CheckProcessed(m) \/ Replay(m) \/ DropDuplicate(m)
    BY <2>1, OwnerKept DEF CheckProcessed, Replay, DropDuplicate, Go, Owner
  <2>2. CASE Accept(m)
    BY <2>2, OwnerAdded DEF Accept, Go
  <2>3. CASE RejectCommand(m) \/ AcquireSlot(m) \/ Enqueue(m) \/ StartEstop(m)
    BY <2>3, OwnerKept DEF RejectCommand, AcquireSlot, Enqueue, StartEstop, Go, Owner
  <2>4. CASE FinishRejected(m)
    BY <2>4, OwnerFinishes DEF FinishRejected, Go, Owner
  <2>5. CASE RejectService(m)
    BY <2>5, ServiceOwnerLeaves DEF RejectService, Go, IsCommand
  <2>6. CASE Submit(m) \/ Overloaded(m) \/ PoolRefuses(m)
    <3>1. CASE IsCommand(m)
      BY <2>6, <3>1, OwnerKept DEF Submit, Overloaded, PoolRefuses, Go, Owner
    <3>2. CASE ~IsCommand(m)
      BY <2>6, <3>2, OwnerKept, ServiceOwnerLeaves
         DEF Submit, Overloaded, PoolRefuses, Go, Owner, IsCommand
    <3>3. QED
      BY <3>1, <3>2
  <2>7. QED
    BY <1>2, <2>1, <2>2, <2>3, <2>4, <2>5, <2>6 DEF HandlerStep
<1>3. ASSUME NEW m \in Messages, WorkerStep(m) PROVE InFlightHasOneOwner'
  <2>1. CASE Run(m) \/ RequestFails(m) \/ Respond(m) \/ AcquireWatcher(m) \/ RegisterWatcher(m)
    BY <2>1, OwnerKept DEF Run, RequestFails, Respond, AcquireWatcher, RegisterWatcher,
       Go, Owner
  <2>2. CASE StoreError(m) \/ WatcherLimit(m) \/ StoreAck(m)
    BY <2>2, OwnerKept DEF StoreError, WatcherLimit, StoreAck, Store, Go, Owner
  <2>3. CASE SessionRefused(m)
    BY <2>3, OwnerKept, ServiceOwnerLeaves DEF SessionRefused, Go, Owner, IsCommand
  <2>4. CASE FinishExecution(m)
    BY <2>4, OwnerFinishes DEF FinishExecution, Go, Owner
  <2>5. CASE ReleaseSlot(m)
    BY <2>5, OwnerKept DEF ReleaseSlot, Go, Owner
  <2>6. QED
    BY <1>3, <2>1, <2>2, <2>3, <2>4, <2>5 DEF WorkerStep
<1>4. ASSUME NEW m \in Messages, WatcherStep(m) PROVE InFlightHasOneOwner'
  BY <1>4, OwnersUntouched DEF WatcherStep, WatchEnds, WatchInterrupted, RemoveTask,
     ReleaseWatcher, GoWatch, Store
<1>5. ASSUME NEW m \in Messages, EstopStep(m) PROVE InFlightHasOneOwner'
  <2>1. CASE EstopAnswered(m) \/ EstopStore(m) \/ EstopFails(m)
    BY <2>1, OwnerKept DEF EstopAnswered, EstopStore, EstopFails, Store, Go, Owner
  <2>2. CASE EstopWait(m) \/ EstopGiveUp(m) \/ EstopAlert(m) \/ ReleaseEstop(m)
    BY <2>2, OwnerKept DEF EstopWait, EstopGiveUp, EstopAlert, ReleaseEstop, Go, Owner
  <2>3. CASE EstopFinish(m)
    BY <2>3, OwnerFinishes DEF EstopFinish, Go, Owner
  <2>4. QED
    BY <1>5, <2>1, <2>2, <2>3 DEF EstopStep
<1>6. ASSUME NEW id \in Ids, HistoryForgets(id) PROVE InFlightHasOneOwner'
  BY <1>6, OwnersUntouched DEF HistoryForgets, Forget
<1>7. CASE StopNext
  BY <1>7, OwnersUntouched DEF StopNext, StopBegins, Drained, EstopsJoined,
     WatchersJoined, HttpClosed, MqttClosed, Advance
<1>8. CASE UNCHANGED vars
  BY <1>8, OwnersUntouched DEF vars
<1>9. QED
  BY <1>1, <1>2, <1>3, <1>4, <1>5, <1>6, <1>7, <1>8 DEF Next

(* No two threads process one identifier, and a command is in flight       *)
(* exactly while something is going to finish it, on every path through    *)
(* the handlers, the HTTP pool and the e-stop threads.                     *)
THEOREM OneOwner == Spec => []InFlightHasOneOwner
<1>1. Init => InFlightHasOneOwner
  BY DEF Init, DedupInit, InFlightHasOneOwner, Owner, OwningStages, WorkerStages, EstopStages
<1>2. TypeOK /\ InFlightHasOneOwner /\ [Next]_vars => InFlightHasOneOwner'
  BY OwnerStep
<1>3. QED
  BY <1>1, <1>2, TypeCorrect, PTL DEF Spec

-----------------------------------------------------------------------------
(* Answers.  Strengthened to the stages on the way to the end: from these  *)
(* on a message was answered, unless the bridge is shutting down.          *)
AnsweredStages ==
    {"rejected", "done", "estopAcked", "estopStored", "estopFailed", "estopAlert",
     "estopEnd"} \cup (WorkerStages \ {"running"})

AnsweredOrShutdown ==
    \A m \in Messages : pc[m] \in AnsweredStages /\ m \notin answered => Shutdown

LEMMA AnsweredStep ==
  TypeOK /\ AnsweredOrShutdown /\ [Next]_vars => AnsweredOrShutdown'
<1> SUFFICES ASSUME TypeOK, AnsweredOrShutdown, [Next]_vars PROVE AnsweredOrShutdown'
  OBVIOUS
<1> USE DEF TypeOK, AnsweredOrShutdown, AnsweredStages, WorkerStages, Shutdown,
            stopVars, observed
<1>1. ASSUME NEW m \in Messages, Refuse(m) \/ Receive(m) PROVE AnsweredOrShutdown'
  BY <1>1 DEF Refuse, Receive, Go, Answer
<1>2. ASSUME NEW m \in Messages, HandlerStep(m) PROVE AnsweredOrShutdown'
  <2>1. CASE CheckProcessed(m) \/ Replay(m) \/ DropDuplicate(m) \/ Accept(m)
    BY <2>1 DEF CheckProcessed, Replay, DropDuplicate, Accept, Go, Answer
  <2>2. CASE RejectCommand(m) \/ FinishRejected(m) \/ RejectService(m)
    BY <2>2 DEF RejectCommand, FinishRejected, RejectService, Go, Answer
  <2>3. CASE Submit(m) \/ AcquireSlot(m) \/ Overloaded(m) \/ Enqueue(m)
    BY <2>3 DEF Submit, AcquireSlot, Overloaded, Enqueue, Go, Answer
  <2>4. CASE PoolRefuses(m) \/ StartEstop(m)
    BY <2>4 DEF PoolRefuses, PoolOpen, StartEstop, Go
  <2>5. QED
    BY <1>2, <2>1, <2>2, <2>3, <2>4 DEF HandlerStep
<1>3. ASSUME NEW m \in Messages, WorkerStep(m) PROVE AnsweredOrShutdown'
  <2>1. CASE Run(m) \/ SessionRefused(m) \/ RequestFails(m) \/ Respond(m)
    BY <2>1 DEF Run, SessionRefused, RequestFails, Respond, Go, Answer
  <2>2. CASE StoreError(m) \/ AcquireWatcher(m) \/ WatcherLimit(m) \/ RegisterWatcher(m)
    BY <2>2 DEF StoreError, AcquireWatcher, WatcherLimit, RegisterWatcher, Go
  <2>3. CASE StoreAck(m) \/ FinishExecution(m) \/ ReleaseSlot(m)
    BY <2>3 DEF StoreAck, FinishExecution, ReleaseSlot, Go
  <2>4. QED
    BY <1>3, <2>1, <2>2, <2>3 DEF WorkerStep
<1>4. ASSUME NEW m \in Messages, WatcherStep(m) PROVE AnsweredOrShutdown'
  BY <1>4 DEF WatcherStep, WatchEnds, WatchInterrupted, RemoveTask, ReleaseWatcher
<1>5. ASSUME NEW m \in Messages, EstopStep(m) PROVE AnsweredOrShutdown'
  <2>1. CASE EstopAnswered(m) \/ EstopStore(m) \/ EstopFinish(m) \/ EstopFails(m)
    BY <2>1 DEF EstopAnswered, EstopStore, EstopFinish, EstopFails, Go, Answer
  <2>2. CASE EstopWait(m) \/ EstopGiveUp(m) \/ EstopAlert(m) \/ ReleaseEstop(m)
    BY <2>2 DEF EstopWait, EstopGiveUp, EstopAlert, ReleaseEstop, Go, Answer
  <2>3. QED
    BY <1>5, <2>1, <2>2 DEF EstopStep
<1>6. ASSUME NEW id \in Ids, HistoryForgets(id) PROVE AnsweredOrShutdown'
  BY <1>6 DEF HistoryForgets
<1>7. CASE StopNext
  BY <1>7 DEF StopNext, StopBegins, Drained, EstopsJoined, WatchersJoined,
     HttpClosed, MqttClosed, Advance
<1>8. CASE UNCHANGED vars
  BY <1>8 DEF vars
<1>9. QED
  BY <1>1, <1>2, <1>3, <1>4, <1>5, <1>6, <1>7, <1>8 DEF Next

(* While the bridge is up, every message that ends was answered. *)
THEOREM Answered == Spec => []NoSilentEnd
<1>1. Init => AnsweredOrShutdown
  BY DEF Init, AnsweredOrShutdown, AnsweredStages, WorkerStages
<1>2. TypeOK /\ AnsweredOrShutdown /\ [Next]_vars => AnsweredOrShutdown'
  BY AnsweredStep
<1>3. AnsweredOrShutdown => NoSilentEnd
  BY DEF AnsweredOrShutdown, AnsweredStages, NoSilentEnd
<1>4. QED
  BY <1>1, <1>2, <1>3, TypeCorrect, PTL DEF Spec

-----------------------------------------------------------------------------
(* The order of stop(). *)

LEMMA RequestsEndStep ==
  TypeOK /\ RequestsEndBeforeMqtt /\ [Next]_vars => RequestsEndBeforeMqtt'
<1> SUFFICES ASSUME TypeOK, RequestsEndBeforeMqtt, [Next]_vars
             PROVE  RequestsEndBeforeMqtt'
  OBVIOUS
<1> USE DEF TypeOK, RequestsEndBeforeMqtt, InStages, WorkerStages, MqttUp, stopVars
<1>1. ASSUME NEW m \in Messages, Refuse(m) \/ Receive(m) PROVE RequestsEndBeforeMqtt'
  BY <1>1 DEF Refuse, Receive, Go
<1>2. ASSUME NEW m \in Messages, HandlerStep(m) PROVE RequestsEndBeforeMqtt'
  <2>1. CASE CheckProcessed(m) \/ Replay(m) \/ DropDuplicate(m) \/ Accept(m)
    BY <2>1 DEF CheckProcessed, Replay, DropDuplicate, Accept, Go
  <2>2. CASE RejectCommand(m) \/ FinishRejected(m) \/ RejectService(m) \/ StartEstop(m)
    BY <2>2 DEF RejectCommand, FinishRejected, RejectService, StartEstop, Go
  <2>3. CASE Submit(m) \/ AcquireSlot(m) \/ Overloaded(m) \/ PoolRefuses(m)
    BY <2>3 DEF Submit, AcquireSlot, Overloaded, PoolRefuses, Go
  <2>4. CASE Enqueue(m)
    BY <2>4 DEF Enqueue, PoolOpen, Go
  <2>5. QED
    BY <1>2, <2>1, <2>2, <2>3, <2>4 DEF HandlerStep
<1>3. ASSUME NEW m \in Messages, WorkerStep(m) PROVE RequestsEndBeforeMqtt'
  <2>1. pc[m] \in WorkerStages \cup {"queued"}
    BY <1>3 DEF WorkerStep, Run, SessionRefused, RequestFails, Respond, StoreError,
       AcquireWatcher, WatcherLimit, RegisterWatcher, StoreAck, FinishExecution,
       ReleaseSlot, Go
  <2>2. UNCHANGED phase
    BY <1>3 DEF WorkerStep, Run, SessionRefused, RequestFails, Respond, StoreError,
       AcquireWatcher, WatcherLimit, RegisterWatcher, StoreAck, FinishExecution,
       ReleaseSlot
  <2>3. QED
    BY <2>1, <2>2
<1>4. ASSUME NEW m \in Messages, WatcherStep(m) PROVE RequestsEndBeforeMqtt'
  BY <1>4 DEF WatcherStep, WatchEnds, WatchInterrupted, RemoveTask, ReleaseWatcher
<1>5. ASSUME NEW m \in Messages, EstopStep(m) PROVE RequestsEndBeforeMqtt'
  BY <1>5 DEF EstopStep, EstopAnswered, EstopStore, EstopFinish, EstopFails, EstopWait,
     EstopGiveUp, EstopAlert, ReleaseEstop, Go
<1>6. ASSUME NEW id \in Ids, HistoryForgets(id) PROVE RequestsEndBeforeMqtt'
  BY <1>6 DEF HistoryForgets
<1>7. CASE StopNext
  BY <1>7 DEF StopNext, StopBegins, Drained, EstopsJoined, WatchersJoined,
     HttpClosed, MqttClosed, Advance
<1>8. CASE UNCHANGED vars
  BY <1>8 DEF vars
<1>9. QED
  BY <1>1, <1>2, <1>3, <1>4, <1>5, <1>6, <1>7, <1>8 DEF Next

(* The broker connection is closed only once no HTTP request is queued or  *)
(* running, and none starts afterwards.                                    *)
THEOREM MqttClosesLast == Spec => []RequestsEndBeforeMqtt
<1>1. Init => RequestsEndBeforeMqtt
  BY DEF Init, RequestsEndBeforeMqtt, MqttUp
<1>2. TypeOK /\ RequestsEndBeforeMqtt /\ [Next]_vars => RequestsEndBeforeMqtt'
  BY RequestsEndStep
<1>3. QED
  BY <1>1, <1>2, TypeCorrect, PTL DEF Spec

-----------------------------------------------------------------------------
(* The table of watched tasks.  ActiveTasksAreWatched is inductive: only   *)
(* RegisterWatcher and RemoveTask change who watches and the table, both   *)
(* in one step.                                                            *)

LEMMA WatchersUntouched ==
  ASSUME ActiveTasksAreWatched, UNCHANGED <<idOf, active>>,
         \A m \in Messages : Watches(m)' <=> Watches(m)
  PROVE  ActiveTasksAreWatched'
  BY DEF ActiveTasksAreWatched, Id

LEMMA WatchersStep ==
  TypeOK /\ ActiveTasksAreWatched /\ [Next]_vars => ActiveTasksAreWatched'
<1> SUFFICES ASSUME TypeOK, ActiveTasksAreWatched, [Next]_vars
             PROVE  ActiveTasksAreWatched'
  OBVIOUS
<1> USE DEF watchVars, Watches
<1>1. ASSUME NEW m \in Messages, Refuse(m) \/ Receive(m) PROVE ActiveTasksAreWatched'
  BY <1>1, WatchersUntouched DEF Refuse, Receive, Go
<1>2. ASSUME NEW m \in Messages, HandlerStep(m) PROVE ActiveTasksAreWatched'
  BY <1>2, WatchersUntouched DEF HandlerStep, CheckProcessed, Replay, Accept, DropDuplicate,
     RejectCommand, FinishRejected, RejectService, Submit, AcquireSlot, Overloaded, Enqueue,
     PoolRefuses, StartEstop, Go
<1>3. ASSUME NEW m \in Messages, WorkerStep(m) PROVE ActiveTasksAreWatched'
  <2>1. CASE RegisterWatcher(m) /\ Id(m) \notin active
    <3>1. \A o \in Messages : Watches(o)' <=> Watches(o) \/ o = m
      BY <2>1 DEF RegisterWatcher, TypeOK
    <3>2. \A o \in Messages : Watches(o) => Id(o) # Id(m)
      BY <2>1 DEF ActiveTasksAreWatched
    <3>3. UNCHANGED idOf /\ active' = active \cup {Id(m)}
      BY <2>1 DEF RegisterWatcher, Go
    <3>4. QED
      BY <3>1, <3>2, <3>3 DEF ActiveTasksAreWatched, Id
  <2>2. CASE RegisterWatcher(m) /\ Id(m) \in active
    BY <2>2, WatchersUntouched DEF RegisterWatcher, Go
  <2>3. CASE ~RegisterWatcher(m)
    BY <1>3, <2>3, WatchersUntouched DEF WorkerStep, Run, SessionRefused, RequestFails,
       StoreError, Respond, AcquireWatcher, WatcherLimit, StoreAck, FinishExecution,
       ReleaseSlot, Go
  <2>4. QED
    BY <2>1, <2>2, <2>3
<1>4. ASSUME NEW m \in Messages, WatcherStep(m) PROVE ActiveTasksAreWatched'
  <2>1. CASE WatchEnds(m) \/ WatchInterrupted(m) \/ ReleaseWatcher(m)
    BY <2>1, WatchersUntouched DEF WatchEnds, WatchInterrupted, ReleaseWatcher, GoWatch, TypeOK
  <2>2. CASE RemoveTask(m)
    <3>1. \A o \in Messages : Watches(o)' <=> Watches(o) /\ o # m
      BY <2>2 DEF RemoveTask, GoWatch, TypeOK
    <3>2. \A o \in Messages : Watches(o) /\ o # m => Id(o) # Id(m)
      BY <2>2 DEF RemoveTask, GoWatch, ActiveTasksAreWatched
    <3>3. UNCHANGED idOf /\ active' = active \ {Id(m)}
      BY <2>2 DEF RemoveTask, GoWatch
    <3>4. QED
      BY <3>1, <3>2, <3>3 DEF ActiveTasksAreWatched, Id
  <2>3. QED
    BY <1>4, <2>1, <2>2 DEF WatcherStep
<1>5. ASSUME NEW m \in Messages, EstopStep(m) PROVE ActiveTasksAreWatched'
  BY <1>5, WatchersUntouched DEF EstopStep, EstopAnswered, EstopStore, EstopFinish,
     EstopFails, EstopWait, EstopGiveUp, EstopAlert, ReleaseEstop, Go
<1>6. ASSUME NEW id \in Ids, HistoryForgets(id) PROVE ActiveTasksAreWatched'
  BY <1>6, WatchersUntouched DEF HistoryForgets
<1>7. CASE StopNext
  BY <1>7, WatchersUntouched DEF StopNext, StopBegins, Drained, EstopsJoined,
     WatchersJoined, HttpClosed, MqttClosed, Advance
<1>8. CASE UNCHANGED vars
  BY <1>8, WatchersUntouched DEF vars
<1>9. QED
  BY <1>1, <1>2, <1>3, <1>4, <1>5, <1>6, <1>7, <1>8 DEF Next

(* Every task in the table is watched by exactly one thread and every      *)
(* thread still watching finds its task there, although the same command   *)
(* may be executed, and its task registered, more than once.               *)
THEOREM TasksWatched == Spec => []ActiveTasksAreWatched
<1>1. Init => ActiveTasksAreWatched
  BY DEF Init, ActiveTasksAreWatched, Watches
<1>2. TypeOK /\ ActiveTasksAreWatched /\ [Next]_vars => ActiveTasksAreWatched'
  BY WatchersStep
<1>3. QED
  BY <1>1, <1>2, TypeCorrect, PTL DEF Spec

-----------------------------------------------------------------------------
(* Permits.  Each semaphore is counted against the messages that hold one  *)
(* of its permits; a step moves one message, so a count changes by one at  *)
(* most.                                                                   *)
HttpStages == WorkerStages \cup {"enqueuing", "queued"}
Watching == {m \in Messages : watch[m] \notin {"none", "ended"}}

HttpHolders  == Cardinality(InStages(HttpStages))
EstopHolders == Cardinality(InStages(EstopStages))
Registering  == Cardinality(InStages({"registering"}))
WatchHolders == Cardinality(Watching)

PermitCounts ==
    /\ slots + HttpHolders = HttpSlots
    /\ estopSlots + EstopHolders = EstopSlots
    /\ watcherSlots + Registering + WatchHolders = WatcherSlots[idOf]

(* A message has a watcher only once it has registered it, so registering  *)
(* never replaces one.                                                     *)
WatchedAfterRegistering ==
    \A m \in Messages : watch[m] # "none" =>
        pc[m] \in {"storing", "stored", "finishing", "releasing", "done"}

LEMMA SameInvariant == PermitsAccountedFor <=> PermitCounts
  BY DEF PermitsAccountedFor, PermitCounts, HttpHolders, EstopHolders, Registering,
     WatchHolders, Watching, HttpStages

(* Adding an element to a set of messages, or removing one, counts one. *)
LEMMA CountOne ==
  ASSUME NEW S \in SUBSET Messages, NEW m \in Messages
  PROVE  /\ Cardinality(S) \in Nat
         /\ m \notin S => Cardinality(S \cup {m}) = Cardinality(S) + 1
         /\ m \in S => Cardinality(S \ {m}) = Cardinality(S) - 1
<1>1. IsFiniteSet(S)
  BY BridgeAssumption, FS_Subset
<1>2. QED
  BY <1>1, FS_CardinalityType, FS_AddElement, FS_RemoveElement

(* How moving a message changes the number of messages in some stages. *)
LEMMA StageCount ==
  ASSUME TypeOK, NEW m \in Messages, NEW from, NEW to, Go(m, from, to), NEW S
  PROVE  /\ Cardinality(InStages(S)) \in Nat
         /\ (from \in S <=> to \in S) =>
                Cardinality(InStages(S)') = Cardinality(InStages(S))
         /\ from \notin S /\ to \in S =>
                Cardinality(InStages(S)') = Cardinality(InStages(S)) + 1
         /\ from \in S /\ to \notin S =>
                Cardinality(InStages(S)') = Cardinality(InStages(S)) - 1
<1>1. InStages(S) \in SUBSET Messages /\ (m \in InStages(S) <=> from \in S)
  BY DEF InStages, Go
<1>2. (from \in S <=> to \in S) => InStages(S)' = InStages(S)
  BY DEF InStages, Go, TypeOK
<1>3. from \notin S /\ to \in S => InStages(S)' = InStages(S) \cup {m}
  BY DEF InStages, Go, TypeOK
<1>4. from \in S /\ to \notin S => InStages(S)' = InStages(S) \ {m}
  BY DEF InStages, Go, TypeOK
<1>5. QED
  BY <1>1, <1>2, <1>3, <1>4, CountOne

(* The same as a difference, for the three sets of stages that matter. *)
Change(from, to, S) == (IF to \in S THEN 1 ELSE 0) - (IF from \in S THEN 1 ELSE 0)

LEMMA HoldersMove ==
  ASSUME TypeOK, NEW m \in Messages, NEW from, NEW to, Go(m, from, to)
  PROVE  /\ HttpHolders \in Nat /\ EstopHolders \in Nat /\ Registering \in Nat
         /\ HttpHolders' = HttpHolders + Change(from, to, HttpStages)
         /\ EstopHolders' = EstopHolders + Change(from, to, EstopStages)
         /\ Registering' = Registering + Change(from, to, {"registering"})
<1>1. HttpHolders \in Nat /\ HttpHolders' = HttpHolders + Change(from, to, HttpStages)
  BY StageCount DEF HttpHolders, Change
<1>2. EstopHolders \in Nat /\ EstopHolders' = EstopHolders + Change(from, to, EstopStages)
  BY StageCount DEF EstopHolders, Change
<1>3. Registering \in Nat /\ Registering' = Registering + Change(from, to, {"registering"})
  BY StageCount DEF Registering, Change
<1>4. QED
  BY <1>1, <1>2, <1>3

LEMMA HoldersStay ==
  ASSUME UNCHANGED pc
  PROVE  UNCHANGED <<HttpHolders, EstopHolders, Registering>>
  BY DEF HttpHolders, EstopHolders, Registering, InStages

SetWatch(m, to) == watch' = [watch EXCEPT ![m] = to]

LEMMA WatchersMove ==
  ASSUME TypeOK, NEW m \in Messages, NEW to, SetWatch(m, to)
  PROVE  /\ WatchHolders \in Nat
         /\ WatchHolders' = WatchHolders
                + (IF to \in {"none", "ended"} THEN 0 ELSE 1)
                - (IF watch[m] \in {"none", "ended"} THEN 0 ELSE 1)
<1>1. Watching \in SUBSET Messages /\ (m \in Watching <=> watch[m] \notin {"none", "ended"})
  BY DEF Watching
<1>2. /\ Cardinality(Watching) \in Nat
      /\ m \notin Watching => Cardinality(Watching \cup {m}) = Cardinality(Watching) + 1
      /\ m \in Watching => Cardinality(Watching \ {m}) = Cardinality(Watching) - 1
  BY <1>1, CountOne
<1>3. /\ m \notin Watching => Cardinality(Watching \ {m}) = Cardinality(Watching)
      /\ m \in Watching => Cardinality(Watching \cup {m}) = Cardinality(Watching)
  <2>1. m \notin Watching => Watching \ {m} = Watching
    OBVIOUS
  <2>2. m \in Watching => Watching \cup {m} = Watching
    OBVIOUS
  <2>3. QED
    BY <2>1, <2>2, Zenon
<1>4. WatchHolders = Cardinality(Watching)
  BY DEF WatchHolders
<1>5. CASE to \in {"none", "ended"}
  <2>1. Watching' = Watching \ {m}
    BY <1>5 DEF SetWatch, Watching, TypeOK
  <2>2. WatchHolders' = Cardinality(Watching \ {m})
    BY <2>1, Zenon DEF WatchHolders
  <2>3. WatchHolders' = Cardinality(Watching) - (IF m \in Watching THEN 1 ELSE 0)
    BY <1>2, <1>3, <2>2
  <2>4. QED
    BY <1>1, <1>2, <1>4, <1>5, <2>3
<1>6. CASE to \notin {"none", "ended"}
  <2>1. Watching' = Watching \cup {m}
    BY <1>6 DEF SetWatch, Watching, TypeOK
  <2>2. WatchHolders' = Cardinality(Watching \cup {m})
    BY <2>1, Zenon DEF WatchHolders
  <2>3. WatchHolders' = Cardinality(Watching) + (IF m \in Watching THEN 0 ELSE 1)
    BY <1>2, <1>3, <2>2
  <2>4. QED
    BY <1>1, <1>2, <1>4, <1>6, <2>3
<1>7. QED
  BY <1>5, <1>6

LEMMA WatchersStay ==
  ASSUME UNCHANGED watch
  PROVE  UNCHANGED WatchHolders
  BY DEF WatchHolders, Watching

LEMMA WatchedAfterStep ==
  TypeOK /\ WatchedAfterRegistering /\ [Next]_vars => WatchedAfterRegistering'
<1> SUFFICES ASSUME TypeOK, WatchedAfterRegistering, [Next]_vars
             PROVE  WatchedAfterRegistering'
  OBVIOUS
<1> USE DEF TypeOK, WatchedAfterRegistering, watchVars
<1>1. ASSUME NEW m \in Messages, Refuse(m) \/ Receive(m) PROVE WatchedAfterRegistering'
  BY <1>1 DEF Refuse, Receive, Go
<1>2. ASSUME NEW m \in Messages, HandlerStep(m) PROVE WatchedAfterRegistering'
  BY <1>2 DEF HandlerStep, CheckProcessed, Replay, Accept, DropDuplicate, RejectCommand,
     FinishRejected, RejectService, Submit, AcquireSlot, Overloaded, Enqueue, PoolRefuses,
     StartEstop, Go
<1>3. ASSUME NEW m \in Messages, WorkerStep(m) PROVE WatchedAfterRegistering'
  <2>1. CASE RegisterWatcher(m)
    BY <2>1 DEF RegisterWatcher, Go
  <2>2. CASE ~RegisterWatcher(m)
    BY <1>3, <2>2 DEF WorkerStep, Run, SessionRefused, RequestFails, StoreError, Respond,
       AcquireWatcher, WatcherLimit, StoreAck, FinishExecution, ReleaseSlot, Go
  <2>3. QED
    BY <2>1, <2>2
<1>4. ASSUME NEW m \in Messages, WatcherStep(m) PROVE WatchedAfterRegistering'
  BY <1>4 DEF WatcherStep, WatchEnds, WatchInterrupted, RemoveTask, ReleaseWatcher, GoWatch
<1>5. ASSUME NEW m \in Messages, EstopStep(m) PROVE WatchedAfterRegistering'
  BY <1>5 DEF EstopStep, EstopAnswered, EstopStore, EstopFinish, EstopFails, EstopWait,
     EstopGiveUp, EstopAlert, ReleaseEstop, Go
<1>6. ASSUME NEW id \in Ids, HistoryForgets(id) PROVE WatchedAfterRegistering'
  BY <1>6 DEF HistoryForgets
<1>7. CASE StopNext
  BY <1>7 DEF StopNext, StopBegins, Drained, EstopsJoined, WatchersJoined, HttpClosed,
     MqttClosed, Advance
<1>8. CASE UNCHANGED vars
  BY <1>8 DEF vars
<1>9. QED
  BY <1>1, <1>2, <1>3, <1>4, <1>5, <1>6, <1>7, <1>8 DEF Next

(* A step that moves neither a message nor a watcher, nor touches a permit. *)
LEMMA PermitsUntouched ==
  ASSUME PermitCounts, UNCHANGED <<idOf, pc, watch, slots, watcherSlots, estopSlots>>
  PROVE  PermitCounts'
  BY HoldersStay, WatchersStay DEF PermitCounts

(* A message moves on, and the permits follow it; no watcher moves. *)
LEMMA PermitsFollow ==
  ASSUME TypeOK, PermitCounts, NEW m \in Messages, NEW from, NEW to, Go(m, from, to),
         UNCHANGED watch,
         slots' = slots - Change(from, to, HttpStages),
         estopSlots' = estopSlots - Change(from, to, EstopStages),
         watcherSlots' = watcherSlots - Change(from, to, {"registering"})
  PROVE  PermitCounts'
<1>1. /\ HttpHolders \in Nat /\ EstopHolders \in Nat /\ Registering \in Nat
      /\ HttpHolders' = HttpHolders + Change(from, to, HttpStages)
      /\ EstopHolders' = EstopHolders + Change(from, to, EstopStages)
      /\ Registering' = Registering + Change(from, to, {"registering"})
  BY HoldersMove
<1>2. WatchHolders \in Nat /\ WatchHolders' = WatchHolders
  <2>1. Watching \in SUBSET Messages
    BY DEF Watching
  <2>2. QED
    BY <2>1, CountOne, WatchersStay DEF WatchHolders
<1>3. slots \in Nat /\ estopSlots \in Nat /\ watcherSlots \in Nat
  BY DEF TypeOK
<1>4. \A S : Change(from, to, S) \in Int
  BY DEF Change
<1>5. QED
  BY <1>1, <1>2, <1>3, <1>4 DEF PermitCounts, Go

LEMMA PermitsStep ==
  TypeOK /\ WatchedAfterRegistering /\ PermitCounts /\ [Next]_vars => PermitCounts'
<1> SUFFICES ASSUME TypeOK, WatchedAfterRegistering, PermitCounts, [Next]_vars
             PROVE  PermitCounts'
  OBVIOUS
<1> USE DEF watchVars, permits, Change, HttpStages, WorkerStages, EstopStages
<1>t. slots \in Nat /\ estopSlots \in Nat /\ watcherSlots \in Nat
  BY DEF TypeOK
<1>1. ASSUME NEW m \in Messages, Refuse(m) \/ Receive(m) PROVE PermitCounts'
  BY <1>1, <1>t, PermitsFollow DEF Refuse, Receive
<1>2. ASSUME NEW m \in Messages, HandlerStep(m) PROVE PermitCounts'
  <2>1. CASE CheckProcessed(m) \/ Replay(m) \/ DropDuplicate(m) \/ Accept(m)
    BY <2>1, <1>t, PermitsFollow DEF CheckProcessed, Replay, DropDuplicate, Accept
  <2>2. CASE RejectCommand(m) \/ FinishRejected(m) \/ RejectService(m)
    BY <2>2, <1>t, PermitsFollow DEF RejectCommand, FinishRejected, RejectService
  <2>3. CASE Submit(m) \/ AcquireSlot(m) \/ Overloaded(m) \/ Enqueue(m)
    BY <2>3, <1>t, PermitsFollow DEF Submit, AcquireSlot, Overloaded, Enqueue
  <2>4. CASE PoolRefuses(m) \/ StartEstop(m)
    BY <2>4, <1>t, PermitsFollow DEF PoolRefuses, StartEstop
  <2>5. QED
    BY <1>2, <2>1, <2>2, <2>3, <2>4 DEF HandlerStep
<1>3. ASSUME NEW m \in Messages, WorkerStep(m) PROVE PermitCounts'
  <2>1. CASE Run(m) \/ SessionRefused(m) \/ RequestFails(m) \/ Respond(m)
    BY <2>1, <1>t, PermitsFollow DEF Run, SessionRefused, RequestFails, Respond
  <2>2. CASE StoreError(m) \/ WatcherLimit(m) \/ StoreAck(m)
    BY <2>2, <1>t, PermitsFollow DEF StoreError, WatcherLimit, StoreAck
  <2>3. CASE AcquireWatcher(m) \/ FinishExecution(m) \/ ReleaseSlot(m)
    BY <2>3, <1>t, PermitsFollow DEF AcquireWatcher, FinishExecution, ReleaseSlot
  <2>4. CASE RegisterWatcher(m) /\ Id(m) \in active
    BY <2>4, <1>t, PermitsFollow DEF RegisterWatcher
  <2>5. CASE RegisterWatcher(m) /\ Id(m) \notin active
    <3>1. /\ Go(m, "registering", "storing")
          /\ UNCHANGED <<idOf, slots, estopSlots, watcherSlots>>
      BY <2>5 DEF RegisterWatcher, Go
    <3>2. SetWatch(m, "polling") /\ watch[m] = "none"
      BY <2>5 DEF RegisterWatcher, Go, SetWatch, WatchedAfterRegistering
    <3>3. WatchHolders \in Nat /\ WatchHolders' = WatchHolders + 1
      BY <3>2, WatchersMove
    <3>4. QED
      BY <3>1, <3>3, <1>t, HoldersMove DEF PermitCounts
  <2>6. QED
    BY <1>3, <2>1, <2>2, <2>3, <2>4, <2>5 DEF WorkerStep
<1>4. ASSUME NEW m \in Messages, WatcherStep(m) PROVE PermitCounts'
  <2>1. UNCHANGED <<idOf, HttpHolders, EstopHolders, Registering, slots, estopSlots>>
    BY <1>4, HoldersStay DEF WatcherStep, WatchEnds, WatchInterrupted, RemoveTask,
       ReleaseWatcher, GoWatch
  <2>2. Registering \in Nat
    <3>1. InStages({"registering"}) \in SUBSET Messages
      BY DEF InStages
    <3>2. QED
      BY <3>1, CountOne DEF Registering
  <2>3. CASE ReleaseWatcher(m)
    <3>1. WatchHolders \in Nat /\ WatchHolders' = WatchHolders - 1
      <4>1. SetWatch(m, "ended") /\ watch[m] = "releasing"
        BY <2>3 DEF ReleaseWatcher, GoWatch, SetWatch
      <4>2. QED
        BY <4>1, WatchersMove
    <3>2. watcherSlots' = watcherSlots + 1
      BY <2>3 DEF ReleaseWatcher
    <3>3. QED
      BY <2>1, <2>2, <3>1, <3>2, <1>t DEF PermitCounts
  <2>4. CASE WatchEnds(m) \/ WatchInterrupted(m) \/ RemoveTask(m)
    <3>1. WatchHolders \in Nat /\ WatchHolders' = WatchHolders
      <4>1. \/ SetWatch(m, "removing") /\ watch[m] = "polling"
            \/ SetWatch(m, "releasing") /\ watch[m] = "removing"
        BY <2>4 DEF WatchEnds, WatchInterrupted, RemoveTask, GoWatch, SetWatch
      <4>2. QED
        BY <4>1, WatchersMove
    <3>2. UNCHANGED watcherSlots
      BY <2>4 DEF WatchEnds, WatchInterrupted, RemoveTask
    <3>3. QED
      BY <2>1, <3>1, <3>2 DEF PermitCounts
  <2>5. QED
    BY <1>4, <2>3, <2>4 DEF WatcherStep
<1>5. ASSUME NEW m \in Messages, EstopStep(m) PROVE PermitCounts'
  <2>1. CASE EstopAnswered(m) \/ EstopStore(m) \/ EstopFinish(m)
    BY <2>1, <1>t, PermitsFollow DEF EstopAnswered, EstopStore, EstopFinish
  <2>2. CASE EstopFails(m) \/ EstopWait(m) \/ EstopGiveUp(m)
    BY <2>2, <1>t, PermitsFollow DEF EstopFails, EstopWait, EstopGiveUp
  <2>3. CASE EstopAlert(m) \/ ReleaseEstop(m)
    BY <2>3, <1>t, PermitsFollow DEF EstopAlert, ReleaseEstop
  <2>4. QED
    BY <1>5, <2>1, <2>2, <2>3 DEF EstopStep
<1>6. ASSUME NEW id \in Ids, HistoryForgets(id) PROVE PermitCounts'
  BY <1>6, PermitsUntouched DEF HistoryForgets
<1>7. CASE StopNext
  BY <1>7, PermitsUntouched DEF StopNext, StopBegins, Drained, EstopsJoined,
     WatchersJoined, HttpClosed, MqttClosed, Advance
<1>8. CASE UNCHANGED vars
  BY <1>8, PermitsUntouched DEF vars
<1>9. QED
  BY <1>1, <1>2, <1>3, <1>4, <1>5, <1>6, <1>7, <1>8 DEF Next

(* No path through the handlers, workers, watchers and e-stop threads      *)
(* leaks a permit or gives one back twice.                                 *)
THEOREM PermitsKept == Spec => []PermitsAccountedFor
<1>1. Init => PermitCounts /\ WatchedAfterRegistering
  <2>1. ASSUME Init
        PROVE  /\ InStages(HttpStages) = {} /\ InStages(EstopStages) = {}
               /\ InStages({"registering"}) = {} /\ Watching = {}
    BY <2>1 DEF Init, InStages, HttpStages, WorkerStages, EstopStages, Watching
  <2>2. ASSUME Init
        PROVE  HttpHolders = 0 /\ EstopHolders = 0 /\ Registering = 0 /\ WatchHolders = 0
    BY <2>1, <2>2, FS_EmptySet, Zenon DEF HttpHolders, EstopHolders, Registering, WatchHolders
  <2>3. QED
    BY <2>2, BridgeAssumption DEF Init, PermitCounts, WatchedAfterRegistering
<1>2. TypeOK /\ WatchedAfterRegistering /\ [Next]_vars => WatchedAfterRegistering'
  BY WatchedAfterStep
<1>3. TypeOK /\ WatchedAfterRegistering /\ PermitCounts /\ [Next]_vars => PermitCounts'
  BY PermitsStep
<1>4. QED
  BY <1>1, <1>2, <1>3, TypeCorrect, SameInvariant, PTL DEF Spec
=============================================================================
