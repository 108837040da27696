----------------------------- MODULE NavAdapter -----------------------------
(***************************************************************************)
(* The navigation adapter (nav2adapter/): how a navigate command becomes a *)
(* transport on the robot's controller, how the transport is watched until *)
(* it ends, and what a restart finds again.                                *)
(*                                                                         *)
(* The adapter is one asyncio process, so an action is the code between    *)
(* two awaits that leave the process: calls of the controller, and waits.  *)
(* (The locks of StateStore and EventBus are never held across such an     *)
(* await; publishing an event or a status does not yield.)  Concurrent are *)
(* the handlers of HTTP requests, one manager of watchers, one watcher per *)
(* command, the position poller, the writer of the persistence queue and,  *)
(* after a start, the recovery.                                            *)
(*                                                                         *)
(* The controller is outside src/: robot[t] is what it reports of t.  The  *)
(* generation of an entry is left out: two entries of one command always   *)
(* differ in their transport.  Persisted states, results and sessions are  *)
(* left out; writing them rewrites the pair of command and transport.      *)
(***************************************************************************)
EXTENDS Naturals, Sequences, FiniteSets

CONSTANTS Commands,       \* the command ids clients use
          Handlers,       \* navigate requests handled at the same time
          MaxTransports,  \* bound: transports the controller creates
          MaxCrashes,     \* bound: crashes of the adapter
          MaxFaults,      \* bound: writes that fail, files that turn unreadable
          Deletions       \* may others delete transports at the controller?

NoTransport == 0
None == "none"
Transports == 1..MaxTransports

ASSUME NavAssumption ==
    /\ MaxTransports \in Nat \ {0} /\ MaxCrashes \in Nat /\ MaxFaults \in Nat
    /\ Deletions \in BOOLEAN /\ None \notin Commands

(* domain/state_machine.py: "ended" is FINISHED or CANCELED, "failed" is   *)
(* ERROR; "none" and "gone" are transports that do not exist yet or any    *)
(* more.                                                                   *)
PreRun   == {"created", "assigned"}
Active   == {"running"}
Terminal == {"ended", "failed"}
RobotStates == {"none", "gone"} \cup PreRun \cup Active \cup Terminal

HandlerStages == {"idle", "locking", "checking", "scanning", "rechecking", "creating", "starting"}
WatchStages == {"begin", "fetching", "polling", "explaining", "backoff", "done"}

(* What a result event reports: the watcher's result.success or            *)
(* result.canceled, its result.error, or the outcome of a cancel request.  *)
Results == {"ended", "failed", "cancel"}

VARIABLES robot,      \* [Transports -> RobotStates]: the controller
          owner,      \* [Transports -> command it was created for]
          handler,    \* [Handlers -> the state of handle_drive_to_position]
          newest,     \* the handler _laser_cancel_event belongs to
          stopping,   \* transports a handle_cancel is stopping
          registry,   \* _command_registry, in the order of created_at
          watch,      \* _transport_tasks: [Commands -> transport and stage]
          arrived,    \* ForceArrivalSignal: commands whose event is set
          queue,      \* _persistence_queue: <<command, transport>>, where
                      \* NoTransport stands for a delete
          disk,       \* commands in the persistence file
          persisted,  \* what the recovery read from it at the last start
          unchecked,  \* commands the recovery has not checked
          crashes, faults,
          lost,       \* commands whose last write failed, or was in a file
                      \* that turned unreadable
          accepted,   \* transports registered since the last start ...
          recovered,  \* ... by the recovery
          results     \* [Transports -> the results published for it]

ghost   == <<accepted, recovered, results>>
storage == <<disk, persisted, unchecked, crashes, faults, lost>>
navigating == <<handler, newest>>
vars == <<robot, owner, navigating, stopping, registry, watch, arrived,
          queue, storage, ghost>>

NoTask == [transport |-> NoTransport, stage |-> "done"]
IdleHandler == [stage |-> "idle", command |-> None, transport |-> NoTransport,
                replaced |-> FALSE]

TypeOK ==
    /\ robot \in [Transports -> RobotStates]
    /\ owner \in [Transports -> Commands \cup {None}]
    /\ handler \in [Handlers -> [stage : HandlerStages, command : Commands \cup {None},
                                 transport : Transports \cup {NoTransport}, replaced : BOOLEAN]]
    /\ newest \in Handlers \cup {None}
    /\ stopping \subseteq Transports
    /\ registry \in Seq([command : Commands, transport : Transports, ended : BOOLEAN])
    /\ \A i, j \in DOMAIN registry : registry[i].command = registry[j].command => i = j
    /\ watch \in [Commands -> [transport : Transports \cup {NoTransport}, stage : WatchStages]]
    /\ arrived \subseteq Commands
    /\ queue \in Seq(Commands \X (Transports \cup {NoTransport}))
    /\ disk \in [Commands -> Transports \cup {NoTransport}]
    /\ persisted \in [Commands -> Transports \cup {NoTransport}]
    /\ unchecked \subseteq Commands
    /\ crashes \in 0..MaxCrashes /\ faults \in 0..MaxFaults
    /\ lost \subseteq Commands
    /\ recovered \subseteq accepted /\ accepted \subseteq Transports
    /\ results \in [Transports -> Seq(Results)]

Init ==
    /\ robot = [t \in Transports |-> "none"]
    /\ owner = [t \in Transports |-> None]
    /\ handler = [h \in Handlers |-> IdleHandler]
    /\ newest = None
    /\ stopping = {}
    /\ registry = <<>>
    /\ watch = [c \in Commands |-> NoTask]
    /\ arrived = {}
    /\ queue = <<>>
    /\ disk = [c \in Commands |-> NoTransport]
    /\ persisted = disk /\ unchecked = {}
    /\ crashes = 0 /\ faults = 0 /\ lost = {}
    /\ accepted = {} /\ recovered = {}
    /\ results = [t \in Transports |-> <<>>]

-----------------------------------------------------------------------------
(* StateStore.                                                             *)
IsRegistered(c) == \E i \in DOMAIN registry : registry[i].command = c
Place(c) == CHOOSE i \in DOMAIN registry : registry[i].command = c
Entry(c) == registry[Place(c)]
TransportOf(c) == IF IsRegistered(c) THEN Entry(c).transport ELSE NoTransport

(* The command registered last: _current_command_id, also after            *)
(* clear_transport has picked the next one.                                *)
Current == IF registry = <<>> THEN None ELSE registry[Len(registry)].command

Without(c) ==
    IF IsRegistered(c)
    THEN [i \in 1..(Len(registry) - 1) |-> registry[IF i < Place(c) THEN i ELSE i + 1]]
    ELSE registry

(* Mistakes: the old entry stays; every other entry goes. *)
RegisterCommandTwice(c, t) ==
    /\ registry' = Append(registry, [command |-> c, transport |-> t, ended |-> FALSE])
    /\ queue' = Append(queue, <<c, t>>)
    /\ accepted' = accepted \cup {t}
RegisterCommandAlone(c, t) ==
    /\ registry' = <<[command |-> c, transport |-> t, ended |-> FALSE]>>
    /\ queue' = Append(queue, <<c, t>>)
    /\ accepted' = accepted \cup {t}

RegisterCommand(c, t) ==
    /\ registry' = Append(Without(c), [command |-> c, transport |-> t, ended |-> FALSE])
    /\ queue' = Append(queue, <<c, t>>)
    /\ accepted' = accepted \cup {t}

WithState(c, s) ==
    [i \in DOMAIN registry |-> IF registry[i].command = c
                               THEN [registry[i] EXCEPT !.ended = s \in Terminal]
                               ELSE registry[i]]

(* Mistake: the file is forgotten. *)
ClearTransportInMemory(c) == registry' = Without(c) /\ UNCHANGED queue

(* Only a registered command is also deleted from the persistence.         *)
ClearTransport(c) ==
    IF IsRegistered(c)
    THEN registry' = Without(c) /\ queue' = Append(queue, <<c, NoTransport>>)
    ELSE UNCHANGED <<registry, queue>>

Publish(t, result) ==
    /\ results' = [results EXCEPT ![t] = Append(@, result)]
    /\ UNCHANGED <<accepted, recovered>>

-----------------------------------------------------------------------------
(* handle_drive_to_position.                                               *)
Goto(h, stage) == handler' = [handler EXCEPT ![h].stage = stage] /\ UNCHANGED newest

(* The end of handler h, and of what its cancel event can still do. *)
Returns(h) ==
    /\ handler' = [handler EXCEPT ![h] = IdleHandler]
    /\ newest' = IF newest = h THEN None ELSE newest
Proceeds(h) ==
    /\ handler' = [handler EXCEPT ![h].stage = "creating", ![h].replaced = FALSE]
    /\ newest' = IF newest = h THEN None ELSE newest

(* A new command ends the scanner wait of the one before it.  (Bound: as   *)
(* many requests at a time as transports can still be created.)            *)
Navigate(h, c) ==
    /\ Cardinality({g \in Handlers : handler[g].stage # "idle"})
         < Cardinality({t \in Transports : robot[t] = "none"})
    /\ handler[h].stage = "idle"
    /\ handler' = [g \in Handlers |->
                     IF g = h THEN [IdleHandler EXCEPT !.stage = "locking", !.command = c]
                     ELSE IF g = newest
                          THEN [handler[g] EXCEPT !.replaced = TRUE]
                          ELSE handler[g]]
    /\ newest' = h
    /\ UNCHANGED <<robot, owner, stopping, registry, watch, arrived, queue, storage, ghost>>

(* Mistake: no _navigate_lock. *)
LockIsNotNeeded == TRUE

LockIsFree == \A h \in Handlers : handler[h].stage \in {"idle", "locking"}
Busy == \E i \in DOMAIN registry : ~registry[i].ended

(* A registered command is answered from its state or, with another        *)
(* target, refused; so is one that finds another in the works.  The error  *)
(* results of refused requests are not results of a transport.             *)
AcquiresNavigateLock(h) ==
    /\ handler[h].stage = "locking"
    /\ LockIsFree
    /\ IF IsRegistered(handler[h].command) \/ Busy
       THEN Returns(h) ELSE Goto(h, "checking")
    /\ UNCHANGED <<robot, owner, stopping, registry, watch, arrived, queue, storage, ghost>>

(* The controller reports that the robot is ready, that a scanner flag     *)
(* blocks it, or something the command fails on.                           *)
ReadinessKnown(h) ==
    /\ handler[h].stage = "checking"
    /\ Proceeds(h) \/ Goto(h, "scanning") \/ Returns(h)
    /\ UNCHANGED <<robot, owner, stopping, registry, watch, arrived, queue, storage, ghost>>

(* _wait_for_scanner_clear: the wait between two looks at the flag ends,   *)
(* or the deadline passes, or a newer command replaces this one.           *)
ScannerWaitEnds(h) ==
    /\ handler[h].stage = "scanning"
    /\ Returns(h) \/ (~handler[h].replaced /\ Goto(h, "rechecking"))
    /\ UNCHANGED <<robot, owner, stopping, registry, watch, arrived, queue, storage, ghost>>

(* Nobody looks at the cancel event here: a command replaced during this   *)
(* call goes on if the flag has cleared.                                   *)
ScannerRechecked(h) ==
    /\ handler[h].stage = "rechecking"
    /\ Proceeds(h) \/ Goto(h, "scanning") \/ Returns(h)
    /\ UNCHANGED <<robot, owner, stopping, registry, watch, arrived, queue, storage, ghost>>

(* transport_move_to_pose or transport_create_station. *)
Creates(h, t) ==
    /\ robot[t] = "none"
    /\ \A u \in 1..(t - 1) : robot[u] # "none"
    /\ robot' = [robot EXCEPT ![t] = "created"]
    /\ owner' = [owner EXCEPT ![t] = handler[h].command]

TransportCreated(h) ==
    /\ handler[h].stage = "creating"
    /\ \E t \in Transports :
         /\ Creates(h, t)
         /\ handler' = [handler EXCEPT ![h].stage = "starting", ![h].transport = t]
         /\ UNCHANGED newest
    /\ UNCHANGED <<stopping, registry, watch, arrived, queue, storage, ghost>>

(* Refused, or created while the answer is lost or the command's 120 s     *)
(* run out: nobody knows the transport.                                    *)
TransportNotCreated(h) ==
    /\ handler[h].stage = "creating"
    /\ \/ UNCHANGED <<robot, owner>>
       \/ \E t \in Transports : Creates(h, t)
    /\ Returns(h)
    /\ UNCHANGED <<stopping, registry, watch, arrived, queue, storage, ghost>>

(* PUT /transport/<id>/start is answered: the command is registered and    *)
(* its acceptance published.                                               *)
TransportStarted(h) ==
    /\ handler[h].stage = "starting"
    /\ robot' = [robot EXCEPT ![handler[h].transport] = IF @ = "created" THEN "assigned" ELSE @]
    /\ RegisterCommand(handler[h].command, handler[h].transport)
    /\ Returns(h)
    /\ UNCHANGED <<owner, stopping, watch, arrived, storage, recovered, results>>

(* The start fails or is not answered in time; the transport is deleted,   *)
(* unless the delete fails too.                                            *)
TransportNotStarted(h) ==
    /\ handler[h].stage = "starting"
    /\ \E s \in {"gone", "created", "assigned"} :
         robot' = [robot EXCEPT ![handler[h].transport] = IF @ = "created" THEN s ELSE @]
    /\ Returns(h)
    /\ UNCHANGED <<owner, stopping, registry, watch, arrived, queue, storage, ghost>>

(* asyncio.timeout(120), before the transport is asked for. *)
NavigateTimesOut(h) ==
    /\ handler[h].stage \in {"locking", "checking", "scanning", "rechecking"}
    /\ Returns(h)
    /\ UNCHANGED <<robot, owner, stopping, registry, watch, arrived, queue, storage, ghost>>

-----------------------------------------------------------------------------
(* Mistake: the entry stays until the watcher sees the transport ended. *)
CancelKeepsEntry(c) ==
    /\ IsRegistered(c)
    /\ stopping' = stopping \cup {Entry(c).transport}
    /\ UNCHANGED <<robot, owner, navigating, registry, queue, watch, arrived, storage, ghost>>

(* handle_cancel: the entry goes first, then the transport is stopped.  A  *)
(* command without entry changes nothing and gets no result.               *)
Cancel(c) ==
    /\ IsRegistered(c)
    /\ ClearTransport(c)
    /\ stopping' = stopping \cup {Entry(c).transport}
    /\ UNCHANGED <<robot, owner, navigating, watch, arrived, storage, ghost>>

Stopped(t) == robot' = [robot EXCEPT ![t] = IF @ \in PreRun \cup Active THEN "ended" ELSE @]

(* Answered (result.canceled), unanswered for 5 s (the same), or failed    *)
(* (result.error, cancel_failed).                                          *)
StopEnds(t) ==
    /\ t \in stopping
    /\ stopping' = stopping \ {t}
    /\ Stopped(t) \/ UNCHANGED robot
    /\ Publish(t, "cancel")
    /\ UNCHANGED <<owner, navigating, registry, watch, arrived, queue, storage>>

-----------------------------------------------------------------------------
(* StatusPublisher._transport_manager: only the current command is         *)
(* watched, by one task, and anew when its transport changed or its task   *)
(* is done.  A cancelled task ends at its await; its signal goes with it   *)
(* only if it was polling, or asking why (transport_watcher.py:331, :390). *)
NeedsTask(c) == watch[c].transport # TransportOf(c) \/ watch[c].stage = "done"

Manage ==
    /\ watch' = [c \in Commands |->
                   IF c # Current THEN NoTask
                   ELSE IF NeedsTask(c)
                        THEN [transport |-> TransportOf(c), stage |-> "begin"]
                        ELSE watch[c]]
    /\ watch' # watch
    /\ arrived' = {c \in arrived : watch'[c] = watch[c]
                                   \/ watch[c].stage \notin {"polling", "explaining"}}
    /\ UNCHANGED <<robot, owner, navigating, stopping, registry, queue, storage, ghost>>

(* TransportWatcherTask.run.                                               *)
WatcherGoesTo(c, stage) == watch' = [watch EXCEPT ![c].stage = stage] /\ UNCHANGED arrived
WatcherEnds(c) ==
    /\ watch' = [watch EXCEPT ![c].stage = "done"]
    /\ arrived' = arrived \ {c}

(* check_transport_active *)
IsActive(c) == IsRegistered(c) /\ Entry(c).transport = watch[c].transport

(* The result goes out under the command's id and its entry is cleared,    *)
(* whatever transport the entry names by now.                              *)
Settle(c, result) ==
    /\ Publish(watch[c].transport, result)
    /\ ClearTransport(c)
    /\ WatcherEnds(c)

(* The start of an iteration, with the registry the code before it left. *)
Iterate(c, entries) ==
    \/ /\ IsActive(c) /\ c \in arrived
       /\ Settle(c, "ended")
    \/ /\ IsActive(c) /\ c \notin arrived
       /\ registry' = entries
       /\ WatcherGoesTo(c, "polling")
       /\ UNCHANGED <<queue, ghost>>
    \/ /\ ~IsActive(c)
       /\ registry' = entries
       /\ WatcherEnds(c)
       /\ UNCHANGED <<queue, ghost>>

WatcherBegins(c) ==
    /\ watch[c].stage = "begin"
    /\ WatcherGoesTo(c, IF IsActive(c) THEN "fetching" ELSE "done")
    /\ UNCHANGED <<robot, owner, navigating, stopping, registry, queue, storage, ghost>>

(* The first state goes to the entry of the command unseen. *)
InitialFetch(c) ==
    /\ watch[c].stage = "fetching"
    /\ \/ Iterate(c, registry)
       \/ /\ robot[watch[c].transport] # "gone"
          /\ Iterate(c, WithState(c, robot[watch[c].transport]))
    /\ UNCHANGED <<robot, owner, navigating, stopping, storage>>

(* The long poll, or the refresh of a heartbeat, is answered, or there is  *)
(* no news; the answer for a transport the controller does not have is {}. *)
PollAnswers(c) ==
    LET s == robot[watch[c].transport] IN
    /\ watch[c].stage = "polling"
    /\ \/ /\ s = "gone"
          /\ ClearTransport(c)
          /\ WatcherEnds(c)
          /\ UNCHANGED ghost
       \/ /\ s # "gone" /\ ~IsActive(c)
          /\ WatcherEnds(c)
          /\ UNCHANGED <<registry, queue, ghost>>
       \/ /\ s \notin Terminal \cup {"gone"} /\ IsActive(c)
          /\ Iterate(c, registry) \/ Iterate(c, WithState(c, s))
       \/ s = "ended" /\ IsActive(c) /\ Settle(c, "ended")
       \/ /\ s = "failed" /\ IsActive(c)
          /\ registry' = WithState(c, s)
          /\ WatcherGoesTo(c, "explaining")
          /\ UNCHANGED <<queue, ghost>>
    /\ UNCHANGED <<robot, owner, navigating, stopping, storage>>

(* Mistake: no result without a reason. *)
ErrorNotReported(c) ==
    /\ watch[c].stage = "explaining"
    /\ ClearTransport(c)
    /\ WatcherEnds(c)
    /\ UNCHANGED <<robot, owner, navigating, stopping, storage, ghost>>

(* status_uncached for the reason of an error has returned. *)
ErrorExplained(c) ==
    /\ watch[c].stage = "explaining"
    /\ Settle(c, "failed")
    /\ UNCHANGED <<robot, owner, navigating, stopping, storage>>

(* A pending arrival ends the poll. *)
PollInterrupted(c) ==
    /\ watch[c].stage = "polling" /\ c \in arrived
    /\ Iterate(c, registry)
    /\ UNCHANGED <<robot, owner, navigating, stopping, storage>>

(* The poll raises; with a pending arrival and a fresh pose the command    *)
(* ends, otherwise the task backs off.  http_status is never set on the    *)
(* client's DeviceError (base_http_client.py:155), so a 404 is no special  *)
(* case.                                                                   *)
PollFails(c) ==
    /\ watch[c].stage = "polling"
    /\ \/ c \in arrived /\ Settle(c, "failed")
       \/ WatcherGoesTo(c, "backoff") /\ UNCHANGED <<registry, queue, ghost>>
    /\ UNCHANGED <<robot, owner, navigating, stopping, storage>>

BackoffEnds(c) ==
    /\ watch[c].stage = "backoff"
    /\ Iterate(c, registry)
    /\ UNCHANGED <<robot, owner, navigating, stopping, storage>>

(* PositionPoller: the robot has been at the goal of c for the dwell time. *)
Proximity(c) ==
    /\ c = Current /\ ~Entry(c).ended
    /\ c \notin arrived
    /\ arrived' = arrived \cup {c}
    /\ UNCHANGED <<robot, owner, navigating, stopping, registry, watch, queue, storage, ghost>>

-----------------------------------------------------------------------------
(* StateStore._persistence_writer_loop: a write that fails is dropped with *)
(* its operation (so is an operation the full queue of 1000 refuses).      *)
Faulty == faults < MaxFaults /\ faults' = faults + 1

OperationWritten(c, t) ==
    /\ disk' = [disk EXCEPT ![c] = t]
    /\ lost' = lost \ {c}
    /\ UNCHANGED faults

OperationDropped(c) ==
    /\ Faulty
    /\ lost' = lost \cup {c}
    /\ UNCHANGED disk

PersistenceWrite ==
    /\ queue # <<>>
    /\ OperationWritten(Head(queue)[1], Head(queue)[2]) \/ OperationDropped(Head(queue)[1])
    /\ queue' = Tail(queue)
    /\ UNCHANGED <<robot, owner, navigating, stopping, registry, watch, arrived,
                   persisted, unchecked, crashes, ghost>>

(* JsonPersistenceStore._read_file moves a file it cannot read or parse    *)
(* aside: whoever reads next, to write or to recover, finds an empty one.  *)
FileTurnsUnreadable ==
    /\ Faulty
    /\ \E c \in Commands : disk[c] # NoTransport
    /\ disk' = [c \in Commands |-> NoTransport]
    /\ lost' = lost \cup {c \in Commands : disk[c] # NoTransport}
    /\ UNCHANGED <<robot, owner, navigating, stopping, registry, watch, arrived, queue,
                   persisted, unchecked, crashes, ghost>>

(* The process dies and starts again: load_from_persistence, and the       *)
(* recovery in the background.  It takes the lock of the file in its first *)
(* step, before a request is served (app/state.py:164-182,                 *)
(* persistence_store.py:133-135): it reads the file as the dead process    *)
(* left it.  The robot keeps driving.                                      *)
CrashAndRestart ==
    /\ crashes < MaxCrashes
    /\ crashes' = crashes + 1
    /\ handler' = [h \in Handlers |-> IdleHandler] /\ newest' = None
    /\ stopping' = {} /\ registry' = <<>> /\ arrived' = {} /\ queue' = <<>>
    /\ watch' = [c \in Commands |-> NoTask]
    /\ persisted' = disk
    /\ unchecked' = {c \in Commands : disk[c] # NoTransport}
    /\ lost' = {} /\ accepted' = {} /\ recovered' = {}
    /\ results' = [t \in Transports |-> <<>>]
    /\ UNCHANGED <<robot, owner, disk, faults>>

(* RecoveryService.check_command: an ended, waiting or unknown transport,  *)
(* or one not reported within 3 s, is given up; so is an active one beside *)
(* another current command.                                                *)
RecoveryDrops(c) ==
    /\ c \in unchecked
    /\ unchecked' = unchecked \ {c}
    /\ ClearTransport(c)
    /\ UNCHANGED <<robot, owner, navigating, stopping, watch, arrived,
                   disk, persisted, crashes, faults, lost, ghost>>

RecoveryFindsActive(c) ==
    /\ c \in unchecked /\ robot[persisted[c]] \in Active
    /\ Current \in {None, c}
    /\ unchecked' = unchecked \ {c}
    /\ RegisterCommand(c, persisted[c])
    /\ recovered' = recovered \cup {persisted[c]}
    /\ UNCHANGED <<robot, owner, navigating, stopping, watch, arrived,
                   disk, persisted, crashes, faults, lost, results>>

(* The check raises, or the recovery's 60 s are over. *)
RecoverySkips(c) ==
    /\ c \in unchecked
    /\ unchecked' = unchecked \ {c}
    /\ UNCHANGED <<robot, owner, navigating, stopping, registry, watch, arrived,
                   queue, disk, persisted, crashes, faults, lost, ghost>>

-----------------------------------------------------------------------------
(* The controller: a transport runs and ends, unless an operator or        *)
(* another client of the controller deletes it first.                      *)
RobotMoves(t) ==
    /\ \/ robot[t] = "assigned" /\ robot' = [robot EXCEPT ![t] = "running"]
       \/ robot[t] = "running" /\ \E s \in Terminal : robot' = [robot EXCEPT ![t] = s]
    /\ UNCHANGED <<owner, navigating, stopping, registry, watch, arrived, queue, storage, ghost>>

TransportDeleted(t) ==
    /\ Deletions /\ robot[t] \in PreRun \cup Active
    /\ robot' = [robot EXCEPT ![t] = "gone"]
    /\ UNCHANGED <<owner, navigating, stopping, registry, watch, arrived, queue, storage, ghost>>

-----------------------------------------------------------------------------
NavigateStep(h) ==
    \/ AcquiresNavigateLock(h) \/ ReadinessKnown(h) \/ ScannerWaitEnds(h)
    \/ ScannerRechecked(h) \/ TransportCreated(h) \/ TransportNotCreated(h)
    \/ TransportStarted(h) \/ TransportNotStarted(h)

WatcherStep(c) ==
    \/ WatcherBegins(c) \/ InitialFetch(c) \/ ErrorExplained(c)
    \/ PollInterrupted(c) \/ BackoffEnds(c)

RecoveryStep(c) == RecoveryDrops(c) \/ RecoveryFindsActive(c) \/ RecoverySkips(c)

Next ==
    \/ \E h \in Handlers, c \in Commands : Navigate(h, c)
    \/ \E h \in Handlers : NavigateStep(h) \/ NavigateTimesOut(h)
    \/ \E c \in Commands : \/ Cancel(c) \/ Proximity(c)
                           \/ WatcherStep(c) \/ PollAnswers(c) \/ PollFails(c)
                           \/ RecoveryStep(c)
    \/ \E t \in Transports : \/ StopEnds(t) \/ RobotMoves(t) \/ TransportDeleted(t)
    \/ Manage \/ PersistenceWrite \/ FileTurnsUnreadable \/ CrashAndRestart

(* Calls of the controller end (they have timeouts) and tasks that can run *)
(* do; polls may fail, but not for ever; a started transport ends.         *)
Fairness ==
    /\ WF_vars(Manage)
    /\ WF_vars(PersistenceWrite)
    /\ WF_vars(\E h \in Handlers : NavigateStep(h))
    /\ WF_vars(\E c \in Commands : WatcherStep(c))
    /\ SF_vars(\E c \in Commands : PollAnswers(c))
    /\ WF_vars(\E c \in Commands : RecoveryStep(c))
    /\ WF_vars(\E t \in Transports : StopEnds(t))
    /\ WF_vars(\E t \in Transports : RobotMoves(t))

Spec == Init /\ [][Next]_vars /\ Fairness

-----------------------------------------------------------------------------
(* Properties.                                                             *)

SoleUse(t) == \A u \in Transports : owner[u] = owner[t] => u = t

(* Navigates are serialized through create and start, and each asks for    *)
(* other commands first: of the commands in the works, at most one came by *)
(* a navigate; any other was brought back by the recovery, which takes no  *)
(* lock (command_handler.py:66-71, :142-159; recovery_service.py:75-90).   *)
(* This is so for commands whose id the client does not use again: the     *)
(* watcher of an earlier transport may write the end of that one to the    *)
(* new entry, by the command's id (transport_watcher.py:188).              *)
OneNavigateInTheWorks ==
    \A i, j \in DOMAIN registry :
        \/ i = j \/ registry[i].ended \/ registry[j].ended
        \/ {registry[i].transport, registry[j].transport} \cap recovered # {}
        \/ ~SoleUse(registry[i].transport) \/ ~SoleUse(registry[j].transport)

(* A transport gets one result, although cancel, watcher and arrival race. *)
(* Only a failure whose reason is being asked for, or a poll failing, may  *)
(* be reported beside a cancel (transport_watcher.py:288-329;              *)
(* command_handler.py:612-634).                                            *)
OneResult ==
    \A t \in Transports :
        LET r == results[t] IN
        \/ Len(r) <= 1
        \/ /\ Len(r) = 2
           /\ {r[1], r[2]} = {"failed", "cancel"}

(* An accepted command does not vanish: until its result is out it is      *)
(* registered, being cancelled, or its transport is gone from the          *)
(* controller - for commands whose id the client does not use again, and   *)
(* between two starts of the process.                                      *)
AcceptedIsAccountedFor ==
    \A t \in accepted :
        \/ TransportOf(owner[t]) = t
        \/ t \in stopping
        \/ results[t] # <<>>
        \/ robot[t] = "gone"
        \/ ~SoleUse(t)

(* Once the queued operations are written, the file holds t for c. *)
WillHold(c, t) ==
    /\ \A i \in DOMAIN queue :
         queue[i][1] = c /\ (\A j \in DOMAIN queue : queue[j][1] = c => j <= i)
         => queue[i][2] = t
    /\ (\A i \in DOMAIN queue : queue[i][1] # c) => disk[c] = t

(* What the file should hold for c: a registered command, or nothing; for  *)
(* a command this process has not registered yet, what it found.           *)
RegisteredSinceStart(c) == \E t \in accepted : owner[t] = c
Expected(c) ==
    IF IsRegistered(c) THEN TransportOf(c)
    ELSE IF RegisteredSinceStart(c) THEN NoTransport ELSE persisted[c]

(* A failure got the better of what the file held for c, and nothing is    *)
(* queued for c that would mend it.                                        *)
Astray(c) == c \in lost /\ \A i \in DOMAIN queue : queue[i][1] # c

(* The file follows the registry, however registrations, cancels, results  *)
(* and recovery interleave with its writer and its failures: a registered  *)
(* command will be found again after a restart, and one that has left will *)
(* not - but for the commands whose own last write failed (the writer      *)
(* drops it, state_store.py:157-160) or was in a file that turned          *)
(* unreadable, until something is written for them again.  What an earlier *)
(* process left stays until the command is registered anew: the recovery   *)
(* clears it from a registry in which it is not (recovery_service.py:64).  *)
FileFollowsRegistry == \A c \in Commands : WillHold(c, Expected(c)) \/ Astray(c)

(* An accepted command gets its result, unless its transport disappears or *)
(* the process crashes first.                                              *)
AcceptedIsSettled ==
    \A t \in Transports :
        t \in accepted ~> \/ t \notin accepted \/ results[t] # <<>>
                          \/ robot[t] = "gone" \/ ~SoleUse(t)
=============================================================================
