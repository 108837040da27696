# Verification of the AROC robot platform

TLA+ specifications, TLC models and TLAPS proofs for the services of this
repository. All paths below are relative to `src/`.

- [The system](#the-system)
- [Modules](#modules)
- [Runs, bounds and fairness](#runs-bounds-and-fairness)
- [What the code's documentation says and the code does not do](#what-the-codes-documentation-says-and-the-code-does-not-do)
- [Proofs](#proofs)
- [Not modelled](#not-modelled)
- [Plan](#plan)

## The system

AROC is a mobile robot (a vehicle, a lift axis, an arm, cameras) behind a set
of small services, each a process of its own, that talk HTTP among themselves
and MQTT to the outside.

| Component | State it keeps | Operations | What is hard | What makes it correct |
|---|---|---|---|---|
| **MQTT command bridge** `mqtt_command_service/mqtt-bridge` | in-flight set and history of commands, the same for service requests; HTTP, watcher and e-stop permits; table of watched tasks; pending results; the shutdown event | take a message, deduplicate, validate, submit, execute over HTTP, answer, watch a task, deliver an e-stop with retries, stop | four handler threads, four HTTP workers, a thread per e-stop and per watched task, the flusher, the main thread in `stop()`; QoS 1 redelivery; overload; shutdown under way at any point | a command is processed by one thread at a time and finished on every path; every message is answered; permits are not leaked; an e-stop is answered or alerted; answers of requests under way still go out at shutdown |
| **Shared MQTT client** `mqtt_command_service/shared/mqtt_client.py` | the paho client, the connected event, two generation counters, handler table | start, connect, reconnect, callbacks, subscribe, publish, stop | the connecting thread, paho's network thread, callers and `stop()` race over the client | the topics with a handler are subscribed in every session; a lost session is noticed and replaced; `stop()` ends |
| **Telemetry**, **hub-auth**, **config-api** `mqtt_command_service/...` | last values, token, settings file | periodic publishing, token refresh, CRUD | little: periodic I/O | data is fresh, tokens renewed in time |
| **Navigation adapter** `nav2adapter` | registry of commands and transports, its copy on disk and the queue of writes to it, one watcher task, arrival signals | navigate, cancel, arrive by proximity, watch a transport, recover after a restart | asyncio: checks before an `await` that are stale after it; a 120 s limit that ends a navigate in the middle; a lock some callers do not take; a crash between a change and its write, a write that fails | one navigate in the works; one result per transport; no accepted command is lost; the file follows the registry as far as writes succeed |
| **Camera player** `janus_camera_page/templates/player` | the canonical state, the session token, WebRTC and frame latches, a watchdog and five kinds of timers, the reconnect coordinator's request and attempt | play, stop, retry; stream events; frames; timers; connect flow; reconnect attempts | one thread, but continuations after awaits of a generation that has passed; timers overwritten while pending; events in any order | after `SAFETY_LAWS.md`: PLAYING means connected, a stopped player lets go of its timers and is not restarted by one that got away, an active player is watched |
| **Camera page** `janus_camera_page` | recovery ladder: level, attempts and cooldowns, with a copy on tmpfs; the reboot counter on disk; system mode; the watchdogs' grace, streak and claimed window | check the stream and the snapshot, escalate, act, reset, degrade and promote, proxies | two watchdogs and an operator over one ladder; restarts of the process in the middle of an attempt, reboots, lost or torn writes; mode listeners outside the lock | attempts and reboots are bounded, the reboot comes last; a fault that nothing cures ends in SAFE |
| **Robot service** `robot_service` | task table, joystick state, emergency state | pick-and-place scripts, joystick arbitration, safety kernel | scripts interrupted by stops, several sources of motion | nothing moves after a stop until it is reset |
| **Igus service** `igus_service` | CiA 402 drive state, command queue | move, home, stop, fault reset | a fieldbus that loses its session mid-move | one motion at a time, faults latch |
| **xArm service** `xarm_service` | actor queue, safety monitor, gripper watchdog | arm and gripper commands, monitoring | preempting stops, sensor reads across awaits | a stop overtakes queued commands; the gripper is not opened on stale data |
| **API gateway** `api_gateway_service` | circuit breakers, hub state | proxying with breakers, authentication | requests that overlap a breaker's state change | a failing service is not hammered, a recovered one is used again |
| **Frontend** `frontend_service` | none on the server | static pages, viewer | - | - |

Interaction around the bridge: the broker delivers a message to
`LightMQTTClient._on_message`, which gives it to the handler pool;
`MqttCommandBridge` asks a `CommandDeduplicator`, validates, and hands the
command to `CommandDispatcher`, which submits it to `HttpExecutor` or starts an
e-stop thread. A worker calls the robot service or the navigation adapter,
sends the answer through `ResponsePublisher` (to MQTT, or to
`PendingResultQueue` while MQTT is down), and starts a `TaskWatcher` thread when
the answer names a task. `stop()` sets the shutdown event and then joins and
closes these parts in a fixed order.

Interaction in the navigation adapter: an HTTP or MQTT request reaches
`CommandHandler`, which asks the controller of the vehicle for a transport and
registers it in `StateStore`. The manager of `StatusPublisher` keeps one
`TransportWatcherTask` for the command registered last; it polls the controller,
writes the transport's state to the registry, publishes the result and clears the
entry. `PositionPoller` raises the arrival signal the watcher obeys.
`StateStore` queues every change for the persistence writer; after a start
`RecoveryService` asks the controller about the commands the file holds.

Interaction in the player: the adapters of Janus, the video element, the page and
the user's buttons call `PlayerController`, which asks `ConnectionPolicy` what a
failure means, sends an event through `StateMachineCanonical` and
`InvariantGate`, and carries out the actions they return, among them calls of
`ReconnectCoordinator`, which calls back to run an attempt, to report success or
to give up.

Interaction on the camera page: the watchdog thread asks Janus for the age of the
last picture, the snapshot coroutine looks at a file. Either claims a window in
`watchdogs.py` and calls `RecoveryLadder.escalate`, which under the ladder's lock
records and makes an attempt at its level, climbs to the next one (degrading the
system mode), reboots the node, or enters SAFE. A healthy stretch, the automatic
reset of SAFE mode and an operator reset it. A new process reads the level and
the attempts from tmpfs and the number of reboots from disk.

## Modules

| Module | Models | State | Actions |
|---|---|---|---|
| `DedupTable` | what `CommandDeduplicator` promises its callers | in-flight set, remembered outcome per identifier | `TryStart`, `Finish`, `Store`, `Forget`: one per locked method; outcomes may be forgotten at any time |
| `CommandDedup` | `command_dedup.py` as coded | in-flight set; the history as a list by timestamp, entries expired or not | the same methods with `_cleanup_locked`, the lazy purges of `get`/`was_processed`, and `Age` |
| `Bridge` | `bridge.py`, `command_dispatcher.py`, `http_executor.py`, `task_watcher.py`; EXTENDS `DedupTable` | a program counter per message, a watcher stage per message, the permits, the phase of `stop()` | one per stretch of code between two accesses to shared state |
| `Responses` | `response_publisher.send_response`, `mqtt_publisher.py`, `pending_results.py` | the connection, the stage of each sender, the queue, the flush lock, each flusher's copy | sender, flusher and connection steps |
| `MqttClient` | `shared/mqtt_client.py` | session and broker (environment), the paho client and whether it has a network loop, the connected event, the reconnect signal, the stages of the connecting thread, the callback, the callers and `stop()` | steps of each thread |
| `PlayerStates` | what the player promises its user | the state shown, and whether it means to play | `Start`, `Show`, `Lose`, `Fail`, `Stop` |
| `Player` | `player_controller.js`, `reconnect_coordinator.js`, `state_machine_canonical.js`, `connection_policy.js`, `recovery_policy.js`, `invariants.js`, `watchdog_service.js` | one record, the player | one per task of the page's event loop: an intent, a stream event, a timer, a stretch of a connect flow or a reconnect attempt between awaits |
| `NavAdapter` | `command_handler.py`, `state_store.py`, `transport_watcher.py`, `status_publisher.py` (the manager), `position_poller.py` (arrival), `recovery_service.py`, with the controller as environment | stages of the handlers, the registry, the watchers, the write queue, the file, what recovery has read; the robot's transports | one per stretch between two awaits that leave the process |
| `RecoveryLadder` | `recovery_ladder.py`, `watchdogs.py`, `system_mode.py` | the ladder and its file, the reboot counter, the mode, the stage of each thread, the watchdogs' flags; the stream and a reboot under way (environment) | a turn of each watchdog, the steps of `escalate` and `reset` under the lock, the steps of an attempt, restarts of the process, boots of the node |
| `BridgeProofs`, `CommandDedupProofs`, `ResponsesProofs`, `MqttClientProofs`, `PlayerProofs`, `NavAdapterProofs`, `RecoveryLadderProofs` | theorems about the module they name | | |
| `SequenceLemmas` | lemmas about the sequence helpers the lists of the bridge use | | |
| `MC...` | constants of the runs | | |

How the abstraction goes:

- **`Bridge`** composes with the deduplicator through `DedupTable`, whose
  operators are its table accesses; that `CommandDedup` implements `DedupTable`
  is checked and proved, so `Bridge` need not carry time stamps and sizes. Messages carry
  an identifier (`idOf`) chosen at the start, and each identifier is of one kind
  (command, e-stop, service request). The bridge has one deduplicator for
  commands and one for service requests; as their identifiers are kept apart,
  one table stands for both. A pool of *n* threads is the condition that at most
  *n* messages are in its stages. Validation and the safety gate are a choice
  between going on and `RejectCommand`/`RejectService`/`Refuse`; an HTTP request
  fails (having reached the service or not) or is answered, with or without a
  task. Payloads are told apart as acknowledgement, error and final result.
  `answered` records that an answer was sent or queued; what becomes of it is
  the business of `Responses`. A service request without an identifier is not
  tracked by the code and not modelled; nor is a message whose topic has an
  empty level, which the code ignores without an answer (`bridge.py:348-349`).
  Any HTTP answer to an e-stop ends its attempts, one with a failure status too
  (`command_dispatcher.py:308-355`): "reached" does not mean "obeyed". The topics
  `start()` subscribes to (`bridge.py:208-211`) are those of commands and of the
  safety status; service requests reach `_handle_service_message` only if
  something else subscribes the bridge to their topics.
- The joins of `stop()` have time limits (25 s for e-stop threads, at least 5 s
  for watchers). A thread that sees the shutdown event has at most one request
  left, limited to 3 s, so joins are waits for the threads that were there. The
  drain of step 2 is different: it gives up after 5 s, so `Drained` may always
  happen. The HTTP pool is closed with `wait=True`.
- **`Responses`** gives each result an identity and a key. The acknowledgement
  and the final result of a request share a key; the queue keeps one entry per
  key in dictionary order. A session is `lost` while the client has not noticed:
  `is_connected` is true and publishing fails. That paho itself sends a message
  of QoS 1 again is the library's business and left out.
- **`MqttClient`**: the two generation counters are compared for equality only,
  so one bit `signal` stands for them. `client` tells whether the paho client
  still in `_client`, or one taken out to be torn down, has a network loop.
  paho's behaviour (it reconnects by itself while its loop runs; `loop_stop`
  waits for the callback under way; a clean session has no subscriptions)
  and the broker are the environment. Backoff delays are not measured. A
  `subscribe` made in a session succeeds: the code logs a failure and goes on
  without the topic (`mqtt_client.py:296-300`). A client that cannot be built
  (`:445-450`) is left out; it would end like a `connect()` that raises.

- **`Player`**: the calls a task makes are operators from a player to a player,
  composed as the code nests them, so that an action is the whole handler with
  the state machine's transition, the gate, the actions it returns and the calls
  back from the coordinator. The session token is only compared with the current
  one, so what a timer or a continuation captured is "current" or "past". Delays
  are configurable, so a pending timer may fire at any time. `silent` stands for
  "the last frame is older than the threshold". The streaming port is modelled by
  the events it may raise, in any order, and by calls that return, fail or do not
  return. Rendering, statistics, the degraded mark, the joystick and `destroy()`
  are left out.
- **`NavAdapter`**: the registry is a sequence in the order of `created_at`, as
  `clear_transport` picks the next current command by that order. The controller
  numbers its transports; `robot[t]` is what it reports. Finished and canceled
  are both "ended"; waiting states are "created" and "assigned". The generation
  of an entry is left out, since two entries of one command always differ in
  their transport. A position is not modelled: the robot may be at its goal at
  any time. The writer of the file may drop an operation whose write fails, and
  the file may turn unreadable, at any time up to `MaxFaults` times; an operation
  that the full queue of 1000 refuses is in the end lost like one that is dropped. A new
  process reads the file as the dead one left it, in one step with its start:
  the recovery takes the lock of the file before a request is served.
  `results`, `accepted`, `recovered` and `lost` record what was published,
  registered, brought back by the recovery and not written since the last start;
  no action reads them. `asyncio` locks of the store are never held across an await that
  leaves the process.
- **`RecoveryLadder`**: a comparison with a time stamp is a flag, set where the
  code takes the stamp and cleared by an action of its own when the window has
  passed. How long the process is up (the counter is cleared after an hour) and
  how long the mode lasts (automatic reset) are not kept: the comparison may go
  either way at any time. The ladder's own window of 3 s is covered by the
  cooldown of the level, at least 10 s and set with it. After a change of level,
  a reset or a start a cooldown may or may not run, since stamps are counted from
  the boot. The lock is the set `Holding` of stages in which at most one thread
  is. An attempt is recorded in one step and made in another, so that a restart
  may fall in between; a reboot has the writing of the counter in between too. A
  write may fail; that of the counter may also leave its file empty (it is
  truncated first, and an empty file is read as 0), as may a process that ends
  while it writes. What a retry or a restart does to the stream is the
  environment, which may change at any time (`faulty`: a check finds the stream
  stale, or raises and so does its retry; a stream that is stale while every
  first check raises and every retry returns is left out: the code does not look
  at the age the retry gets and never escalates, `watchdogs.py:172-177`), and so are the other users of the
  mode (`thermal.py`, `routes/fdir.py`). `begun`, `spent`, `faults` and
  `disturbed` count attempts, reboots, lost writes and outside events; no action
  of the code reads them. Metrics, the event log and the marker of a reboot
  decide nothing and are left out. The ladder's file is written beside the old one
  and renamed, so a corrupted one (`recovery_ladder.py:232`) is left out too.

Definitions preceded by "Mistake:" are variants of the operator after them with
a plausible bug; no action uses them. They show that each property can fail.

## Runs, bounds and fairness

| Run | Bounds | Properties |
|---|---|---|
| `dedup` | 3 identifiers, 2 payloads, room for 2 outcomes: storing evicts and sentinels overshoot the limit | `TypeOK` (the list is a map), `ImplementsDedupTable` (refinement), `HistoryIsKept` |
| `bridge` | 2 messages: a command or a service request twice, a command and an e-stop, a command and a service request; 2 handler threads, 1 worker, 1 HTTP permit, 1 e-stop permit, 2 e-stop attempts; 2 watcher permits where the identifier is the same, so that a command meets its own watcher, else 1, so that they run out | `TypeOK`, `InFlightHasOneOwner`, `PermitsAccountedFor`, `ActiveTasksAreWatched`, `NoSilentEnd`, `RequestsEndBeforeMqtt`, `EstopReachesRobotOrAlerts`, `CommandsFinish`, `DroppedDuplicateIsAnswered`, `StopTerminates` |
| `responses` | 5 results (two of one request, two about e-stops, one too large), room for 2, both flushers | `TypeOK`, `PublishedOnce`, `EvictionIsFair`, `QueueDrains` |
| `mqtt` | 2 topics; the broker comes, goes and refuses any number of times | `TypeOK`, `TopicsSubscribed`, `SignalIsActedOn`, `LoopingClientReconnects`, `StopEnds` |
| `player` | every disturbance (hiding, network, mute, session reset), autonomous or not, 1 attempt, 1 under way | `TypeOK`, `PlayingIsConnected`, `ActivityFitsState`, `ConnectingStartsAFlow`, `StoppedUntilAsked`, `ImplementsPlayerStates` (refinement) |
| `player_live` | no disturbances; 2 attempts and an overwritten backoff timer | `FrozenPictureIsNoticed`, `StopSettles` |
| `nav` | 2 commands, 2 requests at a time, 2 transports, 1 crash, 1 failed write or unreadable file, deletions by others | `TypeOK`, `OneNavigateInTheWorks`, `OneResult`, `AcceptedIsAccountedFor`, `FileFollowsRegistry` |
| `nav_live` | 2 commands, 1 request at a time, 2 transports, no crash, no failed write (no handler reads the file) | `AcceptedIsSettled` |
| `ladder` | 3 levels of 1 attempt, 1 reboot, 1 healthy check for nominal, 1 lost or torn write, 1 restart, power cut or operator's reset; reboots and automatic resets any number of times | `TypeOK`, `RecoveryIsBudgeted`, `RebootIsLastResort`, `PersistentFaultEndsInSafe` |

The remaining three runs end in a counterexample, see the next section.

Why the bounds are enough to be of use: the hazards of the bridge are races
between two threads on one identifier; one permit of a kind is the smallest
number that both runs out and can be given back. `WatcherSlots` is a function of
the deliveries only for this choice of bounds. The safety
properties of every run are proved for every bound. In `RecoveryLadder` three
levels are the least with a first, a middle and a last one, and one fault and one
disturbance already meet every stage (a restart in the middle of an attempt, a
torn counter); a reboot counter limited to 1 is used up, cleared after an
automatic reset and used up again. In `Player` a second attempt under way and a
second overwritten timer only repeat what one does; `player_live` adds one
overwritten timer, for which no property would hold if timers were assumed to
obey. Two attempts under way at a time are beyond the runs (`MaxRuns` = 2 does not
end in five minutes); the theorems about `Player` cover any number. In `NavAdapter` a command id can be used again with two transports; that
the end of an *earlier* transport of a re-used id is written to the new entry
needs three, and shows why `OneNavigateInTheWorks` speaks of ids used once (three
transports, two requests and no crash have 11 million states: not kept as a run
for its length; the theorem covers them). Every counter of the modules is bounded by these
constants; no state constraint is used. `CHECK_DEADLOCK FALSE` is given for
`Bridge` (when every message is through and the bridge is stopped) and
`NavAdapter` (when every transport has ended) only.

In words:

- `InFlightHasOneOwner`: no two threads process one identifier; an identifier
  being processed is in flight; a command in flight is owned by someone who will
  finish it.
- `PermitsAccountedFor`: each semaphore's free permits and the holders add up.
- `ActiveTasksAreWatched`: the table of active tasks and the live watcher
  threads agree, also when a command executed twice meets its own watcher.
- `NoSilentEnd`: unless the bridge is stopping, a message that ended was
  answered.
- `RequestsEndBeforeMqtt`: the broker connection closes after the last request.
- `EstopReachesRobotOrAlerts`: whatever the HTTP workers do (their progress is
  not assumed), an e-stop thread ends with an HTTP answer of the robot service,
  of whatever status, or a safety alert raised.
- `CommandsFinish`, `DroppedDuplicateIsAnswered`, `StopTerminates`: commands
  leave the in-flight set, a dropped duplicate's answer comes from the delivery
  that is processed, `stop()` ends. These assume that HTTP workers run
  (`WorkersRun`), stated in the property.
- `HistoryIsKept`: a command that is finished is remembered
  (`FinishLeavesATrace`) - unless an earlier outcome of it has expired and was not
  purged yet, see below - and no outcome that had room is forgotten
  (`OnlyNewerEvict`).
- `PublishedOnce`, `EvictionIsFair`, `QueueDrains`: a result is published at most once, leaves the queue unpublished
  only for a newer one, safety results last, and a lasting connection empties
  the queue.
- `TopicsSubscribed`: in a session with no callback or caller under way, every
  topic with a handler is subscribed.
- `PlayingIsConnected`, `ActivityFitsState` (which is `ActiveIsWatched`,
  `StoppedIsQuiet` and `ReconnectingIsRequested`): what holds of the laws L4 to L6
  and L15 of `SAFETY_LAWS.md` over every interleaving. PLAYING has WebRTC and a
  frame (by the latches `webrtcUp` and `firstFrame`; the peer connection behind
  them may be gone unreported). An active player is wanted and watched. A stopped
  player and its coordinator hold no watchdog, grace, mute, backoff or settle
  timer, no request and no connect latch, and a retry in ERROR only (armed when
  the network comes back). Not claimed, for it is not so: that no timer is
  pending. A backoff timer that was overwritten (`reconnect_coordinator.js:261`)
  and the wait for an offer of an attempt that was under way (`:354`) outlive the
  stop, see `stopped_holds_no_timer` below; by `StoppedUntilAsked` and
  `StopSettles` they restart nothing and end. A reconnecting player has a request
  and can be ended by a frame.
- `StoppedUntilAsked`, `ConnectingStartsAFlow`: only the user (in ERROR also the
  tab coming back or the retry after the network came back) restarts a stopped
  player; a start is never swallowed by the latch of an older connect flow.
- `FrozenPictureIsNoticed`, `StopSettles`: a picture that freezes is noticed; a
  player stopped for good has no wait left.
- `OneNavigateInTheWorks`: of the registered commands not ended, one came by a
  navigate (command ids used once); others were brought back by the recovery,
  which takes no lock. So an id used again, whose entry an earlier transport marks
  as ended, and a recovery beside a navigate are left out: there two may be in the
  works.
- `OneResult`: a transport gets one result; only a failure whose reason is being
  asked for, or a failing poll, may be reported beside a cancel. It is stated
  between two starts: a new process knows nothing of what the old one reported.
- `AcceptedIsAccountedFor`, `AcceptedIsSettled`: until its result is out, an
  accepted command is registered, being cancelled or gone from the controller;
  and its result comes (ids used once). With finitely many transports newer
  commands end; an endless supply of them would keep an older one unwatched.
- `FileFollowsRegistry`: once the queue is written, the file holds what the
  registry holds, nothing for a command that has left it, and what the last start
  found for one not registered since. Except where a failure had the last word: a
  write that fails is dropped and never tried again (`state_store.py:157-160`), an
  unreadable file is moved aside and read as empty (`persistence_store.py:85-94`),
  and until something is written for a command so hit, the file stays different.
- `SignalIsActedOn`, `LoopingClientReconnects`, `StopEnds`: the wake-up of the
  connecting thread is never lost, a client that keeps a network loop gets its
  session back, `stop()` ends.
- `RecoveryIsBudgeted`: between two resets or boots no level is attempted more
  often than its budget, and between two clearings of the counter the node is
  rebooted at most `max_fdir_reboots` times, whatever restarts; each write that
  is lost buys one attempt, or as many reboots again.
- `RebootIsLastResort`: the ladder reboots only when every gentler level was
  tried to the end of its budget since the last reset or boot (no write lost).
- `PersistentFaultEndsInSafe`: a fault that nothing cures reaches SAFE again and
  again, whatever restarts, reboots and automatic resets it goes through.

Fairness, and why the code justifies it:

- `Bridge`: weak fairness of each handler, watcher and e-stop thread and of
  `stop()` once the shutdown event is set. None of these waits for anything but
  short locks and requests with a time limit. Not of deliveries, nor of the
  start of a shutdown; that HTTP workers run is an assumption of the properties
  that need it.
- `Responses`: weak fairness of the periodic flush (it wakes every ten seconds),
  of a flush under way and of a sender under way. None of connecting.
- `MqttClient`: weak fairness of the connecting thread, the network loop (which
  notices a dead broker through its keep-alive), `stop()`, and of starting.
- `Player`: weak fairness of the watchdog's tick, of timers, and of the
  coordinator (health checks and attempts have time limits). Not of the user, of
  stream events or frames, nor of a connect flow, which awaits calls without a
  time limit.
- `NavAdapter`: weak fairness of the manager, the writer, handlers, watchers,
  recovery and stops (all calls have time limits), of the robot, whose started
  transports end; strong fairness of polls being answered: they may fail, but not
  for ever, and a watcher may be cancelled and started again in between.
- `RecoveryLadder`: weak fairness of the threads taken together (their turns come
  every few seconds and every call has a time limit), of each window passing, and
  of a node that was told to reboot doing so. None of the snapshot's age, the
  stream, the operator, restarts and other users of the mode.

## What the code's documentation says and the code does not do

Each is a run with one property that TLC finds violated.

| Run | Documentation | What happens |
|---|---|---|
| `executed_once` | `command_dedup.py:4`: the in-flight guard "prevents duplicate execution" | The handler asks the history, then the in-flight set. A first delivery that stores its result and finishes in between is seen by neither, so the command is sent again. A command that ended with a sentinel is sent again without any race, since the command path does not ask `was_processed` (the service path does). `SpecRemembering` excludes history entries ageing out. |
| `reconnects` | `mqtt_client.py:59`: "automatic reconnection" | When `client.connect()` raises, for instance at the start with the broker down, no callback will ever raise the signal the reconnect thread waits for. |
| `stopped_holds_no_timer` | `SAFETY_LAWS.md:28-29`: "STOPPED implies: - No active timers", `:92`: "IDLE is the stopped state (no timers, no sessions)", `reconnect_coordinator.js:175`: after `reset()` "no timer can fire" | A player stopped during the health check of a reconnect attempt: the attempt goes on to find itself stale, sets the in-flight latch of the coordinator that was reset and arms the wait for an offer (`reconnect_coordinator.js:354`) in the stopped player. (Nor is a backoff timer cancelled that another one overwrote, `:261`.) |

Seen while modelling, and not kept as runs:

- `finish()` takes a history entry that has expired but is not purged for a stored
  result and writes no sentinel (`command_dedup.py:82`), while `get` and
  `was_processed` report such a command as unknown (`:117`, `:134`): a redelivery
  of it runs again, where the docstrings say that a sentinel makes duplicate
  deliveries "see the command as already processed" (`:31-34`) and prevents
  "duplicate re-execution" (`:70-72`). The
  bridge asks `get` before it starts a command, which purges; so it takes a
  command that ended with a sentinel, whose next delivery is taken up just before
  that expires and ends without a result too.
- A service request refused after `try_start` (path, headers, time limit, URL,
  overload, refused pool) is answered and never finished (`bridge.py:411-449`):
  its identifier stays in flight and every retry is dropped, while
  `command_dedup.py:29` says the set tracks what is "currently being processed".
  `start()` subscribes to no topic that reaches this handler.
- ICE failing during a reconnect attempt (`ICE_STATE failed`) bypasses the policy
  and reaches the state machine, which has no transition for it while
  reconnecting: the player gives up in ERROR with attempts left
  (`reconnect_coordinator.js:113` says of a definite failure, "e.g. ICE failed",
  that it "Ends the attempt immediately and schedules the next").
- The automatic reset of SAFE mode clears the reboot counter once the process is
  up for an hour, although the stream never recovered, and the reboots begin
  again (`recovery_ladder.py:375` speaks of "sustained stability",
  `docs/camera_stack_specification.md:1274` says the counter "Prevents infinite
  reboot loops"). `RecoveryIsBudgeted` is therefore stated between two clearings.
  `FAULT_INJECTION_PLAN.md:165` of the camera page knows no automatic reset
  ("Manual reset required").
- The reboot counter is written "Atomically" (`recovery_ladder.py:151`, `:168`)
  by truncating the file first; a power cut in between is read as no reboots. An
  increment that fails is logged and the node is rebooted uncounted. A reboot
  command that is not answered in time is not taken back, unlike one that fails.
- `thermal.py` enters SAFE when the node is hot, and the watchdog, which then
  finds the stream stopped, escalates, restarts the pipeline and may promote to
  NOMINAL while the thermal profile still is "stop".
- The listeners of a mode transition run after its lock is released
  (`system_mode.py:193`), so those of two transitions may run in the other order.
- A half-open circuit of the gateway lets every request through, and the success
  of one sent before the circuit opened closes it (`circuit_breaker.py:118`).
- A task that ends at once may store its final result before the worker stores
  its acknowledgement (`http_executor.py:294`); the stop of a cancelled transport
  that fails leaves the robot under way without an entry (`command_handler.py:624`).
- An e-stop accepted after `stop()` joined the e-stop threads is still being
  delivered when `stop()` ends (`bridge.py:227` says they "must complete delivery
  attempts"): handlers accept messages until MQTT is closed, two steps later.
- Error responses carry no `command_name`, by which `pending_results.py:68` knows
  a safety result, so the report of a failed e-stop is evicted before an ordinary
  result (`pending_results.py:3`: e-stop results "are protected from eviction").
- `recovery_service.py:3-5` says it cleans up terminal, waiting and unknown
  commands; its `clear_transport` does nothing, since the registry is empty after
  a start and only registered commands are deleted from the file. What it leaves is
  in `FileFollowsRegistry` as `persisted[c]`, until the command is registered
  again.
- A command sent again after a restart meets the recovery: whoever comes later
  overwrites, or the recovery clears, the entry of the other (`app/state.py:81`
  speaks of "idempotency across restarts").
- A request that waits for the scanner and is replaced while it asks for the
  status goes on, and the newer one is refused as busy (`command_handler.py:46`:
  "latest command wins").
- `http_status` is never set on the client's error, so a transport the controller
  answers 404 for is polled for ever (`transport_watcher.py:334`).
- A result is never persisted: the entry is cleared before `set_last_result`
  looks for it.
- A reconnect does not always end (`RECONNECT_FLOW.md:3`): a health check of a
  past generation sets the in-flight latch of the new one, and the timers that
  could clear it are stale; and a request made while reconnecting with nothing in
  flight is dropped by the state machine.
- Entering ERROR arms the automatic retry and cancels it with the next action, so
  an autonomous player stays in ERROR until the tab or the network comes back.
- After play, stop and play again the first frame is not announced, for the latch
  of the recovery notification is only opened by reconnecting; the player stays
  CONNECTING until the watchdog makes it reconnect.

## Proofs

`BridgeProofs` proves about `Bridge`, for any set of messages, identifiers and
deliveries and any numbers of threads and permits (from `BridgeAssumption` and
`DedupAssumption` only):

| Theorem | Property | Argument |
|---|---|---|
| `TypeCorrect` | `TypeOK` | inductive; the deduplicator's operations keep its type (`DedupTypes`) |
| `OneOwner` | `InFlightHasOneOwner` | inductive together with `TypeOK`: each action does one of five things to ownership, one lemma each (untouched, kept, added by `TryStart`, ended by `Finish`, left by a service request) |
| `Answered` | `NoSilentEnd` | not inductive: a message may end from a stage whose own step does not answer. Strengthened to `AnsweredOrShutdown`, over every stage past the answer |
| `MqttClosesLast` | `RequestsEndBeforeMqtt` | inductive together with `TypeOK`: the pool refuses requests from the moment `stop()` waits for it, so none is queued after the wait |
| `TasksWatched` | `ActiveTasksAreWatched` | inductive together with `TypeOK`: only registering and removing a task change who watches, each in one step with the table |
| `PermitsKept` | `PermitsAccountedFor` | with the auxiliary invariant `WatchedAfterRegistering` (a message has a watcher only once it is past registering it, so a count never loses a watcher that is replaced). `StageCount` says how moving one message changes the cardinality of a set of stages; `PermitsFollow` turns that into one obligation per action |

These are all the invariants of run `bridge`.

`PlayerProofs` proves about `Player`, from `PlayerAssumption` only (any limits of
attempts, attempts under way and overwritten timers, any settings and disturbances):

| Theorem | Property |
|---|---|
| `TypeCorrect`, `PlayingConnected` | `TypeOK`, `PlayingIsConnected` |
| `ActivityFits`, from `ActiveWatched`, `StoppedQuiet` and `ReconnectingRequested` | `ActivityFitsState` |
| `StoppedStays` | `StoppedUntilAsked` |
| `ConnectingFlows` | `ConnectingStartsAFlow` |
| `Implements` | `ImplementsPlayerStates`: each step is a step of `PlayerStates` or a stutter |

The inductive invariant is `Good`, the conjunction of these invariants. The code composes
functions from a player to a player, and so does the proof: a lemma for each
function says from which players it makes a good one. The key is that everything
that fails goes through `EnterError`, which makes a good player of any player;
so a function may break `Good` for its caller as long as each of its ends is a
transition that restores it. `Keeps` and `Starts` say which functions can leave a
stopped state, from which `StoppedStays` and `Implements` follow. `ConnectingFlows` needs one part
of `Good` more: a stopped player has no latch of a connect flow, so the flow it
starts is not refused.

`NavAdapterProofs` proves about `NavAdapter`, from `NavAssumption` only (any
commands, requests at a time, transports and crashes, with deletions or without),
all five invariants of run `nav`:

| Theorem | Property | Argument |
|---|---|---|
| `TypeCorrect` | `TypeOK`, with one entry per command | inductive as `Invariant`, together with `Belongs`: every handler, entry, task, queued write and line of the file that names a transport for a command names one created for that command |
| `FileFollowed` | `FileFollowsRegistry` | inductive with `Invariant` and `EntriesAccepted` (a registered transport was registered since the start): what an appended write, a write done, a write dropped and a file lost do to what the file will hold and to which commands are astray (`AppendHolds`, `AppendStrays`, `WriteHolds`, `WriteKeeps`, `LossKeeps`); any number of writes may fail |
| `OneNavigate` | `OneNavigateInTheWorks` | strengthened to `Alone`: who is past the lock is alone there, and every entry is ended, recovered or of a re-used id meanwhile; an entry marked as ended has a transport that did end, unless its id was re-used |
| `OneResultEach` | `OneResult` | strengthened to `Reported`: a transport is accepted once, an entry's transport has no result, that of a live task at most the cancel, one being stopped at most the failure |
| `NoneVanishes` | `AcceptedIsAccountedFor` | inductive with `Reported`: an entry leaves by a cancel, a result, a deletion, or to another transport of its command (`LeavesStep`) |

The registry is a list for the sake of which command is current; all the proof
needs is the set of its entries, and each step does one of five things to it
(`RegistryStep`).

`CommandDedupProofs` proves everything run `dedup` checks, for any identifiers,
payloads and limit of the history (from `CommandDedupAssumption`: the limit is
positive, and no outcome is the mark for "absent"):

| Theorem | Property | Argument |
|---|---|---|
| `TypeCorrect` | `TypeOK` | inductive: a lemma for each operation on the list of entries says that it stays a map with its expired entries in front |
| `Implements` | `ImplementsDedupTable` | what a list means to the callers (`Memory`) depends only on its entries (`SameMemory`), so each operation is judged by the entries it leaves: `Finish`, `Store` and `TryStart` are the steps of the table, ageing is `Forget`, purging an expired entry is a stutter |
| `HistoryKept` | `HistoryIsKept` | `FinishedIsRemembered`: either the entry found is not expired, or `Finish` appends one that is not. `NewerEvicts`: cleaning up returns a tail of the list, cut after the expired entries only if what is left has the size of the limit (`CleanupIsTail`); dropping an entry keeps the order of the others (`DropShifts`) |

`ResponsesProofs` proves the safety properties of run `responses`, for any
results, keys, capacity and choice of safety results (from
`ResponsesAssumption`):

| Theorem | Property |
|---|---|
| `TypeCorrect`, `OncePublished` | `TypeOK`, `PublishedOnce` |
| `FairEviction` | `EvictionIsFair` |

`PublishedOnce` is not inductive: it is the flush lock, the sender's hand-over
and the removal by identity together that keep it. The strengthening `Inv` says
that only the holder of the lock has a copy of the queue; that a result its
sender is not through with is nowhere else; that what a flusher has yet to
publish is not published; and that what waits is not published either, but for
the one result about to be removed. `StepDisplaces` reads the action property
off the two steps that take something out of the queue.

`MqttClientProofs` proves `TypeOK` (`TypeCorrect`) and `TopicsSubscribed`
(`Subscribed`), for any topics. `TopicsReached` drops the condition that no
callback runs: a topic is subscribed, or the callback of the session has yet to
take its snapshot, or has the topic still to do. It needs that a client is built
only after the one before lost its loop (`BuildsAlone`) and that a topic being
unsubscribed has left the table (`LeavingHasLeft`).

`RecoveryLadderProofs` proves the safety properties of run `ladder`, from
`LadderAssumption` only (any number of levels, attempts, reboots and healthy
checks, both settings on or off, any number of lost writes and disturbances):

| Theorem | Property | Argument |
|---|---|---|
| `TypeCorrect` | `TypeOK`, with the counter and the attempts within their limits | the counter is only raised by a thread that found it below the limit, alone under the lock; `before` was below it too |
| `Budgeted` | `RecoveryIsBudgeted` | `AttemptsRecorded`: attempts begun are at most those in memory plus the writes lost, and with no write lost the file holds what memory holds, so a new process is not more generous. `RebootsCounted`: reboots are at most the counter plus `MaxReboots` for each write lost; a thread about to reboot has one to spare, and taking the count back leaves none uncovered |
| `LastResort` | `RebootIsLastResort` | `Climbed`: every level below the current one is used up, in memory and in the file (at the end of the ladder nothing is claimed: a tripped counter puts a new process there); `ActsAtItsLevel`: the thread that is to reboot is at the last level, since no other thread moves the ladder while it holds the lock |

None of the three is inductive. `IInv` joins `TypeOK`, `OneHolds` (one thread
inside the lock), `ActsAtItsLevel`, `Climbed`, `AttemptsRecorded` and
`RebootsCounted`. A lemma for each group of actions shows that it keeps `IInv`;
steps that touch neither ladder nor counter share one (`AsideKeeps`), and
`StartStep` covers every restart and boot, from a whole file or a torn one.

Only model-checked: every liveness property
(`EstopReachesRobotOrAlerts`, `CommandsFinish`, `DroppedDuplicateIsAnswered`,
`StopTerminates`, `QueueDrains`, `SignalIsActedOn`, `LoopingClientReconnects`, `StopEnds`,
`FrozenPictureIsNoticed`, `StopSettles`, `AcceptedIsSettled`,
`PersistentFaultEndsInSafe`). Liveness under
fairness is outside the prover's reach and stays with TLC.

## Not modelled

- The safety gate (`safety_gate.py`) decides by the age of the last safety
  message; its verdict is a choice in `Bridge`.
- Status topics (navigation status, heartbeat) are published and never queued;
  no property is about them. The order of an acknowledgement and a final result
  in the history and on those topics is a hazard that stays open.
- Validation, path and host checks, payload models, TLS, metrics, logging.
- Telemetry, hub-auth, config-api, frontend: periodic I/O or CRUD without a
  protocol of their own.
- `destroy()` of the player, its rendering, statistics and joystick; the streaming
  adapter and the session manager behind it, which are a queue around the Janus
  library.
- In the navigation adapter: `SYMOVO_CLEAR_TRANSPORTS_BEFORE_NAVIGATE` (off by
  default; it deletes all transports and clears the registry before a create),
  sessions and progress, statuses, the limit of 1000 of the write queue, the eviction of the oldest
  commands when the file holds more than 200 (`persistence_store.py:190-203`), which
  would take a registered command out of the file after 200 newer ones.
- On the camera page: the listeners of a mode transition (`mode_enforcer.py`
  starts and stops the pipeline), the loop of `thermal.py` beyond its changes of
  the mode, how the age of a snapshot is measured, stopping, the relays and
  proxies.
- The robot, igus and xArm services and the gateway:
  see the plan. In `Bridge` they are the service that answers, answers with a
  task, or fails.
- Most lines of the repository's JavaScript are bundles of other projects
  (`frontend_service/static/js/vendors~main`, `monaco-editor`, `main`, `control`,
  and `janus.js`, some 335,000 lines): an editor, a 3D viewer and the Janus
  library. The project's own protocols are in the Python services and in the
  player.

## Plan

Done: `DedupTable`, `CommandDedup`, `Bridge`, `Responses`, `MqttClient`,
`PlayerStates`, `Player`, `NavAdapter`, `RecoveryLadder` with their runs; their
safety properties proved as listed. What is left, in order of
what matters most to the robot:

1. `SafetyGate`: the retained safety message from the navigation adapter to the
   bridge, fail-closed by age.
2. `CircuitBreaker` (gateway), a small module of overlapping requests.
3. The listeners of the system mode with `thermal.py`: whether the pipeline ends
   up as the mode says.
4. Candidates after that: the xArm actor, the igus executor, the joystick
   pipeline with the safety kernel.
