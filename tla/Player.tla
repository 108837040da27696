-------------------------------- MODULE Player --------------------------------
(***************************************************************************)
(* The camera player of the browser page: PlayerController with its        *)
(* canonical state machine, connection policy, watchdog and timers, and    *)
(* the ReconnectCoordinator (janus_camera_page/templates/player).          *)
(*                                                                         *)
(* The page has one thread.  An action is one task of its event loop; the  *)
(* calls a task makes are operators from a player to a player, composed    *)
(* as the code nests them.  Tasks interleave only where the code awaits:   *)
(* a connect flow, and a reconnect attempt before and after its health     *)
(* check.  Delays are configurable, so a pending timer may fire at any     *)
(* time.  The streaming port is modelled by the events it may raise.       *)
(*                                                                         *)
(* The session token is only ever compared with the current one, so what   *)
(* a timer or a continuation captured is "current", or "past" once a new   *)
(* generation has begun.                                                   *)
(***************************************************************************)
EXTENDS Naturals

CONSTANTS AutonomousSettings,   \* the values cfg.autonomousEnabled may have
          MaxReconnectAttempts, \* cfg.maxReconnectAttempts
          MaxSoftAttempts,      \* maxWatchRetries + maxReattachRetries
          Disturbances,         \* bound: what the surroundings do in a run
          MaxRuns,              \* bound: attempts under way at a time
          MaxLeaked             \* bound: timers no variable holds any more

ASSUME PlayerAssumption ==
    /\ AutonomousSettings \subseteq BOOLEAN
    /\ MaxReconnectAttempts \in Nat \ {0}
    /\ MaxSoftAttempts \in Nat
    /\ Disturbances \subseteq {"hide", "online", "mute", "session"}
    /\ MaxRuns \in Nat \ {0}
    /\ MaxLeaked \in Nat

VARIABLE player

Active  == {"CONNECTING", "PLAYING", "RECONNECTING"}
States  == Active \cup {"IDLE", "ERROR"}
Soft    == 1
Medium  == 2
Hard    == 3
Ages    == {"current", "past"}
Timers  == Ages \cup {"none"}
Runs    == Ages \X {"health", "exec"}

(* desired is desiredPlaying, silent that the last frame is older than the *)
(* thresholds, shown that tab and video element are visible, iceState      *)
(* "new" stands for checking too and "connected" for completed.  pending   *)
(* is the severity of the coordinator's request, 0 for none.  flows are    *)
(* the connect flows under way ("past" for one or more), running counts    *)
(* the continuations of _runScheduled, leaked the schedule timers          *)
(* overwritten while pending.                                              *)
PlayerType ==
    [state : States, autonomous : BOOLEAN, desired : BOOLEAN, webrtcUp : BOOLEAN, firstFrame : BOOLEAN,
     iceState : {"new", "connected", "disconnected"}, recoveryNotified : BOOLEAN,
     streamSelected : BOOLEAN, sessionEvents : BOOLEAN,
     connectInFlight : BOOLEAN, flows : SUBSET Ages,
     watchdog : BOOLEAN, silent : BOOLEAN, shown : BOOLEAN,
     iceGrace : BOOLEAN, trackMute : BOOLEAN, errorRetry : BOOLEAN,
     attempt : Nat, pending : 0..Hard, inFlight : BOOLEAN, expectedResets : 0..2,
     scheduleTimer : Timers, settleStartTimer : Timers, settleTimer : Timers,
     leaked : [Ages -> Nat], running : [Runs -> Nat]]

TypeOK == player \in PlayerType

Init ==
    \E setting \in AutonomousSettings :
    player = [state |-> "IDLE", autonomous |-> setting, desired |-> FALSE, webrtcUp |-> FALSE, firstFrame |-> FALSE,
              iceState |-> "new", recoveryNotified |-> FALSE,
              streamSelected |-> FALSE, sessionEvents |-> TRUE,
              connectInFlight |-> FALSE, flows |-> {},
              watchdog |-> FALSE, silent |-> TRUE, shown |-> TRUE,
              iceGrace |-> FALSE, trackMute |-> FALSE, errorRetry |-> FALSE,
              attempt |-> 0, pending |-> 0, inFlight |-> FALSE, expectedResets |-> 0,
              scheduleTimer |-> "none", settleStartTimer |-> "none", settleTimer |-> "none",
              leaked |-> [a \in Ages |-> 0], running |-> [r \in Runs |-> 0]]

Larger(m, n) == IF m > n THEN m ELSE n
AtMost(m, n) == IF m < n THEN m ELSE n

Connected(p) == p.webrtcUp /\ p.firstFrame
ShouldContinue(p) == p.shown /\ p.autonomous /\ p.desired /\ p.state # "ERROR"

-----------------------------------------------------------------------------
(* Generations, timers and the transitions that stop the player. *)

Aged(timer) == IF timer = "current" THEN "past" ELSE timer
AgedFlows(flows) == IF flows = {} THEN {} ELSE {"past"}
AgedLeaks(leaked) ==
    [a \in Ages |-> IF a = "current" THEN 0
                    ELSE AtMost(leaked["current"] + leaked["past"], MaxLeaked)]
AgedRuns(running) ==
    [r \in Runs |-> IF r[1] = "current" THEN 0
                    ELSE running[<<"current", r[2]>>] + running[r]]

NewGeneration(p) ==
    [p EXCEPT !.scheduleTimer = Aged(@), !.settleStartTimer = Aged(@), !.settleTimer = Aged(@),
              !.flows = AgedFlows(@), !.leaked = AgedLeaks(@), !.running = AgedRuns(@)]

ClearTimers(p) ==
    [p EXCEPT !.scheduleTimer = "none", !.settleStartTimer = "none", !.settleTimer = "none"]

ResetReconnect(p) == [ClearTimers(p) EXCEPT !.attempt = 0, !.pending = 0, !.inFlight = FALSE]

(* Mistake: the latch of the connect flow is left to the flow. *)
StopAllLatched(p) ==
    [ResetReconnect(p) EXCEPT !.watchdog = FALSE, !.iceGrace = FALSE, !.trackMute = FALSE,
                              !.errorRetry = FALSE]

(* Mistake: the coordinator is not reset. *)
StopAllButReconnect(p) ==
    [p EXCEPT !.watchdog = FALSE, !.iceGrace = FALSE, !.trackMute = FALSE,
              !.errorRetry = FALSE, !.connectInFlight = FALSE]

StopAll(p) ==
    [ResetReconnect(p) EXCEPT !.watchdog = FALSE, !.iceGrace = FALSE, !.trackMute = FALSE,
                              !.errorRetry = FALSE, !.connectInFlight = FALSE]

(* streaming.stop() also ends the adapter's subscription to session events. *)
StopStreaming(p) == [p EXCEPT !.sessionEvents = FALSE]

StartWatchdog(p) == [p EXCEPT !.watchdog = TRUE]

Disconnected(p, s) == [p EXCEPT !.state = s, !.webrtcUp = FALSE, !.firstFrame = FALSE]

(* Mistake: a failed player still means to play. *)
EnterErrorStillWanted(p) == StopStreaming(StopAll(Disconnected(p, "ERROR")))

(* Entering ERROR schedules the automatic retry; the action that follows,  *)
(* CANCEL_ALL_TIMERS, cancels it.                                          *)
EnterError(p) ==
    StopStreaming(StopAll(
        [Disconnected(p, "ERROR") EXCEPT !.desired = FALSE, !.errorRetry = @ \/ p.autonomous]))

FailClosed(p) == EnterError([p EXCEPT !.iceState = "new"])
Fail(p) == FailClosed(NewGeneration(p))

(* Mistake: no gate. *)
GateOpen(p) == p

(* InvariantGate: PLAYING without media; the ICE state is left alone.      *)
Gate(p) == IF p.state = "PLAYING" /\ ~Connected(p) THEN EnterError(p) ELSE p

-----------------------------------------------------------------------------
(* ReconnectCoordinator. *)

(* Mistake: severities of merged requests add up. *)
EscalateBySum(p, severity) == [p EXCEPT !.pending = @ + severity]

Escalate(p, severity) == [p EXCEPT !.pending = Larger(@, severity)]
EscalatePending(p) == IF p.pending = 0 THEN p ELSE Escalate(p, Hard)

(* A schedule timer still pending is overwritten and fires all the same.   *)
Leak(p) ==
    IF p.scheduleTimer = "none" \/ p.leaked[p.scheduleTimer] >= MaxLeaked THEN p
    ELSE [p EXCEPT !.leaked[p.scheduleTimer] = @ + 1]

ScheduleNext(p) ==
    IF p.pending = 0 \/ ~ShouldContinue(p) THEN p
    ELSE IF p.attempt >= MaxReconnectAttempts THEN Fail(p)
    ELSE [Leak(p) EXCEPT !.scheduleTimer = "current"]

EndAttempt(p) == ScheduleNext([p EXCEPT !.inFlight = FALSE])

Request(p, severity) ==
    LET q == Escalate(p, severity)
    IN  IF q.inFlight \/ q.scheduleTimer # "none" THEN q ELSE ScheduleNext(q)

ResumeIfPending(p) ==
    IF p.inFlight \/ p.scheduleTimer # "none" THEN p ELSE ScheduleNext(p)

NotifyAttemptFailed(p, severity) ==
    IF p.inFlight THEN EndAttempt(ClearTimers(Escalate(p, severity))) ELSE p

StartSettleWindow(p) ==
    IF ~p.inFlight \/ p.settleTimer # "none" THEN p
    ELSE [p EXCEPT !.settleStartTimer = "none", !.settleTimer = "current"]

-----------------------------------------------------------------------------
(* handleEvent: the transitions of the canonical state machine, with their *)
(* effects.  An event a state does not know fails closed.  Rendering and   *)
(* the degraded mark are left out.                                         *)

StartJanus(p) ==
    IF p.connectInFlight THEN p
    ELSE [p EXCEPT !.connectInFlight = TRUE, !.flows = @ \cup {"current"}]

(* Mistake: the watchdog is left to the connect flow. *)
EnterConnectingUnwatched(p) ==
    LET q == [Disconnected(NewGeneration(p), "CONNECTING") EXCEPT !.iceState = "new"]
    IN  StartJanus(IF p.state = "ERROR" THEN StopAll(q) ELSE q)

EnterConnecting(p) ==
    LET q == [Disconnected(NewGeneration(p), "CONNECTING") EXCEPT !.iceState = "new"]
    IN  StartWatchdog(StartJanus(IF p.state = "ERROR" THEN StopAll(q) ELSE q))

PlayRequest(p) ==
    CASE p.state \in {"IDLE", "ERROR"} -> EnterConnecting(p)
      [] p.state = "PLAYING" -> StartWatchdog(p)
      [] OTHER -> FailClosed(p)

Reset(p) == IF p.state = "ERROR" THEN EnterConnecting(p) ELSE FailClosed(p)

StopRequest(p) ==
    IF p.state \in Active
    THEN StopStreaming(StopAll([Disconnected(p, "IDLE") EXCEPT !.iceState = "new"]))
    ELSE FailClosed(p)

(* Mistake: the latch of the recovery notification stays closed. *)
EnterReconnectingLatched(p, severity) ==
    Request([p EXCEPT !.state = "RECONNECTING", !.webrtcUp = @ /\ p.state # "PLAYING"], severity)

EnterReconnecting(p, severity) ==
    Request([p EXCEPT !.state = "RECONNECTING", !.recoveryNotified = FALSE,
                      !.webrtcUp = @ /\ p.state # "PLAYING"], severity)

(* While reconnecting, a further request is dropped by the state machine.  *)
ReconnectScheduled(p, severity) ==
    CASE p.state \in {"CONNECTING", "PLAYING"} -> EnterReconnecting(p, severity)
      [] p.state = "RECONNECTING" -> p
      [] OTHER -> FailClosed(p)

IceFailed(p) ==
    IF p.state \in {"CONNECTING", "PLAYING"} THEN EnterReconnecting(p, Hard) ELSE FailClosed(p)

(* Reports of the connection are known to every active state.              *)
Report(p) ==
    LET q == IF p.state \in Active THEN Gate(p) ELSE FailClosed(p)
    IN  IF q.state \in {"CONNECTING", "PLAYING"} THEN StartWatchdog(q) ELSE q

ReconnectSuccess(p) ==
    CASE p.state = "RECONNECTING" ->
             StartWatchdog(ResetReconnect(
                 [p EXCEPT !.state = "PLAYING", !.webrtcUp = TRUE, !.firstFrame = TRUE]))
      [] p.state = "PLAYING" -> StartWatchdog(p)
      [] OTHER -> FailClosed(p)

(* Mistake: cancelling all timers leaves PLAYING without its watchdog. *)
StreamRecoveredUnwatched(p) ==
    IF p.state = "CONNECTING"
    THEN Gate(StopAll([p EXCEPT !.state = "PLAYING", !.webrtcUp = TRUE]))
    ELSE ReconnectSuccess(p)

StreamRecovered(p) ==
    IF p.state = "CONNECTING"
    THEN Gate(StartWatchdog(StopAll([p EXCEPT !.state = "PLAYING", !.webrtcUp = TRUE])))
    ELSE ReconnectSuccess(p)

RecoveryAttemptStarted(p) ==
    IF p.state = "RECONNECTING" THEN Disconnected(p, "RECONNECTING") ELSE FailClosed(p)

-----------------------------------------------------------------------------
(* Decisions of the connection policy and their application. *)

RequestRecovery(p, severity) ==
    IF p.autonomous /\ p.desired /\ p.state # "ERROR"
    THEN ReconnectScheduled(p, severity) ELSE p

HandleFailure(p, severity) ==
    IF p.state = "RECONNECTING" /\ p.inFlight
    THEN NotifyAttemptFailed(p, severity)
    ELSE RequestRecovery(p, severity)

(* HANGUP and WEBRTC_DOWN: an ICE reason only degrades a flowing stream.   *)
HandleLoss(p, iceReason) ==
    IF ~iceReason THEN HandleFailure(p, Medium)
    ELSE IF p.firstFrame THEN p ELSE HandleFailure(p, Hard)

TryNotifyRecovered(p) ==
    IF /\ p.state = "RECONNECTING" /\ Connected(p)
       /\ p.inFlight /\ p.settleTimer # "none"
    THEN ReconnectSuccess(ResetReconnect(p))
    ELSE p

Retry(p) == Reset([p EXCEPT !.desired = TRUE])

-----------------------------------------------------------------------------
(* The user. *)

TogglePlay ==
    player' = IF player.desired
              THEN StopRequest([player EXCEPT !.desired = FALSE])
              ELSE PlayRequest([player EXCEPT !.desired = TRUE])

(* The retry button is shown in ERROR only. *)
RetryPressed == player.state = "ERROR" /\ player' = Retry(player)

(* Which of the two hides, tab or element, shows when it ends. *)
Hide == "hide" \in Disturbances /\ player.shown /\ player' = [player EXCEPT !.shown = FALSE]

ElementVisible ==
    /\ ~player.shown
    /\ LET p == [player EXCEPT !.shown = TRUE, !.silent = FALSE]
       IN  player' = IF p.state = "RECONNECTING" THEN ResumeIfPending(p) ELSE p

TabVisible ==
    /\ ~player.shown
    /\ \E long \in BOOLEAN :
         LET p == [player EXCEPT !.shown = TRUE]
             r == ResumeIfPending(IF long THEN EscalatePending(p) ELSE p)
         IN  player' =
               CASE p.state = "ERROR" -> Retry(p)
                 [] p.state = "RECONNECTING" ->
                      IF r.pending = 0 /\ ~r.inFlight THEN Retry(r) ELSE r
                 [] p.state \in {"PLAYING", "CONNECTING"} /\ long -> RequestRecovery(p, Hard)
                 [] p.state \in {"PLAYING", "CONNECTING"} /\ ~long ->
                      [p EXCEPT !.silent = FALSE]
                 [] OTHER -> p

NetworkOnline ==
    /\ "online" \in Disturbances
    /\ player' = CASE player.state = "ERROR" -> [player EXCEPT !.errorRetry = TRUE]
                [] player.state = "RECONNECTING" -> Request(ResetReconnect(player), Hard)
                [] player.state = "PLAYING" /\ player.silent -> RequestRecovery(player, Hard)
                [] OTHER -> player

-----------------------------------------------------------------------------
(* Events of the streaming port; they carry the current token. *)

Listening(p) == p.desired \/ p.state \in {"CONNECTING", "RECONNECTING"}
CanReport(p) == p.state \in Active

IceReport ==
    /\ Listening(player) /\ CanReport(player)
    /\ \E s \in {"new", "connected", "disconnected"} :
         player' = Report([player EXCEPT !.iceState = s,
                                         !.iceGrace = (@ \/ s = "disconnected") /\ s # "connected",
                                         !.silent = @ /\ s # "connected"])

IceFails == Listening(player) /\ CanReport(player) /\ player' = IceFailed(player)

WebrtcUp ==
    /\ Listening(player) /\ CanReport(player)
    /\ player' = TryNotifyRecovered(Report([player EXCEPT !.webrtcUp = TRUE]))

(* In PLAYING the loss is left to the policy. *)
WebrtcDown ==
    /\ Listening(player)
    /\ \E iceReason \in BOOLEAN :
         player' = HandleLoss(IF player.state = "PLAYING" \/ ~CanReport(player) THEN player
                              ELSE Report([player EXCEPT !.webrtcUp = FALSE]), iceReason)

Hangup ==
    /\ Listening(player)
    /\ \E iceReason \in BOOLEAN : player' = HandleLoss(player, iceReason)

TrackMuted ==
    /\ "mute" \in Disturbances
    /\ Listening(player) /\ CanReport(player)
    /\ \E muted \in BOOLEAN : player' = Report([player EXCEPT !.trackMute = muted])

(* TRACK_ENDED, or an error other than 460; then 460, already watching.    *)
StreamError ==
    /\ Listening(player)
    /\ \E severity \in {Medium, Hard} : player' = HandleFailure(player, severity)

SessionReset ==
    /\ "session" \in Disturbances
    /\ player.sessionEvents /\ Listening(player)
    /\ player' =
         IF player.state = "RECONNECTING" /\ player.inFlight /\ player.expectedResets > 0
         THEN [player EXCEPT !.expectedResets = @ - 1]
         ELSE LET p == IF CanReport(player) THEN Report([player EXCEPT !.webrtcUp = FALSE])
                       ELSE player
              IN  IF p.desired THEN HandleFailure(p, Hard) ELSE p

OfferReceived ==
    /\ Listening(player) /\ player.state = "RECONNECTING"
    /\ player' = StartSettleWindow(player)

-----------------------------------------------------------------------------
(* Frames, and the timers that watch them. *)

CanTransitionOnFrame(p) ==
    p.state = "CONNECTING" \/ (p.state = "RECONNECTING" /\ p.webrtcUp)

(* Once stopped, a frame or its absence is noted by nobody. *)
Frame ==
    /\ player.shown /\ player.desired
    /\ LET p == [player EXCEPT !.silent = FALSE,
                               !.firstFrame = @ \/ (player.webrtcUp /\ CanTransitionOnFrame(player))]
       IN  player' = IF /\ Connected(p) /\ CanTransitionOnFrame(p)
                        /\ ~p.recoveryNotified
                     THEN StreamRecovered(TryNotifyRecovered([p EXCEPT !.recoveryNotified = TRUE]))
                     ELSE p

(* No frame for longer than the thresholds. *)
Silence == player.desired /\ ~player.silent /\ player' = [player EXCEPT !.silent = TRUE]

WatchdogTick ==
    /\ player.watchdog /\ player.silent /\ player.desired
    /\ player' = CASE ~player.shown -> [player EXCEPT !.silent = FALSE]
                   [] /\ player.shown /\ player.state \in {"CONNECTING", "PLAYING"}
                      /\ player.iceState # "new" -> HandleFailure(player, Medium)
                   [] OTHER -> player

FpsDrop ==
    /\ player.watchdog /\ ~player.silent /\ player.desired /\ player.shown
    /\ player.state \in {"CONNECTING", "PLAYING"}
    /\ player' = HandleFailure(player, Medium)

VideoStalled ==
    /\ player.desired /\ player.shown /\ player.state = "PLAYING" /\ player.silent
    /\ player' = HandleFailure(player, Medium)

IceGraceExpires ==
    /\ player.iceGrace
    /\ LET p == [player EXCEPT !.iceGrace = FALSE]
       IN  player' = IF p.iceState = "disconnected" /\ ~(p.firstFrame /\ ~p.silent)
                     THEN HandleFailure(p, Medium) ELSE p

TrackMuteExpires ==
    /\ player.trackMute
    /\ player' = HandleFailure([player EXCEPT !.trackMute = FALSE], Medium)

ErrorRetryExpires ==
    /\ player.errorRetry
    /\ LET p == [player EXCEPT !.errorRetry = FALSE]
       IN  player' = IF p.state = "ERROR" THEN Retry(p) ELSE p

-----------------------------------------------------------------------------
(* The connect flow.  Init, watch and play are one stretch: between them   *)
(* it only looks whether it is stale.  Errors of the streaming port are    *)
(* swallowed by its queue, so it fails only for want of a stream.          *)

(* Mistake: only the token is compared, which a stop does not change. *)
StaleByToken(p, age) == age = "past"

Stale(p, age) == age = "past" \/ ~p.desired

StreamListed ==
    /\ ~player.streamSelected
    /\ player.flows # {} \/ \E a \in Ages : player.running[<<a, "exec">>] > 0
    /\ player' = [player EXCEPT !.streamSelected = TRUE]

ConnectFlowEnds ==
    \E age \in player.flows, outcome \in {"playing", "blocked", "no stream"} :
      /\ (outcome = "no stream") = ~player.streamSelected
      /\ \E left \in {player.flows \ {age}} \cup (IF age = "past" THEN {player.flows} ELSE {}) :
         LET p == [player EXCEPT !.flows = left]
             q == CASE Stale(p, age) -> p
                    [] ~Stale(p, age) /\ outcome = "playing" -> StartWatchdog(p)
                    [] OTHER -> Fail(p)
         IN  player' = [q EXCEPT !.connectInFlight = FALSE]

-----------------------------------------------------------------------------
(* _runScheduled: the backoff timer, the health check, the attempt.  The   *)
(* timer that fires also clears the one in _scheduleTimer, its own or not. *)

Total(p) == p.running[<<"current", "health">>] + p.running[<<"past", "health">>]
            + p.running[<<"current", "exec">>] + p.running[<<"past", "exec">>]

Runnable(p, age) == ShouldContinue(p) /\ age = "current" /\ ~p.inFlight

RunScheduled(p, age) ==
    LET q == [p EXCEPT !.scheduleTimer = "none"]
    IN  IF ~Runnable(q, age) THEN q
        ELSE IF Connected(q)
             THEN ReconnectSuccess([ClearTimers(q) EXCEPT !.attempt = 0, !.pending = 0])
             ELSE [q EXCEPT !.running[<<age, "health">>] = @ + 1]

HasRoom(p, age) == Runnable(p, age) /\ ~Connected(p) => Total(p) < MaxRuns

ScheduleFires ==
    /\ player.scheduleTimer # "none" /\ HasRoom(player, player.scheduleTimer)
    /\ player' = RunScheduled(player, player.scheduleTimer)

LeakedTimerFires ==
    \E age \in Ages :
      /\ player.leaked[age] > 0 /\ HasRoom(player, age)
      /\ player' = RunScheduled([player EXCEPT !.leaked[age] = @ - 1], age)

HealthCheckFails ==
    \E age \in Ages :
      /\ player.running[<<age, "health">>] > 0
      /\ player' = ScheduleNext([player EXCEPT !.running[<<age, "health">>] = @ - 1])

(* decideRecoveryAction; a dead session is always recreated. *)
Recreates(p, dead) == p.pending = Hard \/ p.attempt > MaxSoftAttempts \/ dead

(* _executeRecoveryAttempt up to its first await. *)
BeginAttempt(p, age, dead) ==
    IF Stale(p, age) THEN p
    ELSE LET q == [RecoveryAttemptStarted(p) EXCEPT !.iceGrace = FALSE, !.trackMute = FALSE]
         IN  IF Recreates(p, dead) THEN [q EXCEPT !.expectedResets = 2] ELSE StopStreaming(q)

(* Nothing is looked at again after the health check. *)
HealthCheckOk ==
    \E age \in Ages, dead \in BOOLEAN :
      /\ player.running[<<age, "health">>] > 0
      /\ player' = BeginAttempt([player EXCEPT !.running[<<age, "health">>] = @ - 1,
                                               !.running[<<age, "exec">>] = @ + 1,
                                               !.inFlight = TRUE, !.attempt = @ + 1], age, dead)

Leaves(p, age) == [p EXCEPT !.running[<<age, "exec">>] = @ - 1, !.settleStartTimer = "none"]

(* The streaming calls returned (at once when stale): wait for an offer.   *)
AttemptReturns ==
    \E age \in Ages :
      /\ player.running[<<age, "exec">>] > 0
      /\ player.streamSelected \/ Stale(player, age)
      /\ LET p == Leaves(player, age)
             q == IF Stale(p, age) THEN p ELSE StartWatchdog(p)
         IN  player' = IF q.settleTimer # "none" THEN q ELSE [q EXCEPT !.settleStartTimer = age]

(* The attempt found no stream, or timed out: the latter escalates.  What  *)
(* it still awaits then goes on, but only to watch and restart the         *)
(* watchdog of an active player.                                           *)
AttemptThrows ==
    \E age \in Ages, timeout \in BOOLEAN :
      /\ player.running[<<age, "exec">>] > 0
      /\ timeout \/ (~player.streamSelected /\ ~Stale(player, age))
      /\ LET p == Leaves(player, age)
         IN  player' = EndAttempt(IF timeout THEN EscalatePending(p) ELSE p)

(* Mistake: a player that should not continue waits again. *)
SettleStartExpiresWaiting ==
    /\ player.settleStartTimer # "none"
    /\ player' = IF ShouldContinue(player)
                 THEN EndAttempt(EscalatePending([player EXCEPT !.settleStartTimer = "none"]))
                 ELSE player

SettleStartExpires ==
    /\ player.settleStartTimer # "none"
    /\ LET p == [player EXCEPT !.settleStartTimer = "none"]
       IN  player' = IF p.settleTimer # "none" \/ player.settleStartTimer = "past" THEN p
                     ELSE IF ShouldContinue(p) THEN EndAttempt(EscalatePending(p))
                     ELSE [p EXCEPT !.inFlight = FALSE]

SettleExpires ==
    /\ player.settleTimer # "none"
    /\ LET p == [player EXCEPT !.settleTimer = "none"]
       IN  player' = IF ShouldContinue(p) /\ player.settleTimer = "current"
                     THEN EndAttempt(EscalatePending(p))
                     ELSE [p EXCEPT !.inFlight = FALSE]

-----------------------------------------------------------------------------
User      == TogglePlay \/ RetryPressed \/ Hide \/ ElementVisible \/ TabVisible \/ NetworkOnline
Streaming == \/ IceReport \/ IceFails \/ WebrtcUp \/ WebrtcDown \/ Hangup
             \/ TrackMuted \/ StreamError \/ SessionReset \/ OfferReceived
Media     == Frame \/ Silence \/ FpsDrop \/ VideoStalled
Timer     == IceGraceExpires \/ TrackMuteExpires \/ ErrorRetryExpires
Connect   == StreamListed \/ ConnectFlowEnds
Reconnect == \/ ScheduleFires \/ LeakedTimerFires \/ HealthCheckFails \/ HealthCheckOk
             \/ AttemptReturns \/ AttemptThrows \/ SettleStartExpires \/ SettleExpires

Next == User \/ Streaming \/ Media \/ WatchdogTick \/ Timer \/ Connect \/ Reconnect

(* Timers fire, health checks and attempts end at their timeouts.  Nothing *)
(* makes the user act, a frame arrive or a connect flow return.            *)
Fairness == /\ WF_player(WatchdogTick)
            /\ WF_player(Timer)
            /\ WF_player(Reconnect)

Spec == Init /\ [][Next]_player /\ Fairness

-----------------------------------------------------------------------------
(* What the player promises: the laws of SAFETY_LAWS.md and what the       *)
(* comments of the controller say, over every interleaving of its timers,  *)
(* awaited calls, stream events and its user.                              *)

Stopped(p) == p.state \in {"IDLE", "ERROR"}

(* L4: a player that says PLAYING has WebRTC up and has shown a frame,     *)
(* whatever order the reports and a session reset arrive in.               *)
PlayingIsConnected == player.state = "PLAYING" => Connected(player)

(* An active player is one the user wants, and its watchdog ticks: no      *)
(* transition that cancels all timers leaves an active state unwatched.    *)
ActiveIsWatched == player.state \in Active => player.desired /\ player.watchdog

(* What is left of L6 and L15: whichever of its many exits the player took *)
(* to stop, it and its coordinator hold no watchdog, grace or mute timer,  *)
(* no backoff or settle timer, no pending request and no connect latch; a  *)
(* retry is armed in ERROR only, where the network coming back arms it.    *)
(* Two timers that may be pending in a stopped player are left out: a      *)
(* backoff timer that was overwritten, which nobody holds, and the wait    *)
(* for an offer that an attempt under way arms after the stop.  Against    *)
(* the laws they are there (StoppedHoldsNoTimer); what they cannot do is   *)
(* to restart the player (StoppedUntilAsked) or to go on (StopSettles).    *)
StoppedIsQuiet ==
    Stopped(player) =>
        /\ ~player.desired /\ ~Connected(player)
        /\ ~player.watchdog /\ ~player.iceGrace /\ ~player.trackMute
        /\ player.errorRetry => player.state = "ERROR"
        /\ player.pending = 0 /\ ~player.connectInFlight
        /\ player.scheduleTimer = "none" /\ player.settleTimer = "none"

(* L5: while reconnecting there is a request to work on and the latch of   *)
(* the recovery notification is open, so that a frame can end it.          *)
ReconnectingIsRequested ==
    player.state = "RECONNECTING" => player.pending > 0 /\ ~player.recoveryNotified

(* What player and coordinator hold beside the state machine - timers,     *)
(* requests, latches - fits its state, whichever way into it was taken,    *)
(* but for the timers StoppedIsQuiet leaves out.                           *)
ActivityFitsState == ActiveIsWatched /\ StoppedIsQuiet /\ ReconnectingIsRequested

(* A player that enters CONNECTING starts a connect flow of its own: the   *)
(* latch of a flow that a stop left behind never swallows it.              *)
ConnectingStartsAFlow ==
    [][player.state # "CONNECTING" /\ player'.state = "CONNECTING"
         => "current" \in player'.flows]_player

(* E3, L7: only the user restarts a stopped player, or in ERROR the tab    *)
(* that becomes visible and the retry after the network came back; no      *)
(* timer, continuation or stream event does.                               *)
StoppedUntilAsked ==
    [][Stopped(player) /\ player'.state # player.state
         => TogglePlay \/ (player.state = "ERROR" /\ (RetryPressed \/ TabVisible \/ ErrorRetryExpires))]_player

(* The player as its user sees it. *)
Seen == INSTANCE PlayerStates WITH state <- player.state, wanted <- player.desired
ImplementsPlayerStates == Seen!Spec

(* A picture that freezes while the player says PLAYING is noticed: the    *)
(* player leaves PLAYING, or frames come again, or the page is hidden.     *)
FrozenPictureIsNoticed ==
    (player.state = "PLAYING" /\ player.silent /\ player.iceState # "new" /\ player.autonomous)
    ~> (\/ player.state # "PLAYING" \/ ~player.silent
        \/ ~player.shown \/ player.iceState = "new")

(* Stopped for good, the player comes to rest: attempts and health checks  *)
(* end and the last wait for an offer is not followed by another.          *)
StopSettles ==
    <>[](player.state = "IDLE")
    => <>[](/\ player.settleStartTimer = "none"
            /\ \A r \in Runs : player.running[r] = 0)

-----------------------------------------------------------------------------
(* What the code's documentation says and the code does not do.            *)

(* SAFETY_LAWS.md:28: "STOPPED implies: No active timers", where IDLE is   *)
(* "the stopped state (no timers, no sessions)" (line 92).  The timers are *)
(* those of player and coordinator; the time limits of a health check and  *)
(* of an attempt under way, which only end their await, are left out.      *)
StoppedHoldsNoTimer ==
    player.state = "IDLE" =>
        /\ ~player.watchdog /\ ~player.iceGrace /\ ~player.trackMute /\ ~player.errorRetry
        /\ player.scheduleTimer = "none" /\ player.settleStartTimer = "none"
        /\ player.settleTimer = "none" /\ \A a \in Ages : player.leaked[a] = 0
=============================================================================
