----------------------------- MODULE PlayerProofs -----------------------------
(***************************************************************************)
(* Proofs about the camera player: its invariants, that a stopped player   *)
(* stays stopped until asked, and that it implements PlayerStates.         *)
(*                                                                         *)
(* The code is a composition of functions from a player to a player, and   *)
(* so is the argument: a lemma per function says from which players it     *)
(* makes a good one.  Good is the inductive invariant.  All that fails     *)
(* goes through EnterError, which makes a good player of any player, so    *)
(* most functions need little of the player they get.                      *)
(***************************************************************************)
EXTENDS Player, TLAPS

Shows(p) == p.state = "PLAYING" => Connected(p)
Wants(p) == p.state \in Active => p.desired /\ p.watchdog
Rests(p) ==
    Stopped(p) => /\ ~p.desired /\ ~Connected(p)
                  /\ ~p.watchdog /\ ~p.iceGrace /\ ~p.trackMute
                  /\ p.errorRetry => p.state = "ERROR"
                  /\ p.pending = 0 /\ ~p.connectInFlight
                  /\ p.scheduleTimer = "none" /\ p.settleTimer = "none"
Asks(p) == p.state = "RECONNECTING" => p.pending > 0 /\ ~p.recoveryNotified

Good(p) == p \in PlayerType /\ Shows(p) /\ Wants(p) /\ Rests(p) /\ Asks(p)

(* What every step but a start does: it starts nothing. *)
Keeps(p, q) ==
    /\ Stopped(p) => q.state = p.state
    /\ q.state = "CONNECTING" => p.state = "CONNECTING"

-----------------------------------------------------------------------------
(* Types: what happens to one field, then what the functions do. *)

LEMMA SetFlag ==
  ASSUME NEW p \in PlayerType, NEW x \in BOOLEAN
  PROVE  /\ [p EXCEPT !.desired = x] \in PlayerType
         /\ [p EXCEPT !.webrtcUp = x] \in PlayerType
         /\ [p EXCEPT !.firstFrame = x] \in PlayerType
         /\ [p EXCEPT !.recoveryNotified = x] \in PlayerType
         /\ [p EXCEPT !.streamSelected = x] \in PlayerType
         /\ [p EXCEPT !.sessionEvents = x] \in PlayerType
         /\ [p EXCEPT !.connectInFlight = x] \in PlayerType
         /\ [p EXCEPT !.watchdog = x] \in PlayerType
         /\ [p EXCEPT !.silent = x] \in PlayerType
         /\ [p EXCEPT !.shown = x] \in PlayerType
         /\ [p EXCEPT !.iceGrace = x] \in PlayerType
         /\ [p EXCEPT !.trackMute = x] \in PlayerType
         /\ [p EXCEPT !.errorRetry = x] \in PlayerType
         /\ [p EXCEPT !.inFlight = x] \in PlayerType
<1>1. [p EXCEPT !.desired = x] \in PlayerType  BY DEF PlayerType
<1>2. [p EXCEPT !.webrtcUp = x] \in PlayerType  BY DEF PlayerType
<1>3. [p EXCEPT !.firstFrame = x] \in PlayerType  BY DEF PlayerType
<1>4. [p EXCEPT !.recoveryNotified = x] \in PlayerType  BY DEF PlayerType
<1>5. [p EXCEPT !.streamSelected = x] \in PlayerType  BY DEF PlayerType
<1>6. [p EXCEPT !.sessionEvents = x] \in PlayerType  BY DEF PlayerType
<1>7. [p EXCEPT !.connectInFlight = x] \in PlayerType  BY DEF PlayerType
<1>8. [p EXCEPT !.watchdog = x] \in PlayerType  BY DEF PlayerType
<1>9. [p EXCEPT !.silent = x] \in PlayerType  BY DEF PlayerType
<1>10. [p EXCEPT !.shown = x] \in PlayerType  BY DEF PlayerType
<1>11. [p EXCEPT !.iceGrace = x] \in PlayerType  BY DEF PlayerType
<1>12. [p EXCEPT !.trackMute = x] \in PlayerType  BY DEF PlayerType
<1>13. [p EXCEPT !.errorRetry = x] \in PlayerType  BY DEF PlayerType
<1>14. [p EXCEPT !.inFlight = x] \in PlayerType  BY DEF PlayerType
<1> QED BY <1>1, <1>2, <1>3, <1>4, <1>5, <1>6, <1>7, <1>8, <1>9, <1>10, <1>11, <1>12, <1>13, <1>14

LEMMA SetTimer ==
  ASSUME NEW p \in PlayerType, NEW x \in Timers
  PROVE  /\ [p EXCEPT !.scheduleTimer = x] \in PlayerType
         /\ [p EXCEPT !.settleStartTimer = x] \in PlayerType
         /\ [p EXCEPT !.settleTimer = x] \in PlayerType
BY DEF PlayerType

LEMMA SetState ==
  ASSUME NEW p \in PlayerType, NEW x \in States
  PROVE  [p EXCEPT !.state = x] \in PlayerType
BY DEF PlayerType

LEMMA SetIceState ==
  ASSUME NEW p \in PlayerType, NEW x \in {"new", "connected", "disconnected"}
  PROVE  [p EXCEPT !.iceState = x] \in PlayerType
BY DEF PlayerType

LEMMA SetFlows ==
  ASSUME NEW p \in PlayerType, NEW x \in SUBSET Ages
  PROVE  [p EXCEPT !.flows = x] \in PlayerType
BY DEF PlayerType

LEMMA SetAttempt ==
  ASSUME NEW p \in PlayerType, NEW x \in Nat
  PROVE  [p EXCEPT !.attempt = x] \in PlayerType
BY DEF PlayerType

LEMMA SetPending ==
  ASSUME NEW p \in PlayerType, NEW x \in 0..Hard
  PROVE  [p EXCEPT !.pending = x] \in PlayerType
BY DEF PlayerType

LEMMA SetExpectedResets ==
  ASSUME NEW p \in PlayerType, NEW x \in 0..2
  PROVE  [p EXCEPT !.expectedResets = x] \in PlayerType
BY DEF PlayerType

LEMMA SetLeaked ==
  ASSUME NEW p \in PlayerType, NEW x \in [Ages -> Nat]
  PROVE  [p EXCEPT !.leaked = x] \in PlayerType
BY DEF PlayerType

LEMMA SetRunning ==
  ASSUME NEW p \in PlayerType, NEW x \in [Runs -> Nat]
  PROVE  [p EXCEPT !.running = x] \in PlayerType
BY DEF PlayerType

(* Constants the functions assign. *)
LEMMA Members ==
  /\ "none" \in Timers /\ "current" \in Timers /\ "past" \in Timers
  /\ 0 \in 0..Hard /\ Soft \in 1..Hard /\ Medium \in 1..Hard /\ Hard \in 1..Hard
  /\ \A s \in {"IDLE", "CONNECTING", "PLAYING", "RECONNECTING", "ERROR"} : s \in States
BY DEF Timers, Ages, Hard, Medium, Soft, States, Active

LEMMA AgedType ==
  ASSUME NEW p \in PlayerType
  PROVE  NewGeneration(p) \in PlayerType
<1>1. AgedLeaks(p.leaked) \in [Ages -> Nat]
  <2>1. p.leaked["current"] \in Nat /\ p.leaked["past"] \in Nat /\ MaxLeaked \in Nat
    BY PlayerAssumption DEF PlayerType, Ages
  <2>2. \A m, n \in Nat : AtMost(m, n) \in Nat
    BY DEF AtMost
  <2> DEFINE sum == p.leaked["current"] + p.leaked["past"]
  <2>3. sum \in Nat
    BY <2>1
  <2> HIDE DEF sum
  <2>4. AtMost(sum, MaxLeaked) \in Nat
    BY <2>1, <2>2, <2>3
  <2>5. AgedLeaks(p.leaked) = [a \in Ages |-> IF a = "current" THEN 0 ELSE AtMost(sum, MaxLeaked)]
    BY DEF AgedLeaks, sum
  <2> QED BY <2>4, <2>5
<1>2. AgedRuns(p.running) \in [Runs -> Nat]
  BY DEF PlayerType, Runs, Ages, AgedRuns
<1>3. \A t \in Timers : Aged(t) \in Timers
  BY DEF Timers, Ages, Aged
<1>4. AgedFlows(p.flows) \in SUBSET Ages
  BY DEF Ages, AgedFlows
<1>5. /\ Aged(p.scheduleTimer) \in Timers /\ Aged(p.settleStartTimer) \in Timers
      /\ Aged(p.settleTimer) \in Timers
  BY <1>3 DEF PlayerType
<1> DEFINE q == [p EXCEPT !.scheduleTimer = Aged(@), !.settleStartTimer = Aged(@),
                          !.settleTimer = Aged(@)]
<1>6. q \in PlayerType
  <2>1. q = [p EXCEPT !.scheduleTimer = Aged(p.scheduleTimer),
                      !.settleStartTimer = Aged(p.settleStartTimer),
                      !.settleTimer = Aged(p.settleTimer)]
    BY DEF PlayerType
  <2> QED BY <1>3, <1>5, <2>1, SetTimer
<1>7. NewGeneration(p) = [q EXCEPT !.flows = AgedFlows(p.flows),
                                   !.leaked = AgedLeaks(p.leaked),
                                   !.running = AgedRuns(p.running)]
  BY DEF NewGeneration, PlayerType
<1> HIDE DEF q
<1> DEFINE r == [q EXCEPT !.flows = AgedFlows(p.flows)]
<1>8. r \in PlayerType
  BY <1>4, <1>6, SetFlows
<1> HIDE DEF r
<1> DEFINE s == [r EXCEPT !.leaked = AgedLeaks(p.leaked)]
<1>9. s \in PlayerType
  BY <1>1, <1>8, SetLeaked
<1> HIDE DEF s
<1>10. [s EXCEPT !.running = AgedRuns(p.running)] \in PlayerType
  BY <1>2, <1>9, SetRunning
<1> QED BY <1>7, <1>10 DEF r, s

LEMMA ClearTimersType ==
  ASSUME NEW p \in PlayerType
  PROVE  ClearTimers(p) \in PlayerType
BY SetTimer, Members DEF ClearTimers

LEMMA ResetType ==
  ASSUME NEW p \in PlayerType
  PROVE  ResetReconnect(p) \in PlayerType
BY ClearTimersType, SetAttempt, SetPending, SetFlag, Members DEF ResetReconnect

LEMMA StopAllType ==
  ASSUME NEW p \in PlayerType
  PROVE  StopAll(p) \in PlayerType
BY ResetType, SetFlag DEF StopAll

LEMMA StopStreamingType ==
  ASSUME NEW p \in PlayerType
  PROVE  StopStreaming(p) \in PlayerType
BY SetFlag DEF StopStreaming

LEMMA WatchdogType ==
  ASSUME NEW p \in PlayerType
  PROVE  StartWatchdog(p) \in PlayerType
BY SetFlag DEF StartWatchdog

LEMMA DisconnectedType ==
  ASSUME NEW p \in PlayerType, NEW s \in States
  PROVE  Disconnected(p, s) \in PlayerType
BY SetState, SetFlag DEF Disconnected

-----------------------------------------------------------------------------
(* What Good is made of. *)

(* The fields that Good speaks of are the same in both players, and a      *)
(* retry is armed in ERROR only.                                           *)
Alike(p, q) ==
    /\ q.state = p.state /\ q.desired = p.desired /\ q.watchdog = p.watchdog
    /\ q.webrtcUp = p.webrtcUp /\ q.firstFrame = p.firstFrame
    /\ q.recoveryNotified = p.recoveryNotified /\ q.pending = p.pending
    /\ q.iceGrace = p.iceGrace /\ q.trackMute = p.trackMute
    /\ q.errorRetry => p.errorRetry \/ p.state = "ERROR"
    /\ q.connectInFlight = p.connectInFlight
    /\ q.scheduleTimer = p.scheduleTimer /\ q.settleTimer = p.settleTimer

LEMMA AlikeGood ==
  ASSUME NEW p, NEW q \in PlayerType, Good(p), Alike(p, q)
  PROVE  Good(q) /\ Keeps(p, q)
BY DEF Alike, Good, Shows, Wants, Rests, Asks, Stopped, Connected, Keeps

LEMMA KeepsIsTransitive ==
  ASSUME NEW p, NEW q, NEW r, Keeps(p, q), Keeps(q, r)
  PROVE  Keeps(p, r)
BY DEF Keeps, Stopped

(* A good player means to play exactly when it is active. *)
LEMMA GoodIsActive ==
  ASSUME NEW p, Good(p)
  PROVE  /\ p.desired => p.state \in Active
         /\ p.state \in Active => p.desired /\ p.watchdog
         /\ Stopped(p) <=> p.state \notin Active
BY DEF Good, Wants, Rests, Stopped, Active, PlayerType, States

-----------------------------------------------------------------------------
(* Failing: every way to ERROR makes a good player of any player. *)

LEMMA StopAllFields ==
  ASSUME NEW p \in PlayerType
  PROVE  /\ StopAll(p).state = p.state /\ StopAll(p).desired = p.desired
         /\ StopAll(p).webrtcUp = p.webrtcUp /\ StopAll(p).firstFrame = p.firstFrame
         /\ StopAll(p).recoveryNotified = p.recoveryNotified
         /\ ~StopAll(p).watchdog /\ ~StopAll(p).iceGrace /\ ~StopAll(p).trackMute
         /\ ~StopAll(p).errorRetry
         /\ StopAll(p).pending = 0 /\ ~StopAll(p).connectInFlight
         /\ StopAll(p).scheduleTimer = "none" /\ StopAll(p).settleTimer = "none"
BY DEF StopAll, ResetReconnect, ClearTimers, PlayerType

(* A player that stopped all, does not mean to play and lost its video. *)
LEMMA StoppedGood ==
  ASSUME NEW p \in PlayerType, NEW s \in {"IDLE", "ERROR"},
         p.state = s, ~p.desired, ~p.webrtcUp
  PROVE  Good(StopStreaming(StopAll(p))) /\ StopStreaming(StopAll(p)).state = s
<1> DEFINE q == StopAll(p)
           r == StopStreaming(q)
<1>1. q \in PlayerType
  BY StopAllType
<1>2. /\ q.state = s /\ ~q.desired /\ ~q.webrtcUp
      /\ ~q.watchdog /\ ~q.iceGrace /\ ~q.trackMute /\ ~q.errorRetry
      /\ q.pending = 0 /\ ~q.connectInFlight
      /\ q.scheduleTimer = "none" /\ q.settleTimer = "none"
  BY StopAllFields
<1> HIDE DEF q
<1>3. Good(q)
  BY <1>1, <1>2 DEF Good, Shows, Wants, Rests, Asks, Stopped, Active, Connected
<1>4. r \in PlayerType
  BY <1>1, StopStreamingType
<1>5. Alike(q, r)
  BY <1>1 DEF StopStreaming, Alike, PlayerType
<1> HIDE DEF r
<1>6. Good(r)
  BY <1>3, <1>4, <1>5, AlikeGood
<1>7. r.state = s
  BY <1>2, <1>5 DEF Alike
<1> QED BY <1>6, <1>7 DEF q, r

LEMMA EnterErrorGood ==
  ASSUME NEW p \in PlayerType
  PROVE  Good(EnterError(p)) /\ EnterError(p).state = "ERROR"
<1> DEFINE d == Disconnected(p, "ERROR")
           e == [d EXCEPT !.desired = FALSE, !.errorRetry = @ \/ p.autonomous]
<1>1. d \in PlayerType
  BY DisconnectedType, Members
<1>2. d.state = "ERROR" /\ ~d.webrtcUp /\ d.errorRetry \in BOOLEAN
  BY DEF Disconnected, PlayerType
<1> HIDE DEF d
<1>3. e \in PlayerType
  <2>1. (d.errorRetry \/ p.autonomous) \in BOOLEAN
    OBVIOUS
  <2>2. e = [d EXCEPT !.desired = FALSE, !.errorRetry = d.errorRetry \/ p.autonomous]
    BY <1>1 DEF PlayerType
  <2> QED BY <1>1, <2>1, <2>2, SetFlag
<1>4. e.state = "ERROR" /\ ~e.desired /\ ~e.webrtcUp
  BY <1>1, <1>2 DEF PlayerType
<1>5. EnterError(p) = StopStreaming(StopAll(e))
  BY DEF EnterError, d
<1> HIDE DEF e
<1> QED BY <1>3, <1>4, <1>5, StoppedGood

LEMMA FailClosedGood ==
  ASSUME NEW p \in PlayerType
  PROVE  Good(FailClosed(p)) /\ FailClosed(p).state = "ERROR"
BY SetIceState, EnterErrorGood DEF FailClosed

LEMMA FailGood ==
  ASSUME NEW p \in PlayerType
  PROVE  Good(Fail(p)) /\ Fail(p).state = "ERROR"
BY AgedType, FailClosedGood DEF Fail

(* The gate lets a connected player pass. *)
LEMMA GateGood ==
  ASSUME NEW p \in PlayerType, Wants(p), Rests(p), Asks(p)
  PROVE  Good(Gate(p)) /\ Gate(p).state \in {p.state, "ERROR"}
BY EnterErrorGood DEF Gate, Good, Shows

(* Restarting the watchdog does no harm to an active player. *)
LEMMA WatchdogGood ==
  ASSUME NEW p, Good(p), p.state \in Active
  PROVE  Good(StartWatchdog(p)) /\ StartWatchdog(p).state = p.state
<1>1. p \in PlayerType
  BY DEF Good
<1> DEFINE q == StartWatchdog(p)
<1>2. q \in PlayerType
  BY <1>1, WatchdogType
<1>3. Alike(p, q)
  BY <1>1, GoodIsActive DEF StartWatchdog, Alike, PlayerType
<1> HIDE DEF q
<1>4. Good(q)
  BY <1>2, <1>3, AlikeGood
<1> QED BY <1>3, <1>4 DEF Alike, q

-----------------------------------------------------------------------------
(* The coordinator. *)

LEMMA EscalateType ==
  ASSUME NEW p \in PlayerType, NEW severity \in 1..Hard
  PROVE  /\ Escalate(p, severity) \in PlayerType
         /\ Escalate(p, severity).pending > 0
<1>1. p.pending \in 0..Hard
  BY DEF PlayerType
<1>2. Larger(p.pending, severity) \in 0..Hard /\ Larger(p.pending, severity) > 0
  BY <1>1 DEF Larger, Hard
<1>3. Escalate(p, severity) = [p EXCEPT !.pending = Larger(p.pending, severity)]
  BY DEF Escalate, PlayerType
<1>4. [p EXCEPT !.pending = Larger(p.pending, severity)].pending = Larger(p.pending, severity)
  BY DEF PlayerType
<1> QED BY <1>2, <1>3, <1>4, SetPending

LEMMA LeakType ==
  ASSUME NEW p \in PlayerType
  PROVE  Leak(p) \in PlayerType
<1>1. CASE p.scheduleTimer = "none"
  BY <1>1 DEF Leak
<1>2. CASE p.scheduleTimer # "none"
  <2> DEFINE t == p.scheduleTimer
             n == p.leaked[t] + 1
  <2>1. t \in Ages
    BY <1>2 DEF PlayerType, Timers
  <2>2. n \in Nat
    BY <2>1 DEF PlayerType
  <2>3. [p.leaked EXCEPT ![t] = n] \in [Ages -> Nat]
    <3> HIDE DEF n, t
    <3> QED BY <2>1, <2>2 DEF PlayerType
  <2>4. [p EXCEPT !.leaked[p.scheduleTimer] = @ + 1] = [p EXCEPT !.leaked = [p.leaked EXCEPT ![t] = n]]
    BY DEF PlayerType
  <2> QED BY <2>3, <2>4, SetLeaked DEF Leak
<1> QED BY <1>1, <1>2

LEMMA LeakAlike ==
  ASSUME NEW p \in PlayerType
  PROVE  Alike(p, Leak(p))
BY DEF Leak, Alike, PlayerType

LEMMA ScheduleNextGood ==
  ASSUME NEW p, Good(p)
  PROVE  /\ Good(ScheduleNext(p)) /\ Keeps(p, ScheduleNext(p))
         /\ ScheduleNext(p).state \in {p.state, "ERROR"}
<1>1. p \in PlayerType
  BY DEF Good
<1>2. CASE p.pending = 0 \/ ~ShouldContinue(p)
  BY <1>2 DEF ScheduleNext, Keeps
<1>3. CASE ~(p.pending = 0 \/ ~ShouldContinue(p))
  <2>1. ~Stopped(p) /\ p.state \in Active
    BY <1>3, GoodIsActive DEF Good, Rests
  <2>2. CASE p.attempt >= MaxReconnectAttempts
    BY <1>1, <1>3, <2>1, <2>2, FailGood DEF ScheduleNext, Keeps
  <2>3. CASE ~(p.attempt >= MaxReconnectAttempts)
    <3> DEFINE q == Leak(p)
               r == [q EXCEPT !.scheduleTimer = "current"]
    <3>1. q \in PlayerType /\ Alike(p, q)
      BY <1>1, LeakType, LeakAlike
    <3> HIDE DEF q
    <3>2. r \in PlayerType
      BY <3>1, SetTimer, Members
    <3>3. Good(q) /\ ~Stopped(q)
      BY <2>1, <3>1, AlikeGood DEF Alike, Stopped
    <3>4. /\ r.state = q.state /\ r.desired = q.desired /\ r.watchdog = q.watchdog
          /\ r.webrtcUp = q.webrtcUp /\ r.firstFrame = q.firstFrame
          /\ r.recoveryNotified = q.recoveryNotified /\ r.pending = q.pending
      BY <3>1 DEF PlayerType
    <3> HIDE DEF r
    <3>5. Good(r)
      BY <3>2, <3>3, <3>4 DEF Good, Shows, Wants, Rests, Asks, Stopped, Connected
    <3>6. r.state = p.state
      BY <3>1, <3>4 DEF Alike
    <3>7. ScheduleNext(p) = r
      BY <1>3, <2>3 DEF ScheduleNext, q, r
    <3> QED BY <3>5, <3>6, <3>7 DEF Keeps
  <2> QED BY <2>2, <2>3
<1> QED BY <1>2, <1>3

LEMMA EndAttemptGood ==
  ASSUME NEW p, Good(p)
  PROVE  Good(EndAttempt(p)) /\ Keeps(p, EndAttempt(p))
<1> DEFINE q == [p EXCEPT !.inFlight = FALSE]
<1>1. p \in PlayerType
  BY DEF Good
<1>2. q \in PlayerType
  BY <1>1, SetFlag
<1>3. Alike(p, q)
  BY <1>1 DEF Alike, PlayerType
<1>4. EndAttempt(p) = ScheduleNext(q)
  BY DEF EndAttempt
<1> HIDE DEF q
<1>5. Good(q) /\ Keeps(p, q)
  BY <1>2, <1>3, AlikeGood
<1> QED BY <1>4, <1>5, ScheduleNextGood, KeepsIsTransitive

LEMMA ResumeIfPendingGood ==
  ASSUME NEW p, Good(p)
  PROVE  Good(ResumeIfPending(p)) /\ Keeps(p, ResumeIfPending(p))
BY ScheduleNextGood DEF ResumeIfPending, Keeps

(* A request is made while reconnecting. *)
LEMMA RequestGood ==
  ASSUME NEW p \in PlayerType, NEW severity \in 1..Hard,
         p.state = "RECONNECTING", p.desired, p.watchdog, ~p.recoveryNotified
  PROVE  /\ Good(Request(p, severity))
         /\ Request(p, severity).state \in {"RECONNECTING", "ERROR"}
<1> DEFINE q == Escalate(p, severity)
<1>1. q \in PlayerType /\ q.pending > 0
  BY EscalateType
<1>2. q.state = "RECONNECTING" /\ q.desired /\ q.watchdog /\ ~q.recoveryNotified
  BY DEF Escalate, PlayerType
<1>3. Request(p, severity) = IF q.inFlight \/ q.scheduleTimer # "none" THEN q ELSE ScheduleNext(q)
  BY DEF Request
<1> HIDE DEF q
<1>4. Good(q)
  BY <1>1, <1>2 DEF Good, Shows, Wants, Rests, Asks, Stopped
<1> QED BY <1>2, <1>3, <1>4, ScheduleNextGood

(* A definite failure of the attempt under way escalates its request. *)
LEMMA NotifyAttemptFailedGood ==
  ASSUME NEW p, Good(p), p.state = "RECONNECTING", NEW severity \in 1..Hard
  PROVE  Good(NotifyAttemptFailed(p, severity)) /\ Keeps(p, NotifyAttemptFailed(p, severity))
<1>1. p \in PlayerType /\ p.desired /\ p.watchdog /\ ~p.recoveryNotified
  BY GoodIsActive DEF Good, Asks, Active
<1> DEFINE e == Escalate(p, severity)
           q == ClearTimers(e)
<1>2. e \in PlayerType /\ e.pending > 0
  BY <1>1, EscalateType
<1>3. e.state = "RECONNECTING" /\ e.desired /\ e.watchdog /\ ~e.recoveryNotified
  BY <1>1 DEF Escalate, PlayerType
<1> HIDE DEF e
<1>4. q \in PlayerType
  BY <1>2, ClearTimersType
<1>5. /\ q.state = "RECONNECTING" /\ q.desired /\ q.watchdog /\ ~q.recoveryNotified
      /\ q.pending > 0
  BY <1>2, <1>3 DEF ClearTimers, PlayerType
<1>6. NotifyAttemptFailed(p, severity) = IF p.inFlight THEN EndAttempt(q) ELSE p
  BY DEF NotifyAttemptFailed, q, e
<1> HIDE DEF q
<1>7. Good(q) /\ Keeps(p, q)
  BY <1>4, <1>5 DEF Good, Shows, Wants, Rests, Asks, Stopped, Keeps
<1>8. Keeps(p, p)
  BY DEF Keeps
<1> QED BY <1>6, <1>7, <1>8, EndAttemptGood, KeepsIsTransitive

-----------------------------------------------------------------------------
(* The transitions of the state machine. *)

LEMMA EnterReconnectingGood ==
  ASSUME NEW p, Good(p), p.state \in {"CONNECTING", "PLAYING"}, NEW severity \in 1..Hard
  PROVE  /\ Good(EnterReconnecting(p, severity))
         /\ EnterReconnecting(p, severity).state \in {"RECONNECTING", "ERROR"}
<1>1. p \in PlayerType /\ p.desired /\ p.watchdog
  BY GoodIsActive DEF Good, Active
<1> DEFINE up == p.webrtcUp /\ p.state # "PLAYING"
           q == [p EXCEPT !.state = "RECONNECTING", !.recoveryNotified = FALSE, !.webrtcUp = up]
<1>2. up \in BOOLEAN
  OBVIOUS
<1>3. EnterReconnecting(p, severity) = Request(q, severity)
  BY <1>1 DEF EnterReconnecting, PlayerType
<1> HIDE DEF up
<1>4. q \in PlayerType
  BY <1>1, <1>2, SetState, SetFlag, Members
<1>5. q.state = "RECONNECTING" /\ q.desired /\ q.watchdog /\ ~q.recoveryNotified
  BY <1>1 DEF PlayerType
<1> HIDE DEF q
<1> QED BY <1>3, <1>4, <1>5, RequestGood

LEMMA EnterConnectingGood ==
  ASSUME NEW p \in PlayerType, p.desired
  PROVE  Good(EnterConnecting(p)) /\ EnterConnecting(p).state = "CONNECTING"
<1> DEFINE n == NewGeneration(p)
           d == Disconnected(n, "CONNECTING")
           q == [d EXCEPT !.iceState = "new"]
           r == IF p.state = "ERROR" THEN StopAll(q) ELSE q
           s == StartJanus(r)
           t == StartWatchdog(s)
<1>1. n \in PlayerType
  BY AgedType
<1>2. n.desired
  BY DEF NewGeneration, PlayerType
<1> HIDE DEF n
<1>3. d \in PlayerType
  BY <1>1, DisconnectedType, Members
<1>4. d.desired /\ d.state = "CONNECTING"
  BY <1>1, <1>2 DEF Disconnected, PlayerType
<1> HIDE DEF d
<1>5. q \in PlayerType
  BY <1>3, SetIceState
<1>6. q.desired /\ q.state = "CONNECTING"
  BY <1>3, <1>4 DEF PlayerType
<1> HIDE DEF q
<1>7. r \in PlayerType /\ r.desired /\ r.state = "CONNECTING"
  BY <1>5, <1>6, StopAllType, StopAllFields
<1> HIDE DEF r
<1>8. s \in PlayerType
  <2>1. (r.flows \cup {"current"}) \in SUBSET Ages
    BY <1>7 DEF PlayerType, Ages
  <2>2. [r EXCEPT !.connectInFlight = TRUE] \in PlayerType
    BY <1>7, SetFlag
  <2>3. [r EXCEPT !.connectInFlight = TRUE, !.flows = r.flows \cup {"current"}] \in PlayerType
    BY <2>1, <2>2, SetFlows
  <2>4. s = IF r.connectInFlight THEN r
            ELSE [r EXCEPT !.connectInFlight = TRUE, !.flows = r.flows \cup {"current"}]
    BY <1>7 DEF StartJanus, PlayerType
  <2> QED BY <1>7, <2>3, <2>4
<1>9. s.desired /\ s.state = "CONNECTING"
  BY <1>7 DEF StartJanus, PlayerType
<1> HIDE DEF s
<1>10. t \in PlayerType
  BY <1>8, WatchdogType
<1>11. t.desired /\ t.state = "CONNECTING" /\ t.watchdog
  BY <1>8, <1>9 DEF StartWatchdog, PlayerType
<1>12. EnterConnecting(p) = t
  BY DEF EnterConnecting, n, d, q, r, s
<1> HIDE DEF t
<1> QED BY <1>10, <1>11, <1>12 DEF Good, Shows, Wants, Rests, Asks, Stopped, Active

LEMMA RetryGood ==
  ASSUME NEW p \in PlayerType
  PROVE  /\ Good(Retry(p))
         /\ Retry(p).state = IF p.state = "ERROR" THEN "CONNECTING" ELSE "ERROR"
<1> DEFINE q == [p EXCEPT !.desired = TRUE]
<1>1. q \in PlayerType
  BY SetFlag
<1>2. q.desired /\ q.state = p.state
  BY DEF PlayerType
<1>3. Retry(p) = IF q.state = "ERROR" THEN EnterConnecting(q) ELSE FailClosed(q)
  BY DEF Retry, Reset
<1> HIDE DEF q
<1> QED BY <1>1, <1>2, <1>3, EnterConnectingGood, FailClosedGood

LEMMA StopRequestGood ==
  ASSUME NEW p \in PlayerType, ~p.desired, p.state \in Active
  PROVE  Good(StopRequest(p)) /\ StopRequest(p).state = "IDLE"
<1> DEFINE d == Disconnected(p, "IDLE")
           q == [d EXCEPT !.iceState = "new"]
<1>1. d \in PlayerType
  BY DisconnectedType, Members
<1>2. d.state = "IDLE" /\ ~d.desired /\ ~d.webrtcUp
  BY DEF Disconnected, PlayerType
<1> HIDE DEF d
<1>3. q \in PlayerType
  BY <1>1, SetIceState
<1>4. q.state = "IDLE" /\ ~q.desired /\ ~q.webrtcUp
  BY <1>1, <1>2 DEF PlayerType
<1>5. StopRequest(p) = StopStreaming(StopAll(q))
  BY DEF StopRequest, q, d
<1> HIDE DEF q
<1> QED BY <1>3, <1>4, <1>5, StoppedGood

LEMMA ReportGood ==
  ASSUME NEW p \in PlayerType, Wants(p), Rests(p), Asks(p), p.state \in Active
  PROVE  Good(Report(p)) /\ Report(p).state \in {p.state, "ERROR"}
<1> DEFINE q == Gate(p)
<1>1. Good(q) /\ q.state \in {p.state, "ERROR"}
  BY GateGood
<1>2. Report(p) = IF q.state \in {"CONNECTING", "PLAYING"} THEN StartWatchdog(q) ELSE q
  BY DEF Report
<1> HIDE DEF q
<1> QED BY <1>1, <1>2, WatchdogGood DEF Active

(* The coordinator reports success: to be shown, a video must be there. *)
LEMMA ReconnectSuccessGood ==
  ASSUME NEW p \in PlayerType, p.desired, p.state \in {"PLAYING", "RECONNECTING"}, Connected(p)
  PROVE  Good(ReconnectSuccess(p)) /\ ReconnectSuccess(p).state = "PLAYING"
<1>1. CASE p.state = "RECONNECTING"
  <2> DEFINE q == [p EXCEPT !.state = "PLAYING", !.webrtcUp = TRUE, !.firstFrame = TRUE]
             r == ResetReconnect(q)
             s == StartWatchdog(r)
  <2>1. q \in PlayerType
    BY SetState, SetFlag, Members
  <2>2. q.state = "PLAYING" /\ q.desired /\ q.webrtcUp /\ q.firstFrame
    BY DEF PlayerType
  <2>3. ReconnectSuccess(p) = s
    BY <1>1 DEF ReconnectSuccess
  <2> HIDE DEF q
  <2>4. r \in PlayerType
    BY <2>1, ResetType
  <2>5. r.state = "PLAYING" /\ r.desired /\ r.webrtcUp /\ r.firstFrame
    BY <2>1, <2>2 DEF ResetReconnect, ClearTimers, PlayerType
  <2> HIDE DEF r
  <2>6. s \in PlayerType
    BY <2>4, WatchdogType
  <2>7. s.state = "PLAYING" /\ s.desired /\ s.webrtcUp /\ s.firstFrame /\ s.watchdog
    BY <2>4, <2>5 DEF StartWatchdog, PlayerType
  <2> HIDE DEF s
  <2> QED BY <2>3, <2>6, <2>7 DEF Good, Shows, Wants, Rests, Asks, Stopped, Active, Connected
<1>2. CASE p.state = "PLAYING"
  <2> DEFINE s == StartWatchdog(p)
  <2>1. s \in PlayerType
    BY WatchdogType
  <2>2. s.state = "PLAYING" /\ s.desired /\ s.webrtcUp /\ s.firstFrame /\ s.watchdog
    BY <1>2 DEF StartWatchdog, Connected, PlayerType
  <2>3. ReconnectSuccess(p) = s
    BY <1>2 DEF ReconnectSuccess
  <2> HIDE DEF s
  <2> QED BY <2>1, <2>2, <2>3 DEF Good, Shows, Wants, Rests, Asks, Stopped, Active, Connected
<1> QED BY <1>1, <1>2

(* The first frame of a connection whose WebRTC is up. *)
LEMMA StreamRecoveredGood ==
  ASSUME NEW p \in PlayerType, p.desired, p.state \in {"CONNECTING", "PLAYING", "RECONNECTING"},
         Connected(p)
  PROVE  Good(StreamRecovered(p)) /\ StreamRecovered(p).state = "PLAYING"
<1>1. CASE p.state = "CONNECTING"
  <2> DEFINE q == [p EXCEPT !.state = "PLAYING", !.webrtcUp = TRUE]
             r == StopAll(q)
             s == StartWatchdog(r)
  <2>1. q \in PlayerType
    BY SetState, SetFlag, Members
  <2>2. q.state = "PLAYING" /\ q.desired /\ q.webrtcUp /\ q.firstFrame
    BY DEF Connected, PlayerType
  <2>3. StreamRecovered(p) = Gate(s)
    BY <1>1 DEF StreamRecovered
  <2> HIDE DEF q
  <2>4. r \in PlayerType /\ r.state = "PLAYING" /\ r.desired /\ r.webrtcUp /\ r.firstFrame
    BY <2>1, <2>2, StopAllType, StopAllFields
  <2> HIDE DEF r
  <2>5. s \in PlayerType
    BY <2>4, WatchdogType
  <2>6. s.state = "PLAYING" /\ s.desired /\ s.webrtcUp /\ s.firstFrame /\ s.watchdog
    BY <2>4 DEF StartWatchdog, PlayerType
  <2> HIDE DEF s
  <2>7. Good(s) /\ Gate(s) = s
    BY <2>5, <2>6 DEF Good, Shows, Wants, Rests, Asks, Stopped, Active, Connected, Gate
  <2> QED BY <2>3, <2>6, <2>7
<1>2. CASE p.state # "CONNECTING"
  BY <1>2, ReconnectSuccessGood DEF StreamRecovered
<1> QED BY <1>1, <1>2

LEMMA TryNotifyRecoveredGood ==
  ASSUME NEW p, Good(p)
  PROVE  Good(TryNotifyRecovered(p)) /\ Keeps(p, TryNotifyRecovered(p))
<1>1. CASE /\ p.state = "RECONNECTING" /\ Connected(p)
           /\ p.inFlight /\ p.settleTimer # "none"
  <2> DEFINE q == ResetReconnect(p)
  <2>1. p \in PlayerType /\ p.desired
    BY <1>1, GoodIsActive DEF Good, Active
  <2>2. q \in PlayerType
    BY <2>1, ResetType
  <2>3. q.state = "RECONNECTING" /\ q.desired /\ Connected(q)
    BY <1>1, <2>1 DEF ResetReconnect, ClearTimers, Connected, PlayerType
  <2>4. TryNotifyRecovered(p) = ReconnectSuccess(q)
    BY <1>1 DEF TryNotifyRecovered
  <2> HIDE DEF q
  <2> QED BY <1>1, <2>2, <2>3, <2>4, ReconnectSuccessGood DEF Keeps, Stopped
<1>2. CASE ~(/\ p.state = "RECONNECTING" /\ Connected(p)
             /\ p.inFlight /\ p.settleTimer # "none")
  BY <1>2 DEF TryNotifyRecovered, Keeps
<1> QED BY <1>1, <1>2

-----------------------------------------------------------------------------
(* The decisions of the connection policy. *)

LEMMA ReconnectScheduledGood ==
  ASSUME NEW p, Good(p), p.state \in Active, NEW severity \in 1..Hard
  PROVE  /\ Good(ReconnectScheduled(p, severity))
         /\ Keeps(p, ReconnectScheduled(p, severity))
BY EnterReconnectingGood DEF ReconnectScheduled, Keeps, Stopped, Active

LEMMA RequestRecoveryGood ==
  ASSUME NEW p, Good(p), NEW severity \in 1..Hard
  PROVE  Good(RequestRecovery(p, severity)) /\ Keeps(p, RequestRecovery(p, severity))
BY ReconnectScheduledGood, GoodIsActive DEF RequestRecovery, Keeps

LEMMA HandleFailureGood ==
  ASSUME NEW p, Good(p), NEW severity \in 1..Hard
  PROVE  Good(HandleFailure(p, severity)) /\ Keeps(p, HandleFailure(p, severity))
BY RequestRecoveryGood, NotifyAttemptFailedGood DEF HandleFailure

LEMMA HandleLossGood ==
  ASSUME NEW p, Good(p), NEW iceReason \in BOOLEAN
  PROVE  Good(HandleLoss(p, iceReason)) /\ Keeps(p, HandleLoss(p, iceReason))
BY HandleFailureGood, Members DEF HandleLoss, Keeps

LEMMA EscalatePendingGood ==
  ASSUME NEW p, Good(p)
  PROVE  /\ Good(EscalatePending(p))
         /\ EscalatePending(p).state = p.state
<1>1. p \in PlayerType
  BY DEF Good
<1>2. CASE p.pending = 0
  BY <1>2 DEF EscalatePending
<1>3. CASE p.pending # 0
  <2> DEFINE q == Escalate(p, Hard)
  <2>1. q \in PlayerType /\ q.pending > 0
    BY <1>1, EscalateType, Members
  <2>2. /\ q.state = p.state /\ q.desired = p.desired /\ q.watchdog = p.watchdog
        /\ q.webrtcUp = p.webrtcUp /\ q.firstFrame = p.firstFrame
        /\ q.recoveryNotified = p.recoveryNotified
    BY <1>1 DEF Escalate, PlayerType
  <2>3. ~Stopped(p)
    BY <1>3 DEF Good, Rests
  <2>4. EscalatePending(p) = q
    BY <1>3 DEF EscalatePending
  <2> HIDE DEF q
  <2>5. Good(q)
    BY <2>1, <2>2, <2>3 DEF Good, Shows, Wants, Rests, Asks, Stopped, Connected
  <2> QED BY <2>2, <2>4, <2>5
<1> QED BY <1>2, <1>3

-----------------------------------------------------------------------------
(* The actions.  The first four may start the player, the others do not.   *)

(* Only a start leaves IDLE or ERROR, and none leaves PLAYING.             *)
Starts(p, q) ==
    /\ Stopped(p) => q.state \in {p.state, "CONNECTING"}
    /\ p.state = "PLAYING" => q.state # "CONNECTING"

LEMMA KeepsIsNoStart ==
  ASSUME NEW p, NEW q, Keeps(p, q)
  PROVE  Starts(p, q)
BY DEF Keeps, Starts

LEMMA TogglePlayGood ==
  ASSUME Good(player), TogglePlay
  PROVE  Good(player') /\ Starts(player, player')
<1>1. player \in PlayerType
  BY DEF Good
<1>2. CASE player.desired
  <2> DEFINE q == [player EXCEPT !.desired = FALSE]
  <2>1. q \in PlayerType
    BY <1>1, SetFlag
  <2>2. ~q.desired /\ q.state = player.state
    BY <1>1 DEF PlayerType
  <2>3. player' = StopRequest(q)
    BY <1>2 DEF TogglePlay
  <2>4. player.state \in Active
    BY <1>2, GoodIsActive
  <2> HIDE DEF q
  <2> QED BY <2>1, <2>2, <2>3, <2>4, StopRequestGood DEF Starts, Stopped, Active
<1>3. CASE ~player.desired
  <2> DEFINE q == [player EXCEPT !.desired = TRUE]
  <2>1. q \in PlayerType
    BY <1>1, SetFlag
  <2>2. q.desired /\ q.state = player.state
    BY <1>1 DEF PlayerType
  <2>3. player.state \in {"IDLE", "ERROR"}
    BY <1>3, GoodIsActive DEF Stopped
  <2>4. player' = EnterConnecting(q)
    BY <1>3, <2>2, <2>3 DEF TogglePlay, PlayRequest
  <2> HIDE DEF q
  <2> QED BY <2>1, <2>2, <2>3, <2>4, EnterConnectingGood DEF Starts
<1> QED BY <1>2, <1>3

LEMMA RetryPressedGood ==
  ASSUME Good(player), RetryPressed
  PROVE  Good(player') /\ Starts(player, player')
BY RetryGood DEF RetryPressed, Starts, Good

LEMMA ErrorRetryExpiresGood ==
  ASSUME Good(player), ErrorRetryExpires
  PROVE  /\ Good(player') /\ Starts(player, player')
         /\ player.state = "IDLE" => player'.state = "IDLE"
<1> DEFINE q == [player EXCEPT !.errorRetry = FALSE]
<1>1. player \in PlayerType
  BY DEF Good
<1>2. q \in PlayerType
  BY <1>1, SetFlag
<1>3. Alike(player, q)
  BY <1>1 DEF Alike, PlayerType
<1>4. player' = IF q.state = "ERROR" THEN Retry(q) ELSE q
  BY DEF ErrorRetryExpires
<1> HIDE DEF q
<1>5. Good(q) /\ q.state = player.state
  BY <1>2, <1>3, AlikeGood DEF Alike
<1> QED BY <1>2, <1>4, <1>5, RetryGood DEF Starts, Stopped

LEMMA ShownGood ==
  ASSUME NEW p, Good(p), NEW x \in BOOLEAN, NEW y \in BOOLEAN
  PROVE  /\ Good([p EXCEPT !.shown = x])
         /\ Good([p EXCEPT !.silent = y])
         /\ Good([p EXCEPT !.shown = x, !.silent = y])
         /\ [p EXCEPT !.shown = x].state = p.state
         /\ [p EXCEPT !.silent = y].state = p.state
         /\ [p EXCEPT !.shown = x, !.silent = y].state = p.state
<1>1. p \in PlayerType
  BY DEF Good
<1>2. /\ [p EXCEPT !.shown = x] \in PlayerType
      /\ [p EXCEPT !.silent = y] \in PlayerType
      /\ [p EXCEPT !.shown = x, !.silent = y] \in PlayerType
  BY <1>1, SetFlag
<1>3. /\ Alike(p, [p EXCEPT !.shown = x])
      /\ Alike(p, [p EXCEPT !.silent = y])
      /\ Alike(p, [p EXCEPT !.shown = x, !.silent = y])
  BY <1>1 DEF Alike, PlayerType
<1>4. /\ Good([p EXCEPT !.shown = x])
      /\ Good([p EXCEPT !.silent = y])
      /\ Good([p EXCEPT !.shown = x, !.silent = y])
  BY <1>2, <1>3, AlikeGood
<1> QED BY <1>3, <1>4 DEF Alike

LEMMA TabVisibleGood ==
  ASSUME Good(player), TabVisible
  PROVE  /\ Good(player') /\ Starts(player, player')
         /\ player.state = "IDLE" => player'.state = "IDLE"
<1> DEFINE p == [player EXCEPT !.shown = TRUE]
           s(long) == IF long THEN EscalatePending(p) ELSE p
           r(long) == ResumeIfPending(s(long))
<1>1. PICK long \in BOOLEAN :
        player' = CASE p.state = "ERROR" -> Retry(p)
                    [] p.state = "RECONNECTING" ->
                         IF r(long).pending = 0 /\ ~r(long).inFlight THEN Retry(r(long)) ELSE r(long)
                    [] p.state \in {"PLAYING", "CONNECTING"} /\ long -> RequestRecovery(p, Hard)
                    [] p.state \in {"PLAYING", "CONNECTING"} /\ ~long ->
                         [p EXCEPT !.silent = FALSE]
                    [] OTHER -> p
  BY DEF TabVisible
<1>2. Good(p) /\ p.state = player.state
  BY ShownGood
<1> HIDE DEF p
<1>3. Good(s(long)) /\ s(long).state = p.state
  BY <1>2, EscalatePendingGood
<1> HIDE DEF s
<1>4. Good(r(long)) /\ Keeps(s(long), r(long))
  BY <1>3, ResumeIfPendingGood
<1> HIDE DEF r
<1>5. p \in PlayerType /\ r(long) \in PlayerType
  BY <1>2, <1>4 DEF Good
<1>6. CASE p.state = "ERROR"
  BY <1>1, <1>2, <1>5, <1>6, RetryGood DEF Starts
<1>7. CASE p.state = "RECONNECTING"
  <2>1. Good(player')
    BY <1>1, <1>4, <1>5, <1>7, RetryGood
  <2> QED BY <1>2, <1>7, <2>1 DEF Starts, Stopped
<1>8. CASE p.state \in {"PLAYING", "CONNECTING"} /\ long
  <2>1. player' = RequestRecovery(p, Hard)
    BY <1>1, <1>8
  <2>2. Good(player') /\ Keeps(p, player')
    BY <1>2, <2>1, RequestRecoveryGood, Members
  <2> QED BY <1>2, <1>8, <2>2 DEF Keeps, Starts, Stopped
<1>9. CASE p.state \in {"PLAYING", "CONNECTING"} /\ ~long
  <2>1. player' = [p EXCEPT !.silent = FALSE]
    BY <1>1, <1>9
  <2>2. Good(player') /\ player'.state = p.state
    BY <1>2, <2>1, ShownGood
  <2> QED BY <1>2, <1>9, <2>2 DEF Starts, Stopped
<1>10. CASE p.state \notin {"ERROR", "RECONNECTING", "PLAYING", "CONNECTING"}
  BY <1>1, <1>2, <1>10 DEF Starts, Stopped
<1> QED BY <1>6, <1>7, <1>8, <1>9, <1>10

(* A step that keeps the player stopped and good. *)
Steady == Good(player') /\ Keeps(player, player')

LEMMA HideGood ==
  ASSUME Good(player), Hide
  PROVE  Steady
BY ShownGood DEF Hide, Steady, Keeps

LEMMA SilenceGood ==
  ASSUME Good(player), Silence
  PROVE  Steady
BY ShownGood DEF Silence, Steady, Keeps

LEMMA ElementVisibleGood ==
  ASSUME Good(player), ElementVisible
  PROVE  Steady
<1> DEFINE p == [player EXCEPT !.shown = TRUE, !.silent = FALSE]
<1>1. Good(p) /\ p.state = player.state
  BY ShownGood
<1>2. player' = IF p.state = "RECONNECTING" THEN ResumeIfPending(p) ELSE p
  BY DEF ElementVisible
<1> HIDE DEF p
<1>3. Good(player') /\ Keeps(p, player')
  BY <1>1, <1>2, ResumeIfPendingGood DEF Keeps
<1> QED BY <1>1, <1>3 DEF Steady, Keeps, Stopped

LEMMA NetworkOnlineGood ==
  ASSUME Good(player), NetworkOnline
  PROVE  Steady
<1>1. player \in PlayerType
  BY DEF Good
<1>2. CASE player.state = "ERROR"
  <2> DEFINE q == [player EXCEPT !.errorRetry = TRUE]
  <2>1. player' = q
    BY <1>2 DEF NetworkOnline
  <2>2. q \in PlayerType
    BY <1>1, SetFlag
  <2>3. Alike(player, q)
    BY <1>1, <1>2 DEF Alike, PlayerType
  <2> HIDE DEF q
  <2> QED BY <2>1, <2>2, <2>3, AlikeGood DEF Steady
<1>3. CASE player.state = "RECONNECTING"
  <2> DEFINE q == ResetReconnect(player)
  <2>1. player' = Request(q, Hard)
    BY <1>3 DEF NetworkOnline
  <2>2. q \in PlayerType
    BY <1>1, ResetType
  <2>3. player.desired /\ player.watchdog /\ ~player.recoveryNotified
    BY <1>3, GoodIsActive DEF Good, Asks, Active
  <2>4. q.state = "RECONNECTING" /\ q.desired /\ q.watchdog /\ ~q.recoveryNotified
    BY <1>1, <1>3, <2>3 DEF ResetReconnect, ClearTimers, PlayerType
  <2> HIDE DEF q
  <2>5. Good(player') /\ player'.state \in {"RECONNECTING", "ERROR"}
    BY <2>1, <2>2, <2>4, RequestGood, Members
  <2> QED BY <1>3, <2>5 DEF Steady, Keeps, Stopped
<1>4. CASE player.state = "PLAYING" /\ player.silent
  <2>1. player' = RequestRecovery(player, Hard)
    BY <1>4 DEF NetworkOnline
  <2> QED BY <2>1, RequestRecoveryGood, Members DEF Steady
<1>5. CASE ~(player.state \in {"ERROR", "RECONNECTING"} \/ (player.state = "PLAYING" /\ player.silent))
  <2>1. player' = player
    BY <1>5 DEF NetworkOnline
  <2> QED BY <2>1 DEF Steady, Keeps
<1> QED BY <1>2, <1>3, <1>4, <1>5

-----------------------------------------------------------------------------
(* Events of the streaming port. *)

LEMMA IceReportGood ==
  ASSUME Good(player), IceReport
  PROVE  Steady
<1>1. player \in PlayerType
  BY DEF Good
<1>2. player.state \in Active
  BY DEF IceReport, CanReport
<1>3. PICK s \in {"new", "connected", "disconnected"} :
         player' = Report([player EXCEPT !.iceState = s,
                                         !.iceGrace = (@ \/ s = "disconnected") /\ s # "connected",
                                         !.silent = @ /\ s # "connected"])
  BY DEF IceReport
<1> DEFINE grace == (player.iceGrace \/ s = "disconnected") /\ s # "connected"
           still == player.silent /\ s # "connected"
           q == [player EXCEPT !.iceState = s, !.iceGrace = grace, !.silent = still]
<1>4. grace \in BOOLEAN /\ still \in BOOLEAN
  OBVIOUS
<1>5. player' = Report(q)
  BY <1>1, <1>3 DEF PlayerType
<1> HIDE DEF grace, still
<1>6. q \in PlayerType
  BY <1>1, <1>4, SetIceState, SetFlag
<1>7. /\ q.state = player.state /\ q.desired = player.desired /\ q.watchdog = player.watchdog
      /\ q.recoveryNotified = player.recoveryNotified /\ q.pending = player.pending
  BY <1>1 DEF PlayerType
<1> HIDE DEF q
<1>8. Wants(q) /\ Rests(q) /\ Asks(q)
  BY <1>2, <1>7, GoodIsActive DEF Good, Wants, Rests, Asks, Stopped, Active
<1>9. Good(player') /\ player'.state \in {player.state, "ERROR"}
  BY <1>2, <1>5, <1>6, <1>7, <1>8, ReportGood
<1> QED BY <1>2, <1>9 DEF Steady, Keeps, Stopped, Active

LEMMA IceFailsGood ==
  ASSUME Good(player), IceFails
  PROVE  Steady
<1>1. player \in PlayerType /\ player.state \in Active
  BY DEF Good, IceFails, CanReport
<1>2. player' = IF player.state \in {"CONNECTING", "PLAYING"}
                THEN EnterReconnecting(player, Hard) ELSE FailClosed(player)
  BY DEF IceFails, IceFailed
<1>3. Good(player') /\ player'.state \in {"RECONNECTING", "ERROR"}
  BY <1>1, <1>2, EnterReconnectingGood, FailClosedGood, Members
<1> QED BY <1>1, <1>3 DEF Steady, Keeps, Stopped, Active

(* WebRTC comes or goes; the gate looks after the media. *)
LEMMA WebrtcReportGood ==
  ASSUME NEW p, Good(p), p.state \in Active, NEW up \in BOOLEAN
  PROVE  /\ Good(Report([p EXCEPT !.webrtcUp = up]))
         /\ Keeps(p, Report([p EXCEPT !.webrtcUp = up]))
<1> DEFINE q == [p EXCEPT !.webrtcUp = up]
<1>1. p \in PlayerType
  BY DEF Good
<1>2. q \in PlayerType
  BY <1>1, SetFlag
<1>3. /\ q.state = p.state /\ q.desired = p.desired /\ q.watchdog = p.watchdog
      /\ q.recoveryNotified = p.recoveryNotified /\ q.pending = p.pending
  BY <1>1 DEF PlayerType
<1> HIDE DEF q
<1>4. Wants(q) /\ Rests(q) /\ Asks(q)
  BY <1>3, GoodIsActive DEF Good, Wants, Rests, Asks, Stopped, Active
<1>5. Good(Report(q)) /\ Report(q).state \in {p.state, "ERROR"}
  BY <1>2, <1>3, <1>4, ReportGood
<1>6. Keeps(p, Report(q))
  BY <1>5 DEF Keeps, Stopped, Active
<1> QED BY <1>5, <1>6 DEF q

LEMMA WebrtcUpGood ==
  ASSUME Good(player), WebrtcUp
  PROVE  Steady
<1> DEFINE q == Report([player EXCEPT !.webrtcUp = TRUE])
<1>1. player.state \in Active /\ player' = TryNotifyRecovered(q)
  BY DEF WebrtcUp, CanReport
<1>2. Good(q) /\ Keeps(player, q)
  BY <1>1, WebrtcReportGood
<1> HIDE DEF q
<1> QED BY <1>1, <1>2, TryNotifyRecoveredGood, KeepsIsTransitive DEF Steady

LEMMA WebrtcDownGood ==
  ASSUME Good(player), WebrtcDown
  PROVE  Steady
<1> DEFINE q == IF player.state = "PLAYING" \/ ~CanReport(player) THEN player
                ELSE Report([player EXCEPT !.webrtcUp = FALSE])
<1>1. PICK iceReason \in BOOLEAN : player' = HandleLoss(q, iceReason)
  BY DEF WebrtcDown
<1>2. Good(q) /\ Keeps(player, q)
  BY WebrtcReportGood DEF CanReport, Keeps
<1> HIDE DEF q
<1> QED BY <1>1, <1>2, HandleLossGood, KeepsIsTransitive DEF Steady

LEMMA HangupGood ==
  ASSUME Good(player), Hangup
  PROVE  Steady
BY HandleLossGood DEF Hangup, Steady

LEMMA TrackMutedGood ==
  ASSUME Good(player), TrackMuted
  PROVE  Steady
<1>1. player \in PlayerType /\ player.state \in Active
  BY DEF Good, TrackMuted, CanReport
<1>2. PICK muted \in BOOLEAN : player' = Report([player EXCEPT !.trackMute = muted])
  BY DEF TrackMuted
<1> DEFINE q == [player EXCEPT !.trackMute = muted]
<1>3. q \in PlayerType
  BY <1>1, SetFlag
<1>4. /\ q.state = player.state /\ q.desired = player.desired /\ q.watchdog = player.watchdog
      /\ q.recoveryNotified = player.recoveryNotified /\ q.pending = player.pending
  BY <1>1 DEF PlayerType
<1> HIDE DEF q
<1>5. Wants(q) /\ Rests(q) /\ Asks(q)
  BY <1>1, <1>4, GoodIsActive DEF Good, Wants, Rests, Asks, Stopped, Active
<1>6. player' = Report(q)
  BY <1>2 DEF q
<1>7. Good(player') /\ player'.state \in {player.state, "ERROR"}
  BY <1>1, <1>3, <1>4, <1>5, <1>6, ReportGood
<1> QED BY <1>1, <1>7 DEF Steady, Keeps, Stopped, Active

LEMMA StreamErrorGood ==
  ASSUME Good(player), StreamError
  PROVE  Steady
BY HandleFailureGood, Members DEF StreamError, Steady

LEMMA SessionResetGood ==
  ASSUME Good(player), SessionReset
  PROVE  Steady
<1>1. player \in PlayerType
  BY DEF Good
<1>2. CASE player.state = "RECONNECTING" /\ player.inFlight /\ player.expectedResets > 0
  <2> DEFINE n == player.expectedResets - 1
             q == [player EXCEPT !.expectedResets = n]
  <2>1. n \in 0..2
    BY <1>1, <1>2 DEF PlayerType
  <2>2. player' = q
    BY <1>1, <1>2 DEF SessionReset, PlayerType
  <2> HIDE DEF n
  <2>3. q \in PlayerType
    BY <1>1, <2>1, SetExpectedResets
  <2>4. Alike(player, q)
    BY <1>1 DEF Alike, PlayerType
  <2> HIDE DEF q
  <2> QED BY <2>2, <2>3, <2>4, AlikeGood DEF Steady
<1>3. CASE ~(player.state = "RECONNECTING" /\ player.inFlight /\ player.expectedResets > 0)
  <2> DEFINE q == IF CanReport(player) THEN Report([player EXCEPT !.webrtcUp = FALSE])
                  ELSE player
  <2>1. player' = IF q.desired THEN HandleFailure(q, Hard) ELSE q
    BY <1>3 DEF SessionReset
  <2>2. Good(q) /\ Keeps(player, q)
    BY WebrtcReportGood DEF CanReport, Keeps
  <2> HIDE DEF q
  <2>3. Good(player') /\ Keeps(q, player')
    BY <2>1, <2>2, HandleFailureGood, Members DEF Keeps
  <2> QED BY <2>2, <2>3, KeepsIsTransitive DEF Steady
<1> QED BY <1>2, <1>3

LEMMA OfferReceivedGood ==
  ASSUME Good(player), OfferReceived
  PROVE  Steady
<1>1. player \in PlayerType /\ player.state = "RECONNECTING"
  BY DEF Good, OfferReceived
<1> DEFINE q == [player EXCEPT !.settleStartTimer = "none", !.settleTimer = "current"]
<1>2. q \in PlayerType
  BY <1>1, SetTimer, Members
<1>3. /\ q.state = player.state /\ q.desired = player.desired /\ q.watchdog = player.watchdog
      /\ q.recoveryNotified = player.recoveryNotified /\ q.pending = player.pending
  BY <1>1 DEF PlayerType
<1>4. player' \in {player, q}
  BY DEF OfferReceived, StartSettleWindow
<1> HIDE DEF q
<1>5. Good(q)
  BY <1>1, <1>2, <1>3 DEF Good, Shows, Wants, Rests, Asks, Stopped
<1> QED BY <1>1, <1>3, <1>4, <1>5 DEF Steady, Keeps

-----------------------------------------------------------------------------
(* Frames, and the timers that watch them. *)

LEMMA FrameGood ==
  ASSUME Good(player), Frame
  PROVE  Steady
<1> DEFINE first == player.firstFrame \/ (player.webrtcUp /\ CanTransitionOnFrame(player))
           p == [player EXCEPT !.silent = FALSE, !.firstFrame = first]
           n == [p EXCEPT !.recoveryNotified = TRUE]
           q == TryNotifyRecovered(n)
<1>1. player \in PlayerType /\ player.desired /\ player.state \in Active
  BY GoodIsActive DEF Good, Frame
<1>2. first \in BOOLEAN
  BY <1>1 DEF PlayerType
<1>3. player' = IF Connected(p) /\ CanTransitionOnFrame(p) /\ ~p.recoveryNotified
                THEN StreamRecovered(q) ELSE p
  <2>1. p = [player EXCEPT !.silent = FALSE,
                           !.firstFrame = @ \/ (player.webrtcUp /\ CanTransitionOnFrame(player))]
    BY <1>1 DEF PlayerType
  <2> HIDE DEF p
  <2> QED BY <2>1 DEF Frame
<1>4. player.firstFrame => first
  BY <1>1 DEF PlayerType
<1> HIDE DEF first
<1>5. p \in PlayerType
  BY <1>1, <1>2, SetFlag
<1>6. /\ p.state = player.state /\ p.desired = player.desired /\ p.watchdog = player.watchdog
      /\ p.recoveryNotified = player.recoveryNotified /\ p.pending = player.pending
      /\ p.webrtcUp = player.webrtcUp /\ p.firstFrame = first
  BY <1>1 DEF PlayerType
<1> HIDE DEF p
<1>7. Good(p)
  BY <1>1, <1>4, <1>5, <1>6
     DEF Good, Shows, Wants, Rests, Asks, Stopped, Active, Connected
<1>8. CASE ~(Connected(p) /\ CanTransitionOnFrame(p) /\ ~p.recoveryNotified)
  BY <1>3, <1>6, <1>7, <1>8 DEF Steady, Keeps
<1>9. CASE Connected(p) /\ CanTransitionOnFrame(p) /\ ~p.recoveryNotified
  <2>1. n \in PlayerType
    BY <1>5, SetFlag
  <2>2. n.state = p.state /\ n.desired /\ Connected(n)
    BY <1>1, <1>5, <1>6, <1>9 DEF Connected, PlayerType
  <2>3. q = IF n.state = "RECONNECTING" /\ Connected(n) /\ n.inFlight /\ n.settleTimer # "none"
            THEN ReconnectSuccess(ResetReconnect(n)) ELSE n
    BY DEF TryNotifyRecovered
  <2> HIDE DEF n, q
  <2>4. ResetReconnect(n) \in PlayerType
    BY <2>1, ResetType
  <2>5. /\ ResetReconnect(n).state = n.state /\ ResetReconnect(n).desired = n.desired
        /\ ResetReconnect(n).webrtcUp = n.webrtcUp
        /\ ResetReconnect(n).firstFrame = n.firstFrame
    BY <2>1 DEF ResetReconnect, ClearTimers, PlayerType
  <2>6. /\ q \in PlayerType /\ q.desired /\ Connected(q)
        /\ q.state \in {"CONNECTING", "PLAYING", "RECONNECTING"}
    <3>1. CASE q = n
      BY <1>9, <2>1, <2>2, <3>1 DEF CanTransitionOnFrame
    <3>2. CASE n.state = "RECONNECTING" /\ q = ReconnectSuccess(ResetReconnect(n))
      <4>1. Good(q) /\ q.state = "PLAYING"
        BY <2>2, <2>4, <2>5, <3>2, ReconnectSuccessGood DEF Connected
      <4> QED BY <4>1, GoodIsActive DEF Good, Shows, Active
    <3> QED BY <2>3, <3>1, <3>2
  <2>7. Good(player') /\ player'.state = "PLAYING"
    BY <1>3, <1>9, <2>6, StreamRecoveredGood
  <2> QED BY <1>1, <2>7 DEF Steady, Keeps, Stopped, Active
<1> QED BY <1>8, <1>9

LEMMA WatchdogTickGood ==
  ASSUME Good(player), WatchdogTick
  PROVE  Steady
<1>1. CASE ~player.shown
  <2>1. player' = [player EXCEPT !.silent = FALSE]
    BY <1>1 DEF WatchdogTick
  <2> QED BY <2>1, ShownGood DEF Steady, Keeps
<1>2. CASE player.shown
  <2>1. player' \in {player, HandleFailure(player, Medium)}
    BY <1>2 DEF WatchdogTick
  <2> QED BY <2>1, HandleFailureGood, Members DEF Steady, Keeps
<1> QED BY <1>1, <1>2

LEMMA FpsDropGood ==
  ASSUME Good(player), FpsDrop
  PROVE  Steady
BY HandleFailureGood, Members DEF FpsDrop, Steady

LEMMA VideoStalledGood ==
  ASSUME Good(player), VideoStalled
  PROVE  Steady
BY HandleFailureGood, Members DEF VideoStalled, Steady

(* A timer of the player that has fired is no longer pending. *)
LEMMA FiredGood ==
  ASSUME NEW p, Good(p)
  PROVE  /\ Good([p EXCEPT !.iceGrace = FALSE]) /\ Keeps(p, [p EXCEPT !.iceGrace = FALSE])
         /\ Good([p EXCEPT !.trackMute = FALSE]) /\ Keeps(p, [p EXCEPT !.trackMute = FALSE])
<1>1. p \in PlayerType
  BY DEF Good
<1> DEFINE q == [p EXCEPT !.iceGrace = FALSE]
           r == [p EXCEPT !.trackMute = FALSE]
<1>2. q \in PlayerType /\ r \in PlayerType
  BY <1>1, SetFlag
<1>3. /\ q.state = p.state /\ q.desired = p.desired /\ q.watchdog = p.watchdog
      /\ q.webrtcUp = p.webrtcUp /\ q.firstFrame = p.firstFrame
      /\ q.recoveryNotified = p.recoveryNotified /\ q.pending = p.pending
      /\ ~q.iceGrace /\ q.trackMute = p.trackMute
      /\ q.errorRetry = p.errorRetry
      /\ q.connectInFlight = p.connectInFlight
      /\ q.scheduleTimer = p.scheduleTimer /\ q.settleTimer = p.settleTimer
  BY <1>1 DEF PlayerType
<1>4. /\ r.state = p.state /\ r.desired = p.desired /\ r.watchdog = p.watchdog
      /\ r.webrtcUp = p.webrtcUp /\ r.firstFrame = p.firstFrame
      /\ r.recoveryNotified = p.recoveryNotified /\ r.pending = p.pending
      /\ r.iceGrace = p.iceGrace /\ ~r.trackMute
      /\ r.errorRetry = p.errorRetry
      /\ r.connectInFlight = p.connectInFlight
      /\ r.scheduleTimer = p.scheduleTimer /\ r.settleTimer = p.settleTimer
  BY <1>1 DEF PlayerType
<1> HIDE DEF q, r
<1>5. Good(q) /\ Keeps(p, q)
  BY <1>2, <1>3 DEF Good, Shows, Wants, Rests, Asks, Stopped, Connected, Keeps
<1>6. Good(r) /\ Keeps(p, r)
  BY <1>2, <1>4 DEF Good, Shows, Wants, Rests, Asks, Stopped, Connected, Keeps
<1> QED BY <1>5, <1>6 DEF q, r

LEMMA IceGraceExpiresGood ==
  ASSUME Good(player), IceGraceExpires
  PROVE  Steady
<1> DEFINE q == [player EXCEPT !.iceGrace = FALSE]
<1>1. player' \in {q, HandleFailure(q, Medium)}
  BY DEF IceGraceExpires
<1>2. Good(q) /\ Keeps(player, q)
  BY FiredGood
<1> HIDE DEF q
<1> QED BY <1>1, <1>2, HandleFailureGood, KeepsIsTransitive, Members DEF Steady

LEMMA TrackMuteExpiresGood ==
  ASSUME Good(player), TrackMuteExpires
  PROVE  Steady
<1> DEFINE q == [player EXCEPT !.trackMute = FALSE]
<1>1. player' = HandleFailure(q, Medium)
  BY DEF TrackMuteExpires
<1>2. Good(q) /\ Keeps(player, q)
  BY FiredGood
<1> HIDE DEF q
<1> QED BY <1>1, <1>2, HandleFailureGood, KeepsIsTransitive, Members DEF Steady

-----------------------------------------------------------------------------
(* The connect flow. *)

LEMMA StreamListedGood ==
  ASSUME Good(player), StreamListed
  PROVE  Steady
<1> DEFINE q == [player EXCEPT !.streamSelected = TRUE]
<1>1. player \in PlayerType
  BY DEF Good
<1>2. q \in PlayerType
  BY <1>1, SetFlag
<1>3. Alike(player, q)
  BY <1>1 DEF Alike, PlayerType
<1>4. player' = q
  BY DEF StreamListed
<1> HIDE DEF q
<1> QED BY <1>2, <1>3, <1>4, AlikeGood DEF Steady

LEMMA ConnectFlowEndsGood ==
  ASSUME Good(player), ConnectFlowEnds
  PROVE  Steady
<1>1. player \in PlayerType
  BY DEF Good
<1>2. PICK age \in player.flows, outcome \in {"playing", "blocked", "no stream"} :
      \E left \in {player.flows \ {age}} \cup (IF age = "past" THEN {player.flows} ELSE {}) :
         LET p == [player EXCEPT !.flows = left]
             q == CASE Stale(p, age) -> p
                    [] ~Stale(p, age) /\ outcome = "playing" -> StartWatchdog(p)
                    [] OTHER -> Fail(p)
         IN  player' = [q EXCEPT !.connectInFlight = FALSE]
  BY DEF ConnectFlowEnds
<1>3. PICK left \in SUBSET player.flows :
         LET p == [player EXCEPT !.flows = left]
             q == CASE Stale(p, age) -> p
                    [] ~Stale(p, age) /\ outcome = "playing" -> StartWatchdog(p)
                    [] OTHER -> Fail(p)
         IN  player' = [q EXCEPT !.connectInFlight = FALSE]
  BY <1>2
<1> DEFINE p == [player EXCEPT !.flows = left]
           q == CASE Stale(p, age) -> p
                  [] ~Stale(p, age) /\ outcome = "playing" -> StartWatchdog(p)
                  [] OTHER -> Fail(p)
           r == [q EXCEPT !.connectInFlight = FALSE]
<1>4. player' = r
  BY <1>3
<1>5. left \in SUBSET Ages
  BY <1>1 DEF PlayerType
<1>6. p \in PlayerType
  BY <1>1, <1>5, SetFlows
<1>7. Alike(player, p)
  BY <1>1 DEF Alike, PlayerType
<1> HIDE DEF p
<1>8. Good(p) /\ Keeps(player, p)
  BY <1>6, <1>7, AlikeGood
<1>9. Good(q) /\ Keeps(p, q)
  <2>1. CASE Stale(p, age)
    BY <1>8, <2>1 DEF Keeps
  <2>2. CASE ~Stale(p, age)
    <3>1. p.state \in Active
      BY <1>8, <2>2, GoodIsActive DEF Stale
    <3>2. q \in {StartWatchdog(p), Fail(p)}
      BY <2>2
    <3>3. Good(q) /\ q.state \in {p.state, "ERROR"}
      BY <1>6, <1>8, <3>1, <3>2, WatchdogGood, FailGood
    <3> QED BY <3>1, <3>3 DEF Keeps, Stopped, Active
  <2> QED BY <2>1, <2>2
<1> HIDE DEF q
<1>10. q \in PlayerType
  BY <1>9 DEF Good
<1>11. r \in PlayerType
  BY <1>10, SetFlag
<1>12. /\ r.state = q.state /\ r.desired = q.desired /\ r.watchdog = q.watchdog
       /\ r.webrtcUp = q.webrtcUp /\ r.firstFrame = q.firstFrame
       /\ r.recoveryNotified = q.recoveryNotified /\ r.pending = q.pending
       /\ r.iceGrace = q.iceGrace /\ r.trackMute = q.trackMute
       /\ r.errorRetry = q.errorRetry
       /\ ~r.connectInFlight
       /\ r.scheduleTimer = q.scheduleTimer /\ r.settleTimer = q.settleTimer
  BY <1>10 DEF PlayerType
<1> HIDE DEF r
<1>13. Good(r) /\ Keeps(q, r)
  BY <1>9, <1>11, <1>12 DEF Good, Shows, Wants, Rests, Asks, Stopped, Connected, Keeps
<1> QED BY <1>4, <1>8, <1>9, <1>13, KeepsIsTransitive DEF Steady

-----------------------------------------------------------------------------
(* The reconnect attempt. *)

(* Its bookkeeping: continuations and leaked timers come and go. *)
LEMMA RunsGood ==
  ASSUME NEW p, Good(p), NEW r \in Runs
  PROVE  /\ Good([p EXCEPT !.running[r] = @ + 1]) /\ Keeps(p, [p EXCEPT !.running[r] = @ + 1])
         /\ p.running[r] > 0 => /\ Good([p EXCEPT !.running[r] = @ - 1])
                                /\ Keeps(p, [p EXCEPT !.running[r] = @ - 1])
<1>1. p \in PlayerType
  BY DEF Good
<1>2. /\ [p.running EXCEPT ![r] = p.running[r] + 1] \in [Runs -> Nat]
      /\ p.running[r] > 0 => [p.running EXCEPT ![r] = p.running[r] - 1] \in [Runs -> Nat]
  BY <1>1 DEF PlayerType
<1>3. /\ [p EXCEPT !.running[r] = @ + 1]
           = [p EXCEPT !.running = [p.running EXCEPT ![r] = p.running[r] + 1]]
      /\ [p EXCEPT !.running[r] = @ - 1]
           = [p EXCEPT !.running = [p.running EXCEPT ![r] = p.running[r] - 1]]
  BY <1>1 DEF PlayerType
<1>4. /\ [p EXCEPT !.running[r] = @ + 1] \in PlayerType
      /\ p.running[r] > 0 => [p EXCEPT !.running[r] = @ - 1] \in PlayerType
  BY <1>1, <1>2, <1>3, SetRunning
<1>5. /\ Alike(p, [p EXCEPT !.running[r] = @ + 1])
      /\ Alike(p, [p EXCEPT !.running[r] = @ - 1])
  BY <1>1 DEF Alike, PlayerType
<1> QED BY <1>4, <1>5, AlikeGood

LEMMA LeakedGood ==
  ASSUME NEW p, Good(p), NEW a \in Ages, p.leaked[a] > 0
  PROVE  Good([p EXCEPT !.leaked[a] = @ - 1]) /\ Keeps(p, [p EXCEPT !.leaked[a] = @ - 1])
<1>1. p \in PlayerType
  BY DEF Good
<1>2. [p.leaked EXCEPT ![a] = p.leaked[a] - 1] \in [Ages -> Nat]
  BY <1>1 DEF PlayerType
<1>3. [p EXCEPT !.leaked[a] = @ - 1] = [p EXCEPT !.leaked = [p.leaked EXCEPT ![a] = p.leaked[a] - 1]]
  BY <1>1 DEF PlayerType
<1>4. [p EXCEPT !.leaked[a] = @ - 1] \in PlayerType
  BY <1>1, <1>2, <1>3, SetLeaked
<1>5. Alike(p, [p EXCEPT !.leaked[a] = @ - 1])
  BY <1>1 DEF Alike, PlayerType
<1> QED BY <1>4, <1>5, AlikeGood

(* A timer of the coordinator that has fired is no longer pending. *)
LEMMA TimerFiredGood ==
  ASSUME NEW p, Good(p)
  PROVE  /\ Good([p EXCEPT !.scheduleTimer = "none"])
         /\ Keeps(p, [p EXCEPT !.scheduleTimer = "none"])
         /\ Good([p EXCEPT !.settleStartTimer = "none"])
         /\ Keeps(p, [p EXCEPT !.settleStartTimer = "none"])
         /\ Good([p EXCEPT !.settleTimer = "none"])
         /\ Keeps(p, [p EXCEPT !.settleTimer = "none"])
<1>1. p \in PlayerType
  BY DEF Good
<1> DEFINE q == [p EXCEPT !.scheduleTimer = "none"]
           r == [p EXCEPT !.settleStartTimer = "none"]
           s == [p EXCEPT !.settleTimer = "none"]
<1>2. q \in PlayerType /\ r \in PlayerType /\ s \in PlayerType
  BY <1>1, SetTimer, Members
<1>3. /\ q.state = p.state /\ q.desired = p.desired /\ q.watchdog = p.watchdog
      /\ q.webrtcUp = p.webrtcUp /\ q.firstFrame = p.firstFrame
      /\ q.recoveryNotified = p.recoveryNotified /\ q.pending = p.pending
      /\ q.iceGrace = p.iceGrace /\ q.trackMute = p.trackMute
      /\ q.errorRetry = p.errorRetry
      /\ q.connectInFlight = p.connectInFlight
      /\ q.scheduleTimer = "none" /\ q.settleTimer = p.settleTimer
  BY <1>1 DEF PlayerType
<1>4. Alike(p, r)
  BY <1>1 DEF Alike, PlayerType
<1>5. /\ s.state = p.state /\ s.desired = p.desired /\ s.watchdog = p.watchdog
      /\ s.webrtcUp = p.webrtcUp /\ s.firstFrame = p.firstFrame
      /\ s.recoveryNotified = p.recoveryNotified /\ s.pending = p.pending
      /\ s.iceGrace = p.iceGrace /\ s.trackMute = p.trackMute
      /\ s.errorRetry = p.errorRetry
      /\ s.connectInFlight = p.connectInFlight
      /\ s.scheduleTimer = p.scheduleTimer /\ s.settleTimer = "none"
  BY <1>1 DEF PlayerType
<1> HIDE DEF q, r, s
<1>6. Good(q) /\ Keeps(p, q)
  BY <1>2, <1>3 DEF Good, Shows, Wants, Rests, Asks, Stopped, Connected, Keeps
<1>7. Good(r) /\ Keeps(p, r)
  BY <1>2, <1>4, AlikeGood
<1>8. Good(s) /\ Keeps(p, s)
  BY <1>2, <1>5 DEF Good, Shows, Wants, Rests, Asks, Stopped, Connected, Keeps
<1> QED BY <1>6, <1>7, <1>8 DEF q, r, s

LEMMA RunScheduledGood ==
  ASSUME NEW p, Good(p), NEW age \in Ages
  PROVE  Good(RunScheduled(p, age)) /\ Keeps(p, RunScheduled(p, age))
<1> DEFINE q == [p EXCEPT !.scheduleTimer = "none"]
           c == ClearTimers(q)
           s == [c EXCEPT !.attempt = 0, !.pending = 0]
<1>1. Good(q) /\ Keeps(p, q)
  BY TimerFiredGood
<1>2. RunScheduled(p, age) =
         IF ~Runnable(q, age) THEN q
         ELSE IF Connected(q) THEN ReconnectSuccess(s)
              ELSE [q EXCEPT !.running[<<age, "health">>] = @ + 1]
  BY DEF RunScheduled
<1> HIDE DEF q
<1>3. CASE ~Runnable(q, age)
  BY <1>1, <1>2, <1>3
<1>4. CASE Runnable(q, age) /\ ~Connected(q)
  <2>1. <<age, "health">> \in Runs
    BY DEF Runs
  <2> DEFINE r == [q EXCEPT !.running[<<age, "health">>] = @ + 1]
  <2>2. Good(r) /\ Keeps(q, r)
    BY <1>1, <2>1, RunsGood
  <2>3. RunScheduled(p, age) = r
    BY <1>2, <1>4
  <2> HIDE DEF r
  <2> QED BY <1>1, <2>2, <2>3, KeepsIsTransitive
<1>5. CASE Runnable(q, age) /\ Connected(q)
  <2>1. q \in PlayerType /\ q.desired /\ q.state \in Active
    BY <1>1, <1>5, GoodIsActive DEF Runnable, ShouldContinue, Good
  <2>2. c \in PlayerType
    BY <2>1, ClearTimersType
  <2>3. c.state = q.state /\ c.desired /\ Connected(c)
    BY <1>5, <2>1 DEF ClearTimers, Connected, PlayerType
  <2> HIDE DEF c
  <2>4. s \in PlayerType
    BY <2>2, SetAttempt, SetPending, Members
  <2>5. s.state = q.state /\ s.desired /\ Connected(s)
    BY <2>2, <2>3 DEF Connected, PlayerType
  <2> HIDE DEF s
  <2>6. CASE q.state = "CONNECTING"
    <3>1. RunScheduled(p, age) = FailClosed(s)
      BY <1>2, <1>5, <2>5, <2>6 DEF ReconnectSuccess
    <3>2. Good(RunScheduled(p, age)) /\ RunScheduled(p, age).state = "ERROR"
      BY <2>4, <3>1, FailClosedGood
    <3> QED BY <1>1, <2>6, <3>2 DEF Keeps, Stopped
  <2>7. CASE q.state \in {"PLAYING", "RECONNECTING"}
    <3>1. Good(RunScheduled(p, age)) /\ RunScheduled(p, age).state = "PLAYING"
      BY <1>2, <1>5, <2>4, <2>5, <2>7, ReconnectSuccessGood
    <3>2. Keeps(q, RunScheduled(p, age))
      BY <2>7, <3>1 DEF Keeps, Stopped
    <3> QED BY <1>1, <3>1, <3>2, KeepsIsTransitive
  <2> QED BY <2>1, <2>6, <2>7 DEF Active
<1> QED BY <1>3, <1>4, <1>5

LEMMA ScheduleFiresGood ==
  ASSUME Good(player), ScheduleFires
  PROVE  Steady
<1>1. player.scheduleTimer \in Ages
  BY DEF Good, PlayerType, Timers, ScheduleFires
<1> QED BY <1>1, RunScheduledGood DEF ScheduleFires, Steady

LEMMA LeakedTimerFiresGood ==
  ASSUME Good(player), LeakedTimerFires
  PROVE  Steady
<1>1. PICK age \in Ages :
        /\ player.leaked[age] > 0
        /\ player' = RunScheduled([player EXCEPT !.leaked[age] = @ - 1], age)
  BY DEF LeakedTimerFires
<1> DEFINE q == [player EXCEPT !.leaked[age] = @ - 1]
<1>2. Good(q) /\ Keeps(player, q)
  BY <1>1, LeakedGood
<1>3. player' = RunScheduled(q, age)
  BY <1>1
<1> HIDE DEF q
<1> QED BY <1>2, <1>3, RunScheduledGood, KeepsIsTransitive DEF Steady

LEMMA HealthCheckFailsGood ==
  ASSUME Good(player), HealthCheckFails
  PROVE  Steady
<1>1. PICK age \in Ages :
        /\ player.running[<<age, "health">>] > 0
        /\ player' = ScheduleNext([player EXCEPT !.running[<<age, "health">>] = @ - 1])
  BY DEF HealthCheckFails
<1> DEFINE q == [player EXCEPT !.running[<<age, "health">>] = @ - 1]
<1>2. <<age, "health">> \in Runs
  BY DEF Runs
<1>3. Good(q) /\ Keeps(player, q)
  BY <1>1, <1>2, RunsGood
<1>4. player' = ScheduleNext(q)
  BY <1>1
<1> HIDE DEF q
<1> QED BY <1>3, <1>4, ScheduleNextGood, KeepsIsTransitive DEF Steady

LEMMA RecoveryAttemptStartedGood ==
  ASSUME NEW p, Good(p), p.state \in Active
  PROVE  Good(RecoveryAttemptStarted(p)) /\ Keeps(p, RecoveryAttemptStarted(p))
<1>1. p \in PlayerType
  BY DEF Good
<1>2. CASE p.state = "RECONNECTING"
  <2> DEFINE q == Disconnected(p, "RECONNECTING")
  <2>1. q \in PlayerType
    BY <1>1, DisconnectedType, Members
  <2>2. /\ q.state = p.state /\ q.desired = p.desired /\ q.watchdog = p.watchdog
        /\ q.recoveryNotified = p.recoveryNotified /\ q.pending = p.pending
    BY <1>1, <1>2 DEF Disconnected, PlayerType
  <2>3. RecoveryAttemptStarted(p) = q
    BY <1>2 DEF RecoveryAttemptStarted
  <2> HIDE DEF q
  <2> QED BY <1>2, <2>1, <2>2, <2>3 DEF Good, Shows, Wants, Rests, Asks, Stopped, Keeps
<1>3. CASE p.state # "RECONNECTING"
  BY <1>1, <1>3, FailClosedGood DEF RecoveryAttemptStarted, Keeps, Stopped, Active
<1> QED BY <1>2, <1>3

LEMMA BeginAttemptGood ==
  ASSUME NEW p, Good(p), NEW age \in Ages, NEW dead \in BOOLEAN
  PROVE  Good(BeginAttempt(p, age, dead)) /\ Keeps(p, BeginAttempt(p, age, dead))
<1>1. CASE Stale(p, age)
  BY <1>1 DEF BeginAttempt, Keeps
<1>2. CASE ~Stale(p, age)
  <2> DEFINE a == RecoveryAttemptStarted(p)
             b == [a EXCEPT !.iceGrace = FALSE]
             q == [b EXCEPT !.trackMute = FALSE]
             r == [q EXCEPT !.expectedResets = 2]
             s == StopStreaming(q)
  <2>1. p.state \in Active
    BY <1>2, GoodIsActive DEF Stale
  <2>2. Good(a) /\ Keeps(p, a)
    BY <2>1, RecoveryAttemptStartedGood
  <2>3. BeginAttempt(p, age, dead) \in {r, s}
    BY <1>2 DEF BeginAttempt
  <2> HIDE DEF a
  <2>4. Good(b) /\ Keeps(a, b)
    BY <2>2, FiredGood
  <2> HIDE DEF b
  <2>5. Good(q) /\ Keeps(b, q)
    BY <2>4, FiredGood
  <2> HIDE DEF q
  <2>6. q \in PlayerType /\ 2 \in 0..2
    BY <2>5 DEF Good
  <2>7. r \in PlayerType /\ s \in PlayerType
    BY <2>6, SetExpectedResets, StopStreamingType
  <2>8. Alike(q, r) /\ Alike(q, s)
    BY <2>6 DEF Alike, StopStreaming, PlayerType
  <2> HIDE DEF r, s
  <2>9. Good(r) /\ Keeps(q, r) /\ Good(s) /\ Keeps(q, s)
    BY <2>5, <2>7, <2>8, AlikeGood
  <2>10. Keeps(p, q)
    BY <2>2, <2>4, <2>5, KeepsIsTransitive
  <2> QED BY <2>3, <2>9, <2>10, KeepsIsTransitive
<1> QED BY <1>1, <1>2

LEMMA HealthCheckOkGood ==
  ASSUME Good(player), HealthCheckOk
  PROVE  Steady
<1>1. player \in PlayerType
  BY DEF Good
<1>2. PICK age \in Ages, dead \in BOOLEAN :
        /\ player.running[<<age, "health">>] > 0
        /\ player' = BeginAttempt([player EXCEPT !.running[<<age, "health">>] = @ - 1,
                                                 !.running[<<age, "exec">>] = @ + 1,
                                                 !.inFlight = TRUE, !.attempt = @ + 1], age, dead)
  BY DEF HealthCheckOk
<1> DEFINE q == [player EXCEPT !.running[<<age, "health">>] = @ - 1]
           r == [q EXCEPT !.running[<<age, "exec">>] = @ + 1]
           n == r.attempt + 1
           s == [r EXCEPT !.inFlight = TRUE, !.attempt = n]
<1>3. <<age, "health">> \in Runs /\ <<age, "exec">> \in Runs
  BY DEF Runs
<1>4. Good(q) /\ Keeps(player, q)
  BY <1>2, <1>3, RunsGood
<1>5. player' = BeginAttempt(s, age, dead)
  <2>1. q \in PlayerType
    BY <1>4 DEF Good
  <2>2. s = [player EXCEPT !.running[<<age, "health">>] = @ - 1,
                           !.running[<<age, "exec">>] = @ + 1,
                           !.inFlight = TRUE, !.attempt = @ + 1]
    BY <1>1, <2>1 DEF PlayerType
  <2> HIDE DEF s
  <2> QED BY <1>2, <2>2
<1> HIDE DEF q
<1>6. Good(r) /\ Keeps(q, r)
  BY <1>3, <1>4, RunsGood
<1> HIDE DEF r
<1>7. r \in PlayerType
  BY <1>6 DEF Good
<1>8. n \in Nat
  BY <1>7 DEF PlayerType
<1> HIDE DEF n
<1>9. s \in PlayerType
  BY <1>7, <1>8, SetFlag, SetAttempt
<1>10. Alike(r, s)
  BY <1>7 DEF Alike, PlayerType
<1> HIDE DEF s
<1>11. Good(s) /\ Keeps(r, s)
  BY <1>6, <1>9, <1>10, AlikeGood
<1>12. Keeps(player, s)
  BY <1>4, <1>6, <1>11, KeepsIsTransitive
<1> QED BY <1>5, <1>11, <1>12, BeginAttemptGood, KeepsIsTransitive DEF Steady

LEMMA LeavesGood ==
  ASSUME NEW p, Good(p), NEW age \in Ages, p.running[<<age, "exec">>] > 0
  PROVE  Good(Leaves(p, age)) /\ Keeps(p, Leaves(p, age))
<1> DEFINE q == [p EXCEPT !.running[<<age, "exec">>] = @ - 1]
<1>1. <<age, "exec">> \in Runs
  BY DEF Runs
<1>2. Good(q) /\ Keeps(p, q)
  BY <1>1, RunsGood
<1>3. Leaves(p, age) = [q EXCEPT !.settleStartTimer = "none"]
  BY DEF Leaves
<1> HIDE DEF q
<1> QED BY <1>2, <1>3, TimerFiredGood, KeepsIsTransitive

LEMMA AttemptReturnsGood ==
  ASSUME Good(player), AttemptReturns
  PROVE  Steady
<1>1. PICK age \in Ages :
        /\ player.running[<<age, "exec">>] > 0
        /\ LET p == Leaves(player, age)
               q == IF Stale(p, age) THEN p ELSE StartWatchdog(p)
           IN  player' = IF q.settleTimer # "none" THEN q ELSE [q EXCEPT !.settleStartTimer = age]
  BY DEF AttemptReturns
<1> DEFINE p == Leaves(player, age)
           q == IF Stale(p, age) THEN p ELSE StartWatchdog(p)
           r == [q EXCEPT !.settleStartTimer = age]
<1>2. Good(p) /\ Keeps(player, p)
  BY <1>1, LeavesGood
<1>3. player' \in {q, r}
  BY <1>1
<1> HIDE DEF p
<1>4. Good(q) /\ Keeps(p, q)
  <2>1. CASE Stale(p, age)
    BY <1>2, <2>1 DEF Keeps
  <2>2. CASE ~Stale(p, age)
    BY <1>2, <2>2, GoodIsActive, WatchdogGood DEF Stale, Keeps
  <2> QED BY <2>1, <2>2
<1> HIDE DEF q
<1>5. q \in PlayerType /\ age \in Timers
  BY <1>4 DEF Good, Timers
<1>6. r \in PlayerType
  BY <1>5, SetTimer
<1>7. Alike(q, r)
  BY <1>5 DEF Alike, PlayerType
<1> HIDE DEF r
<1>8. Good(r) /\ Keeps(q, r)
  BY <1>4, <1>6, <1>7, AlikeGood
<1>9. Keeps(player, q) /\ Keeps(player, r)
  BY <1>2, <1>4, <1>8, KeepsIsTransitive
<1> QED BY <1>3, <1>4, <1>8, <1>9 DEF Steady

LEMMA EndEscalatedGood ==
  ASSUME NEW p, Good(p)
  PROVE  /\ Good(EndAttempt(EscalatePending(p)))
         /\ Keeps(p, EndAttempt(EscalatePending(p)))
<1>1. Good(EscalatePending(p)) /\ Keeps(p, EscalatePending(p))
  BY EscalatePendingGood DEF Keeps
<1> QED BY <1>1, EndAttemptGood, KeepsIsTransitive

LEMMA AttemptThrowsGood ==
  ASSUME Good(player), AttemptThrows
  PROVE  Steady
<1>1. PICK age \in Ages, timeout \in BOOLEAN :
        /\ player.running[<<age, "exec">>] > 0
        /\ LET p == Leaves(player, age)
           IN  player' = EndAttempt(IF timeout THEN EscalatePending(p) ELSE p)
  BY DEF AttemptThrows
<1> DEFINE p == Leaves(player, age)
<1>2. Good(p) /\ Keeps(player, p)
  BY <1>1, LeavesGood
<1>3. player' \in {EndAttempt(EscalatePending(p)), EndAttempt(p)}
  BY <1>1
<1> HIDE DEF p
<1> QED BY <1>2, <1>3, EndEscalatedGood, EndAttemptGood, KeepsIsTransitive DEF Steady

LEMMA NotInFlightGood ==
  ASSUME NEW p, Good(p)
  PROVE  Good([p EXCEPT !.inFlight = FALSE]) /\ Keeps(p, [p EXCEPT !.inFlight = FALSE])
<1>1. p \in PlayerType
  BY DEF Good
<1>2. [p EXCEPT !.inFlight = FALSE] \in PlayerType
  BY <1>1, SetFlag
<1>3. Alike(p, [p EXCEPT !.inFlight = FALSE])
  BY <1>1 DEF Alike, PlayerType
<1> QED BY <1>2, <1>3, AlikeGood

LEMMA SettleStartExpiresGood ==
  ASSUME Good(player), SettleStartExpires
  PROVE  Steady
<1> DEFINE p == [player EXCEPT !.settleStartTimer = "none"]
<1>1. player' \in {p, EndAttempt(EscalatePending(p)), [p EXCEPT !.inFlight = FALSE]}
  BY DEF SettleStartExpires
<1>2. Good(p) /\ Keeps(player, p)
  BY TimerFiredGood
<1> HIDE DEF p
<1> QED BY <1>1, <1>2, EndEscalatedGood, NotInFlightGood, KeepsIsTransitive DEF Steady

LEMMA SettleExpiresGood ==
  ASSUME Good(player), SettleExpires
  PROVE  Steady
<1> DEFINE p == [player EXCEPT !.settleTimer = "none"]
<1>1. player' \in {EndAttempt(EscalatePending(p)), [p EXCEPT !.inFlight = FALSE]}
  BY DEF SettleExpires
<1>2. Good(p) /\ Keeps(player, p)
  BY TimerFiredGood
<1> HIDE DEF p
<1> QED BY <1>1, <1>2, EndEscalatedGood, NotInFlightGood, KeepsIsTransitive DEF Steady

-----------------------------------------------------------------------------
(* The specification. *)

LEMMA InitGood ==
  ASSUME Init
  PROVE  Good(player)
<1>1. PICK setting \in AutonomousSettings :
    player = [state |-> "IDLE", autonomous |-> setting, desired |-> FALSE,
              webrtcUp |-> FALSE, firstFrame |-> FALSE,
              iceState |-> "new", recoveryNotified |-> FALSE,
              streamSelected |-> FALSE, sessionEvents |-> TRUE,
              connectInFlight |-> FALSE, flows |-> {},
              watchdog |-> FALSE, silent |-> TRUE, shown |-> TRUE,
              iceGrace |-> FALSE, trackMute |-> FALSE, errorRetry |-> FALSE,
              attempt |-> 0, pending |-> 0, inFlight |-> FALSE, expectedResets |-> 0,
              scheduleTimer |-> "none", settleStartTimer |-> "none", settleTimer |-> "none",
              leaked |-> [a \in Ages |-> 0], running |-> [r \in Runs |-> 0]]
  BY DEF Init
<1>2. setting \in BOOLEAN
  BY PlayerAssumption
<1>3. player \in PlayerType
  BY <1>1, <1>2, Members DEF PlayerType
<1>4. Shows(player) /\ Wants(player) /\ Rests(player) /\ Asks(player)
  BY <1>1 DEF Shows, Wants, Rests, Asks, Stopped, Connected, Active
<1> QED BY <1>3, <1>4 DEF Good

Restart == TogglePlay \/ RetryPressed \/ TabVisible \/ ErrorRetryExpires

LEMMA NextGood ==
  ASSUME Good(player), Next
  PROVE  Good(player') /\ (Restart \/ Keeps(player, player'))
<1>1. CASE TogglePlay         BY <1>1, TogglePlayGood DEF Restart
<1>2. CASE RetryPressed       BY <1>2, RetryPressedGood DEF Restart
<1>3. CASE TabVisible         BY <1>3, TabVisibleGood DEF Restart
<1>4. CASE ErrorRetryExpires  BY <1>4, ErrorRetryExpiresGood DEF Restart
<1>5. CASE Hide               BY <1>5, HideGood DEF Steady
<1>6. CASE ElementVisible     BY <1>6, ElementVisibleGood DEF Steady
<1>7. CASE NetworkOnline      BY <1>7, NetworkOnlineGood DEF Steady
<1>8. CASE Streaming
  BY <1>8, IceReportGood, IceFailsGood, WebrtcUpGood, WebrtcDownGood, HangupGood,
     TrackMutedGood, StreamErrorGood, SessionResetGood, OfferReceivedGood
     DEF Streaming, Steady
<1>9. CASE Media
  BY <1>9, FrameGood, SilenceGood, FpsDropGood, VideoStalledGood DEF Media, Steady
<1>10. CASE WatchdogTick      BY <1>10, WatchdogTickGood DEF Steady
<1>11. CASE IceGraceExpires   BY <1>11, IceGraceExpiresGood DEF Steady
<1>12. CASE TrackMuteExpires  BY <1>12, TrackMuteExpiresGood DEF Steady
<1>13. CASE Connect
  BY <1>13, StreamListedGood, ConnectFlowEndsGood DEF Connect, Steady
<1>14. CASE Reconnect
  BY <1>14, ScheduleFiresGood, LeakedTimerFiresGood, HealthCheckFailsGood,
     HealthCheckOkGood, AttemptReturnsGood, AttemptThrowsGood,
     SettleStartExpiresGood, SettleExpiresGood DEF Reconnect, Steady
<1> QED BY <1>1, <1>2, <1>3, <1>4, <1>5, <1>6, <1>7, <1>8, <1>9, <1>10, <1>11, <1>12,
           <1>13, <1>14 DEF Next, User, Timer

(* Good is an inductive invariant of the player. *)
THEOREM Invariance == Spec => []Good(player)
<1>1. Init => Good(player)
  BY InitGood
<1>2. Good(player) /\ [Next]_player => Good(player)'
  <2> SUFFICES ASSUME Good(player), [Next]_player
               PROVE  Good(player')
    OBVIOUS
  <2>1. CASE Next
    BY <2>1, NextGood
  <2>2. CASE UNCHANGED player
    BY <2>2
  <2> QED BY <2>1, <2>2
<1> QED BY <1>1, <1>2, PTL DEF Spec

(* The player's fields keep their types, the bounds on severities among    *)
(* them, whatever requests are merged.                                     *)
THEOREM TypeCorrect == Spec => []TypeOK
<1>1. Good(player) => TypeOK
  BY DEF Good, TypeOK
<1> QED BY <1>1, Invariance, PTL

(* A player that says PLAYING has WebRTC up and has shown a frame.         *)
THEOREM PlayingConnected == Spec => []PlayingIsConnected
<1>1. Good(player) => PlayingIsConnected
  BY DEF Good, Shows, PlayingIsConnected
<1> QED BY <1>1, Invariance, PTL

(* An active player is wanted and its watchdog ticks. *)
THEOREM ActiveWatched == Spec => []ActiveIsWatched
<1>1. Good(player) => ActiveIsWatched
  BY DEF Good, Wants, ActiveIsWatched
<1> QED BY <1>1, Invariance, PTL

(* A stopped player and its coordinator hold no watchdog, grace, mute,     *)
(* backoff or settle timer, no request and no connect latch, and a retry   *)
(* in ERROR only.                                                          *)
THEOREM StoppedQuiet == Spec => []StoppedIsQuiet
<1>1. Good(player) => StoppedIsQuiet
  BY DEF Good, Rests, StoppedIsQuiet
<1> QED BY <1>1, Invariance, PTL

(* A reconnecting player has a request to work on and its latch open.      *)
THEOREM ReconnectingRequested == Spec => []ReconnectingIsRequested
<1>1. Good(player) => ReconnectingIsRequested
  BY DEF Good, Asks, ReconnectingIsRequested
<1> QED BY <1>1, Invariance, PTL

(* What player and coordinator hold, overwritten backoff timers and the    *)
(* wait for an offer excepted, fits the state of the player, always.       *)
THEOREM ActivityFits == Spec => []ActivityFitsState
BY ActiveWatched, StoppedQuiet, ReconnectingRequested, PTL DEF ActivityFitsState

(* Only the user restarts a stopped player, or in ERROR the tab that       *)
(* becomes visible and the retry after the network came back.              *)
THEOREM StoppedStays == Spec => StoppedUntilAsked
<1> DEFINE Asked == \/ TogglePlay
                    \/ player.state = "ERROR" /\ (RetryPressed \/ TabVisible \/ ErrorRetryExpires)
           Stays == Stopped(player) /\ player'.state # player.state => Asked
<1>1. Good(player) /\ [Next]_player => [Stays]_player
  <2> SUFFICES ASSUME Good(player), Next
               PROVE  Stays
    OBVIOUS
  <2>1. Restart \/ Keeps(player, player')
    BY NextGood
  <2>2. CASE Keeps(player, player')
    BY <2>2 DEF Keeps
  <2>3. CASE TogglePlay
    BY <2>3
  <2>4. CASE RetryPressed
    BY <2>4 DEF RetryPressed
  <2>5. CASE TabVisible
    BY <2>5, TabVisibleGood DEF Stopped
  <2>6. CASE ErrorRetryExpires
    BY <2>6, ErrorRetryExpiresGood DEF Stopped
  <2> QED BY <2>1, <2>2, <2>3, <2>4, <2>5, <2>6 DEF Restart
<1> QED BY <1>1, Invariance, PTL DEF Spec, StoppedUntilAsked

(* The player implements what its user is promised: every step is a start, *)
(* a picture, a loss, a failure, a stop, or nothing that the user sees.    *)
THEOREM Implements == Spec => ImplementsPlayerStates
<1>1. Init => Seen!Init
  BY DEF Init, Seen!Init
<1>2. Good(player) /\ Good(player)' /\ [Next]_player => [Seen!Next]_(Seen!vars)
  <2> SUFFICES ASSUME Good(player), Good(player'), [Next]_player
               PROVE  [Seen!Next]_(Seen!vars)
    OBVIOUS
  <2>1. /\ player.state \in States /\ player'.state \in States
        /\ player.desired \in BOOLEAN /\ player'.desired \in BOOLEAN
    BY DEF Good, PlayerType
  <2>2. /\ player.desired <=> player.state \in Active
        /\ player'.desired <=> player'.state \in Active
    BY GoodIsActive
  <2>3. Starts(player, player')
    BY NextGood, TogglePlayGood, RetryPressedGood, TabVisibleGood, ErrorRetryExpiresGood,
       KeepsIsNoStart DEF Restart, Starts
  <2>4. CASE player'.state = player.state
    BY <2>1, <2>2, <2>4 DEF Seen!vars
  <2>5. CASE player'.state # player.state
    <3>1. CASE player'.state = "CONNECTING"
      BY <2>1, <2>2, <2>3, <2>5, <3>1 DEF Starts, States, Active, Seen!Next, Seen!Start
    <3>2. CASE player'.state = "PLAYING"
      BY <2>1, <2>2, <2>3, <2>5, <3>2 DEF Starts, Stopped, States, Active, Seen!Next, Seen!Show
    <3>3. CASE player'.state = "RECONNECTING"
      BY <2>1, <2>2, <2>3, <2>5, <3>3 DEF Starts, Stopped, States, Active, Seen!Next, Seen!Lose
    <3>4. CASE player'.state = "ERROR"
      BY <2>1, <2>2, <2>3, <2>5, <3>4
         DEF Starts, Stopped, States, Active, Seen!Next, Seen!Fail, Seen!Active
    <3>5. CASE player'.state = "IDLE"
      BY <2>1, <2>2, <2>3, <2>5, <3>5
         DEF Starts, Stopped, States, Active, Seen!Next, Seen!Stop, Seen!Active
    <3> QED BY <2>1, <3>1, <3>2, <3>3, <3>4, <3>5 DEF States, Active
  <2> QED BY <2>4, <2>5
<1> QED BY <1>1, <1>2, Invariance, PTL DEF Spec, ImplementsPlayerStates, Seen!Spec

(* Entering CONNECTING starts a flow: a player that was stopped has no     *)
(* latch, and leaving ERROR opens it.                                      *)
LEMMA EnterConnectingFlows ==
  ASSUME NEW p \in PlayerType, p.state = "ERROR" \/ ~p.connectInFlight
  PROVE  "current" \in EnterConnecting(p).flows
<1> DEFINE n == NewGeneration(p)
           q == [Disconnected(n, "CONNECTING") EXCEPT !.iceState = "new"]
           r == IF p.state = "ERROR" THEN StopAll(q) ELSE q
           s == StartJanus(r)
<1>1. n \in PlayerType
  BY AgedType
<1>2. n.connectInFlight = p.connectInFlight
  BY DEF NewGeneration, PlayerType
<1> HIDE DEF n
<1>3. q \in PlayerType
  BY <1>1, DisconnectedType, SetIceState, Members
<1>4. q.connectInFlight = n.connectInFlight
  BY <1>1 DEF Disconnected, PlayerType
<1> HIDE DEF q
<1>5. r \in PlayerType /\ ~r.connectInFlight
  BY <1>2, <1>3, <1>4, StopAllType, StopAllFields
<1> HIDE DEF r
<1>6. "current" \in s.flows
  BY <1>5 DEF StartJanus, PlayerType
<1>7. DOMAIN s = DOMAIN r
  BY <1>5 DEF StartJanus, PlayerType
<1>8. StartWatchdog(s).flows = s.flows
  BY <1>5 DEF StartWatchdog, StartJanus, PlayerType
<1>9. EnterConnecting(p) = StartWatchdog(s)
  BY DEF EnterConnecting, n, q, r, s
<1> QED BY <1>6, <1>8, <1>9

LEMMA RetryFlows ==
  ASSUME NEW p \in PlayerType, Retry(p).state = "CONNECTING"
  PROVE  "current" \in Retry(p).flows
<1> DEFINE q == [p EXCEPT !.desired = TRUE]
<1>1. p.state = "ERROR"
  BY RetryGood
<1>2. q \in PlayerType
  BY SetFlag
<1>3. q.state = p.state
  BY DEF PlayerType
<1>4. Retry(p) = IF q.state = "ERROR" THEN EnterConnecting(q) ELSE FailClosed(q)
  BY DEF Retry, Reset
<1> HIDE DEF q
<1> QED BY <1>1, <1>2, <1>3, <1>4, EnterConnectingFlows

LEMMA TabVisibleFlows ==
  ASSUME Good(player), TabVisible, player.state # "CONNECTING", player'.state = "CONNECTING"
  PROVE  "current" \in player'.flows
<1> DEFINE p == [player EXCEPT !.shown = TRUE]
           s(long) == IF long THEN EscalatePending(p) ELSE p
           r(long) == ResumeIfPending(s(long))
<1>1. PICK long \in BOOLEAN :
        player' = CASE p.state = "ERROR" -> Retry(p)
                    [] p.state = "RECONNECTING" ->
                         IF r(long).pending = 0 /\ ~r(long).inFlight THEN Retry(r(long)) ELSE r(long)
                    [] p.state \in {"PLAYING", "CONNECTING"} /\ long -> RequestRecovery(p, Hard)
                    [] p.state \in {"PLAYING", "CONNECTING"} /\ ~long ->
                         [p EXCEPT !.silent = FALSE]
                    [] OTHER -> p
  BY DEF TabVisible
<1>2. Good(p) /\ p.state = player.state
  BY ShownGood
<1> HIDE DEF p
<1>3. Good(s(long)) /\ s(long).state = p.state
  BY <1>2, EscalatePendingGood
<1> HIDE DEF s
<1>4. Good(r(long)) /\ Keeps(s(long), r(long))
  BY <1>3, ResumeIfPendingGood
<1> HIDE DEF r
<1>5. p \in PlayerType /\ r(long) \in PlayerType
  BY <1>2, <1>4 DEF Good
<1>6. CASE p.state = "ERROR"
  BY <1>1, <1>5, <1>6, RetryFlows
<1>7. CASE p.state = "RECONNECTING"
  <2>1. r(long).state # "CONNECTING"
    BY <1>3, <1>4, <1>7 DEF Keeps
  <2>2. player' = Retry(r(long))
    BY <1>1, <1>7, <2>1
  <2> QED BY <1>5, <2>2, RetryFlows
<1>8. CASE p.state = "PLAYING"
  <2>1. CASE long
    <3>1. player' = RequestRecovery(p, Hard)
      BY <1>1, <1>8, <2>1
    <3>2. Keeps(p, player')
      BY <1>2, <3>1, RequestRecoveryGood, Members
    <3> QED BY <1>8, <3>2 DEF Keeps
  <2>2. CASE ~long
    <3>1. player' = [p EXCEPT !.silent = FALSE]
      BY <1>1, <1>8, <2>2
    <3>2. player'.state = p.state
      BY <1>2, <3>1, ShownGood
    <3> QED BY <1>8, <3>2
  <2> QED BY <2>1, <2>2
<1>9. CASE p.state \notin {"ERROR", "RECONNECTING", "PLAYING"}
  BY <1>1, <1>2, <1>9
<1> QED BY <1>6, <1>7, <1>8, <1>9

(* A player that enters CONNECTING starts a connect flow of its own,       *)
(* whatever a stop left under way.                                         *)
THEOREM ConnectingFlows == Spec => ConnectingStartsAFlow
<1> DEFINE Flows == player.state # "CONNECTING" /\ player'.state = "CONNECTING"
                    => "current" \in player'.flows
<1>1. Good(player) /\ [Next]_player => [Flows]_player
  <2> SUFFICES ASSUME Good(player), Next, player.state # "CONNECTING", player'.state = "CONNECTING"
               PROVE  "current" \in player'.flows
    OBVIOUS
  <2>0. player \in PlayerType
    BY DEF Good
  <2>1. Restart
    BY NextGood DEF Keeps
  <2>2. CASE TogglePlay
    <3> DEFINE q == [player EXCEPT !.desired = TRUE]
    <3>1. ~player.desired
      <4> SUFFICES ASSUME player.desired PROVE FALSE
        BY <2>0 DEF PlayerType
      <4> DEFINE d == [player EXCEPT !.desired = FALSE]
      <4>1. d \in PlayerType /\ ~d.desired /\ d.state = player.state
        <5>1. d \in PlayerType
          BY <2>0, SetFlag
        <5>2. ~d.desired /\ d.state = player.state
          BY <2>0 DEF PlayerType
        <5> QED BY <5>1, <5>2
      <4>2. player' = StopRequest(d)
        BY <2>2 DEF TogglePlay
      <4>3. player.state \in Active
        BY GoodIsActive
      <4> HIDE DEF d
      <4>4. player'.state = "IDLE"
        BY <4>1, <4>2, <4>3, StopRequestGood
      <4> QED BY <4>4
    <3>2. q \in PlayerType /\ q.state = player.state /\ q.connectInFlight = player.connectInFlight
      <4>1. q \in PlayerType
        BY <2>0, SetFlag
      <4>2. q.state = player.state /\ q.connectInFlight = player.connectInFlight
        BY <2>0 DEF PlayerType
      <4> QED BY <4>1, <4>2
    <3>3. player.state \in {"IDLE", "ERROR"} /\ ~player.connectInFlight
      BY <3>1, GoodIsActive DEF Stopped, Good, Rests
    <3>4. player' = EnterConnecting(q)
      BY <2>2, <3>1, <3>2, <3>3 DEF TogglePlay, PlayRequest
    <3> HIDE DEF q
    <3> QED BY <3>2, <3>3, <3>4, EnterConnectingFlows
  <2>3. CASE RetryPressed
    BY <2>0, <2>3, RetryFlows DEF RetryPressed
  <2>4. CASE TabVisible
    BY <2>4, TabVisibleFlows
  <2>5. CASE ErrorRetryExpires
    <3> DEFINE q == [player EXCEPT !.errorRetry = FALSE]
    <3>1. q \in PlayerType
      BY <2>0, SetFlag
    <3>2. q.state = player.state
      BY <2>0 DEF PlayerType
    <3>3. player' = IF q.state = "ERROR" THEN Retry(q) ELSE q
      BY <2>5 DEF ErrorRetryExpires
    <3> HIDE DEF q
    <3> QED BY <3>1, <3>2, <3>3, RetryFlows
  <2> QED BY <2>1, <2>2, <2>3, <2>4, <2>5 DEF Restart
<1> QED BY <1>1, Invariance, PTL DEF Spec, ConnectingStartsAFlow
=============================================================================
