--------------------------- MODULE RecoveryLadder ---------------------------
(***************************************************************************)
(* The recovery ladder of the camera page (recovery_ladder.py), the two    *)
(* watchdogs that climb it (watchdogs.py), the system mode they share      *)
(* (system_mode.py), and what survives a restart of the process (a state   *)
(* file on tmpfs) and of the node (the reboot counter).                    *)
(*                                                                         *)
(* Clocks are flags: a flag is set when a time stamp is taken, and the     *)
(* action named after it clears it when its window has passed.  How long   *)
(* the process has been up, or in its mode, is not kept: a comparison with *)
(* either may go either way, at any time.  Metrics, the event log and the  *)
(* marker file of a reboot are left out: nothing decides by them.          *)
(***************************************************************************)
EXTENDS Naturals

CONSTANTS NumLevels,        \* length of _levels; the last one reboots the node
          MaxAttempts,      \* max_attempts of each level
          MaxReboots,       \* max_fdir_reboots
          RebootEnabled,    \* watchdog_reboot_enabled
          SafeAutoReset,    \* SAFE_MODE_AUTO_RESET_SEC > 0
          NominalChecks,    \* WATCHDOG_NOMINAL_CHECKS
          MaxFaults,        \* bound: writes that the disk loses
          MaxDisturbances   \* bound: restarts and power cuts of others, resets of an operator

Levels    == 0 .. NumLevels - 1
Exhausted == NumLevels
Reboot    == NumLevels - 1

ASSUME LadderAssumption ==
    /\ NumLevels \in Nat \ {0} /\ MaxAttempts \in [Levels -> Nat \ {0}]
    /\ MaxReboots \in Nat /\ NominalChecks \in Nat \ {0}
    /\ RebootEnabled \in BOOLEAN /\ SafeAutoReset \in BOOLEAN
    /\ MaxFaults \in Nat /\ MaxDisturbances \in Nat

VARIABLES ladder,      \* _current_level and the attempts of the levels
          saved,       \* the same, in _LADDER_STATE_PATH: lost when the node boots
          reboots,     \* the number in _REBOOT_COUNT_PATH: survives a boot
          mode,        \* _state.current
          at,          \* where each thread is
          before,      \* the count that a reboot under way has read
          streak,      \* healthy_streak
          grace,       \* _in_grace_period()
          claimed,     \* in the window after watchdogs._last_escalation_ts
          cooling,     \* in the cooldown of the current level (which covers the 3 s window
                       \* after the ladder's own _last_escalation_ts)
          faulty,      \* a check finds the stream stale, or raises and its retry too (environment)
          going,       \* the node is going down for a reboot (environment)
          begun,       \* attempts begun at each level since the last reset or boot
          spent,       \* reboots of this ladder since the counter was last cleared
          faults, disturbed

watchVars == <<streak, grace, claimed>>
levelVars == <<ladder, saved, begun, cooling>>
countVars == <<reboots, before, spent, going>>
worldVars == <<faulty, disturbed>>
vars == <<watchVars, levelVars, countVars, mode, worldVars, at, faults>>

Modes == 0 .. 3    \* NOMINAL, DEGRADED, LOCAL_ONLY, SAFE
NOMINAL == 0
SAFE == 3

(* The watchdog thread, the snapshot coroutine, and a request of an        *)
(* operator to reset the ladder.                                           *)
Threads == {"janus", "snapshot", "admin"}
Holding == {"climbing", "executing", "rebooting", "clearing"}   \* inside RecoveryLadder._lock
Stages  == Holding \cup {"idle", "escalating", "resetting", "promoting"}

Fresh == [level |-> 0, attempts |-> [l \in Levels |-> 0]]
Ladders == [level : 0 .. Exhausted, attempts : [Levels -> Nat]]

TypeOK ==
    /\ ladder \in Ladders /\ saved \in Ladders
    /\ \A l \in Levels : ladder.attempts[l] <= MaxAttempts[l] /\ saved.attempts[l] <= MaxAttempts[l]
    /\ reboots \in 0 .. MaxReboots /\ before \in 0 .. MaxReboots
    /\ mode \in Modes
    /\ at \in [Threads -> Stages]
    /\ streak \in 0 .. NominalChecks
    /\ grace \in BOOLEAN /\ claimed \in BOOLEAN /\ cooling \in BOOLEAN
    /\ faulty \in BOOLEAN /\ going \in BOOLEAN
    /\ begun \in [Levels -> Nat] /\ spent \in Nat
    /\ faults \in 0 .. MaxFaults /\ disturbed \in 0 .. MaxDisturbances

-----------------------------------------------------------------------------
(* The files.  A write that fails is logged and nothing more; the file of  *)
(* the counter, truncated first, may be left empty, which is read as 0.    *)
DiskFails == faults < MaxFaults /\ faults' = faults + 1

Save(state) == \/ saved' = state /\ UNCHANGED faults
               \/ DiskFails /\ UNCHANGED saved

WriteCount(n) == \/ reboots' = n /\ UNCHANGED faults
                 \/ DiskFails /\ reboots' \in {reboots, 0}

(* The system mode. *)
Degraded == IF mode = SAFE THEN SAFE ELSE mode + 1

(* Threads. *)
Go(t, stage) == at' = [at EXCEPT ![t] = stage]
LockFree == \A t \in Threads : at[t] \notin Holding

(* Mistake: the breaker is off by one. *)
TrippedLate(count) == count > MaxReboots

(* What the process starts with: the saved ladder, or the end of it when   *)
(* the reboots are used up.  The ladder's file is written beside the old   *)
(* one and renamed, so that a corrupted one (line 232) is left out.        *)
Tripped(count) == count >= MaxReboots
Loaded(state, count) == IF Tripped(count) THEN [state EXCEPT !.level = Exhausted] ELSE state

Init ==
    /\ ladder = Loaded(Fresh, 0) /\ saved = Fresh /\ reboots = 0
    /\ mode = (IF Tripped(0) THEN SAFE ELSE NOMINAL)
    /\ at = [t \in Threads |-> "idle"] /\ before = 0
    /\ streak = 0 /\ grace = TRUE /\ claimed = FALSE
    /\ cooling \in BOOLEAN
    /\ faulty = FALSE /\ going = FALSE
    /\ begun = [l \in Levels |-> 0] /\ spent = 0
    /\ faults = 0 /\ disturbed = 0

-----------------------------------------------------------------------------
(* The watchdog thread: one turn of _watchdog_loop.                        *)
CheckHealthy ==
    /\ at["janus"] = "idle" /\ ~faulty
    /\ grace' = FALSE
    /\ streak' = (IF streak < NominalChecks THEN streak + 1 ELSE streak)
    /\ IF streak' = NominalChecks THEN Go("janus", "resetting") ELSE UNCHANGED at
    /\ UNCHANGED <<claimed, levelVars, countVars, mode, worldVars, faults>>

(* _try_escalate: one watchdog claims the window. *)
TryEscalate(t) ==
    IF claimed THEN Go(t, "idle") /\ UNCHANGED claimed
               ELSE Go(t, "escalating") /\ claimed' = TRUE

(* A stale or absent stream; or a check that raises and whose retry, 2 s   *)
(* later, raises too.  After _SAFE_MODE_AUTO_RESET_SEC in SAFE mode a      *)
(* stale stream resets the ladder instead.                                 *)
CheckFaulty ==
    /\ at["janus"] = "idle" /\ faulty
    /\ streak' = 0
    /\ \/ grace /\ UNCHANGED <<at, claimed>>
       \/ ~grace /\ SafeAutoReset /\ mode = SAFE /\ Go("janus", "resetting") /\ UNCHANGED claimed
       \/ ~grace /\ TryEscalate("janus")
    /\ UNCHANGED <<grace, levelVars, countVars, mode, worldVars, faults>>

(* The streak ends without a reason to escalate: a check raises and its    *)
(* retry does not.  The age that the retry gets is not looked at, so the   *)
(* code never escalates for a stale stream whose every first check raises  *)
(* (watchdogs.py:172-177); faulty leaves this case out.                    *)
CheckRecovers ==
    /\ at["janus"] = "idle" /\ ~faulty
    /\ streak # 0 /\ streak' = 0
    /\ UNCHANGED <<grace, claimed, levelVars, countVars, mode, worldVars, at, faults>>

(* The snapshot coroutine finds its file old or missing. *)
SnapshotStale ==
    /\ at["snapshot"] = "idle" /\ ~grace
    /\ TryEscalate("snapshot")
    /\ UNCHANGED <<streak, grace, levelVars, countVars, mode, worldVars, faults>>

-----------------------------------------------------------------------------
(* escalate: each step is one turn of _escalate_locked. *)
Climbs(t) == at[t] = "climbing" \/ (at[t] = "escalating" /\ LockFree)

(* Mistake: an exhausted ladder is only reported. *)
ExhaustedReturns(t) ==
    /\ Climbs(t) /\ ladder.level = Exhausted
    /\ Go(t, "idle")
    /\ UNCHANGED <<watchVars, levelVars, countVars, mode, worldVars, faults>>

SafeWhenExhausted(t) ==
    /\ Climbs(t) /\ ladder.level = Exhausted
    /\ mode' = SAFE
    /\ Go(t, "idle")
    /\ UNCHANGED <<watchVars, levelVars, countVars, worldVars, faults>>

Skip(t) ==
    /\ Climbs(t) /\ ladder.level # Exhausted
    /\ cooling
    /\ Go(t, "idle")
    /\ UNCHANGED <<watchVars, levelVars, countVars, mode, worldVars, faults>>

MayAct(t) == Climbs(t) /\ ladder.level # Exhausted /\ ~cooling
UsedUp == ladder.attempts[ladder.level] >= MaxAttempts[ladder.level]

(* The next level has not been tried, but the node may be up for less than *)
(* its cooldown, counted from 0.                                           *)
NextLevel(t) ==
    /\ MayAct(t) /\ UsedUp
    /\ ladder' = [ladder EXCEPT !.level = @ + 1]
    /\ Save(ladder')
    /\ IF ladder'.level # Exhausted THEN mode' = Degraded ELSE UNCHANGED mode
    /\ cooling' \in BOOLEAN
    /\ Go(t, "climbing")
    /\ UNCHANGED <<watchVars, begun, countVars, worldVars>>

Attempted == [ladder EXCEPT !.attempts[ladder.level] = @ + 1]

(* Mistake: the attempt is saved after it is executed. *)
AttemptUnsaved(t) ==
    /\ MayAct(t) /\ ~UsedUp
    /\ ladder' = Attempted
    /\ begun' = [begun EXCEPT ![ladder.level] = @ + 1]
    /\ cooling' = TRUE
    /\ Go(t, "executing")
    /\ UNCHANGED <<watchVars, saved, countVars, mode, worldVars, faults>>

(* The attempt is saved before it is executed. *)
Attempt(t) ==
    /\ MayAct(t) /\ ~UsedUp
    /\ ladder' = Attempted
    /\ begun' = [begun EXCEPT ![ladder.level] = @ + 1]
    /\ cooling' = TRUE
    /\ Save(ladder')
    /\ Go(t, "executing")
    /\ UNCHANGED <<watchVars, countVars, mode, worldVars>>

(* _execute: a retry, a restart or a USB reset; what it does to the stream *)
(* is StreamChanges.                                                       *)
Execute(t) ==
    /\ at[t] = "executing" /\ ladder.level # Reboot
    /\ Go(t, "idle")
    /\ UNCHANGED <<watchVars, levelVars, countVars, mode, worldVars, faults>>

Rebooting(t) == at[t] = "executing" /\ ladder.level = Reboot
MayReboot == RebootEnabled /\ ~Tripped(reboots)

RebootRefused(t) ==
    /\ Rebooting(t) /\ ~MayReboot
    /\ mode' = SAFE
    /\ Go(t, "idle")
    /\ UNCHANGED <<watchVars, levelVars, countVars, worldVars, faults>>

(* The reboot is counted before it is asked for. *)
CountReboot(t) ==
    /\ Rebooting(t) /\ MayReboot
    /\ before' = reboots
    /\ WriteCount(reboots + 1)
    /\ Go(t, "rebooting")
    /\ UNCHANGED <<watchVars, levelVars, spent, going, mode, worldVars>>

RebootBegins(t) ==
    /\ at[t] = "rebooting" /\ Go(t, "idle")
    /\ going' = TRUE /\ spent' = spent + 1 /\ before' = 0
    /\ UNCHANGED <<watchVars, levelVars, reboots, mode, worldVars, faults>>

(* The command fails, and its count is taken back; *)
RebootFails(t) ==
    /\ at[t] = "rebooting" /\ Go(t, "idle")
    /\ WriteCount(before) /\ before' = 0
    /\ UNCHANGED <<watchVars, levelVars, spent, going, mode, worldVars>>

(* or it is not answered in 10 s and nothing comes of it: counted anyway.  *)
RebootUnanswered(t) ==
    /\ at[t] = "rebooting" /\ Go(t, "idle")
    /\ before' = 0
    /\ UNCHANGED <<watchVars, levelVars, reboots, spent, going, mode, worldVars, faults>>

-----------------------------------------------------------------------------
(* reset, then promote when a watchdog resets.  The counter is cleared     *)
(* when the process is up for _REBOOT_COUNTER_RESET_SEC.                   *)
AdminReset ==
    /\ at["admin"] = "idle" /\ Go("admin", "resetting")
    /\ disturbed < MaxDisturbances /\ disturbed' = disturbed + 1
    /\ UNCHANGED <<watchVars, levelVars, countVars, mode, faulty, faults>>

AfterReset(t) == IF t = "admin" THEN "idle" ELSE "promoting"

(* Mistake: the attempts of the levels are kept. *)
ResetLevelOnly(t) ==
    /\ at[t] = "resetting" /\ LockFree
    /\ ladder' = [ladder EXCEPT !.level = 0] /\ begun' = Fresh.attempts
    /\ cooling' \in BOOLEAN
    /\ Save(ladder')
    /\ Go(t, "clearing") \/ Go(t, AfterReset(t))
    /\ UNCHANGED <<watchVars, countVars, mode, worldVars>>

Reset(t) ==
    /\ at[t] = "resetting" /\ LockFree
    /\ ladder' = Fresh /\ begun' = Fresh.attempts
    /\ cooling' \in BOOLEAN
    /\ Save(Fresh)
    /\ Go(t, "clearing") \/ Go(t, AfterReset(t))
    /\ UNCHANGED <<watchVars, countVars, mode, worldVars>>

ClearCount(t) ==
    /\ at[t] = "clearing" /\ Go(t, AfterReset(t))
    /\ WriteCount(0)
    /\ spent' = (IF faults' = faults THEN 0 ELSE spent)
    /\ UNCHANGED <<watchVars, levelVars, before, going, mode, worldVars>>

Promote(t) ==
    /\ at[t] = "promoting" /\ Go(t, "idle")
    /\ mode' = NOMINAL
    /\ UNCHANGED <<watchVars, levelVars, countVars, worldVars, faults>>

-----------------------------------------------------------------------------
(* The end of a process and the start of the next.  The count is written   *)
(* over the file, truncated first: stopped in between it leaves no number, *)
(* which is read as 0.                                                     *)
Writing(t) == at[t] \in {"rebooting", "clearing"} \/ (Rebooting(t) /\ MayReboot)

Torn == (\E t \in Threads : Writing(t)) /\ DiskFails /\ reboots' = 0

StartUp(state) ==
    /\ UNCHANGED <<reboots, faults>> \/ Torn
    /\ ladder' = Loaded(state, reboots')
    /\ mode' = (IF Tripped(reboots') THEN SAFE ELSE NOMINAL)
    /\ at' = [t \in Threads |-> "idle"] /\ before' = 0
    /\ streak' = 0 /\ grace' = TRUE /\ claimed' = FALSE
    /\ cooling' \in BOOLEAN
    /\ UNCHANGED <<spent, faulty>>

Restart ==
    /\ disturbed < MaxDisturbances /\ disturbed' = disturbed + 1
    /\ StartUp(saved)
    /\ UNCHANGED <<saved, begun, going>>

NodeBoots ==
    /\ saved' = Fresh /\ begun' = Fresh.attempts /\ going' = FALSE
    /\ StartUp(Fresh)

NodeReboots == going /\ NodeBoots /\ UNCHANGED disturbed
PowerCut == disturbed < MaxDisturbances /\ disturbed' = disturbed + 1 /\ NodeBoots

-----------------------------------------------------------------------------
(* The environment: the stream, the other users of the mode (thermal.py,   *)
(* force_mode), the clocks.                                                *)
StreamChanges ==
    /\ faulty' = ~faulty
    /\ UNCHANGED <<watchVars, levelVars, countVars, mode, disturbed, at, faults>>

OtherModes ==
    /\ mode' \in Modes \ {mode}
    /\ UNCHANGED <<watchVars, levelVars, countVars, worldVars, at, faults>>

GraceEnds        == grace /\ grace' = FALSE
                    /\ UNCHANGED <<streak, claimed, levelVars, countVars, mode, worldVars, at, faults>>
ClaimExpires     == claimed /\ claimed' = FALSE
                    /\ UNCHANGED <<streak, grace, levelVars, countVars, mode, worldVars, at, faults>>
CooldownExpires  == cooling /\ cooling' = FALSE
                    /\ UNCHANGED <<watchVars, ladder, saved, begun, countVars, mode,
                                   worldVars, at, faults>>

Clocks == GraceEnds \/ ClaimExpires \/ CooldownExpires

Check == CheckHealthy \/ CheckFaulty \/ CheckRecovers

Escalate(t) == SafeWhenExhausted(t) \/ Skip(t) \/ NextLevel(t) \/ Attempt(t)
Act(t) == Execute(t) \/ RebootRefused(t) \/ CountReboot(t) \/ RebootBegins(t)
          \/ RebootFails(t) \/ RebootUnanswered(t)
Clear(t) == Reset(t) \/ ClearCount(t) \/ Promote(t)
Works(t) == Escalate(t) \/ Act(t) \/ Clear(t)

Next ==
    \/ Check \/ SnapshotStale \/ AdminReset
    \/ \E t \in Threads : Works(t)
    \/ Restart \/ NodeReboots \/ PowerCut
    \/ StreamChanges \/ OtherModes \/ Clocks

(* Some thread runs, the windows pass, and a node told to reboot does.     *)
Fairness ==
    /\ WF_vars(Check \/ \E t \in Threads : Works(t))
    /\ WF_vars(GraceEnds) /\ WF_vars(ClaimExpires) /\ WF_vars(CooldownExpires)
    /\ WF_vars(NodeReboots)

Spec == Init /\ [][Next]_vars /\ Fairness

-----------------------------------------------------------------------------
(* Between two resets or boots no level is attempted more often than its   *)
(* budget, whatever restarts; a write of the state that the disk loses     *)
(* buys one attempt more (_escalate_locked, _load_ladder_state).           *)
AttemptsWithinBudget == \A l \in Levels : begun[l] <= MaxAttempts[l] + faults

(* Until the counter is cleared the ladder reboots the node at most        *)
(* max_fdir_reboots times; a lost or torn write of the counter buys at     *)
(* most as many again (_execute, _atomic_increment_reboot_count).          *)
RebootsWithinBudget == spent <= MaxReboots * (faults + 1)

(* Recovery is bounded: the attempts of every level and the reboots.       *)
RecoveryIsBudgeted == AttemptsWithinBudget /\ RebootsWithinBudget

(* The node is rebooted only when every gentler level has been tried to    *)
(* the end of its budget since the last reset or boot, over restarts of    *)
(* the process and attempts of both watchdogs (as long as the disk keeps   *)
(* what it is given).                                                      *)
RebootIsLastResort ==
    [][spent' > spent /\ faults = 0 =>
         \A l \in Levels \ {Reboot} : begun[l] = MaxAttempts[l]]_vars

(* A fault that no recovery cures ends in SAFE mode, again after every     *)
(* automatic reset: no cycle of restarts and reboots goes on without it    *)
(* (_escalate_locked, __init__, _watchdog_loop).                           *)
PersistentFaultEndsInSafe ==
    <>[]faulty => []<>(mode = SAFE)
=============================================================================
