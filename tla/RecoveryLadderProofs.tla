----------------------- MODULE RecoveryLadderProofs -------------------------
(***************************************************************************)
(* Proofs about the recovery ladder, for any levels, budgets and bounds:   *)
(* recovery stays within its budgets, and the reboot is the last resort.   *)
(***************************************************************************)
EXTENDS RecoveryLadder, TLAPS

(* The lock of the ladder.                                                 *)
OneHolds == \A t, u \in Threads : at[t] \in Holding /\ at[u] \in Holding => t = u

(* A thread acts at a level of the ladder, and reboots at the last one.    *)
ActsAtItsLevel == \A t \in Threads :
    /\ at[t] = "executing" => ladder.level # Exhausted
    /\ at[t] = "rebooting" => ladder.level = Reboot

(* A ladder has been climbed when the levels below are used up.  One that  *)
(* the breaker has put at its end at the start need not be.                *)
IsClimbed(state) ==
    state.level # Exhausted =>
        \A l \in Levels : l < state.level => state.attempts[l] = MaxAttempts[l]
Climbed == IsClimbed(ladder) /\ IsClimbed(saved)

(* What the attempts of a reset or boot have come to is in the memory and  *)
(* in the file, but for the writes lost; all of it when none is.           *)
AttemptsRecorded ==
    /\ \A l \in Levels : /\ begun[l] <= ladder.attempts[l] + faults
                         /\ begun[l] <= saved.attempts[l] + faults
    /\ faults = 0 => saved.attempts = ladder.attempts /\ begun = ladder.attempts

(* The reboots are in the counter, but for those of the writes lost, and   *)
(* a reboot is in it before it is commanded.                               *)
Lost == MaxReboots * faults
RebootsCounted ==
    /\ spent <= reboots + Lost
    /\ \A t \in Threads : at[t] = "rebooting" =>
           spent + 1 <= reboots + Lost /\ spent <= before + Lost

IInv == TypeOK /\ OneHolds /\ ActsAtItsLevel /\ Climbed /\ AttemptsRecorded /\ RebootsCounted

-----------------------------------------------------------------------------
(* What a write that the disk loses adds to the reboots allowed. *)
LEMMA LostGrows == ASSUME TypeOK, DiskFails PROVE Lost' = Lost + MaxReboots /\ Lost \in Nat
<1>1. faults \in Nat /\ MaxReboots \in Nat
  BY LadderAssumption DEF TypeOK
<1>2. MaxReboots * (faults + 1) = MaxReboots * faults + MaxReboots
  BY <1>1
<1>3. MaxReboots * faults \in Nat
  BY <1>1
<1> QED BY <1>2, <1>3 DEF DiskFails, Lost

LEMMA LostStays == ASSUME TypeOK, UNCHANGED faults PROVE Lost' = Lost /\ Lost \in Nat
<1>1. faults \in Nat /\ MaxReboots \in Nat
  BY LadderAssumption DEF TypeOK
<1>2. MaxReboots * faults \in Nat
  BY <1>1
<1> QED BY <1>2 DEF Lost

(* A ladder at its start, and one whose breaker has tripped. *)
LEMMA FreshIsClimbed == Fresh \in Ladders /\ IsClimbed(Fresh)
BY LadderAssumption DEF Fresh, Ladders, IsClimbed, Levels, Exhausted

LEMMA LoadedLadder ==
  ASSUME NEW state \in Ladders, NEW count
  PROVE  /\ Loaded(state, count) \in Ladders
         /\ Loaded(state, count).attempts = state.attempts
         /\ IsClimbed(state) => IsClimbed(Loaded(state, count))
BY LadderAssumption DEF Loaded, Ladders, IsClimbed, Exhausted, Tripped

LEMMA InitIInv == Init => IInv
<1> SUFFICES ASSUME Init PROVE IInv
  OBVIOUS
<1>1. /\ Fresh.attempts = [l \in Levels |-> 0]
      /\ ladder.attempts = Fresh.attempts /\ ladder \in Ladders /\ IsClimbed(ladder)
      /\ saved = Fresh /\ saved \in Ladders /\ IsClimbed(saved)
  BY FreshIsClimbed, LoadedLadder DEF Init, Fresh
<1>2. TypeOK
  <2>1. \A l \in Levels : ladder.attempts[l] <= MaxAttempts[l] /\ saved.attempts[l] <= MaxAttempts[l]
    BY <1>1, LadderAssumption
  <2>2. mode \in Modes /\ at \in [Threads -> Stages]
    BY DEF Init, Modes, SAFE, NOMINAL, Stages
  <2>3. /\ 0 \in 0 .. MaxReboots /\ 0 \in 0 .. NominalChecks
        /\ 0 \in 0 .. MaxFaults /\ 0 \in 0 .. MaxDisturbances
    BY LadderAssumption
  <2>4. begun \in [Levels -> Nat] /\ spent \in Nat
    BY DEF Init
  <2> QED BY <1>1, <2>1, <2>2, <2>3, <2>4 DEF Init, TypeOK
<1>3. Lost = 0
  BY LadderAssumption DEF Init, Lost
<1>4. OneHolds /\ ActsAtItsLevel
  BY DEF Init, OneHolds, ActsAtItsLevel, Holding
<1>5. AttemptsRecorded
  BY <1>1 DEF Init, AttemptsRecorded
<1>6. RebootsCounted
  BY <1>3 DEF Init, RebootsCounted
<1> QED BY <1>1, <1>2, <1>4, <1>5, <1>6 DEF IInv, Climbed

-----------------------------------------------------------------------------
(* The steps that leave the ladder, its file, the counter and the lock     *)
(* alone: what they may change of the rest.                                *)
Aside ==
    /\ UNCHANGED <<ladder, saved, begun, reboots, before, spent, faults>>
    /\ streak' \in 0 .. NominalChecks /\ mode' \in Modes
    /\ grace' \in BOOLEAN /\ claimed' \in BOOLEAN /\ cooling' \in BOOLEAN
    /\ faulty' \in BOOLEAN /\ going' \in BOOLEAN /\ disturbed' \in 0 .. MaxDisturbances
    /\ at' \in [Threads -> Stages]
    /\ \A t \in Threads : at'[t] \in Holding => at'[t] = at[t]

LEMMA AsideKeeps == IInv /\ Aside => IInv'
<1> SUFFICES ASSUME IInv, Aside PROVE IInv'
  OBVIOUS
<1>1. TypeOK'
  BY DEF IInv, Aside, TypeOK
<1>2. OneHolds' /\ ActsAtItsLevel'
  BY DEF IInv, Aside, OneHolds, ActsAtItsLevel, Holding, Threads
<1>3. Climbed' /\ AttemptsRecorded'
  BY DEF IInv, Aside, Climbed, AttemptsRecorded, IsClimbed
<1>4. RebootsCounted'
  BY LostStays DEF IInv, Aside, RebootsCounted, Holding
<1> QED BY <1>1, <1>2, <1>3, <1>4 DEF IInv

(* A thread goes to a stage outside the lock. *)
LEMMA GoesOut ==
  ASSUME IInv, NEW t \in Threads, NEW stage \in Stages \ Holding, Go(t, stage)
  PROVE  /\ at' \in [Threads -> Stages]
         /\ \A u \in Threads : at'[u] \in Holding => at'[u] = at[u]
BY DEF IInv, TypeOK, Go, Stages

LEMMA WatchStep ==
  IInv /\ (Check \/ SnapshotStale \/ AdminReset \/ StreamChanges \/ OtherModes \/ Clocks) => IInv'
<1> SUFFICES ASSUME IInv,
                    Check \/ SnapshotStale \/ AdminReset \/ StreamChanges \/ OtherModes \/ Clocks
             PROVE  Aside
  BY AsideKeeps
<1> USE DEF watchVars, levelVars, countVars, worldVars, Aside
<1>0. /\ {"idle", "escalating", "resetting", "promoting"} \subseteq Stages \ Holding
      /\ {"janus", "snapshot", "admin"} \subseteq Threads
  BY DEF Stages, Holding, Threads
<1>1. CASE CheckHealthy
  <2>1. streak' \in 0 .. NominalChecks
    BY <1>1, LadderAssumption DEF CheckHealthy, IInv, TypeOK
  <2>2. Go("janus", "resetting") \/ UNCHANGED at
    BY <1>1 DEF CheckHealthy
  <2> QED BY <1>0, <1>1, <2>1, <2>2, GoesOut DEF CheckHealthy, IInv, TypeOK
<1>2. CASE CheckFaulty
  <2>1. Go("janus", "resetting") \/ Go("janus", "idle") \/ Go("janus", "escalating") \/ UNCHANGED at
    BY <1>2 DEF CheckFaulty, TryEscalate
  <2>2. claimed' \in BOOLEAN
    BY <1>2 DEF CheckFaulty, TryEscalate, IInv, TypeOK
  <2>3. streak' \in 0 .. NominalChecks
    BY <1>2, LadderAssumption DEF CheckFaulty
  <2> QED BY <1>0, <1>2, <2>1, <2>2, <2>3, GoesOut DEF CheckFaulty, IInv, TypeOK
<1>3. CASE CheckRecovers
  BY <1>3, LadderAssumption DEF CheckRecovers, IInv, TypeOK
<1>4. CASE SnapshotStale
  <2>1. Go("snapshot", "idle") \/ Go("snapshot", "escalating")
    BY <1>4 DEF SnapshotStale, TryEscalate
  <2>2. claimed' \in BOOLEAN
    BY <1>4 DEF SnapshotStale, TryEscalate, IInv, TypeOK
  <2> QED BY <1>0, <1>4, <2>1, <2>2, GoesOut DEF SnapshotStale, IInv, TypeOK
<1>5. CASE AdminReset
  <2>1. disturbed' \in 0 .. MaxDisturbances
    BY <1>5, LadderAssumption DEF AdminReset, IInv, TypeOK
  <2> QED BY <1>0, <1>5, <2>1, GoesOut DEF AdminReset, IInv, TypeOK
<1>6. CASE StreamChanges \/ OtherModes \/ Clocks
  BY <1>6 DEF StreamChanges, OtherModes, Clocks, GraceEnds, ClaimExpires, CooldownExpires, IInv, TypeOK
<1> QED BY <1>1, <1>2, <1>3, <1>4, <1>5, <1>6 DEF Check

-----------------------------------------------------------------------------
(* A thread that climbs has the lock, or takes it free. *)
LEMMA ClimbsAlone ==
  ASSUME IInv, NEW t \in Threads, Climbs(t)
  PROVE  \A u \in Threads : at[u] \in Holding => u = t
BY DEF IInv, OneHolds, Climbs, LockFree, Holding

LEMMA EscalateStep == ASSUME IInv, NEW t \in Threads, Escalate(t) PROVE IInv'
<1> USE DEF watchVars, levelVars, countVars, worldVars
<1>0. "idle" \in Stages \ Holding /\ SAFE \in Modes
  BY DEF Stages, Holding, SAFE, Modes
<1>1. CASE SafeWhenExhausted(t) \/ Skip(t)
  <2>1. Aside
    BY <1>0, <1>1, GoesOut DEF SafeWhenExhausted, Skip, Aside, IInv, TypeOK
  <2> QED BY <2>1, AsideKeeps
<1>2. CASE NextLevel(t) \/ Attempt(t)
  <2> DEFINE lev == ladder.level
  <2>0. /\ Climbs(t) /\ lev \in Levels /\ ladder.attempts \in [Levels -> Nat]
        /\ MaxAttempts \in [Levels -> Nat \ {0}] /\ faults \in Nat
        /\ begun \in [Levels -> Nat] /\ saved.attempts \in [Levels -> Nat]
        /\ lev \in 0 .. NumLevels - 1 /\ lev + 1 \in 0 .. NumLevels
    <3>1. lev \in 0 .. NumLevels - 1 /\ lev + 1 \in 0 .. NumLevels
      BY <1>2, LadderAssumption DEF NextLevel, Attempt, MayAct, IInv, TypeOK, Ladders, Exhausted
    <3>2. Climbs(t)
      BY <1>2 DEF NextLevel, Attempt, MayAct
    <3>3. faults \in Nat
      BY LadderAssumption DEF IInv, TypeOK
    <3> QED BY <3>1, <3>2, <3>3, LadderAssumption DEF IInv, TypeOK, Ladders, Levels
  <2>1. /\ \A u \in Threads : u # t => at'[u] = at[u] /\ at'[u] \notin Holding
        /\ at' \in [Threads -> Stages] /\ at'[t] \in {"climbing", "executing"}
    BY <1>2, <2>0, ClimbsAlone DEF NextLevel, Attempt, Go, IInv, TypeOK, Stages, Holding
  <2>2. OneHolds'
    BY <2>1 DEF OneHolds
  <2>3. RebootsCounted'
    <3>1. UNCHANGED <<reboots, before, spent>>
      BY <1>2 DEF NextLevel, Attempt
    <3>2. \A u \in Threads : at'[u] # "rebooting"
      BY <2>1 DEF Holding
    <3>3. CASE UNCHANGED faults
      BY <3>1, <3>2, <3>3, LostStays DEF IInv, RebootsCounted
    <3>4. CASE DiskFails
      BY <3>1, <3>2, <3>4, LostGrows, LadderAssumption DEF IInv, RebootsCounted, TypeOK
    <3> QED BY <1>2, <3>3, <3>4 DEF NextLevel, Attempt, Save
  <2>4. (saved' = ladder' /\ UNCHANGED faults) \/ (DiskFails /\ UNCHANGED saved)
    BY <1>2 DEF NextLevel, Attempt, Save
  <2>5. faults' \in 0 .. MaxFaults
    BY <2>4, LadderAssumption DEF DiskFails, IInv, TypeOK
  <2>6. CASE NextLevel(t)
    <3>1. /\ ladder' \in Ladders /\ ladder'.attempts = ladder.attempts
          /\ ladder'.level = lev + 1
      BY <2>0, <2>6, LadderAssumption DEF NextLevel, IInv, TypeOK, Ladders, Levels, Exhausted
    <3>2. ladder.attempts[lev] = MaxAttempts[lev]
      BY <2>0, <2>6 DEF NextLevel, UsedUp, IInv, TypeOK
    <3>3. IsClimbed(ladder')
      <4> SUFFICES ASSUME NEW l \in Levels, l < lev + 1 PROVE ladder.attempts[l] = MaxAttempts[l]
        BY <3>1 DEF IsClimbed
      <4>1. l < lev \/ l = lev
        BY <2>0 DEF Levels
      <4> QED BY <2>0, <3>2, <4>1, LadderAssumption DEF IInv, Climbed, IsClimbed, Levels, Exhausted
    <3>4. Climbed'
      BY <2>4, <3>3 DEF IInv, Climbed, IsClimbed
    <3>5. mode' \in Modes
      BY <2>6 DEF NextLevel, Degraded, Modes, SAFE, IInv, TypeOK
    <3>6. TypeOK'
      BY <2>1, <2>4, <2>5, <2>6, <3>1, <3>5 DEF NextLevel, IInv, TypeOK
    <3>7. AttemptsRecorded'
      <4>1. UNCHANGED begun
        BY <2>6 DEF NextLevel
      <4>2. CASE saved' = ladder' /\ UNCHANGED faults
        BY <3>1, <4>1, <4>2 DEF IInv, AttemptsRecorded
      <4>3. CASE DiskFails /\ UNCHANGED saved
        BY <2>0, <3>1, <4>1, <4>3 DEF IInv, AttemptsRecorded, DiskFails
      <4> QED BY <2>4, <4>2, <4>3
    <3>8. ActsAtItsLevel'
      BY <2>1, <2>6 DEF NextLevel, Go, ActsAtItsLevel, Holding, IInv, TypeOK
    <3> QED BY <2>2, <2>3, <3>4, <3>6, <3>7, <3>8 DEF IInv
  <2>7. CASE Attempt(t)
    <3>1. /\ ladder' \in Ladders /\ ladder'.level = lev
          /\ ladder'.attempts = [ladder.attempts EXCEPT ![lev] = @ + 1]
      BY <2>0, <2>7 DEF Attempt, Attempted, IInv, TypeOK, Ladders
    <3>2. ladder.attempts[lev] + 1 <= MaxAttempts[lev]
      BY <2>0, <2>7 DEF Attempt, UsedUp
    <3>3. \A l \in Levels : ladder'.attempts[l] <= MaxAttempts[l]
      BY <2>0, <3>1, <3>2 DEF IInv, TypeOK
    <3>4. Climbed'
      <4>1. IsClimbed(ladder')
        BY <2>0, <3>1 DEF IInv, Climbed, IsClimbed, Levels
      <4> QED BY <2>4, <4>1 DEF IInv, Climbed, IsClimbed
    <3>5. begun' = [begun EXCEPT ![lev] = @ + 1] /\ begun' \in [Levels -> Nat]
      BY <2>0, <2>7 DEF Attempt
    <3>6. TypeOK'
      BY <2>1, <2>4, <2>5, <2>7, <3>1, <3>3, <3>5 DEF Attempt, IInv, TypeOK
    <3>7. AttemptsRecorded'
      <4>1. \A l \in Levels : /\ begun'[l] <= ladder'.attempts[l] + faults'
                              /\ begun'[l] <= saved'.attempts[l] + faults'
        <5> TAKE l \in Levels
        <5>1. /\ begun[l] <= ladder.attempts[l] + faults /\ begun[l] <= saved.attempts[l] + faults
              /\ begun[l] \in Nat /\ ladder.attempts[l] \in Nat /\ saved.attempts[l] \in Nat
          BY <2>0 DEF IInv, AttemptsRecorded
        <5>2. /\ begun'[l] = (IF l = lev THEN begun[l] + 1 ELSE begun[l])
              /\ ladder'.attempts[l] = (IF l = lev THEN ladder.attempts[l] + 1 ELSE ladder.attempts[l])
          BY <2>0, <3>1, <3>5
        <5>3. CASE saved' = ladder' /\ UNCHANGED faults
          BY <2>0, <5>1, <5>2, <5>3
        <5>4. CASE DiskFails /\ UNCHANGED saved
          BY <2>0, <5>1, <5>2, <5>4 DEF DiskFails
        <5> QED BY <2>4, <5>3, <5>4
      <4>2. faults' = 0 => saved'.attempts = ladder'.attempts /\ begun' = ladder'.attempts
        <5> SUFFICES ASSUME faults' = 0
                     PROVE  saved'.attempts = ladder'.attempts /\ begun' = ladder'.attempts
          OBVIOUS
        <5>1. saved' = ladder' /\ UNCHANGED faults
          BY <2>0, <2>4 DEF DiskFails
        <5>2. begun = ladder.attempts
          BY <5>1 DEF IInv, AttemptsRecorded
        <5> QED BY <3>1, <3>5, <5>1, <5>2
      <4> QED BY <4>1, <4>2 DEF AttemptsRecorded
    <3>8. ActsAtItsLevel'
      BY <2>0, <2>1, <2>7, <3>1, LadderAssumption
      DEF Attempt, Go, ActsAtItsLevel, Holding, Levels, Exhausted, IInv, TypeOK
    <3> QED BY <2>2, <2>3, <3>4, <3>6, <3>7, <3>8 DEF IInv
  <2> QED BY <1>2, <2>6, <2>7
<1> QED BY <1>1, <1>2 DEF Escalate

-----------------------------------------------------------------------------
LEMMA ActStep == ASSUME IInv, NEW t \in Threads, Act(t) PROVE IInv'
<1> USE DEF watchVars, levelVars, countVars, worldVars
<1>0. "idle" \in Stages \ Holding /\ SAFE \in Modes
  BY DEF Stages, Holding, SAFE, Modes
<1>1. CASE Execute(t) \/ RebootRefused(t)
  <2>1. Aside
    BY <1>0, <1>1, GoesOut DEF Execute, RebootRefused, Aside, IInv, TypeOK
  <2> QED BY <2>1, AsideKeeps
<1>2. CASE CountReboot(t) \/ RebootBegins(t) \/ RebootFails(t) \/ RebootUnanswered(t)
  <2>0. /\ at[t] \in {"executing", "rebooting"} /\ ladder.level = Reboot
        /\ spent \in Nat /\ reboots \in Nat /\ before \in Nat /\ faults \in Nat /\ MaxReboots \in Nat
    BY <1>2, LadderAssumption DEF CountReboot, Rebooting, RebootBegins, RebootFails, RebootUnanswered,
       IInv, ActsAtItsLevel, TypeOK
  <2>1. /\ \A u \in Threads : u # t => at'[u] = at[u] /\ at'[u] \notin Holding
        /\ at' \in [Threads -> Stages] /\ at'[t] \in {"idle", "rebooting"}
    BY <1>2, <2>0 DEF CountReboot, RebootBegins, RebootFails, RebootUnanswered, Go,
       IInv, OneHolds, TypeOK, Stages, Holding
  <2>2. OneHolds'
    BY <2>1 DEF OneHolds, Holding
  <2>3. /\ UNCHANGED <<ladder, saved, begun>>
        /\ ActsAtItsLevel' /\ Climbed'
    BY <1>2, <2>0, <2>1 DEF CountReboot, RebootBegins, RebootFails, RebootUnanswered, IInv, Climbed, IsClimbed,
       ActsAtItsLevel, Holding
  <2>4. UNCHANGED faults \/ DiskFails
    BY <1>2 DEF CountReboot, RebootBegins, RebootFails, RebootUnanswered, WriteCount
  <2>5. AttemptsRecorded'
    BY <2>3, <2>4 DEF DiskFails, IInv, AttemptsRecorded, TypeOK, Ladders
  <2>6. TypeOK'
    <3>1. faults' \in 0 .. MaxFaults
      BY <2>4, LadderAssumption DEF DiskFails, IInv, TypeOK
    <3>2. reboots' \in 0 .. MaxReboots /\ before' \in 0 .. MaxReboots
      BY <1>2, <2>0 DEF CountReboot, MayReboot, Tripped, RebootBegins, RebootFails, RebootUnanswered,
         WriteCount, IInv, TypeOK
    <3>3. spent' \in Nat
      BY <1>2, <2>0 DEF CountReboot, RebootBegins, RebootFails, RebootUnanswered
    <3>4. going' \in BOOLEAN
      BY <1>2 DEF CountReboot, RebootBegins, RebootFails, RebootUnanswered, IInv, TypeOK
    <3> QED BY <1>2, <2>1, <2>3, <3>1, <3>2, <3>3, <3>4
            DEF CountReboot, RebootBegins, RebootFails, RebootUnanswered, IInv, TypeOK
  <2>7. RebootsCounted'
    <3>0. /\ spent <= reboots + Lost
          /\ at[t] = "rebooting" => spent + 1 <= reboots + Lost /\ spent <= before + Lost
          /\ \A u \in Threads : at'[u] = "rebooting" => u = t
      BY <2>1 DEF IInv, RebootsCounted, Holding
    <3>1. CASE CountReboot(t)
      <4>1. before' = reboots /\ spent' = spent /\ reboots + 1 <= MaxReboots
        BY <2>0, <3>1 DEF CountReboot, MayReboot, Tripped
      <4>2. CASE reboots' = reboots + 1 /\ UNCHANGED faults
        BY <2>0, <3>0, <4>1, <4>2, LostStays DEF IInv, RebootsCounted
      <4>3. CASE DiskFails /\ reboots' \in {reboots, 0}
        BY <2>0, <3>0, <4>1, <4>3, LostGrows DEF IInv, RebootsCounted
      <4> QED BY <3>1, <4>2, <4>3 DEF CountReboot, WriteCount
    <3>2. CASE RebootBegins(t)
      <4>1. at'[t] = "idle" /\ at[t] = "rebooting"
        BY <3>2 DEF RebootBegins, Go, IInv, TypeOK
      <4> QED BY <2>0, <3>0, <3>2, <4>1, LostStays DEF RebootBegins, IInv, RebootsCounted
    <3>3. CASE RebootFails(t)
      <4>1. at'[t] = "idle" /\ at[t] = "rebooting" /\ spent' = spent
        BY <3>3 DEF RebootFails, Go, IInv, TypeOK
      <4>2. CASE reboots' = before /\ UNCHANGED faults
        BY <2>0, <3>0, <4>1, <4>2, LostStays DEF IInv, RebootsCounted
      <4>3. CASE DiskFails /\ reboots' \in {reboots, 0}
        <5>1. reboots <= MaxReboots
          BY <2>0 DEF IInv, TypeOK
        <5>2. before <= MaxReboots
          BY <2>0 DEF IInv, TypeOK
        <5> QED BY <2>0, <3>0, <4>1, <4>3, <5>1, <5>2, LostGrows DEF IInv, RebootsCounted
      <4> QED BY <3>3, <4>2, <4>3 DEF RebootFails, WriteCount
    <3>4. CASE RebootUnanswered(t)
      <4>1. at'[t] = "idle"
        BY <3>4 DEF RebootUnanswered, Go, IInv, TypeOK
      <4> QED BY <2>0, <3>0, <3>4, <4>1, LostStays DEF RebootUnanswered, IInv, RebootsCounted
    <3> QED BY <1>2, <3>1, <3>2, <3>3, <3>4
  <2> QED BY <2>2, <2>3, <2>5, <2>6, <2>7 DEF IInv
<1> QED BY <1>1, <1>2 DEF Act

-----------------------------------------------------------------------------
LEMMA ClearStep == ASSUME IInv, NEW t \in Threads, Clear(t) PROVE IInv'
<1> USE DEF watchVars, levelVars, countVars, worldVars
<1>0. /\ {"idle", "promoting"} \subseteq Stages \ Holding /\ NOMINAL \in Modes
      /\ AfterReset(t) \in {"idle", "promoting"} /\ "clearing" \in Holding /\ Holding \subseteq Stages
      /\ "executing" \in Holding /\ "rebooting" \in Holding
  BY DEF Stages, Holding, NOMINAL, Modes, AfterReset
<1>1. CASE Promote(t)
  <2>1. Aside
    BY <1>0, <1>1, GoesOut DEF Promote, Aside, IInv, TypeOK
  <2> QED BY <2>1, AsideKeeps
<1>2. CASE Reset(t) \/ ClearCount(t)
  <2>1. /\ at' \in [Threads -> Stages] /\ at'[t] \in {"clearing", "idle", "promoting"}
        /\ \A u \in Threads : u # t => at'[u] = at[u] /\ at'[u] \notin Holding
    BY <1>0, <1>2 DEF Reset, LockFree, ClearCount, Go, IInv, OneHolds, TypeOK
  <2>2. OneHolds' /\ ActsAtItsLevel'
    <3>1. OneHolds'
      BY <2>1 DEF OneHolds
    <3>2. \A u \in Threads : at'[u] \notin {"executing", "rebooting"}
      BY <1>0, <2>1
    <3> QED BY <3>1, <3>2 DEF ActsAtItsLevel
  <2>3. UNCHANGED faults \/ DiskFails
    BY <1>2 DEF Reset, Save, ClearCount, WriteCount
  <2>4. faults' \in 0 .. MaxFaults /\ faults \in Nat /\ (faults' = 0 => UNCHANGED faults)
    BY <2>3, LadderAssumption DEF DiskFails, IInv, TypeOK
  <2>5. \A u \in Threads : at'[u] # "rebooting"
    BY <1>0, <2>1
  <2>6. CASE Reset(t)
    <3>1. ladder' = Fresh /\ begun' = Fresh.attempts /\ ((saved' = Fresh /\ UNCHANGED faults) \/ (DiskFails /\ UNCHANGED saved))
      BY <2>6 DEF Reset, Save
    <3>2. Fresh.attempts = [l \in Levels |-> 0]
      BY DEF Fresh
    <3>3. TypeOK'
      BY <2>1, <2>4, <2>6, <3>1, <3>2, FreshIsClimbed, LadderAssumption DEF Reset, IInv, TypeOK
    <3>4. Climbed'
      BY <3>1, FreshIsClimbed DEF IInv, Climbed, IsClimbed
    <3>5. AttemptsRecorded'
      <4>1. \A l \in Levels : saved'.attempts[l] \in Nat
        BY <3>3 DEF TypeOK, Ladders
      <4>2. \A l \in Levels : begun'[l] = 0 /\ ladder'.attempts[l] = 0
        BY <3>1, <3>2
      <4>3. faults' \in Nat
        BY <2>4, LadderAssumption
      <4>4. faults' = 0 => saved' = Fresh
        BY <2>4, <3>1 DEF DiskFails
      <4> QED BY <3>1, <4>1, <4>2, <4>3, <4>4 DEF AttemptsRecorded
    <3>6. RebootsCounted'
      <4>1. reboots' = reboots /\ spent' = spent
        BY <2>6 DEF Reset
      <4>2. Lost' >= Lost /\ Lost \in Nat /\ Lost' \in Nat
        BY <2>3, LostStays, LostGrows, LadderAssumption DEF IInv
      <4>3. spent <= reboots + Lost /\ spent \in Nat /\ reboots \in Nat
        BY LadderAssumption DEF IInv, RebootsCounted, TypeOK
      <4>4. \A m, n \in Nat : m >= n /\ spent <= reboots + n => spent <= reboots + m
        BY <4>3
      <4>5. spent <= reboots + Lost'
        BY <4>2, <4>3, <4>4
      <4> QED BY <2>5, <4>1, <4>5 DEF RebootsCounted
    <3> QED BY <2>2, <3>3, <3>4, <3>5, <3>6 DEF IInv
  <2>7. CASE ClearCount(t)
    <3>1. UNCHANGED <<ladder, saved, begun, before>>
      BY <2>7 DEF ClearCount
    <3>2. \/ reboots' = 0 /\ UNCHANGED faults /\ spent' = 0
          \/ DiskFails /\ reboots' \in {reboots, 0} /\ UNCHANGED spent
      BY <2>4, <2>7 DEF ClearCount, WriteCount, DiskFails
    <3>3. TypeOK'
      BY <2>1, <2>4, <2>7, <3>1, <3>2, LadderAssumption DEF ClearCount, IInv, TypeOK
    <3>4. Climbed'
      BY <3>1 DEF IInv, Climbed, IsClimbed
    <3>5. AttemptsRecorded'
      BY <2>3, <2>4, <3>1 DEF IInv, AttemptsRecorded, TypeOK, Ladders, DiskFails
    <3>6. RebootsCounted'
      <4>1. Lost' >= Lost /\ Lost \in Nat /\ Lost' \in Nat
        BY <2>3, LostStays, LostGrows, LadderAssumption DEF IInv
      <4>2. /\ spent <= reboots + Lost /\ spent \in Nat /\ reboots \in Nat /\ reboots <= MaxReboots
            /\ MaxReboots \in Nat
        BY LadderAssumption DEF IInv, RebootsCounted, TypeOK
      <4>3. spent' <= reboots' + Lost'
        <5>1. CASE reboots' = 0 /\ spent' = 0
          <6>1. \A n \in Nat : spent' <= reboots' + n
            BY <5>1
          <6> QED BY <4>1, <6>1
        <5>2. CASE DiskFails /\ reboots' \in {reboots, 0} /\ UNCHANGED spent
          <6>1. Lost' = Lost + MaxReboots
            BY <5>2, LostGrows DEF IInv
          <6>2. \A n \in Nat : spent <= reboots + n => spent' <= reboots' + (n + MaxReboots)
            <7>1. spent \in Nat /\ reboots \in Nat /\ MaxReboots \in Nat /\ reboots <= MaxReboots
              BY <4>2
            <7>2. spent' = spent /\ (reboots' = reboots \/ reboots' = 0)
              BY <5>2
            <7> QED BY <7>1, <7>2
          <6> QED BY <4>1, <4>2, <6>1, <6>2
        <5> QED BY <3>2, <5>1, <5>2
      <4> QED BY <2>5, <4>3 DEF RebootsCounted
    <3> QED BY <2>2, <3>3, <3>4, <3>5, <3>6 DEF IInv
  <2> QED BY <1>2, <2>6, <2>7
<1> QED BY <1>1, <1>2 DEF Clear

-----------------------------------------------------------------------------
(* A new process finds the attempts of the one before, a new node none. *)
LEMMA StartStep == IInv /\ (Restart \/ NodeReboots \/ PowerCut) => IInv'
<1> SUFFICES ASSUME IInv, NEW state \in {saved, Fresh}, StartUp(state), saved' = state,
                    going' \in BOOLEAN, disturbed' \in 0 .. MaxDisturbances,
                    (begun' = begun /\ state = saved) \/ (begun' = Fresh.attempts /\ state = Fresh)
             PROVE  IInv'
  <2> SUFFICES ASSUME IInv, Restart \/ NodeReboots \/ PowerCut PROVE IInv'
    OBVIOUS
  <2>1. disturbed' \in 0 .. MaxDisturbances
    BY LadderAssumption DEF Restart, NodeReboots, PowerCut, IInv, TypeOK
  <2>2. CASE Restart
    BY <2>1, <2>2 DEF Restart, IInv, TypeOK
  <2>3. CASE NodeReboots \/ PowerCut
    BY <2>1, <2>3 DEF NodeReboots, PowerCut, NodeBoots
  <2> QED BY <2>2, <2>3
<1>1. /\ state \in Ladders /\ IsClimbed(state)
      /\ \A l \in Levels : state.attempts[l] <= MaxAttempts[l]
  BY FreshIsClimbed, LadderAssumption DEF IInv, Climbed, TypeOK, Fresh
<1>2. ladder' \in Ladders /\ ladder'.attempts = state.attempts /\ IsClimbed(ladder')
  BY <1>1, LoadedLadder DEF StartUp
<1>3. /\ faults' \in 0 .. MaxFaults /\ faults \in Nat /\ faults' >= faults
      /\ faults' = 0 => faults = 0
  BY LadderAssumption DEF StartUp, Torn, DiskFails, IInv, TypeOK
<1>4. reboots' \in 0 .. MaxReboots
  BY LadderAssumption DEF StartUp, Torn, IInv, TypeOK
<1>5. begun' \in [Levels -> Nat] /\ mode' \in Modes /\ at' \in [Threads -> Stages]
  BY DEF StartUp, Fresh, IInv, TypeOK, Modes, SAFE, NOMINAL, Stages
<1>6. TypeOK'
  <2>1. 0 \in 0 .. MaxReboots /\ 0 \in 0 .. NominalChecks
    BY LadderAssumption
  <2>2. \A l \in Levels : ladder'.attempts[l] <= MaxAttempts[l] /\ saved'.attempts[l] <= MaxAttempts[l]
    BY <1>1, <1>2
  <2> QED BY <1>1, <1>2, <1>3, <1>4, <1>5, <2>1, <2>2 DEF StartUp, IInv, TypeOK
<1>7. OneHolds' /\ ActsAtItsLevel'
  BY DEF StartUp, OneHolds, ActsAtItsLevel, Holding
<1>8. Climbed'
  BY <1>1, <1>2 DEF Climbed
<1>9. AttemptsRecorded'
  <2>1. \A l \in Levels : begun'[l] <= state.attempts[l] + faults' /\ begun'[l] \in Nat
    BY <1>1, <1>3, <1>5 DEF IInv, AttemptsRecorded, Fresh, Ladders
  <2>2. faults' = 0 => begun' = state.attempts
    BY <1>3 DEF IInv, AttemptsRecorded
  <2> QED BY <1>2, <2>1, <2>2 DEF AttemptsRecorded
<1>10. RebootsCounted'
  <2>1. /\ spent' = spent /\ spent <= reboots + Lost /\ spent \in Nat /\ reboots \in 0 .. MaxReboots
        /\ \A t \in Threads : at'[t] # "rebooting"
    BY DEF StartUp, IInv, RebootsCounted, TypeOK
  <2>2. CASE UNCHANGED <<reboots, faults>>
    BY <2>1, <2>2, LostStays DEF IInv, RebootsCounted
  <2>3. CASE Torn
    BY <2>1, <2>3, LostGrows, LadderAssumption DEF Torn, IInv, RebootsCounted
  <2> QED BY <2>2, <2>3 DEF StartUp
<1> QED BY <1>6, <1>7, <1>8, <1>9, <1>10 DEF IInv

LEMMA NextIInv == IInv /\ [Next]_vars => IInv'
<1> SUFFICES ASSUME IInv, [Next]_vars PROVE IInv'
  OBVIOUS
<1>1. CASE UNCHANGED vars
  BY <1>1 DEF vars, watchVars, levelVars, countVars, worldVars, IInv, TypeOK, OneHolds, ActsAtItsLevel,
     Climbed, IsClimbed, AttemptsRecorded, RebootsCounted, Lost
<1>2. CASE Next
  BY <1>2, WatchStep, EscalateStep, ActStep, ClearStep, StartStep DEF Next, Works
<1> QED BY <1>1, <1>2

LEMMA AlwaysIInv == Spec => []IInv
BY InitIInv, NextIInv, PTL DEF Spec

-----------------------------------------------------------------------------
(* The variables keep their types: the level stays on the ladder, no count *)
(* of attempts passes its maximum, and the counter of reboots stops at     *)
(* max_fdir_reboots.                                                       *)
THEOREM TypeCorrect == Spec => []TypeOK
BY AlwaysIInv, PTL DEF IInv

(* The attempts of every level and the reboots stay within their budgets,  *)
(* over any number of restarts, and grow only by the writes that are lost. *)
THEOREM Budgeted == Spec => []RecoveryIsBudgeted
<1>1. IInv => RecoveryIsBudgeted
  <2> SUFFICES ASSUME IInv PROVE RecoveryIsBudgeted
    OBVIOUS
  <2>1. AttemptsWithinBudget
    BY LadderAssumption DEF IInv, AttemptsRecorded, AttemptsWithinBudget, TypeOK, Ladders
  <2>2. RebootsWithinBudget
    <3>1. faults \in Nat /\ MaxReboots \in Nat /\ reboots <= MaxReboots /\ reboots \in Nat /\ spent \in Nat
      BY LadderAssumption DEF IInv, TypeOK
    <3>2. MaxReboots * (faults + 1) = MaxReboots * faults + MaxReboots
      BY <3>1
    <3>3. MaxReboots * faults \in Nat
      BY <3>1
    <3> QED BY <3>1, <3>2, <3>3 DEF IInv, RebootsCounted, Lost, RebootsWithinBudget
  <2> QED BY <2>1, <2>2 DEF RecoveryIsBudgeted
<1> QED BY <1>1, AlwaysIInv, PTL

(* The node is rebooted only after every gentler level has been tried to   *)
(* the end of its budget, as long as no write is lost.                     *)
THEOREM LastResort == Spec => RebootIsLastResort
<1> DEFINE Last == spent' > spent /\ faults = 0 =>
                     \A l \in Levels \ {Reboot} : begun[l] = MaxAttempts[l]
<1>1. IInv /\ [Next]_vars => Last
  <2> SUFFICES ASSUME IInv, [Next]_vars, spent' > spent, faults = 0,
                      NEW l \in Levels \ {Reboot}
               PROVE  begun[l] = MaxAttempts[l]
    OBVIOUS
  <2> USE DEF watchVars, levelVars, countVars, worldVars
  <2>1. ~UNCHANGED spent /\ spent' # 0
    BY DEF IInv, TypeOK
  <2>2. ~(Check \/ SnapshotStale \/ AdminReset \/ StreamChanges \/ OtherModes \/ Clocks)
    BY <2>1 DEF Check, CheckHealthy, CheckFaulty, CheckRecovers, SnapshotStale, AdminReset,
       StreamChanges, OtherModes, Clocks, GraceEnds, ClaimExpires, CooldownExpires
  <2>3. ~(Restart \/ NodeReboots \/ PowerCut)
    BY <2>1 DEF Restart, NodeReboots, PowerCut, NodeBoots, StartUp
  <2>4. PICK t \in Threads : Works(t)
    BY <2>1, <2>2, <2>3 DEF Next, vars
  <2>5. ~Escalate(t)
    BY <2>1 DEF Escalate, SafeWhenExhausted, Skip, NextLevel, Attempt
  <2>6. ~Clear(t)
    BY <2>1 DEF Clear, Reset, ClearCount, Promote
  <2>7. at[t] = "rebooting"
    BY <2>1, <2>4, <2>5, <2>6 DEF Works, Act, Execute, RebootRefused, CountReboot, RebootBegins,
       RebootFails, RebootUnanswered
  <2>8. ladder.level = Reboot /\ Reboot # Exhausted /\ l < Reboot
    BY <2>7, LadderAssumption DEF IInv, ActsAtItsLevel, Reboot, Exhausted, Levels
  <2> QED BY <2>8 DEF IInv, Climbed, IsClimbed, AttemptsRecorded
<1>2. Spec => [][Last]_vars
  BY <1>1, AlwaysIInv, PTL DEF Spec
<1> QED BY <1>2 DEF RebootIsLastResort
=============================================================================
