--------------------------- MODULE Schedules_proof ---------------------------
(***************************************************************************)
(* Proofs about Schedules, for any schedules, ticks and number of fires,    *)
(* edits and exits.                                                         *)
(***************************************************************************)
EXTENDS Schedules, TLAPS

USE DEF Times

-----------------------------------------------------------------------------
(* What arming does to the timers                                           *)

TimerTypes ==
  /\ armed \in [Schedules -> 0..(MaxTime + 1) \cup {None}]
  /\ wake \in [Schedules -> 0..(MaxTime + 1)]
  /\ enabled \in [Schedules -> BOOLEAN]
  /\ changed \subseteq Schedules

\* Timers are set to later times only, rightly for S, and the rest is kept.
TimerEffect(S) ==
  /\ TimerTypes'
  /\ \A s \in Schedules :
       armed'[s] # None => armed'[s] = armed[s] \/ armed'[s] > now
  /\ \A s \in S : life[s] = "stored" /\ enabled'[s] => ArmedRight(s)'
  /\ \A s \in Schedules \ S :
       /\ armed'[s] = armed[s] /\ wake'[s] = wake[s] /\ enabled'[s] = enabled[s]
       /\ s \in changed => s \in changed'

LEMMA ClockFacts ==
  ASSUME TypeOK
  PROVE  /\ now \in Nat /\ now <= MaxTime /\ MaxTime \in Nat
         /\ MaxDelay \in Nat /\ MaxDelay > 0
         /\ NextTick[now] \in 1..(MaxTime + 1) /\ NextTick[now] > now
BY BoundAssumption, TickAssumption DEF TypeOK

\* A piece of a delay ends in time, and not before it began.
LEMMA WakeInTime ==
  ASSUME TypeOK, NEW t \in 0..(MaxTime + 1), t > now
  PROVE  WakeFor(t) \in 0..(MaxTime + 1) /\ WakeFor(t) <= t
BY ClockFacts DEF WakeFor, TimeoutUp

LEMMA FireAtIsLater ==
  ASSUME TypeOK, NEW s \in Schedules, FireAt(s) # None
  PROVE  FireAt(s) \in 0..(MaxTime + 1) /\ FireAt(s) > now
BY ClockFacts, ValueAssumption DEF FireAt, TypeOK

LEMMA ArmEffect ==
  ASSUME TypeOK, NEW S \in SUBSET Schedules, ArmTimers(S),
         changed' \subseteq Schedules,
         \A s \in Schedules \ S : s \in changed => s \in changed',
         UNCHANGED <<now, life, due>>
  PROVE  TimerEffect(S)
<1>1. TimerTypes'
  <2>1. \A s \in Schedules : FireAt(s) \in 0..(MaxTime + 1) \cup {None}
    BY FireAtIsLater
  <2>2. \A s \in Schedules : FireAt(s) # None => WakeFor(FireAt(s)) \in 0..(MaxTime + 1)
    BY FireAtIsLater, WakeInTime
  <2>3. armed' \in [Schedules -> 0..(MaxTime + 1) \cup {None}]
    BY <2>1 DEF ArmTimers, TypeOK
  <2>4. wake' \in [Schedules -> 0..(MaxTime + 1)]
    BY <2>2, ClockFacts DEF ArmTimers, TypeOK
  <2>5. enabled' \in [Schedules -> BOOLEAN]
    BY Zenon DEF ArmTimers, TypeOK
  <2> QED BY <2>3, <2>4, <2>5 DEF TimerTypes
<1>2. ASSUME NEW s \in Schedules, armed'[s] # None
      PROVE  armed'[s] = armed[s] \/ armed'[s] > now
  <2>1. armed'[s] = IF s \in S THEN FireAt(s) ELSE armed[s]
    BY DEF ArmTimers
  <2> QED BY <1>2, <2>1, FireAtIsLater
<1>3. ASSUME NEW s \in S, life[s] = "stored", enabled'[s] PROVE ArmedRight(s)'
  <2>1. enabled[s] /\ ~Overdue(s)
    BY <1>3 DEF ArmTimers
  <2>2. armed'[s] = FireAt(s)
    BY DEF ArmTimers
  <2>3. FireAt(s) # None /\ FireAt(s) = (IF due[s] = Cron THEN NextTick[now] ELSE due[s])
    BY <1>3, <2>1, ClockFacts, ValueAssumption DEF FireAt, Overdue, Enabled, TypeOK
  <2>4. wake'[s] = WakeFor(FireAt(s))
    BY <2>3 DEF ArmTimers
  <2>5. wake'[s] <= FireAt(s)
    BY <2>3, <2>4, FireAtIsLater, WakeInTime
  <2> QED BY <2>2, <2>3, <2>5, ClockFacts DEF ArmedRight
<1>4. ASSUME NEW s \in Schedules \ S
      PROVE  armed'[s] = armed[s] /\ wake'[s] = wake[s] /\ enabled'[s] = enabled[s]
  BY DEF ArmTimers, TypeOK
<1> QED BY <1>1, <1>2, <1>3, <1>4 DEF TimerEffect

LEMMA LoadEffect ==
  ASSUME TypeOK, LoadAndArm, UNCHANGED <<now, life, due>>
  PROVE  TimerEffect(Schedules)
BY ArmEffect DEF LoadAndArm

LEMMA ArmOneEffect ==
  ASSUME TypeOK, NEW s \in Schedules, ArmTimer(s), UNCHANGED <<now, life, due>>
  PROVE  TimerEffect({s})
BY ArmEffect DEF ArmTimer, TypeOK

LEMMA RearmEffect ==
  ASSUME TypeOK, NEW s \in Schedules, Rearm(s), UNCHANGED <<now, life, due>>
  PROVE  TimerEffect({s})
<1>1. CASE life[s] # "stored"
  BY <1>1 DEF Rearm, KeepTimers, timerVars, TimerEffect, TimerTypes, TypeOK
<1>2. CASE life[s] = "stored" /\ due[s] = Cron
  BY <1>2, ArmOneEffect DEF Rearm
<1>3. CASE life[s] = "stored" /\ due[s] # Cron
  <2>1. Disarm(s)
    BY <1>3 DEF Rearm
  <2>2. TimerTypes'
    BY <2>1, ClockFacts DEF Disarm, TimerTypes, TypeOK
  <2>3. /\ armed'[s] = None /\ enabled'[s] = FALSE
        /\ \A t \in Schedules \ {s} : /\ armed'[t] = armed[t] /\ wake'[t] = wake[t]
                                      /\ enabled'[t] = enabled[t]
                                      /\ t \in changed => t \in changed'
    BY <2>1 DEF Disarm, TypeOK
  <2> QED BY <2>2, <2>3 DEF TimerEffect
<1> QED BY <1>1, <1>2, <1>3
-----------------------------------------------------------------------------
(* Types                                                                    *)

LEMMA TimersCleared ==
  ASSUME TypeOK, ClearTimers
  PROVE  /\ armed' \in [Schedules -> 0..(MaxTime + 1) \cup {None}]
         /\ wake' \in [Schedules -> 0..(MaxTime + 1)]
         /\ \A s \in Schedules : armed'[s] = None
BY ClockFacts DEF ClearTimers

LEMMA ExitTypes ==
  ASSUME TypeOK, Exits
  PROVE  TypeOK'
<1>1. stage' \in [Fires -> {"free", "probing", "running", "done", "lost"}]
  BY DEF Exits, TypeOK, InFlight
<1>2. \A f \in Fires : (stage'[f] = "free" <=> of'[f] = None) /\ ~InFlight(f)'
  BY DEF Exits, TypeOK, InFlight
<1> QED
  BY <1>1, <1>2, TimersCleared, BoundAssumption DEF Exits, TypeOK, recordVars

LEMMA TypeStep ==
  ASSUME TypeOK, [Next]_vars
  PROVE  TypeOK'
<1> USE BoundAssumption
<1>1. ASSUME NEW s \in Schedules, CreateSchedule(s) PROVE TypeOK'
  BY <1>1 DEF TypeOK, CreateSchedule, Writes, InFlight, recordVars, timerVars, fireVars, boundVars
<1>2. ASSUME NEW s \in Schedules, UpdateSchedule(s) PROVE TypeOK'
  BY <1>2 DEF TypeOK, UpdateSchedule, Writes, InFlight, recordVars, timerVars, fireVars, boundVars
<1>3. ASSUME NEW s \in Schedules, DeleteSchedule(s) PROVE TypeOK'
  BY <1>3 DEF TypeOK, DeleteSchedule, Writes, InFlight, recordVars, timerVars, fireVars, boundVars
<1>4. ASSUME NEW s \in Schedules, TimerContinues(s) PROVE TypeOK'
  <2>1. WakeFor(armed[s]) \in 0..(MaxTime + 1)
    BY <1>4, WakeInTime, ClockFacts DEF TimerContinues, Due, TypeOK
  <2> QED BY <1>4, <2>1 DEF TypeOK, TimerContinues, Due, InFlight, recordVars, timerVars, fireVars, boundVars
<1>5. ASSUME NEW s \in Schedules, FireIgnored(s) PROVE TypeOK'
  BY <1>5 DEF TypeOK, FireIgnored, Due, Elapsed, InFlight, recordVars, timerVars, fireVars, boundVars
<1>6. ASSUME NEW s \in Schedules, FireOverlaps(s) PROVE TypeOK'
  <2>1. TimerTypes'
    <3>1. CASE due[s] = Cron
      BY <1>6, <3>1, ArmOneEffect DEF FireOverlaps, TimerEffect
    <3>2. CASE due[s] # Cron
      BY <1>6, <3>2 DEF FireOverlaps, Elapsed, TimerTypes, TypeOK
    <3> QED BY <3>1, <3>2
  <2> QED BY <1>6, <2>1 DEF TypeOK, TimerTypes, FireOverlaps, Due, InFlight, recordVars, timerVars, fireVars, boundVars
<1>7. ASSUME NEW s \in Schedules, TriggerOverlaps(s) PROVE TypeOK'
  <2>1. TimerTypes'
    BY <1>7, ArmOneEffect DEF TriggerOverlaps, TimerEffect
  <2> QED BY <1>7, <2>1 DEF TypeOK, TimerTypes, TriggerOverlaps, InFlight, recordVars, timerVars, fireVars, boundVars
<1>8. ASSUME NEW s \in Schedules, NEW f \in Fires, FireProbes(s, f) PROVE TypeOK'
  <2>1. armed[s] \in Times
    BY <1>8, ClockFacts DEF TypeOK, FireProbes, Due
  <2> QED
    BY <1>8, <2>1, ValueAssumption
       DEF TypeOK, FireProbes, Due, Probes, Elapsed, InFlight, recordVars, timerVars, fireVars, boundVars
<1>9. ASSUME NEW s \in Schedules, NEW f \in Fires, TriggerProbes(s, f) PROVE TypeOK'
  BY <1>9, ValueAssumption DEF TypeOK, TriggerProbes, Probes, InFlight, recordVars, timerVars, fireVars, boundVars
<1>10. ASSUME NEW f \in Fires, ProbeSkips(f) PROVE TypeOK'
  <2>1. of[f] \in Schedules
    BY <1>10 DEF TypeOK, ProbeSkips
  <2>2. TimerTypes'
    BY <1>10, <2>1, RearmEffect DEF ProbeSkips, TimerEffect
  <2> QED
    BY <1>10, <2>1, <2>2 DEF TypeOK, TimerTypes, ProbeSkips, InFlight, Final, recordVars, timerVars, fireVars, boundVars
<1>11. ASSUME NEW f \in Fires, RunStarts(f) PROVE TypeOK'
  BY <1>11 DEF TypeOK, RunStarts, Enters, InFlight, recordVars, timerVars, fireVars, boundVars
<1>12. ASSUME NEW f \in Fires, RunEnds(f) PROVE TypeOK'
  <2>1. of[f] \in Schedules
    BY <1>12 DEF TypeOK, RunEnds
  <2>2. TimerTypes'
    BY <1>12, <2>1, RearmEffect DEF RunEnds, TimerEffect
  <2> QED
    BY <1>12, <2>1, <2>2 DEF TypeOK, TimerTypes, RunEnds, InFlight, Final, recordVars, timerVars, fireVars, boundVars
<1>13. ASSUME NEW f \in Fires, TriggerThrows(f) PROVE TypeOK'
  BY <1>13 DEF TypeOK, TriggerThrows, Enters, InFlight, recordVars, timerVars, fireVars, boundVars
<1>14. ASSUME NEW f \in Fires, FireThrows(f) PROVE TypeOK'
  BY <1>14, ExitTypes DEF FireThrows
<1>15. CASE Reload
  <2>1. TimerTypes'
    <3>1. CASE on = "on"
      BY <1>15, <3>1, LoadEffect DEF Reload, TimerEffect
    <3>2. CASE on # "on"
      BY <1>15, <3>2 DEF Reload, KeepTimers, timerVars, TimerTypes, TypeOK
    <3> QED BY <3>1, <3>2
  <2> QED BY <1>15, <2>1 DEF TypeOK, TimerTypes, Reload, KeepTimers, InFlight, recordVars, timerVars, fireVars, boundVars
<1>16. CASE SyncFromDb
  <2>1. TimerTypes'
    BY <1>16, LoadEffect DEF SyncFromDb, TimerEffect
  <2> QED BY <1>16, <2>1 DEF TypeOK, TimerTypes, SyncFromDb, InFlight, recordVars, timerVars, fireVars, boundVars
<1>17. CASE Start
  <2>1. TimerTypes'
    BY <1>17, LoadEffect DEF Start, TimerEffect
  <2>2. row' \in [Fires -> {"none", "running"} \cup Final]
    BY <1>17 DEF Start, Recover, TypeOK, Final
  <2> QED BY <1>17, <2>1, <2>2 DEF TypeOK, TimerTypes, Start, InFlight, recordVars, timerVars, fireVars, boundVars
<1>18. CASE Stop
  BY <1>18, TimersCleared DEF TypeOK, Stop, InFlight, recordVars, timerVars, fireVars, boundVars
<1>19. CASE Crash
  BY <1>19, ExitTypes DEF Crash
<1>20. CASE Tick
  BY <1>20 DEF TypeOK, Tick, InFlight, recordVars, timerVars, fireVars, boundVars
<1>21. CASE UNCHANGED vars
  BY <1>21 DEF TypeOK, InFlight, vars, recordVars, timerVars, fireVars, boundVars
<1> QED
  BY <1>1, <1>2, <1>3, <1>4, <1>5, <1>6, <1>7, <1>8, <1>9, <1>10, <1>11, <1>12, <1>13,
     <1>14, <1>15, <1>16, <1>17, <1>18, <1>19, <1>20, <1>21
     DEF Next, ScheduleStep, FireStep

LEMMA TypeInit == Init => TypeOK
BY BoundAssumption, BundledAssumption DEF Init, TypeOK, InFlight

\* The variables keep their types, and what the process holds ends with it.
THEOREM TypeCorrect == Spec => []TypeOK
BY TypeInit, TypeStep, PTL DEF Spec
-----------------------------------------------------------------------------
(* Rows                                                                     *)

LEMMA RowStep ==
  ASSUME TypeOK, RunningRowIsInFlight, [Next]_vars
  PROVE  RunningRowIsInFlight'
<1> USE DEF RunningRowIsInFlight
<1>1. ASSUME NEW s \in Schedules, ScheduleStep(s) PROVE RunningRowIsInFlight'
  BY <1>1 DEF ScheduleStep, CreateSchedule, UpdateSchedule, DeleteSchedule, Writes,
       TimerContinues, FireIgnored, FireOverlaps, TriggerOverlaps, fireVars
<1>2. ASSUME NEW f \in Fires, FireStep(f) PROVE RunningRowIsInFlight'
  <2>1. ASSUME NEW s \in Schedules, FireProbes(s, f) \/ TriggerProbes(s, f)
        PROVE  RunningRowIsInFlight'
    BY <2>1 DEF FireProbes, TriggerProbes, Probes, TypeOK
  <2>2. CASE ProbeSkips(f)
    BY <2>2 DEF ProbeSkips, TypeOK
  <2>3. CASE RunStarts(f)
    BY <2>3 DEF RunStarts, TypeOK
  <2>4. CASE RunEnds(f)
    BY <2>4 DEF RunEnds, TypeOK
  <2>5. CASE TriggerThrows(f)
    BY <2>5 DEF TriggerThrows, TypeOK, InFlight
  <2>6. CASE FireThrows(f)
    BY <2>6 DEF FireThrows, Exits
  <2> QED BY <1>2, <2>1, <2>2, <2>3, <2>4, <2>5, <2>6 DEF FireStep
<1>3. CASE Reload \/ SyncFromDb \/ Stop \/ Tick \/ UNCHANGED vars
  BY <1>3 DEF Reload, SyncFromDb, Stop, Tick, fireVars, vars
<1>4. CASE Start
  BY <1>4 DEF Start, Recover, TypeOK
<1>5. CASE Crash
  BY <1>5 DEF Crash, Exits
<1> QED BY <1>1, <1>2, <1>3, <1>4, <1>5 DEF Next

\* No run stays 'running' in the table once the service is up, unless a fire is
\* at work on it.
THEOREM RunsAreRecovered == Spec => []RunningRowIsInFlight
<1>1. Init => RunningRowIsInFlight
  BY DEF Init, RunningRowIsInFlight
<1> QED BY <1>1, RowStep, TypeCorrect, PTL DEF Spec

-----------------------------------------------------------------------------
(* Occurrences                                                              *)

\* A step that starts no fire keeps the promise if its timers are set to times
\* that have not come.
LEMMA OnceKept ==
  ASSUME TypeOK, TypeOK', OccurrencesFireOnce, now' >= now,
         UNCHANGED <<of, at>>,
         \A f \in Fires : stage[f] = "free" <=> stage'[f] = "free",
         \A s \in Schedules :
           armed'[s] # None => armed'[s] = armed[s] \/ armed'[s] > now
  PROVE  OccurrencesFireOnce'
<1> SUFFICES ASSUME NEW f \in Fires, stage'[f] # "free", at'[f] # Manual
             PROVE  /\ at[f] <= now'
                    /\ armed'[of[f]] # None => armed'[of[f]] > at[f]
                    /\ \A g \in Fires : g # f /\ of[g] = of[f] => at[g] # at[f]
  BY DEF OccurrencesFireOnce
<1>1. at[f] \in Nat /\ of[f] \in Schedules /\ stage[f] # "free"
  BY ClockFacts DEF TypeOK
<1>2. /\ at[f] <= now
      /\ armed[of[f]] # None => armed[of[f]] > at[f]
      /\ \A g \in Fires : g # f /\ of[g] = of[f] => at[g] # at[f]
  BY <1>1 DEF OccurrencesFireOnce
<1>3. armed'[of[f]] # None => armed'[of[f]] = armed[of[f]] \/ armed'[of[f]] > now
  BY <1>1
<1>4. now \in Nat /\ now' \in Nat
  BY ClockFacts DEF TypeOK
<1>5. at[f] <= now'
  BY <1>1, <1>2, <1>4
<1>6. ASSUME armed'[of[f]] # None PROVE armed'[of[f]] > at[f]
  <2>1. CASE armed'[of[f]] = armed[of[f]]
    BY <1>2, <1>6, <2>1
  <2>2. CASE armed'[of[f]] # armed[of[f]]
    <3>1. armed'[of[f]] > now
      BY <1>3, <1>6, <2>2
    <3>2. armed'[of[f]] \in Nat
      BY <1>1, <1>6, ClockFacts DEF TypeOK
    <3> QED BY <1>1, <1>2, <1>4, <3>1, <3>2
  <2> QED BY <2>1, <2>2
<1> QED BY <1>2, <1>5, <1>6
LEMMA OnceStep ==
  ASSUME TypeOK, TypeOK', OccurrencesFireOnce, [Next]_vars
  PROVE  OccurrencesFireOnce'
<1> now \in Nat /\ now' \in Nat
  BY ClockFacts DEF TypeOK
<1>1. ASSUME NEW s \in Schedules, ScheduleStep(s) PROVE OccurrencesFireOnce'
  <2>1. CASE CreateSchedule(s) \/ UpdateSchedule(s) \/ DeleteSchedule(s)
    BY <2>1, OnceKept DEF CreateSchedule, UpdateSchedule, DeleteSchedule, Writes,
       timerVars, fireVars
  <2>2. CASE TimerContinues(s)
    BY <2>2, OnceKept DEF TimerContinues, fireVars
  <2>3. CASE FireIgnored(s)
    BY <2>3, OnceKept DEF FireIgnored, Elapsed, fireVars, TypeOK
  <2>4. CASE FireOverlaps(s) /\ due[s] = Cron
    BY <2>4, OnceKept, ArmOneEffect DEF FireOverlaps, TimerEffect, fireVars
  <2>5. CASE FireOverlaps(s) /\ due[s] # Cron
    BY <2>5, OnceKept DEF FireOverlaps, Elapsed, fireVars, TypeOK
  <2>6. CASE TriggerOverlaps(s)
    BY <2>6, OnceKept, ArmOneEffect DEF TriggerOverlaps, TimerEffect, fireVars
  <2> QED BY <1>1, <2>1, <2>2, <2>3, <2>4, <2>5, <2>6 DEF ScheduleStep
<1>2. ASSUME NEW f \in Fires, FireStep(f) PROVE OccurrencesFireOnce'
  <2>1. ASSUME NEW s \in Schedules, FireProbes(s, f) PROVE OccurrencesFireOnce'
    <3>1. /\ armed[s] # None /\ armed[s] \in Nat /\ armed[s] <= now
          /\ of' = [of EXCEPT ![f] = s] /\ at' = [at EXCEPT ![f] = armed[s]]
          /\ stage' = [stage EXCEPT ![f] = "probing"] /\ stage[f] = "free"
          /\ armed' = [armed EXCEPT ![s] = None] /\ now' = now
      BY <2>1, ClockFacts DEF FireProbes, Due, Elapsed, Probes, TypeOK
    <3>2. \A g \in Fires \ {f} :
            /\ stage'[g] = stage[g] /\ of'[g] = of[g] /\ at'[g] = at[g]
            /\ stage[g] = "free" => of[g] # s
            /\ of[g] = s /\ at[g] # Manual => armed[s] > at[g]
      BY <3>1, ValueAssumption DEF TypeOK, OccurrencesFireOnce
    <3>3. \A g \in Fires \ {f} : of[g] = s => at[g] # armed[s]
      BY <3>1, <3>2, ValueAssumption, ClockFacts DEF TypeOK
    <3>4. stage'[f] # "free" /\ of'[f] = s /\ at'[f] = armed[s] /\ armed'[s] = None
      BY <3>1 DEF TypeOK
    <3>5. ASSUME NEW g \in Fires \ {f}, stage'[g] # "free", at'[g] # Manual
          PROVE  /\ at'[g] <= now'
                 /\ armed'[of'[g]] # None => armed'[of'[g]] > at'[g]
                 /\ \A h \in Fires : h # g /\ of'[h] = of'[g] => at'[h] # at'[g]
      <4>1. /\ at[g] <= now
            /\ armed[of[g]] # None => armed[of[g]] > at[g]
            /\ \A h \in Fires : h # g /\ of[h] = of[g] => at[h] # at[g]
        BY <3>2, <3>5 DEF OccurrencesFireOnce
      <4>2. of[g] \in Schedules
        BY <3>2, <3>5 DEF TypeOK
      <4>3. armed'[of[g]] \in {armed[of[g]], None}
        BY <3>1, <4>2 DEF TypeOK
      <4>4. ASSUME NEW h \in Fires, h # g, of'[h] = of'[g] PROVE at'[h] # at'[g]
        <5>1. CASE h = f
          BY <3>2, <3>3, <3>4, <4>4, <5>1
        <5>2. CASE h # f
          BY <3>2, <4>1, <4>4, <5>2
        <5> QED BY <5>1, <5>2
      <4> QED BY <3>1, <3>2, <4>1, <4>3, <4>4
    <3> QED BY <3>1, <3>2, <3>3, <3>4, <3>5 DEF OccurrencesFireOnce
  <2>2. ASSUME NEW s \in Schedules, TriggerProbes(s, f) PROVE OccurrencesFireOnce'
    <3>1. /\ of' = [of EXCEPT ![f] = s] /\ at' = [at EXCEPT ![f] = Manual]
          /\ stage' = [stage EXCEPT ![f] = "probing"] /\ stage[f] = "free"
          /\ armed' = armed /\ now' = now
      BY <2>2 DEF TriggerProbes, Probes, timerVars
    <3>2. at'[f] = Manual
      BY <3>1 DEF TypeOK
    <3>3. \A g \in Fires \ {f} : stage'[g] = stage[g] /\ of'[g] = of[g] /\ at'[g] = at[g]
      BY <3>1 DEF TypeOK
    <3> QED BY <3>1, <3>2, <3>3 DEF OccurrencesFireOnce
  <2>3. CASE ProbeSkips(f)
    <3>1. of[f] \in Schedules
      BY <2>3 DEF ProbeSkips, TypeOK
    <3>2. TimerEffect({of[f]})
      BY <2>3, <3>1, RearmEffect DEF ProbeSkips
    <3> QED BY <2>3, <3>2, OnceKept DEF ProbeSkips, TimerEffect, TypeOK
  <2>4. CASE RunEnds(f)
    <3>1. of[f] \in Schedules
      BY <2>4 DEF RunEnds, TypeOK
    <3>2. TimerEffect({of[f]})
      BY <2>4, <3>1, RearmEffect DEF RunEnds
    <3> QED BY <2>4, <3>2, OnceKept DEF RunEnds, TimerEffect, TypeOK
  <2>5. CASE RunStarts(f) \/ TriggerThrows(f)
    BY <2>5, OnceKept DEF RunStarts, TriggerThrows, timerVars, TypeOK
  <2>6. CASE FireThrows(f)
    BY <2>6, OnceKept, TimersCleared DEF FireThrows, Exits, InFlight, TypeOK
  <2> QED BY <1>2, <2>1, <2>2, <2>3, <2>4, <2>5, <2>6 DEF FireStep
<1>3. CASE Reload /\ on = "on"
  BY <1>3, OnceKept, LoadEffect DEF Reload, TimerEffect, fireVars
<1>4. CASE Reload /\ on # "on"
  BY <1>4, OnceKept DEF Reload, KeepTimers, timerVars, fireVars
<1>5. CASE SyncFromDb
  BY <1>5, OnceKept, LoadEffect DEF SyncFromDb, TimerEffect, fireVars
<1>6. CASE Start
  BY <1>6, OnceKept, LoadEffect DEF Start, TimerEffect, fireVars
<1>7. CASE Stop
  BY <1>7, OnceKept, TimersCleared DEF Stop, fireVars
<1>8. CASE Crash
  BY <1>8, OnceKept, TimersCleared DEF Crash, Exits, InFlight, TypeOK
<1>9. CASE Tick \/ UNCHANGED vars
  BY <1>9, OnceKept DEF Tick, vars, timerVars, fireVars
<1> QED BY <1>1, <1>2, <1>3, <1>4, <1>5, <1>6, <1>7, <1>8, <1>9 DEF Next

\* No timer fires early and no occurrence is fired twice.
THEOREM FiresOnce == Spec => []OccurrencesFireOnce
<1>1. Init => OccurrencesFireOnce
  BY DEF Init, OccurrencesFireOnce
<1> QED BY <1>1, OnceStep, TypeCorrect, PTL DEF Spec
-----------------------------------------------------------------------------
(* Overlaps                                                                 *)

\* Fires of one schedule are in flight together only if two of them met in the
\* probe; otherwise the one that runs is in activeRuns.
PairInv ==
  /\ \A f, g \in Fires :
       f # g /\ of[f] = of[g] /\ InFlight(f) /\ InFlight(g) => of[f] \in paired
  /\ \A f \in Fires : stage[f] = "running" => of[f] \in active \cup paired

LEMMA PairKept ==
  ASSUME TypeOK, PairInv, UNCHANGED <<of, active, paired, stage>>
  PROVE  PairInv'
BY DEF PairInv, InFlight

LEMMA PairExit == ASSUME TypeOK, Exits PROVE PairInv'
<1>1. \A f \in Fires : ~InFlight(f)'
  BY DEF Exits, InFlight, TypeOK
<1> QED BY <1>1 DEF PairInv, InFlight

LEMMA PairStep ==
  ASSUME TypeOK, TypeOK', PairInv, [Next]_vars
  PROVE  PairInv'
<1>1. ASSUME NEW s \in Schedules, ScheduleStep(s) PROVE PairInv'
  BY <1>1, PairKept DEF ScheduleStep, CreateSchedule, UpdateSchedule, DeleteSchedule,
     Writes, TimerContinues, FireIgnored, FireOverlaps, TriggerOverlaps, fireVars
<1>2. ASSUME NEW f \in Fires, FireStep(f) PROVE PairInv'
  <2>1. ASSUME NEW s \in Schedules, NEW a, Probes(f, s, a) PROVE PairInv'
    <3>1. /\ s \notin active /\ stage[f] = "free"
          /\ stage' = [stage EXCEPT ![f] = "probing"] /\ of' = [of EXCEPT ![f] = s]
          /\ active' = active
          /\ paired' = IF Probing(s) THEN paired \cup {s} ELSE paired
      BY <2>1 DEF Probes
    <3>2. /\ stage'[f] = "probing" /\ of'[f] = s
          /\ \A g \in Fires \ {f} : stage'[g] = stage[g] /\ of'[g] = of[g]
      BY <3>1 DEF TypeOK
    <3>3. ASSUME NEW g \in Fires \ {f}, of[g] = s, InFlight(g) PROVE s \in paired'
      <4>1. CASE stage[g] = "probing"
        BY <3>1, <3>3, <4>1 DEF Probing
      <4>2. CASE stage[g] = "running"
        BY <3>1, <3>3, <4>2 DEF PairInv
      <4> QED BY <3>3, <4>1, <4>2 DEF InFlight
    <3> QED BY <3>1, <3>2, <3>3 DEF PairInv, InFlight
  <2>2. CASE ProbeSkips(f) \/ RunStarts(f) \/ TriggerThrows(f)
    BY <2>2 DEF ProbeSkips, RunStarts, TriggerThrows, Enters, PairInv, InFlight, TypeOK
  <2>3. CASE RunEnds(f)
    <3>1. /\ stage[f] = "running" /\ stage' = [stage EXCEPT ![f] = "done"]
          /\ active' = active \ {of[f]} /\ UNCHANGED <<of, paired>>
      BY <2>3 DEF RunEnds
    <3>2. /\ stage'[f] = "done" /\ \A g \in Fires \ {f} : stage'[g] = stage[g]
      BY <3>1 DEF TypeOK
    <3>3. ASSUME NEW g \in Fires \ {f}, stage[g] = "running" PROVE of[g] \in active' \cup paired
      BY <3>1, <3>3 DEF PairInv, InFlight
    <3> QED BY <3>1, <3>2, <3>3 DEF PairInv, InFlight
  <2>4. CASE FireThrows(f)
    BY <2>4, PairExit DEF FireThrows
  <2> QED BY <1>2, <2>1, <2>2, <2>3, <2>4 DEF FireStep, FireProbes, TriggerProbes
<1>3. CASE Reload \/ SyncFromDb \/ Start \/ Stop \/ Tick \/ UNCHANGED vars
  BY <1>3, PairKept DEF Reload, SyncFromDb, Start, Stop, Tick, fireVars, vars
<1>4. CASE Crash
  BY <1>4, PairExit DEF Crash
<1> QED BY <1>1, <1>2, <1>3, <1>4 DEF Next

\* Two runs of a schedule overlap only after two fires of it met in the probe.
THEOREM OverlapNeedsTheProbe == Spec => []OverlapComesFromTheProbe
<1>1. Init => PairInv
  BY DEF Init, PairInv, InFlight
<1>2. PairInv => OverlapComesFromTheProbe
  BY DEF PairInv, OverlapComesFromTheProbe, InFlight
<1> QED BY <1>1, <1>2, PairStep, TypeCorrect, PTL DEF Spec

-----------------------------------------------------------------------------
(* Timers                                                                   *)

\* A schedule the overlap guard turns fires away from has a run that will arm
\* or disable it; and no fire is of a schedule that was never stored.
ActiveInv ==
  /\ \A s \in active : life[s] = "deleted" \/ \E f \in Fires : of[f] = s /\ stage[f] = "running"
  /\ \A f \in Fires : of[f] # None => life[of[f]] # "new"

LEMMA ActiveStep ==
  ASSUME TypeOK, TypeOK', ActiveInv, [Next]_vars
  PROVE  ActiveInv'
<1>1. ASSUME NEW s \in Schedules, ScheduleStep(s) PROVE ActiveInv'
  <2>1. UNCHANGED <<active, of, stage>>
    BY <1>1 DEF ScheduleStep, CreateSchedule, UpdateSchedule, DeleteSchedule, Writes,
       TimerContinues, FireIgnored, FireOverlaps, TriggerOverlaps, fireVars
  <2>2. \A t \in Schedules : /\ life[t] = "deleted" => life'[t] = "deleted"
                             /\ life[t] # "new" => life'[t] # "new"
    BY <1>1 DEF TypeOK, ScheduleStep, CreateSchedule, UpdateSchedule, DeleteSchedule,
       TimerContinues, FireIgnored, FireOverlaps, TriggerOverlaps, recordVars
  <2> QED BY <2>1, <2>2 DEF ActiveInv, TypeOK
<1>2. ASSUME NEW f \in Fires, FireStep(f) PROVE ActiveInv'
  <2>1. ASSUME NEW s \in Schedules, NEW a, Probes(f, s, a), life[s] = "stored"
        PROVE  ActiveInv'
    <3>1. /\ stage[f] = "free" /\ stage' = [stage EXCEPT ![f] = "probing"]
          /\ of' = [of EXCEPT ![f] = s] /\ active' = active /\ life' = life
      BY <2>1 DEF Probes, recordVars
    <3>2. of'[f] = s /\ \A g \in Fires \ {f} : stage'[g] = stage[g] /\ of'[g] = of[g]
      BY <3>1 DEF TypeOK
    <3> QED BY <2>1, <3>1, <3>2 DEF ActiveInv
  <2>2. CASE ProbeSkips(f)
    BY <2>2 DEF ProbeSkips, ActiveInv, TypeOK
  <2>3. CASE RunStarts(f)
    BY <2>3 DEF RunStarts, Enters, recordVars, ActiveInv, TypeOK
  <2>4. CASE RunEnds(f)
    BY <2>4 DEF RunEnds, ActiveInv, TypeOK
  <2>5. CASE TriggerThrows(f)
    BY <2>5 DEF TriggerThrows, Enters, recordVars, ActiveInv, TypeOK
  <2>6. CASE FireThrows(f)
    BY <2>6 DEF FireThrows, Exits, recordVars, ActiveInv
  <2> QED
    BY <1>2, <2>1, <2>2, <2>3, <2>4, <2>5, <2>6
       DEF FireStep, FireProbes, TriggerProbes, Enabled
<1>3. CASE Reload \/ SyncFromDb \/ Start \/ Stop \/ Tick \/ UNCHANGED vars
  BY <1>3 DEF Reload, SyncFromDb, Start, Stop, Tick, fireVars, recordVars, vars, ActiveInv
<1>4. CASE Crash
  BY <1>4 DEF Crash, Exits, recordVars, ActiveInv
<1> QED BY <1>1, <1>2, <1>3, <1>4 DEF Next

Working(s) == \E f \in Fires : of[f] = s /\ InFlight(f)

\* Arming S keeps the promise for the schedules outside S whose fires are kept.
LEMMA ArmedKept ==
  ASSUME TypeOK, EnabledIsArmed, NEW S \in SUBSET Schedules, TimerEffect(S),
         UNCHANGED <<now, life, due>>, on' = "on" => on = "on",
         \A s \in Schedules \ S : Working(s) => Working(s)'
  PROVE  EnabledIsArmed'
<1> SUFFICES ASSUME on' = "on", NEW s \in Schedules, Enabled(s)'
             PROVE  s \in changed' \/ Working(s)' \/ ArmedRight(s)'
  BY DEF EnabledIsArmed, Working
<1>1. CASE s \in S
  BY <1>1 DEF TimerEffect, Enabled
<1>2. CASE s \notin S
  <2>1. s \in changed \/ Working(s) \/ ArmedRight(s)
    BY <1>2 DEF EnabledIsArmed, Working, TimerEffect, Enabled
  <2> QED BY <1>2, <2>1 DEF TimerEffect, ArmedRight
<1> QED BY <1>1, <1>2

LEMMA ArmedStep ==
  ASSUME TypeOK, TypeOK', ActiveInv, EnabledIsArmed, [Next]_vars
  PROVE  EnabledIsArmed'
<1>1. ASSUME NEW s \in Schedules, ScheduleStep(s) PROVE EnabledIsArmed'
  <2>1. CASE CreateSchedule(s) \/ UpdateSchedule(s) \/ DeleteSchedule(s)
    <3>1. /\ UNCHANGED <<now, on, armed, wake, stage, of>>
          /\ changed' = changed \cup {s}
          /\ \A t \in Schedules \ {s} : /\ life'[t] = life[t] /\ due'[t] = due[t]
                                        /\ enabled'[t] = enabled[t]
      BY <2>1 DEF CreateSchedule, UpdateSchedule, DeleteSchedule, Writes, timerVars,
         fireVars, TypeOK
    <3> QED BY <3>1 DEF EnabledIsArmed, Enabled, ArmedRight, InFlight
  <2>2. CASE TimerContinues(s)
    <3>1. armed[s] # None => WakeFor(armed[s]) <= armed[s]
      BY <2>2, WakeInTime DEF TimerContinues, TypeOK
    <3>2. /\ UNCHANGED <<now, on, armed, stage, of, changed, life, enabled, due>>
          /\ wake' = [wake EXCEPT ![s] = WakeFor(armed[s])]
      BY <2>2 DEF TimerContinues, recordVars, fireVars
    <3> QED BY <3>1, <3>2 DEF EnabledIsArmed, Enabled, ArmedRight, InFlight, TypeOK
  <2>3. CASE FireIgnored(s)
    BY <2>3 DEF FireIgnored, Elapsed, recordVars, fireVars, EnabledIsArmed, Enabled,
       ArmedRight, InFlight, TypeOK
  <2>4. CASE FireOverlaps(s) /\ due[s] = Cron
    BY <2>4, ArmedKept, ArmOneEffect DEF FireOverlaps, fireVars, Working, InFlight
  <2>5. CASE FireOverlaps(s) /\ due[s] # Cron
    <3>1. Working(s)
      BY <2>5 DEF FireOverlaps, Enabled, ActiveInv, Working, InFlight
    <3> QED
      BY <2>5, <3>1 DEF FireOverlaps, Elapsed, fireVars, EnabledIsArmed, Enabled,
         ArmedRight, InFlight, Working, TypeOK
  <2>6. CASE TriggerOverlaps(s)
    BY <2>6, ArmedKept, ArmOneEffect DEF TriggerOverlaps, fireVars, Working, InFlight
  <2> QED BY <1>1, <2>1, <2>2, <2>3, <2>4, <2>5, <2>6 DEF ScheduleStep
<1>2. ASSUME NEW f \in Fires, FireStep(f) PROVE EnabledIsArmed'
  <2>1. ASSUME NEW s \in Schedules, FireProbes(s, f) \/ TriggerProbes(s, f)
        PROVE  EnabledIsArmed'
    <3>1. /\ UNCHANGED <<now, on, life, enabled, due, changed>>
          /\ stage[f] = "free" /\ stage' = [stage EXCEPT ![f] = "probing"]
          /\ of' = [of EXCEPT ![f] = s]
          /\ \A t \in Schedules \ {s} : armed'[t] = armed[t] /\ wake'[t] = wake[t]
      BY <2>1 DEF FireProbes, TriggerProbes, Probes, Elapsed, recordVars, timerVars, TypeOK
    <3>2. Working(s)'
      BY <3>1 DEF Working, InFlight, TypeOK
    <3>3. \A t \in Schedules : Working(t) => Working(t)'
      BY <3>1 DEF Working, InFlight, TypeOK
    <3> QED BY <3>1, <3>2, <3>3 DEF EnabledIsArmed, Enabled, ArmedRight, Working
  <2>2. CASE ProbeSkips(f) \/ RunEnds(f)
    <3>1. of[f] \in Schedules
      BY <2>2 DEF ProbeSkips, RunEnds, TypeOK
    <3>2. TimerEffect({of[f]})
      BY <2>2, <3>1, RearmEffect DEF ProbeSkips, RunEnds
    <3>3. \A t \in Schedules \ {of[f]} : Working(t) => Working(t)'
      BY <2>2 DEF ProbeSkips, RunEnds, Working, InFlight, TypeOK
    <3> QED BY <2>2, <3>1, <3>2, <3>3, ArmedKept DEF ProbeSkips, RunEnds
  <2>3. CASE RunStarts(f)
    BY <2>3 DEF RunStarts, recordVars, timerVars, EnabledIsArmed, Enabled, ArmedRight,
       InFlight, TypeOK
  <2>4. CASE TriggerThrows(f)
    BY <2>4 DEF TriggerThrows, recordVars, timerVars, EnabledIsArmed, Enabled,
       ArmedRight, InFlight, TypeOK
  <2>5. CASE FireThrows(f)
    BY <2>5 DEF FireThrows, Exits, EnabledIsArmed
  <2> QED BY <1>2, <2>1, <2>2, <2>3, <2>4, <2>5 DEF FireStep
<1>3. CASE (Reload /\ on = "on") \/ SyncFromDb
  BY <1>3, ArmedKept, LoadEffect DEF Reload, SyncFromDb
<1>4. CASE Start
  <2>1. TimerEffect(Schedules)
    BY <1>4, LoadEffect DEF Start
  <2>2. life' = life
    BY <1>4 DEF Start
  <2>3. \A s \in Schedules : Enabled(s)' => ArmedRight(s)'
    BY <2>1, <2>2 DEF TimerEffect, Enabled
  <2> QED BY <2>3 DEF EnabledIsArmed
<1>5. CASE (Reload /\ on # "on") \/ Stop \/ Crash
  BY <1>5 DEF Reload, Stop, Crash, Exits, EnabledIsArmed
<1>6. CASE Tick
  <2>1. NextTick[now] \in Nat /\ NextTick[now'] \in Nat /\ NextTick[now] <= NextTick[now']
    <3>1. now \in Times /\ now' \in Times /\ now <= now'
      BY <1>6, ClockFacts DEF Tick, TypeOK
    <3>2. NextTick[now] <= NextTick[now']
      BY <3>1, TickAssumption
    <3>3. NextTick[now] \in 1..(MaxTime + 1) /\ NextTick[now'] \in 1..(MaxTime + 1)
      BY <3>1, TickAssumption
    <3> QED BY <3>2, <3>3
  <2> QED
    BY <1>6, <2>1, ClockFacts DEF Tick, recordVars, timerVars, fireVars, EnabledIsArmed,
       Enabled, ArmedRight, InFlight, TypeOK
<1>7. CASE UNCHANGED vars
  BY <1>7 DEF vars, recordVars, timerVars, fireVars, EnabledIsArmed, Enabled, ArmedRight,
     InFlight
<1> QED BY <1>1, <1>2, <1>3, <1>4, <1>5, <1>6, <1>7 DEF Next

\* No enabled schedule is left without a timer, unless a fire of it is under way
\* or the next poll will see that its row has changed.
THEOREM NoneForgotten == Spec => []EnabledIsArmed
<1>1. Init => ActiveInv /\ EnabledIsArmed
  BY DEF Init, ActiveInv, EnabledIsArmed
<1> QED BY <1>1, ActiveStep, ArmedStep, TypeCorrect, PTL DEF Spec
=============================================================================
