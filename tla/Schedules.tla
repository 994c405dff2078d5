------------------------------- MODULE Schedules -------------------------------
(***************************************************************************)
(* The schedule service: a timer per enabled schedule, armed from the       *)
(* table the settings window and the command line write to; a fire that     *)
(* probes the network before it commits to a run; the row of each run; and  *)
(* the exits of the runtime in between (scheduleService.ts,                 *)
(* scheduleDomain.ts, the schedule handlers of registerYachiyoGateway.ts).  *)
(*                                                                          *)
(* An action is what runs between two awaits.  A fire awaits twice: the     *)
(* probe (up to 17 seconds), and the turns of the thread it opens.  Ids are *)
(* never given twice, to schedules or to fires.  The clock counts units of  *)
(* no fixed length and never steps back; a timer may be arbitrarily late,   *)
(* and the 100 ms by which one may be early are taken as none.              *)
(***************************************************************************)
EXTENDS Naturals

CONSTANTS
  Schedules,   \* schedule ids
  Bundled,     \* those shipped with the application (isBundledScheduleId)
  Fires,       \* calls of fireSchedule that get as far as the probe
  MaxTime,     \* bound on the clock
  MaxDelay,    \* MAX_TIMEOUT_MS, the longest delay setTimeout can hold
  NextTick,    \* cron.next(): the first tick after a time
  Cron,        \* in place of runAt in a recurring schedule
  Manual,      \* in place of the time a fire was armed for: triggerScheduleNow
  None,
  MaxEdits,    \* bound on edits of the table
  MaxExits     \* bound on the exits of the runtime

Times == 0..MaxTime

ASSUME BoundAssumption ==
  MaxTime \in Nat /\ MaxEdits \in Nat /\ MaxExits \in Nat /\ MaxDelay \in Nat \ {0}
ASSUME BundledAssumption == Bundled \subseteq Schedules
ASSUME ValueAssumption ==
  /\ {Cron, Manual, None} \cap Nat = {}
  /\ None \notin Schedules
  /\ None # Manual
ASSUME TickAssumption ==
  /\ NextTick \in [Times -> 1..(MaxTime + 1)]
  /\ \A t \in Times : NextTick[t] > t
  /\ \A t, u \in Times : t <= u => NextTick[t] <= NextTick[u]

VARIABLES
  now,
  life, enabled, due,   \* the row of a schedule; due is its runAt, or Cron
  changed,   \* schedules whose row is not the one in lastFingerprint
  reloads,   \* reloadSchedules calls on their way
  on,        \* the service: not created, started, or stopped
  armed,     \* fireAt of the timer of a schedule
  wake,      \* when its timeout is up
  active,    \* activeRuns
  stage,     \* where a fire is suspended
  of, at,    \* its schedule, and the time it was armed for
  row,       \* its row in schedule_runs
  paired,    \* schedules of which two fires were in the probe at a time
  edits, exits

recordVars == <<life, enabled, due>>
timerVars  == <<armed, wake>>
fireVars   == <<stage, of, at>>
boundVars  == <<edits, exits>>
vars == <<now, recordVars, changed, reloads, on, timerVars, active, fireVars, row,
          paired, boundVars>>

Enabled(s)  == life[s] = "stored" /\ enabled[s]
InFlight(f) == stage[f] \in {"probing", "running"}

Final == {"skipped", "completed", "failed"}

TypeOK ==
  /\ now \in Times
  /\ life \in [Schedules -> {"new", "stored", "deleted"}]
  /\ enabled \in [Schedules -> BOOLEAN]
  /\ due \in [Schedules -> Times \cup {Cron}]
  /\ changed \subseteq Schedules
  /\ on \in {"off", "on", "stopped"}
  /\ armed \in [Schedules -> 0..(MaxTime + 1) \cup {None}]
  /\ wake \in [Schedules -> 0..(MaxTime + 1)]
  /\ active \subseteq Schedules
  /\ stage \in [Fires -> {"free", "probing", "running", "done", "lost"}]
  /\ of \in [Fires -> Schedules \cup {None}]
  /\ at \in [Fires -> Times \cup {Manual}]
  /\ \A f \in Fires : stage[f] = "free" <=> of[f] = None
  /\ row \in [Fires -> {"none", "running"} \cup Final]
  /\ paired \subseteq Schedules
  /\ on = "off" => /\ active = {} /\ \A s \in Schedules : armed[s] = None
                   /\ \A f \in Fires : ~InFlight(f)
  /\ edits \in 0..MaxEdits /\ reloads \in 0..edits /\ exits \in 0..MaxExits

\* A first start: ensureBundledSchedules has stored the bundled schedules.
Init ==
  /\ now = 0
  /\ life = [s \in Schedules |-> IF s \in Bundled THEN "stored" ELSE "new"]
  /\ enabled = [s \in Schedules |-> s \in Bundled]
  /\ due = [s \in Schedules |-> Cron]
  /\ changed = {} /\ reloads = 0 /\ on = "off"
  /\ armed = [s \in Schedules |-> None] /\ wake = [s \in Schedules |-> 0]
  /\ active = {}
  /\ stage = [f \in Fires |-> "free"] /\ of = [f \in Fires |-> None]
  /\ at = [f \in Fires |-> Manual]
  /\ row = [f \in Fires |-> "none"]
  /\ paired = {} /\ edits = 0 /\ exits = 0

Probing(s)  == \E f \in Fires : of[f] = s /\ stage[f] = "probing"

-----------------------------------------------------------------------------
(* Timers                                                                   *)

\* setTimeout: a delay that does not fit is taken as the shortest there is.
TimeoutUp(delay) == now + IF delay > MaxDelay THEN 0 ELSE delay

\* armTimerAt: long delays go in pieces.
WakeFor(fireAt) ==
  TimeoutUp(IF fireAt - now > MaxDelay THEN MaxDelay ELSE fireAt - now)

\* Mutant: a one-off that is late fires at once.
LateAtOnce(s) ==
  IF ~Enabled(s) THEN None ELSE IF due[s] = Cron THEN NextTick[now] ELSE due[s]

\* The time armTimer finds for s, None where it leaves s without a timer.
FireAt(s) ==
  IF ~Enabled(s) THEN None
  ELSE IF due[s] = Cron THEN NextTick[now]
  ELSE IF due[s] > now THEN due[s] ELSE None

\* armTimer disarms and disables these as 'skipped'.
Overdue(s) == Enabled(s) /\ due[s] # Cron /\ due[s] <= now

\* armTimer for each of S.
ArmTimers(S) ==
  /\ armed' = [s \in Schedules |-> IF s \in S THEN FireAt(s) ELSE armed[s]]
  /\ wake' = [s \in Schedules |->
                IF s \notin S THEN wake[s]
                ELSE IF FireAt(s) = None THEN 0 ELSE WakeFor(FireAt(s))]
  /\ enabled' = [s \in Schedules |-> enabled[s] /\ ~(s \in S /\ Overdue(s))]

ArmTimer(s) ==
  /\ ArmTimers({s})
  /\ changed' = changed \cup {t \in {s} : Overdue(t)}

\* loadAndArm, and syncFromDb when the fingerprint differs.  The fingerprint is
\* taken before arming, which may write.
LoadAndArm ==
  /\ ArmTimers(Schedules)
  /\ changed' = {s \in Schedules : Overdue(s)}

\* Mutant: the timers are left to fire.
LeaveTimers == UNCHANGED timerVars

\* clearAllTimers
ClearTimers ==
  armed' = [s \in Schedules |-> None] /\ wake' = [s \in Schedules |-> 0]

\* disarmOneOffSchedule
Disarm(s) ==
  /\ armed' = [armed EXCEPT ![s] = None] /\ wake' = [wake EXCEPT ![s] = 0]
  /\ enabled' = [enabled EXCEPT ![s] = FALSE]
  /\ changed' = IF enabled[s] THEN changed \cup {s} ELSE changed

KeepTimers == UNCHANGED <<timerVars, enabled, changed>>

\* Mutant: a recurring schedule is not armed again.
ArmsNothing(s) == IF life[s] = "stored" /\ due[s] # Cron THEN Disarm(s) ELSE KeepTimers

\* How a fire leaves its schedule, read afresh: a one-off is spent, a recurring
\* one waits for its next tick, and a deleted one is left alone.
Rearm(s) ==
  IF life[s] # "stored" THEN KeepTimers
  ELSE IF due[s] = Cron THEN ArmTimer(s) ELSE Disarm(s)

-----------------------------------------------------------------------------
(* The table and its writers                                                *)

\* A write through the app is followed by a reloadSchedules call, one from the
\* command line by nothing.
Writes(s) ==
  /\ edits < MaxEdits /\ edits' = edits + 1
  /\ changed' = changed \cup {s}
  /\ \/ on = "on" /\ reloads' = reloads + 1
     \/ UNCHANGED reloads
  /\ UNCHANGED <<now, on, timerVars, active, fireVars, paired, exits>>

CreateSchedule(s) ==
  /\ life[s] = "new"
  /\ life' = [life EXCEPT ![s] = "stored"]
  /\ \E e \in BOOLEAN, d \in Times \cup {Cron} :
       enabled' = [enabled EXCEPT ![s] = e] /\ due' = [due EXCEPT ![s] = d]
  /\ Writes(s)
  /\ UNCHANGED row

\* A bundled schedule does not become a one-off.
UpdateSchedule(s) ==
  /\ life[s] = "stored"
  /\ \E e \in BOOLEAN, d \in Times \cup {Cron} :
       /\ s \in Bundled => d = Cron
       /\ enabled' = [enabled EXCEPT ![s] = e] /\ due' = [due EXCEPT ![s] = d]
  /\ Writes(s)
  /\ UNCHANGED <<life, row>>

\* The rows of its runs go with it (ON DELETE CASCADE).
DeleteSchedule(s) ==
  /\ life[s] = "stored" /\ s \notin Bundled
  /\ life' = [life EXCEPT ![s] = "deleted"]
  /\ enabled' = [enabled EXCEPT ![s] = FALSE]
  /\ due' = [due EXCEPT ![s] = Cron]
  /\ row' = [f \in Fires |-> IF of[f] = s THEN "none" ELSE row[f]]
  /\ Writes(s)

Reload ==
  /\ reloads > 0 /\ reloads' = reloads - 1
  /\ IF on = "on" THEN LoadAndArm ELSE KeepTimers
  /\ UNCHANGED <<now, life, due, on, active, fireVars, row, paired, boundVars>>

SyncFromDb ==
  /\ on = "on" /\ changed # {}
  /\ LoadAndArm
  /\ UNCHANGED <<now, life, due, reloads, on, active, fireVars, row, paired, boundVars>>

-----------------------------------------------------------------------------
(* fireSchedule                                                             *)

\* The timeout of s is up.
Due(s) == on # "off" /\ armed[s] # None /\ now >= wake[s]

Elapsed(s) == armed' = [armed EXCEPT ![s] = None] /\ wake' = [wake EXCEPT ![s] = 0]

\* A piece of a long delay has passed.
TimerContinues(s) ==
  /\ Due(s) /\ now < armed[s]
  /\ wake' = [wake EXCEPT ![s] = WakeFor(armed[s])]
  /\ UNCHANGED <<now, recordVars, changed, reloads, on, armed, active, fireVars, row,
                 paired, boundVars>>

\* The schedule was deleted or disabled behind the service's back.
FireIgnored(s) ==
  /\ Due(s) /\ now >= armed[s]
  /\ ~Enabled(s)
  /\ Elapsed(s)
  /\ UNCHANGED <<now, recordVars, changed, reloads, on, active, fireVars, row, paired,
                 boundVars>>

\* The overlap guard.
FireOverlaps(s) ==
  /\ Due(s) /\ now >= armed[s]
  /\ Enabled(s) /\ s \in active
  /\ IF due[s] = Cron THEN ArmTimer(s) ELSE Elapsed(s) /\ UNCHANGED <<enabled, changed>>
  /\ UNCHANGED <<now, life, due, reloads, on, active, fireVars, row, paired, boundVars>>

\* Past the guard, up to the await of the probe.
Probes(f, s, a) ==
  /\ s \notin active
  /\ stage[f] = "free"
  /\ stage' = [stage EXCEPT ![f] = "probing"]
  /\ of' = [of EXCEPT ![f] = s] /\ at' = [at EXCEPT ![f] = a]
  /\ paired' = IF Probing(s) THEN paired \cup {s} ELSE paired
  /\ UNCHANGED <<now, recordVars, changed, reloads, on, active, row, boundVars>>

FireProbes(s, f) ==
  /\ Due(s) /\ now >= armed[s]
  /\ Enabled(s)
  /\ Elapsed(s)
  /\ Probes(f, s, armed[s])

\* triggerScheduleNow does not ask whether the schedule is enabled.
TriggerProbes(s, f) ==
  /\ on = "on" /\ life[s] = "stored"
  /\ UNCHANGED timerVars
  /\ Probes(f, s, Manual)

TriggerOverlaps(s) ==
  /\ on = "on" /\ life[s] = "stored" /\ s \in active
  /\ due[s] = Cron
  /\ ArmTimer(s)
  /\ UNCHANGED <<now, life, due, reloads, on, active, fireVars, row, paired, boundVars>>

\* The network is away, or an automatic fire of a bundled schedule has nothing
\* to review.
ProbeSkips(f) ==
  /\ stage[f] = "probing" /\ life[of[f]] = "stored"
  /\ stage' = [stage EXCEPT ![f] = "done"]
  /\ row' = [row EXCEPT ![f] = "skipped"]
  /\ Rearm(of[f])
  /\ UNCHANGED <<now, life, due, reloads, on, active, of, at, paired, boundVars>>

\* Mutant: the run is not entered in activeRuns.
NotEntered(f) == UNCHANGED active

Enters(f) == active' = active \cup {of[f]}

RunStarts(f) ==
  /\ stage[f] = "probing" /\ life[of[f]] = "stored"
  /\ stage' = [stage EXCEPT ![f] = "running"]
  /\ row' = [row EXCEPT ![f] = "running"]
  /\ Enters(f)
  /\ UNCHANGED <<now, recordVars, changed, reloads, on, timerVars, of, at, paired,
                 boundVars>>

\* The finally block, the result having been stored if its row is still there.
RunEnds(f) ==
  /\ stage[f] = "running"
  /\ stage' = [stage EXCEPT ![f] = "done"]
  /\ IF row[f] = "none" THEN UNCHANGED row
     ELSE \E r \in {"completed", "failed"} : row' = [row EXCEPT ![f] = r]
  /\ active' = active \ {of[f]}
  /\ Rearm(of[f])
  /\ UNCHANGED <<now, life, due, reloads, on, of, at, paired, boundVars>>

\* createScheduleRun throws for a schedule deleted during the probe.  The caller
\* of triggerScheduleNow is told.
TriggerThrows(f) ==
  /\ stage[f] = "probing" /\ at[f] = Manual
  /\ life[of[f]] # "stored"
  /\ stage' = [stage EXCEPT ![f] = "done"]
  /\ Enters(f) \/ UNCHANGED active
  /\ UNCHANGED <<now, recordVars, changed, reloads, on, timerVars, of, at, row, paired,
                 boundVars>>

-----------------------------------------------------------------------------
(* The runtime                                                              *)

Exits ==
  /\ exits < MaxExits /\ exits' = exits + 1
  /\ on' = "off" /\ reloads' = 0 /\ changed' = {}
  /\ ClearTimers
  /\ active' = {} /\ paired' = {}
  /\ stage' = [f \in Fires |-> IF InFlight(f) THEN "lost" ELSE stage[f]]
  /\ UNCHANGED <<now, recordVars, of, at, row, edits>>

\* The same throw with nobody waiting is an unhandled rejection, which ends the
\* runtime.
FireThrows(f) ==
  /\ stage[f] = "probing" /\ at[f] # Manual
  /\ life[of[f]] # "stored"
  /\ Exits

Crash == on # "off" /\ Exits

\* Mutant: what an exit cut off stays 'running'.
NotRecovered == UNCHANGED row

\* recoverInterruptedScheduleRuns
Recover == row' = [f \in Fires |-> IF row[f] = "running" THEN "failed" ELSE row[f]]

Start ==
  /\ on = "off" /\ on' = "on"
  /\ Recover
  /\ LoadAndArm
  /\ UNCHANGED <<now, life, due, reloads, active, fireVars, paired, boundVars>>

Stop ==
  /\ on = "on" /\ on' = "stopped"
  /\ ClearTimers
  /\ UNCHANGED <<now, recordVars, changed, reloads, active, fireVars, row, paired,
                 boundVars>>

Tick ==
  /\ now < MaxTime /\ now' = now + 1
  /\ UNCHANGED <<recordVars, changed, reloads, on, timerVars, active, fireVars, row,
                 paired, boundVars>>

ScheduleStep(s) ==
  \/ CreateSchedule(s) \/ UpdateSchedule(s) \/ DeleteSchedule(s)
  \/ TimerContinues(s) \/ FireIgnored(s) \/ FireOverlaps(s) \/ TriggerOverlaps(s)

FireStep(f) ==
  \/ \E s \in Schedules : FireProbes(s, f) \/ TriggerProbes(s, f)
  \/ ProbeSkips(f) \/ RunStarts(f) \/ RunEnds(f) \/ TriggerThrows(f) \/ FireThrows(f)

Next ==
  \/ \E s \in Schedules : ScheduleStep(s)
  \/ \E f \in Fires : FireStep(f)
  \/ Reload \/ SyncFromDb \/ Start \/ Stop \/ Crash \/ Tick

Spec == Init /\ [][Next]_vars

-----------------------------------------------------------------------------
(* Properties                                                               *)

\* The timer of s will fire, at runAt or no later than the next tick.
ArmedRight(s) ==
  /\ armed[s] # None /\ wake[s] <= armed[s]
  /\ IF due[s] = Cron THEN armed[s] <= NextTick[now] ELSE armed[s] = due[s]

\* While the service is up, an enabled schedule is never forgotten: it has a
\* timer, for its runAt or for no later than its next tick, unless a fire of it
\* is under way, which will leave it one, or its row has changed since the last
\* load and the next poll will see that.  Skips, overlaps, reloads in the middle
\* of a run and edits by another process all rearm or leave that to another.
EnabledIsArmed ==
  on = "on" =>
    \A s \in Schedules : Enabled(s) =>
      \/ s \in changed
      \/ \E f \in Fires : of[f] = s /\ InFlight(f)
      \/ ArmedRight(s)

\* A timer never fires early, whatever its delay was cut into, and no occurrence
\* is fired twice, across reloads, edits, overlaps and exits in the middle of a
\* run; nor does a timer wait for one that was.
OccurrencesFireOnce ==
  \A f \in Fires : stage[f] # "free" /\ at[f] # Manual =>
    /\ at[f] <= now
    /\ armed[of[f]] # None => armed[of[f]] > at[f]
    /\ \A g \in Fires : g # f /\ of[g] = of[f] => at[g] # at[f]

\* Two runs of a schedule are in flight at a time only if two fires of it were
\* in the probe at a time: activeRuns is asked before the probe and written
\* after it.  That is the one way past the overlap guard, of which the help says
\* that "Runs of the same schedule never run in parallel"
\* (yachiyo-help/references/schedule.md:22).
OverlapComesFromTheProbe ==
  \A f, g \in Fires :
    f # g /\ of[f] = of[g] /\ stage[f] = "running" /\ stage[g] = "running"
      => of[f] \in paired

\* Runs cannot be stuck: a row says 'running' only while a fire works on it, or
\* until the service that will recover it has started.
RunningRowIsInFlight ==
  \A f \in Fires : row[f] = "running" => stage[f] = "running" \/ on = "off"
=============================================================================
