------------------------------ MODULE Subagents ------------------------------
(***************************************************************************)
(* The subagent manager (app/domain/subagents/subagentManager.ts) and the  *)
(* two places its promises meet the rest of the runtime: the deletion of a *)
(* thread (ThreadDomain.deleteThread) and the delivery of a worker's       *)
(* report to its parent thread (RunDomain, deliverToParent).               *)
(*                                                                         *)
(* A worker has a record (state, mailbox, turn count, idle timer), at most *)
(* one drain loop, and a runner that is closed once.  JavaScript runs each *)
(* callback to its end, so an action is what happens between two awaits.   *)
(* `drain` distinguishes a drain that awaits a turn ("turn") from one that *)
(* has returned but whose `.finally` has not cleared drainPromise yet      *)
(* ("returned"): other callbacks run between the two.                      *)
(*                                                                         *)
(* The manager waits on promises: those of drains, of runner closes and of *)
(* deliveries.  A wait is on the promises that exist when it begins.       *)
(***************************************************************************)
EXTENDS Naturals, FiniteSets

CONSTANTS
  Agents,        \* worker ids; each is launched at most once
  Threads,
  ThreadOf,      \* the parent thread of each worker
  Msgs,          \* steers, each sent once
  MaxLive,       \* maxLiveAgentsPerThread
  MaxRunning,    \* maxRunningAgentsGlobal
  MaxMailbox,    \* maxMailboxEnvelopes
  MaxTurns       \* maxTurnsPerAgent

ASSUME ThreadOfAssumption == ThreadOf \in [Agents -> Threads]
ASSUME MsgsAssumption == IsFiniteSet(Msgs)
ASSUME LimitsAssumption ==
  /\ MaxLive \in Nat \ {0}
  /\ MaxRunning \in Nat \ {0}
  /\ MaxMailbox \in Nat \ {0}
  /\ MaxTurns \in Nat \ {0}

VARIABLES
  agents,      \* ids in the manager's map
  state,       \* snapshot.state of each record, "unborn" before launch
  mailbox,
  sent,        \* messages some send accepted
  turns,       \* turnCount
  reported,    \* initialResultDelivered
  timer,       \* idleTimer is set
  drain,       \* "none", "turn", "returned"
  runner,      \* "open", "closing", "closed" (closePromise)
  missed,      \* history: workers cancelled while their drain was "returned"
  delivering,  \* workers with a delivery to the parent under way
  manager,     \* "open", "stopping" (RunDomain.isClosing), "closing", "closed"
  managerWaits,
  thread,      \* "stored", "drains", "closes", "purging", "deleted"
  threadWaits, \* what deleteThread of the thread is waiting for
  targets,     \* allRecords of closeThread
  stopped,     \* liveRecords of closeThread
  run          \* the thread has an active run

recordVars == <<agents, state, mailbox, sent, turns, reported, timer>>
workVars == <<drain, runner, missed, delivering>>
managerVars == <<manager, managerWaits>>
threadVars == <<thread, threadWaits, targets, stopped, run>>
vars == <<recordVars, workVars, managerVars, threadVars>>

Terminal == {"failed", "cancelled", "closed"}
Live == {a \in Agents : state[a] \in {"running", "idle"}}
Running == {a \in Agents : state[a] = "running"}
Open == manager \in {"open", "stopping"}

\* What a worker delivers while an earlier delivery is under way counts as
\* one promise with it.
Promises == {"drain", "close", "deliver"} \X Agents

\* Mutant of DrainOf: waits also for a drain that never started.
DrainOfAll(S) == {<<"drain", a>> : a \in S}
DrainOf(S) == {<<"drain", a>> : a \in {b \in S : drain[b] # "none"}}
CloseOf(S, runners) == {<<"close", a>> : a \in {b \in S : runners[b] = "closing"}}
DeliveryOf(S) == {<<"deliver", a>> : a \in S \cap delivering}

MailboxesFit == \A a \in Agents : Cardinality(mailbox[a]) <= MaxMailbox

(* Type invariant, with the limit on the envelopes of a mailbox.            *)
TypeOK ==
  /\ MailboxesFit
  /\ agents \subseteq Agents
  /\ state \in [Agents -> {"unborn", "running", "idle"} \cup Terminal]
  /\ mailbox \in [Agents -> SUBSET Msgs]
  /\ sent \subseteq Msgs
  /\ turns \in [Agents -> Nat]
  /\ reported \in [Agents -> BOOLEAN]
  /\ timer \in [Agents -> BOOLEAN]
  /\ drain \in [Agents -> {"none", "turn", "returned"}]
  /\ runner \in [Agents -> {"open", "closing", "closed"}]
  /\ missed \subseteq Agents
  /\ delivering \subseteq Agents
  /\ manager \in {"open", "stopping", "closing", "closed"}
  /\ managerWaits \subseteq Promises
  /\ thread \in [Threads -> {"stored", "drains", "closes", "purging", "deleted"}]
  /\ threadWaits \in [Threads -> SUBSET Promises]
  /\ targets \in [Threads -> SUBSET Agents]
  /\ stopped \in [Threads -> SUBSET Agents]
  /\ run \in [Threads -> BOOLEAN]

Init ==
  /\ agents = {}
  /\ state = [a \in Agents |-> "unborn"]
  /\ mailbox = [a \in Agents |-> {}]
  /\ sent = {}
  /\ turns = [a \in Agents |-> 0]
  /\ reported = [a \in Agents |-> FALSE]
  /\ timer = [a \in Agents |-> FALSE]
  /\ drain = [a \in Agents |-> "none"]
  /\ runner = [a \in Agents |-> "open"]
  /\ missed = {}
  /\ delivering = {}
  /\ manager = "open"
  /\ managerWaits = {}
  /\ thread = [t \in Threads |-> "stored"]
  /\ threadWaits = [t \in Threads |-> {}]
  /\ targets = [t \in Threads |-> {}]
  /\ stopped = [t \in Threads |-> {}]
  /\ run = [t \in Threads |-> FALSE]

-----------------------------------------------------------------------------
(* Steps the operations share.                                              *)

\* A promise settles: nothing waits for it any more.
Settle(p) ==
  /\ managerWaits' = managerWaits \ {p}
  /\ threadWaits' = [t \in Threads |-> threadWaits[t] \ {p}]

\* startRunnerClose
StartRunnerClose(S) ==
  runner' = [a \in Agents |->
               IF a \in S /\ runner[a] = "open" THEN "closing" ELSE runner[a]]

\* The head of drain's loop, up to the await of runTurn.
TakeTurn(a) ==
  /\ mailbox' = [mailbox EXCEPT ![a] = {}]
  /\ turns' = [turns EXCEPT ![a] = @ + 1]
  /\ drain' = [drain EXCEPT ![a] = "turn"]

\* Mutant of HasRoom: the limit is off by one.
RoomForOneMore(a) == Cardinality(mailbox[a]) <= MaxMailbox
HasRoom(a) == Cardinality(mailbox[a]) < MaxMailbox

Rest(a) ==
  /\ state' = [state EXCEPT ![a] = "idle"]
  /\ timer' = [timer EXCEPT ![a] = TRUE]
  /\ drain' = [drain EXCEPT ![a] = "returned"]

-----------------------------------------------------------------------------
(* The operations of the manager.                                           *)

Launch(a) ==
  /\ Open
  /\ run[ThreadOf[a]]
  /\ state[a] = "unborn"
  /\ Cardinality({b \in Live \cap agents : ThreadOf[b] = ThreadOf[a]}) < MaxLive
  /\ Cardinality(Running \cap agents) < MaxRunning
  /\ agents' = agents \cup {a}
  /\ state' = [state EXCEPT ![a] = "running"]
  /\ TakeTurn(a)
  /\ UNCHANGED <<sent, reported, timer, runner, missed, delivering, managerVars,
                 threadVars>>

\* send to a worker.  The parent may steer every worker of its thread, so the
\* sender adds no condition.
Send(a, m) ==
  /\ Open
  /\ a \in agents
  /\ a \in Live
  /\ m \notin sent
  /\ HasRoom(a)
  /\ sent' = sent \cup {m}
  /\ IF state[a] = "idle"
       THEN /\ timer' = [timer EXCEPT ![a] = FALSE]
            /\ state' = [state EXCEPT ![a] = "running"]
       ELSE UNCHANGED <<timer, state>>
  /\ IF state[a] = "idle" /\ drain[a] = "none"
       THEN TakeTurn(a)
       ELSE /\ mailbox' = [mailbox EXCEPT ![a] = @ \cup {m}]
            /\ UNCHANGED <<turns, drain>>
  /\ UNCHANGED <<agents, reported, runner, missed, delivering, managerVars,
                 threadVars>>

\* send from a worker to its parent.
Tell(a) ==
  /\ Open
  /\ a \in agents
  /\ drain[a] = "turn" /\ a \in Live
  /\ delivering' = delivering \cup {a}
  /\ UNCHANGED <<recordVars, drain, runner, missed, managerVars, threadVars>>

\* cancelRecord for the workers of S
CancelRecords(S, notify) ==
  /\ timer' = [a \in Agents |-> timer[a] /\ a \notin S]
  /\ state' = [a \in Agents |-> IF a \in S THEN "cancelled" ELSE state[a]]
  /\ IF notify
       THEN /\ reported' = [a \in Agents |-> reported[a] \/ a \in S]
            /\ delivering' = delivering \cup S
       ELSE UNCHANGED <<reported, delivering>>
  /\ missed' = missed \cup {a \in S : drain[a] = "returned"}

\* Mutant of WithoutDrain: the runner is closed under a turn in progress.
AnyDrain(S) == S
WithoutDrain(S) == {a \in S : drain[a] = "none"}

\* cancel, and eliminate for a requester of the same team
Cancel(a) ==
  /\ a \in agents
  /\ a \in Live
  /\ CancelRecords({a}, Open)
  /\ StartRunnerClose(WithoutDrain({a}))
  /\ UNCHANGED <<agents, mailbox, sent, turns, drain, managerVars, threadVars>>

\* cancelRunningByThread
CancelRunning(t) ==
  LET S == {a \in agents \cap Running : ThreadOf[a] = t}
  IN  /\ S # {}
      /\ CancelRecords(S, Open)
      /\ StartRunnerClose(WithoutDrain(S))
      /\ UNCHANGED <<agents, mailbox, sent, turns, drain, managerVars, threadVars>>

CloseIdleRecords(S) ==
  /\ timer' = [a \in Agents |-> timer[a] /\ a \notin S]
  /\ state' = [a \in Agents |-> IF a \in S THEN "closed" ELSE state[a]]

\* closeIdle
CloseIdle(a) ==
  /\ a \in agents
  /\ state[a] = "idle"
  /\ CloseIdleRecords({a})
  /\ StartRunnerClose({a})
  /\ UNCHANGED <<agents, mailbox, sent, turns, reported, drain, missed, delivering,
                 managerVars, threadVars>>

\* The idle timer.  Timers fire when no callback of a promise is left to run.
IdleExpires(a) ==
  /\ timer[a]
  /\ \A b \in Agents : drain[b] # "returned"
  /\ IF state[a] = "idle" /\ Open
       THEN /\ CloseIdleRecords({a})
            /\ StartRunnerClose({a})
       ELSE /\ timer' = [timer EXCEPT ![a] = FALSE]
            /\ UNCHANGED <<state, runner>>
  /\ UNCHANGED <<agents, mailbox, sent, turns, reported, drain, missed, delivering,
                 managerVars, threadVars>>

-----------------------------------------------------------------------------
(* The drain loop, from the end of runTurn to the next await.               *)

\* Mutant of TurnStopped: the drain leaves its runner to whoever cancelled.
TurnStoppedOpen(a) ==
  /\ drain[a] = "turn"
  /\ state[a] # "running" \/ ~Open
  /\ drain' = [drain EXCEPT ![a] = "returned"]
  /\ UNCHANGED <<recordVars, runner, missed, delivering, managerVars, threadVars>>

\* The worker was cancelled, or the manager is closing.
TurnStopped(a) ==
  /\ drain[a] = "turn"
  /\ state[a] # "running" \/ ~Open
  /\ drain' = [drain EXCEPT ![a] = "returned"]
  /\ StartRunnerClose({a})
  /\ UNCHANGED <<recordVars, missed, delivering, managerVars, threadVars>>

\* After a result: the limit of turns, the mail that came meanwhile, or rest.
AfterResult(a, reporters) ==
  \/ /\ turns[a] >= MaxTurns
     /\ delivering' = delivering \cup {a}
     /\ state' = [state EXCEPT ![a] = "closed"]
     /\ drain' = [drain EXCEPT ![a] = "returned"]
     /\ StartRunnerClose({a})
     /\ UNCHANGED <<mailbox, turns, timer>>
  \/ /\ turns[a] < MaxTurns
     /\ delivering' = delivering \cup reporters
     /\ IF mailbox[a] # {}
          THEN TakeTurn(a) /\ UNCHANGED <<state, timer>>
          ELSE Rest(a) /\ UNCHANGED <<mailbox, turns>>
     /\ UNCHANGED runner

\* runTurn resolved with a report.  A text the worker already told its parent
\* in this turn is not delivered again.
TurnReports(a) ==
  /\ drain[a] = "turn"
  /\ state[a] = "running" /\ Open
  /\ reported' = [reported EXCEPT ![a] = TRUE]
  /\ \E reporters \in SUBSET {a} : AfterResult(a, reporters)
  /\ UNCHANGED <<agents, sent, missed, managerVars, threadVars>>

\* Mutant of TurnYields: the turn pauses for mail that is not there.
YieldsForNothing(a) ==
  /\ drain[a] = "turn"
  /\ state[a] = "running" /\ Open
  /\ AfterResult(a, {})
  /\ UNCHANGED <<agents, sent, reported, missed, managerVars, threadVars>>

\* runTurn paused because mail came; the runner pauses for nothing else.
TurnYields(a) ==
  /\ drain[a] = "turn"
  /\ state[a] = "running" /\ Open
  /\ mailbox[a] # {}
  /\ AfterResult(a, {})
  /\ UNCHANGED <<agents, sent, reported, missed, managerVars, threadVars>>

\* runTurn failed and may be tried again on the next steer.
TurnInterrupted(a) ==
  /\ drain[a] = "turn"
  /\ state[a] = "running" /\ Open
  /\ reported' = [reported EXCEPT ![a] = TRUE]
  /\ delivering' = delivering \cup {a}
  /\ IF mailbox[a] = {}
       THEN Rest(a)
       ELSE drain' = [drain EXCEPT ![a] = "returned"] /\ UNCHANGED <<state, timer>>
  /\ UNCHANGED <<agents, mailbox, sent, turns, runner, missed, managerVars,
                 threadVars>>

\* Mutant of TurnFails: a failure hides a cancellation.
FailsAnyway(a) ==
  /\ drain[a] = "turn"
  /\ Open
  /\ reported' = [reported EXCEPT ![a] = TRUE]
  /\ delivering' = delivering \cup {a}
  /\ state' = [state EXCEPT ![a] = "failed"]
  /\ drain' = [drain EXCEPT ![a] = "returned"]
  /\ StartRunnerClose({a})
  /\ UNCHANGED <<agents, mailbox, sent, turns, timer, missed, managerVars,
                 threadVars>>

\* runTurn failed for good.
TurnFails(a) ==
  /\ drain[a] = "turn"
  /\ state[a] = "running" /\ Open
  /\ reported' = [reported EXCEPT ![a] = TRUE]
  /\ delivering' = delivering \cup {a}
  /\ state' = [state EXCEPT ![a] = "failed"]
  /\ drain' = [drain EXCEPT ![a] = "returned"]
  /\ StartRunnerClose({a})
  /\ UNCHANGED <<agents, mailbox, sent, turns, timer, missed, managerVars,
                 threadVars>>

\* Mutant of DrainCleared: mail that came in between starts no drain.
ClearedOnly(a) ==
  /\ drain[a] = "returned"
  /\ drain' = [drain EXCEPT ![a] = "none"]
  /\ Settle(<<"drain", a>>)
  /\ UNCHANGED <<recordVars, runner, missed, delivering, manager, thread, targets,
                 stopped, run>>

\* The `.finally` of startDrain.
DrainCleared(a) ==
  /\ drain[a] = "returned"
  /\ IF state[a] = "running" /\ mailbox[a] # {} /\ Open
       THEN TakeTurn(a)
       ELSE /\ drain' = [drain EXCEPT ![a] = "none"]
            /\ UNCHANGED <<mailbox, turns>>
  /\ Settle(<<"drain", a>>)
  /\ UNCHANGED <<agents, state, sent, reported, timer, runner, missed, delivering,
                 manager, thread, targets, stopped, run>>

RunnerCloses(a) ==
  /\ runner[a] = "closing"
  /\ runner' = [runner EXCEPT ![a] = "closed"]
  /\ Settle(<<"close", a>>)
  /\ UNCHANGED <<recordVars, drain, missed, delivering, manager, thread, targets,
                 stopped, run>>

\* deliverToParent settles: dropped while the server closes, refused when the
\* thread is gone, else a steer of the active run or a run of its own.
DeliverySettles(a) ==
  /\ a \in delivering
  /\ delivering' = delivering \ {a}
  /\ Settle(<<"deliver", a>>)
  /\ LET t == ThreadOf[a]
     IN  \/ UNCHANGED run
         \/ /\ manager = "open"
            /\ thread[t] # "deleted"
            /\ run' = [run EXCEPT ![t] = TRUE]
  /\ UNCHANGED <<recordVars, drain, runner, missed, manager, thread, targets,
                 stopped>>

-----------------------------------------------------------------------------
(* Runs and threads.                                                        *)

RunStarts(t) ==
  /\ manager = "open"
  /\ thread[t] # "deleted"
  /\ ~run[t]
  /\ run' = [run EXCEPT ![t] = TRUE]
  /\ UNCHANGED <<recordVars, workVars, managerVars, thread, threadWaits, targets, stopped>>

RunEnds(t) ==
  /\ run[t]
  /\ run' = [run EXCEPT ![t] = FALSE]
  /\ UNCHANGED <<recordVars, workVars, managerVars, thread, threadWaits, targets, stopped>>

\* deleteThread up to the first await of closeThread
DeleteThread(t) ==
  /\ manager = "open"
  /\ thread[t] = "stored"
  /\ ~run[t]
  /\ LET all  == {a \in agents : ThreadOf[a] = t}
         live == all \cap Live
         idle == {a \in live : state[a] = "idle"}
     IN  /\ targets' = [targets EXCEPT ![t] = all]
         /\ stopped' = [stopped EXCEPT ![t] = live]
         /\ timer' = [a \in Agents |-> timer[a] /\ a \notin live]
         /\ state' = [a \in Agents |->
                        IF a \in idle THEN "closed"
                        ELSE IF a \in live THEN "cancelled" ELSE state[a]]
         /\ missed' = missed \cup {a \in live \ idle : drain[a] = "returned"}
         /\ StartRunnerClose(idle \cup WithoutDrain(live))
         /\ threadWaits' = [threadWaits EXCEPT ![t] = DrainOf(live) \cup CloseOf(live, runner')]
  /\ thread' = [thread EXCEPT ![t] = "drains"]
  /\ UNCHANGED <<agents, mailbox, sent, turns, reported, drain, delivering,
                 managerVars, run>>

\* Mutant of DrainsAwaited: closeThread returns when the drains have.
NoSecondWait(t) ==
  /\ thread[t] = "drains"
  /\ threadWaits[t] = {}
  /\ thread' = [thread EXCEPT ![t] = "closes"]
  /\ UNCHANGED <<recordVars, workVars, managerVars, threadWaits, targets, stopped, run>>

\* The second await of closeThread: every close and delivery under way.
DrainsAwaited(t) ==
  /\ thread[t] = "drains"
  /\ threadWaits[t] = {}
  /\ thread' = [thread EXCEPT ![t] = "closes"]
  /\ threadWaits' = [threadWaits EXCEPT ![t] =
                      CloseOf(Agents, runner) \cup DeliveryOf(Agents)]
  /\ UNCHANGED <<recordVars, workVars, managerVars, targets, stopped, run>>

\* closeThread returns; deleteThread goes on to evict and remove files.
AgentsClosed(t) ==
  /\ thread[t] = "closes"
  /\ threadWaits[t] = {}
  /\ thread' = [thread EXCEPT ![t] = "purging"]
  /\ agents' = agents \ targets[t]
  /\ UNCHANGED <<state, mailbox, sent, turns, reported, timer, workVars,
                 managerVars, targets, stopped, threadWaits, run>>

ThreadDeleted(t) ==
  /\ thread[t] = "purging"
  /\ thread' = [thread EXCEPT ![t] = "deleted"]
  /\ UNCHANGED <<recordVars, workVars, managerVars, threadWaits, targets, stopped, run>>

\* RunDomain.close begins.
ServerStops ==
  /\ manager = "open"
  /\ manager' = "stopping"
  /\ UNCHANGED <<recordVars, workVars, managerWaits, threadVars>>

\* close of the manager, up to its await
ManagerCloses ==
  /\ manager = "stopping"
  /\ manager' = "closing"
  /\ LET running == agents \cap Running
         idle    == {a \in agents : state[a] = "idle"}
     IN  /\ timer' = [a \in Agents |-> timer[a] /\ a \notin agents]
         /\ state' = [a \in Agents |->
                        IF a \in running THEN "cancelled"
                        ELSE IF a \in idle THEN "closed" ELSE state[a]]
         /\ missed' = missed \cup {a \in running : drain[a] = "returned"}
         /\ StartRunnerClose(idle)
         /\ managerWaits' = DrainOf(agents) \cup CloseOf(Agents, runner')
                            \cup DeliveryOf(Agents)
  /\ UNCHANGED <<agents, mailbox, sent, turns, reported, drain, delivering,
                 threadVars>>

ManagerClosed ==
  /\ manager = "closing"
  /\ managerWaits = {}
  /\ manager' = "closed"
  /\ agents' = {}
  /\ UNCHANGED <<state, mailbox, sent, turns, reported, timer, workVars, managerWaits,
                 threadVars>>

-----------------------------------------------------------------------------
TurnEnds(a) ==
  \/ TurnStopped(a) \/ TurnReports(a) \/ TurnYields(a)
  \/ TurnInterrupted(a) \/ TurnFails(a)

AgentStep(a) ==
  \/ Launch(a) \/ \E m \in Msgs : Send(a, m)
  \/ Tell(a) \/ Cancel(a) \/ CloseIdle(a) \/ IdleExpires(a)
  \/ TurnEnds(a) \/ DrainCleared(a) \/ RunnerCloses(a) \/ DeliverySettles(a)

ThreadStep(t) ==
  \/ CancelRunning(t) \/ RunStarts(t) \/ RunEnds(t)
  \/ DeleteThread(t) \/ DrainsAwaited(t) \/ AgentsClosed(t) \/ ThreadDeleted(t)

Next ==
  \/ \E a \in Agents : AgentStep(a)
  \/ \E t \in Threads : ThreadStep(t)
  \/ ServerStops \/ ManagerCloses \/ ManagerClosed

Spec == Init /\ [][Next]_vars

\* A turn ends (the provider's stream ends or is aborted), promise callbacks
\* run, runners close and deliveries settle.
Fairness ==
  /\ \A a \in Agents : /\ WF_vars(TurnEnds(a))
                       /\ WF_vars(DrainCleared(a))
                       /\ WF_vars(RunnerCloses(a))
                       /\ WF_vars(DeliverySettles(a))
  /\ \A t \in Threads : WF_vars(DrainsAwaited(t) \/ AgentsClosed(t) \/ ThreadDeleted(t))
FairSpec == Spec /\ Fairness

-----------------------------------------------------------------------------
(* Properties.                                                              *)

\* A worker that counts as running has a turn under way, or mail and a drain
\* whose end will start the next turn; an idle one has no mail, a timer and no
\* turn.  (A steer that came in the gap between the end of a drain and its
\* `.finally` would otherwise be taken by nobody.)
WorkHasADrain ==
  \A a \in Agents :
    /\ state[a] = "running" =>
         /\ Open
         /\ \/ drain[a] = "turn"
            \/ drain[a] = "returned" /\ mailbox[a] # {}
    /\ state[a] = "idle" =>
         /\ Open
         /\ mailbox[a] = {} /\ timer[a] /\ drain[a] # "turn"

\* A runner is never closed under its turn: the drain closes it, and whoever
\* cancels a worker closes it only when there is no drain.
NoTurnAfterClose ==
  \A a \in Agents : drain[a] = "turn" => runner[a] = "open"

\* The runner of a worker that ended and has no drain is being closed or is
\* closed, except when the worker was cancelled after its drain returned and
\* before drainPromise was cleared.
RunnersAreClosed ==
  \A a \in Agents :
    state[a] \in Terminal /\ drain[a] = "none" /\ runner[a] = "open" => a \in missed

\* The parent of a worker that rests or failed was sent the initial result: no
\* sequence of pauses for mail lets the launch go unanswered.
RestedMeansReported ==
  \A a \in Agents : state[a] \in {"idle", "failed"} => reported[a]

\* When deleteThread goes on to evict the thread and remove its files, the
\* workers it stopped have no turn, no runner being closed and no delivery to
\* the thread under way, nor ever again.
DeletedThreadIsQuiet ==
  \A t \in Threads : thread[t] \in {"purging", "deleted"} =>
    \A a \in stopped[t] :
      /\ drain[a] = "none"
      /\ runner[a] = "closed" \/ a \in missed
      /\ a \notin delivering

\* A worker that failed, was cancelled or was closed stays so and takes no turn:
\* the end of a turn in progress changes nothing about it.
EndIsFinal ==
  [][\A a \in Agents : state[a] \in Terminal =>
        /\ state'[a] = state[a]
        /\ turns'[a] = turns[a]]_vars

\* A steer that was accepted is taken by a turn, unless the worker ends first.
MailIsTaken ==
  \A a \in Agents, m \in Msgs :
    (m \in mailbox[a]) ~> (m \notin mailbox[a] \/ state[a] \in Terminal)

\* The deletion of a thread that waits for workers comes to its end, whatever
\* the promises it waits for do in which order.
DeletionEnds ==
  \A t \in Threads : (thread[t] = "drains") ~> (thread[t] = "deleted")

\* deleteThread refuses a thread with an active run ("Cannot delete a thread with
\* an active run."), so no run is active on a deleted thread.
DeletedThreadHasNoRun ==
  \A t \in Threads : thread[t] = "deleted" => ~run[t]
=============================================================================
