-------------------------- MODULE Subagents_proof ---------------------------
(***************************************************************************)
(* Proofs about Subagents, for any number of workers, threads and steers   *)
(* and any limits.                                                         *)
(***************************************************************************)
EXTENDS Subagents, FiniteSetTheorems, TLAPS

(* The inductive invariant.  NotYetBorn .. RunnersAreClosedEarly describe one  *)
(* worker; the others say what a deletion still waits for in each of its      *)
(* phases.                                                                    *)
NotYetBorn ==
  \A a \in Agents : state[a] = "unborn" =>
    /\ a \notin agents /\ a \notin delivering
    /\ drain[a] = "none" /\ runner[a] = "open" /\ mailbox[a] = {}

LiveIsOpen ==
  \A a \in Agents : state[a] \in {"running", "idle"} =>
    a \in agents /\ runner[a] = "open"

\* RunnersAreClosed holds as soon as the drain has returned.
RunnersAreClosedEarly ==
  \A a \in Agents :
    state[a] \in Terminal /\ drain[a] # "turn" /\ runner[a] = "open" => a \in missed

\* The workers a deletion found, and those it stopped.
TargetsEnded ==
  \A t \in Threads : stopped[t] \subseteq targets[t]
                     /\ \A a \in targets[t] : state[a] \in Terminal

FirstWait ==
  \A t \in Threads : thread[t] = "drains" =>
    \A a \in stopped[t] : drain[a] # "none" => <<"drain", a>> \in threadWaits[t]

SecondWait ==
  \A t \in Threads : thread[t] = "closes" =>
    \A a \in stopped[t] :
      /\ drain[a] = "none"
      /\ runner[a] = "closing" => <<"close", a>> \in threadWaits[t]
      /\ a \in delivering => <<"deliver", a>> \in threadWaits[t]

IndInv ==
  /\ NotYetBorn /\ LiveIsOpen /\ WorkHasADrain /\ NoTurnAfterClose
  /\ RunnersAreClosedEarly /\ RestedMeansReported
  /\ TargetsEnded /\ FirstWait /\ SecondWait /\ DeletedThreadIsQuiet

-----------------------------------------------------------------------------
(* A mailbox with room has room for one more steer.                           *)
LEMMA RoomForOne ==
  ASSUME NEW S \in SUBSET Msgs, NEW m \in Msgs, Cardinality(S) < MaxMailbox
  PROVE  Cardinality(S \cup {m}) <= MaxMailbox
<1>1. IsFiniteSet(S)
  BY MsgsAssumption, FS_Subset
<1>2. Cardinality(S) \in Nat
  BY <1>1, FS_CardinalityType
<1>3. Cardinality(S \cup {m}) = Cardinality(S) \/ Cardinality(S \cup {m}) = Cardinality(S) + 1
  BY <1>1, FS_AddElement
<1> QED
  BY <1>2, <1>3, LimitsAssumption

(* An emptied mailbox is within the limit.                                    *)
LEMMA EmptyMailbox == Cardinality({}) <= MaxMailbox
BY FS_EmptySet, LimitsAssumption

(* Every step keeps the limit of the mailboxes. *)
LEMMA MailboxStep ==
  ASSUME TypeOK, [Next]_vars
  PROVE  MailboxesFit'
<1> USE DEF Terminal
<1>1. ASSUME NEW a \in Agents, Launch(a) PROVE MailboxesFit'
  BY <1>1, EmptyMailbox DEF TypeOK, MailboxesFit, Launch, TakeTurn, Open, Live,
        Running, vars, recordVars, workVars, managerVars, threadVars
<1>2. ASSUME NEW a \in Agents, NEW m \in Msgs, Send(a, m) PROVE MailboxesFit'
  <2>1. Cardinality(mailbox[a] \cup {m}) <= MaxMailbox
    BY <1>2, RoomForOne DEF TypeOK, Send, HasRoom
  <2>2. mailbox' = [mailbox EXCEPT ![a] = {}] \/ mailbox' = [mailbox EXCEPT ![a] = mailbox[a] \cup {m}]
    BY <1>2 DEF Send, TakeTurn
  <2> QED BY <2>1, <2>2, EmptyMailbox DEF TypeOK, MailboxesFit
<1>3. ASSUME NEW a \in Agents, TurnReports(a) PROVE MailboxesFit'
  <2>1. mailbox' = [mailbox EXCEPT ![a] = {}] \/ mailbox' = mailbox
    BY <1>3 DEF TurnReports, AfterResult, TakeTurn, Rest
  <2> QED BY <2>1, EmptyMailbox DEF TypeOK, MailboxesFit
<1>4. ASSUME NEW a \in Agents, TurnYields(a) PROVE MailboxesFit'
  <2>1. mailbox' = [mailbox EXCEPT ![a] = {}] \/ mailbox' = mailbox
    BY <1>4 DEF TurnYields, AfterResult, TakeTurn, Rest
  <2> QED BY <2>1, EmptyMailbox DEF TypeOK, MailboxesFit
<1>5. ASSUME NEW a \in Agents, DrainCleared(a) PROVE MailboxesFit'
  <2>1. mailbox' = [mailbox EXCEPT ![a] = {}] \/ mailbox' = mailbox
    BY <1>5 DEF DrainCleared, TakeTurn
  <2> QED BY <2>1, EmptyMailbox DEF TypeOK, MailboxesFit
<1>6. CASE UNCHANGED <<mailbox>>
  BY <1>6 DEF TypeOK, MailboxesFit, threadVars
<1> QED BY <1>1, <1>2, <1>3, <1>4, <1>5, <1>6 DEF Next, AgentStep, TurnEnds,
      ThreadStep, Tell, Cancel, CloseIdle, IdleExpires, TurnStopped,
      TurnInterrupted, TurnFails, RunnerCloses, DeliverySettles, CancelRunning,
      RunStarts, RunEnds, DeleteThread, DrainsAwaited, AgentsClosed, ThreadDeleted,
      ServerStops, ManagerCloses, ManagerClosed, vars, recordVars, workVars,
      managerVars, threadVars

(* Every step keeps the types. *)
LEMMA TypeStep ==
  ASSUME TypeOK, [Next]_vars
  PROVE  TypeOK'
<1> USE DEF Terminal
<1>1. ASSUME NEW a \in Agents, Launch(a) PROVE TypeOK'
  BY <1>1, MailboxStep DEF TypeOK, Promises, Launch, TakeTurn, Open, Live, Running,
        vars, recordVars, workVars, managerVars, threadVars
<1>2. ASSUME NEW a \in Agents, NEW m \in Msgs, Send(a, m) PROVE TypeOK'
  <2>1. timer' \in [Agents -> BOOLEAN]
    BY <1>2, Zenon DEF TypeOK, Send
  <2>2. state' \in [Agents -> {"unborn", "running", "idle"} \cup Terminal]
    BY <1>2 DEF TypeOK, Send
  <2>3. turns' \in [Agents -> Nat] /\ drain' \in [Agents -> {"none", "turn", "returned"}]
    BY <1>2 DEF TypeOK, Send, TakeTurn
  <2>4. mailbox' \in [Agents -> SUBSET Msgs] /\ sent' \subseteq Msgs
    BY <1>2 DEF TypeOK, Send, TakeTurn
  <2> QED BY <1>2, <2>1, <2>2, <2>3, <2>4, MailboxStep DEF TypeOK, Send, managerVars, threadVars
<1>3. ASSUME NEW a \in Agents, Tell(a) PROVE TypeOK'
  BY <1>3, MailboxStep DEF TypeOK, Promises, Tell, Open, Live, vars, recordVars,
        workVars, managerVars, threadVars
<1>4. ASSUME NEW a \in Agents, Cancel(a) PROVE TypeOK'
  BY <1>4, MailboxStep DEF TypeOK, Promises, Cancel, CancelRecords,
        StartRunnerClose, WithoutDrain, Open, Live, vars, recordVars, workVars,
        managerVars, threadVars
<1>5. ASSUME NEW a \in Agents, CloseIdle(a) PROVE TypeOK'
  BY <1>5, MailboxStep DEF TypeOK, Promises, CloseIdle, CloseIdleRecords,
        StartRunnerClose, vars, recordVars, workVars, managerVars, threadVars
<1>6. ASSUME NEW a \in Agents, IdleExpires(a) PROVE TypeOK'
  <2>1. runner' \in [Agents -> {"open", "closing", "closed"}]
    BY <1>6 DEF TypeOK, IdleExpires, StartRunnerClose, CloseIdleRecords
  <2>2. timer' \in [Agents -> BOOLEAN]
    <3>1. CASE timer' = [b \in Agents |-> timer[b] /\ b \notin {a}]
      BY <3>1, Zenon DEF TypeOK
    <3>2. CASE timer' = [timer EXCEPT ![a] = FALSE]
      BY <3>2, Zenon DEF TypeOK
    <3> QED BY <1>6, <3>1, <3>2 DEF IdleExpires, CloseIdleRecords
  <2>3. state' \in [Agents -> {"unborn", "running", "idle"} \cup Terminal]
    BY <1>6 DEF TypeOK, IdleExpires, StartRunnerClose, CloseIdleRecords
  <2> QED BY <1>6, <2>1, <2>2, <2>3, MailboxStep DEF TypeOK, IdleExpires, managerVars, threadVars
<1>7. ASSUME NEW a \in Agents, TurnStopped(a) PROVE TypeOK'
  BY <1>7, MailboxStep DEF TypeOK, Promises, TurnStopped, StartRunnerClose, Open,
        vars, recordVars, workVars, managerVars, threadVars
<1>8. ASSUME NEW a \in Agents, TurnReports(a) PROVE TypeOK'
  <2>1. turns' \in [Agents -> Nat]
    BY <1>8 DEF TypeOK, TurnReports, AfterResult, TakeTurn, Rest
  <2>2. /\ state' \in [Agents -> {"unborn", "running", "idle"} \cup Terminal]
        /\ drain' \in [Agents -> {"none", "turn", "returned"}]
    BY <1>8 DEF TypeOK, TurnReports, AfterResult, TakeTurn, Rest
  <2>3. mailbox' \in [Agents -> SUBSET Msgs]
    BY <1>8 DEF TypeOK, TurnReports, AfterResult, TakeTurn, Rest
  <2>4. timer' \in [Agents -> BOOLEAN] /\ reported' \in [Agents -> BOOLEAN]
    BY <1>8, Zenon DEF TypeOK, TurnReports, AfterResult, TakeTurn, Rest
  <2>5. runner' \in [Agents -> {"open", "closing", "closed"}] /\ delivering' \subseteq Agents
    BY <1>8 DEF TypeOK, TurnReports, AfterResult, TakeTurn, Rest, StartRunnerClose
  <2> QED BY <1>8, <2>1, <2>2, <2>3, <2>4, <2>5, MailboxStep
          DEF TypeOK, TurnReports, managerVars, threadVars
<1>9. ASSUME NEW a \in Agents, TurnYields(a) PROVE TypeOK'
  <2>1. turns' \in [Agents -> Nat]
    BY <1>9 DEF TypeOK, TurnYields, AfterResult, TakeTurn, Rest
  <2>2. /\ state' \in [Agents -> {"unborn", "running", "idle"} \cup Terminal]
        /\ drain' \in [Agents -> {"none", "turn", "returned"}]
    BY <1>9 DEF TypeOK, TurnYields, AfterResult, TakeTurn, Rest
  <2>3. mailbox' \in [Agents -> SUBSET Msgs]
    BY <1>9 DEF TypeOK, TurnYields, AfterResult, TakeTurn, Rest
  <2>4. timer' \in [Agents -> BOOLEAN] /\ reported' \in [Agents -> BOOLEAN]
    BY <1>9, Zenon DEF TypeOK, TurnYields, AfterResult, TakeTurn, Rest
  <2>5. runner' \in [Agents -> {"open", "closing", "closed"}] /\ delivering' \subseteq Agents
    BY <1>9 DEF TypeOK, TurnYields, AfterResult, TakeTurn, Rest, StartRunnerClose
  <2> QED BY <1>9, <2>1, <2>2, <2>3, <2>4, <2>5, MailboxStep
          DEF TypeOK, TurnYields, managerVars, threadVars
<1>10. ASSUME NEW a \in Agents, TurnInterrupted(a) PROVE TypeOK'
  BY <1>10, MailboxStep DEF TypeOK, Promises, TurnInterrupted, Rest, Open, vars,
        recordVars, workVars, managerVars, threadVars
<1>11. ASSUME NEW a \in Agents, TurnFails(a) PROVE TypeOK'
  BY <1>11, MailboxStep DEF TypeOK, Promises, TurnFails, StartRunnerClose, Open,
        vars, recordVars, workVars, managerVars, threadVars
<1>12. ASSUME NEW a \in Agents, DrainCleared(a) PROVE TypeOK'
  <2>1. drain' \in [Agents -> {"none", "turn", "returned"}]
    BY <1>12 DEF TypeOK, DrainCleared, TakeTurn
  <2>2. turns' \in [Agents -> Nat] /\ mailbox' \in [Agents -> SUBSET Msgs]
    BY <1>12 DEF TypeOK, DrainCleared, TakeTurn
  <2>3. managerWaits' \subseteq Promises /\ threadWaits' \in [Threads -> SUBSET Promises]
    BY <1>12 DEF TypeOK, DrainCleared, Settle
  <2> QED BY <1>12, <2>1, <2>2, <2>3, MailboxStep DEF TypeOK, DrainCleared
<1>13. ASSUME NEW a \in Agents, RunnerCloses(a) PROVE TypeOK'
  BY <1>13, MailboxStep DEF TypeOK, Promises, RunnerCloses, Settle, vars,
        recordVars, workVars, managerVars, threadVars
<1>14. ASSUME NEW a \in Agents, DeliverySettles(a) PROVE TypeOK'
  BY <1>14, MailboxStep DEF TypeOK, Promises, DeliverySettles, Settle, vars,
        recordVars, workVars, managerVars, threadVars
<1>15. ASSUME NEW t \in Threads, CancelRunning(t) PROVE TypeOK'
  <2>0. timer' \in [Agents -> BOOLEAN]
    BY <1>15, Zenon DEF TypeOK, CancelRunning, CancelRecords
  <2>1. reported' \in [Agents -> BOOLEAN]
    BY <1>15, Zenon DEF TypeOK, CancelRunning, CancelRecords
  <2>2. state' \in [Agents -> {"unborn", "running", "idle"} \cup Terminal]
    BY <1>15 DEF TypeOK, CancelRunning, CancelRecords
  <2>3. runner' \in [Agents -> {"open", "closing", "closed"}]
    BY <1>15 DEF TypeOK, CancelRunning, StartRunnerClose
  <2>4. missed' \subseteq Agents /\ delivering' \subseteq Agents
    BY <1>15 DEF TypeOK, CancelRunning, CancelRecords
  <2> QED BY <1>15, <2>0, <2>1, <2>2, <2>3, <2>4, MailboxStep
          DEF TypeOK, CancelRunning, managerVars, threadVars
<1>16. ASSUME NEW t \in Threads, RunStarts(t) PROVE TypeOK'
  BY <1>16, MailboxStep DEF TypeOK, Promises, RunStarts, vars, recordVars, workVars,
        managerVars, threadVars
<1>17. ASSUME NEW t \in Threads, RunEnds(t) PROVE TypeOK'
  BY <1>17, MailboxStep DEF TypeOK, Promises, RunEnds, vars, recordVars, workVars,
        managerVars, threadVars
<1>18. ASSUME NEW t \in Threads, DeleteThread(t) PROVE TypeOK'
  BY <1>18, MailboxStep, ThreadOfAssumption DEF TypeOK, Promises, DeleteThread,
        StartRunnerClose, WithoutDrain, Live, DrainOf, CloseOf, vars, recordVars,
        workVars, managerVars, threadVars
<1>19. ASSUME NEW t \in Threads, DrainsAwaited(t) PROVE TypeOK'
  BY <1>19, MailboxStep DEF TypeOK, Promises, DrainsAwaited, CloseOf, DeliveryOf,
        vars, recordVars, workVars, managerVars, threadVars
<1>20. ASSUME NEW t \in Threads, AgentsClosed(t) PROVE TypeOK'
  BY <1>20, MailboxStep DEF TypeOK, Promises, AgentsClosed, vars, recordVars,
        workVars, managerVars, threadVars
<1>21. ASSUME NEW t \in Threads, ThreadDeleted(t) PROVE TypeOK'
  BY <1>21, MailboxStep DEF TypeOK, Promises, ThreadDeleted, vars, recordVars,
        workVars, managerVars, threadVars
<1>22. CASE ServerStops
  BY <1>22, MailboxStep DEF TypeOK, Promises, ServerStops, vars, recordVars,
        workVars, managerVars, threadVars
<1>23. CASE ManagerCloses
  BY <1>23, MailboxStep DEF TypeOK, Promises, ManagerCloses, StartRunnerClose,
        Running, DrainOf, CloseOf, DeliveryOf, vars, recordVars, workVars,
        managerVars, threadVars
<1>24. CASE ManagerClosed
  BY <1>24, MailboxStep DEF TypeOK, Promises, ManagerClosed, vars, recordVars,
        workVars, managerVars, threadVars
<1>25. CASE UNCHANGED vars
  BY <1>25, MailboxStep DEF TypeOK, Promises, vars, recordVars, workVars, managerVars, threadVars
<1> QED BY <1>1, <1>2, <1>3, <1>4, <1>5, <1>6, <1>7, <1>8, <1>9, <1>10, <1>11,
      <1>12, <1>13, <1>14, <1>15, <1>16, <1>17, <1>18, <1>19, <1>20, <1>21, <1>22,
      <1>23, <1>24, <1>25 DEF Next, AgentStep, TurnEnds, ThreadStep

(* Nothing happens to a worker before its launch. *)
LEMMA NotYetBornStep ==
  ASSUME TypeOK, NotYetBorn, WorkHasADrain, TargetsEnded, [Next]_vars
  PROVE  NotYetBorn'
<1> USE DEF Terminal
<1>1. ASSUME NEW a \in Agents, Launch(a) PROVE NotYetBorn'
  BY <1>1 DEF TypeOK, NotYetBorn, TargetsEnded, Launch, TakeTurn, Open, Live,
        Running, vars, recordVars, workVars, managerVars, threadVars
<1>2. ASSUME NEW a \in Agents, NEW m \in Msgs, Send(a, m) PROVE NotYetBorn'
  BY <1>2 DEF TypeOK, NotYetBorn, TargetsEnded, Send, HasRoom, TakeTurn, Open, Live,
        vars, recordVars, workVars, managerVars, threadVars
<1>3. ASSUME NEW a \in Agents, Tell(a) PROVE NotYetBorn'
  BY <1>3 DEF TypeOK, NotYetBorn, TargetsEnded, Tell, Open, Live, vars, recordVars,
        workVars, managerVars, threadVars
<1>4. ASSUME NEW a \in Agents, Cancel(a) PROVE NotYetBorn'
  BY <1>4 DEF TypeOK, NotYetBorn, TargetsEnded, Cancel, CancelRecords,
        StartRunnerClose, WithoutDrain, Open, Live, vars, recordVars, workVars,
        managerVars, threadVars
<1>5. ASSUME NEW a \in Agents, CloseIdle(a) PROVE NotYetBorn'
  BY <1>5 DEF TypeOK, NotYetBorn, TargetsEnded, CloseIdle, CloseIdleRecords,
        StartRunnerClose, vars, recordVars, workVars, managerVars, threadVars
<1>6. ASSUME NEW a \in Agents, IdleExpires(a) PROVE NotYetBorn'
  BY <1>6 DEF TypeOK, NotYetBorn, TargetsEnded, IdleExpires, CloseIdleRecords,
        StartRunnerClose, Open, vars, recordVars, workVars, managerVars, threadVars
<1>7. ASSUME NEW a \in Agents, TurnStopped(a) PROVE NotYetBorn'
  BY <1>7 DEF TypeOK, NotYetBorn, TargetsEnded, TurnStopped, StartRunnerClose, Open,
        vars, recordVars, workVars, managerVars, threadVars
<1>8. ASSUME NEW a \in Agents, TurnReports(a) PROVE NotYetBorn'
  BY <1>8 DEF TypeOK, NotYetBorn, TargetsEnded, TurnReports, AfterResult, TakeTurn,
        Rest, StartRunnerClose, Open, vars, recordVars, workVars, managerVars,
        threadVars
<1>9. ASSUME NEW a \in Agents, TurnYields(a) PROVE NotYetBorn'
  BY <1>9 DEF TypeOK, NotYetBorn, TargetsEnded, TurnYields, AfterResult, TakeTurn,
        Rest, StartRunnerClose, Open, vars, recordVars, workVars, managerVars,
        threadVars
<1>10. ASSUME NEW a \in Agents, TurnInterrupted(a) PROVE NotYetBorn'
  BY <1>10 DEF TypeOK, NotYetBorn, TargetsEnded, TurnInterrupted, Rest, Open, vars,
        recordVars, workVars, managerVars, threadVars
<1>11. ASSUME NEW a \in Agents, TurnFails(a) PROVE NotYetBorn'
  BY <1>11 DEF TypeOK, NotYetBorn, TargetsEnded, TurnFails, StartRunnerClose, Open,
        vars, recordVars, workVars, managerVars, threadVars
<1>12. ASSUME NEW a \in Agents, DrainCleared(a) PROVE NotYetBorn'
  BY <1>12 DEF TypeOK, NotYetBorn, TargetsEnded, DrainCleared, TakeTurn, Settle,
        Open, vars, recordVars, workVars, managerVars, threadVars
<1>13. ASSUME NEW a \in Agents, RunnerCloses(a) PROVE NotYetBorn'
  BY <1>13 DEF TypeOK, NotYetBorn, TargetsEnded, RunnerCloses, Settle, vars,
        recordVars, workVars, managerVars, threadVars
<1>14. ASSUME NEW a \in Agents, DeliverySettles(a) PROVE NotYetBorn'
  BY <1>14 DEF TypeOK, NotYetBorn, TargetsEnded, DeliverySettles, Settle, vars,
        recordVars, workVars, managerVars, threadVars
<1>15. ASSUME NEW t \in Threads, CancelRunning(t) PROVE NotYetBorn'
  BY <1>15 DEF TypeOK, NotYetBorn, TargetsEnded, CancelRunning, CancelRecords,
        StartRunnerClose, WithoutDrain, Open, Running, vars, recordVars, workVars,
        managerVars, threadVars
<1>16. ASSUME NEW t \in Threads, DeleteThread(t) PROVE NotYetBorn'
  BY <1>16 DEF TypeOK, NotYetBorn, TargetsEnded, DeleteThread, StartRunnerClose,
        WithoutDrain, Live, DrainOf, CloseOf, vars, recordVars, workVars,
        managerVars, threadVars
<1>17. ASSUME NEW t \in Threads, AgentsClosed(t) PROVE NotYetBorn'
  BY <1>17 DEF TypeOK, NotYetBorn, TargetsEnded, AgentsClosed, vars, recordVars,
        workVars, managerVars, threadVars
<1>18. CASE ManagerCloses
  BY <1>18 DEF TypeOK, NotYetBorn, TargetsEnded, ManagerCloses, StartRunnerClose,
        Running, DrainOf, CloseOf, DeliveryOf, vars, recordVars, workVars,
        managerVars, threadVars
<1>19. CASE ManagerClosed
  BY <1>19 DEF TypeOK, NotYetBorn, TargetsEnded, ManagerClosed, vars, recordVars,
        workVars, managerVars, threadVars
<1>20. CASE UNCHANGED <<state, agents, drain, runner, mailbox, delivering>>
  BY <1>20 DEF TypeOK, NotYetBorn, TargetsEnded, threadVars
<1> QED BY <1>1, <1>2, <1>3, <1>4, <1>5, <1>6, <1>7, <1>8, <1>9, <1>10, <1>11,
      <1>12, <1>13, <1>14, <1>15, <1>16, <1>17, <1>18, <1>19, <1>20 DEF Next,
      AgentStep, TurnEnds, ThreadStep, RunStarts, RunEnds, DrainsAwaited,
      ThreadDeleted, ServerStops, vars, recordVars, workVars, managerVars,
      threadVars

(* A live worker is in the map and its runner is open. *)
LEMMA LiveIsOpenStep ==
  ASSUME TypeOK, NotYetBorn, LiveIsOpen, WorkHasADrain, TargetsEnded, NoTurnAfterClose, [Next]_vars
  PROVE  LiveIsOpen'
<1> USE DEF Terminal
<1>1. ASSUME NEW a \in Agents, Launch(a) PROVE LiveIsOpen'
  BY <1>1 DEF TypeOK, NotYetBorn, LiveIsOpen, WorkHasADrain, TargetsEnded,
        NoTurnAfterClose, Open, Launch, TakeTurn, Open, Live, Running, vars,
        recordVars, workVars, managerVars, threadVars
<1>2. ASSUME NEW a \in Agents, NEW m \in Msgs, Send(a, m) PROVE LiveIsOpen'
  BY <1>2 DEF TypeOK, NotYetBorn, LiveIsOpen, WorkHasADrain, TargetsEnded,
        NoTurnAfterClose, Open, Send, HasRoom, TakeTurn, Open, Live, vars,
        recordVars, workVars, managerVars, threadVars
<1>3. ASSUME NEW a \in Agents, Cancel(a) PROVE LiveIsOpen'
  BY <1>3 DEF TypeOK, NotYetBorn, LiveIsOpen, WorkHasADrain, TargetsEnded,
        NoTurnAfterClose, Open, Cancel, CancelRecords, StartRunnerClose,
        WithoutDrain, Open, Live, vars, recordVars, workVars, managerVars,
        threadVars
<1>4. ASSUME NEW a \in Agents, CloseIdle(a) PROVE LiveIsOpen'
  BY <1>4 DEF TypeOK, NotYetBorn, LiveIsOpen, WorkHasADrain, TargetsEnded,
        NoTurnAfterClose, Open, CloseIdle, CloseIdleRecords, StartRunnerClose, vars,
        recordVars, workVars, managerVars, threadVars
<1>5. ASSUME NEW a \in Agents, IdleExpires(a) PROVE LiveIsOpen'
  BY <1>5 DEF TypeOK, NotYetBorn, LiveIsOpen, WorkHasADrain, TargetsEnded,
        NoTurnAfterClose, Open, IdleExpires, CloseIdleRecords, StartRunnerClose,
        Open, vars, recordVars, workVars, managerVars, threadVars
<1>6. ASSUME NEW a \in Agents, TurnStopped(a) PROVE LiveIsOpen'
  BY <1>6 DEF TypeOK, NotYetBorn, LiveIsOpen, WorkHasADrain, TargetsEnded,
        NoTurnAfterClose, Open, TurnStopped, StartRunnerClose, Open, vars,
        recordVars, workVars, managerVars, threadVars
<1>7. ASSUME NEW a \in Agents, TurnReports(a) PROVE LiveIsOpen'
  BY <1>7 DEF TypeOK, NotYetBorn, LiveIsOpen, WorkHasADrain, TargetsEnded,
        NoTurnAfterClose, Open, TurnReports, AfterResult, TakeTurn, Rest,
        StartRunnerClose, Open, vars, recordVars, workVars, managerVars, threadVars
<1>8. ASSUME NEW a \in Agents, TurnYields(a) PROVE LiveIsOpen'
  BY <1>8 DEF TypeOK, NotYetBorn, LiveIsOpen, WorkHasADrain, TargetsEnded,
        NoTurnAfterClose, Open, TurnYields, AfterResult, TakeTurn, Rest,
        StartRunnerClose, Open, vars, recordVars, workVars, managerVars, threadVars
<1>9. ASSUME NEW a \in Agents, TurnInterrupted(a) PROVE LiveIsOpen'
  BY <1>9 DEF TypeOK, NotYetBorn, LiveIsOpen, WorkHasADrain, TargetsEnded,
        NoTurnAfterClose, Open, TurnInterrupted, Rest, Open, vars, recordVars,
        workVars, managerVars, threadVars
<1>10. ASSUME NEW a \in Agents, TurnFails(a) PROVE LiveIsOpen'
  BY <1>10 DEF TypeOK, NotYetBorn, LiveIsOpen, WorkHasADrain, TargetsEnded,
        NoTurnAfterClose, Open, TurnFails, StartRunnerClose, Open, vars, recordVars,
        workVars, managerVars, threadVars
<1>11. ASSUME NEW a \in Agents, RunnerCloses(a) PROVE LiveIsOpen'
  BY <1>11 DEF TypeOK, NotYetBorn, LiveIsOpen, WorkHasADrain, TargetsEnded,
        NoTurnAfterClose, Open, RunnerCloses, Settle, vars, recordVars, workVars,
        managerVars, threadVars
<1>12. ASSUME NEW t \in Threads, CancelRunning(t) PROVE LiveIsOpen'
  BY <1>12 DEF TypeOK, NotYetBorn, LiveIsOpen, WorkHasADrain, TargetsEnded,
        NoTurnAfterClose, Open, CancelRunning, CancelRecords, StartRunnerClose,
        WithoutDrain, Open, Running, vars, recordVars, workVars, managerVars,
        threadVars
<1>13. ASSUME NEW t \in Threads, DeleteThread(t) PROVE LiveIsOpen'
  BY <1>13 DEF TypeOK, NotYetBorn, LiveIsOpen, WorkHasADrain, TargetsEnded,
        NoTurnAfterClose, Open, DeleteThread, StartRunnerClose, WithoutDrain, Live,
        DrainOf, CloseOf, vars, recordVars, workVars, managerVars, threadVars
<1>14. ASSUME NEW t \in Threads, AgentsClosed(t) PROVE LiveIsOpen'
  BY <1>14 DEF TypeOK, NotYetBorn, LiveIsOpen, WorkHasADrain, TargetsEnded,
        NoTurnAfterClose, Open, AgentsClosed, vars, recordVars, workVars,
        managerVars, threadVars
<1>15. CASE ManagerCloses
  BY <1>15 DEF TypeOK, NotYetBorn, LiveIsOpen, WorkHasADrain, TargetsEnded,
        NoTurnAfterClose, Open, ManagerCloses, StartRunnerClose, Running, DrainOf,
        CloseOf, DeliveryOf, vars, recordVars, workVars, managerVars, threadVars
<1>16. CASE ManagerClosed
  BY <1>16 DEF TypeOK, NotYetBorn, LiveIsOpen, WorkHasADrain, TargetsEnded,
        NoTurnAfterClose, Open, ManagerClosed, vars, recordVars, workVars,
        managerVars, threadVars
<1>17. CASE UNCHANGED <<state, agents, runner>>
  BY <1>17 DEF TypeOK, NotYetBorn, LiveIsOpen, WorkHasADrain, TargetsEnded,
        NoTurnAfterClose, Open, threadVars
<1> QED BY <1>1, <1>2, <1>3, <1>4, <1>5, <1>6, <1>7, <1>8, <1>9, <1>10, <1>11,
      <1>12, <1>13, <1>14, <1>15, <1>16, <1>17 DEF Next, AgentStep, TurnEnds,
      ThreadStep, Tell, DrainCleared, DeliverySettles, RunStarts, RunEnds,
      DrainsAwaited, ThreadDeleted, ServerStops, vars, recordVars, workVars,
      managerVars, threadVars

(* The end of a drain and a steer that comes before its `.finally`. *)
LEMMA WorkStep ==
  ASSUME TypeOK, NotYetBorn, LiveIsOpen, WorkHasADrain, [Next]_vars
  PROVE  WorkHasADrain'
<1> USE DEF Terminal
<1>1. ASSUME NEW a \in Agents, Launch(a) PROVE WorkHasADrain'
  BY <1>1 DEF TypeOK, NotYetBorn, LiveIsOpen, WorkHasADrain, Open, Launch, TakeTurn,
        Open, Live, Running, vars, recordVars, workVars, managerVars, threadVars
<1>2. ASSUME NEW a \in Agents, NEW m \in Msgs, Send(a, m) PROVE WorkHasADrain'
  <2> SUFFICES ASSUME NEW b \in Agents
               PROVE  /\ state'[b] = "running" =>
                            /\ Open
                            /\ \/ drain'[b] = "turn"
                               \/ drain'[b] = "returned" /\ mailbox'[b] # {}
                      /\ state'[b] = "idle" =>
                            /\ Open
                            /\ mailbox'[b] = {} /\ timer'[b] /\ drain'[b] # "turn"
    BY <1>2 DEF WorkHasADrain, Open, Send, managerVars
  <2>1. CASE b # a
    BY <1>2, <2>1 DEF TypeOK, WorkHasADrain, Send, TakeTurn
  <2>2. CASE b = a /\ state[a] = "idle" /\ drain[a] = "none"
    BY <1>2, <2>2 DEF TypeOK, Send, TakeTurn
  <2>3. CASE b = a /\ state[a] = "idle" /\ drain[a] # "none"
    <3>1. drain'[a] = "returned" /\ Open
      BY <1>2, <2>3 DEF TypeOK, WorkHasADrain, Send
    <3>2. m \in mailbox'[a] /\ state'[a] = "running"
      BY <1>2, <2>3 DEF TypeOK, Send
    <3> QED BY <2>3, <3>1, <3>2
  <2>4. CASE b = a /\ state[a] # "idle"
    BY <1>2, <2>4 DEF TypeOK, WorkHasADrain, Send, Live
  <2> QED BY <2>1, <2>2, <2>3, <2>4
<1>3. ASSUME NEW a \in Agents, Cancel(a) PROVE WorkHasADrain'
  BY <1>3 DEF TypeOK, NotYetBorn, LiveIsOpen, WorkHasADrain, Open, Cancel,
        CancelRecords, StartRunnerClose, WithoutDrain, Open, Live, vars, recordVars,
        workVars, managerVars, threadVars
<1>4. ASSUME NEW a \in Agents, CloseIdle(a) PROVE WorkHasADrain'
  BY <1>4 DEF TypeOK, NotYetBorn, LiveIsOpen, WorkHasADrain, Open, CloseIdle,
        CloseIdleRecords, StartRunnerClose, vars, recordVars, workVars, managerVars,
        threadVars
<1>5. ASSUME NEW a \in Agents, IdleExpires(a) PROVE WorkHasADrain'
  BY <1>5 DEF TypeOK, NotYetBorn, LiveIsOpen, WorkHasADrain, Open, IdleExpires,
        CloseIdleRecords, StartRunnerClose, Open, vars, recordVars, workVars,
        managerVars, threadVars
<1>6. ASSUME NEW a \in Agents, TurnStopped(a) PROVE WorkHasADrain'
  BY <1>6 DEF TypeOK, NotYetBorn, LiveIsOpen, WorkHasADrain, Open, TurnStopped,
        StartRunnerClose, Open, vars, recordVars, workVars, managerVars, threadVars
<1>7. ASSUME NEW a \in Agents, TurnReports(a) PROVE WorkHasADrain'
  BY <1>7 DEF TypeOK, NotYetBorn, LiveIsOpen, WorkHasADrain, Open, TurnReports,
        AfterResult, TakeTurn, Rest, StartRunnerClose, Open, vars, recordVars,
        workVars, managerVars, threadVars
<1>8. ASSUME NEW a \in Agents, TurnYields(a) PROVE WorkHasADrain'
  BY <1>8 DEF TypeOK, NotYetBorn, LiveIsOpen, WorkHasADrain, Open, TurnYields,
        AfterResult, TakeTurn, Rest, StartRunnerClose, Open, vars, recordVars,
        workVars, managerVars, threadVars
<1>9. ASSUME NEW a \in Agents, TurnInterrupted(a) PROVE WorkHasADrain'
  BY <1>9 DEF TypeOK, NotYetBorn, LiveIsOpen, WorkHasADrain, Open, TurnInterrupted,
        Rest, Open, vars, recordVars, workVars, managerVars, threadVars
<1>10. ASSUME NEW a \in Agents, TurnFails(a) PROVE WorkHasADrain'
  BY <1>10 DEF TypeOK, NotYetBorn, LiveIsOpen, WorkHasADrain, Open, TurnFails,
        StartRunnerClose, Open, vars, recordVars, workVars, managerVars, threadVars
<1>11. ASSUME NEW a \in Agents, DrainCleared(a) PROVE WorkHasADrain'
  BY <1>11 DEF TypeOK, NotYetBorn, LiveIsOpen, WorkHasADrain, Open, DrainCleared,
        TakeTurn, Settle, Open, vars, recordVars, workVars, managerVars, threadVars
<1>12. ASSUME NEW t \in Threads, CancelRunning(t) PROVE WorkHasADrain'
  BY <1>12 DEF TypeOK, NotYetBorn, LiveIsOpen, WorkHasADrain, Open, CancelRunning,
        CancelRecords, StartRunnerClose, WithoutDrain, Open, Running, vars,
        recordVars, workVars, managerVars, threadVars
<1>13. ASSUME NEW t \in Threads, DeleteThread(t) PROVE WorkHasADrain'
  BY <1>13 DEF TypeOK, NotYetBorn, LiveIsOpen, WorkHasADrain, Open, DeleteThread,
        StartRunnerClose, WithoutDrain, Live, DrainOf, CloseOf, vars, recordVars,
        workVars, managerVars, threadVars
<1>14. CASE ServerStops
  BY <1>14 DEF TypeOK, NotYetBorn, LiveIsOpen, WorkHasADrain, Open, ServerStops,
        vars, recordVars, workVars, managerVars, threadVars
<1>15. CASE ManagerCloses
  BY <1>15 DEF TypeOK, NotYetBorn, LiveIsOpen, WorkHasADrain, Open, ManagerCloses,
        StartRunnerClose, Running, DrainOf, CloseOf, DeliveryOf, vars, recordVars,
        workVars, managerVars, threadVars
<1>16. CASE ManagerClosed
  BY <1>16 DEF TypeOK, NotYetBorn, LiveIsOpen, WorkHasADrain, Open, ManagerClosed,
        vars, recordVars, workVars, managerVars, threadVars
<1>17. CASE UNCHANGED <<state, manager, drain, mailbox, timer>>
  BY <1>17 DEF TypeOK, NotYetBorn, LiveIsOpen, WorkHasADrain, Open, threadVars
<1> QED BY <1>1, <1>2, <1>3, <1>4, <1>5, <1>6, <1>7, <1>8, <1>9, <1>10, <1>11,
      <1>12, <1>13, <1>14, <1>15, <1>16, <1>17 DEF Next, AgentStep, TurnEnds,
      ThreadStep, Tell, RunnerCloses, DeliverySettles, RunStarts, RunEnds,
      DrainsAwaited, AgentsClosed, ThreadDeleted, vars, recordVars, workVars,
      managerVars, threadVars

(* Who closes a runner, and when. *)
LEMMA NoTurnStep ==
  ASSUME TypeOK, NotYetBorn, LiveIsOpen, WorkHasADrain, NoTurnAfterClose, [Next]_vars
  PROVE  NoTurnAfterClose'
<1> USE DEF Terminal
<1>1. ASSUME NEW a \in Agents, Launch(a) PROVE NoTurnAfterClose'
  BY <1>1 DEF TypeOK, NotYetBorn, LiveIsOpen, WorkHasADrain, NoTurnAfterClose, Open,
        Launch, TakeTurn, Open, Live, Running, vars, recordVars, workVars,
        managerVars, threadVars
<1>2. ASSUME NEW a \in Agents, NEW m \in Msgs, Send(a, m) PROVE NoTurnAfterClose'
  BY <1>2 DEF TypeOK, NotYetBorn, LiveIsOpen, WorkHasADrain, NoTurnAfterClose, Open,
        Send, HasRoom, TakeTurn, Open, Live, vars, recordVars, workVars,
        managerVars, threadVars
<1>3. ASSUME NEW a \in Agents, Cancel(a) PROVE NoTurnAfterClose'
  BY <1>3 DEF TypeOK, NotYetBorn, LiveIsOpen, WorkHasADrain, NoTurnAfterClose, Open,
        Cancel, CancelRecords, StartRunnerClose, WithoutDrain, Open, Live, vars,
        recordVars, workVars, managerVars, threadVars
<1>4. ASSUME NEW a \in Agents, CloseIdle(a) PROVE NoTurnAfterClose'
  BY <1>4 DEF TypeOK, NotYetBorn, LiveIsOpen, WorkHasADrain, NoTurnAfterClose, Open,
        CloseIdle, CloseIdleRecords, StartRunnerClose, vars, recordVars, workVars,
        managerVars, threadVars
<1>5. ASSUME NEW a \in Agents, IdleExpires(a) PROVE NoTurnAfterClose'
  BY <1>5 DEF TypeOK, NotYetBorn, LiveIsOpen, WorkHasADrain, NoTurnAfterClose, Open,
        IdleExpires, CloseIdleRecords, StartRunnerClose, Open, vars, recordVars,
        workVars, managerVars, threadVars
<1>6. ASSUME NEW a \in Agents, TurnStopped(a) PROVE NoTurnAfterClose'
  BY <1>6 DEF TypeOK, NotYetBorn, LiveIsOpen, WorkHasADrain, NoTurnAfterClose, Open,
        TurnStopped, StartRunnerClose, Open, vars, recordVars, workVars,
        managerVars, threadVars
<1>7. ASSUME NEW a \in Agents, TurnReports(a) PROVE NoTurnAfterClose'
  BY <1>7 DEF TypeOK, NotYetBorn, LiveIsOpen, WorkHasADrain, NoTurnAfterClose, Open,
        TurnReports, AfterResult, TakeTurn, Rest, StartRunnerClose, Open, vars,
        recordVars, workVars, managerVars, threadVars
<1>8. ASSUME NEW a \in Agents, TurnYields(a) PROVE NoTurnAfterClose'
  BY <1>8 DEF TypeOK, NotYetBorn, LiveIsOpen, WorkHasADrain, NoTurnAfterClose, Open,
        TurnYields, AfterResult, TakeTurn, Rest, StartRunnerClose, Open, vars,
        recordVars, workVars, managerVars, threadVars
<1>9. ASSUME NEW a \in Agents, TurnInterrupted(a) PROVE NoTurnAfterClose'
  BY <1>9 DEF TypeOK, NotYetBorn, LiveIsOpen, WorkHasADrain, NoTurnAfterClose, Open,
        TurnInterrupted, Rest, Open, vars, recordVars, workVars, managerVars,
        threadVars
<1>10. ASSUME NEW a \in Agents, TurnFails(a) PROVE NoTurnAfterClose'
  BY <1>10 DEF TypeOK, NotYetBorn, LiveIsOpen, WorkHasADrain, NoTurnAfterClose,
        Open, TurnFails, StartRunnerClose, Open, vars, recordVars, workVars,
        managerVars, threadVars
<1>11. ASSUME NEW a \in Agents, DrainCleared(a) PROVE NoTurnAfterClose'
  BY <1>11 DEF TypeOK, NotYetBorn, LiveIsOpen, WorkHasADrain, NoTurnAfterClose,
        Open, DrainCleared, TakeTurn, Settle, Open, vars, recordVars, workVars,
        managerVars, threadVars
<1>12. ASSUME NEW a \in Agents, RunnerCloses(a) PROVE NoTurnAfterClose'
  BY <1>12 DEF TypeOK, NotYetBorn, LiveIsOpen, WorkHasADrain, NoTurnAfterClose,
        Open, RunnerCloses, Settle, vars, recordVars, workVars, managerVars,
        threadVars
<1>13. ASSUME NEW t \in Threads, CancelRunning(t) PROVE NoTurnAfterClose'
  BY <1>13 DEF TypeOK, NotYetBorn, LiveIsOpen, WorkHasADrain, NoTurnAfterClose,
        Open, CancelRunning, CancelRecords, StartRunnerClose, WithoutDrain, Open,
        Running, vars, recordVars, workVars, managerVars, threadVars
<1>14. ASSUME NEW t \in Threads, DeleteThread(t) PROVE NoTurnAfterClose'
  BY <1>14 DEF TypeOK, NotYetBorn, LiveIsOpen, WorkHasADrain, NoTurnAfterClose,
        Open, DeleteThread, StartRunnerClose, WithoutDrain, Live, DrainOf, CloseOf,
        vars, recordVars, workVars, managerVars, threadVars
<1>15. CASE ManagerCloses
  BY <1>15 DEF TypeOK, NotYetBorn, LiveIsOpen, WorkHasADrain, NoTurnAfterClose,
        Open, ManagerCloses, StartRunnerClose, Running, DrainOf, CloseOf,
        DeliveryOf, vars, recordVars, workVars, managerVars, threadVars
<1>16. CASE UNCHANGED <<drain, runner>>
  BY <1>16 DEF TypeOK, NotYetBorn, LiveIsOpen, WorkHasADrain, NoTurnAfterClose,
        Open, threadVars
<1> QED BY <1>1, <1>2, <1>3, <1>4, <1>5, <1>6, <1>7, <1>8, <1>9, <1>10, <1>11,
      <1>12, <1>13, <1>14, <1>15, <1>16 DEF Next, AgentStep, TurnEnds, ThreadStep,
      Tell, DeliverySettles, RunStarts, RunEnds, DrainsAwaited, AgentsClosed,
      ThreadDeleted, ServerStops, ManagerClosed, vars, recordVars, workVars,
      managerVars, threadVars

(* A worker that ends outside its turn has its runner closed. *)
LEMMA ClosedStep ==
  ASSUME TypeOK, NotYetBorn, LiveIsOpen, WorkHasADrain, RunnersAreClosedEarly, [Next]_vars
  PROVE  RunnersAreClosedEarly'
<1> USE DEF Terminal
<1>1. ASSUME NEW a \in Agents, Launch(a) PROVE RunnersAreClosedEarly'
  BY <1>1 DEF TypeOK, NotYetBorn, LiveIsOpen, WorkHasADrain, RunnersAreClosedEarly,
        Open, Launch, TakeTurn, Open, Live, Running, vars, recordVars, workVars,
        managerVars, threadVars
<1>2. ASSUME NEW a \in Agents, NEW m \in Msgs, Send(a, m) PROVE RunnersAreClosedEarly'
  BY <1>2 DEF TypeOK, NotYetBorn, LiveIsOpen, WorkHasADrain, RunnersAreClosedEarly,
        Open, Send, HasRoom, TakeTurn, Open, Live, vars, recordVars, workVars,
        managerVars, threadVars
<1>3. ASSUME NEW a \in Agents, Cancel(a) PROVE RunnersAreClosedEarly'
  BY <1>3 DEF TypeOK, NotYetBorn, LiveIsOpen, WorkHasADrain, RunnersAreClosedEarly,
        Open, Cancel, CancelRecords, StartRunnerClose, WithoutDrain, Open, Live,
        vars, recordVars, workVars, managerVars, threadVars
<1>4. ASSUME NEW a \in Agents, CloseIdle(a) PROVE RunnersAreClosedEarly'
  BY <1>4 DEF TypeOK, NotYetBorn, LiveIsOpen, WorkHasADrain, RunnersAreClosedEarly,
        Open, CloseIdle, CloseIdleRecords, StartRunnerClose, vars, recordVars,
        workVars, managerVars, threadVars
<1>5. ASSUME NEW a \in Agents, IdleExpires(a) PROVE RunnersAreClosedEarly'
  BY <1>5 DEF TypeOK, NotYetBorn, LiveIsOpen, WorkHasADrain, RunnersAreClosedEarly,
        Open, IdleExpires, CloseIdleRecords, StartRunnerClose, Open, vars,
        recordVars, workVars, managerVars, threadVars
<1>6. ASSUME NEW a \in Agents, TurnStopped(a) PROVE RunnersAreClosedEarly'
  BY <1>6 DEF TypeOK, NotYetBorn, LiveIsOpen, WorkHasADrain, RunnersAreClosedEarly,
        Open, TurnStopped, StartRunnerClose, Open, vars, recordVars, workVars,
        managerVars, threadVars
<1>7. ASSUME NEW a \in Agents, TurnReports(a) PROVE RunnersAreClosedEarly'
  BY <1>7 DEF TypeOK, NotYetBorn, LiveIsOpen, WorkHasADrain, RunnersAreClosedEarly,
        Open, TurnReports, AfterResult, TakeTurn, Rest, StartRunnerClose, Open,
        vars, recordVars, workVars, managerVars, threadVars
<1>8. ASSUME NEW a \in Agents, TurnYields(a) PROVE RunnersAreClosedEarly'
  BY <1>8 DEF TypeOK, NotYetBorn, LiveIsOpen, WorkHasADrain, RunnersAreClosedEarly,
        Open, TurnYields, AfterResult, TakeTurn, Rest, StartRunnerClose, Open, vars,
        recordVars, workVars, managerVars, threadVars
<1>9. ASSUME NEW a \in Agents, TurnInterrupted(a) PROVE RunnersAreClosedEarly'
  BY <1>9 DEF TypeOK, NotYetBorn, LiveIsOpen, WorkHasADrain, RunnersAreClosedEarly,
        Open, TurnInterrupted, Rest, Open, vars, recordVars, workVars, managerVars,
        threadVars
<1>10. ASSUME NEW a \in Agents, TurnFails(a) PROVE RunnersAreClosedEarly'
  BY <1>10 DEF TypeOK, NotYetBorn, LiveIsOpen, WorkHasADrain, RunnersAreClosedEarly,
        Open, TurnFails, StartRunnerClose, Open, vars, recordVars, workVars,
        managerVars, threadVars
<1>11. ASSUME NEW a \in Agents, DrainCleared(a) PROVE RunnersAreClosedEarly'
  BY <1>11 DEF TypeOK, NotYetBorn, LiveIsOpen, WorkHasADrain, RunnersAreClosedEarly,
        Open, DrainCleared, TakeTurn, Settle, Open, vars, recordVars, workVars,
        managerVars, threadVars
<1>12. ASSUME NEW a \in Agents, RunnerCloses(a) PROVE RunnersAreClosedEarly'
  BY <1>12 DEF TypeOK, NotYetBorn, LiveIsOpen, WorkHasADrain, RunnersAreClosedEarly,
        Open, RunnerCloses, Settle, vars, recordVars, workVars, managerVars,
        threadVars
<1>13. ASSUME NEW t \in Threads, CancelRunning(t) PROVE RunnersAreClosedEarly'
  BY <1>13 DEF TypeOK, NotYetBorn, LiveIsOpen, WorkHasADrain, RunnersAreClosedEarly,
        Open, CancelRunning, CancelRecords, StartRunnerClose, WithoutDrain, Open,
        Running, vars, recordVars, workVars, managerVars, threadVars
<1>14. ASSUME NEW t \in Threads, DeleteThread(t) PROVE RunnersAreClosedEarly'
  BY <1>14 DEF TypeOK, NotYetBorn, LiveIsOpen, WorkHasADrain, RunnersAreClosedEarly,
        Open, DeleteThread, StartRunnerClose, WithoutDrain, Live, DrainOf, CloseOf,
        vars, recordVars, workVars, managerVars, threadVars
<1>15. CASE ManagerCloses
  BY <1>15 DEF TypeOK, NotYetBorn, LiveIsOpen, WorkHasADrain, RunnersAreClosedEarly,
        Open, ManagerCloses, StartRunnerClose, Running, DrainOf, CloseOf,
        DeliveryOf, vars, recordVars, workVars, managerVars, threadVars
<1>16. CASE UNCHANGED <<state, drain, runner, missed>>
  BY <1>16 DEF TypeOK, NotYetBorn, LiveIsOpen, WorkHasADrain, RunnersAreClosedEarly,
        Open, threadVars
<1> QED BY <1>1, <1>2, <1>3, <1>4, <1>5, <1>6, <1>7, <1>8, <1>9, <1>10, <1>11,
      <1>12, <1>13, <1>14, <1>15, <1>16 DEF Next, AgentStep, TurnEnds, ThreadStep,
      Tell, DeliverySettles, RunStarts, RunEnds, DrainsAwaited, AgentsClosed,
      ThreadDeleted, ServerStops, ManagerClosed, vars, recordVars, workVars,
      managerVars, threadVars

(* A worker rests only after a report. *)
LEMMA ReportedStep ==
  ASSUME TypeOK, RestedMeansReported, [Next]_vars
  PROVE  RestedMeansReported'
<1> USE DEF Terminal
<1>1. ASSUME NEW a \in Agents, Launch(a) PROVE RestedMeansReported'
  BY <1>1 DEF TypeOK, RestedMeansReported, Launch, TakeTurn, Open, Live, Running,
        vars, recordVars, workVars, managerVars, threadVars
<1>2. ASSUME NEW a \in Agents, NEW m \in Msgs, Send(a, m) PROVE RestedMeansReported'
  BY <1>2 DEF TypeOK, RestedMeansReported, Send, HasRoom, TakeTurn, Open, Live,
        vars, recordVars, workVars, managerVars, threadVars
<1>3. ASSUME NEW a \in Agents, Cancel(a) PROVE RestedMeansReported'
  BY <1>3 DEF TypeOK, RestedMeansReported, Cancel, CancelRecords, StartRunnerClose,
        WithoutDrain, Open, Live, vars, recordVars, workVars, managerVars,
        threadVars
<1>4. ASSUME NEW a \in Agents, CloseIdle(a) PROVE RestedMeansReported'
  BY <1>4 DEF TypeOK, RestedMeansReported, CloseIdle, CloseIdleRecords,
        StartRunnerClose, vars, recordVars, workVars, managerVars, threadVars
<1>5. ASSUME NEW a \in Agents, IdleExpires(a) PROVE RestedMeansReported'
  BY <1>5 DEF TypeOK, RestedMeansReported, IdleExpires, CloseIdleRecords,
        StartRunnerClose, Open, vars, recordVars, workVars, managerVars, threadVars
<1>6. ASSUME NEW a \in Agents, TurnReports(a) PROVE RestedMeansReported'
  BY <1>6 DEF TypeOK, RestedMeansReported, TurnReports, AfterResult, TakeTurn, Rest,
        StartRunnerClose, Open, vars, recordVars, workVars, managerVars, threadVars
<1>7. ASSUME NEW a \in Agents, TurnYields(a) PROVE RestedMeansReported'
  BY <1>7 DEF TypeOK, RestedMeansReported, TurnYields, AfterResult, TakeTurn, Rest,
        StartRunnerClose, Open, vars, recordVars, workVars, managerVars, threadVars
<1>8. ASSUME NEW a \in Agents, TurnInterrupted(a) PROVE RestedMeansReported'
  BY <1>8 DEF TypeOK, RestedMeansReported, TurnInterrupted, Rest, Open, vars,
        recordVars, workVars, managerVars, threadVars
<1>9. ASSUME NEW a \in Agents, TurnFails(a) PROVE RestedMeansReported'
  BY <1>9 DEF TypeOK, RestedMeansReported, TurnFails, StartRunnerClose, Open, vars,
        recordVars, workVars, managerVars, threadVars
<1>10. ASSUME NEW t \in Threads, CancelRunning(t) PROVE RestedMeansReported'
  BY <1>10 DEF TypeOK, RestedMeansReported, CancelRunning, CancelRecords,
        StartRunnerClose, WithoutDrain, Open, Running, vars, recordVars, workVars,
        managerVars, threadVars
<1>11. ASSUME NEW t \in Threads, DeleteThread(t) PROVE RestedMeansReported'
  BY <1>11 DEF TypeOK, RestedMeansReported, DeleteThread, StartRunnerClose,
        WithoutDrain, Live, DrainOf, CloseOf, vars, recordVars, workVars,
        managerVars, threadVars
<1>12. CASE ManagerCloses
  BY <1>12 DEF TypeOK, RestedMeansReported, ManagerCloses, StartRunnerClose,
        Running, DrainOf, CloseOf, DeliveryOf, vars, recordVars, workVars,
        managerVars, threadVars
<1>13. CASE UNCHANGED <<state, reported>>
  BY <1>13 DEF TypeOK, RestedMeansReported, threadVars
<1> QED BY <1>1, <1>2, <1>3, <1>4, <1>5, <1>6, <1>7, <1>8, <1>9, <1>10, <1>11,
      <1>12, <1>13 DEF Next, AgentStep, TurnEnds, ThreadStep, Tell, TurnStopped,
      DrainCleared, RunnerCloses, DeliverySettles, RunStarts, RunEnds,
      DrainsAwaited, AgentsClosed, ThreadDeleted, ServerStops, ManagerClosed, vars,
      recordVars, workVars, managerVars, threadVars

(* What a deletion found stays ended. *)
LEMMA TargetsStep ==
  ASSUME TypeOK, NotYetBorn, LiveIsOpen, TargetsEnded, [Next]_vars
  PROVE  TargetsEnded'
<1> USE DEF Terminal
<1>1. ASSUME NEW a \in Agents, Launch(a) PROVE TargetsEnded'
  BY <1>1 DEF TypeOK, NotYetBorn, LiveIsOpen, TargetsEnded, Launch, TakeTurn, Open,
        Live, Running, vars, recordVars, workVars, managerVars, threadVars
<1>2. ASSUME NEW a \in Agents, NEW m \in Msgs, Send(a, m) PROVE TargetsEnded'
  BY <1>2 DEF TypeOK, NotYetBorn, LiveIsOpen, TargetsEnded, Send, HasRoom, TakeTurn,
        Open, Live, vars, recordVars, workVars, managerVars, threadVars
<1>3. ASSUME NEW a \in Agents, Cancel(a) PROVE TargetsEnded'
  BY <1>3 DEF TypeOK, NotYetBorn, LiveIsOpen, TargetsEnded, Cancel, CancelRecords,
        StartRunnerClose, WithoutDrain, Open, Live, vars, recordVars, workVars,
        managerVars, threadVars
<1>4. ASSUME NEW a \in Agents, CloseIdle(a) PROVE TargetsEnded'
  BY <1>4 DEF TypeOK, NotYetBorn, LiveIsOpen, TargetsEnded, CloseIdle,
        CloseIdleRecords, StartRunnerClose, vars, recordVars, workVars, managerVars,
        threadVars
<1>5. ASSUME NEW a \in Agents, IdleExpires(a) PROVE TargetsEnded'
  BY <1>5 DEF TypeOK, NotYetBorn, LiveIsOpen, TargetsEnded, IdleExpires,
        CloseIdleRecords, StartRunnerClose, Open, vars, recordVars, workVars,
        managerVars, threadVars
<1>6. ASSUME NEW a \in Agents, TurnReports(a) PROVE TargetsEnded'
  BY <1>6 DEF TypeOK, NotYetBorn, LiveIsOpen, TargetsEnded, TurnReports,
        AfterResult, TakeTurn, Rest, StartRunnerClose, Open, vars, recordVars,
        workVars, managerVars, threadVars
<1>7. ASSUME NEW a \in Agents, TurnYields(a) PROVE TargetsEnded'
  BY <1>7 DEF TypeOK, NotYetBorn, LiveIsOpen, TargetsEnded, TurnYields, AfterResult,
        TakeTurn, Rest, StartRunnerClose, Open, vars, recordVars, workVars,
        managerVars, threadVars
<1>8. ASSUME NEW a \in Agents, TurnInterrupted(a) PROVE TargetsEnded'
  BY <1>8 DEF TypeOK, NotYetBorn, LiveIsOpen, TargetsEnded, TurnInterrupted, Rest,
        Open, vars, recordVars, workVars, managerVars, threadVars
<1>9. ASSUME NEW a \in Agents, TurnFails(a) PROVE TargetsEnded'
  BY <1>9 DEF TypeOK, NotYetBorn, LiveIsOpen, TargetsEnded, TurnFails,
        StartRunnerClose, Open, vars, recordVars, workVars, managerVars, threadVars
<1>10. ASSUME NEW t \in Threads, CancelRunning(t) PROVE TargetsEnded'
  BY <1>10 DEF TypeOK, NotYetBorn, LiveIsOpen, TargetsEnded, CancelRunning,
        CancelRecords, StartRunnerClose, WithoutDrain, Open, Running, vars,
        recordVars, workVars, managerVars, threadVars
<1>11. ASSUME NEW t \in Threads, DeleteThread(t) PROVE TargetsEnded'
  BY <1>11 DEF TypeOK, NotYetBorn, LiveIsOpen, TargetsEnded, DeleteThread,
        StartRunnerClose, WithoutDrain, Live, DrainOf, CloseOf, vars, recordVars,
        workVars, managerVars, threadVars
<1>12. CASE ManagerCloses
  BY <1>12 DEF TypeOK, NotYetBorn, LiveIsOpen, TargetsEnded, ManagerCloses,
        StartRunnerClose, Running, DrainOf, CloseOf, DeliveryOf, vars, recordVars,
        workVars, managerVars, threadVars
<1>13. CASE UNCHANGED <<targets, stopped, state>>
  BY <1>13 DEF TypeOK, NotYetBorn, LiveIsOpen, TargetsEnded, threadVars
<1> QED BY <1>1, <1>2, <1>3, <1>4, <1>5, <1>6, <1>7, <1>8, <1>9, <1>10, <1>11,
      <1>12, <1>13 DEF Next, AgentStep, TurnEnds, ThreadStep, Tell, TurnStopped,
      DrainCleared, RunnerCloses, DeliverySettles, RunStarts, RunEnds,
      DrainsAwaited, AgentsClosed, ThreadDeleted, ServerStops, ManagerClosed, vars,
      recordVars, workVars, managerVars, threadVars

(* The first await of closeThread. *)
LEMMA FirstWaitStep ==
  ASSUME TypeOK, TargetsEnded, FirstWait, [Next]_vars
  PROVE  FirstWait'
<1> USE DEF Terminal
<1>1. ASSUME NEW a \in Agents, Launch(a) PROVE FirstWait'
  BY <1>1 DEF TypeOK, TargetsEnded, FirstWait, Launch, TakeTurn, Open, Live,
        Running, vars, recordVars, workVars, managerVars, threadVars
<1>2. ASSUME NEW a \in Agents, NEW m \in Msgs, Send(a, m) PROVE FirstWait'
  BY <1>2 DEF TypeOK, TargetsEnded, FirstWait, Send, HasRoom, TakeTurn, Open, Live,
        vars, recordVars, workVars, managerVars, threadVars
<1>3. ASSUME NEW a \in Agents, TurnStopped(a) PROVE FirstWait'
  BY <1>3 DEF TypeOK, TargetsEnded, FirstWait, TurnStopped, StartRunnerClose, Open,
        vars, recordVars, workVars, managerVars, threadVars
<1>4. ASSUME NEW a \in Agents, TurnReports(a) PROVE FirstWait'
  BY <1>4 DEF TypeOK, TargetsEnded, FirstWait, TurnReports, AfterResult, TakeTurn,
        Rest, StartRunnerClose, Open, vars, recordVars, workVars, managerVars,
        threadVars
<1>5. ASSUME NEW a \in Agents, TurnYields(a) PROVE FirstWait'
  BY <1>5 DEF TypeOK, TargetsEnded, FirstWait, TurnYields, AfterResult, TakeTurn,
        Rest, StartRunnerClose, Open, vars, recordVars, workVars, managerVars,
        threadVars
<1>6. ASSUME NEW a \in Agents, TurnInterrupted(a) PROVE FirstWait'
  BY <1>6 DEF TypeOK, TargetsEnded, FirstWait, TurnInterrupted, Rest, Open, vars,
        recordVars, workVars, managerVars, threadVars
<1>7. ASSUME NEW a \in Agents, TurnFails(a) PROVE FirstWait'
  BY <1>7 DEF TypeOK, TargetsEnded, FirstWait, TurnFails, StartRunnerClose, Open,
        vars, recordVars, workVars, managerVars, threadVars
<1>8. ASSUME NEW a \in Agents, DrainCleared(a) PROVE FirstWait'
  BY <1>8 DEF TypeOK, TargetsEnded, FirstWait, DrainCleared, TakeTurn, Settle, Open,
        vars, recordVars, workVars, managerVars, threadVars
<1>9. ASSUME NEW a \in Agents, RunnerCloses(a) PROVE FirstWait'
  BY <1>9 DEF TypeOK, TargetsEnded, FirstWait, RunnerCloses, Settle, vars,
        recordVars, workVars, managerVars, threadVars
<1>10. ASSUME NEW a \in Agents, DeliverySettles(a) PROVE FirstWait'
  BY <1>10 DEF TypeOK, TargetsEnded, FirstWait, DeliverySettles, Settle, vars,
        recordVars, workVars, managerVars, threadVars
<1>11. ASSUME NEW t \in Threads, DeleteThread(t) PROVE FirstWait'
  BY <1>11 DEF TypeOK, TargetsEnded, FirstWait, DeleteThread, StartRunnerClose,
        WithoutDrain, Live, DrainOf, CloseOf, vars, recordVars, workVars,
        managerVars, threadVars
<1>12. ASSUME NEW t \in Threads, DrainsAwaited(t) PROVE FirstWait'
  BY <1>12 DEF TypeOK, TargetsEnded, FirstWait, DrainsAwaited, CloseOf, DeliveryOf,
        vars, recordVars, workVars, managerVars, threadVars
<1>13. ASSUME NEW t \in Threads, AgentsClosed(t) PROVE FirstWait'
  BY <1>13 DEF TypeOK, TargetsEnded, FirstWait, AgentsClosed, vars, recordVars,
        workVars, managerVars, threadVars
<1>14. ASSUME NEW t \in Threads, ThreadDeleted(t) PROVE FirstWait'
  BY <1>14 DEF TypeOK, TargetsEnded, FirstWait, ThreadDeleted, vars, recordVars,
        workVars, managerVars, threadVars
<1>15. CASE UNCHANGED <<thread, stopped, drain, threadWaits>>
  BY <1>15 DEF TypeOK, TargetsEnded, FirstWait, threadVars
<1> QED BY <1>1, <1>2, <1>3, <1>4, <1>5, <1>6, <1>7, <1>8, <1>9, <1>10, <1>11,
      <1>12, <1>13, <1>14, <1>15 DEF Next, AgentStep, TurnEnds, ThreadStep, Tell,
      Cancel, CloseIdle, IdleExpires, CancelRunning, RunStarts, RunEnds,
      ServerStops, ManagerCloses, ManagerClosed, vars, recordVars, workVars,
      managerVars, threadVars

(* The second await of closeThread. *)
LEMMA SecondWaitStep ==
  ASSUME TypeOK, TargetsEnded, FirstWait, SecondWait, [Next]_vars
  PROVE  SecondWait'
<1> USE DEF Terminal
<1>1. ASSUME NEW a \in Agents, Launch(a) PROVE SecondWait'
  <2> SUFFICES ASSUME NEW u \in Threads, thread'[u] = "closes", NEW b \in stopped'[u]
               PROVE  /\ drain'[b] = "none"
                      /\ runner'[b] = "closing" => <<"close", b>> \in threadWaits'[u]
                      /\ b \in delivering' => <<"deliver", b>> \in threadWaits'[u]
    BY DEF SecondWait
  <2>1. /\ b \in Agents /\ state[b] \in Terminal /\ drain[b] = "none"
        /\ runner[b] = "closing" => <<"close", b>> \in threadWaits[u]
        /\ b \in delivering => <<"deliver", b>> \in threadWaits[u]
    BY <1>1 DEF TypeOK, TargetsEnded, SecondWait, Launch, threadVars
  <2>2. b # a
    BY <1>1, <2>1 DEF Launch
  <2> QED BY <1>1, <2>1, <2>2 DEF TypeOK, Launch, TakeTurn, threadVars
<1>2. ASSUME NEW a \in Agents, NEW m \in Msgs, Send(a, m) PROVE SecondWait'
  <2> SUFFICES ASSUME NEW u \in Threads, thread'[u] = "closes", NEW b \in stopped'[u]
               PROVE  /\ drain'[b] = "none"
                      /\ runner'[b] = "closing" => <<"close", b>> \in threadWaits'[u]
                      /\ b \in delivering' => <<"deliver", b>> \in threadWaits'[u]
    BY DEF SecondWait
  <2>1. /\ b \in Agents /\ state[b] \in Terminal /\ drain[b] = "none"
        /\ runner[b] = "closing" => <<"close", b>> \in threadWaits[u]
        /\ b \in delivering => <<"deliver", b>> \in threadWaits[u]
    BY <1>2 DEF TypeOK, TargetsEnded, SecondWait, Send, threadVars
  <2>2. b # a
    BY <1>2, <2>1 DEF Send, Live
  <2> QED BY <1>2, <2>1, <2>2 DEF TypeOK, Send, TakeTurn, threadVars
<1>3. ASSUME NEW a \in Agents, Tell(a) PROVE SecondWait'
  BY <1>3 DEF TypeOK, TargetsEnded, FirstWait, SecondWait, Tell, Open, Live, vars,
        recordVars, workVars, managerVars, threadVars
<1>4. ASSUME NEW a \in Agents, Cancel(a) PROVE SecondWait'
  <2> SUFFICES ASSUME NEW u \in Threads, thread'[u] = "closes", NEW b \in stopped'[u]
               PROVE  /\ drain'[b] = "none"
                      /\ runner'[b] = "closing" => <<"close", b>> \in threadWaits'[u]
                      /\ b \in delivering' => <<"deliver", b>> \in threadWaits'[u]
    BY DEF SecondWait
  <2>1. /\ b \in Agents /\ state[b] \in Terminal /\ drain[b] = "none"
        /\ runner[b] = "closing" => <<"close", b>> \in threadWaits[u]
        /\ b \in delivering => <<"deliver", b>> \in threadWaits[u]
    BY <1>4 DEF TypeOK, TargetsEnded, SecondWait, Cancel, threadVars
  <2>2. b # a
    BY <1>4, <2>1 DEF Cancel, Live
  <2> QED BY <1>4, <2>1, <2>2 DEF TypeOK, Cancel, CancelRecords, StartRunnerClose, WithoutDrain, threadVars
<1>5. ASSUME NEW a \in Agents, CloseIdle(a) PROVE SecondWait'
  BY <1>5 DEF TypeOK, TargetsEnded, FirstWait, SecondWait, CloseIdle,
        CloseIdleRecords, StartRunnerClose, vars, recordVars, workVars, managerVars,
        threadVars
<1>6. ASSUME NEW a \in Agents, IdleExpires(a) PROVE SecondWait'
  <2> SUFFICES ASSUME NEW u \in Threads, thread'[u] = "closes", NEW b \in stopped'[u]
               PROVE  /\ drain'[b] = "none"
                      /\ runner'[b] = "closing" => <<"close", b>> \in threadWaits'[u]
                      /\ b \in delivering' => <<"deliver", b>> \in threadWaits'[u]
    BY DEF SecondWait
  <2>1. /\ b \in Agents /\ state[b] \in Terminal /\ drain[b] = "none"
        /\ runner[b] = "closing" => <<"close", b>> \in threadWaits[u]
        /\ b \in delivering => <<"deliver", b>> \in threadWaits[u]
    BY <1>6 DEF TypeOK, TargetsEnded, SecondWait, IdleExpires, threadVars
  <2>2. CASE b # a
    BY <1>6, <2>1, <2>2 DEF TypeOK, IdleExpires, CloseIdleRecords, StartRunnerClose, threadVars
  <2>3. CASE b = a
    BY <1>6, <2>1, <2>3 DEF TypeOK, IdleExpires, CloseIdleRecords, StartRunnerClose, threadVars
  <2> QED BY <2>2, <2>3
<1>7. ASSUME NEW a \in Agents, TurnStopped(a) PROVE SecondWait'
  BY <1>7 DEF TypeOK, TargetsEnded, FirstWait, SecondWait, TurnStopped,
        StartRunnerClose, Open, vars, recordVars, workVars, managerVars, threadVars
<1>8. ASSUME NEW a \in Agents, TurnReports(a) PROVE SecondWait'
  <2> SUFFICES ASSUME NEW u \in Threads, thread'[u] = "closes", NEW b \in stopped'[u]
               PROVE  /\ drain'[b] = "none"
                      /\ runner'[b] = "closing" => <<"close", b>> \in threadWaits'[u]
                      /\ b \in delivering' => <<"deliver", b>> \in threadWaits'[u]
    BY DEF SecondWait
  <2>1. /\ b \in Agents /\ state[b] \in Terminal /\ drain[b] = "none"
        /\ runner[b] = "closing" => <<"close", b>> \in threadWaits[u]
        /\ b \in delivering => <<"deliver", b>> \in threadWaits[u]
    BY <1>8 DEF TypeOK, TargetsEnded, SecondWait, TurnReports, threadVars
  <2>2. b # a
    BY <1>8, <2>1 DEF TurnReports
  <2> QED BY <1>8, <2>1, <2>2 DEF TypeOK, TurnReports, AfterResult, TakeTurn, Rest, StartRunnerClose, threadVars
<1>9. ASSUME NEW a \in Agents, TurnYields(a) PROVE SecondWait'
  <2> SUFFICES ASSUME NEW u \in Threads, thread'[u] = "closes", NEW b \in stopped'[u]
               PROVE  /\ drain'[b] = "none"
                      /\ runner'[b] = "closing" => <<"close", b>> \in threadWaits'[u]
                      /\ b \in delivering' => <<"deliver", b>> \in threadWaits'[u]
    BY DEF SecondWait
  <2>1. /\ b \in Agents /\ state[b] \in Terminal /\ drain[b] = "none"
        /\ runner[b] = "closing" => <<"close", b>> \in threadWaits[u]
        /\ b \in delivering => <<"deliver", b>> \in threadWaits[u]
    BY <1>9 DEF TypeOK, TargetsEnded, SecondWait, TurnYields, threadVars
  <2>2. b # a
    BY <1>9, <2>1 DEF TurnYields
  <2> QED BY <1>9, <2>1, <2>2 DEF TypeOK, TurnYields, AfterResult, TakeTurn, Rest, StartRunnerClose, threadVars
<1>10. ASSUME NEW a \in Agents, TurnInterrupted(a) PROVE SecondWait'
  <2> SUFFICES ASSUME NEW u \in Threads, thread'[u] = "closes", NEW b \in stopped'[u]
               PROVE  /\ drain'[b] = "none"
                      /\ runner'[b] = "closing" => <<"close", b>> \in threadWaits'[u]
                      /\ b \in delivering' => <<"deliver", b>> \in threadWaits'[u]
    BY DEF SecondWait
  <2>1. /\ b \in Agents /\ state[b] \in Terminal /\ drain[b] = "none"
        /\ runner[b] = "closing" => <<"close", b>> \in threadWaits[u]
        /\ b \in delivering => <<"deliver", b>> \in threadWaits[u]
    BY <1>10 DEF TypeOK, TargetsEnded, SecondWait, TurnInterrupted, threadVars
  <2>2. b # a
    BY <1>10, <2>1 DEF TurnInterrupted
  <2> QED BY <1>10, <2>1, <2>2 DEF TypeOK, TurnInterrupted, Rest, threadVars
<1>11. ASSUME NEW a \in Agents, TurnFails(a) PROVE SecondWait'
  BY <1>11 DEF TypeOK, TargetsEnded, FirstWait, SecondWait, TurnFails,
        StartRunnerClose, Open, vars, recordVars, workVars, managerVars, threadVars
<1>12. ASSUME NEW a \in Agents, DrainCleared(a) PROVE SecondWait'
  <2> SUFFICES ASSUME NEW u \in Threads, thread'[u] = "closes", NEW b \in stopped'[u]
               PROVE  /\ drain'[b] = "none"
                      /\ runner'[b] = "closing" => <<"close", b>> \in threadWaits'[u]
                      /\ b \in delivering' => <<"deliver", b>> \in threadWaits'[u]
    BY DEF SecondWait
  <2>1. /\ b \in Agents /\ state[b] \in Terminal /\ drain[b] = "none"
        /\ runner[b] = "closing" => <<"close", b>> \in threadWaits[u]
        /\ b \in delivering => <<"deliver", b>> \in threadWaits[u]
    BY <1>12 DEF TypeOK, TargetsEnded, SecondWait, DrainCleared, threadVars
  <2>2. b # a
    BY <1>12, <2>1 DEF DrainCleared
  <2> QED BY <1>12, <2>1, <2>2 DEF TypeOK, DrainCleared, TakeTurn, Settle, threadVars
<1>13. ASSUME NEW a \in Agents, RunnerCloses(a) PROVE SecondWait'
  BY <1>13 DEF TypeOK, TargetsEnded, FirstWait, SecondWait, RunnerCloses, Settle,
        vars, recordVars, workVars, managerVars, threadVars
<1>14. ASSUME NEW a \in Agents, DeliverySettles(a) PROVE SecondWait'
  BY <1>14 DEF TypeOK, TargetsEnded, FirstWait, SecondWait, DeliverySettles, Settle,
        vars, recordVars, workVars, managerVars, threadVars
<1>15. ASSUME NEW t \in Threads, CancelRunning(t) PROVE SecondWait'
  <2> SUFFICES ASSUME NEW u \in Threads, thread'[u] = "closes", NEW b \in stopped'[u]
               PROVE  /\ drain'[b] = "none"
                      /\ runner'[b] = "closing" => <<"close", b>> \in threadWaits'[u]
                      /\ b \in delivering' => <<"deliver", b>> \in threadWaits'[u]
    BY DEF SecondWait
  <2>1. /\ b \in Agents /\ state[b] \in Terminal /\ drain[b] = "none"
        /\ runner[b] = "closing" => <<"close", b>> \in threadWaits[u]
        /\ b \in delivering => <<"deliver", b>> \in threadWaits[u]
    BY <1>15 DEF TypeOK, TargetsEnded, SecondWait, CancelRunning, threadVars
  <2>2. b \notin Running
    BY <2>1 DEF Running
  <2>3. runner'[b] = runner[b] /\ (b \in delivering' => b \in delivering)
    BY <1>15, <2>1, <2>2 DEF TypeOK, CancelRunning, CancelRecords, StartRunnerClose, WithoutDrain
  <2> QED BY <1>15, <2>1, <2>3 DEF CancelRunning, threadVars
<1>16. ASSUME NEW t \in Threads, DeleteThread(t) PROVE SecondWait'
  <2> SUFFICES ASSUME NEW u \in Threads, thread'[u] = "closes", NEW b \in stopped'[u]
               PROVE  /\ drain'[b] = "none"
                      /\ runner'[b] = "closing" => <<"close", b>> \in threadWaits'[u]
                      /\ b \in delivering' => <<"deliver", b>> \in threadWaits'[u]
    BY DEF SecondWait
  <2>1. u # t /\ thread[u] = "closes" /\ b \in stopped[u] /\ threadWaits'[u] = threadWaits[u]
    BY <1>16 DEF TypeOK, DeleteThread
  <2>2. /\ b \in Agents /\ state[b] \in Terminal /\ drain[b] = "none"
        /\ runner[b] = "closing" => <<"close", b>> \in threadWaits[u]
        /\ b \in delivering => <<"deliver", b>> \in threadWaits[u]
    BY <2>1 DEF TypeOK, TargetsEnded, SecondWait
  <2>3. b \notin Live
    BY <2>2 DEF Live
  <2>4. runner'[b] = runner[b] /\ drain' = drain /\ delivering' = delivering
    BY <1>16, <2>2, <2>3 DEF TypeOK, DeleteThread, StartRunnerClose, WithoutDrain
  <2> QED BY <2>1, <2>2, <2>4
<1>17. ASSUME NEW t \in Threads, DrainsAwaited(t) PROVE SecondWait'
  <2> SUFFICES ASSUME NEW u \in Threads, thread'[u] = "closes", NEW b \in stopped'[u]
               PROVE  /\ drain'[b] = "none"
                      /\ runner'[b] = "closing" => <<"close", b>> \in threadWaits'[u]
                      /\ b \in delivering' => <<"deliver", b>> \in threadWaits'[u]
    BY DEF SecondWait
  <2>1. b \in stopped[u] /\ b \in Agents
    BY <1>17 DEF TypeOK, DrainsAwaited
  <2>2. CASE u # t
    BY <1>17, <2>1, <2>2 DEF TypeOK, SecondWait, DrainsAwaited, workVars
  <2>3. CASE u = t
    <3>1. drain[b] = "none"
      BY <1>17, <2>1, <2>3 DEF FirstWait, DrainsAwaited
    <3>2. threadWaits'[u] = CloseOf(Agents, runner) \cup DeliveryOf(Agents)
      BY <1>17, <2>3 DEF TypeOK, DrainsAwaited
    <3> QED BY <1>17, <2>1, <3>1, <3>2 DEF DrainsAwaited, CloseOf, DeliveryOf, workVars
  <2> QED BY <2>2, <2>3
<1>18. ASSUME NEW t \in Threads, AgentsClosed(t) PROVE SecondWait'
  BY <1>18 DEF TypeOK, TargetsEnded, FirstWait, SecondWait, AgentsClosed, vars,
        recordVars, workVars, managerVars, threadVars
<1>19. ASSUME NEW t \in Threads, ThreadDeleted(t) PROVE SecondWait'
  BY <1>19 DEF TypeOK, TargetsEnded, FirstWait, SecondWait, ThreadDeleted, vars,
        recordVars, workVars, managerVars, threadVars
<1>20. CASE ManagerCloses
  BY <1>20 DEF TypeOK, TargetsEnded, FirstWait, SecondWait, ManagerCloses,
        StartRunnerClose, Running, DrainOf, CloseOf, DeliveryOf, vars, recordVars,
        workVars, managerVars, threadVars
<1>21. CASE UNCHANGED <<thread, stopped, drain, runner, delivering, threadWaits>>
  BY <1>21 DEF TypeOK, TargetsEnded, FirstWait, SecondWait, threadVars
<1> QED BY <1>1, <1>2, <1>3, <1>4, <1>5, <1>6, <1>7, <1>8, <1>9, <1>10, <1>11,
      <1>12, <1>13, <1>14, <1>15, <1>16, <1>17, <1>18, <1>19, <1>20, <1>21 DEF Next,
      AgentStep, TurnEnds, ThreadStep, RunStarts, RunEnds, ServerStops,
      ManagerClosed, vars, recordVars, workVars, managerVars, threadVars

(* After both awaits. *)
LEMMA QuietStep ==
  ASSUME TypeOK, TargetsEnded, RunnersAreClosedEarly, SecondWait, DeletedThreadIsQuiet, [Next]_vars
  PROVE  DeletedThreadIsQuiet'
<1> USE DEF Terminal
<1>1. ASSUME NEW a \in Agents, Launch(a) PROVE DeletedThreadIsQuiet'
  BY <1>1 DEF TypeOK, TargetsEnded, RunnersAreClosedEarly, SecondWait,
        DeletedThreadIsQuiet, Launch, TakeTurn, Open, Live, Running, vars,
        recordVars, workVars, managerVars, threadVars
<1>2. ASSUME NEW a \in Agents, NEW m \in Msgs, Send(a, m) PROVE DeletedThreadIsQuiet'
  BY <1>2 DEF TypeOK, TargetsEnded, RunnersAreClosedEarly, SecondWait,
        DeletedThreadIsQuiet, Send, HasRoom, TakeTurn, Open, Live, vars, recordVars,
        workVars, managerVars, threadVars
<1>3. ASSUME NEW a \in Agents, Tell(a) PROVE DeletedThreadIsQuiet'
  BY <1>3 DEF TypeOK, TargetsEnded, RunnersAreClosedEarly, SecondWait,
        DeletedThreadIsQuiet, Tell, Open, Live, vars, recordVars, workVars,
        managerVars, threadVars
<1>4. ASSUME NEW a \in Agents, Cancel(a) PROVE DeletedThreadIsQuiet'
  BY <1>4 DEF TypeOK, TargetsEnded, RunnersAreClosedEarly, SecondWait,
        DeletedThreadIsQuiet, Cancel, CancelRecords, StartRunnerClose, WithoutDrain,
        Open, Live, vars, recordVars, workVars, managerVars, threadVars
<1>5. ASSUME NEW a \in Agents, CloseIdle(a) PROVE DeletedThreadIsQuiet'
  BY <1>5 DEF TypeOK, TargetsEnded, RunnersAreClosedEarly, SecondWait,
        DeletedThreadIsQuiet, CloseIdle, CloseIdleRecords, StartRunnerClose, vars,
        recordVars, workVars, managerVars, threadVars
<1>6. ASSUME NEW a \in Agents, IdleExpires(a) PROVE DeletedThreadIsQuiet'
  BY <1>6 DEF TypeOK, TargetsEnded, RunnersAreClosedEarly, SecondWait,
        DeletedThreadIsQuiet, IdleExpires, CloseIdleRecords, StartRunnerClose, Open,
        vars, recordVars, workVars, managerVars, threadVars
<1>7. ASSUME NEW a \in Agents, TurnStopped(a) PROVE DeletedThreadIsQuiet'
  BY <1>7 DEF TypeOK, TargetsEnded, RunnersAreClosedEarly, SecondWait,
        DeletedThreadIsQuiet, TurnStopped, StartRunnerClose, Open, vars, recordVars,
        workVars, managerVars, threadVars
<1>8. ASSUME NEW a \in Agents, TurnReports(a) PROVE DeletedThreadIsQuiet'
  BY <1>8 DEF TypeOK, TargetsEnded, RunnersAreClosedEarly, SecondWait,
        DeletedThreadIsQuiet, TurnReports, AfterResult, TakeTurn, Rest,
        StartRunnerClose, Open, vars, recordVars, workVars, managerVars, threadVars
<1>9. ASSUME NEW a \in Agents, TurnYields(a) PROVE DeletedThreadIsQuiet'
  BY <1>9 DEF TypeOK, TargetsEnded, RunnersAreClosedEarly, SecondWait,
        DeletedThreadIsQuiet, TurnYields, AfterResult, TakeTurn, Rest,
        StartRunnerClose, Open, vars, recordVars, workVars, managerVars, threadVars
<1>10. ASSUME NEW a \in Agents, TurnInterrupted(a) PROVE DeletedThreadIsQuiet'
  BY <1>10 DEF TypeOK, TargetsEnded, RunnersAreClosedEarly, SecondWait,
        DeletedThreadIsQuiet, TurnInterrupted, Rest, Open, vars, recordVars,
        workVars, managerVars, threadVars
<1>11. ASSUME NEW a \in Agents, TurnFails(a) PROVE DeletedThreadIsQuiet'
  BY <1>11 DEF TypeOK, TargetsEnded, RunnersAreClosedEarly, SecondWait,
        DeletedThreadIsQuiet, TurnFails, StartRunnerClose, Open, vars, recordVars,
        workVars, managerVars, threadVars
<1>12. ASSUME NEW a \in Agents, DrainCleared(a) PROVE DeletedThreadIsQuiet'
  BY <1>12 DEF TypeOK, TargetsEnded, RunnersAreClosedEarly, SecondWait,
        DeletedThreadIsQuiet, DrainCleared, TakeTurn, Settle, Open, vars,
        recordVars, workVars, managerVars, threadVars
<1>13. ASSUME NEW a \in Agents, RunnerCloses(a) PROVE DeletedThreadIsQuiet'
  BY <1>13 DEF TypeOK, TargetsEnded, RunnersAreClosedEarly, SecondWait,
        DeletedThreadIsQuiet, RunnerCloses, Settle, vars, recordVars, workVars,
        managerVars, threadVars
<1>14. ASSUME NEW a \in Agents, DeliverySettles(a) PROVE DeletedThreadIsQuiet'
  BY <1>14 DEF TypeOK, TargetsEnded, RunnersAreClosedEarly, SecondWait,
        DeletedThreadIsQuiet, DeliverySettles, Settle, vars, recordVars, workVars,
        managerVars, threadVars
<1>15. ASSUME NEW t \in Threads, CancelRunning(t) PROVE DeletedThreadIsQuiet'
  BY <1>15 DEF TypeOK, TargetsEnded, RunnersAreClosedEarly, SecondWait,
        DeletedThreadIsQuiet, CancelRunning, CancelRecords, StartRunnerClose,
        WithoutDrain, Open, Running, vars, recordVars, workVars, managerVars,
        threadVars
<1>16. ASSUME NEW t \in Threads, DeleteThread(t) PROVE DeletedThreadIsQuiet'
  BY <1>16 DEF TypeOK, TargetsEnded, RunnersAreClosedEarly, SecondWait,
        DeletedThreadIsQuiet, DeleteThread, StartRunnerClose, WithoutDrain, Live,
        DrainOf, CloseOf, vars, recordVars, workVars, managerVars, threadVars
<1>17. ASSUME NEW t \in Threads, DrainsAwaited(t) PROVE DeletedThreadIsQuiet'
  BY <1>17 DEF TypeOK, TargetsEnded, RunnersAreClosedEarly, SecondWait,
        DeletedThreadIsQuiet, DrainsAwaited, CloseOf, DeliveryOf, vars, recordVars,
        workVars, managerVars, threadVars
<1>18. ASSUME NEW t \in Threads, AgentsClosed(t) PROVE DeletedThreadIsQuiet'
  <2> SUFFICES ASSUME NEW u \in Threads, thread'[u] \in {"purging", "deleted"},
                      NEW b \in stopped[u]
               PROVE  /\ drain[b] = "none"
                      /\ runner[b] = "closed" \/ b \in missed
                      /\ b \notin delivering
    BY <1>18 DEF DeletedThreadIsQuiet, AgentsClosed, workVars
  <2>1. CASE u # t
    BY <1>18, <2>1 DEF TypeOK, DeletedThreadIsQuiet, AgentsClosed
  <2>2. CASE u = t
    <3>1. b \in Agents /\ state[b] \in Terminal
      BY DEF TypeOK, TargetsEnded
    <3>2. drain[b] = "none" /\ runner[b] # "closing" /\ b \notin delivering
      BY <1>18, <2>2, <3>1 DEF SecondWait, AgentsClosed
    <3> QED BY <3>1, <3>2 DEF TypeOK, RunnersAreClosedEarly
  <2> QED BY <2>1, <2>2
<1>19. ASSUME NEW t \in Threads, ThreadDeleted(t) PROVE DeletedThreadIsQuiet'
  BY <1>19 DEF TypeOK, TargetsEnded, RunnersAreClosedEarly, SecondWait,
        DeletedThreadIsQuiet, ThreadDeleted, vars, recordVars, workVars,
        managerVars, threadVars
<1>20. CASE ManagerCloses
  BY <1>20 DEF TypeOK, TargetsEnded, RunnersAreClosedEarly, SecondWait,
        DeletedThreadIsQuiet, ManagerCloses, StartRunnerClose, Running, DrainOf,
        CloseOf, DeliveryOf, vars, recordVars, workVars, managerVars, threadVars
<1>21. CASE UNCHANGED <<thread, stopped, drain, runner, missed, delivering>>
  BY <1>21 DEF TypeOK, TargetsEnded, RunnersAreClosedEarly, SecondWait,
        DeletedThreadIsQuiet, threadVars
<1> QED BY <1>1, <1>2, <1>3, <1>4, <1>5, <1>6, <1>7, <1>8, <1>9, <1>10, <1>11,
      <1>12, <1>13, <1>14, <1>15, <1>16, <1>17, <1>18, <1>19, <1>20, <1>21 DEF Next,
      AgentStep, TurnEnds, ThreadStep, RunStarts, RunEnds, ServerStops,
      ManagerClosed, vars, recordVars, workVars, managerVars, threadVars

(* What EndIsFinal says of one step.                                          *)
EndKept ==
  \A a \in Agents : state[a] \in Terminal =>
    /\ state'[a] = state[a]
    /\ turns'[a] = turns[a]

(* The end of a turn changes nothing about a worker that has ended. *)
LEMMA EndStep ==
  ASSUME TypeOK, [Next]_vars
  PROVE  EndKept
<1> USE DEF Terminal
<1>1. ASSUME NEW a \in Agents, Launch(a) PROVE EndKept
  BY <1>1 DEF TypeOK, EndKept, Launch, TakeTurn, Open, Live, Running, vars,
        recordVars, workVars, managerVars, threadVars
<1>2. ASSUME NEW a \in Agents, NEW m \in Msgs, Send(a, m) PROVE EndKept
  BY <1>2 DEF TypeOK, EndKept, Send, HasRoom, TakeTurn, Open, Live, vars,
        recordVars, workVars, managerVars, threadVars
<1>3. ASSUME NEW a \in Agents, Cancel(a) PROVE EndKept
  BY <1>3 DEF TypeOK, EndKept, Cancel, CancelRecords, StartRunnerClose,
        WithoutDrain, Open, Live, vars, recordVars, workVars, managerVars,
        threadVars
<1>4. ASSUME NEW a \in Agents, CloseIdle(a) PROVE EndKept
  BY <1>4 DEF TypeOK, EndKept, CloseIdle, CloseIdleRecords, StartRunnerClose, vars,
        recordVars, workVars, managerVars, threadVars
<1>5. ASSUME NEW a \in Agents, IdleExpires(a) PROVE EndKept
  BY <1>5 DEF TypeOK, EndKept, IdleExpires, CloseIdleRecords, StartRunnerClose,
        Open, vars, recordVars, workVars, managerVars, threadVars
<1>6. ASSUME NEW a \in Agents, TurnReports(a) PROVE EndKept
  BY <1>6 DEF TypeOK, EndKept, TurnReports, AfterResult, TakeTurn, Rest,
        StartRunnerClose, Open, vars, recordVars, workVars, managerVars, threadVars
<1>7. ASSUME NEW a \in Agents, TurnYields(a) PROVE EndKept
  BY <1>7 DEF TypeOK, EndKept, TurnYields, AfterResult, TakeTurn, Rest,
        StartRunnerClose, Open, vars, recordVars, workVars, managerVars, threadVars
<1>8. ASSUME NEW a \in Agents, TurnInterrupted(a) PROVE EndKept
  BY <1>8 DEF TypeOK, EndKept, TurnInterrupted, Rest, Open, vars, recordVars,
        workVars, managerVars, threadVars
<1>9. ASSUME NEW a \in Agents, TurnFails(a) PROVE EndKept
  BY <1>9 DEF TypeOK, EndKept, TurnFails, StartRunnerClose, Open, vars, recordVars,
        workVars, managerVars, threadVars
<1>10. ASSUME NEW a \in Agents, DrainCleared(a) PROVE EndKept
  BY <1>10 DEF TypeOK, EndKept, DrainCleared, TakeTurn, Settle, Open, vars,
        recordVars, workVars, managerVars, threadVars
<1>11. ASSUME NEW t \in Threads, CancelRunning(t) PROVE EndKept
  BY <1>11 DEF TypeOK, EndKept, CancelRunning, CancelRecords, StartRunnerClose,
        WithoutDrain, Open, Running, vars, recordVars, workVars, managerVars,
        threadVars
<1>12. ASSUME NEW t \in Threads, DeleteThread(t) PROVE EndKept
  BY <1>12 DEF TypeOK, EndKept, DeleteThread, StartRunnerClose, WithoutDrain, Live,
        DrainOf, CloseOf, vars, recordVars, workVars, managerVars, threadVars
<1>13. CASE ManagerCloses
  BY <1>13 DEF TypeOK, EndKept, ManagerCloses, StartRunnerClose, Running, DrainOf,
        CloseOf, DeliveryOf, vars, recordVars, workVars, managerVars, threadVars
<1>14. CASE UNCHANGED <<state, turns>>
  BY <1>14 DEF TypeOK, EndKept, threadVars
<1> QED BY <1>1, <1>2, <1>3, <1>4, <1>5, <1>6, <1>7, <1>8, <1>9, <1>10, <1>11,
      <1>12, <1>13, <1>14 DEF Next, AgentStep, TurnEnds, ThreadStep, Tell,
      TurnStopped, RunnerCloses, DeliverySettles, RunStarts, RunEnds, DrainsAwaited,
      AgentsClosed, ThreadDeleted, ServerStops, ManagerClosed, vars, recordVars,
      workVars, managerVars, threadVars

-----------------------------------------------------------------------------
LEMMA InitInv == Init => TypeOK /\ IndInv
<1>1. Init => TypeOK
  BY EmptyMailbox DEF Init, TypeOK, MailboxesFit, Promises
<1>2. Init => IndInv
  BY DEF Init, IndInv, NotYetBorn, LiveIsOpen, WorkHasADrain, NoTurnAfterClose,
         RunnersAreClosedEarly, RestedMeansReported, TargetsEnded, FirstWait,
         SecondWait, DeletedThreadIsQuiet, Terminal
<1> QED BY <1>1, <1>2

LEMMA NextInv == TypeOK /\ IndInv /\ [Next]_vars => (TypeOK /\ IndInv)'
BY TypeStep, NotYetBornStep, LiveIsOpenStep, WorkStep, NoTurnStep, ClosedStep,
   ReportedStep, TargetsStep, FirstWaitStep, SecondWaitStep, QuietStep DEF IndInv

(* Types, and the limit on the envelopes of every mailbox.                    *)
THEOREM TypeCorrect == Spec => []TypeOK
<1>1. TypeOK /\ [Next]_vars => TypeOK'
  BY TypeStep
<1> QED BY InitInv, <1>1, PTL DEF Spec

(* The inductive invariant holds of every state.                              *)
THEOREM Invariant == Spec => [](TypeOK /\ IndInv)
BY InitInv, NextInv, PTL DEF Spec

(* No steer waits without a turn or a drain that starts the next one, whatever *)
(* the order of steers, turns and the clearing of drainPromise.               *)
THEOREM SteersAreServed == Spec => []WorkHasADrain
<1>1. TypeOK /\ IndInv => WorkHasADrain
  BY DEF IndInv
<1> QED BY Invariant, <1>1, PTL

(* No runner is closed under a turn of it.                                    *)
THEOREM RunnerOutlivesTurn == Spec => []NoTurnAfterClose
<1>1. TypeOK /\ IndInv => NoTurnAfterClose
  BY DEF IndInv
<1> QED BY Invariant, <1>1, PTL

(* Only a cancellation between the return of a drain and the clearing of      *)
(* drainPromise leaves the runner of a worker that has ended open.            *)
THEOREM RunnerIsReleased == Spec => []RunnersAreClosed
<1>1. TypeOK /\ IndInv => RunnersAreClosed
  BY DEF IndInv, RunnersAreClosedEarly, RunnersAreClosed
<1> QED BY Invariant, <1>1, PTL

(* A worker that rests or failed has answered its launch.                     *)
THEOREM LaunchIsAnswered == Spec => []RestedMeansReported
<1>1. TypeOK /\ IndInv => RestedMeansReported
  BY DEF IndInv
<1> QED BY Invariant, <1>1, PTL

(* A thread is evicted and its files are removed after the workers that its   *)
(* deletion stopped have come to rest.                                        *)
THEOREM DeletionIsQuiet == Spec => []DeletedThreadIsQuiet
<1>1. TypeOK /\ IndInv => DeletedThreadIsQuiet
  BY DEF IndInv
<1> QED BY Invariant, <1>1, PTL

(* The end of a worker is final.                                              *)
THEOREM WorkersStayEnded == Spec => EndIsFinal
<1>1. TypeOK /\ [Next]_vars => [EndKept]_vars
  BY EndStep
<1> QED BY TypeCorrect, <1>1, PTL DEF Spec, EndIsFinal, EndKept
=============================================================================
