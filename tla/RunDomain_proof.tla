---------------------------- MODULE RunDomain_proof ----------------------------
(***************************************************************************)
(* Proofs about the run domain.  IndInv is inductive: each part of it has  *)
(* a lemma with one step per action.  The theorems at the end state the    *)
(* invariants and the two action properties for every value of the         *)
(* constants.                                                              *)
(***************************************************************************)
EXTENDS RunDomain, TLAPS

USE ThreadsAssumption, IdentityAssumption, SubsetAssumption, BoundAssumption
    DEF ThreadsAssumption, IdentityAssumption, SubsetAssumption, BoundAssumption

\* The vocabulary every action is written in
USE DEF Items, Hidden, WorkPcs, Pcs, Kinds, Outcomes, Finished, IsRecap, Owner, Idle,
        storageVars, loopVars, queueVars, lifeVars,
        Goto, SetRow, NextLeg, Without
--------------------------------------------------------------------------------
(***************************************************************************)
(* Type correctness.  LegReturns reports the phase the leg ended in, so    *)
(* the step needs TerminalRunIsClosed.                                     *)
(***************************************************************************)
\* Init gives every variable a value of its type.
LEMMA InitType == Init => TypeOK
<1> SUFFICES ASSUME Init PROVE TypeOK
  OBVIOUS
<1>1. StorageOK /\ QueueOK /\ SendOK
  BY DEF Init, StorageOK, QueueOK, SendOK
<1>2. LoopOK
  BY DEF Init, LoopOK
<1>3. LifeOK
  <2>1. boots \in 0 .. MaxBoots /\ updates \in 0 .. MaxUpdates /\ restarts \in 0 .. MaxRestarts
    BY DEF Init
  <2> QED BY <2>1 DEF Init, LifeOK
<1> QED BY <1>1, <1>2, <1>3 DEF TypeOK

\* Launch keeps the types, whatever it is applied to.
LEMMA LaunchType ==
  ASSUME NEW S \in SUBSET Runs, NEW a \in SUBSET Runs,
         NEW b \in [Threads -> Runs \cup {NoRun}], NEW p \in [Runs -> Pcs],
         Launch(S, a, b, p)
  PROVE  /\ active' \subseteq Runs /\ pc' \in [Runs -> Pcs]
         /\ byThread' \in [Threads -> Runs \cup {NoRun}]
  BY DEF Launch

\* No step gives a variable a value outside its type.
LEMMA TypeStep == ASSUME TypeOK, TerminalRunIsClosed, [Next]_vars PROVE TypeOK'
<1> USE DEF TypeOK, StorageOK, LoopOK, QueueOK, LifeOK, SendOK
<1>1. ASSUME NEW m \in Msgs, SendChat(m) PROVE TypeOK'
  BY <1>1 DEF SendChat
<1>2. ASSUME NEW m \in Msgs, SendPrepared(m) PROVE TypeOK'
  <2>1. ASSUME StartFreshRun(m) PROVE LoopOK' /\ StorageOK'
    BY SMTT(30), <1>2, <2>1 DEF SendPrepared, StartFreshRun, Fresh, Launch, StartRows
  <2>2. ASSUME StartFreshRun(m) PROVE QueueOK' /\ SendOK'
    BY <1>2, <2>2 DEF SendPrepared, StartFreshRun, StartRows, Launch
  <2>3. ASSUME NEW r \in Runs, SendToActiveRun(m, r) PROVE StorageOK' /\ LoopOK'
    BY <1>2, <2>3 DEF SendToActiveRun, AddSteer, QueueFollowUp, Rejected
  <2>4. ASSUME NEW r \in Runs, SendToActiveRun(m, r) PROVE QueueOK' /\ SendOK'
    BY <1>2, <2>4 DEF SendToActiveRun, AddSteer, QueueFollowUp, Rejected
  <2>5. LifeOK'
    BY <1>2 DEF SendPrepared
  <2> QED BY <1>2, <2>1, <2>2, <2>3, <2>4, <2>5 DEF SendPrepared
<1>3. ASSUME NEW t \in Threads, RetryMessage(t) PROVE TypeOK'
  BY <1>3 DEF RetryMessage, Fresh, Launch, StartRows
<1>4. ASSUME NEW t \in Threads, RequestRecap(t) PROVE TypeOK'
  BY <1>4 DEF RequestRecap, Fresh, Launch, StartRows
<1>5. ASSUME NEW t \in Threads, WithdrawPendingSteer(t) PROVE TypeOK'
  BY <1>5 DEF WithdrawPendingSteer, Withdraw, AfterWithdrawal
<1>6. ASSUME NEW t \in Threads, DeleteQueuedFollowUp(t) PROVE TypeOK'
  BY <1>6 DEF DeleteQueuedFollowUp, Withdraw
<1>7. ASSUME NEW r \in Runs, CancelRun(r) PROVE TypeOK'
  BY <1>7 DEF CancelRun, AbortReason, CancellableRow
<1>8. ASSUME NEW r \in Runs, Checkpoint(r) PROVE TypeOK'
  BY <1>8 DEF Checkpoint
<1>9. ASSUME NEW r \in Runs, RequestContextHandoff(r) PROVE TypeOK'
  BY <1>9 DEF RequestContextHandoff
<1>10. ASSUME NEW r \in Runs, LegCompletes(r) PROVE TypeOK'
  BY <1>10 DEF LegCompletes
<1>11. ASSUME NEW r \in Runs, LegRetries(r) PROVE TypeOK'
  BY <1>11 DEF LegRetries
<1>12. ASSUME NEW r \in Runs, LegFails(r) PROVE TypeOK'
  BY <1>12 DEF LegFails
<1>13. ASSUME NEW r \in Runs, ObserveAbort(r) PROVE TypeOK'
  BY <1>13 DEF ObserveAbort, AbortSeen
<1>14. ASSUME NEW r \in Runs, FailedRow(r) PROVE TypeOK'
  BY <1>14 DEF FailedRow
<1>15. ASSUME NEW r \in Runs, CancelledRow(r) PROVE TypeOK'
  BY <1>15 DEF CancelledRow
<1>16. ASSUME NEW r \in Runs, Release(r) PROVE TypeOK'
  BY <1>16 DEF Release, ActiveWithout
<1>17. ASSUME NEW r \in Runs, LegReturns(r) PROVE TypeOK'
  BY <1>17 DEF LegReturns, QueuesSteersAfterTerminal, TerminalRunIsClosed
<1>18. ASSUME NEW r \in Runs, BackoffElapses(r) PROVE TypeOK'
  BY <1>18 DEF BackoffElapses
<1>19. ASSUME NEW r \in Runs, BackoffAborted(r) PROVE TypeOK'
  BY <1>19 DEF BackoffAborted
<1>20. ASSUME NEW r \in Runs, SteerLegReturns(r) PROVE TypeOK'
  BY <1>20 DEF SteerLegReturns
<1>21. ASSUME NEW r \in Runs, HandleSteerPending(r) PROVE TypeOK'
  BY <1>21 DEF HandleSteerPending, PersistSteers, CancelSteerPending
<1>22. ASSUME NEW r \in Runs, HandoffAnswers(r) PROVE TypeOK'
  <2>1. PICK left \in SUBSET steers[r] : CancelSteerPending(r) \/ PersistSteers(r, left)
    BY <1>22 DEF HandoffAnswers
  <2>2. UNCHANGED <<active, byThread, abort, phase, queueVars, lifeVars, send>>
        /\ handoff' = [handoff EXCEPT ![r] = FALSE]
    BY <1>22 DEF HandoffAnswers
  <2>3. CASE CancelSteerPending(r)
    BY <2>2, <2>3 DEF CancelSteerPending
  <2>4. CASE PersistSteers(r, left)
    BY <2>1, <2>2, <2>4 DEF PersistSteers
  <2> QED BY <2>1, <2>3, <2>4
<1>23. ASSUME NEW r \in Runs, SteerLegStarts(r) PROVE TypeOK'
  BY <1>23 DEF SteerLegStarts
<1>24. ASSUME NEW r \in Runs, LoopEnds(r) PROVE TypeOK'
  <2>1. [pc EXCEPT ![r] = "done"] \in [Runs -> Pcs] /\ Without(r) \in [Threads -> Runs \cup {NoRun}]
    OBVIOUS
  <2>2. SendOK' /\ LifeOK' /\ UNCHANGED <<checkpoint, deferred, timer, outcome>>
    BY <1>24 DEF LoopEnds
  <2>3. /\ abort' = [abort EXCEPT ![r] = "none"] /\ steers' = [steers EXCEPT ![r] = {}]
        /\ phase' = [phase EXCEPT ![r] = "generating"] /\ handoff' = [handoff EXCEPT ![r] = FALSE]
    BY <1>24 DEF LoopEnds
  <2>4. CASE StartsFollowUp(r)
    <3>1. PICK next \in Fresh("chat") :
            /\ StartRows({next}, drafts[ThreadOfRun[r]])
            /\ Launch({next}, active \ {r}, Without(r), [pc EXCEPT ![r] = "done"])
            /\ drafts' = [drafts EXCEPT ![ThreadOfRun[r]] = {}]
      BY <1>24, <2>4 DEF LoopEnds
    <3>2. {next} \in SUBSET Runs /\ active \ {r} \in SUBSET Runs
      BY DEF Fresh
    <3>3. StorageOK' /\ QueueOK'
      BY <2>2, <3>1, <3>2 DEF StartRows
    <3>4. active' \subseteq Runs /\ pc' \in [Runs -> Pcs] /\ byThread' \in [Threads -> Runs \cup {NoRun}]
      BY <2>1, <3>1, <3>2, LaunchType
    <3> QED BY <2>2, <2>3, <3>3, <3>4
  <2>5. CASE ~StartsFollowUp(r)
    <3>1. /\ Launch({}, active \ {r}, Without(r), [pc EXCEPT ![r] = "done"])
          /\ UNCHANGED <<row, history, drafts>>
      BY <1>24, <2>5 DEF LoopEnds
    <3>2. active' \subseteq Runs /\ pc' \in [Runs -> Pcs] /\ byThread' \in [Threads -> Runs \cup {NoRun}]
      BY <2>1, <3>1, LaunchType
    <3> QED BY <2>2, <2>3, <3>1, <3>2
  <2> QED BY <2>4, <2>5
<1>25. ASSUME NEW r \in Runs, LoopThrows(r) PROVE TypeOK'
  BY <1>25 DEF LoopThrows, Caught
<1>26. ASSUME CloseAdmission PROVE TypeOK'
  <2>1. updates' \in 0 .. MaxUpdates
    BY <1>26 DEF CloseAdmission
  <2> QED BY <1>26, <2>1 DEF CloseAdmission
<1>27. ASSUME OpenAdmission PROVE TypeOK'
  <2>1. LifeOK' /\ SendOK'
    BY <1>27 DEF OpenAdmission
  <2>2. CASE closing # "no"
    BY <1>27, <2>1, <2>2 DEF OpenAdmission
  <2>3. CASE closing = "no"
    <3>1. PICK recovered \in Recoverable(deferred) : StartWaiting(recovered, Waiting(recovered))
      BY <1>27, <2>3 DEF OpenAdmission
    <3> DEFINE waiting == Waiting(recovered)
    <3>5. PICK started \in FollowUpRuns(waiting) :
            /\ StartRows(started, UNION {drafts[t] : t \in waiting})
            /\ Launch(recovered \cup started, active, byThread, pc)
            /\ drafts' = [t \in Threads |-> IF t \in waiting THEN {} ELSE drafts[t]]
            /\ deferred' = {}
      BY <3>1 DEF StartWaiting
    <3>2. recovered \cup started \in SUBSET Runs
      BY DEF Recoverable, FollowUpRuns, Fresh
    <3> HIDE DEF waiting
    <3>3. StorageOK' /\ QueueOK'
      BY <1>27, <3>5 DEF OpenAdmission, StartRows
    <3>4. active' \subseteq Runs /\ pc' \in [Runs -> Pcs] /\ byThread' \in [Threads -> Runs \cup {NoRun}]
      BY <3>2, <3>5, LaunchType
    <3> QED BY <1>27, <2>1, <3>3, <3>4 DEF OpenAdmission
  <2> QED BY <2>2, <2>3
<1>28. ASSUME Bootstrap PROVE TypeOK'
  BY <1>28 DEF Bootstrap, RecoverInterruptedRuns, InterruptedRows
<1>29. ASSUME BootstrapReturns PROVE TypeOK'
  BY <1>29 DEF BootstrapReturns, Listed
<1>30. ASSUME ResumeTimer PROVE TypeOK'
  <2>1. StorageOK' /\ QueueOK' /\ LifeOK' /\ SendOK'
    BY <1>30 DEF ResumeTimer
  <2>2. LoopOK'
    BY <1>30, LaunchType DEF ResumeTimer, Recoverable
  <2> QED BY <2>1, <2>2
<1>31. ASSUME Close PROVE TypeOK'
  BY <1>31 DEF Close
<1>32. ASSUME CloseCollects PROVE TypeOK'
  BY <1>32 DEF CloseCollects
<1>33. ASSUME CloseEnds PROVE TypeOK'
  <2>1. restarts' \in 0 .. MaxRestarts /\ boots' \in 0 .. MaxBoots /\ updates' \in 0 .. MaxUpdates
    BY <1>33 DEF CloseEnds, NewProcess
  <2> QED BY <1>33, <2>1 DEF CloseEnds, NewProcess, RecoverInterruptedRuns, InterruptedRows
<1>34. ASSUME Crash PROVE TypeOK'
  <2>1. restarts' \in 0 .. MaxRestarts /\ boots' \in 0 .. MaxBoots /\ updates' \in 0 .. MaxUpdates
    BY <1>34 DEF Crash, NewProcess
  <2> QED BY <1>34, <2>1 DEF Crash, NewProcess
<1>35. CASE UNCHANGED vars
  BY <1>35 DEF vars
<1> QED BY <1>1, <1>2, <1>3, <1>4, <1>5, <1>6, <1>7, <1>8, <1>9, <1>10, <1>11, <1>12,
  <1>13, <1>14, <1>15, <1>16, <1>17, <1>18, <1>19, <1>20, <1>21, <1>22, <1>23, <1>24,
  <1>25, <1>26, <1>27, <1>28, <1>29, <1>30, <1>31, <1>32, <1>33, <1>34, <1>35 DEF
  Next, LoopStep, LegStep, BetweenLegs
--------------------------------------------------------------------------------
(***************************************************************************)
(* Who owns a thread: activeRuns, activeRunByThread and the loops.         *)
(***************************************************************************)
\* Launching at most one run per thread, in threads that are idle or belong to
\* a recap, keeps the indexes a and b in agreement with the loops at p.
LEMMA LaunchIndex ==
  ASSUME NEW S \in SUBSET Runs, NEW a \in SUBSET Runs,
         NEW b \in [Threads -> Runs \cup {NoRun}], NEW p \in [Runs -> Pcs],
         Launch(S, a, b, p),
         \A r \in S : b[ThreadOfRun[r]] = NoRun \/ IsRecap(b[ThreadOfRun[r]]),
         \A r, q \in S : ThreadOfRun[r] = ThreadOfRun[q] => r = q,
         \A r \in Runs : /\ p[r] \in WorkPcs => r \in a
                         /\ r \in a => p[r] \in WorkPcs \/ p[r] = "final",
         \A t \in Threads : b[t] # NoRun => b[t] \in a /\ ThreadOfRun[b[t]] = t,
         \A r \in a : ~IsRecap(r) => b[ThreadOfRun[r]] = r
  PROVE  ActiveAgreesWithLoops' /\ OwnersAgreeWithActive'
<1>1. ActiveAgreesWithLoops'
  <2>1. \A r \in Runs : pc'[r] = IF r \in S THEN "leg" ELSE p[r]
    BY DEF Launch
  <2>2. active' = a \cup S
    BY DEF Launch
  <2> QED BY <2>1, <2>2 DEF ActiveAgreesWithLoops, Working
<1>2. \A r \in S : byThread'[ThreadOfRun[r]] = r
  BY DEF Launch
<1>3. \A t \in Threads : byThread'[t] # NoRun => byThread'[t] \in active' /\ ThreadOfRun[byThread'[t]] = t
  <2> TAKE t \in Threads
  <2>1. CASE \E r \in S : ThreadOfRun[r] = t
    BY <1>2, <2>1 DEF Launch
  <2>2. CASE ~ \E r \in S : ThreadOfRun[r] = t
    BY <2>2 DEF Launch
  <2> QED BY <2>1, <2>2
<1>4. \A r \in active' : ~IsRecap(r) => byThread'[ThreadOfRun[r]] = r
  BY <1>2 DEF Launch
<1> QED BY <1>1, <1>3, <1>4 DEF OwnersAgreeWithActive

\* Starting, displacing and ending runs keeps the two indexes and the loops in
\* agreement.
LEMMA IndexStep ==
  ASSUME TypeOK, ActiveAgreesWithLoops, OwnersAgreeWithActive, [Next]_vars
  PROVE  ActiveAgreesWithLoops' /\ OwnersAgreeWithActive'
<1> USE DEF TypeOK, LoopOK, ActiveAgreesWithLoops, OwnersAgreeWithActive, Working
<1>1. ASSUME NEW m \in Msgs, SendChat(m) PROVE ActiveAgreesWithLoops' /\ OwnersAgreeWithActive'
  BY <1>1 DEF SendChat
<1>2. ASSUME NEW m \in Msgs, SendPrepared(m) PROVE ActiveAgreesWithLoops' /\ OwnersAgreeWithActive'
  BY SMTT(30), <1>2 DEF SendPrepared, Launch, StartRows, StartFreshRun, SendToActiveRun,
    SteerMustQueue, AddSteer, QueueFollowUp, Rejected, Fresh
<1>3. ASSUME NEW t \in Threads, RetryMessage(t) PROVE ActiveAgreesWithLoops' /\ OwnersAgreeWithActive'
  BY <1>3 DEF RetryMessage, Fresh, Launch, StartRows
<1>4. ASSUME NEW t \in Threads, RequestRecap(t) PROVE ActiveAgreesWithLoops' /\ OwnersAgreeWithActive'
  BY <1>4 DEF RequestRecap, Fresh, Launch, StartRows
<1>5. ASSUME NEW t \in Threads, WithdrawPendingSteer(t) PROVE ActiveAgreesWithLoops' /\ OwnersAgreeWithActive'
  BY <1>5 DEF WithdrawPendingSteer, Withdraw, AfterWithdrawal
<1>6. ASSUME NEW t \in Threads, DeleteQueuedFollowUp(t) PROVE ActiveAgreesWithLoops' /\ OwnersAgreeWithActive'
  BY <1>6 DEF DeleteQueuedFollowUp, Withdraw
<1>7. ASSUME NEW r \in Runs, CancelRun(r) PROVE ActiveAgreesWithLoops' /\ OwnersAgreeWithActive'
  BY <1>7 DEF CancelRun, AbortReason, CancellableRow
<1>8. ASSUME NEW r \in Runs, Checkpoint(r) PROVE ActiveAgreesWithLoops' /\ OwnersAgreeWithActive'
  BY <1>8 DEF Checkpoint
<1>9. ASSUME NEW r \in Runs, RequestContextHandoff(r) PROVE ActiveAgreesWithLoops' /\ OwnersAgreeWithActive'
  BY <1>9 DEF RequestContextHandoff
<1>10. ASSUME NEW r \in Runs, LegCompletes(r) PROVE ActiveAgreesWithLoops' /\ OwnersAgreeWithActive'
  BY <1>10 DEF LegCompletes
<1>11. ASSUME NEW r \in Runs, LegRetries(r) PROVE ActiveAgreesWithLoops' /\ OwnersAgreeWithActive'
  BY <1>11 DEF LegRetries
<1>12. ASSUME NEW r \in Runs, LegFails(r) PROVE ActiveAgreesWithLoops' /\ OwnersAgreeWithActive'
  BY <1>12 DEF LegFails
<1>13. ASSUME NEW r \in Runs, ObserveAbort(r) PROVE ActiveAgreesWithLoops' /\ OwnersAgreeWithActive'
  BY <1>13 DEF ObserveAbort, AbortSeen
<1>14. ASSUME NEW r \in Runs, FailedRow(r) PROVE ActiveAgreesWithLoops' /\ OwnersAgreeWithActive'
  BY <1>14 DEF FailedRow
<1>15. ASSUME NEW r \in Runs, CancelledRow(r) PROVE ActiveAgreesWithLoops' /\ OwnersAgreeWithActive'
  BY <1>15 DEF CancelledRow
<1>16. ASSUME NEW r \in Runs, Release(r) PROVE ActiveAgreesWithLoops' /\ OwnersAgreeWithActive'
  BY SMTT(30), <1>16 DEF Release, ActiveWithout
<1>17. ASSUME NEW r \in Runs, LegReturns(r) PROVE ActiveAgreesWithLoops' /\ OwnersAgreeWithActive'
  BY <1>17 DEF LegReturns, QueuesSteersAfterTerminal
<1>18. ASSUME NEW r \in Runs, BackoffElapses(r) PROVE ActiveAgreesWithLoops' /\ OwnersAgreeWithActive'
  BY <1>18 DEF BackoffElapses
<1>19. ASSUME NEW r \in Runs, BackoffAborted(r) PROVE ActiveAgreesWithLoops' /\ OwnersAgreeWithActive'
  BY <1>19 DEF BackoffAborted
<1>20. ASSUME NEW r \in Runs, SteerLegReturns(r) PROVE ActiveAgreesWithLoops' /\ OwnersAgreeWithActive'
  BY <1>20 DEF SteerLegReturns
<1>21. ASSUME NEW r \in Runs, HandleSteerPending(r) PROVE ActiveAgreesWithLoops' /\ OwnersAgreeWithActive'
  BY <1>21 DEF HandleSteerPending, PersistSteers, CancelSteerPending
<1>22. ASSUME NEW r \in Runs, HandoffAnswers(r) PROVE ActiveAgreesWithLoops' /\ OwnersAgreeWithActive'
  BY <1>22 DEF HandoffAnswers, PersistSteers, CancelSteerPending
<1>23. ASSUME NEW r \in Runs, SteerLegStarts(r) PROVE ActiveAgreesWithLoops' /\ OwnersAgreeWithActive'
  BY <1>23 DEF SteerLegStarts
<1>24. ASSUME NEW r \in Runs, LoopEnds(r) PROVE ActiveAgreesWithLoops' /\ OwnersAgreeWithActive'
  <2> DEFINE ended == [pc EXCEPT ![r] = "done"]
  <2>1. ended \in [Runs -> Pcs] /\ Without(r) \in [Threads -> Runs \cup {NoRun}]
    OBVIOUS
  <2>2. \A q \in Runs : /\ ended[q] \in WorkPcs => q \in active \ {r}
                        /\ q \in active \ {r} => ended[q] \in WorkPcs \/ ended[q] = "final"
    BY SMTT(30), <1>24 DEF LoopEnds
  <2>3. /\ \A t \in Threads : Without(r)[t] # NoRun =>
                 Without(r)[t] \in active \ {r} /\ ThreadOfRun[Without(r)[t]] = t
        /\ \A q \in active \ {r} : ~IsRecap(q) => Without(r)[ThreadOfRun[q]] = q
    OBVIOUS
  <2>4. CASE StartsFollowUp(r)
    <3>1. PICK next \in Fresh("chat") :
            /\ ThreadOfRun[next] = ThreadOfRun[r]
            /\ Launch({next}, active \ {r}, Without(r), ended)
      BY <1>24, <2>4 DEF LoopEnds
    <3>2. next \in Runs /\ Without(r)[ThreadOfRun[next]] = NoRun
      BY <2>4, <3>1 DEF Fresh, StartsFollowUp
    <3> HIDE DEF ended
    <3> QED BY SMTT(30), <2>1, <2>2, <2>3, <3>1, <3>2, LaunchIndex
  <2>5. CASE ~StartsFollowUp(r)
    <3>1. Launch({}, active \ {r}, Without(r), ended)
      BY <1>24, <2>5 DEF LoopEnds
    <3> HIDE DEF ended
    <3> QED BY SMTT(30), <2>1, <2>2, <2>3, <3>1, LaunchIndex
  <2> QED BY <2>4, <2>5
<1>25. ASSUME NEW r \in Runs, LoopThrows(r) PROVE ActiveAgreesWithLoops' /\ OwnersAgreeWithActive'
  BY <1>25 DEF LoopThrows, Caught
<1>26. ASSUME CloseAdmission PROVE ActiveAgreesWithLoops' /\ OwnersAgreeWithActive'
  BY <1>26 DEF CloseAdmission
<1>27. ASSUME OpenAdmission PROVE ActiveAgreesWithLoops' /\ OwnersAgreeWithActive'
  <2>1. CASE closing # "no"
    BY <1>27, <2>1 DEF OpenAdmission
  <2>2. CASE closing = "no"
    <3>1. PICK recovered \in Recoverable(deferred) : StartWaiting(recovered, Waiting(recovered))
      BY <1>27, <2>2 DEF OpenAdmission
    <3>2. PICK started \in FollowUpRuns(Waiting(recovered)) :
            Launch(recovered \cup started, active, byThread, pc)
      BY <3>1 DEF StartWaiting
    <3>3. /\ started \subseteq Runs
          /\ \A r, q \in started : ThreadOfRun[r] = ThreadOfRun[q] => r = q
          /\ \A r \in started : /\ Idle(ThreadOfRun[r])
                                /\ \A q \in recovered : ThreadOfRun[q] # ThreadOfRun[r]
      BY DEF FollowUpRuns, Fresh, Waiting
    <3>4. /\ recovered \subseteq Runs
          /\ \A r, q \in recovered : ThreadOfRun[r] = ThreadOfRun[q] => r = q
          /\ \A r \in recovered : Idle(ThreadOfRun[r])
      BY DEF Recoverable, QueueOK
    <3>5. \A r, q \in recovered \cup started : ThreadOfRun[r] = ThreadOfRun[q] => r = q
      BY <3>3, <3>4
    <3> QED BY SMTT(30), <3>2, <3>3, <3>4, <3>5, LaunchIndex
  <2> QED BY <2>1, <2>2
<1>28. ASSUME Bootstrap PROVE ActiveAgreesWithLoops' /\ OwnersAgreeWithActive'
  BY <1>28 DEF Bootstrap, RecoverInterruptedRuns, InterruptedRows
<1>29. ASSUME BootstrapReturns PROVE ActiveAgreesWithLoops' /\ OwnersAgreeWithActive'
  BY <1>29 DEF BootstrapReturns, Listed
<1>30. ASSUME ResumeTimer PROVE ActiveAgreesWithLoops' /\ OwnersAgreeWithActive'
  <2>1. CASE closing # "no" \/ ~admission
    BY <1>30, <2>1 DEF ResumeTimer
  <2>2. CASE ~(closing # "no" \/ ~admission)
    <3>1. PICK recovered \in Recoverable(deferred) : Launch(recovered, active, byThread, pc)
      BY <1>30, <2>2 DEF ResumeTimer
    <3>2. /\ recovered \subseteq Runs
          /\ \A r, q \in recovered : ThreadOfRun[r] = ThreadOfRun[q] => r = q
          /\ \A r \in recovered : Idle(ThreadOfRun[r])
      BY DEF Recoverable, QueueOK
    <3> QED BY SMTT(30), <3>1, <3>2, LaunchIndex
  <2> QED BY <2>1, <2>2
<1>31. ASSUME Close PROVE ActiveAgreesWithLoops' /\ OwnersAgreeWithActive'
  BY <1>31 DEF Close
<1>32. ASSUME CloseCollects PROVE ActiveAgreesWithLoops' /\ OwnersAgreeWithActive'
  BY <1>32 DEF CloseCollects
<1>33. ASSUME CloseEnds PROVE ActiveAgreesWithLoops' /\ OwnersAgreeWithActive'
  BY <1>33 DEF CloseEnds, NewProcess, RecoverInterruptedRuns, InterruptedRows
<1>34. ASSUME Crash PROVE ActiveAgreesWithLoops' /\ OwnersAgreeWithActive'
  BY <1>34 DEF Crash, NewProcess
<1>35. CASE UNCHANGED vars
  BY <1>35 DEF vars
<1> QED BY <1>1, <1>2, <1>3, <1>4, <1>5, <1>6, <1>7, <1>8, <1>9, <1>10, <1>11, <1>12,
  <1>13, <1>14, <1>15, <1>16, <1>17, <1>18, <1>19, <1>20, <1>21, <1>22, <1>23, <1>24,
  <1>25, <1>26, <1>27, <1>28, <1>29, <1>30, <1>31, <1>32, <1>33, <1>34, <1>35 DEF
  Next, LoopStep, LegStep, BetweenLegs
--------------------------------------------------------------------------------
(***************************************************************************)
(* What storage may say of a run: RecapLeavesNoRow, RunningRowIsUnfinished,*)
(* DeferredIsDormant and TerminalRunIsClosed are inductive together, given *)
(* the indexes: a row that says 'running' in an idle thread has no loop.   *)
(***************************************************************************)
RowInv ==
  RecapLeavesNoRow /\ RunningRowIsUnfinished /\ DeferredIsDormant /\ TerminalRunIsClosed

\* Terminal writes, recoveries and cancels keep rows, checkpoints and deferred
\* runs in agreement with the loops.
LEMMA RowStep ==
  ASSUME TypeOK, ActiveAgreesWithLoops, OwnersAgreeWithActive, RowInv, [Next]_vars
  PROVE  RowInv'
<1> USE DEF TypeOK, StorageOK, LoopOK, QueueOK, ActiveAgreesWithLoops,
            OwnersAgreeWithActive, Working, UnfinishedPcs,
            RowInv, RecapLeavesNoRow, RunningRowIsUnfinished, DeferredIsDormant,
            TerminalRunIsClosed
<1>1. ASSUME NEW m \in Msgs, SendChat(m) PROVE RowInv'
  BY <1>1 DEF SendChat
<1>2. ASSUME NEW m \in Msgs, SendPrepared(m) PROVE RowInv'
  BY SMTT(30), <1>2 DEF SendPrepared, Launch, StartRows, StartFreshRun, SendToActiveRun,
    SteerMustQueue, AddSteer, QueueFollowUp, Rejected, Fresh
<1>3. ASSUME NEW t \in Threads, RetryMessage(t) PROVE RowInv'
  BY <1>3 DEF RetryMessage, Fresh, Launch, StartRows
<1>4. ASSUME NEW t \in Threads, RequestRecap(t) PROVE RowInv'
  BY <1>4 DEF RequestRecap, Fresh, Launch, StartRows
<1>5. ASSUME NEW t \in Threads, WithdrawPendingSteer(t) PROVE RowInv'
  BY <1>5 DEF WithdrawPendingSteer, Withdraw, AfterWithdrawal
<1>6. ASSUME NEW t \in Threads, DeleteQueuedFollowUp(t) PROVE RowInv'
  BY <1>6 DEF DeleteQueuedFollowUp, Withdraw
<1>7. ASSUME NEW r \in Runs, CancelRun(r) PROVE RowInv'
  BY <1>7 DEF CancelRun, AbortReason, CancellableRow
<1>8. ASSUME NEW r \in Runs, Checkpoint(r) PROVE RowInv'
  BY <1>8 DEF Checkpoint
<1>9. ASSUME NEW r \in Runs, RequestContextHandoff(r) PROVE RowInv'
  BY <1>9 DEF RequestContextHandoff
<1>10. ASSUME NEW r \in Runs, LegCompletes(r) PROVE RowInv'
  BY <1>10 DEF LegCompletes
<1>11. ASSUME NEW r \in Runs, LegRetries(r) PROVE RowInv'
  BY <1>11 DEF LegRetries
<1>12. ASSUME NEW r \in Runs, LegFails(r) PROVE RowInv'
  BY <1>12 DEF LegFails
<1>13. ASSUME NEW r \in Runs, ObserveAbort(r) PROVE RowInv'
  BY <1>13 DEF ObserveAbort, AbortSeen
<1>14. ASSUME NEW r \in Runs, FailedRow(r) PROVE RowInv'
  BY <1>14 DEF FailedRow
<1>15. ASSUME NEW r \in Runs, CancelledRow(r) PROVE RowInv'
  BY <1>15 DEF CancelledRow
<1>16. ASSUME NEW r \in Runs, Release(r) PROVE RowInv'
  BY <1>16 DEF Release, ActiveWithout
<1>17. ASSUME NEW r \in Runs, LegReturns(r) PROVE RowInv'
  BY <1>17 DEF LegReturns, QueuesSteersAfterTerminal
<1>18. ASSUME NEW r \in Runs, BackoffElapses(r) PROVE RowInv'
  BY <1>18 DEF BackoffElapses
<1>19. ASSUME NEW r \in Runs, BackoffAborted(r) PROVE RowInv'
  BY <1>19 DEF BackoffAborted
<1>20. ASSUME NEW r \in Runs, SteerLegReturns(r) PROVE RowInv'
  BY <1>20 DEF SteerLegReturns
<1>21. ASSUME NEW r \in Runs, HandleSteerPending(r) PROVE RowInv'
  BY <1>21 DEF HandleSteerPending, PersistSteers, CancelSteerPending
<1>22. ASSUME NEW r \in Runs, HandoffAnswers(r) PROVE RowInv'
  <2>1. PICK left \in SUBSET steers[r] : CancelSteerPending(r) \/ PersistSteers(r, left)
    BY <1>22 DEF HandoffAnswers
  <2>2. UNCHANGED <<active, byThread, abort, phase, queueVars, lifeVars, send>>
        /\ handoff' = [handoff EXCEPT ![r] = FALSE]
    BY <1>22 DEF HandoffAnswers
  <2>3. CASE CancelSteerPending(r)
    BY SMTT(30), <1>22, <2>2, <2>3 DEF HandoffAnswers, CancelSteerPending
  <2>4. CASE PersistSteers(r, left)
    BY SMTT(30), <1>22, <2>1, <2>2, <2>4 DEF HandoffAnswers, PersistSteers
  <2> QED BY <2>1, <2>3, <2>4
<1>23. ASSUME NEW r \in Runs, SteerLegStarts(r) PROVE RowInv'
  BY <1>23 DEF SteerLegStarts
<1>24. ASSUME NEW r \in Runs, LoopEnds(r) PROVE RowInv'
  <2>1. /\ pc[r] = "final" /\ UNCHANGED <<checkpoint, outcome, deferred, timer, lifeVars, send>>
        /\ phase' = [phase EXCEPT ![r] = "generating"]
        /\ steers' = [steers EXCEPT ![r] = {}] /\ abort' = [abort EXCEPT ![r] = "none"]
        /\ handoff' = [handoff EXCEPT ![r] = FALSE]
    BY <1>24 DEF LoopEnds
  <2>2. CASE StartsFollowUp(r)
    <3>1. PICK next \in Fresh("chat") :
            /\ StartRows({next}, drafts[ThreadOfRun[r]])
            /\ Launch({next}, active \ {r}, Without(r), [pc EXCEPT ![r] = "done"])
      BY <1>24, <2>2 DEF LoopEnds
    <3>2. next \in Runs /\ pc[next] = "idle" /\ row[next] = "none" /\ KindOfRun[next] = "chat"
      BY DEF Fresh
    <3> QED BY SMTT(30), <2>1, <3>1, <3>2 DEF Launch, StartRows
  <2>3. CASE ~StartsFollowUp(r)
    BY SMTT(30), <1>24, <2>1, <2>3 DEF LoopEnds, Launch
  <2> QED BY <2>2, <2>3
<1>25. ASSUME NEW r \in Runs, LoopThrows(r) PROVE RowInv'
  BY <1>25 DEF LoopThrows, Caught
<1>26. ASSUME CloseAdmission PROVE RowInv'
  BY <1>26 DEF CloseAdmission
<1>27. ASSUME OpenAdmission PROVE RowInv'
  BY SMTT(30), <1>27 DEF OpenAdmission, Recoverable, FollowUpRuns, Fresh, Waiting,
    StartWaiting, Launch, StartRows
<1>28. ASSUME Bootstrap PROVE RowInv'
  BY <1>28 DEF Bootstrap, RecoverInterruptedRuns, InterruptedRows
<1>29. ASSUME BootstrapReturns PROVE RowInv'
  BY SMTT(30), <1>29 DEF BootstrapReturns, Listed
<1>30. ASSUME ResumeTimer PROVE RowInv'
  BY <1>30 DEF ResumeTimer, Recoverable, Launch, StartRows
<1>31. ASSUME Close PROVE RowInv'
  BY <1>31 DEF Close
<1>32. ASSUME CloseCollects PROVE RowInv'
  BY <1>32 DEF CloseCollects
<1>33. ASSUME CloseEnds PROVE RowInv'
  BY <1>33 DEF CloseEnds, NewProcess, RecoverInterruptedRuns, InterruptedRows
<1>34. ASSUME Crash PROVE RowInv'
  BY <1>34 DEF Crash, NewProcess
<1>35. CASE UNCHANGED vars
  BY <1>35 DEF vars
<1> QED BY <1>1, <1>2, <1>3, <1>4, <1>5, <1>6, <1>7, <1>8, <1>9, <1>10, <1>11, <1>12,
  <1>13, <1>14, <1>15, <1>16, <1>17, <1>18, <1>19, <1>20, <1>21, <1>22, <1>23, <1>24,
  <1>25, <1>26, <1>27, <1>28, <1>29, <1>30, <1>31, <1>32, <1>33, <1>34, <1>35 DEF
  Next, LoopStep, LegStep, BetweenLegs

\* OwnershipInv is inductive.
LEMMA OwnershipStep == ASSUME OwnershipInv, [Next]_vars PROVE OwnershipInv'
<1> USE DEF OwnershipInv, RowInv
<1>1. TypeOK'
  BY TypeStep
<1>2. ActiveAgreesWithLoops' /\ OwnersAgreeWithActive'
  BY IndexStep
<1>3. RowInv'
  BY RowStep
<1> QED BY <1>1, <1>2, <1>3
--------------------------------------------------------------------------------
(***************************************************************************)
(* Messages: MessageInv.  A message enters when its send is accepted and   *)
(* leaves when it is taken back; in between it moves from one place to     *)
(* another.                                                                *)
(***************************************************************************)
\* A step that saves only what it takes out of a run or a draft keeps every
\* message in one place.
LEMMA Delivery ==
  ASSUME TypeOK, MessageInv, send' = send,
         \A r \in Runs : steers'[r] \subseteq steers[r],
         \A t \in Threads : drafts'[t] \subseteq drafts[t],
         \A x \in Msgs : x \in history' =>
           \/ x \in history
           \/ \E r \in Runs : x \in steers[r] /\ x \notin steers'[r]
           \/ \E t \in Threads : x \in drafts[t] /\ x \notin drafts'[t]
  PROVE  MessageInv'
<1> USE DEF MessageInv, OnePlacePerMessage, OnePlace, Held
<1>1. \A x \in Msgs : Held(x)' => Held(x)
  OBVIOUS
<1>2. \A x \in Msgs : x \in history' => /\ \A r \in Runs : x \notin steers'[r]
                                       /\ \A t \in Threads : x \notin drafts'[t]
  OBVIOUS
<1>3. OnePlacePerMessage'
  BY <1>2
<1> QED BY <1>1, <1>3

\* A message that stays where it is stays in one place.
LEMMA PlacesKept ==
  ASSUME NEW x \in Msgs, OnePlace(x),
         x \in history' <=> x \in history,
         \A r \in Runs : x \in steers'[r] <=> x \in steers[r],
         \A t \in Threads : x \in drafts'[t] <=> x \in drafts[t]
  PROVE  OnePlace(x)' /\ (Held(x)' => Held(x))
  BY DEF OnePlace, Held

\* persistSteerMessages: the run's steers are saved and cleared.
LEMMA PersistDelivers ==
  ASSUME TypeOK, MessageInv, NEW r \in Runs, NEW inputs \in SUBSET steers[r],
         PersistSteers(r, inputs), UNCHANGED <<drafts, send>>
  PROVE  MessageInv'
<1>1. /\ history' = history \cup (inputs \cap Msgs)
      /\ \A q \in Runs : steers'[q] = IF q = r THEN {} ELSE steers[q]
  BY DEF PersistSteers, TypeOK, LoopOK
<1> QED BY <1>1, Delivery

\* Sends, withdrawals, deliveries and restarts keep every accepted message in
\* one place and nothing else anywhere.
LEMMA MessageStep == ASSUME TypeOK, MessageInv, [Next]_vars PROVE MessageInv'
<1> USE DEF TypeOK, StorageOK, LoopOK, QueueOK, SendOK,
            MessageInv, OnePlacePerMessage, OnePlace, Held
<1>1. ASSUME NEW m \in Msgs, SendChat(m) PROVE MessageInv'
  BY <1>1 DEF SendChat
<1>2. ASSUME NEW m \in Msgs, SendPrepared(m) PROVE MessageInv'
  <2>1. ~Held(m)
    BY <1>2 DEF SendPrepared
  <2>2. ASSUME StartFreshRun(m) PROVE MessageInv'
    <3>1. /\ UNCHANGED <<steers, drafts>>
          /\ \A x \in Msgs : x # m => /\ send'[x] = send[x]
                                      /\ x \in history' <=> x \in history
          /\ m \in history' => m \in history \/ send'[m] = "accepted"
      <4>1. CASE admission
        <5>1. /\ history' = history \cup ({m} \cap Msgs)
              /\ send' = [send EXCEPT ![m] = "accepted"]
              /\ UNCHANGED <<steers, drafts>>
          BY <2>2, <4>1 DEF StartFreshRun, StartRows
        <5> QED BY <5>1
      <4>2. CASE ~admission
        BY <2>2, <4>2 DEF StartFreshRun
      <4> QED BY <4>1, <4>2
    <3>2. ASSUME NEW x \in Msgs PROVE OnePlace(x)' /\ (Held(x)' => send'[x] = "accepted")
      <4>1. CASE x = m
        BY <2>1, <3>1, <4>1
      <4>2. CASE x # m
        <5>1. x \in history' <=> x \in history
          BY <3>1, <4>2
        <5>2. ASSUME NEW q \in Runs PROVE x \in steers'[q] <=> x \in steers[q]
          BY <3>1, <4>2
        <5>3. ASSUME NEW t \in Threads PROVE x \in drafts'[t] <=> x \in drafts[t]
          BY <3>1, <4>2
        <5>4. send'[x] = send[x]
          BY <3>1, <4>2
        <5> QED BY <5>1, <5>2, <5>3, <5>4, PlacesKept
      <4> QED BY <4>1, <4>2
    <3> QED BY <3>2
  <2>3. ASSUME NEW r \in Runs, AddSteer(m, r) PROVE MessageInv'
    <3>1. /\ UNCHANGED <<history, drafts>>
          /\ \A q \in Runs : steers'[q] = IF q = r THEN steers[q] \cup {m} ELSE steers[q]
          /\ \A x \in Msgs : send'[x] = IF x = m THEN "accepted" ELSE send[x]
      BY <2>3 DEF AddSteer
    <3>2. ASSUME NEW x \in Msgs PROVE OnePlace(x)' /\ (Held(x)' => send'[x] = "accepted")
      <4>1. CASE x = m
        <5>1. x \notin history' /\ \A q \in Runs : x \in steers'[q] => q = r
          BY <2>1, <3>1, <4>1
        <5>2. \A t \in Threads : x \notin drafts'[t]
          BY <2>1, <3>1, <4>1
        <5>3. send'[x] = "accepted"
          BY <3>1, <4>1
        <5> QED BY <5>1, <5>2, <5>3
      <4>2. CASE x # m
        <5>1. x \in history' <=> x \in history
          BY <3>1, <4>2
        <5>2. ASSUME NEW q \in Runs PROVE x \in steers'[q] <=> x \in steers[q]
          <6>1. steers'[q] = steers[q] \/ steers'[q] = steers[q] \cup {m}
            BY <3>1
          <6>2. x \notin {m}
            BY <4>2
          <6> QED BY <6>1, <6>2
        <5>3. ASSUME NEW t \in Threads PROVE x \in drafts'[t] <=> x \in drafts[t]
          BY <3>1, <4>2
        <5>4. send'[x] = send[x]
          BY <3>1, <4>2
        <5> QED BY <5>1, <5>2, <5>3, <5>4, PlacesKept
      <4> QED BY <4>1, <4>2
    <3> QED BY <3>2
  <2>4. ASSUME QueueFollowUp(m) PROVE MessageInv'
    <3>1. /\ UNCHANGED <<history, steers>>
          /\ \A t \in Threads : drafts'[t] = IF t = ThreadOfMsg[m] THEN drafts[t] \cup {m} ELSE drafts[t]
          /\ \A x \in Msgs : send'[x] = IF x = m THEN "accepted" ELSE send[x]
      BY <2>4 DEF QueueFollowUp
    <3>2. ASSUME NEW x \in Msgs PROVE OnePlace(x)' /\ (Held(x)' => send'[x] = "accepted")
      <4>1. CASE x = m
        BY <2>1, <3>1, <4>1
      <4>2. CASE x # m
        <5>1. x \in history' <=> x \in history
          BY <3>1, <4>2
        <5>2. ASSUME NEW q \in Runs PROVE x \in steers'[q] <=> x \in steers[q]
          BY <3>1, <4>2
        <5>3. ASSUME NEW t \in Threads PROVE x \in drafts'[t] <=> x \in drafts[t]
          <6>1. drafts'[t] = drafts[t] \/ drafts'[t] = drafts[t] \cup {m}
            BY <3>1
          <6>2. x \notin {m}
            BY <4>2
          <6> QED BY <6>1, <6>2
        <5>4. send'[x] = send[x]
          BY <3>1, <4>2
        <5> QED BY <5>1, <5>2, <5>3, <5>4, PlacesKept
      <4> QED BY <4>1, <4>2
    <3> QED BY <3>2
  <2>5. ASSUME Rejected(m) PROVE MessageInv'
    <3>1. /\ UNCHANGED <<history, steers, drafts>>
          /\ \A x \in Msgs : send'[x] = IF x = m THEN "rejected" ELSE send[x]
      BY <2>5 DEF Rejected
    <3>2. ASSUME NEW x \in Msgs PROVE OnePlace(x)' /\ (Held(x)' => send'[x] = "accepted")
      <4>1. OnePlace(x)' /\ (Held(x)' => Held(x))
        BY <3>1
      <4>2. CASE x = m
        BY <2>1, <4>1, <4>2
      <4>3. CASE x # m
        BY <3>1, <4>1, <4>3
      <4> QED BY <4>2, <4>3
    <3> QED BY <3>2
  <2> QED BY <1>2, <2>2, <2>3, <2>4, <2>5 DEF SendPrepared, SendToActiveRun
<1>3. ASSUME NEW t \in Threads, RetryMessage(t) PROVE MessageInv'
  BY <1>3 DEF RetryMessage, Fresh, Launch, StartRows
<1>4. ASSUME NEW t \in Threads, RequestRecap(t) PROVE MessageInv'
  BY <1>4 DEF RequestRecap, Fresh, Launch, StartRows
<1>5. ASSUME NEW t \in Threads, WithdrawPendingSteer(t) PROVE MessageInv'
  BY <1>5 DEF WithdrawPendingSteer, Withdraw, AfterWithdrawal
<1>6. ASSUME NEW t \in Threads, DeleteQueuedFollowUp(t) PROVE MessageInv'
  BY <1>6 DEF DeleteQueuedFollowUp, Withdraw
<1>7. ASSUME NEW r \in Runs, CancelRun(r) PROVE MessageInv'
  BY <1>7 DEF CancelRun, AbortReason, CancellableRow
<1>8. ASSUME NEW r \in Runs, Checkpoint(r) PROVE MessageInv'
  BY <1>8 DEF Checkpoint
<1>9. ASSUME NEW r \in Runs, RequestContextHandoff(r) PROVE MessageInv'
  BY <1>9 DEF RequestContextHandoff
<1>10. ASSUME NEW r \in Runs, LegCompletes(r) PROVE MessageInv'
  BY <1>10 DEF LegCompletes
<1>11. ASSUME NEW r \in Runs, LegRetries(r) PROVE MessageInv'
  BY <1>11 DEF LegRetries
<1>12. ASSUME NEW r \in Runs, LegFails(r) PROVE MessageInv'
  BY <1>12 DEF LegFails
<1>13. ASSUME NEW r \in Runs, ObserveAbort(r) PROVE MessageInv'
  BY <1>13 DEF ObserveAbort, AbortSeen
<1>14. ASSUME NEW r \in Runs, FailedRow(r) PROVE MessageInv'
  BY <1>14 DEF FailedRow
<1>15. ASSUME NEW r \in Runs, CancelledRow(r) PROVE MessageInv'
  BY <1>15 DEF CancelledRow
<1>16. ASSUME NEW r \in Runs, Release(r) PROVE MessageInv'
  BY <1>16 DEF Release, ActiveWithout
<1>17. ASSUME NEW r \in Runs, LegReturns(r) PROVE MessageInv'
  <2>1. CASE QueuesSteersAfterTerminal(r)
    <3>1. /\ UNCHANGED <<history, send>>
          /\ \A q \in Runs : steers'[q] = IF q = r THEN {} ELSE steers[q]
          /\ \A t \in Threads :
               drafts'[t] = IF t = ThreadOfRun[r] THEN drafts[t] \cup steers[r] ELSE drafts[t]
      BY <1>17, <2>1 DEF LegReturns
    <3>2. ASSUME NEW x \in Msgs PROVE OnePlace(x)' /\ (Held(x)' => send'[x] = "accepted")
      <4>1. CASE x \in steers[r]
        <5>1. /\ x \notin history /\ send[x] = "accepted"
              /\ \A q \in Runs : x \in steers[q] => q = r
              /\ \A t \in Threads : x \notin drafts[t]
          BY <4>1
        <5>2. /\ x \notin history' /\ send'[x] = "accepted"
              /\ \A q \in Runs : x \notin steers'[q]
              /\ \A t \in Threads : x \in drafts'[t] => t = ThreadOfRun[r]
          BY <3>1, <5>1
        <5> QED BY <5>2
      <4>2. CASE x \notin steers[r]
        <5>1. x \in history' <=> x \in history
          BY <3>1, <4>2
        <5>2. ASSUME NEW q \in Runs PROVE x \in steers'[q] <=> x \in steers[q]
          BY <3>1, <4>2
        <5>3. ASSUME NEW t \in Threads PROVE x \in drafts'[t] <=> x \in drafts[t]
          <6>1. drafts'[t] = drafts[t] \/ drafts'[t] = drafts[t] \cup steers[r]
            BY <3>1
          <6> QED BY <6>1, <4>2
        <5>4. send'[x] = send[x]
          BY <3>1, <4>2
        <5> QED BY <5>1, <5>2, <5>3, <5>4, PlacesKept
      <4> QED BY <4>1, <4>2
    <3> QED BY <3>2
  <2>2. CASE ~QueuesSteersAfterTerminal(r)
    BY <1>17, <2>2 DEF LegReturns
  <2> QED BY <2>1, <2>2
<1>18. ASSUME NEW r \in Runs, BackoffElapses(r) PROVE MessageInv'
  BY <1>18 DEF BackoffElapses
<1>19. ASSUME NEW r \in Runs, BackoffAborted(r) PROVE MessageInv'
  BY <1>19 DEF BackoffAborted
<1>20. ASSUME NEW r \in Runs, SteerLegReturns(r) PROVE MessageInv'
  BY <1>20 DEF SteerLegReturns
<1>21. ASSUME NEW r \in Runs, HandleSteerPending(r) PROVE MessageInv'
  <2>1. CASE steers[r] = {} /\ CancelSteerPending(r)
    <3>1. \A q \in Runs : steers'[q] \subseteq steers[q]
      BY <2>1 DEF CancelSteerPending
    <3> QED BY <1>21, <2>1, <3>1, Delivery DEF HandleSteerPending, CancelSteerPending
  <2>2. CASE UNCHANGED <<storageVars, steers>>
    BY <1>21, <2>2 DEF HandleSteerPending
  <2>3. CASE PersistSteers(r, steers[r])
    BY <1>21, <2>3, PersistDelivers DEF HandleSteerPending
  <2> QED BY <1>21, <2>1, <2>2, <2>3 DEF HandleSteerPending
<1>22. ASSUME NEW r \in Runs, HandoffAnswers(r) PROVE MessageInv'
  <2>1. PICK left \in SUBSET steers[r] : CancelSteerPending(r) \/ PersistSteers(r, left)
    BY <1>22 DEF HandoffAnswers
  <2>2. CASE CancelSteerPending(r)
    <3>1. \A q \in Runs : steers'[q] \subseteq steers[q]
      BY <2>2 DEF CancelSteerPending
    <3> QED BY <1>22, <2>2, <3>1, Delivery DEF HandoffAnswers, CancelSteerPending
  <2>3. CASE PersistSteers(r, left)
    BY <1>22, <2>3, PersistDelivers DEF HandoffAnswers
  <2> QED BY <2>1, <2>2, <2>3
<1>23. ASSUME NEW r \in Runs, SteerLegStarts(r) PROVE MessageInv'
  BY <1>23 DEF SteerLegStarts
<1>24. ASSUME NEW r \in Runs, LoopEnds(r) PROVE MessageInv'
  <2>1. send' = send /\ \A q \in Runs : steers'[q] \subseteq steers[q]
    BY <1>24 DEF LoopEnds
  <2>2. CASE StartsFollowUp(r)
    <3>1. /\ history' = history \cup (drafts[ThreadOfRun[r]] \cap Msgs)
          /\ drafts' = [drafts EXCEPT ![ThreadOfRun[r]] = {}]
      BY <1>24, <2>2 DEF LoopEnds, StartRows
    <3>2. \A t \in Threads : drafts'[t] = IF t = ThreadOfRun[r] THEN {} ELSE drafts[t]
      BY <3>1
    <3> QED BY SMTT(30), <2>1, <3>1, <3>2, Delivery
  <2>3. CASE ~StartsFollowUp(r)
    <3>1. UNCHANGED <<history, drafts>>
      BY <1>24, <2>3 DEF LoopEnds
    <3> QED BY <2>1, <3>1, Delivery
  <2> QED BY <2>2, <2>3
<1>25. ASSUME NEW r \in Runs, LoopThrows(r) PROVE MessageInv'
  BY <1>25 DEF LoopThrows, Caught
<1>26. ASSUME CloseAdmission PROVE MessageInv'
  BY <1>26 DEF CloseAdmission
<1>27. ASSUME OpenAdmission PROVE MessageInv'
  <2>1. send' = send /\ steers' = steers
    BY <1>27 DEF OpenAdmission
  <2>2. CASE closing # "no"
    <3>1. UNCHANGED <<history, drafts>>
      BY <1>27, <2>2 DEF OpenAdmission
    <3> QED BY <2>1, <3>1
  <2>3. CASE closing = "no"
    <3>1. PICK recovered \in Recoverable(deferred) : StartWaiting(recovered, Waiting(recovered))
      BY <1>27, <2>3 DEF OpenAdmission
    <3> DEFINE waiting == Waiting(recovered)
    <3>6. waiting \subseteq Threads
      BY DEF Waiting
    <3>7. PICK started \in FollowUpRuns(waiting) :
            /\ StartRows(started, UNION {drafts[t] : t \in waiting})
            /\ drafts' = [t \in Threads |-> IF t \in waiting THEN {} ELSE drafts[t]]
      BY <3>1 DEF StartWaiting
    <3> HIDE DEF waiting
    <3>4. history' = history \cup ((UNION {drafts[t] : t \in waiting}) \cap Msgs)
      BY <3>7 DEF StartRows
    <3>5. drafts' = [t \in Threads |-> IF t \in waiting THEN {} ELSE drafts[t]]
      BY <3>7
    <3>2. \A t \in Threads : drafts'[t] = IF t \in waiting THEN {} ELSE drafts[t]
      BY <3>5
    <3>3. \A x \in Msgs : x \in history' => x \in history \/ \E t \in waiting : x \in drafts[t]
      BY <3>4
    <3> QED BY <2>1, <3>2, <3>3, <3>6, Delivery
  <2> QED BY <2>2, <2>3
<1>28. ASSUME Bootstrap PROVE MessageInv'
  BY <1>28 DEF Bootstrap, RecoverInterruptedRuns, InterruptedRows
<1>29. ASSUME BootstrapReturns PROVE MessageInv'
  BY <1>29 DEF BootstrapReturns, Listed
<1>30. ASSUME ResumeTimer PROVE MessageInv'
  BY <1>30 DEF ResumeTimer, Recoverable, Launch, StartRows
<1>31. ASSUME Close PROVE MessageInv'
  BY <1>31 DEF Close
<1>32. ASSUME CloseCollects PROVE MessageInv'
  BY <1>32 DEF CloseCollects
<1>33. ASSUME CloseEnds PROVE MessageInv'
  BY <1>33 DEF CloseEnds, NewProcess, RecoverInterruptedRuns, InterruptedRows
<1>34. ASSUME Crash PROVE MessageInv'
  BY <1>34 DEF Crash, NewProcess
<1>35. CASE UNCHANGED vars
  BY <1>35 DEF vars
<1> QED BY <1>1, <1>2, <1>3, <1>4, <1>5, <1>6, <1>7, <1>8, <1>9, <1>10, <1>11, <1>12,
  <1>13, <1>14, <1>15, <1>16, <1>17, <1>18, <1>19, <1>20, <1>21, <1>22, <1>23, <1>24,
  <1>25, <1>26, <1>27, <1>28, <1>29, <1>30, <1>31, <1>32, <1>33, <1>34, <1>35 DEF
  Next, LoopStep, LegStep, BetweenLegs
--------------------------------------------------------------------------------
(***************************************************************************)
(* Outcomes, pending steers at the end of a run, and owned rows.           *)
(***************************************************************************)
\* What a loop reports keeps agreeing with the row.
LEMMA OutcomeStep == ASSUME OwnershipInv, OutcomeInv, [Next]_vars PROVE OutcomeInv'
<1> USE DEF OwnershipInv, TypeOK, StorageOK, LoopOK, QueueOK, ActiveAgreesWithLoops,
            Working, RunningRowIsUnfinished, UnfinishedPcs, DeferredIsDormant,
            OutcomeInv, StatusesFor
<1>1. ASSUME NEW m \in Msgs, SendChat(m) PROVE OutcomeInv'
  BY <1>1 DEF SendChat
<1>2. ASSUME NEW m \in Msgs, SendPrepared(m) PROVE OutcomeInv'
  BY SMTT(30), <1>2 DEF SendPrepared, Launch, StartRows, StartFreshRun, SendToActiveRun,
    SteerMustQueue, AddSteer, QueueFollowUp, Rejected, Fresh
<1>3. ASSUME NEW t \in Threads, RetryMessage(t) PROVE OutcomeInv'
  BY <1>3 DEF RetryMessage, Fresh, Launch, StartRows
<1>4. ASSUME NEW t \in Threads, RequestRecap(t) PROVE OutcomeInv'
  BY <1>4 DEF RequestRecap, Fresh, Launch, StartRows
<1>5. ASSUME NEW t \in Threads, WithdrawPendingSteer(t) PROVE OutcomeInv'
  BY <1>5 DEF WithdrawPendingSteer, Withdraw, AfterWithdrawal
<1>6. ASSUME NEW t \in Threads, DeleteQueuedFollowUp(t) PROVE OutcomeInv'
  BY <1>6 DEF DeleteQueuedFollowUp, Withdraw
<1>7. ASSUME NEW r \in Runs, CancelRun(r) PROVE OutcomeInv'
  BY <1>7 DEF CancelRun, AbortReason, CancellableRow
<1>8. ASSUME NEW r \in Runs, Checkpoint(r) PROVE OutcomeInv'
  BY <1>8 DEF Checkpoint
<1>9. ASSUME NEW r \in Runs, RequestContextHandoff(r) PROVE OutcomeInv'
  BY <1>9 DEF RequestContextHandoff
<1>10. ASSUME NEW r \in Runs, LegCompletes(r) PROVE OutcomeInv'
  BY <1>10 DEF LegCompletes
<1>11. ASSUME NEW r \in Runs, LegRetries(r) PROVE OutcomeInv'
  BY <1>11 DEF LegRetries
<1>12. ASSUME NEW r \in Runs, LegFails(r) PROVE OutcomeInv'
  BY <1>12 DEF LegFails
<1>13. ASSUME NEW r \in Runs, ObserveAbort(r) PROVE OutcomeInv'
  BY <1>13 DEF ObserveAbort, AbortSeen
<1>14. ASSUME NEW r \in Runs, FailedRow(r) PROVE OutcomeInv'
  BY <1>14 DEF FailedRow
<1>15. ASSUME NEW r \in Runs, CancelledRow(r) PROVE OutcomeInv'
  BY <1>15 DEF CancelledRow
<1>16. ASSUME NEW r \in Runs, Release(r) PROVE OutcomeInv'
  BY <1>16 DEF Release, ActiveWithout
<1>17. ASSUME NEW r \in Runs, LegReturns(r) PROVE OutcomeInv'
  BY <1>17 DEF LegReturns, QueuesSteersAfterTerminal
<1>18. ASSUME NEW r \in Runs, BackoffElapses(r) PROVE OutcomeInv'
  BY <1>18 DEF BackoffElapses
<1>19. ASSUME NEW r \in Runs, BackoffAborted(r) PROVE OutcomeInv'
  BY <1>19 DEF BackoffAborted
<1>20. ASSUME NEW r \in Runs, SteerLegReturns(r) PROVE OutcomeInv'
  BY <1>20 DEF SteerLegReturns
<1>21. ASSUME NEW r \in Runs, HandleSteerPending(r) PROVE OutcomeInv'
  BY <1>21 DEF HandleSteerPending, PersistSteers, CancelSteerPending
<1>22. ASSUME NEW r \in Runs, HandoffAnswers(r) PROVE OutcomeInv'
  BY <1>22 DEF HandoffAnswers, PersistSteers, CancelSteerPending
<1>23. ASSUME NEW r \in Runs, SteerLegStarts(r) PROVE OutcomeInv'
  BY <1>23 DEF SteerLegStarts
<1>24. ASSUME NEW r \in Runs, LoopEnds(r) PROVE OutcomeInv'
  BY SMTT(30), <1>24 DEF LoopEnds, StartsFollowUp, Fresh, Launch, StartRows
<1>25. ASSUME NEW r \in Runs, LoopThrows(r) PROVE OutcomeInv'
  BY SMTT(30), <1>25 DEF LoopThrows, Caught
<1>26. ASSUME CloseAdmission PROVE OutcomeInv'
  BY <1>26 DEF CloseAdmission
<1>27. ASSUME OpenAdmission PROVE OutcomeInv'
  BY <1>27 DEF OpenAdmission, Recoverable, FollowUpRuns, Fresh, Waiting,
    StartWaiting, Launch, StartRows
<1>28. ASSUME Bootstrap PROVE OutcomeInv'
  BY <1>28 DEF Bootstrap, RecoverInterruptedRuns, InterruptedRows
<1>29. ASSUME BootstrapReturns PROVE OutcomeInv'
  BY <1>29 DEF BootstrapReturns, Listed
<1>30. ASSUME ResumeTimer PROVE OutcomeInv'
  BY <1>30 DEF ResumeTimer, Recoverable, Launch, StartRows
<1>31. ASSUME Close PROVE OutcomeInv'
  BY <1>31 DEF Close
<1>32. ASSUME CloseCollects PROVE OutcomeInv'
  BY <1>32 DEF CloseCollects
<1>33. ASSUME CloseEnds PROVE OutcomeInv'
  BY <1>33 DEF CloseEnds, NewProcess, RecoverInterruptedRuns, InterruptedRows
<1>34. ASSUME Crash PROVE OutcomeInv'
  BY <1>34 DEF Crash, NewProcess
<1>35. CASE UNCHANGED vars
  BY <1>35 DEF vars
<1> QED BY <1>1, <1>2, <1>3, <1>4, <1>5, <1>6, <1>7, <1>8, <1>9, <1>10, <1>11, <1>12,
  <1>13, <1>14, <1>15, <1>16, <1>17, <1>18, <1>19, <1>20, <1>21, <1>22, <1>23, <1>24,
  <1>25, <1>26, <1>27, <1>28, <1>29, <1>30, <1>31, <1>32, <1>33, <1>34, <1>35 DEF
  Next, LoopStep, LegStep, BetweenLegs

\* A run that leaves activeRuns on the ordinary path has nothing pending.
LEMMA SteersStep == ASSUME OwnershipInv, SteersInv, [Next]_vars PROVE SteersInv'
<1> USE DEF OwnershipInv, TypeOK, StorageOK, LoopOK, QueueOK, LifeOK, SendOK,
            ActiveAgreesWithLoops, OwnersAgreeWithActive, Working,
            TerminalRunIsClosed, SteersInv
<1>1. ASSUME NEW m \in Msgs, SendChat(m) PROVE SteersInv'
  BY <1>1 DEF SendChat
<1>2. ASSUME NEW m \in Msgs, SendPrepared(m) PROVE SteersInv'
  <2>1. closing' = closing
    BY <1>2 DEF SendPrepared
  <2>2. ASSUME StartFreshRun(m) PROVE SteersInv'
    <3>1. /\ UNCHANGED <<steers, phase>>
          /\ \A q \in Runs : \/ abort'[q] = abort[q]
                             \/ IsRecap(q) /\ abort[q] = "none" /\ abort'[q] = "plain"
      BY <2>2 DEF StartFreshRun
    <3>2. CASE admission
      <4>1. PICK q \in Fresh("chat") : Launch({q}, active, byThread, pc)
        BY <2>2, <3>2 DEF StartFreshRun
      <4>2. \A s \in Runs : /\ pc'[s] = IF s = q THEN "leg" ELSE pc[s]
                            /\ s \notin active' => s \notin active
        BY <4>1 DEF Launch
      <4> QED BY <2>1, <3>1, <4>2
    <3>3. CASE ~admission
      <4>1. UNCHANGED <<pc, active>>
        BY <2>2, <3>3 DEF StartFreshRun
      <4> QED BY <2>1, <3>1, <4>1
    <3> QED BY <3>2, <3>3
  <2>3. ASSUME NEW r \in active, AddSteer(m, r), ~SteerMustQueue(r), ~IsRecap(r)
        PROVE  SteersInv'
    <3>1. /\ UNCHANGED <<pc, active, abort, phase>>
          /\ steers' = [steers EXCEPT ![r] = @ \cup {m}]
      BY <2>3 DEF AddSteer
    <3>2. abort[r] = "none" /\ phase[r] = "generating"
      BY <2>3 DEF SteerMustQueue
    <3>3. ASSUME NEW q \in Runs, q # r PROVE steers'[q] = steers[q]
      BY <3>1, <3>3
    <3> QED BY <2>1, <2>3, <3>1, <3>2, <3>3
  <2>4. ASSUME QueueFollowUp(m) PROVE SteersInv'
    BY <2>1, <2>4 DEF QueueFollowUp
  <2>5. ASSUME Rejected(m) PROVE SteersInv'
    BY <2>1, <2>5 DEF Rejected
  <2> QED BY <1>2, <2>2, <2>3, <2>4, <2>5 DEF SendPrepared, SendToActiveRun
<1>3. ASSUME NEW t \in Threads, RetryMessage(t) PROVE SteersInv'
  BY <1>3 DEF RetryMessage, Fresh, Launch, StartRows
<1>4. ASSUME NEW t \in Threads, RequestRecap(t) PROVE SteersInv'
  BY <1>4 DEF RequestRecap, Fresh, Launch, StartRows
<1>5. ASSUME NEW t \in Threads, WithdrawPendingSteer(t) PROVE SteersInv'
  BY <1>5 DEF WithdrawPendingSteer, Withdraw, AfterWithdrawal
<1>6. ASSUME NEW t \in Threads, DeleteQueuedFollowUp(t) PROVE SteersInv'
  BY <1>6 DEF DeleteQueuedFollowUp, Withdraw
<1>7. ASSUME NEW r \in Runs, CancelRun(r) PROVE SteersInv'
  BY <1>7 DEF CancelRun, AbortReason, CancellableRow
<1>8. ASSUME NEW r \in Runs, Checkpoint(r) PROVE SteersInv'
  BY <1>8 DEF Checkpoint
<1>9. ASSUME NEW r \in Runs, RequestContextHandoff(r) PROVE SteersInv'
  BY <1>9 DEF RequestContextHandoff
<1>10. ASSUME NEW r \in Runs, LegCompletes(r) PROVE SteersInv'
  BY <1>10 DEF LegCompletes
<1>11. ASSUME NEW r \in Runs, LegRetries(r) PROVE SteersInv'
  BY <1>11 DEF LegRetries
<1>12. ASSUME NEW r \in Runs, LegFails(r) PROVE SteersInv'
  BY <1>12 DEF LegFails
<1>13. ASSUME NEW r \in Runs, ObserveAbort(r) PROVE SteersInv'
  BY <1>13 DEF ObserveAbort, AbortSeen
<1>14. ASSUME NEW r \in Runs, FailedRow(r) PROVE SteersInv'
  BY <1>14 DEF FailedRow
<1>15. ASSUME NEW r \in Runs, CancelledRow(r) PROVE SteersInv'
  BY <1>15 DEF CancelledRow
<1>16. ASSUME NEW r \in Runs, Release(r) PROVE SteersInv'
  BY <1>16 DEF Release, ActiveWithout
<1>17. ASSUME NEW r \in Runs, LegReturns(r) PROVE SteersInv'
  BY <1>17 DEF LegReturns, QueuesSteersAfterTerminal
<1>18. ASSUME NEW r \in Runs, BackoffElapses(r) PROVE SteersInv'
  BY <1>18 DEF BackoffElapses
<1>19. ASSUME NEW r \in Runs, BackoffAborted(r) PROVE SteersInv'
  BY <1>19 DEF BackoffAborted
<1>20. ASSUME NEW r \in Runs, SteerLegReturns(r) PROVE SteersInv'
  BY <1>20 DEF SteerLegReturns
<1>21. ASSUME NEW r \in Runs, HandleSteerPending(r) PROVE SteersInv'
  BY <1>21 DEF HandleSteerPending, PersistSteers, CancelSteerPending
<1>22. ASSUME NEW r \in Runs, HandoffAnswers(r) PROVE SteersInv'
  BY <1>22 DEF HandoffAnswers, PersistSteers, CancelSteerPending
<1>23. ASSUME NEW r \in Runs, SteerLegStarts(r) PROVE SteersInv'
  BY <1>23 DEF SteerLegStarts
<1>24. ASSUME NEW r \in Runs, LoopEnds(r) PROVE SteersInv'
  BY SMTT(30), <1>24 DEF LoopEnds, StartsFollowUp, Fresh, Launch, StartRows
<1>25. ASSUME NEW r \in Runs, LoopThrows(r) PROVE SteersInv'
  BY SMTT(30), <1>25 DEF LoopThrows, Caught
<1>26. ASSUME CloseAdmission PROVE SteersInv'
  BY <1>26 DEF CloseAdmission
<1>27. ASSUME OpenAdmission PROVE SteersInv'
  BY <1>27 DEF OpenAdmission, Recoverable, FollowUpRuns, Fresh, Waiting,
    StartWaiting, Launch, StartRows
<1>28. ASSUME Bootstrap PROVE SteersInv'
  BY <1>28 DEF Bootstrap, RecoverInterruptedRuns, InterruptedRows
<1>29. ASSUME BootstrapReturns PROVE SteersInv'
  BY <1>29 DEF BootstrapReturns, Listed
<1>30. ASSUME ResumeTimer PROVE SteersInv'
  BY <1>30 DEF ResumeTimer, Recoverable, Launch, StartRows
<1>31. ASSUME Close PROVE SteersInv'
  BY <1>31 DEF Close
<1>32. ASSUME CloseCollects PROVE SteersInv'
  BY <1>32 DEF CloseCollects
<1>33. ASSUME CloseEnds PROVE SteersInv'
  BY <1>33 DEF CloseEnds, NewProcess, RecoverInterruptedRuns, InterruptedRows
<1>34. ASSUME Crash PROVE SteersInv'
  BY <1>34 DEF Crash, NewProcess
<1>35. CASE UNCHANGED vars
  BY <1>35 DEF vars
<1> QED BY <1>1, <1>2, <1>3, <1>4, <1>5, <1>6, <1>7, <1>8, <1>9, <1>10, <1>11, <1>12,
  <1>13, <1>14, <1>15, <1>16, <1>17, <1>18, <1>19, <1>20, <1>21, <1>22, <1>23, <1>24,
  <1>25, <1>26, <1>27, <1>28, <1>29, <1>30, <1>31, <1>32, <1>33, <1>34, <1>35 DEF
  Next, LoopStep, LegStep, BetweenLegs

\* A row that says 'running' keeps its loop or its checkpoint.
LEMMA OwnedStep ==
  ASSUME OwnershipInv, RunningRowIsOwned, [Next]_vars
  PROVE  RunningRowIsOwned'
<1> USE DEF OwnershipInv, TypeOK, StorageOK, LoopOK, QueueOK, LifeOK,
            ActiveAgreesWithLoops, Working, RunningRowIsUnfinished, UnfinishedPcs,
            RecapLeavesNoRow, RunningRowIsOwned
<1>1. ASSUME NEW m \in Msgs, SendChat(m) PROVE RunningRowIsOwned'
  BY <1>1 DEF SendChat
<1>2. ASSUME NEW m \in Msgs, SendPrepared(m) PROVE RunningRowIsOwned'
  BY SMTT(30), <1>2 DEF SendPrepared, Launch, StartRows, StartFreshRun, SendToActiveRun,
    SteerMustQueue, AddSteer, QueueFollowUp, Rejected, Fresh
<1>3. ASSUME NEW t \in Threads, RetryMessage(t) PROVE RunningRowIsOwned'
  BY <1>3 DEF RetryMessage, Fresh, Launch, StartRows
<1>4. ASSUME NEW t \in Threads, RequestRecap(t) PROVE RunningRowIsOwned'
  BY <1>4 DEF RequestRecap, Fresh, Launch, StartRows
<1>5. ASSUME NEW t \in Threads, WithdrawPendingSteer(t) PROVE RunningRowIsOwned'
  BY <1>5 DEF WithdrawPendingSteer, Withdraw, AfterWithdrawal
<1>6. ASSUME NEW t \in Threads, DeleteQueuedFollowUp(t) PROVE RunningRowIsOwned'
  BY <1>6 DEF DeleteQueuedFollowUp, Withdraw
<1>7. ASSUME NEW r \in Runs, CancelRun(r) PROVE RunningRowIsOwned'
  BY <1>7 DEF CancelRun, AbortReason, CancellableRow
<1>8. ASSUME NEW r \in Runs, Checkpoint(r) PROVE RunningRowIsOwned'
  BY <1>8 DEF Checkpoint
<1>9. ASSUME NEW r \in Runs, RequestContextHandoff(r) PROVE RunningRowIsOwned'
  BY <1>9 DEF RequestContextHandoff
<1>10. ASSUME NEW r \in Runs, LegCompletes(r) PROVE RunningRowIsOwned'
  BY <1>10 DEF LegCompletes
<1>11. ASSUME NEW r \in Runs, LegRetries(r) PROVE RunningRowIsOwned'
  BY <1>11 DEF LegRetries
<1>12. ASSUME NEW r \in Runs, LegFails(r) PROVE RunningRowIsOwned'
  BY <1>12 DEF LegFails
<1>13. ASSUME NEW r \in Runs, ObserveAbort(r) PROVE RunningRowIsOwned'
  BY <1>13 DEF ObserveAbort, AbortSeen
<1>14. ASSUME NEW r \in Runs, FailedRow(r) PROVE RunningRowIsOwned'
  BY <1>14 DEF FailedRow
<1>15. ASSUME NEW r \in Runs, CancelledRow(r) PROVE RunningRowIsOwned'
  BY <1>15 DEF CancelledRow
<1>16. ASSUME NEW r \in Runs, Release(r) PROVE RunningRowIsOwned'
  BY <1>16 DEF Release, ActiveWithout
<1>17. ASSUME NEW r \in Runs, LegReturns(r) PROVE RunningRowIsOwned'
  BY <1>17 DEF LegReturns, QueuesSteersAfterTerminal
<1>18. ASSUME NEW r \in Runs, BackoffElapses(r) PROVE RunningRowIsOwned'
  BY <1>18 DEF BackoffElapses
<1>19. ASSUME NEW r \in Runs, BackoffAborted(r) PROVE RunningRowIsOwned'
  BY <1>19 DEF BackoffAborted
<1>20. ASSUME NEW r \in Runs, SteerLegReturns(r) PROVE RunningRowIsOwned'
  BY <1>20 DEF SteerLegReturns
<1>21. ASSUME NEW r \in Runs, HandleSteerPending(r) PROVE RunningRowIsOwned'
  BY <1>21 DEF HandleSteerPending, PersistSteers, CancelSteerPending
<1>22. ASSUME NEW r \in Runs, HandoffAnswers(r) PROVE RunningRowIsOwned'
  BY <1>22 DEF HandoffAnswers, PersistSteers, CancelSteerPending
<1>23. ASSUME NEW r \in Runs, SteerLegStarts(r) PROVE RunningRowIsOwned'
  BY <1>23 DEF SteerLegStarts
<1>24. ASSUME NEW r \in Runs, LoopEnds(r) PROVE RunningRowIsOwned'
  BY <1>24 DEF LoopEnds, StartsFollowUp, Fresh, Launch, StartRows
<1>25. ASSUME NEW r \in Runs, LoopThrows(r) PROVE RunningRowIsOwned'
  BY <1>25 DEF LoopThrows, Caught
<1>26. ASSUME CloseAdmission PROVE RunningRowIsOwned'
  BY <1>26 DEF CloseAdmission
<1>27. ASSUME OpenAdmission PROVE RunningRowIsOwned'
  BY <1>27 DEF OpenAdmission, Recoverable, FollowUpRuns, Fresh, Waiting,
    StartWaiting, Launch, StartRows
<1>28. ASSUME Bootstrap PROVE RunningRowIsOwned'
  BY <1>28 DEF Bootstrap, RecoverInterruptedRuns, InterruptedRows
<1>29. ASSUME BootstrapReturns PROVE RunningRowIsOwned'
  BY <1>29 DEF BootstrapReturns, Listed
<1>30. ASSUME ResumeTimer PROVE RunningRowIsOwned'
  BY <1>30 DEF ResumeTimer, Recoverable, Launch, StartRows
<1>31. ASSUME Close PROVE RunningRowIsOwned'
  BY <1>31 DEF Close
<1>32. ASSUME CloseCollects PROVE RunningRowIsOwned'
  BY <1>32 DEF CloseCollects
<1>33. ASSUME CloseEnds PROVE RunningRowIsOwned'
  BY <1>33 DEF CloseEnds, NewProcess, RecoverInterruptedRuns, InterruptedRows
<1>34. ASSUME Crash PROVE RunningRowIsOwned'
  BY <1>34 DEF Crash, NewProcess
<1>35. CASE UNCHANGED vars
  BY <1>35 DEF vars
<1> QED BY <1>1, <1>2, <1>3, <1>4, <1>5, <1>6, <1>7, <1>8, <1>9, <1>10, <1>11, <1>12,
  <1>13, <1>14, <1>15, <1>16, <1>17, <1>18, <1>19, <1>20, <1>21, <1>22, <1>23, <1>24,
  <1>25, <1>26, <1>27, <1>28, <1>29, <1>30, <1>31, <1>32, <1>33, <1>34, <1>35 DEF
  Next, LoopStep, LegStep, BetweenLegs

\* IndInv holds initially.
LEMMA InitInd == Init => IndInv
<1> SUFFICES ASSUME Init PROVE IndInv
  OBVIOUS
<1>1. TypeOK
  BY InitType
<1>2. /\ row = [r \in Runs |-> "none"] /\ checkpoint = {} /\ history = {} /\ active = {}
      /\ pc = [r \in Runs |-> "idle"] /\ byThread = [t \in Threads |-> NoRun]
      /\ abort = [r \in Runs |-> "none"] /\ steers = [r \in Runs |-> {}]
      /\ drafts = [t \in Threads |-> {}] /\ deferred = {}
      /\ outcome = [r \in Runs |-> "none"]
  BY DEF Init
<1>3. ActiveAgreesWithLoops /\ OwnersAgreeWithActive
  BY <1>2 DEF ActiveAgreesWithLoops, OwnersAgreeWithActive, Working
<1>4. /\ RecapLeavesNoRow /\ RunningRowIsUnfinished /\ DeferredIsDormant
      /\ TerminalRunIsClosed /\ RunningRowIsOwned
  BY <1>2 DEF RecapLeavesNoRow, RunningRowIsUnfinished, DeferredIsDormant,
              TerminalRunIsClosed, RunningRowIsOwned
<1>5. MessageInv
  BY <1>2 DEF MessageInv, OnePlacePerMessage, OnePlace, Held
<1>6. OutcomeInv
  BY <1>2 DEF OutcomeInv
<1>7. SteersInv
  BY <1>2 DEF SteersInv
<1> QED BY <1>1, <1>3, <1>4, <1>5, <1>6, <1>7 DEF IndInv, OwnershipInv

\* Every step keeps IndInv.
LEMMA IndStep == ASSUME IndInv, [Next]_vars PROVE IndInv'
<1> USE DEF IndInv
<1>1. OwnershipInv'
  BY OwnershipStep
<1>2. TypeOK
  BY DEF OwnershipInv
<1>3. MessageInv'
  BY <1>2, MessageStep
<1>4. OutcomeInv'
  BY OutcomeStep
<1>5. SteersInv'
  BY SteersStep
<1>6. RunningRowIsOwned'
  BY OwnedStep
<1> QED BY <1>1, <1>3, <1>4, <1>5, <1>6
--------------------------------------------------------------------------------
(***************************************************************************)
(* The two action properties: what a single step from IndInv can do.       *)
(***************************************************************************)
\* A message leaves only in one of the ways EndsUnreleased and closing name.
LEMMA LossStep == ASSUME IndInv, [Next]_vars PROVE NoUnnamedLoss
<1> USE DEF IndInv, OwnershipInv, TypeOK, StorageOK, LoopOK, QueueOK, SendOK, NoUnnamedLoss, Held
<1>1. ASSUME NEW m \in Msgs, SendChat(m) PROVE NoUnnamedLoss
  BY <1>1 DEF SendChat
<1>2. ASSUME NEW m \in Msgs, SendPrepared(m) PROVE NoUnnamedLoss
  <2>1. ASSUME StartFreshRun(m) PROVE NoUnnamedLoss
    <3>1. /\ UNCHANGED <<steers, drafts>> /\ history \subseteq history'
          /\ \A x \in Msgs : x # m => send'[x] = send[x]
          /\ send'[m] = "accepted" => m \in history'
      <4>1. CASE admission
        <5>1. /\ history' = history \cup ({m} \cap Msgs) /\ UNCHANGED <<steers, drafts>>
              /\ send' = [send EXCEPT ![m] = "accepted"]
          BY <2>1, <4>1 DEF StartFreshRun, StartRows
        <5> QED BY <5>1
      <4>2. CASE ~admission
        BY <2>1, <4>2 DEF StartFreshRun
      <4> QED BY <4>1, <4>2
    <3> QED BY <3>1
  <2>2. ASSUME NEW r \in Runs, AddSteer(m, r) PROVE NoUnnamedLoss
    <3>1. /\ UNCHANGED <<history, drafts>> /\ m \in steers'[r]
          /\ \A q \in Runs : steers[q] \subseteq steers'[q]
          /\ \A x \in Msgs : x # m => send'[x] = send[x]
      BY <2>2 DEF AddSteer
    <3> QED BY <3>1
  <2>3. ASSUME QueueFollowUp(m) PROVE NoUnnamedLoss
    <3>1. /\ UNCHANGED <<history, steers>> /\ m \in drafts'[ThreadOfMsg[m]]
          /\ \A t \in Threads : drafts[t] \subseteq drafts'[t]
          /\ \A x \in Msgs : x # m => send'[x] = send[x]
      BY <2>3 DEF QueueFollowUp
    <3> QED BY <3>1
  <2>4. ASSUME Rejected(m) PROVE NoUnnamedLoss
    BY <2>4 DEF Rejected
  <2> QED BY <1>2, <2>1, <2>2, <2>3, <2>4 DEF SendPrepared, SendToActiveRun
<1>3. ASSUME NEW t \in Threads, RetryMessage(t) PROVE NoUnnamedLoss
  BY <1>3 DEF RetryMessage, Fresh, Launch, StartRows
<1>4. ASSUME NEW t \in Threads, RequestRecap(t) PROVE NoUnnamedLoss
  BY <1>4 DEF RequestRecap, Fresh, Launch, StartRows
<1>5. ASSUME NEW t \in Threads, WithdrawPendingSteer(t) PROVE NoUnnamedLoss
  BY <1>5 DEF WithdrawPendingSteer, Withdraw, AfterWithdrawal
<1>6. ASSUME NEW t \in Threads, DeleteQueuedFollowUp(t) PROVE NoUnnamedLoss
  BY <1>6 DEF DeleteQueuedFollowUp, Withdraw
<1>7. ASSUME NEW r \in Runs, CancelRun(r) PROVE NoUnnamedLoss
  BY <1>7 DEF CancelRun, AbortReason, CancellableRow
<1>8. ASSUME NEW r \in Runs, Checkpoint(r) PROVE NoUnnamedLoss
  BY <1>8 DEF Checkpoint
<1>9. ASSUME NEW r \in Runs, RequestContextHandoff(r) PROVE NoUnnamedLoss
  BY <1>9 DEF RequestContextHandoff
<1>10. ASSUME NEW r \in Runs, LegCompletes(r) PROVE NoUnnamedLoss
  BY <1>10 DEF LegCompletes
<1>11. ASSUME NEW r \in Runs, LegRetries(r) PROVE NoUnnamedLoss
  BY <1>11 DEF LegRetries
<1>12. ASSUME NEW r \in Runs, LegFails(r) PROVE NoUnnamedLoss
  BY <1>12 DEF LegFails
<1>13. ASSUME NEW r \in Runs, ObserveAbort(r) PROVE NoUnnamedLoss
  BY <1>13 DEF ObserveAbort, AbortSeen
<1>14. ASSUME NEW r \in Runs, FailedRow(r) PROVE NoUnnamedLoss
  BY <1>14 DEF FailedRow
<1>15. ASSUME NEW r \in Runs, CancelledRow(r) PROVE NoUnnamedLoss
  BY <1>15 DEF CancelledRow
<1>16. ASSUME NEW r \in Runs, Release(r) PROVE NoUnnamedLoss
  BY <1>16 DEF Release, ActiveWithout
<1>17. ASSUME NEW r \in Runs, LegReturns(r) PROVE NoUnnamedLoss
  <2>1. /\ UNCHANGED <<history, send>>
        /\ \A q \in Runs : q # r => steers'[q] = steers[q]
    BY <1>17 DEF LegReturns
  <2>2. ASSUME NEW t \in Threads PROVE drafts[t] \subseteq drafts'[t]
    <3>1. drafts'[t] = drafts[t] \/ drafts'[t] = drafts[t] \cup steers[r]
      BY <1>17 DEF LegReturns
    <3> QED BY <3>1
  <2>3. \A x \in steers[r] : x \in steers'[r] \/ x \in drafts'[ThreadOfRun[r]]
    BY <1>17 DEF LegReturns
  <2> QED BY <2>1, <2>2, <2>3
<1>18. ASSUME NEW r \in Runs, BackoffElapses(r) PROVE NoUnnamedLoss
  BY <1>18 DEF BackoffElapses
<1>19. ASSUME NEW r \in Runs, BackoffAborted(r) PROVE NoUnnamedLoss
  BY <1>19 DEF BackoffAborted
<1>20. ASSUME NEW r \in Runs, SteerLegReturns(r) PROVE NoUnnamedLoss
  BY <1>20 DEF SteerLegReturns
<1>21. ASSUME NEW r \in Runs, HandleSteerPending(r) PROVE NoUnnamedLoss
  BY <1>21 DEF HandleSteerPending, PersistSteers, CancelSteerPending
<1>22. ASSUME NEW r \in Runs, HandoffAnswers(r) PROVE NoUnnamedLoss
  <2>1. UNCHANGED <<drafts, send>> /\ \A q \in Runs : q # r => steers'[q] = steers[q]
    BY <1>22 DEF HandoffAnswers, CancelSteerPending, PersistSteers
  <2>2. PICK left \in {steers[r], steers[r] \ {Continuation}} :
          \/ left = {} /\ history' = history
          \/ history' = history \cup (left \cap Msgs)
    BY <1>22 DEF HandoffAnswers, CancelSteerPending, PersistSteers
  <2>3. history \subseteq history' /\ \A x \in Msgs : x \in steers[r] => x \in history'
    BY <2>2
  <2> QED BY <2>1, <2>3
<1>23. ASSUME NEW r \in Runs, SteerLegStarts(r) PROVE NoUnnamedLoss
  BY <1>23 DEF SteerLegStarts
<1>24. ASSUME NEW r \in Runs, LoopEnds(r) PROVE NoUnnamedLoss
  <2>1. /\ UNCHANGED send /\ pc[r] = "final" /\ \A q \in Runs : q # r => steers'[q] = steers[q]
    BY <1>24 DEF LoopEnds
  <2>2. pc'[r] = "done" /\ history \subseteq history' /\
        \A t \in Threads : \A x \in Msgs : x \in drafts[t] => x \in drafts'[t] \/ x \in history'
    <3>1. CASE StartsFollowUp(r)
      <4>1. PICK next \in Fresh("chat") :
              /\ StartRows({next}, drafts[ThreadOfRun[r]])
              /\ Launch({next}, active \ {r}, Without(r), [pc EXCEPT ![r] = "done"])
              /\ drafts' = [drafts EXCEPT ![ThreadOfRun[r]] = {}]
        BY <1>24, <3>1 DEF LoopEnds
      <4>2. next \in Runs /\ pc[next] = "idle"
        BY DEF Fresh
      <4>3. pc'[r] = "done"
        BY <2>1, <4>1, <4>2 DEF Launch
      <4>4. history' = history \cup (drafts[ThreadOfRun[r]] \cap Msgs)
        BY <4>1 DEF StartRows
      <4> QED BY <4>1, <4>3, <4>4
    <3>2. CASE ~StartsFollowUp(r)
      <4>1. /\ Launch({}, active \ {r}, Without(r), [pc EXCEPT ![r] = "done"])
            /\ UNCHANGED <<row, history, drafts>>
        BY <1>24, <3>2 DEF LoopEnds
      <4>2. pc'[r] = "done"
        BY <4>1 DEF Launch
      <4> QED BY <4>1, <4>2
    <3> QED BY <3>1, <3>2
  <2>3. ASSUME NEW x \in Msgs, x \in steers[r] PROVE closing # "no" \/ EndsUnreleased(r, x)
    BY <2>1, <2>2, <2>3 DEF EndsUnreleased, SteersInv
  <2> QED BY <2>1, <2>2, <2>3
<1>25. ASSUME NEW r \in Runs, LoopThrows(r) PROVE NoUnnamedLoss
  BY <1>25 DEF LoopThrows, Caught
<1>26. ASSUME CloseAdmission PROVE NoUnnamedLoss
  BY <1>26 DEF CloseAdmission
<1>27. ASSUME OpenAdmission PROVE NoUnnamedLoss
  BY <1>27 DEF OpenAdmission, Recoverable, FollowUpRuns, Fresh, Waiting,
    StartWaiting, Launch, StartRows
<1>28. ASSUME Bootstrap PROVE NoUnnamedLoss
  BY <1>28 DEF Bootstrap, RecoverInterruptedRuns, InterruptedRows
<1>29. ASSUME BootstrapReturns PROVE NoUnnamedLoss
  BY <1>29 DEF BootstrapReturns, Listed
<1>30. ASSUME ResumeTimer PROVE NoUnnamedLoss
  BY <1>30 DEF ResumeTimer, Recoverable, Launch, StartRows
<1>31. ASSUME Close PROVE NoUnnamedLoss
  BY <1>31 DEF Close
<1>32. ASSUME CloseCollects PROVE NoUnnamedLoss
  BY <1>32 DEF CloseCollects
<1>33. ASSUME CloseEnds PROVE NoUnnamedLoss
  BY <1>33 DEF CloseEnds, NewProcess, RecoverInterruptedRuns, InterruptedRows
<1>34. ASSUME Crash PROVE NoUnnamedLoss
  BY <1>34 DEF Crash, NewProcess
<1>35. CASE UNCHANGED vars
  BY <1>35 DEF vars
<1> QED BY <1>1, <1>2, <1>3, <1>4, <1>5, <1>6, <1>7, <1>8, <1>9, <1>10, <1>11, <1>12,
  <1>13, <1>14, <1>15, <1>16, <1>17, <1>18, <1>19, <1>20, <1>21, <1>22, <1>23, <1>24,
  <1>25, <1>26, <1>27, <1>28, <1>29, <1>30, <1>31, <1>32, <1>33, <1>34, <1>35 DEF
  Next, LoopStep, LegStep, BetweenLegs

\* A step between two moments with admission closed adds nothing to activeRuns.
LEMMA NoStartStep ==
  ASSUME IndInv, [Next]_vars, ~admission, ~admission'
  PROVE  NothingStarts
<1> USE DEF IndInv, OwnershipInv, TypeOK, LoopOK, NothingStarts
<1>1. ASSUME NEW m \in Msgs, SendChat(m) PROVE NothingStarts
  BY <1>1 DEF SendChat
<1>2. ASSUME NEW m \in Msgs, SendPrepared(m) PROVE NothingStarts
  BY SMTT(30), <1>2 DEF SendPrepared, Launch, StartRows, StartFreshRun, SendToActiveRun,
    SteerMustQueue, AddSteer, QueueFollowUp, Rejected, Fresh
<1>3. ASSUME NEW t \in Threads, RetryMessage(t) PROVE NothingStarts
  BY <1>3 DEF RetryMessage, Fresh, Launch, StartRows
<1>4. ASSUME NEW t \in Threads, RequestRecap(t) PROVE NothingStarts
  BY <1>4 DEF RequestRecap, Fresh, Launch, StartRows
<1>5. ASSUME NEW t \in Threads, WithdrawPendingSteer(t) PROVE NothingStarts
  BY <1>5 DEF WithdrawPendingSteer, Withdraw, AfterWithdrawal
<1>6. ASSUME NEW t \in Threads, DeleteQueuedFollowUp(t) PROVE NothingStarts
  BY <1>6 DEF DeleteQueuedFollowUp, Withdraw
<1>7. ASSUME NEW r \in Runs, CancelRun(r) PROVE NothingStarts
  BY <1>7 DEF CancelRun, AbortReason, CancellableRow
<1>8. ASSUME NEW r \in Runs, Checkpoint(r) PROVE NothingStarts
  BY <1>8 DEF Checkpoint
<1>9. ASSUME NEW r \in Runs, RequestContextHandoff(r) PROVE NothingStarts
  BY <1>9 DEF RequestContextHandoff
<1>10. ASSUME NEW r \in Runs, LegCompletes(r) PROVE NothingStarts
  BY <1>10 DEF LegCompletes
<1>11. ASSUME NEW r \in Runs, LegRetries(r) PROVE NothingStarts
  BY <1>11 DEF LegRetries
<1>12. ASSUME NEW r \in Runs, LegFails(r) PROVE NothingStarts
  BY <1>12 DEF LegFails
<1>13. ASSUME NEW r \in Runs, ObserveAbort(r) PROVE NothingStarts
  BY <1>13 DEF ObserveAbort, AbortSeen
<1>14. ASSUME NEW r \in Runs, FailedRow(r) PROVE NothingStarts
  BY <1>14 DEF FailedRow
<1>15. ASSUME NEW r \in Runs, CancelledRow(r) PROVE NothingStarts
  BY <1>15 DEF CancelledRow
<1>16. ASSUME NEW r \in Runs, Release(r) PROVE NothingStarts
  BY <1>16 DEF Release, ActiveWithout
<1>17. ASSUME NEW r \in Runs, LegReturns(r) PROVE NothingStarts
  BY <1>17 DEF LegReturns, QueuesSteersAfterTerminal
<1>18. ASSUME NEW r \in Runs, BackoffElapses(r) PROVE NothingStarts
  BY <1>18 DEF BackoffElapses
<1>19. ASSUME NEW r \in Runs, BackoffAborted(r) PROVE NothingStarts
  BY <1>19 DEF BackoffAborted
<1>20. ASSUME NEW r \in Runs, SteerLegReturns(r) PROVE NothingStarts
  BY <1>20 DEF SteerLegReturns
<1>21. ASSUME NEW r \in Runs, HandleSteerPending(r) PROVE NothingStarts
  BY <1>21 DEF HandleSteerPending, PersistSteers, CancelSteerPending
<1>22. ASSUME NEW r \in Runs, HandoffAnswers(r) PROVE NothingStarts
  BY <1>22 DEF HandoffAnswers, PersistSteers, CancelSteerPending
<1>23. ASSUME NEW r \in Runs, SteerLegStarts(r) PROVE NothingStarts
  BY <1>23 DEF SteerLegStarts
<1>24. ASSUME NEW r \in Runs, LoopEnds(r) PROVE NothingStarts
  BY <1>24 DEF LoopEnds, StartsFollowUp, Fresh, Launch, StartRows
<1>25. ASSUME NEW r \in Runs, LoopThrows(r) PROVE NothingStarts
  BY <1>25 DEF LoopThrows, Caught
<1>26. ASSUME CloseAdmission PROVE NothingStarts
  BY <1>26 DEF CloseAdmission
<1>27. ASSUME OpenAdmission PROVE NothingStarts
  BY <1>27 DEF OpenAdmission, Recoverable, FollowUpRuns, Fresh, Waiting,
    StartWaiting, Launch, StartRows
<1>28. ASSUME Bootstrap PROVE NothingStarts
  BY <1>28 DEF Bootstrap, RecoverInterruptedRuns, InterruptedRows
<1>29. ASSUME BootstrapReturns PROVE NothingStarts
  BY <1>29 DEF BootstrapReturns, Listed
<1>30. ASSUME ResumeTimer PROVE NothingStarts
  BY <1>30 DEF ResumeTimer, Recoverable, Launch, StartRows
<1>31. ASSUME Close PROVE NothingStarts
  BY <1>31 DEF Close
<1>32. ASSUME CloseCollects PROVE NothingStarts
  BY <1>32 DEF CloseCollects
<1>33. ASSUME CloseEnds PROVE NothingStarts
  BY <1>33 DEF CloseEnds, NewProcess, RecoverInterruptedRuns, InterruptedRows
<1>34. ASSUME Crash PROVE NothingStarts
  BY <1>34 DEF Crash, NewProcess
<1>35. CASE UNCHANGED vars
  BY <1>35 DEF vars
<1> QED BY <1>1, <1>2, <1>3, <1>4, <1>5, <1>6, <1>7, <1>8, <1>9, <1>10, <1>11, <1>12,
  <1>13, <1>14, <1>15, <1>16, <1>17, <1>18, <1>19, <1>20, <1>21, <1>22, <1>23, <1>24,
  <1>25, <1>26, <1>27, <1>28, <1>29, <1>30, <1>31, <1>32, <1>33, <1>34, <1>35 DEF
  Next, LoopStep, LegStep, BetweenLegs
--------------------------------------------------------------------------------
(***************************************************************************)
(* The theorems                                                            *)
(***************************************************************************)
\* Every variable keeps its type.
THEOREM TypeCorrect == Spec => []TypeOK
<1>1. IndInv => TypeOK
  BY DEF IndInv, OwnershipInv
<1> QED BY <1>1, InitInd, IndStep, PTL DEF Spec

\* IndInv is an invariant: what the other theorems follow from.
THEOREM Inductive == Spec => []IndInv
BY InitInd, IndStep, PTL DEF Spec

\* Two loops never work on one thread's conversation, however sends, retries,
\* recaps, cancels, recoveries and restarts interleave.
THEOREM OneWriter == Spec => []OneWriterPerThread
<1>1. IndInv => OneWriterPerThread
  BY DEF IndInv, OwnershipInv, TypeOK, LoopOK, ActiveAgreesWithLoops,
         OwnersAgreeWithActive, OneWriterPerThread
<1> QED BY <1>1, Inductive, PTL

\* A row that says 'running' has its loop or a checkpoint.
THEOREM NoOrphanRow == Spec => []RunningRowIsOwned
<1>1. IndInv => RunningRowIsOwned
  BY DEF IndInv
<1> QED BY <1>1, Inductive, PTL

\* What a finished loop reported is what storage says about the run.
THEOREM OutcomeIsStored == Spec => []OutcomeAgreesWithRow
<1>1. IndInv => OutcomeAgreesWithRow
  BY DEF IndInv, OutcomeInv, OutcomeAgreesWithRow
<1> QED BY <1>1, Inductive, PTL

\* A message waits in one place only, so it is delivered at most once.
THEOREM DeliveredOnce == Spec => []OnePlacePerMessage
<1>1. IndInv => OnePlacePerMessage
  BY DEF IndInv, MessageInv
<1> QED BY <1>1, Inductive, PTL

\* A message the user took back never reaches the model.
THEOREM WithdrawnIsGone == Spec => []WithdrawnStaysOut
<1>1. IndInv => WithdrawnStaysOut
  BY DEF IndInv, MessageInv, WithdrawnStaysOut
<1> QED BY <1>1, Inductive, PTL

\* A recap leaves no row and no checkpoint behind.
THEOREM RecapIsEphemeral == Spec => []RecapLeavesNoRow
<1>1. IndInv => RecapLeavesNoRow
  BY DEF IndInv, OwnershipInv
<1> QED BY <1>1, Inductive, PTL

\* An accepted message is kept by every step but those NoUnnamedLoss names.
THEOREM LossesAreNamed == Spec => OnlyNamedLosses
<1>1. IndInv /\ [Next]_vars => NoUnnamedLoss
  BY LossStep
<1> QED BY <1>1, Inductive, PTL DEF Spec, OnlyNamedLosses

\* No run starts between closing admission and opening it.
THEOREM ClosedMeansClosed == Spec => NoStartWhileAdmissionClosed
<1>1. IndInv /\ [Next]_vars => (~admission /\ ~admission' => NothingStarts)
  BY NoStartStep
<1> QED BY <1>1, Inductive, PTL DEF Spec, NoStartWhileAdmissionClosed
================================================================================
