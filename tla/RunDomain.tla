------------------------------- MODULE RunDomain -------------------------------
(***************************************************************************)
(* The run domain of the runtime: which run owns a thread, how a run's     *)
(* loop goes from leg to leg, how messages sent while a run is working are *)
(* kept (steers, follow-up drafts), and what storage remembers after a     *)
(* cancel, a failure, a crash or a restart.                                *)
(*                                                                         *)
(* Grain: JavaScript runs each stretch between two awaits atomically, so   *)
(* one action is one such stretch.  pc[r] names the await run r's loop is  *)
(* suspended at.  Messages are identities: what is inside them, their      *)
(* order and their grouping into requests is MODULE FollowUpQueue.         *)
(***************************************************************************)
EXTENDS Naturals

CONSTANTS
  Threads,        \* thread ids
  Runs,           \* run ids createId() can return
  Msgs,           \* messages clients send
  ThreadOfRun,    \* [Runs -> Threads], the thread a run id is used for
  ThreadOfMsg,    \* [Msgs -> Threads], input.threadId of a send
  KindOfRun,      \* [Runs -> {"chat", "retry", "recap"}], who starts it
  HiddenMsgs,     \* messages sent by the system (hidden: true)
  HandoffRuns,    \* runs that may ask for one context handoff (bound)
  FaultyRuns,     \* runs whose loop may throw once (bound)
  Continuation,   \* the hidden CONTEXT_HANDOFF_CONTINUATION_STEER
  NoRun,
  MaxRestarts,    \* bound: process restarts explored
  MaxBoots,       \* bound: bootstrap() calls explored per process
  MaxUpdates      \* bound: update attempts that close admission, per process

ASSUME ThreadsAssumption ==
  /\ ThreadOfRun \in [Runs -> Threads]
  /\ ThreadOfMsg \in [Msgs -> Threads]
  /\ KindOfRun \in [Runs -> {"chat", "retry", "recap"}]
ASSUME IdentityAssumption == NoRun \notin Runs /\ Continuation \notin Msgs
ASSUME SubsetAssumption ==
  HiddenMsgs \subseteq Msgs /\ HandoffRuns \subseteq Runs /\ FaultyRuns \subseteq Runs
ASSUME BoundAssumption ==
  MaxRestarts \in Nat /\ MaxBoots \in Nat /\ MaxUpdates \in Nat

VARIABLES
  row,            \* storage: status of the run's row
  checkpoint,     \* storage: runs that have a recovery checkpoint row
  history,        \* storage: user messages saved in their thread
  pc,             \* the await the run's loop is suspended at
  active,         \* keys of activeRuns (and of activeRunTasks)
  byThread,       \* activeRunByThread
  abort,          \* the current AbortController of the run
  phase,          \* RunState.executionPhase: "generating", or the kind of
                  \* result the leg entered its terminal phase with
  steers,         \* RunState.pendingSteerInputs
  handoff,        \* RunState.pendingContextHandoff is set
  outcome,        \* result.kind of the loop; "threw" after runLoop's catch
  drafts,         \* queuedFollowUpDrafts
  deferred,       \* keys of pendingRecoveredRuns
  timer,          \* the setTimeout of scheduleRecoveredRuns is pending
  admission,      \* runAdmissionOwnerId is undefined
  closing,        \* close(): "no", "aborted", then "waiting" for tasks
  waitFor,        \* the tasks close() collected
  send,           \* progress of each client's sendChat call
  booting,        \* bootstrap() waits for its documents
  boots, updates, restarts

storageVars == <<row, checkpoint, history>>
loopVars == <<pc, active, byThread, abort, phase, steers, handoff, outcome>>
queueVars == <<drafts, deferred, timer>>
lifeVars == <<admission, closing, waitFor, booting, boots, updates, restarts>>
vars == <<storageVars, loopVars, queueVars, lifeVars, send>>

Items == Msgs \cup {Continuation}
Hidden == HiddenMsgs \cup {Continuation}

\* Where a loop can be suspended.  Up to "terminal" the run is still in
\* activeRuns; "unwinding" and "done" come after it left; "final" is both.
WorkPcs == {"leg", "backoff", "stopping", "failing", "terminal", "steerSaved",
            "steerPending", "handoff", "restorePoint"}
Pcs == WorkPcs \cup {"idle", "unwinding", "final", "done"}
Kinds == {"completed", "cancelled", "cancelled-with-steer", "failed"}
Outcomes == Kinds \cup {"none", "recovering", "steer-pending", "threw"}
Finished == {"completed", "cancelled", "failed"}

IsRecap(r) == r # NoRun /\ KindOfRun[r] = "recap"
Owner(t) == byThread[t]
Idle(t) == byThread[t] = NoRun

StorageOK ==
  /\ row \in [Runs -> {"none", "running"} \cup Finished]
  /\ checkpoint \subseteq Runs
  /\ history \subseteq Msgs

LoopOK ==
  /\ pc \in [Runs -> Pcs]
  /\ active \subseteq Runs
  /\ byThread \in [Threads -> Runs \cup {NoRun}]
  /\ abort \in [Runs -> {"none", "plain", "withSteer"}]
  /\ phase \in [Runs -> Kinds \cup {"generating"}]
  /\ steers \in [Runs -> SUBSET Items]
  /\ handoff \in [Runs -> BOOLEAN]
  /\ outcome \in [Runs -> Outcomes]

QueueOK ==
  /\ drafts \in [Threads -> SUBSET Items]
  /\ deferred \subseteq Runs
  /\ timer \in BOOLEAN

LifeOK ==
  /\ admission \in BOOLEAN /\ booting \in BOOLEAN
  /\ closing \in {"no", "aborted", "waiting"} /\ waitFor \subseteq Runs
  /\ boots \in 0 .. MaxBoots
  /\ updates \in 0 .. MaxUpdates
  /\ restarts \in 0 .. MaxRestarts

SendOK ==
  send \in [Msgs -> {"new", "preparing", "accepted", "rejected", "withdrawn", "forgotten"}]

TypeOK == StorageOK /\ LoopOK /\ QueueOK /\ LifeOK /\ SendOK

Init ==
  /\ row = [r \in Runs |-> "none"] /\ checkpoint = {} /\ history = {}
  /\ pc = [r \in Runs |-> "idle"] /\ active = {}
  /\ byThread = [t \in Threads |-> NoRun]
  /\ abort = [r \in Runs |-> "none"] /\ phase = [r \in Runs |-> "generating"]
  /\ steers = [r \in Runs |-> {}] /\ handoff = [r \in Runs |-> FALSE]
  /\ outcome = [r \in Runs |-> "none"]
  /\ drafts = [t \in Threads |-> {}] /\ deferred = {} /\ timer = FALSE
  /\ admission = TRUE /\ closing = "no" /\ waitFor = {}
  /\ send = [m \in Msgs |-> "new"]
  /\ booting = FALSE /\ boots = 0 /\ updates = 0 /\ restarts = 0
--------------------------------------------------------------------------------
(***************************************************************************)
(* Starting runs.  A run id is fresh when storage has no row for it and no *)
(* loop uses it.                                                           *)
(***************************************************************************)
Fresh(kind) == {r \in Runs : KindOfRun[r] = kind /\ row[r] = "none" /\ pc[r] = "idle"}

\* mutant of Without: the entry goes whoever owns it
WithoutOwnerCheck(r) ==
  [t \in Threads |-> IF t = ThreadOfRun[r] THEN NoRun ELSE byThread[t]]

\* activeRunByThread.delete, only where r still owns the thread
Without(r) ==
  [t \in Threads |-> IF byThread[t] = r THEN NoRun ELSE byThread[t]]

\* startActiveRun / startRecoveredRun for the runs S, at most one per thread,
\* on top of the maps activeBase, byBase and the program counters pcBase: the
\* loop runs synchronously into the first await of its leg, where it has put
\* a new AbortController in place.
Launch(S, activeBase, byBase, pcBase) ==
  /\ active' = activeBase \cup S
  /\ byThread' = [t \in Threads |->
       IF \E r \in S : ThreadOfRun[r] = t
       THEN CHOOSE r \in S : ThreadOfRun[r] = t ELSE byBase[t]]
  /\ pc' = [r \in Runs |-> IF r \in S THEN "leg" ELSE pcBase[r]]

\* storage.startRun, with the request's messages saved when there are any
StartRows(S, messages) ==
  /\ row' = [r \in Runs |-> IF r \in S THEN "running" ELSE row[r]]
  /\ history' = history \cup (messages \cap Msgs)

\* storage.completeRun, cancelRun, failRun: whatever the status was, and the
\* checkpoint goes.  A recap's storage swallows the write.
SetRow(r, status) ==
  /\ row' = IF IsRecap(r) THEN row ELSE [row EXCEPT ![r] = status]
  /\ checkpoint' = IF IsRecap(r) THEN checkpoint ELSE checkpoint \ {r}
--------------------------------------------------------------------------------
(***************************************************************************)
(* sendChat.  Admission is checked on entry; saving images and attachments *)
(* can wait; what happens next is decided on the state found after it.     *)
(***************************************************************************)
SendChat(m) ==
  /\ send[m] = "new" /\ admission
  /\ send' = [send EXCEPT ![m] = "preparing"]
  /\ UNCHANGED <<storageVars, loopVars, queueVars, lifeVars>>

Rejected(m) ==
  /\ send' = [send EXCEPT ![m] = "rejected"]
  /\ UNCHANGED <<storageVars, loopVars, queueVars>>

\* startFreshRun.  A recap that owns the thread is aborted and displaced.
StartFreshRun(m) ==
  LET t == ThreadOfMsg[m]
      displaced == IF Idle(t) THEN {} ELSE {Owner(t)} IN
  /\ Idle(t) \/ IsRecap(Owner(t))
  /\ IF admission
     THEN \E r \in Fresh("chat") :
            /\ ThreadOfRun[r] = t
            /\ StartRows({r}, {m})
            /\ Launch({r}, active, byThread, pc)
            /\ send' = [send EXCEPT ![m] = "accepted"]
            /\ UNCHANGED <<checkpoint, phase, steers, handoff, outcome, queueVars>>
     ELSE /\ send' = [send EXCEPT ![m] = "rejected"]
          /\ UNCHANGED <<storageVars, pc, active, byThread, phase, steers, handoff,
                         outcome, queueVars>>
  /\ abort' = [q \in Runs |->
       IF q \in displaced /\ abort[q] = "none" THEN "plain" ELSE abort[q]]

\* sendActiveRunSteer
AddSteer(m, r) ==
  /\ steers' = [steers EXCEPT ![r] = @ \cup {m}]
  /\ send' = [send EXCEPT ![m] = "accepted"]
  /\ UNCHANGED <<storageVars, pc, active, byThread, abort, phase, handoff, outcome,
                 queueVars>>

\* queueFollowUp
QueueFollowUp(m) ==
  /\ drafts' = [drafts EXCEPT ![ThreadOfMsg[m]] = @ \cup {m}]
  /\ send' = [send EXCEPT ![m] = "accepted"]
  /\ UNCHANGED <<storageVars, loopVars, deferred, timer>>

\* mutant of SteerMustQueue: without the race guard for a stopped run
TerminalPhaseOnly(r) == phase[r] # "generating"

\* A run in its terminal phase, or one already told to stop, takes no steer
SteerMustQueue(r) == phase[r] # "generating" \/ abort[r] # "none"

SendToActiveRun(m, r) ==
  \/ SteerMustQueue(r) /\ QueueFollowUp(m)     \* mode 'steer'
  \/ ~SteerMustQueue(r) /\ AddSteer(m, r)      \* mode 'steer'
  \/ QueueFollowUp(m)                          \* mode 'follow-up'
  \/ Rejected(m)                               \* mode 'normal': it throws

SendPrepared(m) ==
  LET t == ThreadOfMsg[m] IN
  /\ send[m] = "preparing"
  /\ \/ StartFreshRun(m)
     \/ /\ ~Idle(t) /\ ~IsRecap(Owner(t))
        /\ SendToActiveRun(m, Owner(t))
  /\ UNCHANGED lifeVars

\* retryMessage: synchronous; a recap in the thread is displaced, not aborted
RetryMessage(t) ==
  /\ admission
  /\ Idle(t) \/ IsRecap(Owner(t))
  /\ \E r \in Fresh("retry") :
       /\ ThreadOfRun[r] = t
       /\ StartRows({r}, {})
       /\ Launch({r}, active, byThread, pc)
  /\ UNCHANGED <<checkpoint, abort, phase, steers, handoff, outcome, queueVars,
                 lifeVars, send>>

\* requestRecap: a run over an ephemeral storage, so it has no row
RequestRecap(t) ==
  /\ admission /\ Idle(t)
  /\ \E r \in Fresh("recap") :
       /\ ThreadOfRun[r] = t
       /\ Launch({r}, active, byThread, pc)
  /\ UNCHANGED <<storageVars, abort, phase, steers, handoff, outcome, queueVars,
                 lifeVars, send>>
--------------------------------------------------------------------------------
(***************************************************************************)
(* What a user can do to a run: cancel it, withdraw the pending steer,     *)
(* delete the queued draft.                                                *)
(***************************************************************************)
AbortReason(r) == IF steers[r] # {} THEN "withSteer" ELSE "plain"

\* mutant of CancellableRow: the persisted status is not looked at
AnyRow(r) == row[r] # "none"

CancellableRow(r) == row[r] = "running"

CancelRun(r) ==
  /\ \/ /\ r \in active
        /\ abort[r] = "none"     \* aborting an aborted controller does nothing
        /\ abort' = [abort EXCEPT ![r] = AbortReason(r)]
        /\ UNCHANGED storageVars
     \/ /\ r \notin active
        /\ CancellableRow(r)
        /\ SetRow(r, "cancelled")
        /\ UNCHANGED <<history, abort>>
  /\ UNCHANGED <<pc, active, byThread, phase, steers, handoff, outcome, queueVars,
                 lifeVars, send>>

Withdraw(messages) ==
  send' = [m \in Msgs |-> IF m \in messages THEN "withdrawn" ELSE send[m]]

\* mutant of AfterWithdrawal: with a hidden steer pending nothing is removed
AllOrNothing(r) == IF steers[r] \cap Hidden = {} THEN {} ELSE steers[r]

\* removeVisiblePendingSteerInputs: the hidden steers stay
AfterWithdrawal(r) == steers[r] \cap Hidden

WithdrawPendingSteer(t) ==
  /\ ~Idle(t) /\ Owner(t) \in active
  /\ steers[Owner(t)] \ Hidden # {}
  /\ steers' = [steers EXCEPT ![Owner(t)] = AfterWithdrawal(Owner(t))]
  /\ Withdraw(steers[Owner(t)] \ Hidden)
  /\ UNCHANGED <<storageVars, pc, active, byThread, abort, phase, handoff, outcome,
                 queueVars, lifeVars>>

\* deleteQueuedFollowUpDraft: the messages merged into the shown request go
DeleteQueuedFollowUp(t) ==
  /\ \E shown \in SUBSET (drafts[t] \ Hidden) :
       /\ shown # {}
       /\ drafts' = [drafts EXCEPT ![t] = @ \ shown]
       /\ Withdraw(shown)
  /\ UNCHANGED <<storageVars, loopVars, deferred, timer, lifeVars>>
--------------------------------------------------------------------------------
(***************************************************************************)
(* One leg of the loop: executeServerRun.                                  *)
(***************************************************************************)
\* persistRecoveryCheckpoint, as the first and later deltas arrive
Checkpoint(r) ==
  /\ pc[r] = "leg" /\ ~IsRecap(r) /\ r \notin checkpoint
  /\ checkpoint' = checkpoint \cup {r}
  /\ UNCHANGED <<row, history, loopVars, queueVars, lifeVars, send>>

\* requestContextHandoffContinuation
RequestContextHandoff(r) ==
  /\ pc[r] = "leg" /\ r \in HandoffRuns /\ ~IsRecap(r)
  /\ ~handoff[r]
  /\ handoff' = [handoff EXCEPT ![r] = TRUE]
  /\ steers' = [steers EXCEPT ![r] = @ \cup {Continuation}]
  /\ UNCHANGED <<storageVars, pc, active, byThread, abort, phase, outcome,
                 queueVars, lifeVars, send>>

Goto(r, place) == pc' = [pc EXCEPT ![r] = place]

\* handleCompletedRun: the only look at the abort signal was before it
LegCompletes(r) ==
  /\ pc[r] = "leg" /\ abort[r] = "none"
  /\ IF steers[r] = {}
     THEN /\ SetRow(r, "completed")                        \* persistCompletedRun
          /\ phase' = [phase EXCEPT ![r] = "completed"]
          /\ Goto(r, "terminal")
     ELSE /\ Goto(r, "steerSaved")                         \* persistSteerPendingRun
          /\ UNCHANGED <<row, checkpoint, phase>>
  /\ UNCHANGED <<history, active, byThread, abort, steers, handoff, outcome,
                 queueVars, lifeVars, send>>

\* handleRunFailure, a retryable error: back off and start another leg
LegRetries(r) ==
  /\ pc[r] = "leg" /\ abort[r] = "none"
  /\ checkpoint' = IF IsRecap(r) THEN checkpoint ELSE checkpoint \cup {r}
  /\ outcome' = [outcome EXCEPT ![r] = "recovering"]
  /\ Goto(r, "backoff")
  /\ UNCHANGED <<row, history, active, byThread, abort, phase, steers, handoff,
                 queueVars, lifeVars, send>>

\* failRun: persistFailedAssistantMessage goes through storage.completeRun, so
\* the row is 'completed' until the write after the await
LegFails(r) ==
  /\ pc[r] = "leg" /\ abort[r] = "none"
  /\ SetRow(r, "completed")
  /\ Goto(r, "failing")
  /\ UNCHANGED <<history, active, byThread, abort, phase, steers, handoff, outcome,
                 queueVars, lifeVars, send>>

FailedRow(r) ==
  /\ pc[r] = "failing"
  /\ SetRow(r, "failed")
  /\ phase' = [phase EXCEPT ![r] = "failed"]
  /\ Goto(r, "terminal")
  /\ UNCHANGED <<history, active, byThread, abort, steers, handoff, outcome,
                 queueVars, lifeVars, send>>

\* mutant of AbortSeen: the cancel-with-steer reason is not recognised
PlainAbortSeen(r) == abort[r] = "plain"

AbortSeen(r) == abort[r] # "none"

\* handleAbortedRun, up to the wait after the stopped message is saved
ObserveAbort(r) ==
  /\ pc[r] = "leg" /\ AbortSeen(r)
  /\ Goto(r, "stopping")
  /\ UNCHANGED <<storageVars, active, byThread, abort, phase, steers, handoff,
                 outcome, queueVars, lifeVars, send>>

\* handleCancelledRun, the rest
CancelledRow(r) ==
  /\ pc[r] = "stopping"
  /\ SetRow(r, "cancelled")
  /\ phase' = [phase EXCEPT ![r] =
       IF abort[r] = "withSteer" THEN "cancelled-with-steer" ELSE "cancelled"]
  /\ Goto(r, "terminal")
  /\ UNCHANGED <<history, active, byThread, abort, steers, handoff, outcome,
                 queueVars, lifeVars, send>>

\* mutant of ActiveWithout: activeRuns.delete is forgotten
ActiveKept(r) == active

ActiveWithout(r) == active \ {r}

\* onTerminalState, after the snapshot is finalized
Release(r) ==
  /\ pc[r] = "terminal"
  /\ active' = ActiveWithout(r)
  /\ byThread' = Without(r)
  /\ Goto(r, "unwinding")
  /\ UNCHANGED <<storageVars, abort, phase, steers, handoff, outcome, queueVars,
                 lifeVars, send>>

\* handleCancelledWithSteerResult and the 'failed' branch of runLoop:
\* queuePendingSteersAfterTerminal, on the RunState the loop still holds
QueuesSteersAfterTerminal(r) ==
  phase[r] \in {"cancelled-with-steer", "failed"} /\ ~IsRecap(r)

LegReturns(r) ==
  /\ pc[r] = "unwinding"
  /\ IF QueuesSteersAfterTerminal(r)
     THEN /\ drafts' = [drafts EXCEPT ![ThreadOfRun[r]] = @ \cup steers[r]]
          /\ steers' = [steers EXCEPT ![r] = {}]
     ELSE UNCHANGED <<drafts, steers>>
  /\ outcome' = [outcome EXCEPT ![r] = phase[r]]
  /\ Goto(r, "final")
  /\ UNCHANGED <<storageVars, active, byThread, abort, phase, handoff, deferred,
                 timer, lifeVars, send>>
--------------------------------------------------------------------------------
(***************************************************************************)
(* Between legs: the retry backoff, and the steers that waited for the end *)
(* of a leg (handleSteerPendingResult).  The next leg installs a new       *)
(* AbortController (runLoop).                                              *)
(***************************************************************************)
NextLeg(r) ==
  /\ abort' = [abort EXCEPT ![r] = "none"]
  /\ Goto(r, "leg")

BackoffElapses(r) ==
  /\ pc[r] = "backoff" /\ abort[r] = "none"
  /\ NextLeg(r)
  /\ UNCHANGED <<storageVars, active, byThread, phase, steers, handoff, outcome,
                 queueVars, lifeVars, send>>

\* sleep() rejects: the row is cancelled here, without handleCancelledRun
BackoffAborted(r) ==
  /\ pc[r] = "backoff" /\ abort[r] # "none"
  /\ SetRow(r, "cancelled")
  /\ outcome' = [outcome EXCEPT ![r] = "cancelled"]
  /\ Goto(r, "final")
  /\ UNCHANGED <<history, active, byThread, abort, phase, steers, handoff,
                 queueVars, lifeVars, send>>

\* persistSteerPendingRun, after the wait: the checkpoint goes
SteerLegReturns(r) ==
  /\ pc[r] = "steerSaved"
  /\ checkpoint' = IF IsRecap(r) THEN checkpoint ELSE checkpoint \ {r}
  /\ outcome' = [outcome EXCEPT ![r] = "steer-pending"]
  /\ Goto(r, "steerPending")
  /\ UNCHANGED <<row, history, active, byThread, abort, phase, steers, handoff,
                 queueVars, lifeVars, send>>

\* mutant of PersistSteers: clearPendingSteerInputs is forgotten
PersistSteersOnly(r, inputs) ==
  /\ history' = history \cup (inputs \cap Msgs)
  /\ Goto(r, "restorePoint")
  /\ UNCHANGED <<row, checkpoint, steers, outcome>>

\* persistSteerMessages + clearPendingSteerInputs, up to the restore point
PersistSteers(r, inputs) ==
  /\ history' = history \cup (inputs \cap Msgs)
  /\ steers' = [steers EXCEPT ![r] = {}]
  /\ Goto(r, "restorePoint")
  /\ UNCHANGED <<row, checkpoint, outcome>>

\* cancelSteerPendingRun: nothing is left to continue with
CancelSteerPending(r) ==
  /\ SetRow(r, "cancelled")
  /\ outcome' = [outcome EXCEPT ![r] = "cancelled"]
  /\ steers' = [steers EXCEPT ![r] = {}]
  /\ Goto(r, "final")
  /\ UNCHANGED history

HandleSteerPending(r) ==
  /\ pc[r] = "steerPending"
  /\ \/ /\ steers[r] = {}
        /\ CancelSteerPending(r)
     \/ /\ steers[r] # {} /\ handoff[r]
        /\ Goto(r, "handoff")
        /\ UNCHANGED <<storageVars, steers, outcome>>
     \/ /\ steers[r] # {} /\ ~handoff[r]
        /\ PersistSteers(r, steers[r])
  /\ UNCHANGED <<active, byThread, abort, phase, handoff, queueVars, lifeVars, send>>

\* handoffAtCheckpoint answered: without a handoff its continuation steer goes
HandoffAnswers(r) ==
  /\ pc[r] = "handoff"
  /\ handoff' = [handoff EXCEPT ![r] = FALSE]
  /\ \E completed \in BOOLEAN :
       LET left == IF completed THEN steers[r] ELSE steers[r] \ {Continuation} IN
       IF left = {} THEN CancelSteerPending(r) ELSE PersistSteers(r, left)
  /\ UNCHANGED <<active, byThread, abort, phase, queueVars, lifeVars, send>>

SteerLegStarts(r) ==
  /\ pc[r] = "restorePoint"
  /\ NextLeg(r)
  /\ UNCHANGED <<storageVars, active, byThread, phase, steers, handoff, outcome,
                 queueVars, lifeVars, send>>
--------------------------------------------------------------------------------
(***************************************************************************)
(* The end of the loop.                                                    *)
(***************************************************************************)
\* runLoop's catch: an error left a leg, the handoff or a restore point.  When
\* the row no longer says 'running' it is thrown on, and result is what the
\* leg before it returned.
Caught(r) == row[r] = "running" \/ (IsRecap(r) /\ r \in active)

LoopThrows(r) ==
  /\ r \in FaultyRuns
  /\ \/ pc[r] \in {"leg", "stopping", "failing", "steerSaved", "handoff", "restorePoint"}
     \/ pc[r] = "terminal" /\ phase[r] = "completed"
  /\ IF row[r] = "running" THEN SetRow(r, "failed") ELSE UNCHANGED <<row, checkpoint>>
  /\ outcome' = [outcome EXCEPT ![r] = IF Caught(r) THEN "threw" ELSE @]
  /\ handoff' = [handoff EXCEPT ![r] = @ /\ pc[r] # "handoff"]
  /\ Goto(r, "final")
  /\ UNCHANGED <<history, active, byThread, abort, phase, steers, queueVars,
                 lifeVars, send>>

\* mutant of StartsFollowUp: the admission check is dropped
StartsFollowUpAnyTime(r) ==
  /\ closing = "no" /\ Without(r)[ThreadOfRun[r]] = NoRun
  /\ drafts[ThreadOfRun[r]] # {}

\* mutant of StartsFollowUp: only a completed run starts the next one
StartsFollowUpOfCompleted(r) ==
  /\ StartsFollowUpAnyTime(r) /\ admission /\ outcome[r] = "completed"

\* What runLoop's finally and startQueuedFollowUpIfPresent ask for
StartsFollowUp(r) ==
  /\ closing = "no" /\ admission
  /\ Without(r)[ThreadOfRun[r]] = NoRun
  /\ drafts[ThreadOfRun[r]] # {}
  /\ outcome[r] # "steer-pending"
  /\ ~(IsRecap(r) /\ r \in active)

\* runLoop's finally, after finishPluginRun: leave the maps if still there,
\* then start the thread's draft
LoopEnds(r) ==
  LET t == ThreadOfRun[r]
      ended == [pc EXCEPT ![r] = "done"] IN
  /\ pc[r] = "final"
  /\ IF StartsFollowUp(r)
     THEN \E next \in Fresh("chat") :
            /\ ThreadOfRun[next] = t
            /\ StartRows({next}, drafts[t])
            /\ Launch({next}, active \ {r}, Without(r), ended)
            /\ drafts' = [drafts EXCEPT ![t] = {}]
     ELSE /\ Launch({}, active \ {r}, Without(r), ended)
          /\ UNCHANGED <<row, history, drafts>>
  \* nothing refers to the RunState any more
  /\ steers' = [steers EXCEPT ![r] = {}] /\ abort' = [abort EXCEPT ![r] = "none"]
  /\ phase' = [phase EXCEPT ![r] = "generating"] /\ handoff' = [handoff EXCEPT ![r] = FALSE]
  /\ UNCHANGED <<checkpoint, outcome, deferred, timer, lifeVars, send>>
--------------------------------------------------------------------------------
(***************************************************************************)
(* Admission is closed while an update installs and opened again if it is  *)
(* given up; what was deferred or queued meanwhile starts then.            *)
(***************************************************************************)
CloseAdmission ==
  /\ admission /\ updates < MaxUpdates
  /\ admission' = FALSE
  /\ updates' = updates + 1
  /\ UNCHANGED <<storageVars, loopVars, queueVars, closing, waitFor, booting, boots,
                 restarts, send>>

\* What startRecoveredRun starts out of the candidates, taken in turn: one
\* per thread that has no active run; the others are dropped
Recoverable(candidates) ==
  {S \in SUBSET candidates :
     /\ \A r \in S : Idle(ThreadOfRun[r])
     /\ \A r, q \in S : ThreadOfRun[r] = ThreadOfRun[q] => r = q
     /\ \A c \in candidates : Idle(ThreadOfRun[c]) =>
          \E r \in S : ThreadOfRun[r] = ThreadOfRun[c]}

\* The fresh runs that start the drafts of the threads waiting
FollowUpRuns(waiting) ==
  {S \in SUBSET Fresh("chat") :
     /\ \A r, q \in S : ThreadOfRun[r] = ThreadOfRun[q] => r = q
     /\ {ThreadOfRun[r] : r \in S} = waiting}

\* The threads whose draft is started once the runs recovered are
Waiting(recovered) ==
  {t \in Threads : /\ drafts[t] # {} /\ Idle(t)
                   /\ \A r \in recovered : ThreadOfRun[r] # t}

StartWaiting(recovered, waiting) ==
  \E started \in FollowUpRuns(waiting) :
    /\ StartRows(started, UNION {drafts[t] : t \in waiting})
    /\ Launch(recovered \cup started, active, byThread, pc)
    /\ drafts' = [t \in Threads |-> IF t \in waiting THEN {} ELSE drafts[t]]
    /\ deferred' = {}

OpenAdmission ==
  /\ ~admission
  /\ admission' = TRUE
  /\ IF closing # "no"
     THEN UNCHANGED <<row, history, pc, active, byThread, drafts, deferred>>
     ELSE \E recovered \in Recoverable(deferred) : StartWaiting(recovered, Waiting(recovered))
  /\ UNCHANGED <<checkpoint, abort, phase, steers, handoff, outcome, timer, closing,
                 waitFor, booting, boots, updates, restarts, send>>
--------------------------------------------------------------------------------
(***************************************************************************)
(* bootstrap(): the rows of an earlier process.  It can be called again    *)
(* while runs are working (a window is reopened), and sends need not wait  *)
(* for it.                                                                 *)
(***************************************************************************)
\* mutant of InterruptedRows: the test for a checkpoint is inverted
CheckpointedRows == {r \in Runs : row[r] = "running" /\ r \in checkpoint}

InterruptedRows == {r \in Runs : row[r] = "running" /\ r \notin checkpoint}

RecoverInterruptedRuns ==
  row' = [r \in Runs |-> IF r \in InterruptedRows THEN "failed" ELSE row[r]]

Bootstrap ==
  /\ ~booting /\ boots < MaxBoots /\ closing = "no"
  /\ RecoverInterruptedRuns
  /\ booting' = TRUE /\ boots' = boots + 1
  /\ UNCHANGED <<checkpoint, history, loopVars, queueVars, admission, closing, waitFor,
                 updates, restarts, send>>

\* prepareRecoveredRuns looks at the checkpoints of idle threads only
Listed == {r \in checkpoint : Idle(ThreadOfRun[r])}

\* prepareRecoveredRuns and scheduleRecoveredRuns, after the documents are read
BootstrapReturns ==
  LET stale == {r \in Listed : row[r] # "running"} IN
  /\ booting
  /\ booting' = FALSE
  /\ checkpoint' = checkpoint \ stale
  /\ deferred' = deferred \cup (Listed \ stale)
  /\ timer' = (timer \/ Listed \ stale # {})
  /\ UNCHANGED <<row, history, loopVars, drafts, admission, closing, waitFor, boots,
                 updates, restarts, send>>

\* resumeDeferredRecoveredRuns
ResumeTimer ==
  /\ timer
  /\ timer' = FALSE
  /\ IF closing # "no" \/ ~admission
     THEN UNCHANGED <<pc, active, byThread, deferred>>
     ELSE \E recovered \in Recoverable(deferred) :
            /\ Launch(recovered, active, byThread, pc)
            /\ deferred' = {}
  /\ UNCHANGED <<storageVars, abort, phase, steers, handoff, outcome, drafts, lifeVars,
                 send>>
--------------------------------------------------------------------------------
(***************************************************************************)
(* close(), a crash, and the process that comes after.                     *)
(***************************************************************************)
Close ==
  /\ closing = "no" /\ restarts < MaxRestarts
  /\ closing' = "aborted"
  /\ abort' = [r \in Runs |-> IF r \in active /\ abort[r] = "none" THEN "plain" ELSE abort[r]]
  /\ UNCHANGED <<storageVars, pc, active, byThread, phase, steers, handoff, outcome,
                 queueVars, admission, waitFor, booting, boots, updates, restarts, send>>

\* after backgroundBashManager.close(): Promise.allSettled(activeRunTasks)
CloseCollects ==
  /\ closing = "aborted"
  /\ closing' = "waiting"
  /\ waitFor' = active
  /\ UNCHANGED <<storageVars, loopVars, queueVars, admission, booting, boots, updates,
                 restarts, send>>

\* Only storage survives: Maps, drafts, timers and calls die with the process
NewProcess ==
  /\ restarts < MaxRestarts
  /\ restarts' = restarts + 1
  /\ pc' = [r \in Runs |-> "idle"] /\ active' = {}
  /\ byThread' = [t \in Threads |-> NoRun]
  /\ abort' = [r \in Runs |-> "none"] /\ phase' = [r \in Runs |-> "generating"]
  /\ steers' = [r \in Runs |-> {}] /\ handoff' = [r \in Runs |-> FALSE]
  /\ outcome' = [r \in Runs |-> "none"]
  /\ drafts' = [t \in Threads |-> {}] /\ deferred' = {} /\ timer' = FALSE
  /\ admission' = TRUE /\ closing' = "no" /\ waitFor' = {}
  /\ booting' = FALSE /\ boots' = 0 /\ updates' = 0
  /\ send' = [m \in Msgs |->
       CASE send[m] = "preparing" -> "rejected"
         [] send[m] = "accepted" /\ m \notin history -> "forgotten"
         [] OTHER -> send[m]]
  /\ UNCHANGED <<checkpoint, history>>

CloseEnds ==
  /\ closing = "waiting"
  /\ \A r \in waitFor : pc[r] = "done"
  /\ RecoverInterruptedRuns
  /\ NewProcess

Crash == NewProcess /\ UNCHANGED row
--------------------------------------------------------------------------------
LegStep(r) ==
  \/ LegCompletes(r) \/ LegRetries(r) \/ LegFails(r) \/ ObserveAbort(r)
  \/ FailedRow(r) \/ CancelledRow(r) \/ Release(r) \/ LegReturns(r)

BetweenLegs(r) ==
  \/ BackoffElapses(r) \/ BackoffAborted(r)
  \/ SteerLegReturns(r) \/ HandleSteerPending(r) \/ HandoffAnswers(r)
  \/ SteerLegStarts(r)

LoopStep(r) == LegStep(r) \/ BetweenLegs(r) \/ LoopEnds(r)

Next ==
  \/ \E m \in Msgs : SendChat(m) \/ SendPrepared(m)
  \/ \E t \in Threads : \/ RetryMessage(t) \/ RequestRecap(t)
                        \/ WithdrawPendingSteer(t) \/ DeleteQueuedFollowUp(t)
  \/ \E r \in Runs : \/ CancelRun(r) \/ Checkpoint(r) \/ RequestContextHandoff(r)
                     \/ LoopStep(r) \/ LoopThrows(r)
  \/ CloseAdmission \/ OpenAdmission
  \/ Bootstrap \/ BootstrapReturns \/ ResumeTimer
  \/ Close \/ CloseCollects \/ CloseEnds \/ Crash

Spec == Init /\ [][Next]_vars
--------------------------------------------------------------------------------
(***************************************************************************)
(* Fairness.  A loop that can move does (the event loop runs every ready   *)
(* continuation); a leg does not retry for ever (RETRY_MAX_ATTEMPTS) and   *)
(* its stream ends (the inactivity timeout); a prepared send goes on.      *)
(***************************************************************************)
Fairness ==
  /\ \A r \in Runs : WF_vars(LoopStep(r)) /\ SF_vars(LegCompletes(r) \/ LegFails(r))
  /\ \A m \in Msgs : WF_vars(SendPrepared(m))
  /\ WF_vars(BootstrapReturns) /\ WF_vars(ResumeTimer)

FairSpec == Spec /\ Fairness
--------------------------------------------------------------------------------
(***************************************************************************)
(* Safety                                                                  *)
(***************************************************************************)
Working(r) == pc[r] \in WorkPcs

\* activeRuns holds exactly the loops that still have work, or that end
\* without having passed onTerminalState.
ActiveAgreesWithLoops ==
  \A r \in Runs : /\ Working(r) => r \in active
                  /\ r \in active => Working(r) \/ pc[r] = "final"

\* activeRunByThread names an active run of that thread, and every active run
\* except a displaced recap is the one its thread names.
OwnersAgreeWithActive ==
  /\ \A t \in Threads : ~Idle(t) => Owner(t) \in active /\ ThreadOfRun[Owner(t)] = t
  /\ \A r \in active : ~IsRecap(r) => Owner(ThreadOfRun[r]) = r

\* A recap is ephemeral: no row, no checkpoint.
RecapLeavesNoRow ==
  \A r \in Runs : IsRecap(r) => row[r] = "none" /\ r \notin checkpoint

\* A row says 'running' only until its loop's terminal write: once the loop is
\* past it, no checkpoint can bring the run back.
UnfinishedPcs == {"idle", "leg", "backoff", "stopping", "steerSaved", "steerPending",
                  "handoff", "restorePoint"}
RunningRowIsUnfinished ==
  \A r \in Runs : row[r] = "running" => pc[r] \in UnfinishedPcs

\* A run waiting to be resumed has a row and no loop, so resuming it neither
\* starts a second loop nor takes a run id that a new run could be given,
\* whenever admission opens or bootstrap is called again.
DeferredIsDormant == \A r \in deferred : pc[r] = "idle" /\ row[r] # "none"

\* From its terminal write until its loop ends, a run takes no more steers.
TerminalRunIsClosed ==
  \A r \in Runs : pc[r] \in {"terminal", "unwinding"} => phase[r] # "generating"

\* Two loops never write the same thread's conversation at once: the two
\* indexes and the guards of sendChat, retry, follow-up start and recovery
\* together keep a thread's working runs to one (recaps write nothing).
OneWriterPerThread ==
  \A r, q \in Runs :
    (/\ Working(r) /\ Working(q) /\ ~IsRecap(r) /\ ~IsRecap(q)
     /\ ThreadOfRun[r] = ThreadOfRun[q]) => r = q

\* A row says 'running' only while a loop works on it or a checkpoint lets the
\* next bootstrap resume it: no run stays 'running' for ever in the client.
RunningRowIsOwned ==
  (restarts = 0 \/ boots > 0) =>
    \A r \in Runs : row[r] = "running" => r \in active \/ r \in checkpoint

\* The statuses a run may be left with by a loop that ended with result.kind
StatusesFor(kind) ==
  CASE kind = "completed" -> {"completed"}
    [] kind \in {"cancelled", "cancelled-with-steer"} -> {"cancelled"}
    [] kind = "failed" -> {"failed"}
    [] OTHER -> Finished

\* What a finished loop reported is what storage says about the run, whatever
\* bootstraps, cancels and later runs happened since.
OutcomeAgreesWithRow ==
  \A r \in Runs : (pc[r] = "done" /\ ~IsRecap(r)) => row[r] \in StatusesFor(outcome[r])

\* Where a message can be: saved, queued, or pending on a run
Held(m) == \/ m \in history
           \/ \E t \in Threads : m \in drafts[t]
           \/ \E r \in Runs : m \in steers[r]

\* A message the user took back (a withdrawn steer, a deleted draft) is never
\* sent to the model: not by the steer captured in the abort reason, not by
\* the draft a terminal run leaves behind.
WithdrawnStaysOut == \A m \in Msgs : send[m] = "withdrawn" => ~Held(m)

OnePlace(m) ==
  /\ \A r, q \in Runs : m \in steers[r] /\ m \in steers[q] => r = q
  /\ \A t, u \in Threads : m \in drafts[t] /\ m \in drafts[u] => t = u
  /\ \A r \in Runs, t \in Threads : ~(m \in steers[r] /\ m \in drafts[t])
  /\ m \in history => /\ \A r \in Runs : m \notin steers[r]
                      /\ \A t \in Threads : m \notin drafts[t]

\* A message waits in one place only, so it cannot be delivered twice.
OnePlacePerMessage == \A m \in Msgs : OnePlace(m)

--------------------------------------------------------------------------------
(***************************************************************************)
(* The inductive invariant: the properties above, strengthened with what   *)
(* holds at every place a loop can be suspended at.                        *)
(***************************************************************************)
\* Who owns a thread, and what storage may still say of a run.
OwnershipInv ==
  /\ TypeOK /\ ActiveAgreesWithLoops /\ OwnersAgreeWithActive
  /\ RecapLeavesNoRow /\ RunningRowIsUnfinished /\ DeferredIsDormant
  /\ TerminalRunIsClosed

\* Whatever is held was accepted, and waits in one place.
MessageInv ==
  /\ \A m \in Msgs : Held(m) => send[m] = "accepted"
  /\ OnePlacePerMessage

\* What a loop reports and what the row says, wherever the loop is suspended
OutcomeInv ==
  \A r \in Runs :
    /\ pc[r] \notin {"final", "done"} =>
         outcome[r] \in {"none", "recovering", "steer-pending"}
    /\ ~IsRecap(r) =>
         /\ pc[r] # "idle" => row[r] # "none"
         /\ pc[r] \in {"terminal", "unwinding"} => row[r] \in StatusesFor(phase[r])
         /\ pc[r] \in {"final", "done"} => row[r] \in StatusesFor(outcome[r])

\* Which runs can end with nothing pending
SteersInv ==
  \A r \in Runs :
    /\ IsRecap(r) => steers[r] = {}
    /\ pc[r] = "stopping" => abort[r] # "none"
    /\ closing = "no" /\ abort[r] = "plain" => steers[r] \cap Msgs = {}
    /\ pc[r] \in {"terminal", "unwinding"} =>
         /\ phase[r] = "completed" => steers[r] \cap Msgs = {}
         /\ phase[r] = "cancelled" => abort[r] = "plain"
    /\ closing = "no" /\ pc[r] = "final" /\ r \notin active => steers[r] \cap Msgs = {}
\* Everything that is proved inductive, in one formula
IndInv == OwnershipInv /\ MessageInv /\ OutcomeInv /\ SteersInv /\ RunningRowIsOwned
--------------------------------------------------------------------------------
(***************************************************************************)
(* What a step may never do                                                *)
(***************************************************************************)
\* A loop that ends while still in activeRuns did not pass onTerminalState: a
\* cancelled backoff, a withdrawn steer or an error took it out.
EndsUnreleased(r, m) ==
  pc[r] = "final" /\ pc'[r] = "done" /\ r \in active /\ m \in steers[r]

\* An accepted message is saved or still waiting.  It leaves only because the
\* user took it back, the process is closing or gone, or its run's loop ended
\* without onTerminalState; no cancel, failure, completion or displaced recap
\* on the ordinary path drops it, however the awaits interleave.
NoUnnamedLoss ==
  \A m \in Msgs :
    (send'[m] = "accepted" /\ (send[m] # "accepted" \/ Held(m)))
    => \/ Held(m)'
       \/ closing # "no"
       \/ \E r \in Runs : EndsUnreleased(r, m)

OnlyNamedLosses == [][NoUnnamedLoss]_vars

\* Between closing admission and opening it no run starts: not a send that was
\* waiting for its attachments, not a queued follow-up, not a recovered run.
NothingStarts == active' \subseteq active

NoStartWhileAdmissionClosed ==
  [][~admission /\ ~admission' => NothingStarts]_vars
--------------------------------------------------------------------------------
(***************************************************************************)
(* Liveness                                                                *)
(***************************************************************************)
\* A queued follow-up is not forgotten: whichever run held the thread, its end
\* starts the draft.
QueuedFollowUpStarts == \A t \in Threads : drafts[t] # {} ~> drafts[t] = {}

\* A cancel that reaches a streaming leg ends the run.
CancelledLegEnds ==
  \A r \in Runs : (pc[r] = "leg" /\ abort[r] # "none") ~> pc[r] = "done"
================================================================================
