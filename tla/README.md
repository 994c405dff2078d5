# Yachiyo in TLA+

This directory is a verification project for Yachiyo, a desktop agent whose
runtime (`src/packages/runtime`) keeps conversations ("threads"), runs a model
over them, and lets several clients (desktop windows, channels, schedules, a
remote phone) send to the same thread while it works. The modules are written
from the code; every definition that stands for code is listed with its lines
in `PROJECT.json` under `map`.

Contents

1. The system: components, state, operations, what is hard
2. The plan
3. `RunDomain`: the model and its correspondence to the code
4. `FollowUpQueue` and `MessageInbox`
5. `Subagents`
6. `RemoteEvents`
7. `UpdateReceipt`
8. `Schedules`
9. What the runs check, and the bounds
10. Where the code and its words differ
11. What is proved, and how
12. What is not modelled

## 1. The system

The runtime is one JavaScript process, a child of the desktop application's main
process. Each stretch of code between two `await`s is atomic; everything else
interleaves. Storage is SQLite, written synchronously. Either process can be
killed at any moment; the runtime starts again over the same database.

### Core

**Run domain** (`app/domain/run`). State: `activeRuns` (run id to RunState),
`activeRunByThread`, `activeRunTasks`, `queuedFollowUpDrafts` (per thread),
`pendingRecoveredRuns` and its timer, `runAdmissionOwnerId`, `isClosing`; in a
RunState the AbortController, `executionPhase`, `pendingSteerInputs`,
`pendingContextHandoff`. Operations: `sendChat` (starts a run, steers the
active one, or queues a follow-up), `retryMessage`, `requestRecap`,
`cancelRun`, `withdrawPendingSteer`, `deleteQueuedFollowUp`, `runLoop`,
`openRunAdmission` / `closeRunAdmission`, `prepareRecoveredRuns`, `close`.
It calls the run execution for each leg, storage for every status change, and
the context handoff coordinator at a checkpoint; it is called by every client.
Hard: a send waits for its attachments and acts on what it finds afterwards; a
run leaves the maps (onTerminalState) well before its loop ends; a recap shares
the thread with chat runs but may be displaced; a cancel can come at any await
of the loop, and each place treats it differently. Correct when: one run writes
a thread at a time; no accepted message disappears or is delivered twice; what
the user took back is not sent; a row's status is what its loop reported; a
queued draft starts in the end.

**Run execution** (`run/execution`). One leg: `executeServerRun` streams from
the model, writes recovery checkpoints, and ends completed, steer-pending,
recovering (retry with backoff), failed, or aborted. State: the message being
streamed, the checkpoint row. Hard: each end is two or three storage writes with
awaits between; an error may come out of any of them. Correct when the row is
never left `running` without a checkpoint and never finished twice with
different statuses.

**Storage of runs** (`storage/`). Rows of `runs` with a status, recovery
checkpoints, messages. Operations: `startRun`, `completeRun`, `cancelRun`,
`failRun`, `recoverInterruptedRuns`, checkpoint upsert and delete. Correct when
what survives a crash is enough to resume or to fail each run, and no more.

**Server host** (`app/host`). `bootstrapYachiyoServer` repairs rows and resumes
runs; `YachiyoServer.close` aborts and waits for the runs. Hard: bootstrap is
called again when a window reopens, and clients need not wait for it.

**Run recovery** (`run/runRecovery.ts`). The content of a checkpoint, the id of
the assistant message a resumed run continues, the retry counters. Correct when
a resumed run neither loses nor duplicates text.

**Context handoff** (`run/handoff`). At a checkpoint, a second model call
summarises the thread and replaces the context. State: controllers of handoffs
in progress. Hard: cancel and close while the summary is being written. Correct
when a failed handoff leaves the thread as it was.

### Around the runs

| Component | State | Operations | Hard | Correct when |
|---|---|---|---|---|
| Background bash (`domain/background`) | task table, log buffers, recently completed | start, adopt, cancel, transfer to another thread, finalize, close | completion races cancel, transfer and close | each task is finalized once, to the thread that owns it then |
| Subagents (`domain/subagents`) | agents with a state, a mailbox, an idle timer, a drain and a runner | launch, send, drain, eliminate, cancel, closeThread, close | a turn ends while a message arrives; idle timer against send; a deletion that waits while others act | no message is left in a mailbox nobody drains; a closed agent runs no turn |
| Sentinels (`domain/sentinel`) | one timer or armed wake per thread | set, clear, fire, onRunTerminal, dispose | fires while the thread is busy or is re-set meanwhile | fires at most once per arming, and does fire |
| Schedules (`services/scheduleService`, `domain/schedules`) | the table of schedules and of their runs; a timer per schedule, active runs, the fingerprint of the table as it was armed | create, update, delete; arm, fire, reload, poll, trigger now, start, stop | a fire waits for the network and for its run while the window or another process edits the table; delays beyond what a timer holds; exits in between | an enabled schedule is armed; an occurrence fires once; no run stays `running` |
| Auto sync (`services/autoSyncScheduler`) | `running`, `pending`, debounce and interval timers | requestSync, drain, start, stop | a change during a sync; stop during a sync | every change is followed by a sync that starts after it |
| Memory distillation (`services/memory`) | entry per thread, tasks and controllers | onRunCompleted, flush, cancelThread, close | cancel or close during a flush | distilled once per settled thread, never after a cancel |
| Threads (`domain/threads`) | rows | create, archive, branch, delete, revert | against an active run | the tree of messages stays rooted |
| File snapshots (`services/fileSnapshot`) | manifests and blobs | track, finalize, collect garbage | collection while a snapshot is written | no referenced blob is collected |
| Process broker (`services/processBroker`) | requests, jobs, child, write chain | start, request, cancel, close, failBroker | the child dies with requests in flight; output out of order | each job settles once |
| ACP pool (`runtime/acp`) | idle sessions with timers | checkout, checkin, evict, shutdown | timer against checkout; shutdown against checkin | a session is used by one run or idle, never both |
| Remote events (`remote/remoteEventHub`, and the phone in `apps/ios`) | epoch, sequence, ring, journal, pending and requested summaries, subscribers; on the phone cursor and list | emit, flush, resume, deliver, stop, start; observe, accept, refetch | a phone resumes over a gap, a restart or a summary that could not be fetched | when all is quiet the phone lists what the server lists |
| Remote connections (`remote/`) | handshake state, queues | accept, frame, send, close, pair | back-pressure and close in the middle of a drain | order is kept; nothing is sent after close |
| Group monitor (`channels/group`) | phase, buffer, timers, `checking` | onMessage, runCheck, setMode, stop | a message during a check; stop during a check | every message is seen by a check or has left the window |
| Direct messages (`channels/direct`) | batch per user, chain of runs, stop controllers | enqueue, flush, stop, slash commands | a message while the reply streams | messages are answered in order, each once |
| Channel connections (`channels/shared`) | retry timers, service table | start, stop, retry | start during stop | one live connection per channel |
| RPC (`packages/shared/src/rpc`) | pending calls, subscriptions | call, answer, disconnect | a side goes away | each call settles once |
| App update (`desktop/.../appUpdate`) | admission owner, install slot, receipt file, deferral, loan | close admission, install, reopen, deliver, claim, acknowledge, release | two installs, exits of either process between any two steps, answers that come too late | admission is closed only for an install in progress; a receipt is owed until it is told, and told once |
| Tunnel supervisor (`desktop/.../remote`) | child, backoff | start, stop, restart | stop during a restart | no child after stop |
| Plugins | sandboxes | hooks of a run | user code | out of scope |
| Gateway, renderer, tools | - | dispatch and interface | - | out of scope |
| Native hosts (`native/`) | Rust process host and sync core | spawn; merge of files | - | merge loses no side |

`PROJECT.json` lists every component with its status, and under `hazards` every
place found so far where this code is hard to test, with the property that
watches it or the reason why none does yet.

## 2. The plan

| Order | Module | Subject | State |
|---|---|---|---|
| 1 | `RunDomain`, `MCRunDomain`, `RunDomain_proof` | ownership of threads, run loop, steers, drafts, cancel, crash, recovery, admission | done |
| 2 | `MessageInbox` (abstract), `FollowUpQueue`, `MCFollowUpQueue`, `FollowUpQueue_proof` | what a follow-up queue promises: order and grouping of drafts, merging, promotion on delete, message parents; the queue implements the inbox | done |
| 3 | `Subagents`, `MCSubagents`, `Subagents_proof` | workers: turns, mailboxes, drains, runners; the deletion of a thread and the close of the manager, which wait for them | done |
| 4 | `RemoteEvents`, `MCRemoteEvents`, `RemoteEvents_proof`, `RemoteEvents_agreement` | the event stream of a phone: ring, journal, deferrals, resume, restarts | done |
| 5 | `UpdateReceipt`, `MCUpdateReceipt`, `UpdateReceipt_proof` | the install command and the gate of run admission; the record of what is owed, its delivery and its loans | done |
| - | `Filter`, `SequenceLemmas` | the filter of an array; facts about sequences that the proofs share | done |
| - | `RunRecovery`, `ContextHandoff` | contents of checkpoints across crash and resume; the handoff run | not modelled |
| 6 | `Schedules`, `MCSchedules`, `Schedules_proof` | the schedule service: timers, fires, the connectivity probe, the overlap guard, edits from two processes, exits | done |
| - | `AutoSync`, `Distillation`, `Sentinel`, `BackgroundTasks` | timers and completions against work in flight | not modelled |
| - | `AcpPool`, `ProcessBroker`, `RpcChannel`, `GroupMonitor`, `DirectMessages` | pools, batches, calls in flight | not modelled |
| - | `SnapshotGc`, `SyncMerge` | blobs and manifests; the merge against a reference | not modelled |

The modules meet in these places. `FollowUpQueue` takes the loop of `RunDomain`
for one thread, with order added, and implements `MessageInbox` twice.
`Subagents` keeps of the run domain what its operations look at: whether a
thread has an active run, whether the domain is closing. `UpdateReceipt` keeps
of it the owner of admission, whose effect on runs (`CloseAdmission`,
`OpenAdmission`) is in `RunDomain`. `RemoteEvents` keeps of the whole runtime
what `getThreadSummary` would answer, and `Schedules` that the turns of a fire end. Every instance is small because every
hazard listed involves two loops, a loop and two clients, or two processes.

## 3. `RunDomain`

One action is one stretch between two awaits. `pc[r]` names the await run r's
loop is suspended at:

    idle --launch--> leg --+--> terminal --> unwinding --> final --> done
                     ^ ^   +--> stopping --> terminal        ^
                     | |   +--> failing  --> terminal        |
                     | |   +--> backoff -----(cancelled)-----+
                     | +--------- (elapsed) --'              |
                     |     +--> steerSaved --> steerPending -+ (nothing left)
                     |                            |    '-> handoff
                     +------ restorePoint <-------+----------'

`terminal` is after the terminal write and before `onTerminalState`;
`unwinding` is after it, when the run has left `activeRuns` but
`executeServerRun` has not returned; `final` is `finishPluginRun` in `runLoop`'s
`finally`.

| Variable | In the code |
|---|---|
| `row`, `checkpoint`, `history` | `runs.status`, the recovery checkpoint table, saved user messages |
| `active`, `byThread` | `activeRuns` (and `activeRunTasks`, set and deleted with it), `activeRunByThread` |
| `abort` | the current AbortController: not aborted, aborted plainly, aborted with a steer as its reason |
| `phase` | `executionPhase`, together with the kind of result a terminal leg is about to return |
| `steers`, `handoff` | `pendingSteerInputs`, `pendingContextHandoff` |
| `outcome` | `result.kind` of the loop; `threw` when `runLoop`'s catch handled the error |
| `drafts` | `queuedFollowUpDrafts` |
| `deferred`, `timer` | `pendingRecoveredRuns`, the `setTimeout` of `scheduleRecoveredRuns` |
| `admission`, `closing`, `waitFor` | `runAdmissionOwnerId` is undefined, `isClosing` and how far `close` got |
| `send`, `booting` | progress of each `sendChat` and of `bootstrap` |
| `boots`, `updates`, `restarts` | bounds only |

Choices of abstraction:

- Messages are identities. Text, attachments, order within a draft and message
  parents are left to `FollowUpQueue`; `drafts[t]` is the set of messages merged into the
  thread's draft. A merged draft shows some of its messages, so deleting it
  removes a non-empty set of the visible ones.
- `createId` gives an unused run id. To keep the model small a run id belongs to
  one thread and one kind (chat, retry, recap): `ThreadOfRun`, `KindOfRun`.
- A recap writes to an ephemeral storage, so `SetRow` does nothing for it.
- A leg is one suspension from its start to its end; checkpoints, steers and
  cancels happen during it. What the model streams is the choice of an end.
- Terminal phase: `LegCompletes` and the others do the terminal write and set
  the phase in one stretch, as the code does.
- Errors (`LoopThrows`): a leg can throw before `executeServerRun` has reached
  its `try` or out of its catch (`return handleCompletedRun(...)` is not
  awaited inside the `try`), and the restore point and
  `onAssistantMessagePersisted` can throw. `finalizeRunSnapshot` catches its own
  errors, so `unwinding` does not throw.
- `LoopEnds` also resets the RunState's fields: nothing refers to that object
  any more, and a reused description would only add states.
- `Crash` may happen at any moment; `CloseEnds` runs `recoverInterruptedRuns` as
  `YachiyoServer.close` does before the process exits. `bootstrap` is assumed not
  to be called after `close`.

## 4. `FollowUpQueue` and `MessageInbox`

`RunDomain` sees messages as sets. `FollowUpQueue` takes one thread and gives
the messages their order: which of them are merged into one request, in which
order requests wait, and where their rows hang in the message tree. It keeps the
steps of the loop at which messages or the head move, under the same names, and
leaves crashes, admission, recaps and storage errors to `RunDomain`.

| Variable | In the code |
|---|---|
| `rows`, `head` | the thread's messages in the order they were saved, `headMessageId` (an index of `rows`) |
| `send`, `seen` | progress of each `sendChat`; the head in the thread record it read first |
| `owner`, `pc`, `abort`, `outcome` | as in `RunDomain`, for one thread |
| `request` | `RunState.requestMessageId` |
| `steers` | `pendingSteerInputs`: at most one hidden and one visible request |
| `handoff` | whether `pendingContextHandoff` is set; a run asks once at most |
| `draft` | the thread's draft: its `hiddenDrafts`, then the draft itself, as one sequence, the order in which `getQueuedFollowUpDraftMessages` lists them |
| `click` | a call of `deleteQueuedFollowUp` on its way, with the message that was on the screen |

A request is the id it goes by, the messages merged into it, and whether it is
hidden. `WithSteer` keeps the id of the steer merged into, `WithFollowUp` takes
the id of the new message (`replacedMessageId`): the first is what a pending
steer is known by, the second what makes a late deletion miss. Choices:

- `send[m] = "preparing"` is the wait in `sendChatFlow` for images and
  attachments. The thread record was read before it and is used after it
  (`seen`). A message without files has no await between the two.
- `Branching` says whether the user retries messages and selects reply branches.
  `LatestLeaf` is the row saved last in a subtree, which is what comparing
  `createdAt` over its leaves finds. `selectReplyBranch` also accepts an id that
  was never saved; that case, and the deletion of history, are left out.
- mode `normal` on a busy thread throws and changes nothing; it is left out.
- `LegCompletesWithSteers` moves `request` at once, where the loop does it when
  it handles the result: nobody reads it in between.
- `LegFails` is one step: the row of the failed reply is saved an await before
  the terminal phase, and a steer that arrives in between is treated like one
  that arrived before. The same holds of `ObserveAbort`, where no steer can.
- The summary of a handoff is no row; a handoff that fails takes the
  continuation line back.
- Steers still pending when a loop ends disappear with the RunState
  (`send[m] = "lost"`), the loss `RunDomain` names in `OnlyNamedLosses`.

`MessageInbox` is the abstract specification: boxes that keep the order of
arrival, a conversation, and messages that are gone. A box is said as a whole,
poured as a whole before or behind another, shortened from its end by the user,
or, when fragile, lost. `FollowUpQueue` implements it twice: for what the user
sends (`VisibleIsInbox`, everything retractable) and for what the system sends
(`HiddenIsInbox`, nothing retractable). The boxes are the runs' steers, which
are fragile, and the queue, which is not; `Texts` maps a sequence of requests to
the messages of one visibility in it. What the code filters is `Kept` of
`Filter`: the elements of a sequence that are in a set. The refinement forbids losing, repeating,
splitting or reordering messages in any of the merges, and forbids a deletion by
the user to take a hidden message with it.

## 5. `Subagents`

A worker is launched by a run, works in turns, is steered by messages in its
mailbox, reports to its parent thread, and is closed by its failure, a
cancellation, a timer, a limit, or the deletion of its thread. An action is what
happens between two awaits, and the module goes as far as single promise
callbacks where the code depends on their order.

| Variable | In the code |
|---|---|
| `agents` | the keys of the manager's map `agents` |
| `state`, `mailbox`, `turns`, `reported`, `timer` | `snapshot.state`, `mailbox`, `turnCount`, `initialResultDelivered` and `idleTimer` of each record |
| `drain` | `drainPromise`: `"turn"` while `drain` awaits `runTurn`, `"returned"` between its return and the `.finally` that clears it |
| `runner` | `closePromise` of a record: not there, pending, settled |
| `delivering` | `deliverToParent` of the worker has not settled |
| `manager`, `managerWaits` | `RunDomain.isClosing`, `closed` of the manager; what its `close` awaits |
| `thread`, `threadWaits`, `targets`, `stopped` | where `deleteThread` is, what it awaits, and the records `closeThread` took before its first await |
| `run` | `isThreadRunning` of the parent thread |
| `sent`, `missed` | a bound (each steer is sent once); history: workers cancelled in the gap `"returned"` |

- A wait is the set of promises that exist when it begins (`Promise.all`,
  `allSettled`); `Settle` takes one out of every wait. What is begun later is
  waited for by nobody, and that is where `DeletedThreadIsQuiet` could fail.
- A turn is one suspension; its end is the choice of what `drain` tells apart:
  a report, a pause for mail, an interruption, a failure, or a stop.
- `IdleExpires` waits until no drain is `"returned"`: promise callbacks run
  before timers do.
- Each worker id is used once. The parent may steer every worker of its thread,
  so a steer has no sender.

## 6. `RemoteEvents`

The phone shows the inbox: which threads there are, with a summary each. The
hub hears the server's events, asks the server for summaries, numbers what it
tells, and keeps a ring of recent events and a journal of the last event of
each thread for phones that were away. A summary it could not tell anybody is
*deferred*: the journal has a number for it, the ring has no event.

| Variable | In the code |
|---|---|
| `inbox` | what `getThreadSummary` and the thread list answer |
| `hub` | `RemoteEventHub`: `epoch`, `seq`, `ring`, `ringFloor`, `journal`, `journalFloor`, `pending`, `inFlight`, `lastSummaries` (`last`), removals held for a visibility lookup (`held`), `visible`; `asked` is the queue of requests on the channel to the server |
| `saved` | the state file of `remoteEventState` |
| `link` | the hub's subscriber (`mode`, `through` is `deliveredThrough`, `queued`), the resume under way (`from`, `fetched`), and the wire (`pushes`, `reply`); `ahead` says that a push was read before the reply in front of it |
| `phone` | `EventCursorTracker`'s cursor, `RemoteStore`'s list, whether it must be fetched anew |
| `lost`, `fresher` | histories, below |
| `events`, `links`, `starts` | bounds only |

- Requests, answers and events of the server share one ordered channel, so the
  answer to a request is what holds when it is taken.
- Numbers are naturals; what bounds a run is the number of events. `Ascending`
  is the sort of a replay: its items have distinct numbers, so there is one
  order (`ReplayRises` proves that there is).
- The hub's synchronous helpers (`Record`, `Append1`, `Defer`, `Refresh`, ...)
  are functions of its state; an action composes them and `Become` delivers.
- `lost` names what the code gives up, so that `InboxAgrees` can say that there
  is nothing else: changes while the hub is stopped; a deferral that takes the
  place of a removal in the journal, is evicted from it while the ring still
  answers, or happens while a phone is served; a visibility lookup that fails; a
  held removal told after the thread is listed again; removals held at a stop;
  a summary fetched for a resume that no longer holds when the resume commits,
  with no news of the thread held or wanted (`outdated`); a
  summary equal to the last one appended while the phone has, or is told, another
  one that was fetched (`fresher`); a phone that stops after it read a push and
  before the reply that tells it to fetch the list.
- A new list makes good what slipped, except for the threads in `Coming`: older
  news of them, on the wire or from a resume, are still above the cursor and will
  be applied over the list.
- `Stop` and `Crash` wait until no push has overtaken a reply; `Disconnect`
  covers that case.
- Left out: events of an open thread, `run.status`, the age limit of the ring
  (it shortens the ring as the other limit does), threads deleted or without a
  visibility, the pages of the list (`Refetch` is one step), a state file that
  cannot be marked as in use.

## 7. `UpdateReceipt`

Told in a chat to update itself, Yachiyo ends the process that was told, and
reports afterwards to that chat. The main process closes run admission in the
runtime, writes a record of what it owes, announces, and installs; the runtime
that starts later delivers the record, once, and if that fails the record is
lent to the next message to the chat.

| Variable | In the code |
|---|---|
| `step`, `silent` | where the handler of an install command is suspended; commands without a chat to report to |
| `slot`, `owner` | `activeInstallReservation`, the gateway's `ownerId` |
| `file` | the record on disk (`pendingUpdateReceipt`), by its `attemptId` |
| `gate`, `up` | the runtime's `runAdmissionOwnerId`; `serverRpc` is there |
| `pass`, `passOf`, `active` | where `deliverPendingUpdateReceipt` is suspended, for which record, and how far its message has got |
| `deferred`, `lease`, `leased` | `deferredAttemptId`, `liveClaim.token` and `.attemptId` of the coordinator |
| `call`, `out` | the coordinator call of each send and its answer; where `sendWithUpdateReceipt` is suspended |
| `told`, `doubt` | histories: how often the user saw the receipt (twice stands for more); attempts of whose message the sender could not know its fate |
| `exits`, `restarts` | bounds only |

- A call to the runtime acts when it is posted (the port is ordered) and answers
  later; when the runtime goes away every call rejects, and what the handlers do
  about it (`CallsReject`) is part of the step.
- `RuntimeExits` is an exit or a stop of the runtime, with or without another
  start; `OpenFails` is `recoverRuntime`; `AppEnds` is the end of the main
  process at any moment, by the install or not. Only the record survives it.
- All attempts come from one channel. Downloads, updater errors and a count of
  updater operations are behind `Refused` and `InstallFails`; the install from
  the settings page, records that expired, and the mode in which the runtime
  lives in the main process are left out.
- A runtime started in the middle of an install reads the record at once, tells
  the chat that the update was not completed, and clears it; the install may go
  on and end the process, although `installReceiptSequence.ts:118-121` counts on
  the receipt after the restart. `InstallKeepsItsRecord` names the case
  (`told[a] > 0`).

## 8. `Schedules`

A timer per enabled schedule, armed from a table that the settings window, the
command line (another process) and the service itself write. A fire asks whether
its schedule has a run (`activeRuns`), waits for the network, enters the run and
its row, waits for the turns of a thread of its own, and arms or disables the
schedule again.

| Variable | In the code |
|---|---|
| `life`, `enabled`, `due` | the row of a schedule; `due` is its `runAt`, or `Cron` |
| `changed` | schedules whose row differs from the one `lastFingerprint` was made of |
| `reloads` | `reloadSchedules` calls that follow the writes of the window |
| `on` | `off` before `start` and after an exit, `stopped` after `stop` |
| `armed`, `wake` | the `fireAt` a timer of `timers` is for; when its `setTimeout` is up |
| `active` | `activeRuns` |
| `stage`, `of`, `at`, `row` | a call of `fireSchedule`: where it is suspended, its schedule, the time it was armed for (or `Manual`), its row in `schedule_runs` |
| `paired` | a history: schedules of which two fires were in the probe at a time |
| `now`, `edits`, `exits` | the clock; bounds |

- The clock counts units of no fixed length. `NextTick` is any monotone function
  that gives a later time: what a cron expression can be. `TimeoutUp` is what
  `setTimeout` does with a delay it cannot hold; `WakeFor` cuts a delay so that
  it never meets that case.
- A timer fires at its time or at any later moment. The model lets a fire wait as
  long as it likes; `FireOverlaps` and `TimerContinues` are the other ends of a
  timeout.
- `Init` is a first start, when `ensureBundledSchedules` has stored what ships
  with the application; on later starts it refreshes names and prompts before the
  service loads the table, which changes nothing here.
- A write through the window is followed by a `reload`, one from the command line
  by nothing until the poll (`SyncFromDb`) sees another fingerprint. The
  fingerprint is taken before arming, which may itself disable a one-off:
  `LoadAndArm` leaves exactly those in `changed`.
- The fire of a schedule that was deleted during its probe throws in
  `createScheduleRun`: there is no row for the foreign key. A fire by hand
  rejects (`TriggerThrows`); one by a timer is a promise nobody holds, and the
  runtime's handler of unhandled rejections ends the process (`FireThrows`).
- A run that ends after `stop` arms its schedule all the same: `stop` clears
  timers and does not wait.
- `RunEnds` stores the outcome of the turns and leaves the block `finally`: no
  await separates the two.
- Left out: the turns and reminders of a run, which are runs of the run domain;
  the archival of its thread; a development build that starts no schedules; the
  100 ms by which a timer may be early, a clock that is set back, and the two
  reads of the clock between which `armTimerAt` may find its time past and arm
  nothing; an update by the other process between the read and the write of
  `disarmOneOffSchedule`.

## 9. The runs

An MC module gives the identities their attributes and their symmetry; each
`.cfg` chooses a subset. Deadlock is not checked: ids, messages, events and
restarts are bounded, so every model stops when it has used them.

| Run | Bounds | Checks |
|---|---|---|
| `RunDomainSend` | one thread; two chat runs and a recap; a visible and a hidden message; one leg that asks for a handoff, one loop that may throw | `OneWriterPerThread`; `OutcomeAgreesWithRow`; `WithdrawnStaysOut`; `OnePlacePerMessage`; `OnlyNamedLosses` |
| `RunDomainRestart` | one thread; a chat run that may throw, a second chat run and a retry; one message; one restart, two bootstraps per process, two updates | `IndInv` (the whole inductive invariant), `RunningRowIsOwned`, `NoStartWhileAdmissionClosed` |
| `RunDomainLive` | one thread; three chat runs; three messages, one hidden | `QueuedFollowUpStarts`, `CancelledLegEnds` under fairness |
| `QueueInbox` | two visible messages and a hidden one, two runs that may both ask for a handoff | the type invariant; `UserMessagesOnPath`, `DeletesWhatWasShown`; the refinements `VisibleIsInbox` and `HiddenIsInbox` |
| `QueueBranches` | two messages, one with files, three runs, the user retries and selects branches | `LegAnswersHead` |
| `Subagents` | two workers of one thread, two steers; one worker may work at a time, one envelope a mailbox, two turns a worker | the type invariant with the limit of the mailboxes; `WorkHasADrain`, `NoTurnAfterClose`, `RunnersAreClosed`, `RestedMeansReported`, `DeletedThreadIsQuiet`, `EndIsFinal` |
| `SubagentsLive` | one worker, two steers, two turns | `MailIsTaken`, `DeletionEnds` under fairness |
| `SubagentsDeleteRace` | two workers, one steer | `DeletedThreadHasNoRun`, which does not hold (section 10) |
| `RemoteEvents` | two threads with two summaries each, three events, two connections, one restart of the hub; a ring and a journal of one entry | the type invariant with both limits; `InboxAgrees`, `CursorWithinHead`, `NothingSkipped` |
| `RemoteDeferred` | as above, a journal of two | `DeferredIsResumable`, which does not hold (section 10) |
| `UpdateReceipt` | two installs, two sends at a time, two exits of the runtime, one restart of the application | the type invariant; `TwiceOnlyInDoubt`, `InstallKeepsItsRecord`, `AdmissionHasOwner`, `LoanHasABearer`, `OwedUntilTold` |
| `Schedules` | a bundled schedule and one of the user's, two fires, two edits, one exit; four times, a tick at every second of them, no timer longer than two units | the type invariant; `EnabledIsArmed`, `OccurrencesFireOnce`, `OverlapComesFromTheProbe`, `RunningRowIsInFlight` |

Every `RunDomain` instance has one thread: threads meet only at admission, at close and at
a restart, where each is treated alike, and the proofs of section 11 hold for any
number of them. Why the other bounds are enough: ownership can only go wrong between the run that
owns a thread, the one before it that is unwinding, and a recap that either
displaces; three runs on one thread give every such triple. Two messages are a
steer and what arrives after it; hidden and visible ones differ only when a
steer is withdrawn. Restarts matter once: a process keeps nothing from the one
before its predecessor except storage, and storage has all its statuses after
one. Two bootstraps are the first, and the one a reopened window causes; two
updates are one and another after admission has opened again. One message
is enough there, since the run asks about rows and starts: it begins a run, or it
waits as the steer or follow-up a restart finds. What must hold
beyond these bounds is proved (section 11).

`MCFollowUpQueue` names messages and runs; runs are interchangeable. Merging
meets its cases with a draft that has one request of each visibility and a
message more: two visible messages, a hidden one, and the continuation of a
handoff, which is hidden too. Two runs are the one that ends with steers and the
one that takes the thread before them. `QueueBranches` has three runs, for a retry
of a retry. Only `QueueBranches` has a message with files: `UserMessagesOnPath`
does not hold with them, for a reason told in section 10 (a message with
files starts under an old head).

A worker meets its hazards alone (a steer, a cancel or a deletion against the
end of its drain); the second worker takes part in the limits and gives a
deletion two things to wait for. A ring and a journal of one entry over two
threads overflow with the second event; three events are one before a phone
goes away, and two while it is away or comes back; two connections are the one
that breaks and the one that resumes; one restart is a restored file or a lost
one. Two installs are the one whose record is on disk and the one that writes
over it; of two sends one has the loan and one asks for it; two exits fall
before and in the middle of an install. Of two fires one runs and the other
overlaps it, or follows it; two edits are one before a fire and one during it; a
timer of three units is longer than the longest delay of two. An occurrence that
was interrupted and the one after it need the exit and two times.

The type invariant of `RunDomain` is checked as a part of `IndInv`.

Fairness, in `RunDomain`. `WF(LoopStep(r))`: the event loop runs every ready
continuation and every storage call returns. `SF(LegCompletes(r) \/ LegFails(r))`: a leg that is
retried again and again ends, because `RETRY_MAX_ATTEMPTS` bounds retries and
the inactivity timeout ends a silent stream; the attempt counter itself is not
modelled, strong fairness stands for it. `WF(SendPrepared)`, `WF(ResumeTimer)`,
`WF(BootstrapReturns)`: file reads and timers complete. Nothing is assumed of
users, updates, close or crashes. `HandoffRuns` is empty in the liveness run:
the bound of one handoff at a time would not stop a model that asks for a
handoff in every leg. In `Subagents`: a turn ends (the provider's stream ends or
is aborted), promise callbacks run, runners close, deliveries settle, and
`closeThread` goes on when what it waits for has settled. Nothing is
assumed of launches, steers, cancels, timers or runs.

## 10. Where the code and its words differ

Two runs check what a document or a comment says and find a counterexample.

- **A thread is deleted under a run** (`SubagentsDeleteRace`). `deleteThread`
  throws "Cannot delete a thread with an active run." and then awaits
  `closeSubagentsForThread`, the eviction and the removal of files. A send, or
  the report of a worker that `closeThread` waits for, starts a run on the thread
  in between. The thread is deleted under it.
- **A deferral passes a connected phone by** (`RemoteDeferred`). A summary cannot
  be fetched and is deferred under a number of its own: "Keep the change
  resumable even though no summary could be sent now." A phone that is served
  hears nothing; the next event of another thread takes its cursor past that
  number, and no resume will give it the summary. It stays out of date until the
  thread changes again or the list is fetched anew.

Others can be seen in the models and need no run of their own; the properties
that remain exempt exactly these cases, by name.

- *A cancel between legs is swallowed.* A steer arrives, the leg ends
  steer-pending, the loop saves the steer and waits for the restore point. The
  user cancels: `cancelRun` aborts the controller and returns true. The next turn
  of `runLoop` installs a new controller and the steer leg runs.
- *A steer is lost with a cancelled backoff.* A leg fails with a retryable error
  and the loop sleeps. The user steers, and cancels: `sleep` rejects and the loop
  breaks with kind `cancelled`, without the branch that would queue the steer.
  `OnlyNamedLosses` shows that this shape (a loop that ends while still in
  `activeRuns`) is the only loss while the process works.
- *A cancelled run comes back.* A deferred run is cancelled by its row before the
  timer fires. The timer starts it from the copy it holds.
- *A second bootstrap fails a live run.* A run that streams and has written no
  checkpoint has a row like that of an interrupted run;
  `recoverInterruptedRuns` fails it.
- *A draft is stranded behind a recap.* A follow-up is queued behind a run. While
  the run unwinds a recap takes the thread; the run's end finds it busy. The
  recap fails with a retryable error, is cancelled in its backoff, and ends while
  still in `activeRuns`, which skips `startQueuedFollowUpIfPresent`.
- *A message with files starts under an old head.* A run works; the user sends a
  message with an attachment, and `sendChatFlow` reads the thread and saves the
  file. The run completes and its reply becomes the head. The send finds the
  thread idle and starts a run with the parent taken from the record it read
  first: the reply is on another branch, and the new run is not shown it.

- *Two runs of one schedule.* The help says that the connectivity check comes
  first, then the overlap guard, and "Runs of the same schedule never run in
  parallel." (`yachiyo-help/references/schedule.md:21-22`). `fireSchedule` asks
  the guard first, then probes for up to 17 seconds, then enters the run: two
  fires in one probe both run, and the end of the first takes the second out of
  `activeRuns`. `OverlapComesFromTheProbe` says this is the only way.
- *A one-off that is late.* The same page says that a one-off whose time is past
  when the application starts, or when it is enabled again, fires at once (lines
  32 and 123). `armTimer` disables it.

More things the models allow contradict no document; they are listed under
`hazards`. An interrupted run whose thread got busy
before the timer of bootstrap is dropped, and its row says `running` until the
next process. And a steer withdrawn between the end of the leg it was waiting for
and the moment it is saved leaves the head at the request: the next message hangs
beside the completed reply, not under it. A one-off
that is moved to a later time while its run is in flight is disabled by the end of
that run. A schedule deleted while a fire of it probes takes the runtime down.

## 11. What is proved

`RunDomain_proof` proves, for every set of threads, runs and messages and every
bound, from the four assumptions on the constants only (`ThreadsAssumption`,
`IdentityAssumption`, `SubsetAssumption`, `BoundAssumption`):

| Theorem | States |
|---|---|
| `TypeCorrect` | `[]TypeOK` |
| `Inductive` | `[]IndInv` |
| `OneWriter` | `[]OneWriterPerThread` |
| `NoOrphanRow` | `[]RunningRowIsOwned` |
| `OutcomeIsStored` | `[]OutcomeAgreesWithRow` |
| `DeliveredOnce` | `[]OnePlacePerMessage` |
| `WithdrawnIsGone` | `[]WithdrawnStaysOut` |
| `RecapIsEphemeral` | `[]RecapLeavesNoRow` |
| `LossesAreNamed` | `OnlyNamedLosses` |
| `ClosedMeansClosed` | `NoStartWhileAdmissionClosed` |

None of the invariants above is inductive alone. `IndInv` has five parts, each
with a lemma that takes one step per action:

- `OwnershipInv` (`IndexStep`, `RowStep`): the two indexes agree with where the
  loops are; a row that says `running` belongs to a loop before its terminal
  write or to none; a deferred run has a row and no loop. The last is what makes
  a recovered run safe to start: its id is not fresh and nobody runs it.
  `OneWriterPerThread` follows, because every working run that is not a recap
  is the one its thread names. `LaunchIndex` is the argument common to every
  way of starting runs: at most one per thread, in a thread that is idle or held
  by a recap.
- `MessageInv` (`MessageStep`): what is held anywhere was accepted and is in one
  place. `Delivery` covers the steps that save messages, `PlacesKept` the
  messages a step does not touch.
- `OutcomeInv` (`OutcomeStep`): at each place of the loop, which statuses the
  row can have given what the loop will report. It needs the index, because a
  bootstrap or a stale cancel writes rows while loops are suspended.
- `SteersInv` (`SteersStep`): why a run that leaves `activeRuns` on the ordinary
  path has nothing pending. A completed leg had no steers and none can be added
  after its terminal phase; a plainly aborted run had none when it was aborted
  and none can be added afterwards (`SteerMustQueue`); the other ends queue what
  is left. Without the test of the abort signal in `SteerMustQueue` the second
  step fails, which is the race its comment describes.
- `RunningRowIsOwned` (`OwnedStep`).

`LossStep` and `NoStartStep` prove the two action properties from `IndInv`.
TLC checked `IndInv` before it was proved and checks it still
(`RunDomainRestart`).

`FollowUpQueue_proof` proves, for any messages and runs, from `NamesAssumption` and `SubsetAssumption`:

| Theorem | States |
|---|---|
| `TypeCorrect`, `TypeInvariant` | `[]TypeOK`, `[]TypeInv` |
| `QueueInvariant` | `[]QueueInv` |
| `DeletionShown` | `DeletesWhatWasShown` |
| `HeadIsRequest`, `AnswersHead` | `[]HeadInv`, `[]LegAnswersHead` |
| `Linear` | `[]UserMessagesOnPath`, if `Straight` |
| `VisibleRefinement` | `VisibleIsInbox`: every behaviour is one of `MessageInbox` for what the user sends |
| `HiddenRefinement` | `HiddenIsInbox`: the same for what the system sends |

- `TypeInv` (`ControlInv`, `BoxInv`, `RowInv`) is `TypeOK` with the shape of what
  waits: a request has the message it is named after and messages of one
  visibility (`SoundRequests`), a run's steers are at most one hidden and one
  visible request in that order (`Pairs`), a row's parent is an older row
  (`Ordered`). The operations on requests are closed only on such values.
- `QueueInv` adds that a message waits in one place, in one request of it, and is
  `accepted` there (`WaitInv`), and what a deletion on its way knows: as long as
  the draft still has the id the user clicked on, it has no message the user did
  not see (`ClickInv`). That is due to `WithFollowUp`, which gives the merged
  draft the new id; merging under the old one breaks `WithFollowUpAdds` and
  with it `DeletesWhatWasShown`.
- `HeadInv`: a loop that is not yet past its terminal write holds the thread, and
  the request of a run about to answer is the head. The first part is needed because the
  second is disturbed only by steps that move the head, and each of these is taken
  by the holder (`PersistKeeps`), starts a run on a thread nobody works on
  (`LaunchKeeps`, for sends, retries and drafts alike), or is refused while the
  thread runs (`BranchesKeep`). It holds with files too: a run
  started under an old head still makes its own request the new one.
- `LinearInv`: every user message saved is on the path from the head and, while
  steers are about to be saved, on the path from the request they will hang
  under. `Straight` says that no message waits for files and nobody retries or
  selects branches, as in the run `QueueInbox`. Without it the property fails, for
  the reason told in section 10, so it is a hypothesis of the theorem; a thread of
  plain messages meets it. `Path` climbs to the
  root; that the recursion has one solution (`ClimbExists`, `ClimbUnique`) is
  proved from `Ordered`.
- The refinement goes in two stages. Each operation on requests is shown to do to
  the messages of one class (`Texts`) what the inbox does to a box: `WithSteer`
  and `WithFollowUp` append, `WithSteersQueued` pours a box before another,
  `WithoutContinuation` leaves what is in it, a save says a box as a whole
  (`WithSteerTexts` to `WithoutContinuationTexts`). Then each action is shown to
  be one step of the inbox or a stutter (`AcceptMoves` to `MovesStep`), for any
  class that fits the queue (`InboxClass`); `VisibleStep` and `HiddenStep` are
  its two instances. It needs `QueueInv`: what is put in
  a box or said must not be known already (`Unknown`), and what a deletion takes
  must be one visible request at the end of the queue, with none of its messages
  anywhere else (`DeleteMoves`).

`SequenceLemmas` has the facts the provers lack about `FlattenSeq`, `Kept`,
`ToSet` and folds. The library states induction with an operator as parameter,
which no installed prover can instantiate. Stated with a set instead, induction
follows from the least element of a set of naturals: `InductionUpTo`,
`SequenceInduction`, the existence of recursive functions (`RecursionExists`)
and of folds (`FoldExists`). `FlattenRecursion` and `FoldTakes` then give the
equations of the two community operators. `SelectSeq` cannot be treated this way: it takes an
operator, which is why the filter of an array is `Kept`.

`Subagents_proof` proves, for any workers, threads, steers and limits, from
`ThreadOfAssumption`, `MsgsAssumption` and `LimitsAssumption`:

| Theorem | States |
|---|---|
| `TypeCorrect` | `[]TypeOK`, with the limit on the envelopes of every mailbox |
| `SteersAreServed` | `[]WorkHasADrain` |
| `RunnerOutlivesTurn` | `[]NoTurnAfterClose` |
| `RunnerIsReleased` | `[]RunnersAreClosed` |
| `LaunchIsAnswered` | `[]RestedMeansReported` |
| `DeletionIsQuiet` | `[]DeletedThreadIsQuiet` |
| `WorkersStayEnded` | `EndIsFinal` |

The limit of the mailboxes needs that a set with one element more is larger by
one at most (`RoomForOne`, from the library's facts on finite sets).
`WorkHasADrain` is inductive with `LiveIsOpen`: a live worker is in the map, so
`ManagerCloses` finds it. `DeletedThreadIsQuiet` is the end of a chain:
`FirstWait` says that a deletion in its first wait waits for every drain of a
worker it stopped, `SecondWait` that in the second nothing of them drains any
more and closes and deliveries are waited for; both rest on `TargetsEnded`, which
says that what `closeThread` found has ended, so that none of it starts anything.
`RunnersAreClosedEarly` strengthens `RunnersAreClosed` by the gap between the
return of a drain and its `.finally`.

`UpdateReceipt_proof` proves, for any attempts, sends, exits and restarts, from
`NoneAssumption` and `BoundAssumption`:

| Theorem | States |
|---|---|
| `TypeCorrect` | `[]TypeOK` |
| `ToldOnce` | `[]TwiceOnlyInDoubt` |
| `RecordIsKept` | `[]InstallKeepsItsRecord` |
| `GateIsOwned` | `[]AdmissionHasOwner` |
| `LoanIsBorne` | `[]LoanHasABearer` |
| `OwedIsTold` | `OwedUntilTold` |

The heart is `OneMessage` (`OneMessageStep`): of a receipt nobody is in doubt
about, at most one message is on its way, and once it was shown either the record
has gone or whoever showed it is about to say so. The active send and the loan
exclude each other because a claim needs a deferral, and a pass sends only what
is not deferred (`PassInv`); a loan is with one send at a time (`LoanInv`); and a
record cannot come back for an attempt that was told, since only an attempt that
has not yet written it writes it (`OnlyKnown`). Exits that fall between a message
and its acknowledgement put the attempt in `doubt`. `RecordIsKept` needs
`SlotInv`: while an attempt installs it holds the slot, so no other writes over
its record. `GateIsOwned` needs `ClosingInv`: an attempt that waits for the answer
of `closeRunAdmission` has closed the runtime that is there.

`Schedules_proof` proves, for any schedules, fires, edits and exits, any clock,
tick function and longest delay, from `BoundAssumption`, `BundledAssumption`,
`ValueAssumption` and `TickAssumption`:

| Theorem | States |
|---|---|
| `TypeCorrect` | `[]TypeOK` |
| `NoneForgotten` | `[]EnabledIsArmed` |
| `FiresOnce` | `[]OccurrencesFireOnce` |
| `OverlapNeedsTheProbe` | `[]OverlapComesFromTheProbe` |
| `RunsAreRecovered` | `[]RunningRowIsInFlight` |

`ArmEffect` says once what arming a set of schedules does to the timers, whoever
arms (`LoadEffect`, `ArmOneEffect`, `RearmEffect`). `NoneForgotten` needs
`ActiveStep`: a schedule the guard turns fires away from has a run in flight,
which will arm or disable it; otherwise a dropped fire of a one-off would be
its last. `OverlapNeedsTheProbe` needs `PairInv`: as long as no two fires of a
schedule met in the probe, the one that runs is in `activeRuns` and no other is
in the probe. `FiresOnce` rests on `TimerEffect`: whatever arms a timer sets it to
a time that has not come, and a fire's own time has.

`RemoteEvents_proof` proves, for any threads and versions, any limits of ring and
journal, and any number of events, connections and starts, from
`LimitsAssumption` alone:

| Theorem | States |
|---|---|
| `TypeCorrect` | `[]TypeOK`, with the limits of ring and journal |
| `EventsInvariant` | `[]EventsInv` |
| `CursorBehind` | `[]CursorWithinHead` |
| `AllApplied` | `[]NothingSkipped` |

`EventsInv` has four parts: types; `HubInv`, what the hub can tell carries
rising numbers up to the head, the journal uses none twice and the ring has none
of a deferral; `FileInv`, a clean file is of the hub's epoch and reaches as far as
the phone; `WireInv`, what is on the wire goes on above the cursor, and above the
reply if the phone is to list anew. `CursorWithinHead` is not inductive without
`FileInv`: a start from a file that is behind the phone would give numbers again.
`NothingSkipped` needs the journal and the ring apart, since a replay is merged
from both (`ReplayRises`), and `deliveredThrough`, which keeps what a commit has
put in the replay out of the live events (`DeliverSound`).

The hub's functions call each other and are folded over queues of threads. So
that one argument serves all, what they preserve is a set: `Reach(s, e, b)` has
the sound hubs of epoch `e` that have told only numbers above `s` and hold at
most `b` removals of a thread. `Append1Stays`, `DeferStays`, `RefreshStays` and
the rest say that a function does not leave it, `FoldRefresh`, `FoldDefer` and
`FoldAppend1` (from `FoldStays`) that its fold does not, and `BecomeKeeps`
that a hub in it may be taken and delivered.

`RemoteEvents_agreement` proves from the same assumption what the stream is for:

| Theorem | States |
|---|---|
| `AgreeInvariant` | `[](EventsInv /\ AgreeInv)` |
| `QuietInboxAgrees` | `[]InboxAgrees` |

`InboxAgrees` speaks of a phone at rest. What keeps it true on the way is that a
thread's latest value is always somewhere from which the phone will have it.
`AgreeInv` says so for two ways at once: the events now on the wire end with it
(`On`), and so would a resume from the phone's cursor, if the hub would answer
one (`Off`). The value is what the server lists, unless the thread is still to be
asked about, or the last one appended, unless the phone was given another one
since (`Owes`). Three facts go with it. `Paired`: ring and journal tell the same
of a thread, as far as their floors allow; without it a cursor that one of them
covers could be answered from the other, which has dropped the entry. `Backed`:
what ring and journal have of a thread is on the wire, or the wire is past it;
else a push could take the cursor over an event never sent. `Requested`: what the
hub waits for was asked, so that an empty queue means that nothing is wanted.
While the hub is down, a clean state file stands for the hub it will restore, and
a file in use for nothing, since a start from it begins another epoch.

The argument has three layers:

- *One thread*: a set of ring events, an entry of the journal, a set of events
  on the wire. What a cut of the ring, an eviction, a new event and a deferral,
  of the thread itself or of another, do to `Off`, `On` and `Paired` (`TrimOff`
  to `OffFromOn`). None of it mentions the hub.
- *One hub on its way through a handler*: `Fit` says that the handler may take
  this hub and deliver what it has to say. `AppendFits`, `DeferFits`,
  `FlushedFits`, `AppendRemovedFits` and `AppendHeldFits` go through the hub's
  functions and their folds; `BecomeAgrees` closes a handler.
- *The steps*: `ServerAgrees` to `CommitAgrees`, one for each kind of step. The
  longest are the commit of a resume, where the replay must be what `Off`
  foretold (`ReplayOn`, `ReplayReaches`), `TakePush`, where the cursor and the
  list move together, and `Stop`, where the file takes the place of the hub
  (`FileStands`).

The first attempts at this proof failed for a reason: the histories had missed
three cases. A summary fetched for a resume may be outdated when it is told
although its thread was not deferred again; it may be told over a later append
of the same thread; and a list fetched anew may be older than a removal or a
replay that is still to come. The code behaves in all of them as the model now
says, and `Wanted`, `Coming`, `outdated` and `fresher` are how the histories name
them. The run `RemoteEvents` cannot reach them: they need a journal of two
entries and four events over a ring of one. They are why the theorem, and not
the run, is the evidence for `InboxAgrees` beyond the smallest instance.

With this every invariant and every action property that a passing run checks
is also a theorem. Model-checked only: the four liveness properties (the
installed prover has no rules for fairness here) and the two counterexamples,
which are about single behaviours.

## 12. What is not modelled

Inside the run domain: the ACP loop (a run whose agent is another process),
assistant-only handoff runs, the debounce of identical sends, questions a tool
asks the user, hidden steers after a loop of failing tools, wakes by background
tasks, the kind `restarted` (declared, never raised), the number of
retries. `FollowUpQueue` has no deletion or editing of
history (`deleteMessageFromHere`), which is refused while the thread runs. What
`Subagents`, `RemoteEvents`, `UpdateReceipt` and `Schedules` leave out is said in their
sections.

Outside it, not modelled: the contents of recovery checkpoints and the handoff
run (streamed text and message ids, which the properties here do not tell
apart); background tasks, sentinels, auto sync and distillation (timers
that end in a hidden message or a task, each behind an interface of its own);
file snapshots, process broker, ACP pool and RPC channel; group monitor and
direct messages; pairing, the Noise handshake and the relay, which are
cryptography and transport; plugins, tools, gateway and renderer, which keep no
state across runs except through the components above; the native hosts. The
modules cover a small part of a large repository by lines: most of it is
interface, adapters and storage of data. `PROJECT.json` gives each component its
status and the reason.
