----------------------------- MODULE FollowUpQueue -----------------------------
(***************************************************************************)
(* One thread's conversation: how the messages sent to it are merged into  *)
(* requests, in which order they wait as steers and drafts, and where the  *)
(* rows saved for them hang in the thread's message tree.                  *)
(*                                                                         *)
(* MODULE RunDomain has all of the run loop and sees messages as sets.     *)
(* Here a loop keeps the steps at which messages move or the head does;    *)
(* crashes, admission, recaps and errors out of storage are left to it.    *)
(***************************************************************************)
EXTENDS Naturals, Sequences, SequencesExt, FiniteSetsExt, Filter

CONSTANTS
  Msgs,           \* messages clients send to the thread
  HiddenMsgs,     \* those the system sends (hidden: true)
  FileMsgs,       \* those whose images or attachments are saved first
  Runs,           \* run ids createId() can return (bound)
  HandoffRuns,    \* runs that may ask for one context handoff (bound)
  Branching,      \* whether the user retries and moves between branches (bound)
  Continuation,   \* CONTEXT_HANDOFF_CONTINUATION_STEER
  Queue,          \* the name of the draft among the boxes of the inbox
  NoRun

ASSUME NamesAssumption ==
  NoRun \notin Runs /\ Queue \notin Runs /\ Continuation \notin Msgs
ASSUME SubsetAssumption ==
  HiddenMsgs \subseteq Msgs /\ FileMsgs \subseteq Msgs /\ HandoffRuns \subseteq Runs

VARIABLES
  rows,           \* storage: the thread's messages in the order they were saved
  head,           \* storage: thread.headMessageId, an index of rows, 0 for none
  send,           \* progress of each client's sendChat call
  seen,           \* the head in the thread record the call read when it began
  owner,          \* activeRunByThread of the thread
  pc,             \* where the run's loop is
  abort,          \* the current AbortController of the run
  outcome,        \* the kind of result the leg ended with
  request,        \* RunState.requestMessageId, an index of rows
  steers,         \* RunState.pendingSteerInputs, in orderedPendingSteerInputs' order
  handoff,        \* RunState.pendingContextHandoff
  draft,          \* hiddenDrafts followed by the draft itself; <<>> for no draft
  click           \* <<the draft on the screen>> of a delete call on its way

threadVars == <<rows, head>>
loopVars == <<owner, pc, abort, outcome, request, steers, handoff>>
vars == <<threadVars, loopVars, send, seen, draft, click>>

Items == Msgs \cup {Continuation}
Hidden == HiddenMsgs \cup {Continuation}

\* Up to "terminal" the run is in activeRuns; "final" may still be, when it
\* never passed onTerminalState.
WorkPcs == {"leg", "backoff", "steerPending", "handoff", "restorePoint", "terminal"}
Pcs == WorkPcs \cup {"idle", "unwinding", "final", "done"}

\* A steer or a queued request: its id, the messages merged into it, and
\* whether it is hidden.
Requests == [id : Items, body : Seq(Items), hidden : BOOLEAN]
Rows == [kind : {"user", "completed", "stopped", "failed"}, parent : Nat,
         body : Seq(Items), hidden : BOOLEAN]

TypeOK ==
  /\ rows \in Seq(Rows) /\ head \in 0 .. Len(rows)
  /\ send \in [Msgs -> {"new", "preparing", "accepted", "withdrawn", "lost"}]
  /\ seen \in [Msgs -> 0 .. Len(rows)]
  /\ owner \in Runs \cup {NoRun}
  /\ pc \in [Runs -> Pcs]
  /\ abort \in [Runs -> {"none", "plain", "withSteer"}]
  /\ outcome \in [Runs -> {"none", "completed", "failed", "cancelled", "cancelled-with-steer"}]
  /\ request \in [Runs -> 0 .. Len(rows)]
  /\ steers \in [Runs -> Seq(Requests)]
  /\ handoff \in [Runs -> {"unused", "pending", "used"}]
  /\ draft \in Seq(Requests)
  /\ click \in Seq(Requests)

Init ==
  /\ rows = <<>> /\ head = 0
  /\ send = [m \in Msgs |-> "new"] /\ seen = [m \in Msgs |-> 0]
  /\ owner = NoRun
  /\ pc = [r \in Runs |-> "idle"] /\ abort = [r \in Runs |-> "none"]
  /\ outcome = [r \in Runs |-> "none"] /\ request = [r \in Runs |-> 0]
  /\ steers = [r \in Runs |-> <<>>] /\ handoff = [r \in Runs |-> "unused"]
  /\ draft = <<>> /\ click = <<>>
--------------------------------------------------------------------------------
(***************************************************************************)
(* Merging.                                                                *)
(***************************************************************************)
NewRequest(m) == [id |-> m, body |-> <<m>>, hidden |-> m \in Hidden]

SameVisibility(a, b) == a.hidden = b.hidden

Merge(existing, new, id) == [existing EXCEPT !.id = id, !.body = @ \o new.body]

\* addPendingSteerInput: at most one steer of each visibility, the hidden one
\* first; a merged steer keeps its id
WithSteer(inputs, new) ==
  IF \E i \in DOMAIN inputs : SameVisibility(inputs[i], new)
  THEN [i \in DOMAIN inputs |->
         IF SameVisibility(inputs[i], new) THEN Merge(inputs[i], new, inputs[i].id)
                                           ELSE inputs[i]]
  ELSE IF new.hidden THEN <<new>> \o inputs ELSE Append(inputs, new)

\* mutant of Merged: the merged draft keeps its id, as a merged steer does
MergedInPlace(shown, new) == Merge(shown, new, shown.id)

\* a merged draft takes the id of the new message: replacedMessageId
Merged(shown, new) == Merge(shown, new, new.id)

\* queueFollowUp
WithFollowUp(waiting, new) ==
  IF waiting = <<>> THEN <<new>>
  ELSE IF Last(waiting).hidden = new.hidden
  THEN Append(Front(waiting), Merged(Last(waiting), new))
  ELSE IF new.hidden THEN Front(waiting) \o <<new, Last(waiting)>>
  ELSE Append(waiting, new)

\* mutant of WithSteersQueued: the draft that is not the main one is dropped
KeepMainDraft(waiting, pending) ==
  IF waiting = <<>> THEN pending
  ELSE IF Last(waiting).hidden /\ ~Last(pending).hidden
  THEN pending ELSE waiting

\* queuePendingSteersAfterTerminal: the steers come first, unless the draft is
\* a hidden one and there is a visible steer to be shown
WithSteersQueued(waiting, pending) ==
  IF waiting = <<>> THEN pending
  ELSE IF Last(waiting).hidden /\ ~Last(pending).hidden
  THEN waiting \o pending ELSE pending \o waiting

\* mutant of AfterDelete: what was queued before the shown draft goes too
DeleteAll(waiting) == <<>>

\* createHiddenOnlyDraftAfterVisibleDelete: the one before it is promoted
AfterDelete(waiting) == Front(waiting)

\* removeContextHandoffContinuationSteer: the line goes, and the steer with it
\* when it has no other
WithoutContinuation(inputs) ==
  LET trimmed == [i \in DOMAIN inputs |->
        [inputs[i] EXCEPT !.body = Kept(@, Msgs)]] IN
  Kept(trimmed, {input \in ToSet(trimmed) : input.body # <<>>})
--------------------------------------------------------------------------------
(***************************************************************************)
(* Rows.                                                                   *)
(***************************************************************************)
\* mutant of Chained: every request hangs where the first one does
Siblings(inputs, parent) ==
  [i \in DOMAIN inputs |->
    [kind |-> "user", parent |-> parent,
     body |-> inputs[i].body, hidden |-> inputs[i].hidden]]

\* persistSteerMessages, reparentQueuedDraftMessages: each request hangs under
\* the one saved before it
Chained(inputs, parent) ==
  [i \in DOMAIN inputs |->
    [kind |-> "user", parent |-> IF i = 1 THEN parent ELSE Len(rows) + i - 1,
     body |-> inputs[i].body, hidden |-> inputs[i].hidden]]

\* mutant of SaveRequests: one row for all of them, the head counts each
LastRequestOnly(inputs, parent) ==
  /\ rows' = Append(rows, Last(Chained(inputs, parent)))
  /\ head' = Len(rows) + Len(inputs)

\* The requests are saved in turn and the head follows them.
SaveRequests(inputs, parent) ==
  /\ rows' = rows \o Chained(inputs, parent)
  /\ head' = Len(rows) + Len(inputs)

Reply(r, kind) == [kind |-> kind, parent |-> request[r], body |-> <<>>, hidden |-> FALSE]

SaveReply(r, kind) == rows' = Append(rows, Reply(r, kind))

\* startActiveRun for a run whose request was saved last
Launch(r, endedPc) ==
  /\ owner' = r
  /\ pc' = [endedPc EXCEPT ![r] = "leg"]
  /\ request' = [request EXCEPT ![r] = head']

Fresh == {r \in Runs : pc[r] = "idle"}

\* The indices collectMessagePath collects from row i
Path(i) ==
  LET up[j \in 0 .. Len(rows)] == IF j = 0 THEN {} ELSE {j} \cup up[rows[j].parent]
  IN up[i]

OfKind(kind) == {i \in DOMAIN rows : rows[i].kind = kind}

\* findLatestLeafFromMaps: the row saved last below row i has none below it
LatestLeaf(i) == Max({j \in DOMAIN rows : i \in Path(j)})
--------------------------------------------------------------------------------
(***************************************************************************)
(* sendChat.                                                               *)
(***************************************************************************)
StartFreshRun(m, parent) ==
  /\ owner = NoRun
  /\ SaveRequests(<<NewRequest(m)>>, parent)
  /\ \E r \in Fresh : Launch(r, pc)
  /\ UNCHANGED <<steers, draft>>

\* sendActiveRunSteer
AddSteer(m) ==
  /\ steers' = [steers EXCEPT ![owner] = WithSteer(@, NewRequest(m))]
  /\ UNCHANGED <<threadVars, owner, pc, request, draft>>

QueueFollowUp(m) ==
  /\ draft' = WithFollowUp(draft, NewRequest(m))
  /\ UNCHANGED <<threadVars, owner, pc, request, steers>>

\* mode 'steer' or 'follow-up'; mode 'normal' throws and leaves nothing
SendToActiveRun(m) ==
  /\ owner # NoRun
  /\ \/ abort[owner] = "none" /\ pc[owner] # "terminal" /\ AddSteer(m)
     \/ QueueFollowUp(m)

Accept(m, parent) ==
  /\ StartFreshRun(m, parent) \/ SendToActiveRun(m)
  /\ send' = [send EXCEPT ![m] = "accepted"]
  /\ UNCHANGED <<abort, outcome, handoff, seen, click>>

\* Without files there is no wait between reading the thread and using it.
SendChat(m) ==
  /\ send[m] = "new" /\ m \notin FileMsgs
  /\ Accept(m, head)

\* With files, sendChatFlow keeps the thread record it read before the wait.
SendChatWithFiles(m) ==
  /\ send[m] = "new" /\ m \in FileMsgs
  /\ send' = [send EXCEPT ![m] = "preparing"]
  /\ seen' = [seen EXCEPT ![m] = head]
  /\ UNCHANGED <<threadVars, loopVars, draft, click>>

SendPrepared(m) ==
  /\ send[m] = "preparing"
  /\ Accept(m, seen[m])

\* cancelRun: the reason tells whether steers were pending
CancelRun ==
  /\ owner # NoRun /\ abort[owner] = "none"
  /\ abort' = [abort EXCEPT ![owner] = IF steers[owner] = <<>> THEN "plain" ELSE "withSteer"]
  /\ UNCHANGED <<threadVars, owner, pc, outcome, request, steers, handoff, send, seen,
                 draft, click>>

MessagesOf(inputs) == (UNION {ToSet(inputs[i].body) : i \in DOMAIN inputs}) \cap Msgs

End(messages, how) ==
  send' = [m \in Msgs |-> IF m \in messages THEN how ELSE send[m]]

\* The requests of one visibility
OfVisibility(inputs, hidden) == Kept(inputs, {q \in ToSet(inputs) : q.hidden = hidden})

\* removeVisiblePendingSteerInputs: by thread, so whatever is pending by then
WithdrawPendingSteer ==
  /\ owner # NoRun
  /\ LET visible == OfVisibility(steers[owner], FALSE) IN
     /\ visible # <<>>
     /\ steers' = [steers EXCEPT ![owner] = OfVisibility(@, TRUE)]
     /\ End(MessagesOf(visible), "withdrawn")
  /\ UNCHANGED <<threadVars, owner, pc, abort, outcome, request, handoff, seen, draft, click>>

\* The user deletes the queued message on the screen: the call names its id,
\* and messages may be queued before it arrives.
ClickDelete ==
  /\ click = <<>> /\ draft # <<>> /\ ~Last(draft).hidden
  /\ click' = <<Last(draft)>>
  /\ UNCHANGED <<threadVars, loopVars, send, seen, draft>>

\* deleteQueuedFollowUpDraft
DeleteQueuedFollowUp ==
  /\ click # <<>>
  /\ click' = <<>>
  /\ IF draft # <<>> /\ Last(draft).id = click[1].id
     THEN /\ draft' = AfterDelete(draft)
          /\ End(MessagesOf(draft) \ MessagesOf(draft'), "withdrawn")
     ELSE UNCHANGED <<draft, send>>
  /\ UNCHANGED <<threadVars, loopVars, seen>>
--------------------------------------------------------------------------------
(***************************************************************************)
(* Branches.                                                               *)
(***************************************************************************)
\* mutant of ThreadRuns: a run that backs off or saves steers does not count
ThreadGenerates == \E r \in Runs : pc[r] = "leg"

\* hasNonRecapActiveRun
ThreadRuns == owner # NoRun

\* retryMessage: the request gets another reply, beside those it has
RetryMessage ==
  /\ Branching /\ ~ThreadRuns
  /\ head' \in OfKind("user")
  /\ \E r \in Fresh : Launch(r, pc)
  /\ UNCHANGED <<rows, abort, outcome, steers, handoff, send, seen, draft, click>>

\* selectReplyBranch
SelectReplyBranch ==
  /\ Branching /\ ~ThreadRuns
  /\ \E i \in DOMAIN rows \ OfKind("user") : head' = LatestLeaf(i)
  /\ UNCHANGED <<rows, loopVars, send, seen, draft, click>>
--------------------------------------------------------------------------------
(***************************************************************************)
(* The loop of a run.                                                      *)
(***************************************************************************)
Goto(r, place) == pc' = [pc EXCEPT ![r] = place]

RequestContextHandoff(r) ==
  /\ pc[r] = "leg" /\ r \in HandoffRuns /\ handoff[r] = "unused"
  /\ handoff' = [handoff EXCEPT ![r] = "pending"]
  /\ steers' = [steers EXCEPT ![r] = WithSteer(@, NewRequest(Continuation))]
  /\ UNCHANGED <<threadVars, owner, pc, abort, outcome, request, send, seen, draft, click>>

\* persistCompletedRun: the reply becomes the head
LegCompletes(r) ==
  /\ pc[r] = "leg" /\ abort[r] = "none" /\ steers[r] = <<>>
  /\ SaveReply(r, "completed")
  /\ head' = Len(rows')
  /\ outcome' = [outcome EXCEPT ![r] = "completed"]
  /\ Goto(r, "terminal")
  /\ UNCHANGED <<owner, abort, request, steers, handoff, send, seen, draft, click>>

\* persistSteerPendingRun: the reply is saved and the head stays; the loop
\* takes the reply as what the steers hang under
LegCompletesWithSteers(r) ==
  /\ pc[r] = "leg" /\ abort[r] = "none" /\ steers[r] # <<>>
  /\ SaveReply(r, "completed")
  /\ request' = [request EXCEPT ![r] = Len(rows')]
  /\ Goto(r, "steerPending")
  /\ UNCHANGED <<head, owner, abort, outcome, steers, handoff, send, seen, draft, click>>

\* persistFailedAssistantMessage and failRun: the head stays
LegFails(r) ==
  /\ pc[r] = "leg" /\ abort[r] = "none"
  /\ SaveReply(r, "failed")
  /\ outcome' = [outcome EXCEPT ![r] = "failed"]
  /\ Goto(r, "terminal")
  /\ UNCHANGED <<head, owner, abort, request, steers, handoff, send, seen, draft, click>>

\* handleCancelledRun: what there is of the reply is saved and becomes the head
ObserveAbort(r) ==
  /\ pc[r] = "leg" /\ abort[r] # "none"
  /\ SaveReply(r, "stopped")
  /\ head' = Len(rows')
  /\ outcome' = [outcome EXCEPT ![r] =
       IF abort[r] = "withSteer" THEN "cancelled-with-steer" ELSE "cancelled"]
  /\ Goto(r, "terminal")
  /\ UNCHANGED <<owner, abort, request, steers, handoff, send, seen, draft, click>>

LegRetries(r) ==
  /\ pc[r] = "leg" /\ abort[r] = "none"
  /\ Goto(r, "backoff")
  /\ UNCHANGED <<threadVars, owner, abort, outcome, request, steers, handoff, send, seen,
                 draft, click>>

\* The next leg installs a new AbortController.
NextLeg(r) ==
  /\ \/ pc[r] = "backoff" /\ abort[r] = "none"
     \/ pc[r] = "restorePoint"
  /\ abort' = [abort EXCEPT ![r] = "none"]
  /\ Goto(r, "leg")
  /\ UNCHANGED <<threadVars, owner, outcome, request, steers, handoff, send, seen, draft,
                 click>>

\* sleep() rejects: what the checkpoint holds is saved, when it holds anything
BackoffAborted(r) ==
  /\ pc[r] = "backoff" /\ abort[r] # "none"
  /\ \/ SaveReply(r, "stopped") /\ head' = Len(rows')
     \/ UNCHANGED threadVars
  /\ outcome' = [outcome EXCEPT ![r] = "cancelled"]
  /\ Goto(r, "final")
  /\ UNCHANGED <<owner, abort, request, steers, handoff, send, seen, draft, click>>

\* cancelSteerPendingRun
CancelSteerPending(r) ==
  /\ outcome' = [outcome EXCEPT ![r] = "cancelled"]
  /\ steers' = [steers EXCEPT ![r] = <<>>]
  /\ Goto(r, "final")
  /\ UNCHANGED <<threadVars, request>>

\* persistSteerMessages, clearPendingSteerInputs, updateRunRequestMessageId
PersistSteers(r, inputs) ==
  /\ SaveRequests(inputs, request[r])
  /\ request' = [request EXCEPT ![r] = head']
  /\ steers' = [steers EXCEPT ![r] = <<>>]
  /\ Goto(r, "restorePoint")
  /\ UNCHANGED outcome

\* handleSteerPendingResult, up to the handoff or to the restore point
HandleSteerPending(r) ==
  /\ pc[r] = "steerPending"
  /\ \/ steers[r] = <<>> /\ CancelSteerPending(r)
     \/ /\ steers[r] # <<>> /\ handoff[r] = "pending"
        /\ Goto(r, "handoff")
        /\ UNCHANGED <<threadVars, outcome, request, steers>>
     \/ /\ steers[r] # <<>> /\ handoff[r] # "pending"
        /\ PersistSteers(r, steers[r])
  /\ UNCHANGED <<owner, abort, handoff, send, seen, draft, click>>

HandoffAnswers(r) ==
  /\ pc[r] = "handoff"
  /\ handoff' = [handoff EXCEPT ![r] = "used"]
  /\ \E completed \in BOOLEAN :
       LET left == IF completed THEN steers[r] ELSE WithoutContinuation(steers[r]) IN
       IF left = <<>> THEN CancelSteerPending(r) ELSE PersistSteers(r, left)
  /\ UNCHANGED <<owner, abort, send, seen, draft, click>>

\* onTerminalState
Release(r) ==
  /\ pc[r] = "terminal"
  /\ owner' = NoRun
  /\ Goto(r, "unwinding")
  /\ UNCHANGED <<threadVars, abort, outcome, request, steers, handoff, send, seen, draft,
                 click>>

\* The leg's result reaches runLoop
LegReturns(r) ==
  /\ pc[r] = "unwinding"
  /\ IF outcome[r] \in {"failed", "cancelled-with-steer"} /\ steers[r] # <<>>
     THEN /\ draft' = WithSteersQueued(draft, steers[r])
          /\ steers' = [steers EXCEPT ![r] = <<>>]
     ELSE UNCHANGED <<draft, steers>>
  /\ Goto(r, "final")
  /\ UNCHANGED <<threadVars, owner, abort, outcome, request, handoff, send, seen, click>>

\* runLoop's finally and startQueuedFollowUpIfPresent: steers that are still
\* pending go with the RunState; the requests of the draft are saved under the
\* head of that moment
LoopEnds(r) ==
  LET free == owner \in {r, NoRun}
      ended == [pc EXCEPT ![r] = "done"] IN
  /\ pc[r] = "final"
  /\ IF free /\ draft # <<>>
     THEN /\ SaveRequests(draft, head)
          /\ \E next \in Fresh : Launch(next, ended)
          /\ draft' = <<>>
     ELSE /\ owner' = IF free THEN NoRun ELSE owner
          /\ pc' = ended
          /\ UNCHANGED <<threadVars, request, draft>>
  /\ End(MessagesOf(steers[r]), "lost")
  /\ steers' = [steers EXCEPT ![r] = <<>>]
  /\ UNCHANGED <<abort, outcome, handoff, seen, click>>
--------------------------------------------------------------------------------
LoopStep(r) ==
  \/ RequestContextHandoff(r)
  \/ LegCompletes(r) \/ LegCompletesWithSteers(r) \/ LegFails(r) \/ ObserveAbort(r)
  \/ LegRetries(r) \/ NextLeg(r) \/ BackoffAborted(r)
  \/ HandleSteerPending(r) \/ HandoffAnswers(r)
  \/ Release(r) \/ LegReturns(r) \/ LoopEnds(r)

Next ==
  \/ \E m \in Msgs : SendChat(m) \/ SendChatWithFiles(m) \/ SendPrepared(m)
  \/ CancelRun \/ WithdrawPendingSteer \/ ClickDelete \/ DeleteQueuedFollowUp
  \/ RetryMessage \/ SelectReplyBranch
  \/ \E r \in Runs : LoopStep(r)

Spec == Init /\ [][Next]_vars
--------------------------------------------------------------------------------
(***************************************************************************)
(* Safety.                                                                 *)
(***************************************************************************)
\* Only the run that holds the thread moves the head, and it goes on from the
\* head it left.  This is inductive and implies LegAnswersHead.
HeadInv ==
  /\ pc \in [Runs -> Pcs] /\ request = [r \in Runs |-> request[r]]
  /\ \A r \in Runs : pc[r] \in WorkPcs => owner = r
  /\ \A r \in Runs : pc[r] \in {"leg", "backoff", "restorePoint"} => request[r] = head

\* While a leg is being generated, what it answers is the end of the
\* conversation: nothing has moved the head since the leg's request was saved,
\* neither another run nor the user going to another branch.
LegAnswersHead == \A r \in Runs : pc[r] \in {"leg", "backoff"} => request[r] = head

\* Every message saved in the thread is on the path the model is shown: no
\* request opens a branch unless the user asks for one.  It holds as long as no
\* message waits for files to be saved.
UserMessagesOnPath == OfKind("user") \subseteq Path(head)

\* Deleting the queued message on the screen takes back what was on the
\* screen, never a message merged into it while the call was on its way.
DeletesWhatWasShown ==
  [][\A m \in MessagesOf(draft) :
       send'[m] = "withdrawn" => click # <<>> /\ m \in MessagesOf(click)]_vars

\* The messages of one visibility in the order they wait or were said
Texts(inputs, class) ==
  FlattenSeq([i \in DOMAIN inputs |-> Kept(inputs[i].body, class)])

BoxesOf(class) ==
  [b \in Runs \cup {Queue} |-> Texts(IF b = Queue THEN draft ELSE steers[b], class)]

Gone(class) == {m \in class : send[m] \in {"withdrawn", "lost"}}

Visible == Msgs \ HiddenMsgs

VisibleInbox == INSTANCE MessageInbox WITH
  Msgs <- Visible, Boxes <- Runs \cup {Queue}, Fragile <- Runs, Retractable <- Visible,
  box <- BoxesOf(Visible), said <- Texts(rows, Visible), gone <- Gone(Visible)

HiddenInbox == INSTANCE MessageInbox WITH
  Msgs <- HiddenMsgs, Boxes <- Runs \cup {Queue}, Fragile <- Runs, Retractable <- {},
  box <- BoxesOf(HiddenMsgs), said <- Texts(rows, HiddenMsgs), gone <- Gone(HiddenMsgs)

\* What the user sends: steers and drafts are said in the order they were
\* sent, each once, through all merging, queueing, promotion and chaining; the
\* queue never loses one, and only the user takes one back.
VisibleIsInbox == VisibleInbox!Spec

\* What the system sends likewise, and the user's deletions never take a
\* hidden message along.
HiddenIsInbox == HiddenInbox!Spec
================================================================================
