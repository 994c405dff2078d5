---------------------------- MODULE UpdateReceipt ----------------------------
(***************************************************************************)
(* How Yachiyo, told in a chat to update itself, reports back to that chat  *)
(* although the update ends the process that was told.                      *)
(*                                                                          *)
(* The main process runs install attempts (appUpdateCommand.ts,             *)
(* installReceiptSequence.ts), keeps the one record of what is owed         *)
(* (pendingUpdateReceipt.ts), tries to deliver it at the start of every     *)
(* runtime (pendingUpdateReceiptDelivery.ts), and otherwise lends it to the *)
(* runtime's next message (updateReceiptCoordinator.ts).  The runtime is    *)
(* another process; it may exit alone, and its sends claim, acknowledge and *)
(* release the loan by calls (sendWithUpdateReceipt.ts).                    *)
(*                                                                          *)
(* An action is a stretch of the main process between two awaits, or the    *)
(* arrival of an answer.  All attempts come from one channel and all sends  *)
(* go to it.                                                                *)
(***************************************************************************)
EXTENDS Naturals

CONSTANTS
  Attempts,      \* install attempts (attemptId)
  Sends,         \* the runtime's places for an outbound message on its way
  None,
  MaxExits,      \* bound on the exits of the runtime
  MaxRestarts    \* bound on the ends of the main process

ASSUME NoneAssumption == None \notin Attempts \cup Sends
ASSUME BoundAssumption == MaxExits \in Nat /\ MaxRestarts \in Nat

VARIABLES
  step,      \* where the command handler of an attempt is suspended
  silent,    \* attempts nobody waits for in a chat (receiptOrigin is undefined)
  slot,      \* activeInstallReservation
  owner,     \* the gateway's ownerId
  file,      \* the record on disk: the attempt it is of
  gate,      \* the runtime's runAdmissionOwnerId
  up,        \* serverRpc is not null
  pass,      \* where the delivery pass is suspended
  passOf,    \* the attempt of its `pending`
  active,    \* how far the message of the pass has got
  deferred,  \* deferredAttemptId
  lease,     \* liveClaim.token: the send it was given to
  leased,    \* liveClaim.attemptId
  call,      \* the coordinator call of a send, and its answer, on the wire
  out,       \* where sendWithUpdateReceipt is suspended
  told,      \* how often the user was shown the receipt of an attempt
  doubt,     \* attempts of whose message the sender could not know its fate
  exits, restarts

installVars == <<step, silent, slot, owner>>
passVars    == <<pass, passOf, active>>
loanVars    == <<deferred, lease, leased>>
sendVars    == <<call, out>>
toldVars    == <<told, doubt>>
runtimeVars == <<gate, up>>
boundVars   == <<exits, restarts>>
vars == <<installVars, file, runtimeVars, passVars, loanVars, sendVars, toldVars,
          boundVars>>

Steps == {"idle", "closing", "resolving", "announcing", "replying", "quitting",
          "aborting", "withdrawing", "reporting", "failed", "ended"}
Twice == 2   \* more than once is not counted further

TypeOK ==
  /\ step \in [Attempts -> Steps]
  /\ silent \subseteq Attempts
  /\ slot \in Attempts \cup {None} /\ owner \in Attempts \cup {None}
  /\ file \in Attempts \cup {None}
  /\ gate \in Attempts \cup {None} /\ up \in BOOLEAN
  /\ pass \in {"idle", "ready", "channel", "sending"}
  /\ passOf \in Attempts \cup {None}
  /\ pass \in {"channel", "sending"} => passOf # None
  /\ active \in {"none", "queued", "dispatched", "reached"}
  /\ active # "none" => passOf # None
  /\ deferred \in Attempts \cup {None}
  /\ lease \in Sends \cup {None}
  /\ leased \in Attempts \cup {None} /\ (lease # None => leased # None)
  /\ call \in [Sends -> {"none", "claim", "granted", "refused", "ack", "release"}]
  /\ out \in [Sends -> {"idle", "waiting", "plain", "carrying"}]
  /\ told \in [Attempts -> 0..Twice]
  /\ doubt \subseteq Attempts
  /\ exits \in 0..MaxExits /\ restarts \in 0..MaxRestarts

Init ==
  /\ step = [a \in Attempts |-> "idle"] /\ silent = {}
  /\ slot = None /\ owner = None /\ file = None
  /\ gate = None /\ up = TRUE
  /\ pass = "ready" /\ passOf = None /\ active = "none"
  /\ deferred = None /\ lease = None /\ leased = None
  /\ call = [s \in Sends |-> "none"] /\ out = [s \in Sends |-> "idle"]
  /\ told = [a \in Attempts |-> 0] /\ doubt = {}
  /\ exits = 0 /\ restarts = 0

At(a, next) == step' = [step EXCEPT ![a] = next]

\* Mutant: the owner of the record is not compared.
ClearAny(a) == file' = None

\* clearPendingUpdateReceipt(path, attemptId)
Clear(a) == file' = IF file = a THEN None ELSE file

\* A platform shows the user the receipt of attempt a.
Tell(a) == told' = [told EXCEPT ![a] = IF @ = Twice THEN Twice ELSE @ + 1]

-----------------------------------------------------------------------------
(* The install command                                                      *)

\* closeRunAdmissionAndGetActiveRunIds: the runtime closes at once, or refuses
\* because another attempt closed it; the answer comes later.
CloseAdmission(a) ==
  /\ step[a] = "idle"
  /\ IF up /\ gate = None THEN gate' = a /\ At(a, "closing")
                          ELSE At(a, "failed") /\ UNCHANGED gate
  /\ UNCHANGED <<silent, slot, owner, file, up, passVars, loanVars, sendVars,
                 toldVars, boundVars>>

AdmissionClosed(a) ==
  /\ step[a] = "closing"
  /\ owner' = a
  /\ At(a, "resolving")
  /\ UNCHANGED <<silent, slot, file, runtimeVars, passVars, loanVars, sendVars,
                 toldVars, boundVars>>

\* Mutant: the owner is kept until the call has been answered.
ReopenKeepsOwner(a, next) ==
  /\ UNCHANGED owner
  /\ gate' = IF gate = a THEN None ELSE gate
  /\ At(a, next)

\* openRunAdmission up to its await: ownership goes before the call is made.
Reopen(a, next) ==
  /\ owner' = IF owner = a THEN None ELSE owner
  /\ gate' = IF gate = a THEN None ELSE gate
  /\ At(a, next)

\* Other runs are active and the command was not forced.
Blocked(a) ==
  /\ step[a] = "closing"
  /\ Reopen(a, "aborting")
  /\ UNCHANGED <<silent, slot, file, up, passVars, loanVars, sendVars, toldVars,
                 boundVars>>

\* Mutant: a record that is still there is not written over.
PersistIfAbsent(a) == file' = IF file = None THEN a ELSE file

\* The slot is reserved, then the record is written over whatever was there.
Reserve(a) == slot = None /\ slot' = a
Persist(a) == file' = a

OriginFound(a) ==
  /\ step[a] = "resolving"
  /\ Reserve(a)
  /\ Persist(a)
  /\ At(a, "announcing")
  /\ UNCHANGED <<silent, owner, runtimeVars, passVars, loanVars, sendVars,
                 toldVars, boundVars>>

\* Nobody is waiting in a channel.
NoChannel(a) ==
  /\ step[a] = "resolving"
  /\ Reserve(a)
  /\ silent' = silent \cup {a}
  /\ At(a, "replying")
  /\ UNCHANGED <<owner, file, runtimeVars, passVars, loanVars, sendVars, toldVars,
                 boundVars>>

\* The lookup failed, the slot could not be reserved, or the record could not be
\* written (the slot is then handed back).
Refused(a) ==
  /\ step[a] = "resolving"
  /\ Reopen(a, "aborting")
  /\ UNCHANGED <<silent, slot, file, up, passVars, loanVars, sendVars, toldVars,
                 boundVars>>

\* The announcement was sent, failed, or its bound has passed.
AnnounceEnds(a) ==
  /\ step[a] = "announcing"
  /\ At(a, "replying")
  /\ UNCHANGED <<silent, slot, owner, file, runtimeVars, passVars, loanVars,
                 sendVars, toldVars, boundVars>>

\* afterReply: quitAndInstall returned, and the application is going to quit.
Installs(a) ==
  /\ step[a] = "replying"
  /\ At(a, "quitting")
  /\ UNCHANGED <<silent, slot, owner, file, runtimeVars, passVars, loanVars,
                 sendVars, toldVars, boundVars>>

\* quitAndInstall threw, or the reply could not be delivered.
InstallFails(a) ==
  /\ step[a] = "replying"
  /\ slot' = None
  /\ Reopen(a, "withdrawing")
  /\ UNCHANGED <<silent, file, up, passVars, loanVars, sendVars, toldVars, boundVars>>

\* What follows the reopening: the handler throws, or tells the chat that the
\* update did not start.  (A silent attempt clears a record it never wrote.)
AfterOpen(a) ==
  IF step[a] = "withdrawing" /\ a \notin silent THEN "reporting" ELSE "failed"

Opened(a) ==
  /\ step[a] \in {"aborting", "withdrawing"} /\ up
  /\ At(a, AfterOpen(a))
  /\ UNCHANGED <<silent, slot, owner, file, runtimeVars, passVars, loanVars,
                 sendVars, toldVars, boundVars>>

ReportSent(a) ==
  /\ step[a] = "reporting" /\ up
  /\ Clear(a)
  /\ At(a, "failed")
  /\ UNCHANGED <<silent, slot, owner, runtimeVars, passVars, loanVars, sendVars,
                 toldVars, boundVars>>

\* The report failed or timed out: the record stays.
ReportFails(a) ==
  /\ step[a] = "reporting"
  /\ At(a, "failed")
  /\ UNCHANGED <<silent, slot, owner, file, runtimeVars, passVars, loanVars,
                 sendVars, toldVars, boundVars>>

-----------------------------------------------------------------------------
(* The runtime process                                                      *)

\* Told, but the record is still there: whoever told could not say so.
Unsettled == {a \in Attempts : file = a /\ told[a] > 0}

\* Mutants: nobody takes the loan back; only the attempt is forgotten.
NobodyReleases == UNCHANGED <<lease, leased>>
ReleaseHalf == UNCHANGED lease /\ leased' = None

\* releaseAllClaims
ReleaseAllClaims == lease' = None /\ leased' = None

\* The sends of a runtime end with it.
SendsGone ==
  /\ call' = [s \in Sends |-> "none"]
  /\ out' = [s \in Sends |-> "idle"]

\* An active send whose runtime went away rejects, and the receipt is deferred.
PassRejected ==
  /\ deferred' = IF pass = "sending" THEN passOf ELSE deferred
  /\ active' = "none"
  /\ UNCHANGED passOf

\* The runtime ends; with `again` another one is started, which inherits the
\* owner of the gateway and requests a delivery pass.
Replaced(again) ==
  /\ up' = again
  /\ gate' = IF again THEN owner' ELSE None
  /\ pass' = IF again THEN "ready" ELSE "idle"
  /\ PassRejected
  /\ ReleaseAllClaims
  /\ SendsGone
  /\ doubt' = doubt \cup Unsettled
  /\ UNCHANGED told

\* What the handlers that await a call to the runtime do when it rejects
AfterExit(a) ==
  CASE step[a] = "closing"    -> "failed"
    [] step[a] = "resolving"  -> "aborting"
    [] step[a] = "announcing" -> "replying"
    [] step[a] \in {"aborting", "withdrawing"} -> AfterOpen(a)
    [] step[a] = "reporting"  -> "failed"
    [] OTHER -> step[a]

\* A handler that was looking for its origin reopens admission as it fails.
CallsReject ==
  /\ step' = [a \in Attempts |-> AfterExit(a)]
  /\ owner' = IF owner # None /\ step[owner] = "resolving" THEN None ELSE owner

\* The runtime exits or is stopped; after too many exits it is not restarted.
RuntimeExits ==
  /\ up
  /\ exits < MaxExits /\ exits' = exits + 1
  /\ CallsReject
  /\ \E again \in BOOLEAN : Replaced(again)
  /\ UNCHANGED <<silent, slot, file, restarts>>

\* The user restarts the runtime.  (Handlers that found none react to that
\* before anything else.)
RestartRuntime ==
  /\ ~up
  /\ \A a \in Attempts : step[a] \notin {"aborting", "withdrawing", "reporting"}
  /\ UNCHANGED owner
  /\ Replaced(TRUE)
  /\ UNCHANGED <<step, silent, slot, file, boundVars>>

\* recoverRuntime: the call that opens admission failed, or there was no runtime;
\* a runtime that is there is killed, and what others asked of it rejects.
OpenFails(a) ==
  /\ step[a] \in {"aborting", "withdrawing"}
  /\ up => exits < MaxExits
  /\ exits' = IF up THEN exits + 1 ELSE exits
  /\ CallsReject
  /\ Replaced(TRUE)
  /\ UNCHANGED <<silent, slot, file, restarts>>

\* The main process ends, by the install or otherwise, and is started again.
AppEnds ==
  /\ restarts < MaxRestarts /\ restarts' = restarts + 1
  /\ step' = [a \in Attempts |->
                IF step[a] \in {"idle", "failed"} THEN step[a] ELSE "ended"]
  /\ slot' = None /\ owner' = None /\ gate' = None /\ up' = TRUE
  /\ pass' = "ready" /\ passOf' = None /\ active' = "none"
  /\ deferred' = None
  /\ ReleaseAllClaims
  /\ SendsGone
  /\ doubt' = doubt \cup Unsettled
  /\ UNCHANGED <<silent, file, told, exits>>

-----------------------------------------------------------------------------
(* The delivery pass                                                        *)

\* canActivelyDeliver, for the record there is
Deliverable == file # None /\ file # deferred

PassReads ==
  /\ pass = "ready"
  /\ IF Deliverable THEN pass' = "channel" /\ passOf' = file
                    ELSE pass' = "idle" /\ UNCHANGED passOf
  /\ UNCHANGED <<installVars, file, runtimeVars, active, loanVars, sendVars,
                 toldVars, boundVars>>

\* The services or the channel cannot be started.
PassFails ==
  /\ pass \in {"ready", "channel"}
  /\ pass' = "idle"
  /\ UNCHANGED <<installVars, file, runtimeVars, passOf, active, loanVars, sendVars,
                 toldVars, boundVars>>

\* After the wait for the channel the record is read again.
StillPending == Deliverable /\ file = passOf

ChannelReady ==
  /\ pass = "channel"
  /\ IF StillPending THEN pass' = "sending" /\ active' = "queued"
                     ELSE pass' = "idle" /\ UNCHANGED active
  /\ UNCHANGED <<installVars, file, runtimeVars, passOf, loanVars, sendVars,
                 toldVars, boundVars>>

\* assertCanDispatch: no send starts once the bound has passed.
ActiveDispatches ==
  /\ active = "queued" /\ pass = "sending"
  /\ active' = "dispatched"
  /\ UNCHANGED <<installVars, file, runtimeVars, pass, passOf, loanVars, sendVars,
                 toldVars, boundVars>>

ActiveReaches ==
  /\ active = "dispatched"
  /\ Tell(passOf)
  /\ active' = IF pass = "sending" THEN "reached" ELSE "none"
  /\ UNCHANGED <<installVars, file, runtimeVars, pass, passOf, loanVars, sendVars,
                 doubt, boundVars>>

ActiveAnswers ==
  /\ pass = "sending" /\ active = "reached"
  /\ Clear(passOf)
  /\ pass' = "idle" /\ active' = "none"
  /\ UNCHANGED <<installVars, runtimeVars, passOf, loanVars, sendVars, toldVars,
                 boundVars>>

\* The send reports a failure, perhaps of a message that was shown.
ActiveFails ==
  /\ pass = "sending"
  /\ deferred' = passOf
  /\ pass' = "idle" /\ active' = "none"
  /\ doubt' = IF active = "reached" THEN doubt \cup {passOf} ELSE doubt
  /\ UNCHANGED <<installVars, file, runtimeVars, passOf, lease, leased, sendVars,
                 told, boundVars>>

\* The pass waits no longer; a message that has left may still arrive.
ActiveTimesOut ==
  /\ pass = "sending"
  /\ deferred' = passOf
  /\ pass' = "idle"
  /\ active' = IF active = "dispatched" THEN "dispatched" ELSE "none"
  /\ doubt' = IF active = "queued" THEN doubt ELSE doubt \cup {passOf}
  /\ UNCHANGED <<installVars, file, runtimeVars, passOf, lease, leased, sendVars,
                 told, boundVars>>

ActiveLost ==
  /\ active = "dispatched" /\ pass # "sending"
  /\ active' = "none"
  /\ UNCHANGED <<installVars, file, runtimeVars, pass, passOf, loanVars, sendVars,
                 toldVars, boundVars>>

-----------------------------------------------------------------------------
(* Sends of the runtime, and the loan of the receipt                        *)

SendStarts(s) ==
  /\ up /\ out[s] = "idle" /\ call[s] = "none"
  /\ out' = [out EXCEPT ![s] = "waiting"]
  /\ call' = [call EXCEPT ![s] = "claim"]
  /\ UNCHANGED <<installVars, file, runtimeVars, passVars, loanVars, toldVars,
                 boundVars>>

\* Mutant: a second loan of one receipt
ClaimableTwice == deferred # None /\ file = deferred

\* A claim is granted for the record whose active delivery has failed, once.
Claimable == deferred # None /\ lease = None /\ file = deferred

MainClaims(s) ==
  /\ call[s] = "claim"
  /\ IF Claimable
       THEN /\ lease' = s /\ leased' = file
            /\ call' = [call EXCEPT ![s] = "granted"]
       ELSE /\ call' = [call EXCEPT ![s] = "refused"]
            /\ UNCHANGED <<lease, leased>>
  /\ UNCHANGED <<installVars, file, runtimeVars, passVars, deferred, out, toldVars,
                 boundVars>>

ClaimAnswered(s) ==
  /\ out[s] = "waiting" /\ call[s] \in {"granted", "refused"}
  /\ out' = [out EXCEPT ![s] = IF call[s] = "granted" THEN "carrying" ELSE "plain"]
  /\ call' = [call EXCEPT ![s] = "none"]
  /\ UNCHANGED <<installVars, file, runtimeVars, passVars, loanVars, toldVars,
                 boundVars>>

\* The reply does not wait for a claim longer than its bound.
ClaimTimesOut(s) ==
  /\ out[s] = "waiting"
  /\ out' = [out EXCEPT ![s] = "plain"]
  /\ UNCHANGED <<installVars, file, runtimeVars, passVars, loanVars, call, toldVars,
                 boundVars>>

\* onLateValue: what is granted too late is given back.
LateClaim(s) ==
  /\ out[s] # "waiting" /\ call[s] \in {"granted", "refused"}
  /\ call' = [call EXCEPT ![s] = IF @ = "granted" THEN "release" ELSE "none"]
  /\ UNCHANGED <<installVars, file, runtimeVars, passVars, loanVars, out, toldVars,
                 boundVars>>

PlainSent(s) ==
  /\ out[s] = "plain"
  /\ out' = [out EXCEPT ![s] = "idle"]
  /\ UNCHANGED <<installVars, file, runtimeVars, passVars, loanVars, call, toldVars,
                 boundVars>>

SendReaches(s) ==
  /\ out[s] = "carrying"
  /\ Tell(leased)
  /\ out' = [out EXCEPT ![s] = "idle"]
  /\ call' = [call EXCEPT ![s] = "ack"]
  /\ UNCHANGED <<installVars, file, runtimeVars, passVars, loanVars, doubt, boundVars>>

\* The send throws, before or after the platform took the message.
SendFails(s) ==
  /\ out[s] = "carrying"
  /\ out' = [out EXCEPT ![s] = "idle"]
  /\ call' = [call EXCEPT ![s] = "release"]
  /\ \/ UNCHANGED toldVars
     \/ Tell(leased) /\ doubt' = doubt \cup {leased}
  /\ UNCHANGED <<installVars, file, runtimeVars, passVars, loanVars, boundVars>>

MainAcks(s) ==
  /\ call[s] = "ack"
  /\ call' = [call EXCEPT ![s] = "none"]
  /\ IF lease = s THEN /\ Clear(leased)
                       /\ lease' = None /\ leased' = None
                       /\ deferred' = None
                  ELSE UNCHANGED <<file, loanVars>>
  /\ UNCHANGED <<installVars, runtimeVars, passVars, out, toldVars, boundVars>>

MainReleases(s) ==
  /\ call[s] = "release"
  /\ call' = [call EXCEPT ![s] = "none"]
  /\ IF lease = s THEN lease' = None /\ leased' = None
                  ELSE UNCHANGED <<lease, leased>>
  /\ UNCHANGED <<installVars, file, runtimeVars, passVars, deferred, out, toldVars,
                 boundVars>>

-----------------------------------------------------------------------------
InstallStep(a) ==
  \/ CloseAdmission(a) \/ AdmissionClosed(a) \/ Blocked(a)
  \/ OriginFound(a) \/ NoChannel(a) \/ Refused(a)
  \/ AnnounceEnds(a) \/ Installs(a) \/ InstallFails(a)
  \/ Opened(a) \/ OpenFails(a) \/ ReportSent(a) \/ ReportFails(a)

RuntimeStep == RuntimeExits \/ RestartRuntime \/ AppEnds

PassStep ==
  \/ PassReads \/ PassFails \/ ChannelReady
  \/ ActiveDispatches \/ ActiveReaches \/ ActiveAnswers
  \/ ActiveFails \/ ActiveTimesOut \/ ActiveLost

SendStep(s) ==
  \/ SendStarts(s) \/ MainClaims(s) \/ ClaimAnswered(s) \/ ClaimTimesOut(s)
  \/ LateClaim(s) \/ PlainSent(s) \/ SendReaches(s) \/ SendFails(s)
  \/ MainAcks(s) \/ MainReleases(s)

Next ==
  \/ \E a \in Attempts : InstallStep(a)
  \/ RuntimeStep \/ PassStep
  \/ \E s \in Sends : SendStep(s)

Spec == Init /\ [][Next]_vars

-----------------------------------------------------------------------------
(* Properties                                                               *)

Installing == {"announcing", "replying", "quitting"}

\* A record leaves the disk because its user has been told, because its attempt
\* failed and said so in the chat, or because a later install wrote over it: no
\* other attempt, no returned or stale loan and no exit of a process removes it.
OwedUntilTold ==
  [][\A a \in Attempts : file = a /\ file' # a =>
        \/ told[a] > 0
        \/ step[a] = "reporting" /\ step'[a] = "failed"
        \/ \E b \in Attempts : step[b] = "resolving" /\ file' = b]_vars

\* The active send, its retries by later runtimes and the loans together tell
\* the user once, unless a sender could not know what had become of its message
\* (a time-out, an error after the platform took it, an exit before it was
\* acknowledged).
TwiceOnlyInDoubt == \A a \in Attempts : told[a] = Twice => a \in doubt

\* An install that may still restart the application has its record on disk, or
\* its user was told of its outcome before there was one.
InstallKeepsItsRecord ==
  \A a \in Attempts : step[a] \in Installing /\ a \notin silent =>
    file = a \/ told[a] > 0

\* Admission is closed only for an attempt that is still going: no failure, and
\* no replacement of the runtime in the middle of one, leaves it closed.
AdmissionHasOwner ==
  /\ gate # None => owner = gate \/ step[gate] = "closing"
  /\ owner # None => step[owner] \in Installing \cup {"resolving"}

\* A loan that is out is with a send that will acknowledge it or give it back:
\* a claim answered too late, a failed send or an exit of the runtime leaves no
\* receipt locked.
LoanHasABearer ==
  \A s \in Sends : lease = s =>
    out[s] = "carrying" \/ call[s] \in {"granted", "ack", "release"}
=============================================================================
