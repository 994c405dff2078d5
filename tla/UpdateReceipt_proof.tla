------------------------ MODULE UpdateReceipt_proof -------------------------
(***************************************************************************)
(* Proofs about UpdateReceipt, for any number of attempts, sends, exits and *)
(* restarts.                                                                *)
(***************************************************************************)
EXTENDS UpdateReceipt, TLAPS

(* The inductive invariant.                                                  *)

\* Only an attempt that wrote the record is spoken of anywhere.
Known == Steps \ {"idle", "closing", "resolving"}

OnlyKnown ==
  \A a \in Attempts :
    file = a \/ deferred = a \/ passOf = a \/ leased = a \/ told[a] > 0 => step[a] \in Known

\* A message outside its pass is one the pass has stopped waiting for, and a
\* pass sends only what has not been deferred.
PassInv ==
  /\ pass \in {"ready", "channel"} => active = "none"
  /\ pass = "sending" => active # "none"
  /\ pass # "sending" /\ active # "none" => active = "dispatched" /\ passOf \in doubt
  /\ pass = "sending" /\ active = "reached" => told[passOf] > 0
  /\ pass = "sending" /\ deferred # None => deferred # file

Bearer(s) == out[s] = "carrying" \/ call[s] \in {"granted", "ack", "release"}

LoanInv ==
  /\ \A s \in Sends : lease = s <=> Bearer(s)
  /\ \A s \in Sends : out[s] = "carrying" => call[s] = "none"
  /\ \A s \in Sends : call[s] = "ack" => told[leased] > 0
  /\ lease = None => leased = None
  /\ lease # None /\ file = leased => deferred = leased

AckComing(a) == lease # None /\ leased = a /\ call[lease] = "ack"
AnswerComing(a) == pass = "sending" /\ active = "reached" /\ passOf = a

\* Of a receipt nobody is in doubt about there is one message at a time; once it
\* has been shown, whoever showed it is about to say so.
OneMessage ==
  \A a \in Attempts \ doubt :
    /\ active # "none" /\ passOf = a => leased # a
    /\ told[a] > 0 => /\ file # a \/ AckComing(a) \/ AnswerComing(a)
                      /\ active \in {"queued", "dispatched"} => passOf # a
                      /\ leased = a => AckComing(a)

\* The slot keeps a second install from writing over the record of the first.
SlotInv == \A a \in Attempts : step[a] \in Installing => slot = a

\* An attempt waits for the answer of a runtime that is there, and closed for it.
ClosingInv == \A a \in Attempts : step[a] = "closing" => up /\ gate = a

IndInv ==
  /\ OnlyKnown /\ PassInv /\ LoanInv /\ OneMessage /\ TwiceOnlyInDoubt
  /\ SlotInv /\ InstallKeepsItsRecord
  /\ ClosingInv /\ AdmissionHasOwner

-----------------------------------------------------------------------------
(* Every step keeps the types. *)
LEMMA TypeStep ==
  ASSUME TypeOK, LoanInv, [Next]_vars
  PROVE  TypeOK'
<1>1. ASSUME NEW a \in Attempts, CloseAdmission(a) PROVE TypeOK'
  BY <1>1 DEF TypeOK, Steps, CloseAdmission, At, passVars, loanVars, sendVars,
        toldVars, boundVars
<1>2. ASSUME NEW a \in Attempts, AdmissionClosed(a) PROVE TypeOK'
  BY <1>2 DEF TypeOK, Steps, AdmissionClosed, At, passVars, loanVars, sendVars,
        toldVars, runtimeVars, boundVars
<1>3. ASSUME NEW a \in Attempts, Blocked(a) PROVE TypeOK'
  BY <1>3 DEF TypeOK, Steps, Blocked, Reopen, At, passVars, loanVars, sendVars,
        toldVars, boundVars
<1>4. ASSUME NEW a \in Attempts, OriginFound(a) PROVE TypeOK'
  BY <1>4 DEF TypeOK, Steps, OriginFound, Reserve, Persist, At, passVars,
        loanVars, sendVars, toldVars, runtimeVars, boundVars
<1>5. ASSUME NEW a \in Attempts, NoChannel(a) PROVE TypeOK'
  BY <1>5 DEF TypeOK, Steps, NoChannel, Reserve, At, passVars, loanVars,
        sendVars, toldVars, runtimeVars, boundVars
<1>6. ASSUME NEW a \in Attempts, Refused(a) PROVE TypeOK'
  BY <1>6 DEF TypeOK, Steps, Refused, Reopen, At, passVars, loanVars, sendVars,
        toldVars, boundVars
<1>7. ASSUME NEW a \in Attempts, AnnounceEnds(a) PROVE TypeOK'
  BY <1>7 DEF TypeOK, Steps, AnnounceEnds, At, passVars, loanVars, sendVars,
        toldVars, runtimeVars, boundVars
<1>8. ASSUME NEW a \in Attempts, Installs(a) PROVE TypeOK'
  BY <1>8 DEF TypeOK, Steps, Installs, At, passVars, loanVars, sendVars,
        toldVars, runtimeVars, boundVars
<1>9. ASSUME NEW a \in Attempts, InstallFails(a) PROVE TypeOK'
  BY <1>9 DEF TypeOK, Steps, InstallFails, Reopen, At, passVars, loanVars,
        sendVars, toldVars, boundVars
<1>10. ASSUME NEW a \in Attempts, Opened(a) PROVE TypeOK'
  BY <1>10 DEF TypeOK, Steps, Opened, At, AfterOpen, passVars, loanVars,
        sendVars, toldVars, runtimeVars, boundVars
<1>11. ASSUME NEW a \in Attempts, OpenFails(a) PROVE TypeOK'
  BY <1>11, BoundAssumption DEF TypeOK, Steps, OpenFails, CallsReject,
        AfterExit, AfterOpen, Replaced, PassRejected, ReleaseAllClaims,
        SendsGone, Unsettled
<1>12. ASSUME NEW a \in Attempts, ReportSent(a) PROVE TypeOK'
  BY <1>12 DEF TypeOK, Steps, ReportSent, At, Clear, passVars, loanVars,
        sendVars, toldVars, runtimeVars, boundVars
<1>13. ASSUME NEW a \in Attempts, ReportFails(a) PROVE TypeOK'
  BY <1>13 DEF TypeOK, Steps, ReportFails, At, passVars, loanVars, sendVars,
        toldVars, runtimeVars, boundVars
<1>14. CASE RuntimeExits
  BY <1>14, BoundAssumption DEF TypeOK, Steps, RuntimeExits, CallsReject,
        AfterExit, AfterOpen, Replaced, PassRejected, ReleaseAllClaims,
        SendsGone, Unsettled
<1>15. CASE RestartRuntime
  BY <1>15 DEF TypeOK, RestartRuntime, Replaced, PassRejected,
        ReleaseAllClaims, SendsGone, Unsettled, boundVars
<1>16. CASE AppEnds
  BY <1>16, BoundAssumption DEF TypeOK, Steps, AppEnds, ReleaseAllClaims,
        SendsGone, Unsettled
<1>17. CASE PassReads
  BY <1>17 DEF TypeOK, PassReads, Deliverable, installVars, loanVars, sendVars,
        toldVars, runtimeVars, boundVars
<1>18. CASE PassFails
  BY <1>18 DEF TypeOK, PassFails, installVars, loanVars, sendVars, toldVars,
        runtimeVars, boundVars
<1>19. CASE ChannelReady
  BY <1>19 DEF TypeOK, ChannelReady, StillPending, Deliverable, installVars,
        loanVars, sendVars, toldVars, runtimeVars, boundVars
<1>20. CASE ActiveDispatches
  BY <1>20 DEF TypeOK, ActiveDispatches, installVars, loanVars, sendVars,
        toldVars, runtimeVars, boundVars
<1>21. CASE ActiveReaches
  BY <1>21 DEF TypeOK, Twice, ActiveReaches, Tell, installVars, loanVars,
        sendVars, runtimeVars, boundVars
<1>22. CASE ActiveAnswers
  BY <1>22 DEF TypeOK, ActiveAnswers, Clear, installVars, loanVars, sendVars,
        toldVars, runtimeVars, boundVars
<1>23. CASE ActiveFails
  BY <1>23 DEF TypeOK, ActiveFails, installVars, sendVars, runtimeVars,
        boundVars
<1>24. CASE ActiveTimesOut
  BY <1>24 DEF TypeOK, ActiveTimesOut, installVars, sendVars, runtimeVars,
        boundVars
<1>25. CASE ActiveLost
  BY <1>25 DEF TypeOK, ActiveLost, installVars, loanVars, sendVars, toldVars,
        runtimeVars, boundVars
<1>26. ASSUME NEW s \in Sends, SendStarts(s) PROVE TypeOK'
  BY <1>26 DEF TypeOK, SendStarts, installVars, passVars, loanVars, toldVars,
        runtimeVars, boundVars
<1>27. ASSUME NEW s \in Sends, MainClaims(s) PROVE TypeOK'
  BY <1>27 DEF TypeOK, MainClaims, Claimable, installVars, passVars, toldVars,
        runtimeVars, boundVars
<1>28. ASSUME NEW s \in Sends, ClaimAnswered(s) PROVE TypeOK'
  BY <1>28 DEF TypeOK, ClaimAnswered, installVars, passVars, loanVars,
        toldVars, runtimeVars, boundVars
<1>29. ASSUME NEW s \in Sends, ClaimTimesOut(s) PROVE TypeOK'
  BY <1>29 DEF TypeOK, ClaimTimesOut, installVars, passVars, loanVars,
        toldVars, runtimeVars, boundVars
<1>30. ASSUME NEW s \in Sends, LateClaim(s) PROVE TypeOK'
  BY <1>30 DEF TypeOK, LateClaim, installVars, passVars, loanVars, toldVars,
        runtimeVars, boundVars
<1>31. ASSUME NEW s \in Sends, PlainSent(s) PROVE TypeOK'
  BY <1>31 DEF TypeOK, PlainSent, installVars, passVars, loanVars, toldVars,
        runtimeVars, boundVars
<1>32. ASSUME NEW s \in Sends, SendReaches(s) PROVE TypeOK'
  BY <1>32, NoneAssumption DEF TypeOK, Twice, LoanInv, Bearer, SendReaches,
        Tell, installVars, passVars, loanVars, runtimeVars, boundVars
<1>33. ASSUME NEW s \in Sends, SendFails(s) PROVE TypeOK'
  BY <1>33, NoneAssumption DEF TypeOK, Twice, LoanInv, Bearer, SendFails, Tell,
        installVars, passVars, loanVars, toldVars, runtimeVars, boundVars
<1>34. ASSUME NEW s \in Sends, MainAcks(s) PROVE TypeOK'
  BY <1>34 DEF TypeOK, MainAcks, Clear, installVars, passVars, loanVars,
        toldVars, runtimeVars, boundVars
<1>35. ASSUME NEW s \in Sends, MainReleases(s) PROVE TypeOK'
  BY <1>35 DEF TypeOK, MainReleases, installVars, passVars, toldVars,
        runtimeVars, boundVars
<1>36. CASE UNCHANGED vars
  BY <1>36 DEF TypeOK, vars, installVars, passVars, loanVars, sendVars,
        toldVars, runtimeVars, boundVars
<1> QED BY <1>1, <1>2, <1>3, <1>4, <1>5, <1>6, <1>7, <1>8, <1>9, <1>10, <1>11,
      <1>12, <1>13, <1>14, <1>15, <1>16, <1>17, <1>18, <1>19, <1>20, <1>21,
      <1>22, <1>23, <1>24, <1>25, <1>26, <1>27, <1>28, <1>29, <1>30, <1>31,
      <1>32, <1>33, <1>34, <1>35, <1>36 DEF Next, InstallStep, RuntimeStep,
      PassStep, SendStep, vars, installVars, passVars, loanVars, sendVars,
      toldVars, runtimeVars, boundVars

(* What is spoken of stays known: only a new record names a new attempt. *)
LEMMA KnownStep ==
  ASSUME TypeOK, OnlyKnown, LoanInv, TypeOK', [Next]_vars
  PROVE  OnlyKnown'
<1>1. ASSUME NEW a \in Attempts, CloseAdmission(a) PROVE OnlyKnown'
  BY <1>1 DEF TypeOK, OnlyKnown, Known, CloseAdmission, At, passVars, loanVars,
        sendVars, toldVars, boundVars
<1>2. ASSUME NEW a \in Attempts, AdmissionClosed(a) PROVE OnlyKnown'
  BY <1>2, NoneAssumption DEF OnlyKnown, Known, AdmissionClosed, At, passVars,
        loanVars, sendVars, toldVars, runtimeVars, boundVars
<1>3. ASSUME NEW a \in Attempts, Blocked(a) PROVE OnlyKnown'
  BY <1>3, NoneAssumption DEF OnlyKnown, Known, Blocked, Reopen, At, passVars,
        loanVars, sendVars, toldVars, boundVars
<1>4. ASSUME NEW a \in Attempts, OriginFound(a) PROVE OnlyKnown'
  BY <1>4 DEF TypeOK, OnlyKnown, Known, OriginFound, Reserve, Persist, At,
        passVars, loanVars, sendVars, toldVars, runtimeVars, boundVars
<1>5. ASSUME NEW a \in Attempts, NoChannel(a) PROVE OnlyKnown'
  BY <1>5, NoneAssumption DEF OnlyKnown, Known, NoChannel, Reserve, At,
        passVars, loanVars, sendVars, toldVars, runtimeVars, boundVars
<1>6. ASSUME NEW a \in Attempts, Refused(a) PROVE OnlyKnown'
  BY <1>6, NoneAssumption DEF OnlyKnown, Known, Refused, Reopen, At, passVars,
        loanVars, sendVars, toldVars, boundVars
<1>7. ASSUME NEW a \in Attempts, AnnounceEnds(a) PROVE OnlyKnown'
  BY <1>7 DEF TypeOK, OnlyKnown, Known, AnnounceEnds, At, passVars, loanVars,
        sendVars, toldVars, runtimeVars, boundVars
<1>8. ASSUME NEW a \in Attempts, Installs(a) PROVE OnlyKnown'
  BY <1>8 DEF TypeOK, OnlyKnown, Known, Installs, At, passVars, loanVars,
        sendVars, toldVars, runtimeVars, boundVars
<1>9. ASSUME NEW a \in Attempts, InstallFails(a) PROVE OnlyKnown'
  BY <1>9 DEF TypeOK, OnlyKnown, Known, InstallFails, Reopen, At, passVars,
        loanVars, sendVars, toldVars, boundVars
<1>10. ASSUME NEW a \in Attempts, Opened(a) PROVE OnlyKnown'
  BY <1>10 DEF TypeOK, OnlyKnown, Known, Opened, At, AfterOpen, passVars,
        loanVars, sendVars, toldVars, runtimeVars, boundVars
<1>11. ASSUME NEW a \in Attempts, OpenFails(a) PROVE OnlyKnown'
  BY <1>11, NoneAssumption DEF TypeOK, OnlyKnown, Known, OpenFails,
        CallsReject, AfterExit, AfterOpen, Replaced, PassRejected,
        ReleaseAllClaims, SendsGone, Unsettled
<1>12. ASSUME NEW a \in Attempts, ReportSent(a) PROVE OnlyKnown'
  BY <1>12, NoneAssumption DEF TypeOK, OnlyKnown, Known, ReportSent, At, Clear,
        passVars, loanVars, sendVars, toldVars, runtimeVars, boundVars
<1>13. ASSUME NEW a \in Attempts, ReportFails(a) PROVE OnlyKnown'
  BY <1>13 DEF TypeOK, OnlyKnown, Known, ReportFails, At, passVars, loanVars,
        sendVars, toldVars, runtimeVars, boundVars
<1>14. CASE RuntimeExits
  BY <1>14, NoneAssumption DEF TypeOK, OnlyKnown, Known, RuntimeExits,
        CallsReject, AfterExit, AfterOpen, Replaced, PassRejected,
        ReleaseAllClaims, SendsGone, Unsettled
<1>15. CASE RestartRuntime
  BY <1>15, NoneAssumption DEF OnlyKnown, RestartRuntime, Replaced,
        PassRejected, ReleaseAllClaims, SendsGone, Unsettled, boundVars
<1>16. CASE AppEnds
  BY <1>16, NoneAssumption DEF TypeOK, OnlyKnown, Known, AppEnds,
        ReleaseAllClaims, SendsGone, Unsettled
<1>17. CASE PassReads
  BY <1>17, NoneAssumption DEF OnlyKnown, PassReads, Deliverable, installVars,
        loanVars, sendVars, toldVars, runtimeVars, boundVars
<1>18. CASE ActiveReaches
  BY <1>18, NoneAssumption DEF OnlyKnown, ActiveReaches, Tell, installVars,
        loanVars, sendVars, runtimeVars, boundVars
<1>19. CASE ActiveAnswers
  BY <1>19, NoneAssumption DEF OnlyKnown, ActiveAnswers, Clear, installVars,
        loanVars, sendVars, toldVars, runtimeVars, boundVars
<1>20. CASE ActiveFails
  BY <1>20, NoneAssumption DEF OnlyKnown, ActiveFails, installVars, sendVars,
        runtimeVars, boundVars
<1>21. CASE ActiveTimesOut
  BY <1>21, NoneAssumption DEF OnlyKnown, ActiveTimesOut, installVars,
        sendVars, runtimeVars, boundVars
<1>22. ASSUME NEW s \in Sends, MainClaims(s) PROVE OnlyKnown'
  BY <1>22, NoneAssumption DEF OnlyKnown, MainClaims, Claimable, installVars,
        passVars, toldVars, runtimeVars, boundVars
<1>23. ASSUME NEW s \in Sends, SendReaches(s) PROVE OnlyKnown'
  BY <1>23, NoneAssumption DEF OnlyKnown, SendReaches, Tell, installVars,
        passVars, loanVars, runtimeVars, boundVars
<1>24. ASSUME NEW s \in Sends, SendFails(s) PROVE OnlyKnown'
  BY <1>24 DEF TypeOK, OnlyKnown, SendFails, Tell, installVars, passVars,
        loanVars, toldVars, runtimeVars, boundVars
<1>25. ASSUME NEW s \in Sends, MainAcks(s) PROVE OnlyKnown'
  BY <1>25, NoneAssumption DEF OnlyKnown, MainAcks, Clear, installVars,
        passVars, loanVars, toldVars, runtimeVars, boundVars
<1>26. ASSUME NEW s \in Sends, MainReleases(s) PROVE OnlyKnown'
  BY <1>26, NoneAssumption DEF OnlyKnown, MainReleases, installVars, passVars,
        toldVars, runtimeVars, boundVars
<1>27. CASE UNCHANGED <<file, deferred, passOf, leased, told, step>>
  BY <1>27 DEF OnlyKnown
<1> QED BY <1>1, <1>2, <1>3, <1>4, <1>5, <1>6, <1>7, <1>8, <1>9, <1>10, <1>11,
      <1>12, <1>13, <1>14, <1>15, <1>16, <1>17, <1>18, <1>19, <1>20, <1>21,
      <1>22, <1>23, <1>24, <1>25, <1>26, <1>27 DEF Next, InstallStep,
      RuntimeStep, PassStep, SendStep, PassFails, ChannelReady,
      ActiveDispatches, ActiveLost, SendStarts, ClaimAnswered, ClaimTimesOut,
      LateClaim, PlainSent, StillPending, Deliverable, vars, installVars,
      passVars, loanVars, sendVars, toldVars, runtimeVars, boundVars

(* The pass keeps its promises; a new record, and a claim, cannot be of what it
   is sending and has been deferred. *)
LEMMA PassInvStep ==
  ASSUME TypeOK, OnlyKnown, PassInv, LoanInv, TypeOK', [Next]_vars
  PROVE  PassInv'
<1>1. ASSUME NEW a \in Attempts, OriginFound(a) PROVE PassInv'
  BY <1>1, NoneAssumption DEF PassInv, OnlyKnown, Known, OriginFound, Reserve,
        Persist, At, passVars, loanVars, sendVars, toldVars, runtimeVars,
        boundVars
<1>2. ASSUME NEW a \in Attempts, OpenFails(a) PROVE PassInv'
  BY <1>2, NoneAssumption DEF PassInv, OpenFails, CallsReject, AfterExit,
        AfterOpen, Replaced, PassRejected, ReleaseAllClaims, SendsGone,
        Unsettled
<1>3. ASSUME NEW a \in Attempts, ReportSent(a) PROVE PassInv'
  BY <1>3, NoneAssumption DEF PassInv, ReportSent, At, Clear, passVars,
        loanVars, sendVars, toldVars, runtimeVars, boundVars
<1>4. CASE RuntimeExits
  BY <1>4, NoneAssumption DEF PassInv, RuntimeExits, CallsReject, AfterExit,
        AfterOpen, Replaced, PassRejected, ReleaseAllClaims, SendsGone,
        Unsettled
<1>5. CASE RestartRuntime
  BY <1>5, NoneAssumption DEF PassInv, RestartRuntime, Replaced, PassRejected,
        ReleaseAllClaims, SendsGone, Unsettled, boundVars
<1>6. CASE AppEnds
  BY <1>6, NoneAssumption DEF PassInv, AppEnds, ReleaseAllClaims, SendsGone,
        Unsettled
<1>7. CASE PassReads
  BY <1>7, NoneAssumption DEF PassInv, PassReads, Deliverable, installVars,
        loanVars, sendVars, toldVars, runtimeVars, boundVars
<1>8. CASE PassFails
  BY <1>8, NoneAssumption DEF PassInv, PassFails, installVars, loanVars,
        sendVars, toldVars, runtimeVars, boundVars
<1>9. CASE ChannelReady
  BY <1>9, NoneAssumption DEF PassInv, ChannelReady, StillPending, Deliverable,
        installVars, loanVars, sendVars, toldVars, runtimeVars, boundVars
<1>10. CASE ActiveDispatches
  BY <1>10, NoneAssumption DEF PassInv, ActiveDispatches, installVars,
        loanVars, sendVars, toldVars, runtimeVars, boundVars
<1>11. CASE ActiveReaches
  BY <1>11 DEF TypeOK, PassInv, Twice, ActiveReaches, Tell, installVars,
        loanVars, sendVars, runtimeVars, boundVars
<1>12. CASE ActiveAnswers
  BY <1>12, NoneAssumption DEF PassInv, ActiveAnswers, Clear, installVars,
        loanVars, sendVars, toldVars, runtimeVars, boundVars
<1>13. CASE ActiveFails
  BY <1>13, NoneAssumption DEF PassInv, ActiveFails, installVars, sendVars,
        runtimeVars, boundVars
<1>14. CASE ActiveTimesOut
  BY <1>14, NoneAssumption DEF PassInv, ActiveTimesOut, installVars, sendVars,
        runtimeVars, boundVars
<1>15. CASE ActiveLost
  BY <1>15, NoneAssumption DEF PassInv, ActiveLost, installVars, loanVars,
        sendVars, toldVars, runtimeVars, boundVars
<1>16. ASSUME NEW s \in Sends, SendReaches(s) PROVE PassInv'
  BY <1>16 DEF TypeOK, PassInv, SendReaches, Tell, installVars, passVars,
        loanVars, runtimeVars, boundVars
<1>17. ASSUME NEW s \in Sends, SendFails(s) PROVE PassInv'
  BY <1>17 DEF TypeOK, PassInv, SendFails, Tell, installVars, passVars,
        loanVars, toldVars, runtimeVars, boundVars
<1>18. ASSUME NEW s \in Sends, MainAcks(s) PROVE PassInv'
  BY <1>18, NoneAssumption DEF PassInv, MainAcks, Clear, installVars, passVars,
        loanVars, toldVars, runtimeVars, boundVars
<1>19. CASE UNCHANGED <<pass, active, passOf, doubt, told, deferred, file>>
  BY <1>19 DEF PassInv
<1> QED BY <1>1, <1>2, <1>3, <1>4, <1>5, <1>6, <1>7, <1>8, <1>9, <1>10, <1>11,
      <1>12, <1>13, <1>14, <1>15, <1>16, <1>17, <1>18, <1>19 DEF Next,
      InstallStep, RuntimeStep, PassStep, SendStep, CloseAdmission,
      AdmissionClosed, Blocked, NoChannel, Refused, AnnounceEnds, Installs,
      InstallFails, Opened, ReportFails, SendStarts, MainClaims, ClaimAnswered,
      ClaimTimesOut, LateClaim, PlainSent, MainReleases, At, Reopen, Reserve,
      AfterOpen, Claimable, vars, installVars, passVars, loanVars, sendVars,
      toldVars, runtimeVars, boundVars

(* A loan goes from hand to hand. *)
LEMMA LoanStep ==
  ASSUME TypeOK, OnlyKnown, PassInv, LoanInv, TypeOK', [Next]_vars
  PROVE  LoanInv'
<1>1. ASSUME NEW a \in Attempts, OriginFound(a) PROVE LoanInv'
  BY <1>1, NoneAssumption DEF LoanInv, Bearer, OnlyKnown, Known, OriginFound,
        Reserve, Persist, At, passVars, loanVars, sendVars, toldVars,
        runtimeVars, boundVars
<1>2. ASSUME NEW a \in Attempts, OpenFails(a) PROVE LoanInv'
  BY <1>2, NoneAssumption DEF LoanInv, Bearer, OpenFails, CallsReject,
        AfterExit, AfterOpen, Replaced, PassRejected, ReleaseAllClaims,
        SendsGone, Unsettled
<1>3. ASSUME NEW a \in Attempts, ReportSent(a) PROVE LoanInv'
  BY <1>3 DEF TypeOK, LoanInv, Bearer, ReportSent, At, Clear, passVars,
        loanVars, sendVars, toldVars, runtimeVars, boundVars
<1>4. CASE RuntimeExits
  BY <1>4, NoneAssumption DEF LoanInv, Bearer, RuntimeExits, CallsReject,
        AfterExit, AfterOpen, Replaced, PassRejected, ReleaseAllClaims,
        SendsGone, Unsettled
<1>5. CASE RestartRuntime
  BY <1>5, NoneAssumption DEF LoanInv, Bearer, RestartRuntime, Replaced,
        PassRejected, ReleaseAllClaims, SendsGone, Unsettled, boundVars
<1>6. CASE AppEnds
  BY <1>6, NoneAssumption DEF LoanInv, Bearer, AppEnds, ReleaseAllClaims,
        SendsGone, Unsettled
<1>7. CASE ActiveReaches
  BY <1>7 DEF TypeOK, LoanInv, Bearer, ActiveReaches, Tell, installVars,
        loanVars, sendVars, runtimeVars, boundVars
<1>8. CASE ActiveAnswers
  BY <1>8 DEF TypeOK, LoanInv, Bearer, ActiveAnswers, Clear, installVars,
        loanVars, sendVars, toldVars, runtimeVars, boundVars
<1>9. CASE ActiveFails
  BY <1>9 DEF TypeOK, LoanInv, Bearer, PassInv, ActiveFails, installVars,
        sendVars, runtimeVars, boundVars
<1>10. CASE ActiveTimesOut
  BY <1>10 DEF TypeOK, LoanInv, Bearer, PassInv, ActiveTimesOut, installVars,
        sendVars, runtimeVars, boundVars
<1>11. ASSUME NEW s \in Sends, SendStarts(s) PROVE LoanInv'
  BY <1>11, NoneAssumption DEF LoanInv, Bearer, SendStarts, installVars,
        passVars, loanVars, toldVars, runtimeVars, boundVars
<1>12. ASSUME NEW s \in Sends, MainClaims(s) PROVE LoanInv'
  BY <1>12, NoneAssumption DEF TypeOK, LoanInv, Bearer, MainClaims, Claimable,
        installVars, passVars, toldVars, runtimeVars, boundVars
<1>13. ASSUME NEW s \in Sends, ClaimAnswered(s) PROVE LoanInv'
  BY <1>13 DEF TypeOK, LoanInv, Bearer, ClaimAnswered, installVars, passVars,
        loanVars, toldVars, runtimeVars, boundVars
<1>14. ASSUME NEW s \in Sends, ClaimTimesOut(s) PROVE LoanInv'
  BY <1>14, NoneAssumption DEF LoanInv, Bearer, ClaimTimesOut, installVars,
        passVars, loanVars, toldVars, runtimeVars, boundVars
<1>15. ASSUME NEW s \in Sends, LateClaim(s) PROVE LoanInv'
  BY <1>15, NoneAssumption DEF LoanInv, Bearer, LateClaim, installVars,
        passVars, loanVars, toldVars, runtimeVars, boundVars
<1>16. ASSUME NEW s \in Sends, PlainSent(s) PROVE LoanInv'
  BY <1>16, NoneAssumption DEF LoanInv, Bearer, PlainSent, installVars,
        passVars, loanVars, toldVars, runtimeVars, boundVars
<1>17. ASSUME NEW s \in Sends, SendReaches(s) PROVE LoanInv'
  BY <1>17 DEF TypeOK, LoanInv, Bearer, Twice, SendReaches, Tell, installVars,
        passVars, loanVars, runtimeVars, boundVars
<1>18. ASSUME NEW s \in Sends, SendFails(s) PROVE LoanInv'
  BY <1>18 DEF TypeOK, LoanInv, Bearer, SendFails, Tell, installVars, passVars,
        loanVars, toldVars, runtimeVars, boundVars
<1>19. ASSUME NEW s \in Sends, MainAcks(s) PROVE LoanInv'
  BY <1>19, NoneAssumption DEF TypeOK, LoanInv, Bearer, MainAcks, Clear,
        installVars, passVars, loanVars, toldVars, runtimeVars, boundVars
<1>20. ASSUME NEW s \in Sends, MainReleases(s) PROVE LoanInv'
  BY <1>20, NoneAssumption DEF TypeOK, LoanInv, Bearer, MainReleases,
        installVars, passVars, toldVars, runtimeVars, boundVars
<1>21. CASE UNCHANGED <<call, out, lease, leased, file, deferred, told>>
  BY <1>21 DEF LoanInv, Bearer
<1> QED BY <1>1, <1>2, <1>3, <1>4, <1>5, <1>6, <1>7, <1>8, <1>9, <1>10, <1>11,
      <1>12, <1>13, <1>14, <1>15, <1>16, <1>17, <1>18, <1>19, <1>20, <1>21 DEF
      Next, InstallStep, RuntimeStep, PassStep, SendStep, CloseAdmission,
      AdmissionClosed, Blocked, NoChannel, Refused, AnnounceEnds, Installs,
      InstallFails, Opened, ReportFails, PassReads, PassFails, ChannelReady,
      ActiveDispatches, ActiveLost, At, Reopen, Reserve, AfterOpen,
      Deliverable, StillPending, vars, installVars, passVars, loanVars,
      sendVars, toldVars, runtimeVars, boundVars

(* No second message of a receipt starts while one is out, or once it has been
   shown and is still on disk.  The pass sends (ChannelReady) what is on
   disk and not deferred: then nobody bears it, by LoanInv, and what was shown is
   on disk only while an acknowledgement or an answer is coming.  A claim is
   granted (MainClaims) for what is deferred, which the pass is not sending, by
   PassInv.  A new record (OriginFound) is of an attempt that nothing speaks of
   yet, by OnlyKnown. *)
LEMMA OneMessageStep ==
  ASSUME TypeOK, OnlyKnown, PassInv, LoanInv, OneMessage, TypeOK', [Next]_vars
  PROVE  OneMessage'
<1>1. ASSUME NEW a \in Attempts, OriginFound(a) PROVE OneMessage'
  BY <1>1, NoneAssumption DEF OneMessage, AckComing, OnlyKnown, Known,
        OriginFound, Reserve, Persist, At, passVars, loanVars, sendVars,
        toldVars, runtimeVars, boundVars
<1>2. ASSUME NEW a \in Attempts, OpenFails(a) PROVE OneMessage'
  BY <1>2, NoneAssumption DEF OneMessage, OpenFails, CallsReject, AfterExit,
        AfterOpen, Replaced, PassRejected, ReleaseAllClaims, SendsGone,
        Unsettled
<1>3. ASSUME NEW a \in Attempts, ReportSent(a) PROVE OneMessage'
  BY <1>3, NoneAssumption DEF OneMessage, AckComing, AnswerComing, ReportSent,
        At, Clear, passVars, loanVars, sendVars, toldVars, runtimeVars,
        boundVars
<1>4. CASE RuntimeExits
  BY <1>4, NoneAssumption DEF OneMessage, RuntimeExits, CallsReject, AfterExit,
        AfterOpen, Replaced, PassRejected, ReleaseAllClaims, SendsGone,
        Unsettled
<1>5. CASE RestartRuntime
  BY <1>5, NoneAssumption DEF OneMessage, RestartRuntime, Replaced,
        PassRejected, ReleaseAllClaims, SendsGone, Unsettled, boundVars
<1>6. CASE AppEnds
  BY <1>6, NoneAssumption DEF OneMessage, AppEnds, ReleaseAllClaims, SendsGone,
        Unsettled
<1>7. CASE PassReads
  BY <1>7, NoneAssumption DEF OneMessage, AckComing, AnswerComing, LoanInv,
        PassReads, Deliverable, installVars, loanVars, sendVars, toldVars,
        runtimeVars, boundVars
<1>8. CASE PassFails
  BY <1>8, NoneAssumption DEF OneMessage, AckComing, AnswerComing, PassFails,
        installVars, loanVars, sendVars, toldVars, runtimeVars, boundVars
<1>9. CASE ChannelReady
  BY <1>9, NoneAssumption DEF OneMessage, AckComing, AnswerComing, LoanInv,
        ChannelReady, StillPending, Deliverable, installVars, loanVars,
        sendVars, toldVars, runtimeVars, boundVars
<1>10. CASE ActiveDispatches
  BY <1>10, NoneAssumption DEF OneMessage, AckComing, AnswerComing,
        ActiveDispatches, installVars, loanVars, sendVars, toldVars,
        runtimeVars, boundVars
<1>11. CASE ActiveReaches
  BY <1>11, NoneAssumption DEF OneMessage, AckComing, AnswerComing, PassInv,
        ActiveReaches, Tell, installVars, loanVars, sendVars, runtimeVars,
        boundVars
<1>12. CASE ActiveAnswers
  BY <1>12, NoneAssumption DEF OneMessage, AckComing, AnswerComing,
        ActiveAnswers, Clear, installVars, loanVars, sendVars, toldVars,
        runtimeVars, boundVars
<1>13. CASE ActiveFails
  BY <1>13, NoneAssumption DEF OneMessage, AckComing, AnswerComing,
        ActiveFails, installVars, sendVars, runtimeVars, boundVars
<1>14. CASE ActiveTimesOut
  BY <1>14, NoneAssumption DEF OneMessage, AckComing, AnswerComing,
        ActiveTimesOut, installVars, sendVars, runtimeVars, boundVars
<1>15. CASE ActiveLost
  BY <1>15, NoneAssumption DEF OneMessage, AckComing, AnswerComing, ActiveLost,
        installVars, loanVars, sendVars, toldVars, runtimeVars, boundVars
<1>16. ASSUME NEW s \in Sends, SendStarts(s) PROVE OneMessage'
  BY <1>16, NoneAssumption DEF OneMessage, AckComing, AnswerComing, SendStarts,
        installVars, passVars, loanVars, toldVars, runtimeVars, boundVars
<1>17. ASSUME NEW s \in Sends, MainClaims(s) PROVE OneMessage'
  BY <1>17 DEF TypeOK, OneMessage, AckComing, AnswerComing, PassInv,
        MainClaims, Claimable, installVars, passVars, toldVars, runtimeVars,
        boundVars
<1>18. ASSUME NEW s \in Sends, ClaimAnswered(s) PROVE OneMessage'
  BY <1>18, NoneAssumption DEF OneMessage, AckComing, AnswerComing,
        ClaimAnswered, installVars, passVars, loanVars, toldVars, runtimeVars,
        boundVars
<1>19. ASSUME NEW s \in Sends, LateClaim(s) PROVE OneMessage'
  BY <1>19, NoneAssumption DEF OneMessage, AckComing, AnswerComing, LateClaim,
        installVars, passVars, loanVars, toldVars, runtimeVars, boundVars
<1>20. ASSUME NEW s \in Sends, SendReaches(s) PROVE OneMessage'
  BY <1>20, NoneAssumption DEF TypeOK, OneMessage, AckComing, AnswerComing,
        LoanInv, Bearer, SendReaches, Tell, installVars, passVars, loanVars,
        runtimeVars, boundVars
<1>21. ASSUME NEW s \in Sends, SendFails(s) PROVE OneMessage'
  BY <1>21 DEF TypeOK, OneMessage, AckComing, AnswerComing, LoanInv, SendFails,
        Tell, installVars, passVars, loanVars, toldVars, runtimeVars, boundVars
<1>22. ASSUME NEW s \in Sends, MainAcks(s) PROVE OneMessage'
  BY <1>22, NoneAssumption DEF OneMessage, AckComing, AnswerComing, MainAcks,
        Clear, installVars, passVars, loanVars, toldVars, runtimeVars,
        boundVars
<1>23. ASSUME NEW s \in Sends, MainReleases(s) PROVE OneMessage'
  BY <1>23, NoneAssumption DEF OneMessage, AckComing, AnswerComing,
        MainReleases, installVars, passVars, toldVars, runtimeVars, boundVars
<1>24. CASE UNCHANGED <<active, passOf, leased, told, file, lease, call, pass, doubt>>
  BY <1>24 DEF OneMessage, AckComing, AnswerComing
<1> QED BY <1>1, <1>2, <1>3, <1>4, <1>5, <1>6, <1>7, <1>8, <1>9, <1>10, <1>11,
      <1>12, <1>13, <1>14, <1>15, <1>16, <1>17, <1>18, <1>19, <1>20, <1>21,
      <1>22, <1>23, <1>24 DEF Next, InstallStep, RuntimeStep, PassStep,
      SendStep, CloseAdmission, AdmissionClosed, Blocked, NoChannel, Refused,
      AnnounceEnds, Installs, InstallFails, Opened, ReportFails, ClaimTimesOut,
      PlainSent, At, Reopen, Reserve, AfterOpen, vars, installVars, passVars,
      loanVars, sendVars, toldVars, runtimeVars, boundVars

(* Whoever shows a receipt whose fate is certain is the first to do so. *)
LEMMA TwiceStep ==
  ASSUME TypeOK, PassInv, LoanInv, OneMessage, TwiceOnlyInDoubt, TypeOK', [Next]_vars
  PROVE  TwiceOnlyInDoubt'
<1>1. ASSUME NEW a \in Attempts, OpenFails(a) PROVE TwiceOnlyInDoubt'
  BY <1>1 DEF TwiceOnlyInDoubt, OpenFails, CallsReject, AfterExit, AfterOpen,
        Replaced, PassRejected, ReleaseAllClaims, SendsGone, Unsettled
<1>2. CASE RuntimeExits
  BY <1>2 DEF TwiceOnlyInDoubt, RuntimeExits, CallsReject, AfterExit,
        AfterOpen, Replaced, PassRejected, ReleaseAllClaims, SendsGone,
        Unsettled
<1>3. CASE RestartRuntime
  BY <1>3 DEF TwiceOnlyInDoubt, RestartRuntime, Replaced, PassRejected,
        ReleaseAllClaims, SendsGone, Unsettled, boundVars
<1>4. CASE AppEnds
  BY <1>4 DEF TwiceOnlyInDoubt, AppEnds, ReleaseAllClaims, SendsGone, Unsettled
<1>5. CASE ActiveReaches
  BY <1>5 DEF TypeOK, TwiceOnlyInDoubt, OneMessage, Twice, ActiveReaches, Tell,
        installVars, loanVars, sendVars, runtimeVars, boundVars
<1>6. CASE ActiveFails
  BY <1>6 DEF TwiceOnlyInDoubt, ActiveFails, installVars, sendVars,
        runtimeVars, boundVars
<1>7. CASE ActiveTimesOut
  BY <1>7 DEF TwiceOnlyInDoubt, ActiveTimesOut, installVars, sendVars,
        runtimeVars, boundVars
<1>8. ASSUME NEW s \in Sends, SendReaches(s) PROVE TwiceOnlyInDoubt'
  BY <1>8 DEF TypeOK, TwiceOnlyInDoubt, OneMessage, AckComing, LoanInv, Bearer,
        Twice, SendReaches, Tell, installVars, passVars, loanVars, runtimeVars,
        boundVars
<1>9. ASSUME NEW s \in Sends, SendFails(s) PROVE TwiceOnlyInDoubt'
  BY <1>9 DEF TypeOK, TwiceOnlyInDoubt, SendFails, Tell, installVars, passVars,
        loanVars, toldVars, runtimeVars, boundVars
<1>10. CASE UNCHANGED <<told, doubt>>
  BY <1>10 DEF TwiceOnlyInDoubt
<1> QED BY <1>1, <1>2, <1>3, <1>4, <1>5, <1>6, <1>7, <1>8, <1>9, <1>10 DEF
      Next, InstallStep, RuntimeStep, PassStep, SendStep, CloseAdmission,
      AdmissionClosed, Blocked, OriginFound, NoChannel, Refused, AnnounceEnds,
      Installs, InstallFails, Opened, ReportSent, ReportFails, PassReads,
      PassFails, ChannelReady, ActiveDispatches, ActiveAnswers, ActiveLost,
      SendStarts, MainClaims, ClaimAnswered, ClaimTimesOut, LateClaim,
      PlainSent, MainAcks, MainReleases, At, Reopen, Reserve, Persist,
      AfterOpen, Clear, Deliverable, StillPending, Claimable, vars,
      installVars, passVars, loanVars, sendVars, toldVars, runtimeVars,
      boundVars

(* The slot stays with the attempt that is installing. *)
LEMMA SlotStep ==
  ASSUME TypeOK, SlotInv, [Next]_vars
  PROVE  SlotInv'
<1>1. ASSUME NEW a \in Attempts, CloseAdmission(a) PROVE SlotInv'
  BY <1>1, NoneAssumption DEF TypeOK, SlotInv, Installing, CloseAdmission, At,
        passVars, loanVars, sendVars, toldVars, boundVars
<1>2. ASSUME NEW a \in Attempts, AdmissionClosed(a) PROVE SlotInv'
  BY <1>2, NoneAssumption DEF SlotInv, Installing, AdmissionClosed, At,
        passVars, loanVars, sendVars, toldVars, runtimeVars, boundVars
<1>3. ASSUME NEW a \in Attempts, Blocked(a) PROVE SlotInv'
  BY <1>3, NoneAssumption DEF SlotInv, Installing, Blocked, Reopen, At,
        passVars, loanVars, sendVars, toldVars, boundVars
<1>4. ASSUME NEW a \in Attempts, OriginFound(a) PROVE SlotInv'
  BY <1>4, NoneAssumption DEF SlotInv, OriginFound, Reserve, Persist, At,
        passVars, loanVars, sendVars, toldVars, runtimeVars, boundVars
<1>5. ASSUME NEW a \in Attempts, NoChannel(a) PROVE SlotInv'
  BY <1>5, NoneAssumption DEF SlotInv, NoChannel, Reserve, At, passVars,
        loanVars, sendVars, toldVars, runtimeVars, boundVars
<1>6. ASSUME NEW a \in Attempts, Refused(a) PROVE SlotInv'
  BY <1>6, NoneAssumption DEF SlotInv, Installing, Refused, Reopen, At,
        passVars, loanVars, sendVars, toldVars, boundVars
<1>7. ASSUME NEW a \in Attempts, AnnounceEnds(a) PROVE SlotInv'
  BY <1>7, NoneAssumption DEF SlotInv, Installing, AnnounceEnds, At, passVars,
        loanVars, sendVars, toldVars, runtimeVars, boundVars
<1>8. ASSUME NEW a \in Attempts, Installs(a) PROVE SlotInv'
  BY <1>8, NoneAssumption DEF SlotInv, Installing, Installs, At, passVars,
        loanVars, sendVars, toldVars, runtimeVars, boundVars
<1>9. ASSUME NEW a \in Attempts, InstallFails(a) PROVE SlotInv'
  BY <1>9, NoneAssumption DEF TypeOK, SlotInv, Installing, InstallFails,
        Reopen, At, passVars, loanVars, sendVars, toldVars, boundVars
<1>10. ASSUME NEW a \in Attempts, Opened(a) PROVE SlotInv'
  BY <1>10, NoneAssumption DEF SlotInv, Installing, Opened, At, AfterOpen,
        passVars, loanVars, sendVars, toldVars, runtimeVars, boundVars
<1>11. ASSUME NEW a \in Attempts, OpenFails(a) PROVE SlotInv'
  BY <1>11, NoneAssumption DEF SlotInv, Installing, OpenFails, CallsReject,
        AfterExit, AfterOpen, Replaced, PassRejected, ReleaseAllClaims,
        SendsGone, Unsettled
<1>12. ASSUME NEW a \in Attempts, ReportSent(a) PROVE SlotInv'
  BY <1>12, NoneAssumption DEF SlotInv, Installing, ReportSent, At, Clear,
        passVars, loanVars, sendVars, toldVars, runtimeVars, boundVars
<1>13. ASSUME NEW a \in Attempts, ReportFails(a) PROVE SlotInv'
  BY <1>13, NoneAssumption DEF SlotInv, Installing, ReportFails, At, passVars,
        loanVars, sendVars, toldVars, runtimeVars, boundVars
<1>14. CASE RuntimeExits
  BY <1>14, NoneAssumption DEF SlotInv, Installing, RuntimeExits, CallsReject,
        AfterExit, AfterOpen, Replaced, PassRejected, ReleaseAllClaims,
        SendsGone, Unsettled
<1>15. CASE AppEnds
  BY <1>15, NoneAssumption DEF SlotInv, Installing, AppEnds, ReleaseAllClaims,
        SendsGone, Unsettled
<1>16. CASE UNCHANGED <<step, slot>>
  BY <1>16 DEF SlotInv
<1> QED BY <1>1, <1>2, <1>3, <1>4, <1>5, <1>6, <1>7, <1>8, <1>9, <1>10, <1>11,
      <1>12, <1>13, <1>14, <1>15, <1>16 DEF Next, InstallStep, RuntimeStep,
      PassStep, SendStep, RestartRuntime, PassReads, PassFails, ChannelReady,
      ActiveDispatches, ActiveReaches, ActiveAnswers, ActiveFails,
      ActiveTimesOut, ActiveLost, SendStarts, MainClaims, ClaimAnswered,
      ClaimTimesOut, LateClaim, PlainSent, SendReaches, SendFails, MainAcks,
      MainReleases, Replaced, PassRejected, ReleaseAllClaims, SendsGone,
      Unsettled, Deliverable, StillPending, Tell, Clear, Claimable, vars,
      installVars, passVars, loanVars, sendVars, toldVars, runtimeVars,
      boundVars

(* Nothing but a message that has been shown removes the record of an install. *)
LEMMA KeepStep ==
  ASSUME TypeOK, PassInv, LoanInv, SlotInv, InstallKeepsItsRecord, TypeOK', [Next]_vars
  PROVE  InstallKeepsItsRecord'
<1>1. ASSUME NEW a \in Attempts, CloseAdmission(a) PROVE InstallKeepsItsRecord'
  BY <1>1 DEF TypeOK, InstallKeepsItsRecord, Installing, CloseAdmission, At,
        passVars, loanVars, sendVars, toldVars, boundVars
<1>2. ASSUME NEW a \in Attempts, AdmissionClosed(a) PROVE InstallKeepsItsRecord'
  BY <1>2 DEF InstallKeepsItsRecord, Installing, AdmissionClosed, At, passVars,
        loanVars, sendVars, toldVars, runtimeVars, boundVars
<1>3. ASSUME NEW a \in Attempts, Blocked(a) PROVE InstallKeepsItsRecord'
  BY <1>3 DEF InstallKeepsItsRecord, Installing, Blocked, Reopen, At, passVars,
        loanVars, sendVars, toldVars, boundVars
<1>4. ASSUME NEW a \in Attempts, OriginFound(a) PROVE InstallKeepsItsRecord'
  BY <1>4, NoneAssumption DEF InstallKeepsItsRecord, SlotInv, OriginFound,
        Reserve, Persist, At, passVars, loanVars, sendVars, toldVars,
        runtimeVars, boundVars
<1>5. ASSUME NEW a \in Attempts, NoChannel(a) PROVE InstallKeepsItsRecord'
  BY <1>5 DEF InstallKeepsItsRecord, NoChannel, Reserve, At, passVars,
        loanVars, sendVars, toldVars, runtimeVars, boundVars
<1>6. ASSUME NEW a \in Attempts, Refused(a) PROVE InstallKeepsItsRecord'
  BY <1>6 DEF InstallKeepsItsRecord, Installing, Refused, Reopen, At, passVars,
        loanVars, sendVars, toldVars, boundVars
<1>7. ASSUME NEW a \in Attempts, AnnounceEnds(a) PROVE InstallKeepsItsRecord'
  BY <1>7 DEF InstallKeepsItsRecord, Installing, AnnounceEnds, At, passVars,
        loanVars, sendVars, toldVars, runtimeVars, boundVars
<1>8. ASSUME NEW a \in Attempts, Installs(a) PROVE InstallKeepsItsRecord'
  BY <1>8 DEF InstallKeepsItsRecord, Installing, Installs, At, passVars,
        loanVars, sendVars, toldVars, runtimeVars, boundVars
<1>9. ASSUME NEW a \in Attempts, InstallFails(a) PROVE InstallKeepsItsRecord'
  BY <1>9 DEF InstallKeepsItsRecord, Installing, InstallFails, Reopen, At,
        passVars, loanVars, sendVars, toldVars, boundVars
<1>10. ASSUME NEW a \in Attempts, Opened(a) PROVE InstallKeepsItsRecord'
  BY <1>10 DEF InstallKeepsItsRecord, Installing, Opened, At, AfterOpen,
        passVars, loanVars, sendVars, toldVars, runtimeVars, boundVars
<1>11. ASSUME NEW a \in Attempts, OpenFails(a) PROVE InstallKeepsItsRecord'
  BY <1>11 DEF InstallKeepsItsRecord, Installing, OpenFails, CallsReject,
        AfterExit, AfterOpen, Replaced, PassRejected, ReleaseAllClaims,
        SendsGone, Unsettled
<1>12. ASSUME NEW a \in Attempts, ReportSent(a) PROVE InstallKeepsItsRecord'
  BY <1>12 DEF InstallKeepsItsRecord, Installing, ReportSent, At, Clear,
        passVars, loanVars, sendVars, toldVars, runtimeVars, boundVars
<1>13. ASSUME NEW a \in Attempts, ReportFails(a) PROVE InstallKeepsItsRecord'
  BY <1>13 DEF InstallKeepsItsRecord, Installing, ReportFails, At, passVars,
        loanVars, sendVars, toldVars, runtimeVars, boundVars
<1>14. CASE RuntimeExits
  BY <1>14 DEF InstallKeepsItsRecord, Installing, RuntimeExits, CallsReject,
        AfterExit, AfterOpen, Replaced, PassRejected, ReleaseAllClaims,
        SendsGone, Unsettled
<1>15. CASE AppEnds
  BY <1>15 DEF InstallKeepsItsRecord, Installing, AppEnds, ReleaseAllClaims,
        SendsGone, Unsettled
<1>16. CASE ActiveReaches
  BY <1>16 DEF TypeOK, InstallKeepsItsRecord, ActiveReaches, Tell, installVars,
        loanVars, sendVars, runtimeVars, boundVars
<1>17. CASE ActiveAnswers
  BY <1>17 DEF InstallKeepsItsRecord, PassInv, ActiveAnswers, Clear,
        installVars, loanVars, sendVars, toldVars, runtimeVars, boundVars
<1>18. ASSUME NEW s \in Sends, SendReaches(s) PROVE InstallKeepsItsRecord'
  BY <1>18 DEF TypeOK, InstallKeepsItsRecord, SendReaches, Tell, installVars,
        passVars, loanVars, runtimeVars, boundVars
<1>19. ASSUME NEW s \in Sends, SendFails(s) PROVE InstallKeepsItsRecord'
  BY <1>19 DEF TypeOK, InstallKeepsItsRecord, SendFails, Tell, installVars,
        passVars, loanVars, toldVars, runtimeVars, boundVars
<1>20. ASSUME NEW s \in Sends, MainAcks(s) PROVE InstallKeepsItsRecord'
  BY <1>20 DEF InstallKeepsItsRecord, LoanInv, MainAcks, Clear, installVars,
        passVars, loanVars, toldVars, runtimeVars, boundVars
<1>21. CASE UNCHANGED <<step, silent, file, told>>
  BY <1>21 DEF InstallKeepsItsRecord
<1> QED BY <1>1, <1>2, <1>3, <1>4, <1>5, <1>6, <1>7, <1>8, <1>9, <1>10, <1>11,
      <1>12, <1>13, <1>14, <1>15, <1>16, <1>17, <1>18, <1>19, <1>20, <1>21 DEF
      Next, InstallStep, RuntimeStep, PassStep, SendStep, RestartRuntime,
      PassReads, PassFails, ChannelReady, ActiveDispatches, ActiveFails,
      ActiveTimesOut, ActiveLost, SendStarts, MainClaims, ClaimAnswered,
      ClaimTimesOut, LateClaim, PlainSent, MainReleases, Replaced,
      PassRejected, ReleaseAllClaims, SendsGone, Unsettled, Deliverable,
      StillPending, Claimable, vars, installVars, passVars, loanVars, sendVars,
      toldVars, runtimeVars, boundVars

(* An attempt that waits for the answer has closed the runtime that is there. *)
LEMMA ClosingStep ==
  ASSUME TypeOK, ClosingInv, [Next]_vars
  PROVE  ClosingInv'
<1>1. ASSUME NEW a \in Attempts, CloseAdmission(a) PROVE ClosingInv'
  BY <1>1, NoneAssumption DEF TypeOK, ClosingInv, CloseAdmission, At, passVars,
        loanVars, sendVars, toldVars, boundVars
<1>2. ASSUME NEW a \in Attempts, AdmissionClosed(a) PROVE ClosingInv'
  BY <1>2, NoneAssumption DEF ClosingInv, AdmissionClosed, At, passVars,
        loanVars, sendVars, toldVars, runtimeVars, boundVars
<1>3. ASSUME NEW a \in Attempts, Blocked(a) PROVE ClosingInv'
  BY <1>3, NoneAssumption DEF TypeOK, ClosingInv, Blocked, Reopen, At,
        passVars, loanVars, sendVars, toldVars, boundVars
<1>4. ASSUME NEW a \in Attempts, OriginFound(a) PROVE ClosingInv'
  BY <1>4, NoneAssumption DEF ClosingInv, OriginFound, Reserve, Persist, At,
        passVars, loanVars, sendVars, toldVars, runtimeVars, boundVars
<1>5. ASSUME NEW a \in Attempts, NoChannel(a) PROVE ClosingInv'
  BY <1>5, NoneAssumption DEF ClosingInv, NoChannel, Reserve, At, passVars,
        loanVars, sendVars, toldVars, runtimeVars, boundVars
<1>6. ASSUME NEW a \in Attempts, Refused(a) PROVE ClosingInv'
  BY <1>6, NoneAssumption DEF ClosingInv, Refused, Reopen, At, passVars,
        loanVars, sendVars, toldVars, boundVars
<1>7. ASSUME NEW a \in Attempts, AnnounceEnds(a) PROVE ClosingInv'
  BY <1>7, NoneAssumption DEF ClosingInv, AnnounceEnds, At, passVars, loanVars,
        sendVars, toldVars, runtimeVars, boundVars
<1>8. ASSUME NEW a \in Attempts, Installs(a) PROVE ClosingInv'
  BY <1>8, NoneAssumption DEF ClosingInv, Installs, At, passVars, loanVars,
        sendVars, toldVars, runtimeVars, boundVars
<1>9. ASSUME NEW a \in Attempts, InstallFails(a) PROVE ClosingInv'
  BY <1>9, NoneAssumption DEF ClosingInv, InstallFails, Reopen, At, passVars,
        loanVars, sendVars, toldVars, boundVars
<1>10. ASSUME NEW a \in Attempts, Opened(a) PROVE ClosingInv'
  BY <1>10, NoneAssumption DEF ClosingInv, Opened, At, AfterOpen, passVars,
        loanVars, sendVars, toldVars, runtimeVars, boundVars
<1>11. ASSUME NEW a \in Attempts, OpenFails(a) PROVE ClosingInv'
  BY <1>11, NoneAssumption DEF ClosingInv, OpenFails, CallsReject, AfterExit,
        AfterOpen, Replaced, PassRejected, ReleaseAllClaims, SendsGone,
        Unsettled
<1>12. ASSUME NEW a \in Attempts, ReportSent(a) PROVE ClosingInv'
  BY <1>12, NoneAssumption DEF ClosingInv, ReportSent, At, Clear, passVars,
        loanVars, sendVars, toldVars, runtimeVars, boundVars
<1>13. ASSUME NEW a \in Attempts, ReportFails(a) PROVE ClosingInv'
  BY <1>13, NoneAssumption DEF ClosingInv, ReportFails, At, passVars, loanVars,
        sendVars, toldVars, runtimeVars, boundVars
<1>14. CASE RuntimeExits
  BY <1>14, NoneAssumption DEF ClosingInv, RuntimeExits, CallsReject,
        AfterExit, AfterOpen, Replaced, PassRejected, ReleaseAllClaims,
        SendsGone, Unsettled
<1>15. CASE RestartRuntime
  BY <1>15, NoneAssumption DEF ClosingInv, RestartRuntime, Replaced,
        PassRejected, ReleaseAllClaims, SendsGone, Unsettled, boundVars
<1>16. CASE AppEnds
  BY <1>16, NoneAssumption DEF ClosingInv, AppEnds, ReleaseAllClaims,
        SendsGone, Unsettled
<1>17. CASE UNCHANGED <<step, up, gate>>
  BY <1>17 DEF ClosingInv
<1> QED BY <1>1, <1>2, <1>3, <1>4, <1>5, <1>6, <1>7, <1>8, <1>9, <1>10, <1>11,
      <1>12, <1>13, <1>14, <1>15, <1>16, <1>17 DEF Next, InstallStep,
      RuntimeStep, PassStep, SendStep, PassReads, PassFails, ChannelReady,
      ActiveDispatches, ActiveReaches, ActiveAnswers, ActiveFails,
      ActiveTimesOut, ActiveLost, SendStarts, MainClaims, ClaimAnswered,
      ClaimTimesOut, LateClaim, PlainSent, SendReaches, SendFails, MainAcks,
      MainReleases, Deliverable, StillPending, Tell, Clear, Claimable, vars,
      installVars, passVars, loanVars, sendVars, toldVars, runtimeVars,
      boundVars

(* A closed gate keeps its owner, and the owner is installing or about to. *)
LEMMA AdmissionStep ==
  ASSUME TypeOK, ClosingInv, AdmissionHasOwner, TypeOK', [Next]_vars
  PROVE  AdmissionHasOwner'
<1>1. ASSUME NEW a \in Attempts, CloseAdmission(a) PROVE AdmissionHasOwner'
  BY <1>1 DEF TypeOK, AdmissionHasOwner, Installing, CloseAdmission, At,
        passVars, loanVars, sendVars, toldVars, boundVars
<1>2. ASSUME NEW a \in Attempts, AdmissionClosed(a) PROVE AdmissionHasOwner'
  BY <1>2 DEF TypeOK, AdmissionHasOwner, ClosingInv, AdmissionClosed, At,
        passVars, loanVars, sendVars, toldVars, runtimeVars, boundVars
<1>3. ASSUME NEW a \in Attempts, Blocked(a) PROVE AdmissionHasOwner'
  BY <1>3 DEF AdmissionHasOwner, Blocked, Reopen, At, passVars, loanVars,
        sendVars, toldVars, boundVars
<1>4. ASSUME NEW a \in Attempts, OriginFound(a) PROVE AdmissionHasOwner'
  BY <1>4 DEF AdmissionHasOwner, Installing, OriginFound, Reserve, Persist, At,
        passVars, loanVars, sendVars, toldVars, runtimeVars, boundVars
<1>5. ASSUME NEW a \in Attempts, NoChannel(a) PROVE AdmissionHasOwner'
  BY <1>5 DEF AdmissionHasOwner, Installing, NoChannel, Reserve, At, passVars,
        loanVars, sendVars, toldVars, runtimeVars, boundVars
<1>6. ASSUME NEW a \in Attempts, Refused(a) PROVE AdmissionHasOwner'
  BY <1>6 DEF AdmissionHasOwner, Refused, Reopen, At, passVars, loanVars,
        sendVars, toldVars, boundVars
<1>7. ASSUME NEW a \in Attempts, AnnounceEnds(a) PROVE AdmissionHasOwner'
  BY <1>7 DEF AdmissionHasOwner, Installing, AnnounceEnds, At, passVars,
        loanVars, sendVars, toldVars, runtimeVars, boundVars
<1>8. ASSUME NEW a \in Attempts, Installs(a) PROVE AdmissionHasOwner'
  BY <1>8 DEF AdmissionHasOwner, Installing, Installs, At, passVars, loanVars,
        sendVars, toldVars, runtimeVars, boundVars
<1>9. ASSUME NEW a \in Attempts, InstallFails(a) PROVE AdmissionHasOwner'
  BY <1>9 DEF AdmissionHasOwner, InstallFails, Reopen, At, passVars, loanVars,
        sendVars, toldVars, boundVars
<1>10. ASSUME NEW a \in Attempts, Opened(a) PROVE AdmissionHasOwner'
  BY <1>10 DEF AdmissionHasOwner, Installing, Opened, At, AfterOpen, passVars,
        loanVars, sendVars, toldVars, runtimeVars, boundVars
<1>11. ASSUME NEW a \in Attempts, OpenFails(a) PROVE AdmissionHasOwner'
  BY <1>11 DEF TypeOK, AdmissionHasOwner, Installing, OpenFails, CallsReject,
        AfterExit, AfterOpen, Replaced, PassRejected, ReleaseAllClaims,
        SendsGone, Unsettled
<1>12. ASSUME NEW a \in Attempts, ReportSent(a) PROVE AdmissionHasOwner'
  BY <1>12 DEF AdmissionHasOwner, Installing, ReportSent, At, Clear, passVars,
        loanVars, sendVars, toldVars, runtimeVars, boundVars
<1>13. ASSUME NEW a \in Attempts, ReportFails(a) PROVE AdmissionHasOwner'
  BY <1>13 DEF AdmissionHasOwner, Installing, ReportFails, At, passVars,
        loanVars, sendVars, toldVars, runtimeVars, boundVars
<1>14. CASE RuntimeExits
  BY <1>14 DEF TypeOK, AdmissionHasOwner, Installing, RuntimeExits,
        CallsReject, AfterExit, AfterOpen, Replaced, PassRejected,
        ReleaseAllClaims, SendsGone, Unsettled
<1>15. CASE RestartRuntime
  BY <1>15 DEF AdmissionHasOwner, RestartRuntime, Replaced, PassRejected,
        ReleaseAllClaims, SendsGone, Unsettled, boundVars
<1>16. CASE AppEnds
  BY <1>16 DEF AdmissionHasOwner, AppEnds, ReleaseAllClaims, SendsGone,
        Unsettled
<1>17. CASE UNCHANGED <<step, owner, gate>>
  BY <1>17 DEF AdmissionHasOwner
<1> QED BY <1>1, <1>2, <1>3, <1>4, <1>5, <1>6, <1>7, <1>8, <1>9, <1>10, <1>11,
      <1>12, <1>13, <1>14, <1>15, <1>16, <1>17 DEF Next, InstallStep,
      RuntimeStep, PassStep, SendStep, PassReads, PassFails, ChannelReady,
      ActiveDispatches, ActiveReaches, ActiveAnswers, ActiveFails,
      ActiveTimesOut, ActiveLost, SendStarts, MainClaims, ClaimAnswered,
      ClaimTimesOut, LateClaim, PlainSent, SendReaches, SendFails, MainAcks,
      MainReleases, Deliverable, StillPending, Tell, Clear, Claimable, vars,
      installVars, passVars, loanVars, sendVars, toldVars, runtimeVars,
      boundVars

-----------------------------------------------------------------------------
LEMMA InitInv == Init => TypeOK /\ IndInv
BY NoneAssumption, BoundAssumption DEF Init, TypeOK, Steps, Twice, IndInv, OnlyKnown,
      PassInv, LoanInv, Bearer, OneMessage, TwiceOnlyInDoubt, SlotInv, Installing,
      InstallKeepsItsRecord, ClosingInv, AdmissionHasOwner

LEMMA NextInv == TypeOK /\ IndInv /\ [Next]_vars => (TypeOK /\ IndInv)'
<1> SUFFICES ASSUME TypeOK, IndInv, [Next]_vars PROVE (TypeOK /\ IndInv)'
  OBVIOUS
<1>1. TypeOK'
  BY TypeStep DEF IndInv
<1> QED
  BY <1>1, KnownStep, PassInvStep, LoanStep, OneMessageStep, TwiceStep, SlotStep,
     KeepStep, ClosingStep, AdmissionStep DEF IndInv

(* The inductive invariant holds in every reachable state; the theorems below
   follow from it. *)
THEOREM Invariant == Spec => [](TypeOK /\ IndInv)
BY InitInv, NextInv, PTL DEF Spec

(* Every variable of the update and of its receipt keeps its type. *)
THEOREM TypeCorrect == Spec => []TypeOK
BY Invariant, PTL

(* The active send, the passes of later runtimes and the loans show a receipt
   once unless a sender lost sight of its message. *)
THEOREM ToldOnce == Spec => []TwiceOnlyInDoubt
<1>1. TypeOK /\ IndInv => TwiceOnlyInDoubt
  BY DEF IndInv
<1> QED BY <1>1, Invariant, PTL

(* No interleaving of a second install, a pass, a loan and the ends of either
   process leaves an install that goes on without its record. *)
THEOREM RecordIsKept == Spec => []InstallKeepsItsRecord
<1>1. TypeOK /\ IndInv => InstallKeepsItsRecord
  BY DEF IndInv
<1> QED BY <1>1, Invariant, PTL

(* Run admission is never closed for an attempt that is over. *)
THEOREM GateIsOwned == Spec => []AdmissionHasOwner
<1>1. TypeOK /\ IndInv => AdmissionHasOwner
  BY DEF IndInv
<1> QED BY <1>1, Invariant, PTL

(* A loan that is out will be acknowledged or given back. *)
THEOREM LoanIsBorne == Spec => []LoanHasABearer
<1>1. TypeOK /\ IndInv => LoanHasABearer
  BY DEF IndInv, LoanInv, Bearer, LoanHasABearer
<1> QED BY <1>1, Invariant, PTL

(* What OwedUntilTold says of one step. *)
OnlySettled ==
  \A a \in Attempts : file = a /\ file' # a =>
    \/ told[a] > 0
    \/ step[a] = "reporting" /\ step'[a] = "failed"
    \/ \E b \in Attempts : step[b] = "resolving" /\ file' = b

(* Four steps write or remove the record. *)
LEMMA RemovalStep ==
  ASSUME TypeOK, PassInv, LoanInv, [Next]_vars
  PROVE  OnlySettled
<1>1. ASSUME NEW b \in Attempts, OriginFound(b) PROVE OnlySettled
  BY <1>1 DEF OnlySettled, OriginFound, Persist
<1>2. ASSUME NEW b \in Attempts, ReportSent(b) PROVE OnlySettled
  BY <1>2 DEF OnlySettled, ReportSent, Clear, At, TypeOK
<1>3. CASE ActiveAnswers
  BY <1>3 DEF OnlySettled, ActiveAnswers, Clear, PassInv
<1>4. ASSUME NEW s \in Sends, MainAcks(s) PROVE OnlySettled
  BY <1>4 DEF OnlySettled, MainAcks, Clear, LoanInv
<1>5. CASE UNCHANGED file
  BY <1>5 DEF OnlySettled
<1> QED
  BY <1>1, <1>2, <1>3, <1>4, <1>5 DEF Next, InstallStep, RuntimeStep, PassStep,
     SendStep, CloseAdmission, AdmissionClosed, Blocked, NoChannel, Refused,
       AnnounceEnds, Installs, InstallFails, Opened, OpenFails, ReportFails,
       RuntimeExits, RestartRuntime, AppEnds, PassReads, PassFails,
       ChannelReady, ActiveDispatches, ActiveReaches, ActiveFails,
       ActiveTimesOut, ActiveLost, SendStarts, MainClaims, ClaimAnswered,
       ClaimTimesOut, LateClaim, PlainSent, SendReaches, SendFails,
       MainReleases, vars, installVars, passVars, loanVars, sendVars, toldVars,
       runtimeVars, boundVars

(* A record is removed only when told, withdrawn in the chat or written over. *)
THEOREM OwedIsTold == Spec => OwedUntilTold
<1>1. TypeOK /\ IndInv /\ [Next]_vars => [OnlySettled]_vars
  BY RemovalStep DEF IndInv
<1> QED BY Invariant, <1>1, PTL DEF Spec, OwedUntilTold, OnlySettled
=============================================================================
