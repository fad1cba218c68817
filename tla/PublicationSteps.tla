-------------------------- MODULE PublicationSteps --------------------------
(***************************************************************************)
(* Every step of Publication preserves each part of the invariant IInv of  *)
(* PublicationInv: first which steps change which variables, so that the   *)
(* proof about a part considers those steps only; then one lemma per part, *)
(* for any number of runs, tables, dates and screens.                      *)
(***************************************************************************)
EXTENDS PublicationInv, TLAPS


USE DEF UpdateState, UpdateStage, Resolve, Claim, Cancel, Queue, BeginPublish,
        storeVars, AskLock, GrantLock, ReplaceNext, SendCommit, ExecuteCommit,
        EndSession, TakeLock, EndReconciler, targetVars, EndOp, BeginOp, StartRec,
        EndRec, RecGoto, Return, Goto, Exit, Raise, workerVars, recVars, uiVars,
        processVars

\* The steps that change the state of a run or its publish_pending flag.
LEMMA StateFrame ==
  ASSUME Next
  PROVE  \/ UNCHANGED <<state, pending>>
         \/ \E r \in Run : ClaimRun(r) \/ EnterPublish(r) \/ Succeed(r)
                           \/ SettleRun(r) \/ RecordInterrupted(r) \/ CancelRun(r)
         \/ \E a \in Actor : RecSuccess(a) \/ RecNotPublished(a)
         \/ \E u \in Screen : StartFails(u) \/ Interrupt(u)
         \/ \E u \in Screen, r \in Run, p \in Run \cup {NoRun} : Start(u, r, p)
<1>1. ASSUME NEW r \in Run, WorkerStep(r)
      PROVE  \/ UNCHANGED <<state, pending>>
             \/ ClaimRun(r) \/ EnterPublish(r) \/ Succeed(r) \/ SettleRun(r)
             \/ RecordInterrupted(r)
  BY <1>1 DEF WorkerStep, ClaimRefused, Preflight, ReuseFile, StartExtract, EndExtract,
      StartLoad, EndLoad, LastCheck, RequestLock, LockGranted, ReplaceTable, Commit,
      CommitAcknowledged, MarkPublished, Tidy, NoticeCancel, BodyFails, Handle,
      SettleTable, SettleRest, Finish, StoreRaises
<1>2. ASSUME NEW r \in Run, Die(r) \/ CancelRun(r) \/ ServerStep(r)
      PROVE  \/ UNCHANGED <<state, pending>>
             \/ CancelRun(r)
  BY <1>2 DEF Die, ServerStep, ServerGrants, ServerCommits, ServerEnds
<1>3. ASSUME NEW a \in Actor, RecStep(a) \/ ServerEndsReconciler(a)
      PROVE  \/ UNCHANGED <<state, pending>>
             \/ RecSuccess(a) \/ RecNotPublished(a)
  BY <1>3 DEF RecStep, ServerEndsReconciler, RecLock, RecMarker, RecTable, RecRaises
<1>4. ASSUME NEW u \in Screen, ScreenStep(u)
      PROVE  \/ UNCHANGED <<state, pending>>
             \/ StartFails(u) \/ Interrupt(u)
  BY <1>4 DEF ScreenStep, Popen, SendSecrets, ListTables, FailTable, Recovered
<1>5. ASSUME NEW u \in Screen, ScreenBegins(u)
      PROVE  \/ UNCHANGED <<state, pending>>
             \/ \E r \in Run, p \in Run \cup {NoRun} : Start(u, r, p)
  BY <1>5 DEF ScreenBegins, Recover, ForceStop, Reconcile, ScreenDies
<1> QED BY <1>1, <1>2, <1>3, <1>4, <1>5 DEF Next

\* The steps that change the stage of a table.
LEMMA StageFrame ==
  ASSUME Next
  PROVE  \/ UNCHANGED <<stage>>
         \/ \E r \in Run : StartExtract(r) \/ StartLoad(r) \/ EndLoad(r)
                           \/ MarkPublished(r) \/ SettleTable(r) \/ SettleRest(r)
         \/ \E a \in Actor : RecTable(a)
         \/ \E u \in Screen : FailTable(u)
<1>1. ASSUME NEW r \in Run, WorkerStep(r)
      PROVE  \/ UNCHANGED <<stage>>
             \/ StartExtract(r) \/ StartLoad(r) \/ EndLoad(r) \/ MarkPublished(r)
             \/ SettleTable(r) \/ SettleRest(r)
  BY <1>1 DEF WorkerStep, ClaimRun, ClaimRefused, Preflight, ReuseFile, EndExtract, LastCheck,
      EnterPublish, RequestLock, LockGranted, ReplaceTable, Commit, CommitAcknowledged,
      Succeed, Tidy, NoticeCancel, BodyFails, Handle, SettleRun, Finish, StoreRaises,
      RecordInterrupted
<1>2. ASSUME NEW r \in Run, Die(r) \/ CancelRun(r) \/ ServerStep(r)
      PROVE  UNCHANGED <<stage>>
  BY <1>2 DEF Die, CancelRun, ServerStep, ServerGrants, ServerCommits, ServerEnds
<1>3. ASSUME NEW a \in Actor, RecStep(a) \/ ServerEndsReconciler(a)
      PROVE  \/ UNCHANGED <<stage>>
             \/ RecTable(a)
  BY <1>3 DEF RecStep, ServerEndsReconciler, RecLock, RecMarker, RecSuccess, RecNotPublished,
      RecRaises
<1>4. ASSUME NEW u \in Screen, ScreenStep(u)
      PROVE  \/ UNCHANGED <<stage>>
             \/ FailTable(u)
  BY <1>4 DEF ScreenStep, Popen, SendSecrets, StartFails, Interrupt, ListTables, Recovered
<1>5. ASSUME NEW u \in Screen, ScreenBegins(u)
      PROVE  UNCHANGED <<stage>>
  BY <1>5 DEF ScreenBegins, Start, Recover, ForceStop, Reconcile, ScreenDies
<1> QED BY <1>1, <1>2, <1>3, <1>4, <1>5 DEF Next

\* Only a COMMIT changes the formal tables and the marker table.
LEMMA FormalFrame ==
  ASSUME Next
  PROVE  \/ UNCHANGED <<formal, marker>>
         \/ \E r \in Run : ServerCommits(r)
<1>1. ASSUME NEW r \in Run, WorkerStep(r)
      PROVE  UNCHANGED <<formal, marker>>
  BY <1>1 DEF WorkerStep, ClaimRun, ClaimRefused, Preflight, ReuseFile, StartExtract,
      EndExtract, StartLoad, EndLoad, LastCheck, EnterPublish, RequestLock, LockGranted,
      ReplaceTable, Commit, CommitAcknowledged, MarkPublished, Succeed, Tidy,
      NoticeCancel, BodyFails, Handle, SettleTable, SettleRun, SettleRest, Finish,
      StoreRaises, RecordInterrupted
<1>2. ASSUME NEW r \in Run, Die(r) \/ CancelRun(r) \/ ServerStep(r)
      PROVE  \/ UNCHANGED <<formal, marker>>
             \/ ServerCommits(r)
  BY <1>2 DEF Die, CancelRun, ServerStep, ServerGrants, ServerEnds
<1>3. ASSUME NEW a \in Actor, RecStep(a) \/ ServerEndsReconciler(a)
      PROVE  UNCHANGED <<formal, marker>>
  BY <1>3 DEF RecStep, ServerEndsReconciler, RecLock, RecMarker, RecTable, RecSuccess,
      RecNotPublished, RecRaises
<1>4. ASSUME NEW u \in Screen, ScreenStep(u)
      PROVE  UNCHANGED <<formal, marker>>
  BY <1>4 DEF ScreenStep, Popen, SendSecrets, StartFails, Interrupt, ListTables, FailTable,
      Recovered
<1>5. ASSUME NEW u \in Screen, ScreenBegins(u)
      PROVE  UNCHANGED <<formal, marker>>
  BY <1>5 DEF ScreenBegins, Start, Recover, ForceStop, Reconcile, ScreenDies
<1> QED BY <1>1, <1>2, <1>3, <1>4, <1>5 DEF Next

\* The steps that concern the sessions on the target, or publish_pending.
LEMMA SessionFrame ==
  ASSUME Next
  PROVE  \/ UNCHANGED <<lock, session, replaced, marker, pending>>
         \/ \E r \in Run : EnterPublish(r) \/ RequestLock(r) \/ ReplaceTable(r)
                           \/ Commit(r) \/ Succeed(r) \/ ServerGrants(r)
                           \/ ServerCommits(r) \/ ServerEnds(r)
         \/ \E a \in Actor : RecLock(a) \/ RecSuccess(a) \/ RecNotPublished(a)
                             \/ ServerEndsReconciler(a)
<1>1. ASSUME NEW r \in Run, WorkerStep(r)
      PROVE  \/ UNCHANGED <<lock, session, replaced, marker, pending>>
             \/ EnterPublish(r) \/ RequestLock(r) \/ ReplaceTable(r) \/ Commit(r)
             \/ Succeed(r)
  BY <1>1 DEF WorkerStep, ClaimRun, ClaimRefused, Preflight, ReuseFile, StartExtract,
      EndExtract, StartLoad, EndLoad, LastCheck, LockGranted, CommitAcknowledged,
      MarkPublished, Tidy, NoticeCancel, BodyFails, Handle, SettleTable, SettleRun,
      SettleRest, Finish, StoreRaises, RecordInterrupted
<1>2. ASSUME NEW r \in Run, Die(r) \/ CancelRun(r) \/ ServerStep(r)
      PROVE  \/ UNCHANGED <<lock, session, replaced, marker, pending>>
             \/ ServerGrants(r) \/ ServerCommits(r) \/ ServerEnds(r)
  BY <1>2 DEF Die, CancelRun, ServerStep
<1>3. ASSUME NEW a \in Actor, RecStep(a) \/ ServerEndsReconciler(a)
      PROVE  \/ UNCHANGED <<lock, session, replaced, marker, pending>>
             \/ RecLock(a) \/ RecSuccess(a) \/ RecNotPublished(a)
             \/ ServerEndsReconciler(a)
  BY <1>3 DEF RecStep, ServerEndsReconciler, RecMarker, RecTable, RecRaises
<1>4. ASSUME NEW u \in Screen, ScreenStep(u)
      PROVE  UNCHANGED <<lock, session, replaced, marker, pending>>
  BY <1>4 DEF ScreenStep, Popen, SendSecrets, StartFails, Interrupt, ListTables, FailTable,
      Recovered
<1>5. ASSUME NEW u \in Screen, ScreenBegins(u)
      PROVE  UNCHANGED <<lock, session, replaced, marker, pending>>
  BY <1>5 DEF ScreenBegins, Start, Recover, ForceStop, Reconcile, ScreenDies
<1> QED BY <1>1, <1>2, <1>3, <1>4, <1>5 DEF Next

\* Only a retry sets retry_of.
LEMMA RetryFrame ==
  ASSUME Next
  PROVE  \/ UNCHANGED <<retryOf>>
         \/ \E u \in Screen, r \in Run, p \in Run \cup {NoRun} : Start(u, r, p)
<1>1. ASSUME NEW r \in Run, WorkerStep(r)
      PROVE  UNCHANGED <<retryOf>>
  BY <1>1 DEF WorkerStep, ClaimRun, ClaimRefused, Preflight, ReuseFile, StartExtract,
      EndExtract, StartLoad, EndLoad, LastCheck, EnterPublish, RequestLock, LockGranted,
      ReplaceTable, Commit, CommitAcknowledged, MarkPublished, Succeed, Tidy,
      NoticeCancel, BodyFails, Handle, SettleTable, SettleRun, SettleRest, Finish,
      StoreRaises, RecordInterrupted
<1>2. ASSUME NEW r \in Run, Die(r) \/ CancelRun(r) \/ ServerStep(r)
      PROVE  UNCHANGED <<retryOf>>
  BY <1>2 DEF Die, CancelRun, ServerStep, ServerGrants, ServerCommits, ServerEnds
<1>3. ASSUME NEW a \in Actor, RecStep(a) \/ ServerEndsReconciler(a)
      PROVE  UNCHANGED <<retryOf>>
  BY <1>3 DEF RecStep, ServerEndsReconciler, RecLock, RecMarker, RecTable, RecSuccess,
      RecNotPublished, RecRaises
<1>4. ASSUME NEW u \in Screen, ScreenStep(u)
      PROVE  UNCHANGED <<retryOf>>
  BY <1>4 DEF ScreenStep, Popen, SendSecrets, StartFails, Interrupt, ListTables, FailTable,
      Recovered
<1>5. ASSUME NEW u \in Screen, ScreenBegins(u)
      PROVE  \/ UNCHANGED <<retryOf>>
             \/ \E r \in Run, p \in Run \cup {NoRun} : Start(u, r, p)
  BY <1>5 DEF ScreenBegins, Recover, ForceStop, Reconcile, ScreenDies
<1> QED BY <1>1, <1>2, <1>3, <1>4, <1>5 DEF Next

HIDE DEF UpdateState, UpdateStage, Resolve, Claim, Cancel, Queue, BeginPublish,
         storeVars, AskLock, GrantLock, ReplaceNext, SendCommit, ExecuteCommit,
         EndSession, TakeLock, EndReconciler, targetVars, EndOp, BeginOp, StartRec,
         EndRec, RecGoto, Return, Goto, Exit, Raise, workerVars, recVars, uiVars,
         processVars
-----------------------------------------------------------------------------
\* A stage that is written keeps the type of the store.
LEMMA UpdateStageType ==
  ASSUME StoreTypeOK, NEW r, NEW t, NEW s \in Stages, UpdateStage(r, t, s)
  PROVE  StoreTypeOK'
<1>1. stage' \in [Run -> [Table -> Stages]]
  <2>1. CASE r \in Run
    <3>1. stage[r] \in [Table -> Stages] BY <2>1 DEF StoreTypeOK
    <3>2. [stage[r] EXCEPT ![t] = s] \in [Table -> Stages] BY <3>1
    <3>3. stage' = [stage EXCEPT ![r] = [stage[r] EXCEPT ![t] = s]] BY <2>1 DEF UpdateStage, StoreTypeOK
    <3> QED BY <2>1, <3>2, <3>3 DEF StoreTypeOK
  <2>2. CASE r \notin Run
    <3>1. stage' = stage BY <2>2 DEF UpdateStage, StoreTypeOK
    <3> QED BY <3>1 DEF StoreTypeOK
  <2> QED BY <2>1, <2>2
<1> QED BY <1>1 DEF UpdateStage, StoreTypeOK

\* Types of the store.
LEMMA StoreTypeStep ==
  ASSUME TypeOK, Next
  PROVE  StoreTypeOK'
<1> USE TableAssumption, RunAssumption DEF TypeOK, StoreTypeOK, Stages, Active, Terminal,
    storeVars,
        UpdateState, Resolve, Claim, Cancel, Queue, BeginPublish
<1>1. ASSUME NEW r \in Run, WorkerStep(r) PROVE StoreTypeOK'
  <2>1. CASE ClaimRun(r) BY <2>1 DEF ClaimRun
  <2>2. CASE ClaimRefused(r) BY <2>2 DEF ClaimRefused
  <2>3. CASE Preflight(r) BY <2>3 DEF Preflight
  <2>4. CASE ReuseFile(r) BY <2>4 DEF ReuseFile
  <2>5. CASE StartExtract(r)
    BY <2>5, UpdateStageType DEF StartExtract
  <2>6. CASE EndExtract(r) BY <2>6 DEF EndExtract
  <2>7. CASE StartLoad(r)
    BY <2>7, UpdateStageType DEF StartLoad
  <2>8. CASE EndLoad(r)
    BY <2>8, UpdateStageType DEF EndLoad
  <2>9. CASE LastCheck(r) BY <2>9 DEF LastCheck
  <2>10. CASE EnterPublish(r) BY <2>10 DEF EnterPublish
  <2>11. CASE RequestLock(r) BY <2>11 DEF RequestLock
  <2>12. CASE LockGranted(r) BY <2>12 DEF LockGranted
  <2>13. CASE ReplaceTable(r) BY <2>13 DEF ReplaceTable
  <2>14. CASE Commit(r) BY <2>14 DEF Commit
  <2>15. CASE CommitAcknowledged(r) BY <2>15 DEF CommitAcknowledged
  <2>16. CASE MarkPublished(r)
    BY <2>16, UpdateStageType DEF MarkPublished
  <2>17. CASE Succeed(r) BY <2>17 DEF Succeed
  <2>18. CASE Tidy(r) BY <2>18 DEF Tidy
  <2>19. CASE NoticeCancel(r) BY <2>19 DEF NoticeCancel
  <2>20. CASE BodyFails(r) BY <2>20 DEF BodyFails
  <2>21. CASE Handle(r) BY <2>21 DEF Handle
  <2>22. CASE SettleTable(r)
    <3>1. CASE UNCHANGED storeVars BY <3>1
    <3>2. CASE ~UNCHANGED storeVars
      <4>1. \E s \in Stages : UpdateStage(r, current[r], s) BY <2>22, <3>2 DEF SettleTable
      <4> QED BY <4>1, UpdateStageType
    <3> QED BY <3>1, <3>2
  <2>23. CASE SettleRun(r) BY <2>23 DEF SettleRun, ProcessTypeOK
  <2>24. CASE SettleRest(r) BY <2>24 DEF SettleRest
  <2>25. CASE Finish(r) BY <2>25 DEF Finish
  <2>26. CASE StoreRaises(r) BY <2>26 DEF StoreRaises
  <2>27. CASE RecordInterrupted(r) BY <2>27 DEF RecordInterrupted
  <2> QED BY <1>1, <2>1, <2>2, <2>3, <2>4, <2>5, <2>6, <2>7, <2>8, <2>9, <2>10, <2>11,
      <2>12, <2>13, <2>14, <2>15, <2>16, <2>17, <2>18, <2>19, <2>20, <2>21, <2>22,
      <2>23, <2>24, <2>25, <2>26, <2>27 DEF WorkerStep
<1>2. ASSUME NEW r \in Run, ServerStep(r) PROVE StoreTypeOK'
  <2>1. CASE ServerGrants(r) BY <2>1 DEF ServerGrants
  <2>2. CASE ServerCommits(r) BY <2>2 DEF ServerCommits
  <2>3. CASE ServerEnds(r) BY <2>3 DEF ServerEnds
  <2> QED BY <1>2, <2>1, <2>2, <2>3 DEF ServerStep
<1>3. ASSUME NEW r \in Run, Die(r) PROVE StoreTypeOK'
  BY <1>3 DEF Die
<1>4. ASSUME NEW r \in Run, CancelRun(r) PROVE StoreTypeOK'
  BY <1>4 DEF CancelRun
<1>5. ASSUME NEW a \in Actor, RecStep(a) PROVE StoreTypeOK'
  <2>1. CASE RecLock(a) BY <2>1 DEF RecLock
  <2>2. CASE RecMarker(a) BY <2>2 DEF RecMarker
  <2>3. CASE RecTable(a)
    BY <2>3, UpdateStageType DEF RecTable
  <2>4. CASE RecSuccess(a) BY <2>4 DEF RecSuccess
  <2>5. CASE RecNotPublished(a) BY <2>5 DEF RecNotPublished
  <2>6. CASE RecRaises(a) BY <2>6 DEF RecRaises
  <2> QED BY <1>5, <2>1, <2>2, <2>3, <2>4, <2>5, <2>6 DEF RecStep
<1>6. ASSUME NEW a \in Actor, ServerEndsReconciler(a) PROVE StoreTypeOK'
  BY <1>6 DEF ServerEndsReconciler
<1>7. ASSUME NEW u \in Screen, ScreenStep(u) PROVE StoreTypeOK'
  <2>1. CASE Popen(u) BY <2>1 DEF Popen
  <2>2. CASE SendSecrets(u) BY <2>2 DEF SendSecrets
  <2>3. CASE StartFails(u) BY <2>3 DEF StartFails
  <2>4. CASE Interrupt(u) BY <2>4 DEF Interrupt
  <2>5. CASE ListTables(u) BY <2>5 DEF ListTables
  <2>6. CASE FailTable(u)
    BY <2>6, UpdateStageType DEF FailTable
  <2>7. CASE Recovered(u) BY <2>7 DEF Recovered
  <2> QED BY <1>7, <2>1, <2>2, <2>3, <2>4, <2>5, <2>6, <2>7 DEF ScreenStep
<1>8. ASSUME NEW u \in Screen, NEW r \in Run, NEW p \in Run \cup {NoRun}, Start(u, r,
    p) PROVE StoreTypeOK'
  BY <1>8 DEF Start
<1>9. ASSUME NEW u \in Screen, NEW r \in Run, Recover(u, r) PROVE StoreTypeOK'
  BY <1>9 DEF Recover
<1>10. ASSUME NEW u \in Screen, NEW r \in Run, ForceStop(u, r) PROVE StoreTypeOK'
  BY <1>10 DEF ForceStop
<1>11. ASSUME NEW u \in Screen, NEW r \in Run, Reconcile(u, r) PROVE StoreTypeOK'
  BY <1>11 DEF Reconcile
<1>12. ASSUME NEW u \in Screen, ScreenDies(u) PROVE StoreTypeOK'
  BY <1>12 DEF ScreenDies
<1> QED BY <1>1, <1>2, <1>3, <1>4, <1>5, <1>6, <1>7, <1>8, <1>9, <1>10, <1>11, <1>12
      DEF Next, ScreenBegins

\* Types of the target server.
LEMMA TargetTypeStep ==
  ASSUME TypeOK, Next
  PROVE  TargetTypeOK'
<1> USE TableAssumption, RunAssumption, DateAssumption, ScreenAssumption DEF TypeOK,
    TargetTypeOK,
        SessionStates, Sessions, Publisher, Reconciler, Free, Actor, targetVars,
        AskLock, GrantLock, ReplaceNext, SendCommit, ExecuteCommit, EndSession, TakeLock,
            EndReconciler
<1>1. ASSUME NEW r \in Run, WorkerStep(r) PROVE TargetTypeOK'
  <2>1. CASE ClaimRun(r) BY <2>1 DEF ClaimRun
  <2>2. CASE ClaimRefused(r) BY <2>2 DEF ClaimRefused
  <2>3. CASE Preflight(r) BY <2>3 DEF Preflight
  <2>4. CASE ReuseFile(r) BY <2>4 DEF ReuseFile
  <2>5. CASE StartExtract(r) BY <2>5 DEF StartExtract
  <2>6. CASE EndExtract(r) BY <2>6 DEF EndExtract
  <2>7. CASE StartLoad(r) BY <2>7 DEF StartLoad
  <2>8. CASE EndLoad(r) BY <2>8 DEF EndLoad
  <2>9. CASE LastCheck(r) BY <2>9 DEF LastCheck
  <2>10. CASE EnterPublish(r) BY <2>10 DEF EnterPublish
  <2>11. CASE RequestLock(r) BY <2>11 DEF RequestLock
  <2>12. CASE LockGranted(r) BY <2>12 DEF LockGranted
  <2>13. CASE ReplaceTable(r) BY <2>13 DEF ReplaceTable
  <2>14. CASE Commit(r) BY <2>14 DEF Commit
  <2>15. CASE CommitAcknowledged(r) BY <2>15 DEF CommitAcknowledged
  <2>16. CASE MarkPublished(r) BY <2>16 DEF MarkPublished
  <2>17. CASE Succeed(r) BY <2>17 DEF Succeed
  <2>18. CASE Tidy(r) BY <2>18 DEF Tidy
  <2>19. CASE NoticeCancel(r) BY <2>19 DEF NoticeCancel
  <2>20. CASE BodyFails(r) BY <2>20 DEF BodyFails
  <2>21. CASE Handle(r) BY <2>21 DEF Handle
  <2>22. CASE SettleTable(r) BY <2>22 DEF SettleTable
  <2>23. CASE SettleRun(r) BY <2>23 DEF SettleRun
  <2>24. CASE SettleRest(r) BY <2>24 DEF SettleRest
  <2>25. CASE Finish(r) BY <2>25 DEF Finish
  <2>26. CASE StoreRaises(r) BY <2>26 DEF StoreRaises
  <2>27. CASE RecordInterrupted(r) BY <2>27 DEF RecordInterrupted
  <2> QED BY <1>1, <2>1, <2>2, <2>3, <2>4, <2>5, <2>6, <2>7, <2>8, <2>9, <2>10, <2>11,
      <2>12, <2>13, <2>14, <2>15, <2>16, <2>17, <2>18, <2>19, <2>20, <2>21, <2>22,
      <2>23, <2>24, <2>25, <2>26, <2>27 DEF WorkerStep
<1>2. ASSUME NEW r \in Run, ServerStep(r) PROVE TargetTypeOK'
  <2>1. CASE ServerGrants(r) BY <2>1 DEF ServerGrants
  <2>2. CASE ServerCommits(r) BY <2>2 DEF ServerCommits
  <2>3. CASE ServerEnds(r) BY <2>3 DEF ServerEnds
  <2> QED BY <1>2, <2>1, <2>2, <2>3 DEF ServerStep
<1>3. ASSUME NEW r \in Run, Die(r) PROVE TargetTypeOK'
  BY <1>3 DEF Die
<1>4. ASSUME NEW r \in Run, CancelRun(r) PROVE TargetTypeOK'
  BY <1>4 DEF CancelRun
<1>5. ASSUME NEW a \in Actor, RecStep(a) PROVE TargetTypeOK'
  <2>1. CASE RecLock(a) BY <2>1 DEF RecLock
  <2>2. CASE RecMarker(a) BY <2>2 DEF RecMarker
  <2>3. CASE RecTable(a) BY <2>3 DEF RecTable
  <2>4. CASE RecSuccess(a) BY <2>4 DEF RecSuccess
  <2>5. CASE RecNotPublished(a) BY <2>5 DEF RecNotPublished
  <2>6. CASE RecRaises(a) BY <2>6 DEF RecRaises
  <2> QED BY <1>5, <2>1, <2>2, <2>3, <2>4, <2>5, <2>6 DEF RecStep
<1>6. ASSUME NEW a \in Actor, ServerEndsReconciler(a) PROVE TargetTypeOK'
  BY <1>6 DEF ServerEndsReconciler
<1>7. ASSUME NEW u \in Screen, ScreenStep(u) PROVE TargetTypeOK'
  <2>1. CASE Popen(u) BY <2>1 DEF Popen
  <2>2. CASE SendSecrets(u) BY <2>2 DEF SendSecrets
  <2>3. CASE StartFails(u) BY <2>3 DEF StartFails
  <2>4. CASE Interrupt(u) BY <2>4 DEF Interrupt
  <2>5. CASE ListTables(u) BY <2>5 DEF ListTables
  <2>6. CASE FailTable(u) BY <2>6 DEF FailTable
  <2>7. CASE Recovered(u) BY <2>7 DEF Recovered
  <2> QED BY <1>7, <2>1, <2>2, <2>3, <2>4, <2>5, <2>6, <2>7 DEF ScreenStep
<1>8. ASSUME NEW u \in Screen, NEW r \in Run, NEW p \in Run \cup {NoRun}, Start(u, r,
    p) PROVE TargetTypeOK'
  BY <1>8 DEF Start
<1>9. ASSUME NEW u \in Screen, NEW r \in Run, Recover(u, r) PROVE TargetTypeOK'
  BY <1>9 DEF Recover
<1>10. ASSUME NEW u \in Screen, NEW r \in Run, ForceStop(u, r) PROVE TargetTypeOK'
  BY <1>10 DEF ForceStop
<1>11. ASSUME NEW u \in Screen, NEW r \in Run, Reconcile(u, r) PROVE TargetTypeOK'
  BY <1>11 DEF Reconcile
<1>12. ASSUME NEW u \in Screen, ScreenDies(u) PROVE TargetTypeOK'
  BY <1>12 DEF ScreenDies
<1> QED BY <1>1, <1>2, <1>3, <1>4, <1>5, <1>6, <1>7, <1>8, <1>9, <1>10, <1>11, <1>12
      DEF Next, ScreenBegins

\* A call of reconcile that ends keeps the types of the processes.
LEMMA ReturnType ==
  ASSUME ProcessTypeOK, NEW a \in Actor, NEW v \in Terminal, Return(a, v)
  PROVE  ProcessTypeOK'
<1>1. /\ recPc' \in [Actor -> RecPCs]
      /\ recCancel' \in [Actor -> BOOLEAN]
      /\ recDone' \in [Actor -> 0..NT]
  BY TableAssumption DEF ProcessTypeOK, Return, EndRec, RecPCs
<1>2. CASE a \in Run
  <2>1. pc' \in [Run -> PCs] /\ verdict' \in [Run -> Terminal]
    BY <1>2 DEF ProcessTypeOK, Return, Goto, PCs, Handling
  <2>2. UNCHANGED <<current, uiVars>>
    BY <1>2 DEF Return
  <2> QED BY <1>1, <2>1, <2>2 DEF ProcessTypeOK, uiVars
<1>3. CASE a \notin Run
  <2>1. UNCHANGED <<pc, current, verdict>>
    BY <1>3 DEF Return
  <2>2. /\ op' \in [Screen -> Ops]
        /\ opRun' \in [Screen -> Run \cup {NoRun}]
        /\ seen' \in [Screen -> BOOLEAN]
        /\ left' \in [Screen -> SUBSET Table]
    BY <1>3 DEF ProcessTypeOK, Return, EndOp, Ops
  <2> QED BY <1>1, <2>1, <2>2 DEF ProcessTypeOK
<1> QED BY <1>2, <1>3

\* Types of the processes.
LEMMA ProcessTypeStep ==
  ASSUME TypeOK, Next
  PROVE  ProcessTypeOK'
<1> USE TableAssumption, RunAssumption, ScreenAssumption DEF TypeOK, ProcessTypeOK, PCs,
    Handling, Body, BeforeCommit,
        CheckPoints, AfterCommit, RecPCs, Ops, Terminal, Actor,
        EndOp, BeginOp, StartRec, EndRec, RecGoto, RecRun, Return, Goto, Exit, Raise,
        workerVars, recVars, uiVars, processVars
<1>1. ASSUME NEW r \in Run, WorkerStep(r) PROVE ProcessTypeOK'
  <2>1. CASE ClaimRun(r) BY <2>1 DEF ClaimRun
  <2>2. CASE ClaimRefused(r) BY <2>2 DEF ClaimRefused
  <2>3. CASE Preflight(r) BY <2>3 DEF Preflight
  <2>4. CASE ReuseFile(r) BY <2>4 DEF ReuseFile
  <2>5. CASE StartExtract(r) BY <2>5 DEF StartExtract
  <2>6. CASE EndExtract(r) BY <2>6 DEF EndExtract
  <2>7. CASE StartLoad(r) BY <2>7 DEF StartLoad
  <2>8. CASE EndLoad(r) BY <2>8 DEF EndLoad
  <2>9. CASE LastCheck(r) BY <2>9 DEF LastCheck
  <2>10. CASE EnterPublish(r) BY <2>10 DEF EnterPublish
  <2>11. CASE RequestLock(r) BY <2>11 DEF RequestLock
  <2>12. CASE LockGranted(r) BY <2>12 DEF LockGranted
  <2>13. CASE ReplaceTable(r) BY <2>13 DEF ReplaceTable
  <2>14. CASE Commit(r) BY <2>14 DEF Commit
  <2>15. CASE CommitAcknowledged(r) BY <2>15 DEF CommitAcknowledged
  <2>16. CASE MarkPublished(r) BY <2>16 DEF MarkPublished
  <2>17. CASE Succeed(r) BY <2>17 DEF Succeed
  <2>18. CASE Tidy(r) BY <2>18 DEF Tidy
  <2>19. CASE NoticeCancel(r) BY <2>19 DEF NoticeCancel
  <2>20. CASE BodyFails(r) BY <2>20 DEF BodyFails
  <2>21. CASE Handle(r)
    <3>1. CASE pending[r]
      <4>1. cancel[r] \in BOOLEAN BY DEF StoreTypeOK
      <4>2. /\ recPc' \in [Actor -> RecPCs]
            /\ recCancel' \in [Actor -> BOOLEAN]
            /\ recDone' \in [Actor -> 0..NT]
        BY <2>21, <3>1, <4>1 DEF Handle
      <4> QED BY <2>21, <3>1, <4>2 DEF Handle
    <3>2. CASE ~pending[r] BY <2>21, <3>2 DEF Handle
    <3> QED BY <3>1, <3>2
  <2>22. CASE SettleTable(r) BY <2>22 DEF SettleTable
  <2>23. CASE SettleRun(r) BY <2>23 DEF SettleRun
  <2>24. CASE SettleRest(r) BY <2>24 DEF SettleRest
  <2>25. CASE Finish(r) BY <2>25 DEF Finish
  <2>26. CASE StoreRaises(r) BY <2>26 DEF StoreRaises
  <2>27. CASE RecordInterrupted(r) BY <2>27 DEF RecordInterrupted
  <2> QED BY <1>1, <2>1, <2>2, <2>3, <2>4, <2>5, <2>6, <2>7, <2>8, <2>9, <2>10, <2>11,
      <2>12, <2>13, <2>14, <2>15, <2>16, <2>17, <2>18, <2>19, <2>20, <2>21, <2>22,
      <2>23, <2>24, <2>25, <2>26, <2>27 DEF WorkerStep
<1>2. ASSUME NEW r \in Run, ServerStep(r) PROVE ProcessTypeOK'
  <2>1. CASE ServerGrants(r) BY <2>1 DEF ServerGrants
  <2>2. CASE ServerCommits(r) BY <2>2 DEF ServerCommits
  <2>3. CASE ServerEnds(r) BY <2>3 DEF ServerEnds
  <2> QED BY <1>2, <2>1, <2>2, <2>3 DEF ServerStep
<1>3. ASSUME NEW r \in Run, Die(r) PROVE ProcessTypeOK'
  BY <1>3 DEF Die
<1>4. ASSUME NEW r \in Run, CancelRun(r) PROVE ProcessTypeOK'
  BY <1>4 DEF CancelRun
<1>5. ASSUME NEW a \in Actor, RecStep(a) PROVE ProcessTypeOK'
  <2>1. CASE RecLock(a) BY <2>1 DEF RecLock
  <2>2. CASE RecMarker(a) BY <2>2 DEF RecMarker
  <2>3. CASE RecTable(a) BY <2>3 DEF RecTable
  <2>4. CASE RecSuccess(a)
    BY <2>4, ReturnType DEF RecSuccess
  <2>5. CASE RecNotPublished(a)
    BY <2>5, ReturnType DEF RecNotPublished
  <2>6. CASE RecRaises(a)
    BY <2>6, ReturnType DEF RecRaises
  <2> QED BY <1>5, <2>1, <2>2, <2>3, <2>4, <2>5, <2>6 DEF RecStep
<1>6. ASSUME NEW a \in Actor, ServerEndsReconciler(a) PROVE ProcessTypeOK'
  BY <1>6 DEF ServerEndsReconciler
<1>7. ASSUME NEW u \in Screen, ScreenStep(u) PROVE ProcessTypeOK'
  <2>1. CASE Popen(u) BY <2>1 DEF Popen
  <2>2. CASE SendSecrets(u) BY <2>2 DEF SendSecrets
  <2>3. CASE StartFails(u) BY <2>3 DEF StartFails
  <2>4. CASE Interrupt(u) BY <2>4 DEF Interrupt
  <2>5. CASE ListTables(u) BY <2>5 DEF ListTables
  <2>6. CASE FailTable(u) BY <2>6 DEF FailTable
  <2>7. CASE Recovered(u) BY <2>7 DEF Recovered
  <2> QED BY <1>7, <2>1, <2>2, <2>3, <2>4, <2>5, <2>6, <2>7 DEF ScreenStep
<1>8. ASSUME NEW u \in Screen, NEW r \in Run, NEW p \in Run \cup {NoRun}, Start(u, r,
    p) PROVE ProcessTypeOK'
  BY <1>8 DEF Start
<1>9. ASSUME NEW u \in Screen, NEW r \in Run, Recover(u, r) PROVE ProcessTypeOK'
  BY <1>9 DEF Recover, StoreTypeOK
<1>10. ASSUME NEW u \in Screen, NEW r \in Run, ForceStop(u, r) PROVE ProcessTypeOK'
  BY <1>10 DEF ForceStop
<1>11. ASSUME NEW u \in Screen, NEW r \in Run, Reconcile(u, r) PROVE ProcessTypeOK'
  BY <1>11 DEF Reconcile, StoreTypeOK
<1>12. ASSUME NEW u \in Screen, ScreenDies(u) PROVE ProcessTypeOK'
  BY <1>12 DEF ScreenDies
<1> QED BY <1>1, <1>2, <1>3, <1>4, <1>5, <1>6, <1>7, <1>8, <1>9, <1>10, <1>11, <1>12
      DEF Next, ScreenBegins
-----------------------------------------------------------------------------
\* The row of a run.
LEMMA RowStep ==
  ASSUME IInv, Next, NEW q \in Run
  PROVE  RowInv(q)'
<1> USE TableAssumption, RunAssumption, ScreenAssumption, FullAssumption DEF IInv,
    RowInv, SessionInv, WorkerInv, RecInv, UiInv,
        TypeOK, StoreTypeOK, TargetTypeOK, ProcessTypeOK, Active, Terminal, UpdateState,
            UpdateStage, Resolve, Claim, Cancel, Queue, BeginPublish,
        Busy, AssertIdle, Current, storeVars,
        AskLock, GrantLock, ReplaceNext, SendCommit, ExecuteCommit, EndSession, TakeLock,
        EndReconciler, targetVars, Publisher, Reconciler, Free,
        Unclaimed, BeforePublish, Alive, Owned, Body, BeforeCommit, CheckPoints,
            AfterCommit,
        EndOp, BeginOp, StartRec, EndRec, RecGoto, RecRun, Return, Goto, Exit, Raise,
        Actor, workerVars, recVars, uiVars, processVars
<1>1. ASSUME NEW r \in Run, WorkerStep(r) PROVE RowInv(q)'
  <2>1. CASE ClaimRun(r) BY <2>1 DEF ClaimRun
  <2>2. CASE ClaimRefused(r) BY <2>2 DEF ClaimRefused
  <2>3. CASE Preflight(r) BY <2>3 DEF Preflight
  <2>4. CASE ReuseFile(r) BY <2>4 DEF ReuseFile
  <2>5. CASE StartExtract(r) BY <2>5 DEF StartExtract
  <2>6. CASE EndExtract(r) BY <2>6 DEF EndExtract
  <2>7. CASE StartLoad(r) BY <2>7 DEF StartLoad
  <2>8. CASE EndLoad(r) BY <2>8 DEF EndLoad
  <2>9. CASE LastCheck(r) BY <2>9 DEF LastCheck
  <2>10. CASE EnterPublish(r) BY <2>10 DEF EnterPublish
  <2>11. CASE RequestLock(r) BY <2>11 DEF RequestLock
  <2>12. CASE LockGranted(r) BY <2>12 DEF LockGranted
  <2>13. CASE ReplaceTable(r) BY <2>13 DEF ReplaceTable
  <2>14. CASE Commit(r) BY <2>14 DEF Commit
  <2>15. CASE CommitAcknowledged(r) BY <2>15 DEF CommitAcknowledged
  <2>16. CASE MarkPublished(r) BY <2>16 DEF MarkPublished
  <2>17. CASE Succeed(r) BY <2>17 DEF Succeed
  <2>18. CASE Tidy(r) BY <2>18 DEF Tidy
  <2>19. CASE NoticeCancel(r) BY <2>19 DEF NoticeCancel
  <2>20. CASE BodyFails(r) BY <2>20 DEF BodyFails
  <2>21. CASE Handle(r) BY <2>21 DEF Handle
  <2>22. CASE SettleTable(r) BY <2>22 DEF SettleTable
  <2>23. CASE SettleRun(r)
    <3>1. CASE q = r
      <4>1. /\ pc[r] = "settleRun" /\ pc'[r] = "settleRest"
            /\ state'[r] = verdict[r] /\ verdict[r] \in Terminal
        BY <2>23 DEF SettleRun
      <4>2. UNCHANGED <<claimed, pending, session, marker>>
        BY <2>23 DEF SettleRun
      <4>3. /\ claimed[r]
            /\ verdict[r] = "SUCCESS" <=> state[r] = "SUCCESS"
        BY <4>1
      <4> QED BY <3>1, <4>1, <4>2, <4>3
    <3>2. CASE q # r BY <2>23, <3>2 DEF SettleRun
    <3> QED BY <3>1, <3>2
  <2>24. CASE SettleRest(r) BY <2>24 DEF SettleRest
  <2>25. CASE Finish(r) BY <2>25 DEF Finish
  <2>26. CASE StoreRaises(r) BY <2>26 DEF StoreRaises
  <2>27. CASE RecordInterrupted(r) BY <2>27 DEF RecordInterrupted
  <2> QED BY <1>1, <2>1, <2>2, <2>3, <2>4, <2>5, <2>6, <2>7, <2>8, <2>9, <2>10, <2>11,
      <2>12, <2>13, <2>14, <2>15, <2>16, <2>17, <2>18, <2>19, <2>20, <2>21, <2>22,
      <2>23, <2>24, <2>25, <2>26, <2>27 DEF WorkerStep
<1>2. ASSUME NEW r \in Run, ServerStep(r) PROVE RowInv(q)'
  <2>1. CASE ServerGrants(r) BY <2>1 DEF ServerGrants
  <2>2. CASE ServerCommits(r) BY <2>2 DEF ServerCommits
  <2>3. CASE ServerEnds(r) BY <2>3 DEF ServerEnds
  <2> QED BY <1>2, <2>1, <2>2, <2>3 DEF ServerStep
<1>3. ASSUME NEW r \in Run, Die(r) PROVE RowInv(q)'
  BY <1>3 DEF Die
<1>4. ASSUME NEW r \in Run, CancelRun(r) PROVE RowInv(q)'
  BY <1>4 DEF CancelRun
<1>5. ASSUME NEW a \in Actor, RecStep(a) PROVE RowInv(q)'
  <2>1. CASE RecLock(a) BY <2>1 DEF RecLock
  <2>2. CASE RecMarker(a) BY <2>2 DEF RecMarker
  <2>3. CASE RecTable(a) BY <2>3 DEF RecTable
  <2>4. CASE RecSuccess(a) BY <2>4 DEF RecSuccess
  <2>5. CASE RecNotPublished(a) BY <2>5 DEF RecNotPublished
  <2>6. CASE RecRaises(a) BY <2>6 DEF RecRaises
  <2> QED BY <1>5, <2>1, <2>2, <2>3, <2>4, <2>5, <2>6 DEF RecStep
<1>6. ASSUME NEW a \in Actor, ServerEndsReconciler(a) PROVE RowInv(q)'
  BY <1>6 DEF ServerEndsReconciler
<1>7. ASSUME NEW u \in Screen, ScreenStep(u) PROVE RowInv(q)'
  <2>1. CASE Popen(u) BY <2>1 DEF Popen
  <2>2. CASE SendSecrets(u) BY <2>2 DEF SendSecrets
  <2>3. CASE StartFails(u) BY <2>3 DEF StartFails
  <2>4. CASE Interrupt(u) BY <2>4 DEF Interrupt
  <2>5. CASE ListTables(u) BY <2>5 DEF ListTables
  <2>6. CASE FailTable(u) BY <2>6 DEF FailTable
  <2>7. CASE Recovered(u) BY <2>7 DEF Recovered
  <2> QED BY <1>7, <2>1, <2>2, <2>3, <2>4, <2>5, <2>6, <2>7 DEF ScreenStep
<1>8. ASSUME NEW u \in Screen, NEW r \in Run, NEW p \in Run \cup {NoRun}, Start(u, r,
    p) PROVE RowInv(q)'
  BY <1>8 DEF Start
<1>9. ASSUME NEW u \in Screen, NEW r \in Run, Recover(u, r) PROVE RowInv(q)'
  BY <1>9 DEF Recover
<1>10. ASSUME NEW u \in Screen, NEW r \in Run, ForceStop(u, r) PROVE RowInv(q)'
  BY <1>10 DEF ForceStop
<1>11. ASSUME NEW u \in Screen, NEW r \in Run, Reconcile(u, r) PROVE RowInv(q)'
  BY <1>11 DEF Reconcile
<1>12. ASSUME NEW u \in Screen, ScreenDies(u) PROVE RowInv(q)'
  BY <1>12 DEF ScreenDies
<1> QED BY <1>1, <1>2, <1>3, <1>4, <1>5, <1>6, <1>7, <1>8, <1>9, <1>10, <1>11, <1>12
      DEF Next, ScreenBegins

\* What a worker may rely on at each label.
LEMMA WorkerStepInv ==
  ASSUME IInv, Next, NEW q \in Run
  PROVE  WorkerInv(q)'
<1> USE TableAssumption, RunAssumption, ScreenAssumption, FullAssumption DEF IInv,
    RowInv, SessionInv, WorkerInv, RecInv, UiInv,
        TypeOK, StoreTypeOK, TargetTypeOK, ProcessTypeOK, Active, Terminal, UpdateState,
            UpdateStage, Resolve, Claim, Cancel, Queue, BeginPublish,
        Busy, AssertIdle, Current, storeVars,
        AskLock, GrantLock, ReplaceNext, SendCommit, ExecuteCommit, EndSession, TakeLock,
        EndReconciler, targetVars, Publisher, Reconciler, Free,
        Unclaimed, BeforePublish, Alive, Owned, Body, BeforeCommit, CheckPoints,
            AfterCommit,
        EndOp, BeginOp, StartRec, EndRec, RecGoto, RecRun, Return, Goto, Exit, Raise,
        Actor, workerVars, recVars, uiVars, processVars
<1>1. ASSUME NEW r \in Run, WorkerStep(r) PROVE WorkerInv(q)'
  <2>1. CASE ClaimRun(r) BY <2>1 DEF ClaimRun
  <2>2. CASE ClaimRefused(r) BY <2>2 DEF ClaimRefused
  <2>3. CASE Preflight(r) BY <2>3 DEF Preflight
  <2>4. CASE ReuseFile(r) BY <2>4 DEF ReuseFile
  <2>5. CASE StartExtract(r) BY <2>5 DEF StartExtract
  <2>6. CASE EndExtract(r) BY <2>6 DEF EndExtract
  <2>7. CASE StartLoad(r) BY <2>7 DEF StartLoad
  <2>8. CASE EndLoad(r) BY <2>8 DEF EndLoad
  <2>9. CASE LastCheck(r) BY <2>9 DEF LastCheck
  <2>10. CASE EnterPublish(r) BY <2>10 DEF EnterPublish
  <2>11. CASE RequestLock(r) BY <2>11 DEF RequestLock
  <2>12. CASE LockGranted(r) BY <2>12 DEF LockGranted
  <2>13. CASE ReplaceTable(r) BY <2>13 DEF ReplaceTable
  <2>14. CASE Commit(r) BY <2>14 DEF Commit
  <2>15. CASE CommitAcknowledged(r) BY <2>15 DEF CommitAcknowledged
  <2>16. CASE MarkPublished(r) BY <2>16 DEF MarkPublished
  <2>17. CASE Succeed(r) BY <2>17 DEF Succeed
  <2>18. CASE Tidy(r) BY <2>18 DEF Tidy
  <2>19. CASE NoticeCancel(r) BY <2>19 DEF NoticeCancel
  <2>20. CASE BodyFails(r) BY <2>20 DEF BodyFails
  <2>21. CASE Handle(r)
    <3>1. CASE q = r
      <4>1. UNCHANGED <<state, verdict, claimed, pending, session, marker>>
        BY <2>21 DEF Handle
      <4>2. pc[r] = "handle" /\ pc'[r] \in {"reconcile", "settle"}
        BY <2>21 DEF Handle
      <4>3. pc'[r] = "settle" => ~pending[r]
        BY <2>21 DEF Handle
      <4> QED BY <3>1, <4>1, <4>2, <4>3
    <3>2. CASE q # r BY <2>21, <3>2 DEF Handle
    <3> QED BY <3>1, <3>2
  <2>22. CASE SettleTable(r) BY <2>22 DEF SettleTable
  <2>23. CASE SettleRun(r) BY <2>23 DEF SettleRun
  <2>24. CASE SettleRest(r) BY <2>24 DEF SettleRest
  <2>25. CASE Finish(r) BY <2>25 DEF Finish
  <2>26. CASE StoreRaises(r) BY <2>26 DEF StoreRaises
  <2>27. CASE RecordInterrupted(r) BY <2>27 DEF RecordInterrupted
  <2> QED BY <1>1, <2>1, <2>2, <2>3, <2>4, <2>5, <2>6, <2>7, <2>8, <2>9, <2>10, <2>11,
      <2>12, <2>13, <2>14, <2>15, <2>16, <2>17, <2>18, <2>19, <2>20, <2>21, <2>22,
      <2>23, <2>24, <2>25, <2>26, <2>27 DEF WorkerStep
<1>2. ASSUME NEW r \in Run, ServerStep(r) PROVE WorkerInv(q)'
  <2>1. CASE ServerGrants(r) BY <2>1 DEF ServerGrants
  <2>2. CASE ServerCommits(r) BY <2>2 DEF ServerCommits
  <2>3. CASE ServerEnds(r) BY <2>3 DEF ServerEnds
  <2> QED BY <1>2, <2>1, <2>2, <2>3 DEF ServerStep
<1>3. ASSUME NEW r \in Run, Die(r) PROVE WorkerInv(q)'
  BY <1>3 DEF Die
<1>4. ASSUME NEW r \in Run, CancelRun(r) PROVE WorkerInv(q)'
  BY <1>4 DEF CancelRun
<1>5. ASSUME NEW a \in Actor, RecStep(a) PROVE WorkerInv(q)'
  <2>1. CASE RecLock(a) BY <2>1 DEF RecLock
  <2>2. CASE RecMarker(a) BY <2>2 DEF RecMarker
  <2>3. CASE RecTable(a) BY <2>3 DEF RecTable
  <2>4. CASE RecSuccess(a) BY <2>4 DEF RecSuccess
  <2>5. CASE RecNotPublished(a) BY <2>5 DEF RecNotPublished
  <2>6. CASE RecRaises(a) BY <2>6 DEF RecRaises
  <2> QED BY <1>5, <2>1, <2>2, <2>3, <2>4, <2>5, <2>6 DEF RecStep
<1>6. ASSUME NEW a \in Actor, ServerEndsReconciler(a) PROVE WorkerInv(q)'
  BY <1>6 DEF ServerEndsReconciler
<1>7. ASSUME NEW u \in Screen, ScreenStep(u) PROVE WorkerInv(q)'
  <2>1. CASE Popen(u) BY <2>1 DEF Popen
  <2>2. CASE SendSecrets(u) BY <2>2 DEF SendSecrets
  <2>3. CASE StartFails(u) BY <2>3 DEF StartFails
  <2>4. CASE Interrupt(u) BY <2>4 DEF Interrupt
  <2>5. CASE ListTables(u) BY <2>5 DEF ListTables
  <2>6. CASE FailTable(u) BY <2>6 DEF FailTable
  <2>7. CASE Recovered(u) BY <2>7 DEF Recovered
  <2> QED BY <1>7, <2>1, <2>2, <2>3, <2>4, <2>5, <2>6, <2>7 DEF ScreenStep
<1>8. ASSUME NEW u \in Screen, NEW r \in Run, NEW p \in Run \cup {NoRun}, Start(u, r,
    p) PROVE WorkerInv(q)'
  BY <1>8 DEF Start
<1>9. ASSUME NEW u \in Screen, NEW r \in Run, Recover(u, r) PROVE WorkerInv(q)'
  BY <1>9 DEF Recover
<1>10. ASSUME NEW u \in Screen, NEW r \in Run, ForceStop(u, r) PROVE WorkerInv(q)'
  BY <1>10 DEF ForceStop
<1>11. ASSUME NEW u \in Screen, NEW r \in Run, Reconcile(u, r) PROVE WorkerInv(q)'
  BY <1>11 DEF Reconcile
<1>12. ASSUME NEW u \in Screen, ScreenDies(u) PROVE WorkerInv(q)'
  BY <1>12 DEF ScreenDies
<1> QED BY <1>1, <1>2, <1>3, <1>4, <1>5, <1>6, <1>7, <1>8, <1>9, <1>10, <1>11, <1>12
      DEF Next, ScreenBegins

\* Calls of reconcile: what was read under the lock stays true.
LEMMA RecStepInv ==
  ASSUME IInv, Next, NEW b \in Actor
  PROVE  RecInv(b)'
<1> USE TableAssumption, RunAssumption, ScreenAssumption, FullAssumption DEF IInv,
    RowInv, SessionInv, WorkerInv, RecInv, UiInv,
        TypeOK, StoreTypeOK, TargetTypeOK, ProcessTypeOK, Active, Terminal, UpdateState,
            UpdateStage, Resolve, Claim, Cancel, Queue, BeginPublish,
        Busy, AssertIdle, Current, storeVars,
        AskLock, GrantLock, ReplaceNext, SendCommit, ExecuteCommit, EndSession, TakeLock,
        EndReconciler, targetVars, Publisher, Reconciler, Free,
        Unclaimed, BeforePublish, Alive, Owned, Body, BeforeCommit, CheckPoints,
            AfterCommit,
        EndOp, BeginOp, StartRec, EndRec, RecGoto, RecRun, Return, Goto, Exit, Raise,
        Actor, workerVars, recVars, uiVars, processVars
<1>1. ASSUME NEW r \in Run, WorkerStep(r) PROVE RecInv(b)'
  <2>1. CASE ClaimRun(r) BY <2>1 DEF ClaimRun
  <2>2. CASE ClaimRefused(r) BY <2>2 DEF ClaimRefused
  <2>3. CASE Preflight(r) BY <2>3 DEF Preflight
  <2>4. CASE ReuseFile(r) BY <2>4 DEF ReuseFile
  <2>5. CASE StartExtract(r) BY <2>5 DEF StartExtract
  <2>6. CASE EndExtract(r) BY <2>6 DEF EndExtract
  <2>7. CASE StartLoad(r) BY <2>7 DEF StartLoad
  <2>8. CASE EndLoad(r) BY <2>8 DEF EndLoad
  <2>9. CASE LastCheck(r) BY <2>9 DEF LastCheck
  <2>10. CASE EnterPublish(r) BY <2>10 DEF EnterPublish
  <2>11. CASE RequestLock(r) BY <2>11 DEF RequestLock
  <2>12. CASE LockGranted(r) BY <2>12 DEF LockGranted
  <2>13. CASE ReplaceTable(r) BY <2>13 DEF ReplaceTable
  <2>14. CASE Commit(r) BY <2>14 DEF Commit
  <2>15. CASE CommitAcknowledged(r) BY <2>15 DEF CommitAcknowledged
  <2>16. CASE MarkPublished(r) BY <2>16 DEF MarkPublished
  <2>17. CASE Succeed(r) BY <2>17 DEF Succeed
  <2>18. CASE Tidy(r) BY <2>18 DEF Tidy
  <2>19. CASE NoticeCancel(r) BY <2>19 DEF NoticeCancel
  <2>20. CASE BodyFails(r) BY <2>20 DEF BodyFails
  <2>21. CASE Handle(r) BY <2>21 DEF Handle
  <2>22. CASE SettleTable(r) BY <2>22 DEF SettleTable
  <2>23. CASE SettleRun(r) BY <2>23 DEF SettleRun
  <2>24. CASE SettleRest(r) BY <2>24 DEF SettleRest
  <2>25. CASE Finish(r) BY <2>25 DEF Finish
  <2>26. CASE StoreRaises(r) BY <2>26 DEF StoreRaises
  <2>27. CASE RecordInterrupted(r) BY <2>27 DEF RecordInterrupted
  <2> QED BY <1>1, <2>1, <2>2, <2>3, <2>4, <2>5, <2>6, <2>7, <2>8, <2>9, <2>10, <2>11,
      <2>12, <2>13, <2>14, <2>15, <2>16, <2>17, <2>18, <2>19, <2>20, <2>21, <2>22,
      <2>23, <2>24, <2>25, <2>26, <2>27 DEF WorkerStep
<1>2. ASSUME NEW r \in Run, ServerStep(r) PROVE RecInv(b)'
  <2>1. CASE ServerGrants(r) BY <2>1 DEF ServerGrants
  <2>2. CASE ServerCommits(r) BY <2>2 DEF ServerCommits
  <2>3. CASE ServerEnds(r) BY <2>3 DEF ServerEnds
  <2> QED BY <1>2, <2>1, <2>2, <2>3 DEF ServerStep
<1>3. ASSUME NEW r \in Run, Die(r) PROVE RecInv(b)'
  BY <1>3 DEF Die
<1>4. ASSUME NEW r \in Run, CancelRun(r) PROVE RecInv(b)'
  BY <1>4 DEF CancelRun
<1>5. ASSUME NEW a \in Actor, RecStep(a) PROVE RecInv(b)'
  <2>1. CASE RecLock(a) BY <2>1 DEF RecLock
  <2>2. CASE RecMarker(a) BY <2>2 DEF RecMarker
  <2>3. CASE RecTable(a) BY <2>3 DEF RecTable
  <2>4. CASE RecSuccess(a) BY <2>4 DEF RecSuccess
  <2>5. CASE RecNotPublished(a) BY <2>5 DEF RecNotPublished
  <2>6. CASE RecRaises(a) BY <2>6 DEF RecRaises
  <2> QED BY <1>5, <2>1, <2>2, <2>3, <2>4, <2>5, <2>6 DEF RecStep
<1>6. ASSUME NEW a \in Actor, ServerEndsReconciler(a) PROVE RecInv(b)'
  BY <1>6 DEF ServerEndsReconciler
<1>7. ASSUME NEW u \in Screen, ScreenStep(u) PROVE RecInv(b)'
  <2>1. CASE Popen(u) BY <2>1 DEF Popen
  <2>2. CASE SendSecrets(u) BY <2>2 DEF SendSecrets
  <2>3. CASE StartFails(u) BY <2>3 DEF StartFails
  <2>4. CASE Interrupt(u) BY <2>4 DEF Interrupt
  <2>5. CASE ListTables(u) BY <2>5 DEF ListTables
  <2>6. CASE FailTable(u) BY <2>6 DEF FailTable
  <2>7. CASE Recovered(u) BY <2>7 DEF Recovered
  <2> QED BY <1>7, <2>1, <2>2, <2>3, <2>4, <2>5, <2>6, <2>7 DEF ScreenStep
<1>8. ASSUME NEW u \in Screen, NEW r \in Run, NEW p \in Run \cup {NoRun}, Start(u, r,
    p) PROVE RecInv(b)'
  BY <1>8 DEF Start
<1>9. ASSUME NEW u \in Screen, NEW r \in Run, Recover(u, r) PROVE RecInv(b)'
  BY <1>9 DEF Recover
<1>10. ASSUME NEW u \in Screen, NEW r \in Run, ForceStop(u, r) PROVE RecInv(b)'
  BY <1>10 DEF ForceStop
<1>11. ASSUME NEW u \in Screen, NEW r \in Run, Reconcile(u, r) PROVE RecInv(b)'
  BY <1>11 DEF Reconcile
<1>12. ASSUME NEW u \in Screen, ScreenDies(u) PROVE RecInv(b)'
  BY <1>12 DEF ScreenDies
<1> QED BY <1>1, <1>2, <1>3, <1>4, <1>5, <1>6, <1>7, <1>8, <1>9, <1>10, <1>11, <1>12
      DEF Next, ScreenBegins

\* A call of reconcile that ends leaves the other screens as they are.
LEMMA ReturnUi ==
  ASSUME IInv, NEW v \in Screen, NEW a \in Actor, NEW w, recPc[a] # "off", Return(a, w),
         UNCHANGED claimed, \A q \in Run : state[q] # "ABSENT" => state'[q] # "ABSENT"
  PROVE  UiInv(v)'
<1> USE DEF IInv, TypeOK, ProcessTypeOK, UiInv
<1>1. CASE a \in Run
  <2>1. pc[a] = "reconcile" /\ pc' = [pc EXCEPT ![a] = "settle"]
    BY <1>1 DEF RecInv, Return, Goto
  <2>2. UNCHANGED <<op, opRun, seen>>
    BY <1>1 DEF Return, uiVars
  <2> QED BY <2>1, <2>2
<1>2. CASE a \notin Run
  <2>1. UNCHANGED pc
    BY <1>2 DEF Return
  <2>2. /\ op' = [op EXCEPT ![a] = "idle"]
        /\ opRun' = [opRun EXCEPT ![a] = NoRun]
        /\ seen' = [seen EXCEPT ![a] = FALSE]
    BY <1>2 DEF Return, EndOp
  <2>3. CASE v = a
    <3>1. op'[v] = "idle"
      BY <2>2, <2>3
    <3> QED BY <3>1
  <2>4. CASE v # a
    <3>1. op'[v] = op[v] /\ opRun'[v] = opRun[v] /\ seen'[v] = seen[v]
      BY <2>2, <2>4
    <3> QED BY <2>1, <3>1
  <2> QED BY <2>3, <2>4
<1> QED BY <1>1, <1>2
\* A screen between two steps.
LEMMA UiStepInv ==
  ASSUME IInv, Next, NEW v \in Screen
  PROVE  UiInv(v)'
<1> USE TableAssumption, RunAssumption, ScreenAssumption, FullAssumption DEF IInv,
    RowInv, SessionInv, WorkerInv, RecInv, UiInv,
        TypeOK, StoreTypeOK, TargetTypeOK, ProcessTypeOK, Active, Terminal, UpdateState,
            UpdateStage, Resolve, Claim, Cancel, Queue, BeginPublish,
        Busy, AssertIdle, Current, storeVars,
        AskLock, GrantLock, ReplaceNext, SendCommit, ExecuteCommit, EndSession, TakeLock,
        EndReconciler, targetVars, Publisher, Reconciler, Free,
        Unclaimed, BeforePublish, Alive, Owned, Body, BeforeCommit, CheckPoints,
            AfterCommit,
        EndOp, BeginOp, StartRec, EndRec, RecGoto, RecRun, Return, Goto, Exit, Raise,
        Actor, workerVars, recVars, uiVars, processVars
<1>1. ASSUME NEW r \in Run, WorkerStep(r) PROVE UiInv(v)'
  <2>1. CASE ClaimRun(r) BY <2>1 DEF ClaimRun
  <2>2. CASE ClaimRefused(r) BY <2>2 DEF ClaimRefused
  <2>3. CASE Preflight(r) BY <2>3 DEF Preflight
  <2>4. CASE ReuseFile(r) BY <2>4 DEF ReuseFile
  <2>5. CASE StartExtract(r) BY <2>5 DEF StartExtract
  <2>6. CASE EndExtract(r) BY <2>6 DEF EndExtract
  <2>7. CASE StartLoad(r) BY <2>7 DEF StartLoad
  <2>8. CASE EndLoad(r) BY <2>8 DEF EndLoad
  <2>9. CASE LastCheck(r) BY <2>9 DEF LastCheck
  <2>10. CASE EnterPublish(r) BY <2>10 DEF EnterPublish
  <2>11. CASE RequestLock(r) BY <2>11 DEF RequestLock
  <2>12. CASE LockGranted(r) BY <2>12 DEF LockGranted
  <2>13. CASE ReplaceTable(r) BY <2>13 DEF ReplaceTable
  <2>14. CASE Commit(r) BY <2>14 DEF Commit
  <2>15. CASE CommitAcknowledged(r) BY <2>15 DEF CommitAcknowledged
  <2>16. CASE MarkPublished(r) BY <2>16 DEF MarkPublished
  <2>17. CASE Succeed(r) BY <2>17 DEF Succeed
  <2>18. CASE Tidy(r) BY <2>18 DEF Tidy
  <2>19. CASE NoticeCancel(r) BY <2>19 DEF NoticeCancel
  <2>20. CASE BodyFails(r) BY <2>20 DEF BodyFails
  <2>21. CASE Handle(r) BY <2>21 DEF Handle
  <2>22. CASE SettleTable(r) BY <2>22 DEF SettleTable
  <2>23. CASE SettleRun(r)
    <3>1. verdict[r] \in Terminal OBVIOUS
    <3>2. UNCHANGED <<claimed, pc[opRun[v]], op, opRun,
        seen>> \/ opRun[v] = r BY <2>23 DEF SettleRun
    <3> QED BY <2>23, <3>1, <3>2 DEF SettleRun
  <2>24. CASE SettleRest(r) BY <2>24 DEF SettleRest
  <2>25. CASE Finish(r) BY <2>25 DEF Finish
  <2>26. CASE StoreRaises(r) BY <2>26 DEF StoreRaises
  <2>27. CASE RecordInterrupted(r) BY <2>27 DEF RecordInterrupted
  <2> QED BY <1>1, <2>1, <2>2, <2>3, <2>4, <2>5, <2>6, <2>7, <2>8, <2>9, <2>10, <2>11,
      <2>12, <2>13, <2>14, <2>15, <2>16, <2>17, <2>18, <2>19, <2>20, <2>21, <2>22,
      <2>23, <2>24, <2>25, <2>26, <2>27 DEF WorkerStep
<1>2. ASSUME NEW r \in Run, ServerStep(r) PROVE UiInv(v)'
  <2>1. CASE ServerGrants(r) BY <2>1 DEF ServerGrants
  <2>2. CASE ServerCommits(r) BY <2>2 DEF ServerCommits
  <2>3. CASE ServerEnds(r) BY <2>3 DEF ServerEnds
  <2> QED BY <1>2, <2>1, <2>2, <2>3 DEF ServerStep
<1>3. ASSUME NEW r \in Run, Die(r) PROVE UiInv(v)'
  BY <1>3 DEF Die
<1>4. ASSUME NEW r \in Run, CancelRun(r) PROVE UiInv(v)'
  BY <1>4 DEF CancelRun
<1>5. ASSUME NEW a \in Actor, RecStep(a) PROVE UiInv(v)'
  <2>1. CASE RecLock(a) BY <2>1 DEF RecLock
  <2>2. CASE RecMarker(a) BY <2>2 DEF RecMarker
  <2>3. CASE RecTable(a) BY <2>3 DEF RecTable
  <2>4. CASE RecSuccess(a)
    <3>1. /\ UNCHANGED claimed
          /\ \A s \in Run : state[s] # "ABSENT" => state'[s] # "ABSENT"
      BY <2>4 DEF RecSuccess
    <3> HIDE DEF IInv, UiInv, Return
    <3>2. recPc[a] # "off" /\ Return(a, "SUCCESS")
      BY <2>4 DEF RecSuccess
    <3> QED BY <3>1, <3>2, ReturnUi
  <2>5. CASE RecNotPublished(a)
    <3>1. /\ UNCHANGED claimed
          /\ \A s \in Run : state[s] # "ABSENT" => state'[s] # "ABSENT"
      BY <2>5 DEF RecNotPublished
    <3> HIDE DEF IInv, UiInv, Return
    <3>2. recPc[a] # "off" /\ Return(a, IF recCancel[a] THEN "CANCELLED" ELSE "INTERRUPTED")
      BY <2>5 DEF RecNotPublished
    <3> QED BY <3>1, <3>2, ReturnUi
  <2>6. CASE RecRaises(a)
    <3>1. /\ UNCHANGED claimed
          /\ \A s \in Run : state[s] # "ABSENT" => state'[s] # "ABSENT"
      BY <2>6 DEF RecRaises
    <3> HIDE DEF IInv, UiInv, Return
    <3>2. recPc[a] # "off" /\ Return(a, "INTERRUPTED")
      BY <2>6 DEF RecRaises
    <3> QED BY <3>1, <3>2, ReturnUi
  <2> QED BY <1>5, <2>1, <2>2, <2>3, <2>4, <2>5, <2>6 DEF RecStep
<1>6. ASSUME NEW a \in Actor, ServerEndsReconciler(a) PROVE UiInv(v)'
  BY <1>6 DEF ServerEndsReconciler
<1>7. ASSUME NEW u \in Screen, ScreenStep(u) PROVE UiInv(v)'
  <2>1. CASE Popen(u)
    BY <2>1 DEF Popen, OneStarter, Starting
  <2>2. CASE SendSecrets(u)
    BY <2>2 DEF SendSecrets, OneStarter, Starting
  <2>3. CASE StartFails(u)
    BY <2>3 DEF StartFails, OneStarter, Starting
  <2>4. CASE Interrupt(u) BY <2>4 DEF Interrupt
  <2>5. CASE ListTables(u) BY <2>5 DEF ListTables
  <2>6. CASE FailTable(u) BY <2>6 DEF FailTable
  <2>7. CASE Recovered(u) BY <2>7 DEF Recovered
  <2> QED BY <1>7, <2>1, <2>2, <2>3, <2>4, <2>5, <2>6, <2>7 DEF ScreenStep
<1>8. ASSUME NEW u \in Screen, NEW r \in Run, NEW p \in Run \cup {NoRun}, Start(u, r,
    p) PROVE UiInv(v)'
  BY <1>8 DEF Start
<1>9. ASSUME NEW u \in Screen, NEW r \in Run, Recover(u, r) PROVE UiInv(v)'
  BY <1>9 DEF Recover
<1>10. ASSUME NEW u \in Screen, NEW r \in Run, ForceStop(u, r) PROVE UiInv(v)'
  BY <1>10 DEF ForceStop
<1>11. ASSUME NEW u \in Screen, NEW r \in Run, Reconcile(u, r) PROVE UiInv(v)'
  BY <1>11 DEF Reconcile
<1>12. ASSUME NEW u \in Screen, ScreenDies(u) PROVE UiInv(v)'
  BY <1>12 DEF ScreenDies
<1> QED BY <1>1, <1>2, <1>3, <1>4, <1>5, <1>6, <1>7, <1>8, <1>9, <1>10, <1>11, <1>12
      DEF Next, ScreenBegins
-----------------------------------------------------------------------------
\* A final verdict stays, unless clean-up code of a worker raises.
LEMMA FinalStep ==
  ASSUME IInv, Next, ~StoreFaults, NEW q \in Run, Final(q)
  PROVE  Final(q)' /\ (state[q] = "SUCCESS" <=> state'[q] = "SUCCESS")
<1> DEFINE Kept == Final(q)' /\ (state[q] = "SUCCESS" <=> state'[q] = "SUCCESS")
<1> SUFFICES Kept OBVIOUS
<1> USE TableAssumption, RunAssumption, ScreenAssumption, FullAssumption DEF IInv,
    RowInv, SessionInv, WorkerInv, RecInv, UiInv, Final,
        TypeOK, StoreTypeOK, TargetTypeOK, ProcessTypeOK, Active, Terminal, UpdateState,
            UpdateStage, Resolve, Claim, Cancel, Queue, BeginPublish,
        Busy, AssertIdle, Current, storeVars,
        AskLock, GrantLock, ReplaceNext, SendCommit, ExecuteCommit, EndSession, TakeLock,
        EndReconciler, targetVars, Publisher, Reconciler, Free,
        Unclaimed, BeforePublish, Alive, Owned, Body, BeforeCommit, CheckPoints,
            AfterCommit,
        EndOp, BeginOp, StartRec, EndRec, RecGoto, RecRun, Return, Goto, Exit, Raise,
        Actor, workerVars, recVars, uiVars, processVars
<1>1. ASSUME NEW r \in Run, WorkerStep(r) PROVE Kept
  <2>1. CASE ClaimRun(r) BY <2>1 DEF ClaimRun
  <2>2. CASE ClaimRefused(r) BY <2>2 DEF ClaimRefused
  <2>3. CASE Preflight(r) BY <2>3 DEF Preflight
  <2>4. CASE ReuseFile(r) BY <2>4 DEF ReuseFile
  <2>5. CASE StartExtract(r) BY <2>5 DEF StartExtract
  <2>6. CASE EndExtract(r) BY <2>6 DEF EndExtract
  <2>7. CASE StartLoad(r) BY <2>7 DEF StartLoad
  <2>8. CASE EndLoad(r) BY <2>8 DEF EndLoad
  <2>9. CASE LastCheck(r) BY <2>9 DEF LastCheck
  <2>10. CASE EnterPublish(r)
    <3>1. CASE q = r BY <2>10, <3>1 DEF EnterPublish
    <3>2. CASE q # r BY <2>10, <3>2 DEF EnterPublish
    <3> QED BY <3>1, <3>2
  <2>11. CASE RequestLock(r) BY <2>11 DEF RequestLock
  <2>12. CASE LockGranted(r) BY <2>12 DEF LockGranted
  <2>13. CASE ReplaceTable(r) BY <2>13 DEF ReplaceTable
  <2>14. CASE Commit(r) BY <2>14 DEF Commit
  <2>15. CASE CommitAcknowledged(r) BY <2>15 DEF CommitAcknowledged
  <2>16. CASE MarkPublished(r) BY <2>16 DEF MarkPublished
  <2>17. CASE Succeed(r)
    <3>1. CASE q = r BY <2>17, <3>1 DEF Succeed
    <3>2. CASE q # r BY <2>17, <3>2 DEF Succeed
    <3> QED BY <3>1, <3>2
  <2>18. CASE Tidy(r) BY <2>18 DEF Tidy
  <2>19. CASE NoticeCancel(r) BY <2>19 DEF NoticeCancel
  <2>20. CASE BodyFails(r) BY <2>20 DEF BodyFails
  <2>21. CASE Handle(r) BY <2>21 DEF Handle
  <2>22. CASE SettleTable(r) BY <2>22 DEF SettleTable
  <2>23. CASE SettleRun(r) BY <2>23 DEF SettleRun
  <2>24. CASE SettleRest(r) BY <2>24 DEF SettleRest
  <2>25. CASE Finish(r) BY <2>25 DEF Finish
  <2>26. CASE StoreRaises(r) BY <2>26 DEF StoreRaises
  <2>27. CASE RecordInterrupted(r) BY <2>27 DEF RecordInterrupted
  <2> QED BY <1>1, <2>1, <2>2, <2>3, <2>4, <2>5, <2>6, <2>7, <2>8, <2>9, <2>10, <2>11,
      <2>12, <2>13, <2>14, <2>15, <2>16, <2>17, <2>18, <2>19, <2>20, <2>21, <2>22,
      <2>23, <2>24, <2>25, <2>26, <2>27 DEF WorkerStep
<1>2. ASSUME NEW r \in Run, ServerStep(r) PROVE Kept
  <2>1. CASE ServerGrants(r) BY <2>1 DEF ServerGrants
  <2>2. CASE ServerCommits(r) BY <2>2 DEF ServerCommits
  <2>3. CASE ServerEnds(r) BY <2>3 DEF ServerEnds
  <2> QED BY <1>2, <2>1, <2>2, <2>3 DEF ServerStep
<1>3. ASSUME NEW r \in Run, Die(r) PROVE Kept
  BY <1>3 DEF Die
<1>4. ASSUME NEW r \in Run, CancelRun(r) PROVE Kept
  BY <1>4 DEF CancelRun
<1>5. ASSUME NEW a \in Actor, RecStep(a) PROVE Kept
  <2>1. CASE RecLock(a) BY <2>1 DEF RecLock
  <2>2. CASE RecMarker(a) BY <2>2 DEF RecMarker
  <2>3. CASE RecTable(a) BY <2>3 DEF RecTable
  <2>4. CASE RecSuccess(a) BY <2>4 DEF RecSuccess
  <2>5. CASE RecNotPublished(a)
    <3>1. CASE q = RecRun(a) BY <2>5, <3>1 DEF RecNotPublished
    <3>2. CASE q # RecRun(a) BY <2>5, <3>2 DEF RecNotPublished
    <3> QED BY <3>1, <3>2
  <2>6. CASE RecRaises(a) BY <2>6 DEF RecRaises
  <2> QED BY <1>5, <2>1, <2>2, <2>3, <2>4, <2>5, <2>6 DEF RecStep
<1>6. ASSUME NEW a \in Actor, ServerEndsReconciler(a) PROVE Kept
  BY <1>6 DEF ServerEndsReconciler
<1>7. ASSUME NEW u \in Screen, ScreenStep(u) PROVE Kept
  <2>1. CASE Popen(u) BY <2>1 DEF Popen
  <2>2. CASE SendSecrets(u) BY <2>2 DEF SendSecrets
  <2>3. CASE StartFails(u) BY <2>3 DEF StartFails
  <2>4. CASE Interrupt(u) BY <2>4 DEF Interrupt
  <2>5. CASE ListTables(u) BY <2>5 DEF ListTables
  <2>6. CASE FailTable(u) BY <2>6 DEF FailTable
  <2>7. CASE Recovered(u) BY <2>7 DEF Recovered
  <2> QED BY <1>7, <2>1, <2>2, <2>3, <2>4, <2>5, <2>6, <2>7 DEF ScreenStep
<1>8. ASSUME NEW u \in Screen, NEW r \in Run, NEW p \in Run \cup {NoRun}, Start(u, r,
    p) PROVE Kept
  BY <1>8 DEF Start
<1>9. ASSUME NEW u \in Screen, NEW r \in Run, Recover(u, r) PROVE Kept
  BY <1>9 DEF Recover
<1>10. ASSUME NEW u \in Screen, NEW r \in Run, ForceStop(u, r) PROVE Kept
  BY <1>10 DEF ForceStop
<1>11. ASSUME NEW u \in Screen, NEW r \in Run, Reconcile(u, r) PROVE Kept
  BY <1>11 DEF Reconcile
<1>12. ASSUME NEW u \in Screen, ScreenDies(u) PROVE Kept
  BY <1>12 DEF ScreenDies
<1> QED BY <1>1, <1>2, <1>3, <1>4, <1>5, <1>6, <1>7, <1>8, <1>9, <1>10, <1>11, <1>12
      DEF Next, ScreenBegins

\* The sessions on the target.
LEMMA SessionStep ==
  ASSUME IInv, Next, NEW q \in Run
  PROVE  SessionInv(q)'
<1> USE TableAssumption, RunAssumption, ScreenAssumption, FullAssumption DEF IInv,
    RowInv, SessionInv, WorkerInv, RecInv, UiInv,
        TypeOK, StoreTypeOK, TargetTypeOK, ProcessTypeOK, Active, Terminal, UpdateState,
            UpdateStage, Resolve, Claim, Cancel, Queue, BeginPublish,
        Busy, AssertIdle, Current, storeVars,
        AskLock, GrantLock, ReplaceNext, SendCommit, ExecuteCommit, EndSession, TakeLock,
        EndReconciler, targetVars, Publisher, Reconciler, Free,
        Unclaimed, BeforePublish, Alive, Owned, Body, BeforeCommit, CheckPoints,
            AfterCommit,
        EndOp, BeginOp, StartRec, EndRec, RecGoto, RecRun, Return, Goto, Exit, Raise,
        Actor, workerVars, recVars, uiVars, processVars
<1>1. CASE UNCHANGED <<lock, session, replaced, marker, pending>>
  BY <1>1
<1>2. ASSUME NEW r \in Run, EnterPublish(r) PROVE SessionInv(q)'
  BY <1>2 DEF EnterPublish
<1>3. ASSUME NEW r \in Run, RequestLock(r) PROVE SessionInv(q)'
  BY <1>3 DEF RequestLock
<1>4. ASSUME NEW r \in Run, ReplaceTable(r) PROVE SessionInv(q)'
  BY <1>4 DEF ReplaceTable
<1>5. ASSUME NEW r \in Run, Commit(r) PROVE SessionInv(q)'
  BY <1>5 DEF Commit
<1>6. ASSUME NEW r \in Run, Succeed(r) PROVE SessionInv(q)'
  BY <1>6 DEF Succeed
<1>7. ASSUME NEW r \in Run, ServerGrants(r) PROVE SessionInv(q)'
  BY <1>7 DEF ServerGrants
<1>8. ASSUME NEW r \in Run, ServerCommits(r) PROVE SessionInv(q)'
  BY <1>8 DEF ServerCommits
<1>9. ASSUME NEW r \in Run, ServerEnds(r) PROVE SessionInv(q)'
  BY <1>9 DEF ServerEnds
<1>10. ASSUME NEW a \in Actor, RecLock(a) PROVE SessionInv(q)'
  BY <1>10 DEF RecLock
<1>11. ASSUME NEW a \in Actor, RecSuccess(a) PROVE SessionInv(q)'
  BY <1>11 DEF RecSuccess
<1>12. ASSUME NEW a \in Actor, RecNotPublished(a) PROVE SessionInv(q)'
  BY <1>12 DEF RecNotPublished
<1>13. ASSUME NEW a \in Actor, ServerEndsReconciler(a) PROVE SessionInv(q)'
  BY <1>13 DEF ServerEndsReconciler
<1> HIDE DEF IInv, SessionInv
<1> QED
  BY SessionFrame, <1>1, <1>2, <1>3, <1>4, <1>5, <1>6, <1>7, <1>8, <1>9, <1>10, <1>11,
     <1>12, <1>13

\* Only Start makes a run busy, and then no other run is.
LEMMA BusyStep ==
  ASSUME IInv, Next
  PROVE  OneBusyRun'
<1> USE DEF IInv, TypeOK, StoreTypeOK, Terminal, Active, Busy, WorkerInv, UpdateState,
    Resolve
<1>1. CASE \E u \in Screen, r \in Run, p \in Run \cup {NoRun} : Start(u, r, p)
  <2>1. PICK r \in Run : /\ AssertIdle
                         /\ state' = [state EXCEPT ![r] = "QUEUED"]
                         /\ UNCHANGED pending
    BY <1>1 DEF Start, Queue
  <2> QED BY <2>1 DEF OneBusyRun, AssertIdle
<1>2. ASSUME ~ \E u \in Screen, r \in Run, p \in Run \cup {NoRun} : Start(u, r, p),
             NEW q \in Run, ~Busy(q)
      PROVE  ~Busy(q)'
  <2>1. CASE UNCHANGED <<state, pending>>
    BY <1>2, <2>1
  <2>2. ASSUME NEW r \in Run, ClaimRun(r) PROVE ~Busy(q)'
    BY <1>2, <2>2 DEF ClaimRun, Claim
  <2>3. ASSUME NEW r \in Run, EnterPublish(r) PROVE ~Busy(q)'
    BY <1>2, <2>3 DEF EnterPublish, BeginPublish, Body, BeforeCommit, CheckPoints
  <2>4. ASSUME NEW r \in Run, Succeed(r) PROVE ~Busy(q)'
    BY <1>2, <2>4 DEF Succeed
  <2>5. ASSUME NEW r \in Run, SettleRun(r) PROVE ~Busy(q)'
    <3>1. verdict[r] \in Terminal
      BY DEF ProcessTypeOK
    <3> QED BY <1>2, <2>5, <3>1 DEF SettleRun
  <2>6. ASSUME NEW r \in Run, RecordInterrupted(r) PROVE ~Busy(q)'
    BY <1>2, <2>6 DEF RecordInterrupted
  <2>7. ASSUME NEW r \in Run, CancelRun(r) PROVE ~Busy(q)'
    BY <1>2, <2>7 DEF CancelRun, Cancel
  <2>8. ASSUME NEW a \in Actor, RecSuccess(a) PROVE ~Busy(q)'
    BY <1>2, <2>8 DEF RecSuccess
  <2>9. ASSUME NEW a \in Actor, RecNotPublished(a) PROVE ~Busy(q)'
    BY <1>2, <2>9 DEF RecNotPublished
  <2>10. ASSUME NEW u \in Screen, StartFails(u) PROVE ~Busy(q)'
    BY <1>2, <2>10 DEF StartFails
  <2>11. ASSUME NEW u \in Screen, Interrupt(u) PROVE ~Busy(q)'
    BY <1>2, <2>11 DEF Interrupt, Current, storeVars
  <2> HIDE DEF IInv, Busy
  <2> QED
    BY StateFrame, <1>2, <2>1, <2>2, <2>3, <2>4, <2>5, <2>6, <2>7, <2>8, <2>9, <2>10, <2>11
<1> HIDE DEF Busy
<1>3. CASE ~ \E u \in Screen, r \in Run, p \in Run \cup {NoRun} : Start(u, r, p)
  BY <1>2, <1>3 DEF OneBusyRun
<1> QED BY <1>1, <1>3

\* A run that was retried keeps its verdict, and a retry begins with a final failure.
LEMMA RetryStep ==
  ASSUME IInv, Next
  PROVE  RetryInv'
<1> SUFFICES ASSUME ~StoreFaults, NEW s \in Run, (retryOf[s] # NoRun)'
             PROVE  (Final(retryOf[s]) /\ state[retryOf[s]] # "SUCCESS")'
  BY DEF RetryInv
<1> USE DEF IInv, TypeOK, StoreTypeOK
<1>1. CASE UNCHANGED retryOf
  <2>1. retryOf[s] \in Run /\ Final(retryOf[s]) /\ state[retryOf[s]] # "SUCCESS"
    BY <1>1 DEF RetryInv
  <2> HIDE DEF IInv
  <2> QED BY <1>1, <2>1, FinalStep
<1>2. ASSUME NEW u \in Screen, NEW r \in Run, NEW p \in Run \cup {NoRun}, Start(u, r, p)
      PROVE  (Final(retryOf[s]) /\ state[retryOf[s]] # "SUCCESS")'
  <2>1. /\ p # NoRun => Final(p) /\ state[p] # "SUCCESS"
        /\ state[r] = "ABSENT" /\ state' = [state EXCEPT ![r] = "QUEUED"]
        /\ retryOf' = [retryOf EXCEPT ![r] = p] /\ UNCHANGED pending
    BY <1>2 DEF Start, Queue, Final
  <2>2. PICK q \in Run : retryOf'[s] = q /\ Final(q) /\ state[q] # "SUCCESS"
    <3>1. CASE s = r BY <2>1, <3>1
    <3>2. CASE s # r BY <2>1, <3>2 DEF RetryInv
    <3> QED BY <3>1, <3>2
  <2>3. q # r
    BY <2>1, <2>2 DEF Final, Terminal
  <2> QED BY <2>1, <2>2, <2>3 DEF Final
<1> HIDE DEF IInv
<1> QED BY <1>1, <1>2, RetryFrame

\* A screen that starts a run is the only one to do so.
LEMMA StarterStep ==
  ASSUME IInv, Next
  PROVE  OneStarter'
<1>1. ASSUME NEW v \in Screen, Starting(v)'
      PROVE  \/ Starting(v) /\ opRun'[v] = opRun[v]
             \/ \E r \in Run, p \in Run \cup {NoRun} : Start(v, r, p)
  <2> DEFINE Kept == Starting(v) /\ opRun'[v] = opRun[v]
             Begun == \E r \in Run, p \in Run \cup {NoRun} : Start(v, r, p)
  <2>0. TypeOK BY DEF IInv
  <2> USE <1>1, <2>0 DEF TypeOK, ProcessTypeOK, Starting, EndOp, BeginOp, uiVars,
      processVars
  <2>1. ASSUME NEW r \in Run, WorkerStep(r) PROVE Kept
    BY <2>1 DEF WorkerStep, ClaimRun, ClaimRefused, Preflight, ReuseFile, StartExtract,
        EndExtract, StartLoad, EndLoad, LastCheck, EnterPublish, RequestLock,
        LockGranted, ReplaceTable, Commit, CommitAcknowledged, MarkPublished, Succeed,
        Tidy, NoticeCancel, BodyFails, Handle, SettleTable, SettleRun, SettleRest,
        Finish, StoreRaises, RecordInterrupted
  <2>2. ASSUME NEW r \in Run, Die(r) \/ CancelRun(r) \/ ServerStep(r) PROVE Kept
    BY <2>2 DEF Die, CancelRun, ServerStep, ServerGrants, ServerCommits, ServerEnds
  <2>3. ASSUME NEW a \in Actor, RecStep(a) \/ ServerEndsReconciler(a) PROVE Kept
    BY <2>3 DEF RecStep, ServerEndsReconciler, RecGoto, Return, RecLock, RecMarker,
        RecTable,
        RecSuccess, RecNotPublished, RecRaises
  <2>4. ASSUME NEW u \in Screen, ScreenStep(u) PROVE Kept
    BY <2>4 DEF ScreenStep, Popen, SendSecrets, StartFails, Interrupt, ListTables,
        FailTable,
        Recovered
  <2>5. ASSUME NEW u \in Screen, ScreenBegins(u) PROVE Kept \/ Begun
    BY <2>5 DEF ScreenBegins, Start, Recover, ForceStop, Reconcile, ScreenDies
  <2> QED BY <2>1, <2>2, <2>3, <2>4, <2>5 DEF IInv, Next
<1>2. ASSUME NEW u \in Screen, NEW v \in Screen, NEW r \in Run, NEW p \in Run \cup {NoRun},
             Start(u, r, p), Starting(v)', u # v, (opRun[u] = opRun[v])'
      PROVE  FALSE
  <2>1. state[r] = "ABSENT" /\ op[u] = "idle"
    BY <1>2 DEF Start, Queue, BeginOp
  <2>2. op'[v] = op[v] /\ opRun'[v] = opRun[v] /\ opRun'[u] = r
    BY <1>2 DEF Start, BeginOp, IInv, TypeOK, ProcessTypeOK
  <2> QED BY <1>2, <2>1, <2>2 DEF IInv, UiInv, Starting
<1> QED BY <1>1, <1>2 DEF IInv, OneStarter

\* PUBLISHED is written after the commit, by the worker or by reconcile.
LEMMA PublishedStep ==
  ASSUME IInv, Next
  PROVE  PublishedWasCommitted'
<1> USE TableAssumption DEF IInv, TypeOK, StoreTypeOK, ProcessTypeOK, Terminal, Stages,
    Table
<1>1. marker \subseteq marker'
  BY FormalFrame DEF ServerCommits, ExecuteCommit
<1>2. ASSUME NEW r \in Run, NEW t, NEW s \in Stages, s = "PUBLISHED" => r \in marker,
             UpdateStage(r, t, s)
      PROVE  PublishedWasCommitted'
  BY <1>1, <1>2 DEF PublishedWasCommitted, UpdateStage
<1>3. CASE UNCHANGED stage
  BY <1>1, <1>3 DEF PublishedWasCommitted
<1> HIDE DEF PublishedWasCommitted
<1>4. ASSUME NEW r \in Run, StartExtract(r) \/ StartLoad(r) \/ EndLoad(r)
      PROVE  PublishedWasCommitted'
  BY <1>2, <1>4 DEF StartExtract, StartLoad, EndLoad
<1>5. ASSUME NEW r \in Run, MarkPublished(r)
      PROVE  PublishedWasCommitted'
  BY <1>2, <1>5 DEF MarkPublished, WorkerInv
<1>6. ASSUME NEW r \in Run, SettleTable(r)
      PROVE  PublishedWasCommitted'
  <2>1. \/ UNCHANGED stage
        \/ UpdateStage(r, current[r], "CANCELLED")
        \/ UpdateStage(r, current[r], "FAILED")
    BY <1>6 DEF SettleTable, storeVars
  <2> QED BY <1>2, <1>3, <2>1
<1>7. ASSUME NEW r \in Run, SettleRest(r)
      PROVE  PublishedWasCommitted'
  BY <1>1, <1>7 DEF SettleRest, PublishedWasCommitted
<1>8. ASSUME NEW a \in Actor, RecTable(a)
      PROVE  PublishedWasCommitted'
  <2>1. RecRun(a) \in Run /\ RecRun(a) \in marker
    BY <1>8, FullAssumption DEF RecTable, RecInv
  <2> QED BY <1>2, <1>8, <2>1 DEF RecTable
<1>9. ASSUME NEW u \in Screen, FailTable(u)
      PROVE  PublishedWasCommitted'
  BY <1>2, <1>9, <1>1 DEF FailTable, UpdateStage, PublishedWasCommitted
<1> QED BY <1>3, <1>4, <1>5, <1>6, <1>7, <1>8, <1>9, StageFrame

\* A COMMIT carries every table and its marker: no date is torn by it.
LEMMA BundleStep ==
  ASSUME IInv, Next
  PROVE  BundleIsWhole'
<1> USE TableAssumption, DateAssumption
<1>1. CASE UNCHANGED <<formal, marker>>
  BY <1>1 DEF IInv, BundleIsWhole
<1>2. ASSUME NEW r \in Run, ServerCommits(r), NEW d \in Date
      PROVE  \E o \in Run \cup {NoRun} : /\ \A t \in Table : formal'[t][d] = o
                                         /\ o # NoRun => o \in marker' /\ DateOf[o] = d
  <2>1. /\ \A t \in Table : formal'[t] = [formal[t] EXCEPT ![DateOf[r]] = r]
        /\ marker' = marker \cup {r}
    BY <1>2 DEF ServerCommits, ExecuteCommit, IInv, SessionInv, Table
  <2>2. \A t \in Table : formal[t] \in [Date -> Run \cup {NoRun}]
    BY DEF IInv, TypeOK, TargetTypeOK
  <2>3. CASE d = DateOf[r]
    <3>1. \A t \in Table : formal'[t][d] = r
      BY <2>1, <2>2, <2>3
    <3> WITNESS r \in Run \cup {NoRun}
    <3> QED BY <2>1, <2>3, <3>1
  <2>4. CASE d # DateOf[r]
    <3>1. PICK o \in Run \cup {NoRun} : /\ \A t \in Table : formal[t][d] = o
                                        /\ o # NoRun => o \in marker /\ DateOf[o] = d
      BY DEF IInv, BundleIsWhole
    <3> WITNESS o \in Run \cup {NoRun}
    <3> QED BY <2>1, <2>2, <2>4, <3>1
  <2> QED BY <2>3, <2>4
<1>3. ASSUME NEW r \in Run, ServerCommits(r) PROVE BundleIsWhole'
  BY <1>2, <1>3 DEF BundleIsWhole
<1> QED BY <1>1, <1>3, FormalFrame
-----------------------------------------------------------------------------
\* A worker comes to its last update through the last table, or as a test.
LEMMA SuccessPc ==
  ASSUME TypeOK, Next, NEW q \in Run, pc'[q] = "success"
  PROVE  pc[q] = "success" \/ LastCheck(q) \/ MarkPublished(q)
<1> USE DEF TypeOK, ProcessTypeOK, Goto, Exit, Raise, Return, RecGoto, workerVars, processVars
<1>1. ASSUME NEW r \in Run, WorkerStep(r)
      PROVE  pc[q] = "success" \/ LastCheck(q) \/ MarkPublished(q)
  BY <1>1 DEF WorkerStep, ClaimRun, ClaimRefused, Preflight, ReuseFile, StartExtract,
      EndExtract, StartLoad, EndLoad, LastCheck, EnterPublish, RequestLock, LockGranted,
      ReplaceTable, Commit, CommitAcknowledged, MarkPublished, Succeed, Tidy,
      NoticeCancel, BodyFails, Handle, SettleTable, SettleRun, SettleRest, Finish,
      StoreRaises, RecordInterrupted
<1>2. ASSUME NEW r \in Run, Die(r) \/ CancelRun(r) \/ ServerStep(r)
      PROVE  pc[q] = "success"
  BY <1>2 DEF Die, CancelRun, ServerStep, ServerGrants, ServerCommits, ServerEnds
<1>3. ASSUME NEW a \in Actor, RecStep(a) \/ ServerEndsReconciler(a)
      PROVE  pc[q] = "success"
  BY <1>3 DEF RecStep, ServerEndsReconciler, RecLock, RecMarker, RecTable, RecSuccess,
      RecNotPublished, RecRaises
<1>4. ASSUME NEW u \in Screen, ScreenStep(u)
      PROVE  pc[q] = "success"
  BY <1>4 DEF ScreenStep, Popen, SendSecrets, StartFails, Interrupt, ListTables, FailTable,
      Recovered
<1>5. ASSUME NEW u \in Screen, ScreenBegins(u)
      PROVE  pc[q] = "success"
  BY <1>5 DEF ScreenBegins, Start, Recover, ForceStop, Reconcile, ScreenDies
<1> QED BY <1>1, <1>2, <1>3, <1>4, <1>5 DEF Next

\* A run becomes a success by its worker's last update, or by a reconcile that has
\* marked every table.
LEMMA SuccessState ==
  ASSUME IInv, Next, NEW q \in Run, state'[q] = "SUCCESS", state[q] # "SUCCESS"
  PROVE  \/ pc[q] = "success"
         \/ \E a \in Actor : RecSuccess(a) /\ RecRun(a) = q
<1> USE DEF IInv, TypeOK, StoreTypeOK, UpdateState, Resolve, storeVars
<1>1. ASSUME NEW r \in Run, ClaimRun(r) \/ EnterPublish(r) \/ Succeed(r) \/ SettleRun(r)
                            \/ RecordInterrupted(r) \/ CancelRun(r)
      PROVE  pc[q] = "success"
  BY <1>1 DEF ClaimRun, Claim, EnterPublish, BeginPublish, Succeed, SettleRun, WorkerInv,
      RecordInterrupted, CancelRun, Cancel
<1>2. ASSUME NEW a \in Actor, RecSuccess(a) \/ RecNotPublished(a)
      PROVE  RecSuccess(a) /\ RecRun(a) = q
  BY <1>2 DEF RecSuccess, RecNotPublished
<1>3. ASSUME NEW u \in Screen, StartFails(u) \/ Interrupt(u)
      PROVE  FALSE
  BY <1>3 DEF StartFails, Interrupt
<1>4. ASSUME NEW u \in Screen, NEW r \in Run, NEW p \in Run \cup {NoRun}, Start(u, r, p)
      PROVE  FALSE
  BY <1>4 DEF Start, Queue
<1> QED BY <1>1, <1>2, <1>3, <1>4, StateFrame

\* A call of reconcile keeps its run, and counts the tables it marks.
LEMMA RecProgress ==
  ASSUME IInv, Next, NEW a \in Actor, recPc'[a] # "off", recDone'[a] # 0
  PROVE  /\ recPc[a] # "off" /\ RecRun(a)' = RecRun(a)
         /\ recDone'[a] = recDone[a] \/ RecTable(a)
<1> DEFINE Kept == /\ recPc[a] # "off" /\ RecRun(a)' = RecRun(a)
                   /\ recDone'[a] = recDone[a] \/ RecTable(a)
<1> USE ScreenAssumption DEF IInv, TypeOK, ProcessTypeOK, Actor, RecRun, StartRec, EndRec,
        RecGoto, Return, BeginOp, EndOp, recVars, uiVars, processVars
<1>1. ASSUME NEW r \in Run, WorkerStep(r)
      PROVE  Kept
  BY <1>1 DEF WorkerStep, ClaimRun, ClaimRefused, Preflight, ReuseFile, StartExtract,
      EndExtract, StartLoad, EndLoad, LastCheck, EnterPublish, RequestLock, LockGranted,
      ReplaceTable, Commit, CommitAcknowledged, MarkPublished, Succeed, Tidy,
      NoticeCancel, BodyFails, Handle, SettleTable, SettleRun, SettleRest, Finish,
      StoreRaises, RecordInterrupted
<1>2. ASSUME NEW r \in Run, Die(r) \/ CancelRun(r) \/ ServerStep(r)
      PROVE  Kept
  BY <1>2 DEF Die, CancelRun, ServerStep, ServerGrants, ServerCommits, ServerEnds
<1>3. ASSUME NEW b \in Actor, RecStep(b) \/ ServerEndsReconciler(b)
      PROVE  Kept
  BY <1>3 DEF RecStep, ServerEndsReconciler, RecLock, RecMarker, RecTable, RecSuccess,
      RecNotPublished, RecRaises
<1>4. ASSUME NEW u \in Screen, ScreenStep(u)
      PROVE  Kept
  BY <1>4 DEF ScreenStep, Popen, SendSecrets, StartFails, Interrupt, ListTables, FailTable,
      Recovered, RecInv
<1>5. ASSUME NEW u \in Screen, ScreenBegins(u)
      PROVE  Kept
  BY <1>5 DEF ScreenBegins, Start, Recover, ForceStop, Reconcile, ScreenDies, RecInv
<1> QED BY <1>1, <1>2, <1>3, <1>4, <1>5 DEF Next

\* With one screen, nobody takes the mark from a table of a run that is a success,
\* about to be one, or being reconciled.
LEMMA MarksStay ==
  ASSUME IInv, Next, TablesInv, OneScreen, NEW q \in Run, NEW t \in Table,
         stage[q][t] = "PUBLISHED",
         \/ state[q] = "SUCCESS" \/ pc[q] = "success"
         \/ \E a \in Actor : recPc[a] # "off" /\ RecRun(a) = q
  PROVE  stage'[q][t] = "PUBLISHED"
<1> USE TableAssumption, ScreenAssumption DEF IInv, TypeOK, StoreTypeOK, UpdateStage
<1>1. pc[q] \notin {"extract", "load", "ready", "table"}
  BY DEF WorkerInv, RecInv, RecRun, Body, BeforeCommit, CheckPoints, Active, BeforePublish
<1>2. ASSUME NEW r \in Run, StartExtract(r) \/ StartLoad(r) \/ EndLoad(r)
      PROVE  stage'[q][t] = "PUBLISHED"
  BY <1>1, <1>2 DEF StartExtract, StartLoad, EndLoad
<1>3. ASSUME NEW r \in Run, MarkPublished(r) \/ SettleRest(r)
      PROVE  stage'[q][t] = "PUBLISHED"
  BY <1>3 DEF MarkPublished, SettleRest
<1>4. ASSUME NEW r \in Run, SettleTable(r)
      PROVE  stage'[q][t] = "PUBLISHED"
  BY <1>4 DEF SettleTable, storeVars, RecInv, RecRun
<1>5. ASSUME NEW a \in Actor, RecTable(a)
      PROVE  stage'[q][t] = "PUBLISHED"
  BY <1>5 DEF RecTable
<1>6. ASSUME NEW u \in Screen, FailTable(u)
      PROVE  stage'[q][t] = "PUBLISHED"
  <2>1. opRun[u] # q
    BY <1>6 DEF FailTable, TablesInv, OneScreen, RecInv, RecRun, Actor, Unclaimed
  <2> QED BY <1>6, <2>1 DEF FailTable
<1> QED BY <1>2, <1>3, <1>4, <1>5, <1>6, StageFrame

\* The only way into the list of tables is the interrupt of the run.
LEMMA RecoveryFrame ==
  ASSUME TypeOK, Next, NEW v \in Screen, op'[v] \in {"list", "fail"}
  PROVE  \/ op[v] \in {"list", "fail"} /\ opRun'[v] = opRun[v]
         \/ Interrupt(v)
<1> USE ScreenAssumption DEF TypeOK, ProcessTypeOK, Actor, Return, RecGoto, BeginOp, EndOp,
        uiVars, processVars
<1>1. ASSUME NEW r \in Run, WorkerStep(r)
      PROVE  op[v] \in {"list", "fail"} /\ opRun'[v] = opRun[v]
  BY <1>1 DEF WorkerStep, ClaimRun, ClaimRefused, Preflight, ReuseFile, StartExtract,
      EndExtract, StartLoad, EndLoad, LastCheck, EnterPublish, RequestLock, LockGranted,
      ReplaceTable, Commit, CommitAcknowledged, MarkPublished, Succeed, Tidy,
      NoticeCancel, BodyFails, Handle, SettleTable, SettleRun, SettleRest, Finish,
      StoreRaises, RecordInterrupted
<1>2. ASSUME NEW r \in Run, Die(r) \/ CancelRun(r) \/ ServerStep(r)
      PROVE  op[v] \in {"list", "fail"} /\ opRun'[v] = opRun[v]
  BY <1>2 DEF Die, CancelRun, ServerStep, ServerGrants, ServerCommits, ServerEnds
<1>3. ASSUME NEW b \in Actor, RecStep(b) \/ ServerEndsReconciler(b)
      PROVE  op[v] \in {"list", "fail"} /\ opRun'[v] = opRun[v]
  BY <1>3 DEF RecStep, ServerEndsReconciler, RecLock, RecMarker, RecTable, RecSuccess,
      RecNotPublished, RecRaises
<1>4. ASSUME NEW u \in Screen, ScreenStep(u)
      PROVE  (op[v] \in {"list", "fail"} /\ opRun'[v] = opRun[v]) \/ Interrupt(v)
  BY <1>4 DEF ScreenStep, Popen, SendSecrets, StartFails, Interrupt, ListTables, FailTable,
      Recovered
<1>5. ASSUME NEW u \in Screen, ScreenBegins(u)
      PROVE  op[v] \in {"list", "fail"} /\ opRun'[v] = opRun[v]
  BY <1>5 DEF ScreenBegins, Start, Recover, ForceStop, Reconcile, ScreenDies
<1> QED BY <1>1, <1>2, <1>3, <1>4, <1>5 DEF Next

\* The worker of a run that is closed does not come to life, while the only screen
\* is in a recovery.
LEMMA WorkerStaysAway ==
  ASSUME IInv, Next, OneScreen, NEW v \in Screen, op[v] \in {"list", "fail"},
         NEW q \in Run, pc[q] \in Unclaimed, state[q] \in Terminal
  PROVE  pc'[q] \in Unclaimed
<1> USE DEF IInv, TypeOK, ProcessTypeOK, Goto, Exit, Raise, Return, RecGoto, Unclaimed,
        workerVars, processVars
<1>1. ASSUME NEW r \in Run, WorkerStep(r)
      PROVE  pc'[q] \in Unclaimed
  BY <1>1 DEF WorkerStep, ClaimRun, Claim, Terminal, ClaimRefused, Preflight, ReuseFile,
      StartExtract, EndExtract, StartLoad, EndLoad, LastCheck, EnterPublish, RequestLock,
      LockGranted, ReplaceTable, Commit, CommitAcknowledged, MarkPublished, Succeed, Tidy,
      NoticeCancel, BodyFails, Handle, SettleTable, SettleRun, SettleRest, Finish,
      StoreRaises, RecordInterrupted, Body, BeforeCommit, AfterCommit, CheckPoints
<1>2. ASSUME NEW r \in Run, Die(r) \/ CancelRun(r) \/ ServerStep(r)
      PROVE  pc'[q] \in Unclaimed
  BY <1>2 DEF Die, CancelRun, ServerStep, ServerGrants, ServerCommits, ServerEnds
<1>3. ASSUME NEW a \in Actor, RecStep(a) \/ ServerEndsReconciler(a)
      PROVE  pc'[q] \in Unclaimed
  BY <1>3 DEF RecStep, ServerEndsReconciler, RecLock, RecMarker, RecTable, RecSuccess,
      RecNotPublished, RecRaises, RecInv
<1>4. ASSUME NEW u \in Screen, ScreenStep(u)
      PROVE  pc'[q] \in Unclaimed
  BY <1>4 DEF ScreenStep, Popen, SendSecrets, StartFails, Interrupt, ListTables, FailTable,
      Recovered, OneScreen
<1>5. ASSUME NEW u \in Screen, ScreenBegins(u)
      PROVE  pc'[q] \in Unclaimed
  BY <1>5 DEF ScreenBegins, Start, Recover, ForceStop, Reconcile, ScreenDies
<1> QED BY <1>1, <1>2, <1>3, <1>4, <1>5 DEF Next

\* A recovery that writes tables has closed the run, and its worker is gone.
LEMMA RecoveryStep ==
  ASSUME IInv, Next, TablesInv, OneScreen, NEW v \in Screen, op'[v] \in {"list", "fail"}
  PROVE  state'[opRun'[v]] \in Terminal \ {"SUCCESS"} /\ pc'[opRun'[v]] \in Unclaimed
<1> DEFINE q == opRun[v]
<1>1. CASE Interrupt(v)
  <2>1. /\ q \in Run /\ opRun'[v] = q /\ pc' = pc
        /\ state' = [state EXCEPT ![q] = "INTERRUPTED"] /\ claimed[q] = seen[v]
    BY <1>1 DEF Interrupt, UpdateState, EndOp, Current, workerVars, IInv, UiInv, TypeOK,
       ProcessTypeOK
  <2>2. pc[q] \in Unclaimed
    BY <1>1, <2>1 DEF Interrupt, IInv, UiInv, RowInv, Unclaimed, TypeOK, StoreTypeOK
  <2> QED BY <2>1, <2>2 DEF IInv, TypeOK, StoreTypeOK, Terminal
<1>2. CASE op[v] \in {"list", "fail"} /\ opRun'[v] = q
  <2>1. /\ q \in Run /\ state[q] \in Terminal \ {"SUCCESS"} /\ pc[q] \in Unclaimed
    BY <1>2 DEF TablesInv, IInv, UiInv
  <2>2. pc'[q] \in Unclaimed
    BY <1>2, <2>1, WorkerStaysAway
  <2> USE DEF IInv, TypeOK, StoreTypeOK, UpdateState, Resolve, storeVars, Terminal
  <2>3. ASSUME NEW r \in Run, ClaimRun(r) \/ EnterPublish(r) \/ Succeed(r) \/ SettleRun(r)
                              \/ RecordInterrupted(r) \/ CancelRun(r)
        PROVE  state'[q] = state[q]
    BY <2>1, <2>3 DEF ClaimRun, Claim, EnterPublish, BeginPublish, Succeed, SettleRun,
       RecordInterrupted, CancelRun, Cancel, Unclaimed, Active
  <2>4. ASSUME NEW a \in Actor, RecSuccess(a) \/ RecNotPublished(a)
        PROVE  state'[q] = state[q]
    <3>1. recPc[a] # "off" /\ RecInv(a)
      BY <2>4 DEF RecSuccess, RecNotPublished
    <3>2. RecRun(a) # q
      BY <1>2, <2>1, <3>1 DEF RecInv, RecRun, OneScreen, Actor, Unclaimed
    <3>3. RecRun(a) \in Run
      BY <3>1, FullAssumption DEF RecInv
    <3> QED BY <2>1, <2>4, <3>2, <3>3 DEF RecSuccess, RecNotPublished
  <2>5. ASSUME NEW u \in Screen, StartFails(u) \/ Interrupt(u)
        PROVE  FALSE
    BY <1>2, <2>5 DEF StartFails, Interrupt, OneScreen
  <2>6. ASSUME NEW u \in Screen, NEW r \in Run, NEW p \in Run \cup {NoRun}, Start(u, r, p)
        PROVE  state'[q] = state[q]
    BY <2>1, <2>6 DEF Start, Queue
  <2>7. state'[q] = state[q]
    BY <2>3, <2>4, <2>5, <2>6, StateFrame
  <2> QED BY <1>2, <2>1, <2>2, <2>7
<1> QED BY <1>1, <1>2, RecoveryFrame DEF IInv

\* With one screen, every table of a success is marked.
LEMMA TablesStep ==
  ASSUME IInv, Next, OneScreen
  PROVE  TablesInv'
<1>1. TablesInv
  BY DEF IInv
<1>2. ASSUME NEW q \in FullRun, state'[q] = "SUCCESS" \/ pc'[q] = "success", NEW t \in Table
      PROVE  stage'[q][t] = "PUBLISHED"
  <2>1. q \in Run
    BY FullAssumption
  <2>2. CASE state[q] = "SUCCESS" \/ pc[q] = "success"
    BY <1>1, <2>1, <2>2, MarksStay DEF TablesInv
  <2>3. CASE MarkPublished(q) /\ pc'[q] = "success"
    <3>1. PICK s \in Table : /\ \A x \in 1..(s - 1) : stage[q][x] = "PUBLISHED"
                             /\ UpdateStage(q, s, "PUBLISHED")
                             /\ Goto(q, IF s = NT THEN "success" ELSE "published")
      BY <2>3 DEF MarkPublished
    <3>2. s = NT
      BY <2>1, <2>3, <3>1 DEF Goto, IInv, TypeOK, ProcessTypeOK
    <3> QED
      BY <2>1, <3>1, <3>2, TableAssumption DEF UpdateStage, Table, IInv, TypeOK, StoreTypeOK
  <2>4. CASE \E a \in Actor : RecSuccess(a) /\ RecRun(a) = q
    <3>1. PICK a \in Actor : RecSuccess(a) /\ RecRun(a) = q
      BY <2>4
    <3>2. stage[q][t] = "PUBLISHED" /\ recPc[a] # "off"
      BY <1>1, <3>1 DEF TablesInv, RecSuccess, Table
    <3> QED BY <1>1, <2>1, <3>1, <3>2, MarksStay
  <2>5. ~LastCheck(q) \/ pc'[q] # "success"
    BY <2>1 DEF LastCheck, Goto, IInv, TypeOK, ProcessTypeOK
  <2> QED BY <1>2, <2>1, <2>2, <2>3, <2>4, <2>5, SuccessPc, SuccessState DEF IInv
<1>3. ASSUME NEW a \in Actor, recPc'[a] # "off", NEW t \in Table, t <= recDone'[a]
      PROVE  stage'[RecRun(a)'][t] = "PUBLISHED"
  <2>1. recDone'[a] # 0
    BY <1>3 DEF Table
  <2>2. /\ recPc[a] # "off" /\ RecRun(a)' = RecRun(a)
        /\ recDone'[a] = recDone[a] \/ RecTable(a)
    BY <1>3, <2>1, RecProgress
  <2>3. RecRun(a) \in Run
    BY <2>2, FullAssumption DEF IInv, RecInv
  <2>4. CASE t <= recDone[a]
    BY <1>1, <2>2, <2>3, <2>4, MarksStay DEF TablesInv
  <2>5. CASE ~(t <= recDone[a])
    <3>1. RecTable(a) /\ recDone'[a] = recDone[a] + 1 /\ recDone[a] \in Nat
      BY <1>3, <2>2, <2>5 DEF RecTable, IInv, TypeOK, ProcessTypeOK
    <3>2. t = recDone[a] + 1
      BY <1>3, <2>5, <3>1 DEF Table
    <3> QED
      BY <2>2, <2>3, <3>1, <3>2 DEF RecTable, UpdateStage, IInv, TypeOK, StoreTypeOK
  <2> QED BY <2>4, <2>5
<1> QED BY <1>1, <1>2, <1>3, RecoveryStep DEF TablesInv
=============================================================================
