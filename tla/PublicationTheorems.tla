------------------------ MODULE PublicationTheorems ------------------------
(***************************************************************************)
(* The theorems about Publication: its invariant IInv, the safety          *)
(* properties that follow from it, and the action properties.  They hold   *)
(* for any set of runs, tables, dates and screens; those that need it say  *)
(* that no clean-up code of a worker raises.                               *)
(***************************************************************************)
EXTENDS PublicationSteps

\* Every variable keeps its type in the initial state.
LEMMA InitType == Init => TypeOK
<1> SUFFICES ASSUME Init PROVE TypeOK
  OBVIOUS
<1> USE TableAssumption DEF Init
<1>1. StoreTypeOK
  BY DEF StoreInit, StoreTypeOK, Stages, Table
<1>2. TargetTypeOK
  BY DEF TargetInit, TargetTypeOK, SessionStates, Sessions, Free
<1>3. ProcessTypeOK
  BY DEF ProcessTypeOK, PCs, Handling, Terminal, RecPCs, Ops
<1> QED BY <1>1, <1>2, <1>3 DEF TypeOK

\* The invariant holds before the first run.
LEMMA InitInvariant == Init => IInv
<1> SUFFICES ASSUME Init PROVE IInv
  OBVIOUS
<1> USE RunAssumption DEF Init, StoreInit, TargetInit
<1>1. ASSUME NEW r \in Run PROVE RowInv(r) /\ SessionInv(r) /\ WorkerInv(r)
  BY <1>1 DEF RowInv, SessionInv, WorkerInv, Unclaimed, Publisher, Free, Active, Body,
      BeforeCommit, CheckPoints, AfterCommit, BeforePublish
<1>2. ASSUME NEW a \in Actor PROVE RecInv(a)
  BY <1>2 DEF RecInv
<1>3. ASSUME NEW u \in Screen PROVE UiInv(u)
  BY <1>3 DEF UiInv
<1>4. OneStarter /\ OneBusyRun
  BY DEF OneStarter, Starting, OneBusyRun, Busy, Active
<1>5. RetryInv /\ PublishedWasCommitted
  BY DEF RetryInv, PublishedWasCommitted
<1>6. BundleIsWhole
  <2> SUFFICES ASSUME NEW d \in Date
               PROVE  \E o \in Run \cup {NoRun} : /\ \A t \in Table : formal[t][d] = o
                                                  /\ o # NoRun => o \in marker /\ DateOf[o] = d
    BY DEF BundleIsWhole
  <2> WITNESS NoRun \in Run \cup {NoRun}
  <2> QED OBVIOUS
<1>7. TablesInv
  BY FullAssumption DEF TablesInv
<1> QED BY <1>1, <1>2, <1>3, <1>4, <1>5, <1>6, <1>7, InitType DEF IInv

\* Every step of every actor preserves the invariant.
LEMMA StepInvariant == IInv /\ [Next]_vars => IInv'
<1> SUFFICES ASSUME IInv, [Next]_vars PROVE IInv'
  OBVIOUS
<1>1. CASE Next
  <2>1. TypeOK'
    BY <1>1, StoreTypeStep, TargetTypeStep, ProcessTypeStep DEF IInv, TypeOK
  <2>2. \A r \in Run : RowInv(r)' /\ SessionInv(r)' /\ WorkerInv(r)'
    BY <1>1, RowStep, SessionStep, WorkerStepInv
  <2>3. (\A a \in Actor : RecInv(a)') /\ (\A u \in Screen : UiInv(u)')
    BY <1>1, RecStepInv, UiStepInv
  <2>4. OneStarter' /\ OneBusyRun' /\ RetryInv' /\ PublishedWasCommitted' /\ BundleIsWhole'
    BY <1>1, StarterStep, BusyStep, RetryStep, PublishedStep, BundleStep
  <2>5. (OneScreen => TablesInv)'
    BY <1>1, TablesStep DEF OneScreen
  <2> QED BY <2>1, <2>2, <2>3, <2>4, <2>5 DEF IInv
<1>2. CASE UNCHANGED vars
  BY <1>2 DEF vars, storeVars, targetVars, processVars, workerVars, recVars, uiVars, IInv,
      TypeOK, StoreTypeOK, TargetTypeOK, ProcessTypeOK, RowInv, SessionInv, WorkerInv,
      RecInv, RecRun, UiInv, OneStarter, Starting, OneBusyRun, Busy, RetryInv, Final,
      PublishedWasCommitted, BundleIsWhole, OneScreen, TablesInv
<1> QED BY <1>1, <1>2

\* The inductive invariant holds in every reachable state.
THEOREM Invariance == Spec => []IInv
BY InitInvariant, StepInvariant, PTL DEF Spec

\* Every variable of the store, the target and the processes keeps its type.
THEOREM TypeCorrectness == Spec => []TypeOK
<1>1. IInv => TypeOK
  BY DEF IInv
<1> QED BY <1>1, Invariance, PTL

\* At most one run is active or pending, whatever starts, retries, recoveries and
\* reconciles meet (the index one_active_run alone does not see a pending run).
THEOREM MutualExclusion == Spec => []OneBusyRun
<1>1. IInv => OneBusyRun
  BY DEF IInv
<1> QED BY <1>1, Invariance, PTL

\* No date is ever torn between two runs, and its rows have their marker.
THEOREM WholeBundles == Spec => []BundleIsWhole
<1>1. IInv => BundleIsWhole
  BY DEF IInv
<1> QED BY <1>1, Invariance, PTL

\* No table is reported as published before the commit.
THEOREM PublishedTables == Spec => []PublishedWasCommitted
<1>1. IInv => PublishedWasCommitted
  BY DEF IInv
<1> QED BY <1>1, Invariance, PTL

\* A worker in its try block owns its run: nobody closed the run under it.
THEOREM WorkerOwnership == Spec => []WorkerOwnsRun
<1>1. IInv => WorkerOwnsRun
  BY DEF IInv, WorkerOwnsRun, WorkerInv, Body, BeforeCommit, CheckPoints, AfterCommit,
      BeforePublish, RowInv
<1> QED BY <1>1, Invariance, PTL

\* A full run that is reported as a success was committed.
THEOREM CommittedSuccess == Spec => []SuccessWasCommitted
<1>1. IInv => SuccessWasCommitted
  BY FullAssumption DEF IInv, SuccessWasCommitted, RowInv
<1> QED BY <1>1, Invariance, PTL

\* While one screen is open, a successful full run reports every table as PUBLISHED,
\* also when clean-up code raises.  (A second screen may confirm the run between the
\* interrupt of a recovery and its last table: RecoveryKeepsSuccess is violated then.)
THEOREM SuccessIsReported == OneScreen => (Spec => []SuccessReportsTables)
<1> SUFFICES ASSUME OneScreen PROVE Spec => []SuccessReportsTables
  OBVIOUS
<1>1. IInv => SuccessReportsTables
  BY DEF IInv, TablesInv, SuccessReportsTables
<1> QED BY <1>1, Invariance, PTL

\* When the store calls of the clean-up code do not raise, a final verdict is SUCCESS
\* if and only if the run was committed (or was a test that ended well).
THEOREM ExactVerdicts == ~StoreFaults => (Spec => []VerdictMatchesTarget)
<1> SUFFICES ASSUME ~StoreFaults PROVE Spec => []VerdictMatchesTarget
  OBVIOUS
<1>1. IInv => VerdictMatchesTarget
  BY FullAssumption DEF IInv, VerdictMatchesTarget, RowInv, SessionInv, Final, TypeOK,
      TargetTypeOK
<1> QED BY <1>1, Invariance, PTL

\* A run that was retried had published nothing and never does.
THEOREM HarmlessRetries == ~StoreFaults => (Spec => []RetriedWasNotPublished)
<1> SUFFICES ASSUME ~StoreFaults PROVE Spec => []RetriedWasNotPublished
  OBVIOUS
<1>1. IInv => RetriedWasNotPublished
  <2> SUFFICES ASSUME IInv, NEW r \in Run, retryOf[r] # NoRun
               PROVE  Final(retryOf[r]) /\ retryOf[r] \notin marker
    BY DEF RetriedWasNotPublished
  <2>1. retryOf[r] \in Run /\ Final(retryOf[r]) /\ state[retryOf[r]] # "SUCCESS"
    BY DEF IInv, RetryInv, TypeOK, StoreTypeOK
  <2> QED BY <2>1 DEF IInv, RowInv, Final
<1> QED BY <1>1, Invariance, PTL

\* A final verdict never changes sides.
THEOREM StableVerdicts == ~StoreFaults => (Spec => VerdictIsStable)
<1> SUFFICES ASSUME ~StoreFaults PROVE Spec => VerdictIsStable
  OBVIOUS
<1> DEFINE Stays == \A r \in Run :
             Final(r) => Final(r)' /\ (state[r] = "SUCCESS" <=> state'[r] = "SUCCESS")
<1>1. IInv /\ [Next]_vars => [Stays]_vars
  BY FinalStep
<1> QED BY <1>1, Invariance, PTL DEF Spec, VerdictIsStable

\* A cancel that was recorded before begin_publish keeps the run from publication.
THEOREM CancelWins == Spec => CancelClosesGate
<1> DEFINE Closed == \A r \in Run : cancel[r] /\ ~pending[r] => ~pending'[r]
<1>1. IInv /\ [Next]_vars => [Closed]_vars
  <2> SUFFICES ASSUME IInv, Next, NEW q \in Run, cancel[q], ~pending[q] PROVE ~pending'[q]
    OBVIOUS
  <2> USE DEF IInv, TypeOK, StoreTypeOK, Resolve
  <2>1. ASSUME NEW r \in Run, EnterPublish(r) PROVE ~pending'[q]
    BY <2>1 DEF EnterPublish, BeginPublish
  <2>2. ASSUME NEW r \in Run, Succeed(r) PROVE ~pending'[q]
    BY <2>2 DEF Succeed
  <2>3. ASSUME NEW a \in Actor, RecSuccess(a) \/ RecNotPublished(a) PROVE ~pending'[q]
    BY <2>3 DEF RecSuccess, RecNotPublished
  <2>4. \/ UNCHANGED pending
        \/ \E r \in Run : EnterPublish(r) \/ Succeed(r)
        \/ \E a \in Actor : RecSuccess(a) \/ RecNotPublished(a)
    BY StateFrame DEF ClaimRun, Claim, SettleRun, RecordInterrupted, UpdateState, CancelRun,
       Cancel, StartFails, Interrupt, storeVars, Start, Queue
  <2> QED BY <2>1, <2>2, <2>3, <2>4
<1> QED BY <1>1, Invariance, PTL DEF Spec, CancelClosesGate
-----------------------------------------------------------------------------
(* Publication implements SnapshotService, provided the store calls of the *)
(* clean-up code do not raise: every step replaces the rows of one date in *)
(* all the tables, or opens or closes a run, or is invisible.              *)

Outcomes == [r \in Run |-> Outcome(r)]
Contents == [d \in Date |-> Content(d)]

\* A step that changes the outcome of one run changes the function there only.
LEMMA OutcomeChanges ==
  ASSUME NEW q \in Run, \A r \in Run \ {q} : Outcome(r)' = Outcome(r)
  PROVE  Outcomes' = [Outcomes EXCEPT ![q] = Outcome(q)']
BY DEF Outcomes

\* A step that changes the row of one run only changes its outcome only.
LEMMA OtherOutcomes ==
  ASSUME TypeOK, NEW q \in Run, NEW r \in Run \ {q},
         state'[r] = state[r], pending'[r] = pending[r], r \in marker' <=> r \in marker
  PROVE  Outcome(r)' = Outcome(r)
BY DEF Outcome, Busy

\* A run that was closed is closed for the service; an open one is open.
LEMMA BusyIsOpen ==
  ASSUME NEW r \in Run, state[r] # "ABSENT"
  PROVE  /\ Busy(r) /\ r \notin marker => Outcome(r) = "open"
         /\ Busy(r) /\ r \in marker => Outcome(r) = "replaced"
         /\ ~Busy(r) => Outcome(r) = IF state[r] = "SUCCESS" THEN "success" ELSE "failure"
BY DEF Outcome

\* Without a COMMIT the contents of the tables stay.
LEMMA ContentStays ==
  ASSUME UNCHANGED formal
  PROVE  Contents' = Contents
BY DEF Contents, Content

\* What a step may do to a run, seen from the service: nothing, or close it.
Closes(q) ==
  \/ Outcome(q)' = Outcome(q)
  \/ Outcome(q) = "open" /\ Outcome(q)' = "failure"
  \/ Outcome(q) = (IF q \in FullRun THEN "replaced" ELSE "open") /\ Outcome(q)' = "success"

\* Closing a run is a report of the service, or a stutter.
LEMMA ClosesIsReport ==
  ASSUME TypeOK, NEW q \in Run, Closes(q), UNCHANGED <<formal, marker>>,
         \A r \in Run \ {q} : state'[r] = state[r] /\ pending'[r] = pending[r]
  PROVE  [Service!Next]_(Service!vars)
<1>1. Outcomes' = [Outcomes EXCEPT ![q] = Outcome(q)']
  BY OtherOutcomes, OutcomeChanges
<1>2. Contents' = Contents
  BY ContentStays
<1>3. CASE Outcome(q)' = Outcome(q)
  <2>1. Outcomes' = Outcomes
    BY <1>1, <1>3 DEF Outcomes
  <2> QED BY <1>2, <2>1 DEF Service!vars, Outcomes, Contents
<1>4. CASE Outcome(q) = "open" /\ Outcome(q)' = "failure"
  <2>1. Service!ReportFailure(q)
    BY <1>1, <1>2, <1>4 DEF Service!ReportFailure, Outcomes, Contents
  <2> QED BY <2>1 DEF Service!Next
<1>5. CASE /\ Outcome(q) = IF q \in FullRun THEN "replaced" ELSE "open"
           /\ Outcome(q)' = "success"
  <2>1. Service!ReportSuccess(q)
    BY <1>1, <1>2, <1>5 DEF Service!ReportSuccess, Outcomes, Contents
  <2> QED BY <2>1 DEF Service!Next
<1> QED BY <1>3, <1>4, <1>5 DEF Closes

\* The start of a run is the request of the service.
LEMMA StartIsRequest ==
  ASSUME IInv, NEW u \in Screen, NEW r \in Run, NEW p \in Run \cup {NoRun}, Start(u, r, p)
  PROVE  Service!Next
<1> USE DEF IInv, TypeOK, StoreTypeOK
<1>1. /\ state[r] = "ABSENT" /\ AssertIdle
      /\ state' = [state EXCEPT ![r] = "QUEUED"]
      /\ UNCHANGED <<pending, formal, marker>>
  BY DEF Start, Queue, targetVars
<1>2. r \notin marker
  BY <1>1 DEF RowInv, SessionInv
<1>3. Outcome(r) = "none" /\ Outcome(r)' = "open"
  BY <1>1, <1>2 DEF Outcome, Busy, Active
<1>4. Outcomes' = [Outcomes EXCEPT ![r] = "open"] /\ Contents' = Contents
  BY <1>1, <1>3, OtherOutcomes, OutcomeChanges, ContentStays
<1>5. \A s \in Run : Outcome(s) \notin {"open", "replaced"}
  BY <1>1 DEF AssertIdle, Outcome
<1>6. Service!Request(r)
  BY <1>3, <1>4, <1>5 DEF Service!Request, Service!IsOpen, Outcomes, Contents
<1> QED BY <1>6 DEF Service!Next

\* The COMMIT of a run replaces the rows of its date in every table at once.
LEMMA CommitIsReplace ==
  ASSUME IInv, NEW r \in Run, ServerCommits(r)
  PROVE  Service!Next
<1> USE TableAssumption, DateAssumption DEF IInv, TypeOK, StoreTypeOK, TargetTypeOK
<1>1. /\ session[r] = "committing" /\ pending[r] /\ r \notin marker /\ r \in FullRun
      /\ state[r] # "ABSENT"
  BY DEF ServerCommits, ExecuteCommit, SessionInv, RowInv, Unclaimed
<1>2. /\ \A t \in Table : formal'[t] = [formal[t] EXCEPT ![DateOf[r]] = r]
      /\ marker' = marker \cup {r} /\ UNCHANGED <<state, pending>>
  BY DEF ServerCommits, ExecuteCommit, SessionInv, Table, storeVars
<1>3. Outcome(r) = "open" /\ Outcome(r)' = "replaced"
  BY <1>1, <1>2 DEF Outcome, Busy
<1>4. Outcomes' = [Outcomes EXCEPT ![r] = "replaced"]
  BY <1>2, <1>3, OtherOutcomes, OutcomeChanges
<1>5. \A t \in Table : formal[t] \in [Date -> Run \cup {NoRun}]
  OBVIOUS
<1>6. ASSUME NEW t \in Table PROVE formal'[t][DateOf[r]] = r
  <2>1. DateOf[r] \in Date /\ formal[t] \in [Date -> Run \cup {NoRun}]
    BY <1>5
  <2> QED BY <1>2, <2>1
<1>7. \A t \in Table, d \in Date \ {DateOf[r]} : formal'[t][d] = formal[t][d]
  BY <1>2, <1>5
<1>8. 1 \in Table
  BY DEF Table
<1>9. Content(DateOf[r])' = r
  BY <1>6, <1>8 DEF Content
<1>10. \A d \in Date \ {DateOf[r]} : Content(d)' = Content(d)
  BY <1>7, <1>8 DEF Content
<1>11. Contents' = [Contents EXCEPT ![DateOf[r]] = r]
  BY <1>9, <1>10 DEF Contents
<1>12. Service!ReplaceRows(r)
  BY <1>1, <1>3, <1>4, <1>11 DEF Service!ReplaceRows, Outcomes, Contents
<1> QED BY <1>12 DEF Service!Next

\* Every other step that changes the state of a run closes it, or is invisible.
LEMMA StateStepCloses ==
  ASSUME IInv, ~StoreFaults, NEW r \in Run,
         \/ ClaimRun(r) \/ EnterPublish(r) \/ Succeed(r) \/ SettleRun(r) \/ CancelRun(r)
         \/ \E a \in Actor : r = RecRun(a) /\ (RecSuccess(a) \/ RecNotPublished(a))
         \/ \E u \in Screen : r = opRun[u] /\ (StartFails(u) \/ Interrupt(u))
  PROVE  /\ Closes(r) /\ UNCHANGED <<formal, marker>>
         /\ \A q \in Run \ {r} : state'[q] = state[q] /\ pending'[q] = pending[q]
<1> USE FullAssumption DEF IInv, TypeOK, StoreTypeOK, targetVars, Closes, Outcome, Busy, Active,
        Terminal, UpdateState, Resolve
<1> DEFINE Goal == /\ Closes(r) /\ UNCHANGED <<formal, marker>>
                   /\ \A q \in Run \ {r} : state'[q] = state[q] /\ pending'[q] = pending[q]
<1>1. CASE ClaimRun(r)
  BY <1>1 DEF ClaimRun, Claim
<1>2. CASE EnterPublish(r)
  BY <1>2 DEF EnterPublish, BeginPublish, WorkerInv, Body, BeforeCommit, CheckPoints
<1>3. CASE Succeed(r)
  BY <1>3 DEF Succeed, WorkerInv, RowInv, SessionInv, Body, AfterCommit
<1>4. CASE SettleRun(r)
  <2>1. /\ state' = [state EXCEPT ![r] = verdict[r]] /\ UNCHANGED <<pending, formal, marker>>
        /\ verdict[r] \in Terminal
    BY <1>4 DEF SettleRun, ProcessTypeOK
  <2>2. verdict[r] = "SUCCESS" <=> state[r] = "SUCCESS"
    BY <1>4 DEF SettleRun, WorkerInv
  <2>3. state[r] # "ABSENT" /\ (state[r] # "SUCCESS" /\ ~pending[r] => r \notin marker)
    BY <1>4 DEF SettleRun, RowInv
  <2> QED BY <2>1, <2>2, <2>3 DEF RowInv
<1>5. CASE CancelRun(r)
  BY <1>5 DEF CancelRun, Cancel
<1>6. ASSUME NEW a \in Actor, r = RecRun(a), RecSuccess(a) PROVE Goal
  BY <1>6 DEF RecSuccess, RecInv, RowInv
<1>7. ASSUME NEW a \in Actor, r = RecRun(a), RecNotPublished(a) PROVE Goal
  BY <1>7 DEF RecNotPublished, RecInv, RowInv
<1>8. ASSUME NEW u \in Screen, r = opRun[u], StartFails(u) PROVE Goal
  BY <1>8 DEF StartFails, UiInv, RowInv, SessionInv
<1>9. ASSUME NEW u \in Screen, r = opRun[u], Interrupt(u) PROVE Goal
  BY <1>9 DEF Interrupt, Current, storeVars, RowInv
<1> QED BY <1>1, <1>2, <1>3, <1>4, <1>5, <1>6, <1>7, <1>8, <1>9

\* Every step is a step of the service, or invisible to it.
LEMMA StepRefines ==
  ASSUME IInv, ~StoreFaults, [Next]_vars
  PROVE  [Service!Next]_(Service!vars)
<1>1. CASE UNCHANGED <<state, pending, formal, marker>>
  BY <1>1 DEF Service!vars, Outcome, Busy, Content
<1>2. CASE Next /\ \E r \in Run : ServerCommits(r)
  BY <1>2, CommitIsReplace
<1>3. CASE \E u \in Screen, r \in Run, p \in Run \cup {NoRun} : Start(u, r, p)
  BY <1>3, StartIsRequest
<1>4. ASSUME NEW r \in Run, ~RecordInterrupted(r),
             \/ ClaimRun(r) \/ EnterPublish(r) \/ Succeed(r) \/ SettleRun(r) \/ CancelRun(r)
      PROVE  [Service!Next]_(Service!vars)
  BY <1>4, StateStepCloses, ClosesIsReport DEF IInv
<1>5. ASSUME NEW a \in Actor, RecSuccess(a) \/ RecNotPublished(a)
      PROVE  [Service!Next]_(Service!vars)
  <2>1. RecRun(a) \in Run
    BY <1>5, FullAssumption DEF RecSuccess, RecNotPublished, IInv, RecInv
  <2> QED BY <1>5, <2>1, StateStepCloses, ClosesIsReport DEF IInv
<1>6. ASSUME NEW u \in Screen, StartFails(u) \/ Interrupt(u)
      PROVE  [Service!Next]_(Service!vars)
  <2>1. opRun[u] \in Run
    BY <1>6 DEF StartFails, Interrupt, IInv, UiInv
  <2> QED BY <1>6, <2>1, StateStepCloses, ClosesIsReport DEF IInv
<1>7. \A r \in Run : ~RecordInterrupted(r)
  BY DEF RecordInterrupted, IInv, WorkerInv
<1>8. CASE Next
  BY <1>1, <1>2, <1>3, <1>4, <1>5, <1>6, <1>7, <1>8, StateFrame, FormalFrame
<1>9. CASE UNCHANGED vars
  BY <1>1, <1>9 DEF vars, storeVars, targetVars
<1> QED BY <1>8, <1>9

\* The application is the service that replaces a date's rows at once and reports it
\* truthfully.
THEOREM Refinement == ~StoreFaults => (Spec => ImplementsService)
<1> SUFFICES ASSUME ~StoreFaults PROVE Spec => Service!Spec
  BY DEF ImplementsService
<1>1. Init => Service!Init
  <2> SUFFICES ASSUME Init PROVE Service!Init
    OBVIOUS
  <2>1. 1 \in Table
    BY TableAssumption DEF Table
  <2> QED BY <2>1 DEF Init, StoreInit, TargetInit, Service!Init, Outcome, Content
<1>2. IInv /\ [Next]_vars => [Service!Next]_(Service!vars)
  BY StepRefines
<1> QED BY <1>1, <1>2, Invariance, PTL DEF Spec, Service!Spec
=============================================================================
