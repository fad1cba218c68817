---------------------------- MODULE Publication ----------------------------
(***************************************************************************)
(* The life of a run: the screens that queue, cancel, stop, recover and    *)
(* reconcile runs (snapshot/process.py, app.py), the worker process that   *)
(* executes one (snapshot/worker.py, snapshot/engine.py), the store they   *)
(* share and the target server the worker publishes to.  Processes may die *)
(* and sessions may be dropped between any two steps.                      *)
(*                                                                         *)
(* What a worker reads from the source and writes to files is left out: an *)
(* attempt to extract or to load succeeds, fails, or notices a cancel.     *)
(***************************************************************************)
EXTENDS TargetServer

CONSTANTS
    FullRun,     \* runs without a row limit; the others are tests that publish nothing
    StoreFaults  \* whether a store call of the worker's own clean-up code may raise

ASSUME FullAssumption == FullRun \subseteq Run
ASSUME FaultAssumption == StoreFaults \in BOOLEAN

VARIABLES
    pc,       \* where the worker process of a run is
    current,  \* Engine.current, 0 for None
    verdict,  \* the local variable state of the handler of Engine.execute
    recPc,      \* where an actor is in a call of reconcile
    recCancel,  \* what that call read of run.cancel when it began
    recDone,    \* how many tables it has marked PUBLISHED
    op,         \* the operation a screen is in
    opRun,      \* the run it is about
    seen,       \* whether recover_local saw that run claimed
    left        \* the tables recover_local has yet to mark

workerVars == <<pc, current, verdict>>
recVars == <<recPc, recCancel, recDone>>
uiVars == <<op, opRun, seen, left>>
processVars == <<workerVars, recVars, uiVars>>
vars == <<storeVars, targetVars, processVars>>

\* The steps of the try block of execute that call check() or test its outcome.
CheckPoints == {"engine", "table", "extract", "load", "ready", "gate", "begin", "replace"}
\* The try block of execute: up to the commit, and after it.
BeforeCommit == CheckPoints \cup {"lock", "commit"}
AfterCommit == {"published", "success", "tidy"}
Body == BeforeCommit \cup AfterCommit
\* Its exception handler and its finally block, and the handler of worker.main.
Handling == {"handle", "reconcile", "settle", "settleRun", "settleRest", "final", "except"}
PCs == Body \cup Handling \cup {"none", "spawned", "fed", "gone"}

Alive(r) == pc[r] \notin {"none", "gone"}

\* owned_process: the claimed process still runs.  The comparison of pid, creation
\* time and command line is taken to be exact.
Owned(r) == claimed[r] /\ Alive(r)

RecPCs == {"off", "lock", "marker", "tables", "decide"}
Ops == {"idle", "popen", "secrets", "recover", "list", "fail", "reconcile"}

ProcessTypeOK ==
    /\ pc \in [Run -> PCs]
    /\ current \in [Run -> 0..NT]
    /\ verdict \in [Run -> Terminal]
    /\ recPc \in [Actor -> RecPCs]
    /\ recCancel \in [Actor -> BOOLEAN]
    /\ recDone \in [Actor -> 0..NT]
    /\ op \in [Screen -> Ops]
    /\ opRun \in [Screen -> Run \cup {NoRun}]
    /\ seen \in [Screen -> BOOLEAN]
    /\ left \in [Screen -> SUBSET Table]

TypeOK == StoreTypeOK /\ TargetTypeOK /\ ProcessTypeOK

Init ==
    /\ StoreInit
    /\ TargetInit
    /\ pc = [r \in Run |-> "none"]
    /\ current = [r \in Run |-> 0]
    /\ verdict = [r \in Run |-> "FAILED"]
    /\ recPc = [a \in Actor |-> "off"]
    /\ recCancel = [a \in Actor |-> FALSE]
    /\ recDone = [a \in Actor |-> 0]
    /\ op = [u \in Screen |-> "idle"]
    /\ opRun = [u \in Screen |-> NoRun]
    /\ seen = [u \in Screen |-> FALSE]
    /\ left = [u \in Screen |-> {}]
-----------------------------------------------------------------------------
(* The worker: claim, preflight, one table after the other. *)

Goto(r, label) == pc' = [pc EXCEPT ![r] = label]

\* A screen is idle again.
EndOp(u) ==
    /\ op' = [op EXCEPT ![u] = "idle"]
    /\ opRun' = [opRun EXCEPT ![u] = NoRun]
    /\ seen' = [seen EXCEPT ![u] = FALSE]
    /\ left' = [left EXCEPT ![u] = {}]

\* The process ends, and its local variables with it.
Exit(r) ==
    /\ Goto(r, "gone")
    /\ current' = [current EXCEPT ![r] = 0]
    /\ verdict' = [verdict EXCEPT ![r] = "FAILED"]

ClaimRun(r) ==
    /\ pc[r] = "fed"
    /\ Claim(r)
    /\ Goto(r, "engine")
    /\ UNCHANGED <<targetVars, current, verdict, recVars, uiVars>>

\* The claim is refused and the process ends.
ClaimRefused(r) ==
    /\ pc[r] = "fed"
    /\ claimed[r] \/ state[r] \notin {"QUEUED", "CANCEL_REQUESTED"}
    /\ Goto(r, "gone")
    /\ UNCHANGED <<storeVars, targetVars, current, verdict, recVars, uiVars>>

\* The target connection, the preflight of every source, prepare of the marker and
\* of the formal tables; then the loop over the jobs begins with the first.
Preflight(r) ==
    /\ pc[r] = "engine" /\ ~cancel[r]
    /\ Goto(r, "table")
    /\ current' = [current EXCEPT ![r] = 1]
    /\ UNCHANGED <<storeVars, targetVars, verdict, recVars, uiVars>>

\* A completed file of the run this one retries is verified instead of extracting.
ReuseFile(r) ==
    /\ pc[r] = "table" /\ ~cancel[r] /\ retryOf[r] # NoRun
    /\ Goto(r, "load")
    /\ UNCHANGED <<storeVars, targetVars, current, verdict, recVars, uiVars>>

StartExtract(r) ==
    /\ pc[r] = "table" /\ ~cancel[r]
    /\ UpdateStage(r, current[r], "EXTRACTING")
    /\ Goto(r, "extract")
    /\ UNCHANGED <<targetVars, current, verdict, recVars, uiVars>>

EndExtract(r) ==
    /\ pc[r] = "extract" /\ ~cancel[r]
    /\ Goto(r, "load")
    /\ UNCHANGED <<storeVars, targetVars, current, verdict, recVars, uiVars>>

StartLoad(r) ==
    /\ pc[r] = "load" /\ ~cancel[r]
    /\ UpdateStage(r, current[r], "LOADING")
    /\ Goto(r, "ready")
    /\ UNCHANGED <<targetVars, current, verdict, recVars, uiVars>>

\* The loaded rows are counted; then the next table, or the last check before
\* publication.  An empty file is loaded without any check for a cancel.
EndLoad(r) ==
    /\ pc[r] = "ready"
    /\ UpdateStage(r, current[r], "READY")
    /\ IF current[r] < NT
       THEN /\ Goto(r, "table")
            /\ current' = [current EXCEPT ![r] = @ + 1]
       ELSE Goto(r, "gate") /\ UNCHANGED current
    /\ UNCHANGED <<targetVars, verdict, recVars, uiVars>>

LastCheck(r) ==
    /\ pc[r] = "gate" /\ ~cancel[r]
    /\ Goto(r, IF r \in FullRun THEN "begin" ELSE "success")
    /\ UNCHANGED <<storeVars, targetVars, current, verdict, recVars, uiVars>>
-----------------------------------------------------------------------------
(* The worker: publication. *)

EnterPublish(r) ==
    /\ pc[r] = "begin"
    /\ BeginPublish(r)
    /\ Goto(r, "lock")
    /\ UNCHANGED <<targetVars, current, verdict, recVars, uiVars>>

RequestLock(r) ==
    /\ pc[r] = "lock" /\ session[r] = "none"
    /\ AskLock(r)
    /\ UNCHANGED <<storeVars, processVars>>

\* GET_LOCK returned 1; the formal tables are prepared again, a transaction begins.
LockGranted(r) ==
    /\ pc[r] = "lock" /\ session[r] = "holding"
    /\ Goto(r, "replace")
    /\ UNCHANGED <<storeVars, targetVars, current, verdict, recVars, uiVars>>

ReplaceTable(r) ==
    /\ pc[r] = "replace" /\ ~cancel[r]
    /\ ReplaceNext(r)
    /\ UNCHANGED <<storeVars, processVars>>

\* Mutant: the answer to COMMIT is not awaited.
CommitUnacknowledged(r) ==
    /\ pc[r] = "replace" /\ ~cancel[r]
    /\ SendCommit(r)
    /\ Goto(r, "published")
    /\ UNCHANGED <<storeVars, current, verdict, recVars, uiVars>>

\* The check after the last table, the marker row, COMMIT.
Commit(r) ==
    /\ pc[r] = "replace" /\ ~cancel[r]
    /\ SendCommit(r)
    /\ Goto(r, "commit")
    /\ UNCHANGED <<storeVars, current, verdict, recVars, uiVars>>

CommitAcknowledged(r) ==
    /\ pc[r] = "commit" /\ session[r] = "committed"
    /\ Goto(r, "published")
    /\ UNCHANGED <<storeVars, targetVars, current, verdict, recVars, uiVars>>

\* Mutant: only the first table is marked.
MarkFirstPublished(r) ==
    /\ pc[r] = "published"
    /\ UpdateStage(r, 1, "PUBLISHED")
    /\ Goto(r, "success")
    /\ UNCHANGED <<targetVars, current, verdict, recVars, uiVars>>

\* One update_table per job, in order.
MarkPublished(r) ==
    /\ pc[r] = "published"
    /\ \E t \in Table :
        /\ stage[r][t] # "PUBLISHED"
        /\ \A s \in 1..(t - 1) : stage[r][s] = "PUBLISHED"
        /\ UpdateStage(r, t, "PUBLISHED")
        /\ Goto(r, IF t = NT THEN "success" ELSE "published")
    /\ UNCHANGED <<targetVars, current, verdict, recVars, uiVars>>

Succeed(r) ==
    /\ pc[r] = "success"
    /\ Resolve(r, "SUCCESS")
    /\ Goto(r, "tidy")
    /\ UNCHANGED <<targetVars, current, verdict, recVars, uiVars>>

\* The log entry is written and the completed files are deleted.
Tidy(r) ==
    /\ pc[r] = "tidy"
    /\ Goto(r, "final")
    /\ UNCHANGED <<storeVars, targetVars, current, verdict, recVars, uiVars>>
-----------------------------------------------------------------------------
(* The worker: exceptions. *)

Raise(r, v) ==
    /\ Goto(r, "handle")
    /\ verdict' = [verdict EXCEPT ![r] = v]

NoticeCancel(r) ==
    /\ pc[r] \in CheckPoints /\ cancel[r]
    /\ Raise(r, "CANCELLED")
    /\ UNCHANGED <<storeVars, targetVars, current, recVars, uiVars>>

\* Any other exception of the try block: a lost connection, a lock that was not
\* granted in time, a schema that changed, a full disk, a store that is locked.
BodyFails(r) ==
    /\ pc[r] \in Body
    /\ Raise(r, "FAILED")
    /\ UNCHANGED <<storeVars, targetVars, current, recVars, uiVars>>

\* reconcile(run_id) reads the row of the run, then connects.
StartRec(a, r) ==
    /\ recPc' = [recPc EXCEPT ![a] = "lock"]
    /\ recCancel' = [recCancel EXCEPT ![a] = cancel[r]]
    /\ recDone' = [recDone EXCEPT ![a] = 0]

EndRec(a) ==
    /\ recPc' = [recPc EXCEPT ![a] = "off"]
    /\ recCancel' = [recCancel EXCEPT ![a] = FALSE]
    /\ recDone' = [recDone EXCEPT ![a] = 0]

\* The run that reconcile is called for: its own, or the one the screen shows.
RecRun(a) == IF a \in Run THEN a ELSE opRun[a]

\* The connection is closed; an unknown outcome is looked up on the target.
Handle(r) ==
    /\ pc[r] = "handle"
    /\ IF pending[r] THEN StartRec(r, r) /\ Goto(r, "reconcile")
       ELSE Goto(r, "settle") /\ UNCHANGED recVars
    /\ UNCHANGED <<storeVars, targetVars, current, verdict, uiVars>>

\* Mutant: the handler does not look for a success on record.
SettleTableBlindly(r) ==
    /\ pc[r] = "settle"
    /\ IF current[r] # 0 /\ verdict[r] # "SUCCESS"
       THEN UpdateStage(r, current[r], IF verdict[r] = "CANCELLED" THEN "CANCELLED" ELSE "FAILED")
       ELSE UNCHANGED storeVars
    /\ Goto(r, "settleRun")
    /\ UNCHANGED <<targetVars, current, verdict, recVars, uiVars>>

\* A success that is on record is kept; else the current table is marked.
SettleTable(r) ==
    /\ pc[r] = "settle"
    /\ LET v == IF state[r] = "SUCCESS" THEN "SUCCESS" ELSE verdict[r]
       IN /\ verdict' = [verdict EXCEPT ![r] = v]
          /\ IF current[r] # 0 /\ v # "SUCCESS"
             THEN UpdateStage(r, current[r], IF v = "CANCELLED" THEN v ELSE "FAILED")
             ELSE UNCHANGED storeVars
    /\ Goto(r, "settleRun")
    /\ UNCHANGED <<targetVars, current, recVars, uiVars>>

SettleRun(r) ==
    /\ pc[r] = "settleRun"
    /\ UpdateState(r, verdict[r])
    /\ Goto(r, "settleRest")
    /\ UNCHANGED <<targetVars, current, verdict, recVars, uiVars>>

\* The jobs that were not started.
SettleRest(r) ==
    /\ pc[r] = "settleRest"
    /\ stage' = [stage EXCEPT ![r] = [t \in Table |->
                    IF stage[r][t] = "WAITING" THEN "CANCELLED" ELSE stage[r][t]]]
    /\ Goto(r, "final")
    /\ UNCHANGED <<state, cancel, pending, claimed, retryOf>>
    /\ UNCHANGED <<targetVars, current, verdict, recVars, uiVars>>

\* The finally block, and the end of the process.
Finish(r) ==
    /\ pc[r] = "final"
    /\ Exit(r)
    /\ UNCHANGED <<storeVars, targetVars, recVars, uiVars>>

\* A store call raises in the constructor of Engine, in the exception handler or in
\* the finally block: execute is left with an exception.
StoreRaises(r) ==
    /\ StoreFaults
    /\ pc[r] \in {"engine", "handle", "settle", "settleRun", "settleRest", "final"}
    /\ Goto(r, "except")
    /\ UNCHANGED <<storeVars, targetVars, current, verdict, recVars, uiVars>>

\* The handler of worker.main.
RecordInterrupted(r) ==
    /\ pc[r] = "except"
    /\ UpdateState(r, "INTERRUPTED")
    /\ Exit(r)
    /\ UNCHANGED <<targetVars, recVars, uiVars>>

\* The process dies: killed, out of memory, the machine restarted.
Die(r) ==
    /\ Alive(r)
    /\ Exit(r)
    /\ EndRec(r)
    /\ UNCHANGED <<storeVars, targetVars, uiVars>>
-----------------------------------------------------------------------------
(* reconcile, called by a worker's handler or from a screen. *)

\* The caller goes on with the outcome: the handler takes it for its verdict, the
\* screen is idle again.
Return(a, v) ==
    /\ EndRec(a)
    /\ IF a \in Run
       THEN /\ Goto(a, "settle")
            /\ verdict' = [verdict EXCEPT ![a] = v]
            /\ UNCHANGED uiVars
       ELSE EndOp(a) /\ UNCHANGED <<pc, verdict>>
    /\ UNCHANGED current

RecGoto(a, label) ==
    /\ recPc' = [recPc EXCEPT ![a] = label]
    /\ UNCHANGED <<recCancel, recDone, workerVars, uiVars>>

\* Connected to the isolated target, GET_LOCK returns 1.
RecLock(a) ==
    /\ recPc[a] = "lock"
    /\ TakeLock(a)
    /\ RecGoto(a, "marker")
    /\ UNCHANGED storeVars

\* Mutant: the marker is read without waiting for the lock.
RecMarkerUnlocked(a) ==
    /\ recPc[a] \in {"lock", "marker"}
    /\ RecGoto(a, IF RecRun(a) \in marker THEN "tables" ELSE "decide")
    /\ UNCHANGED <<storeVars, targetVars>>

RecMarker(a) ==
    /\ recPc[a] = "marker" /\ lock = Reconciler(a)
    /\ RecGoto(a, IF RecRun(a) \in marker THEN "tables" ELSE "decide")
    /\ UNCHANGED <<storeVars, targetVars>>

\* The marker was found: every table is PUBLISHED, one update after the other.
RecTable(a) ==
    /\ recPc[a] = "tables" /\ recDone[a] < NT
    /\ UpdateStage(RecRun(a), recDone[a] + 1, "PUBLISHED")
    /\ recDone' = [recDone EXCEPT ![a] = @ + 1]
    /\ UNCHANGED <<targetVars, workerVars, recPc, recCancel, uiVars>>

RecSuccess(a) ==
    /\ recPc[a] = "tables" /\ recDone[a] = NT
    /\ Resolve(RecRun(a), "SUCCESS")
    /\ Return(a, "SUCCESS")
    /\ UNCHANGED targetVars

\* Mutant: publish_pending is not cleared.
RecStaysPending(a) ==
    /\ recPc[a] = "decide"
    /\ LET v == IF recCancel[a] THEN "CANCELLED" ELSE "INTERRUPTED"
       IN UpdateState(RecRun(a), v) /\ Return(a, v)
    /\ UNCHANGED targetVars

\* No marker: cancelled if the run was so when reconcile began, else interrupted.
RecNotPublished(a) ==
    /\ recPc[a] = "decide"
    /\ LET v == IF recCancel[a] THEN "CANCELLED" ELSE "INTERRUPTED"
       IN Resolve(RecRun(a), v) /\ Return(a, v)
    /\ UNCHANGED targetVars

\* No connection, no isolation, no lock within ten seconds, a store that is locked.
RecRaises(a) ==
    /\ recPc[a] # "off"
    /\ Return(a, "INTERRUPTED")
    /\ UNCHANGED <<storeVars, targetVars>>
-----------------------------------------------------------------------------
(* The screens. *)

BeginOp(u, name, r) ==
    /\ op[u] = "idle"
    /\ op' = [op EXCEPT ![u] = name]
    /\ opRun' = [opRun EXCEPT ![u] = r]

\* process.start after the secrets are resolved: store.queue.  A screen offers a
\* retry of a run whose failure is final, and process.retry asks for that again.
Start(u, r, parent) ==
    /\ parent # NoRun => state[parent] \in Terminal \ {"SUCCESS"} /\ ~pending[parent]
    /\ Queue(r, parent)
    /\ BeginOp(u, "popen", r)
    /\ UNCHANGED <<targetVars, workerVars, recVars, seen, left>>

Popen(u) ==
    /\ op[u] = "popen"
    /\ Goto(opRun[u], "spawned")
    /\ op' = [op EXCEPT ![u] = "secrets"]
    /\ UNCHANGED <<storeVars, targetVars, current, verdict, recVars, opRun, seen, left>>

\* The secrets are written to the worker's standard input, which is closed.
SendSecrets(u) ==
    /\ op[u] = "secrets" /\ pc[opRun[u]] = "spawned"
    /\ Goto(opRun[u], "fed")
    /\ EndOp(u)
    /\ UNCHANGED <<storeVars, targetVars, current, verdict, recVars>>

\* Popen or the write fails: a process that was created is terminated.
StartFails(u) ==
    /\ op[u] \in {"popen", "secrets"}
    /\ Goto(opRun[u], "gone")
    /\ UpdateState(opRun[u], "FAILED")
    /\ EndOp(u)
    /\ UNCHANGED <<targetVars, current, verdict, recVars>>

CancelRun(r) ==
    /\ Cancel(r)
    /\ UNCHANGED <<targetVars, processVars>>

\* recover_local, run every second: a run is active, and its process is gone, or it
\* was not claimed for thirty seconds (time is not modelled: that may be any moment).
Recover(u, r) ==
    /\ state[r] \in Active /\ ~Owned(r)
    /\ BeginOp(u, "recover", r)
    /\ seen' = [seen EXCEPT ![u] = claimed[r]]
    /\ UNCHANGED <<storeVars, targetVars, workerVars, recVars, left>>

Interrupt(u) ==
    /\ op[u] = "recover"
    /\ IF Current(opRun[u], seen[u])
       THEN /\ UpdateState(opRun[u], "INTERRUPTED")
            /\ op' = [op EXCEPT ![u] = "list"]
            /\ UNCHANGED <<opRun, seen, left>>
       ELSE EndOp(u) /\ UNCHANGED storeVars
    /\ UNCHANGED <<targetVars, workerVars, recVars>>

\* The rows of run_table are read; the unfinished ones are updated one by one.
ListTables(u) ==
    /\ op[u] = "list"
    /\ op' = [op EXCEPT ![u] = "fail"]
    /\ left' = [left EXCEPT ![u] =
            {t \in Table : stage[opRun[u]][t] \notin {"PUBLISHED", "FAILED", "CANCELLED"}}]
    /\ UNCHANGED <<storeVars, targetVars, workerVars, recVars, opRun, seen>>

FailTable(u) ==
    /\ op[u] = "fail"
    /\ \E t \in left[u] :
        /\ \A s \in left[u] : t <= s
        /\ UpdateStage(opRun[u], t, "FAILED")
        /\ left' = [left EXCEPT ![u] = @ \ {t}]
    /\ UNCHANGED <<targetVars, workerVars, recVars, op, opRun, seen>>

Recovered(u) ==
    /\ op[u] = "fail" /\ left[u] = {}
    /\ EndOp(u)
    /\ UNCHANGED <<storeVars, targetVars, workerVars, recVars>>

\* The process of the run is identified, identified again, killed, and awaited; then
\* recover_local runs.
ForceStop(u, r) ==
    /\ state[r] \in Active /\ Owned(r)
    /\ Exit(r)
    /\ EndRec(r)
    /\ BeginOp(u, "recover", r)
    /\ seen' = [seen EXCEPT ![u] = TRUE]
    /\ UNCHANGED <<storeVars, targetVars, left>>

\* The button that confirms the outcome of a publication, enabled when the worker is gone.
Reconcile(u, r) ==
    /\ pending[r] /\ ~Owned(r)
    /\ StartRec(u, r)
    /\ BeginOp(u, "reconcile", r)
    /\ UNCHANGED <<storeVars, targetVars, workerVars, seen, left>>

\* The application stops in the middle of an operation.
ScreenDies(u) ==
    /\ op[u] # "idle"
    /\ EndOp(u)
    /\ EndRec(u)
    /\ UNCHANGED <<storeVars, targetVars, workerVars>>
-----------------------------------------------------------------------------
(* The target server. *)

ServerGrants(r) == GrantLock(r) /\ UNCHANGED <<storeVars, processVars>>
ServerCommits(r) == ExecuteCommit(r) /\ UNCHANGED <<storeVars, processVars>>
ServerEnds(r) == EndSession(r) /\ UNCHANGED <<storeVars, processVars>>
ServerEndsReconciler(a) == EndReconciler(a) /\ UNCHANGED <<storeVars, processVars>>
-----------------------------------------------------------------------------
WorkerStep(r) ==
    \/ ClaimRun(r) \/ ClaimRefused(r) \/ Preflight(r)
    \/ ReuseFile(r) \/ StartExtract(r) \/ EndExtract(r) \/ StartLoad(r) \/ EndLoad(r)
    \/ LastCheck(r) \/ EnterPublish(r) \/ RequestLock(r) \/ LockGranted(r)
    \/ ReplaceTable(r) \/ Commit(r) \/ CommitAcknowledged(r)
    \/ MarkPublished(r) \/ Succeed(r) \/ Tidy(r)
    \/ NoticeCancel(r) \/ BodyFails(r) \/ Handle(r)
    \/ SettleTable(r) \/ SettleRun(r) \/ SettleRest(r) \/ Finish(r)
    \/ StoreRaises(r) \/ RecordInterrupted(r)

RecStep(a) ==
    \/ RecLock(a) \/ RecMarker(a) \/ RecTable(a)
    \/ RecSuccess(a) \/ RecNotPublished(a) \/ RecRaises(a)

ServerStep(r) == ServerGrants(r) \/ ServerCommits(r) \/ ServerEnds(r)

\* What a screen does in the operation it is in, and the operations it may begin.
ScreenStep(u) ==
    \/ Popen(u) \/ SendSecrets(u) \/ StartFails(u)
    \/ Interrupt(u) \/ ListTables(u) \/ FailTable(u) \/ Recovered(u)

ScreenBegins(u) ==
    \/ \E r \in Run, parent \in Run \cup {NoRun} : Start(u, r, parent)
    \/ \E r \in Run : Recover(u, r) \/ ForceStop(u, r) \/ Reconcile(u, r)
    \/ ScreenDies(u)

Next ==
    \/ \E r \in Run : WorkerStep(r) \/ Die(r) \/ CancelRun(r) \/ ServerStep(r)
    \/ \E a \in Actor : RecStep(a) \/ ServerEndsReconciler(a)
    \/ \E u \in Screen : ScreenStep(u) \/ ScreenBegins(u)

Spec == Init /\ [][Next]_vars
-----------------------------------------------------------------------------
(* Safety *)

Final(r) == state[r] \in Terminal /\ ~pending[r]

\* At most one run is active or awaits the confirmation of its publication: nothing
\* is queued beside it, whatever recovery, reconcile and retry do meanwhile.
OneBusyRun == \A r, s \in Run : Busy(r) /\ Busy(s) => r = s

\* A worker in its try block still owns its run: neither the recovery of another
\* screen nor a failed start has closed the run under it, and its target session
\* publishes nothing before the run is marked publish_pending.
WorkerOwnsRun ==
    \A r \in Run : pc[r] \in Body \ {"tidy"} =>
        /\ claimed[r] /\ state[r] \in Active
        /\ session[r] # "none" => pending[r]

\* The verdict on record agrees with the target: a run that is no longer active or
\* pending is a SUCCESS if and only if its marker was committed (a test has none).
VerdictMatchesTarget ==
    \A r \in Run : Final(r) => (r \in marker <=> state[r] = "SUCCESS" /\ r \in FullRun)

\* For every date all the formal tables hold the rows of one and the same run, and
\* that run was made for the date and has its marker: no bundle is ever torn.
BundleIsWhole ==
    \A d \in Date : \E o \in Run \cup {NoRun} :
        /\ \A t \in Table : formal[t][d] = o
        /\ o # NoRun => o \in marker /\ DateOf[o] = d

\* A table is reported PUBLISHED only if the transaction of its run was committed.
PublishedWasCommitted ==
    \A r \in Run, t \in Table : stage[r][t] = "PUBLISHED" => r \in marker

\* A successful full run reports every table as PUBLISHED.
SuccessReportsTables ==
    \A r \in FullRun : state[r] = "SUCCESS" => \A t \in Table : stage[r][t] = "PUBLISHED"

\* Only a run that published nothing, and never will, is retried.
RetriedWasNotPublished ==
    \A r \in Run : retryOf[r] # NoRun => Final(retryOf[r]) /\ retryOf[r] \notin marker

\* A run whose cancel was recorded before begin_publish never enters publication.
CancelClosesGate == [][\A r \in Run : cancel[r] /\ ~pending[r] => ~pending'[r]]_vars

\* A final verdict stays: success never turns into failure, nor failure into success,
\* and no run becomes active again.
VerdictIsStable ==
    [][\A r \in Run : Final(r) => Final(r)' /\ (state[r] = "SUCCESS" <=> state'[r] = "SUCCESS")]_vars

\* The application implements the service that replaces a date's rows at once.
Outcome(r) ==
    IF state[r] = "ABSENT" THEN "none"
    ELSE IF Busy(r) THEN IF r \in marker THEN "replaced" ELSE "open"
    ELSE IF state[r] = "SUCCESS" THEN "success" ELSE "failure"

Content(d) == IF \A t \in Table : formal[t][d] = formal[1][d] THEN formal[1][d] ELSE "torn"

Service == INSTANCE SnapshotService WITH
    outcome <- [r \in Run |-> Outcome(r)],
    content <- [d \in Date |-> Content(d)]

ImplementsService == Service!Spec

\* A successful full run was committed, whatever clean-up code raised afterwards.
SuccessWasCommitted == \A r \in FullRun : state[r] = "SUCCESS" => r \in marker

\* A success on record is never overwritten (the comment of the exception handler of
\* Engine.execute: a clean-up failure must not overwrite durable success).
SuccessIsDurable == [][\A r \in Run : state[r] = "SUCCESS" => state'[r] = "SUCCESS"]_vars

\* A recovery overwrites nothing of a completed success, neither the run nor its tables
\* (VALIDATION.md says of reconnection races that it does not).
RecoveryKeepsSuccess ==
    [][\A r \in Run, t \in Table : state[r] = "SUCCESS" /\ stage[r][t] = "PUBLISHED" =>
            state'[r] = "SUCCESS" /\ stage'[r][t] = "PUBLISHED"]_vars
-----------------------------------------------------------------------------
(* Liveness.  Every call of a worker returns or times out, so its process moves on; *)
(* the server drops the session of a client that is gone and executes what it was   *)
(* sent; an open page runs recover_local every second.                              *)

Abandoned(r) == pc[r] \notin {"lock", "replace", "commit"} /\ ServerEnds(r)

WorkerFairness ==
    \A r \in Run : WF_vars(WorkerStep(r)) /\ WF_vars(Abandoned(r))

ScreenFairness ==
    /\ \A u \in Screen : SF_vars(ScreenStep(u))
    /\ \A a \in Actor : WF_vars(RecStep(a))
    /\ \A r \in Run : SF_vars(\E u \in Screen : Recover(u, r))

\* Someone keeps asking for the outcome, on a network that is not down for ever: each
\* step of a reconcile, table by table, succeeds if it is reached again and again.
OperatorFairness ==
    /\ \A r \in Run : SF_vars(\E u \in Screen : Reconcile(u, r))
    /\ \A a \in Actor : WF_vars(recPc[a] \in {"off", "lock"} /\ ServerEndsReconciler(a))
    /\ \A u \in Screen :
        /\ SF_vars(RecLock(u)) /\ SF_vars(RecMarker(u))
        /\ \A t \in Table : SF_vars(recDone[u] + 1 = t /\ RecTable(u))
        /\ SF_vars(RecSuccess(u)) /\ SF_vars(RecNotPublished(u))

FairSpec == Spec /\ WorkerFairness /\ ScreenFairness /\ OperatorFairness

\* A queued run does not stay active for ever: its worker closes it, or dies and the
\* recovery of an open page closes it.
ActiveRunEnds == \A r \in Run : state[r] \in Active ~> state[r] \notin Active

\* An unknown outcome is settled in the end, so that new runs can be queued.
PendingIsResolved == \A r \in Run : pending[r] ~> ~pending[r]
=============================================================================
