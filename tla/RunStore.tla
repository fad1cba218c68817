------------------------------ MODULE RunStore ------------------------------
(***************************************************************************)
(* The SQLite store the screens and the workers share (snapshot/store.py   *)
(* and the claim statement of snapshot/worker.py).  One operator per       *)
(* method; each operator is one SQLite transaction, hence one step, and    *)
(* says what happens to every column that is modelled.  The activity log,  *)
(* time stamps, counters and messages are left out.                        *)
(***************************************************************************)
EXTENDS Naturals

CONSTANTS
    Run,    \* the identifiers uuid4 may draw for a run; each is drawn at most once
    NoRun,  \* stands for NULL in a column that holds a run identifier
    NT      \* the number of jobs (tables) of a run

ASSUME RunAssumption == NoRun \notin Run
ASSUME TableAssumption == NT \in Nat \ {0}

Table == 1..NT   \* run_table.ordinal, counted from 1

Active == {"QUEUED", "RUNNING", "PUBLISHING", "CANCEL_REQUESTED"}
Terminal == {"SUCCESS", "FAILED", "CANCELLED", "INTERRUPTED"}
\* What the engine, its exception handler and the recovery set; SLEEPING is part of
\* EXTRACTING, VALIDATING of LOADING.
Stages == {"WAITING", "EXTRACTING", "LOADING", "READY", "PUBLISHED",
           "FAILED", "CANCELLED"}

VARIABLES
    state,    \* run.state, "ABSENT" for a run that was never queued
    cancel,   \* run.cancel
    pending,  \* run.publish_pending
    claimed,  \* run.pid IS NOT NULL (with process_created)
    retryOf,  \* run.retry_of
    stage     \* run_table.stage

storeVars == <<state, cancel, pending, claimed, retryOf, stage>>

StoreTypeOK ==
    /\ state \in [Run -> Active \cup Terminal \cup {"ABSENT"}]
    /\ cancel \in [Run -> BOOLEAN]
    /\ pending \in [Run -> BOOLEAN]
    /\ claimed \in [Run -> BOOLEAN]
    /\ retryOf \in [Run -> Run \cup {NoRun}]
    /\ stage \in [Run -> [Table -> Stages]]

StoreInit ==
    /\ state = [r \in Run |-> "ABSENT"]
    /\ cancel = [r \in Run |-> FALSE]
    /\ pending = [r \in Run |-> FALSE]
    /\ claimed = [r \in Run |-> FALSE]
    /\ retryOf = [r \in Run |-> NoRun]
    /\ stage = [r \in Run |-> [t \in Table |-> "WAITING"]]

Busy(r) == state[r] \in Active \/ pending[r]

\* _assert_idle: what queue, save and delete require.
AssertIdle == \A r \in Run : ~Busy(r)

\* Mutant: only the unique index is left, which does not know publish_pending.
QueueUnchecked(r, parent) ==
    /\ state[r] = "ABSENT"
    /\ \A s \in Run : state[s] \notin Active
    /\ state' = [state EXCEPT ![r] = "QUEUED"]
    /\ retryOf' = [retryOf EXCEPT ![r] = parent]
    /\ UNCHANGED <<cancel, pending, claimed, stage>>

Queue(r, parent) ==
    /\ state[r] = "ABSENT"
    /\ AssertIdle
    /\ state' = [state EXCEPT ![r] = "QUEUED"]
    /\ retryOf' = [retryOf EXCEPT ![r] = parent]
    /\ UNCHANGED <<cancel, pending, claimed, stage>>

\* update_run(state=...): unconditional.
UpdateState(r, s) ==
    /\ state' = [state EXCEPT ![r] = s]
    /\ UNCHANGED <<cancel, pending, claimed, retryOf, stage>>

\* update_run(state=..., publish_pending=0): unconditional.
Resolve(r, s) ==
    /\ state' = [state EXCEPT ![r] = s]
    /\ pending' = [pending EXCEPT ![r] = FALSE]
    /\ UNCHANGED <<cancel, claimed, retryOf, stage>>

\* update_table(stage=...).
UpdateStage(r, t, s) ==
    /\ stage' = [stage EXCEPT ![r][t] = s]
    /\ UNCHANGED <<state, cancel, pending, claimed, retryOf>>

Cancel(r) ==
    /\ state[r] \in Active \ {"CANCEL_REQUESTED"}
    /\ state' = [state EXCEPT ![r] = "CANCEL_REQUESTED"]
    /\ cancel' = [cancel EXCEPT ![r] = TRUE]
    /\ UNCHANGED <<pending, claimed, retryOf, stage>>

\* Mutant: the cancel flag is not read again inside the transaction.
BeginPublishUnchecked(r) ==
    /\ state' = [state EXCEPT ![r] = "PUBLISHING"]
    /\ pending' = [pending EXCEPT ![r] = TRUE]
    /\ UNCHANGED <<cancel, claimed, retryOf, stage>>

\* The case in which begin_publish returns True; the unique index one_active_run
\* rejects the update when another run is active.
BeginPublish(r) ==
    /\ ~cancel[r]
    /\ \A s \in Run \ {r} : state[s] \notin Active
    /\ state' = [state EXCEPT ![r] = "PUBLISHING"]
    /\ pending' = [pending EXCEPT ![r] = TRUE]
    /\ UNCHANGED <<cancel, claimed, retryOf, stage>>

\* Mutant: the process identity is not compared.
CurrentIfActive(r, seen) == state[r] \in Active

\* Mutant: pid = NULL in place of pid IS NULL, which no row satisfies.
CurrentIfEqual(r, seen) == state[r] \in Active /\ claimed[r] /\ seen

\* The WHERE clause of interrupt_if_current: still active, and claimed by the
\* process the observation named (a run is claimed at most once).
Current(r, seen) == state[r] \in Active /\ claimed[r] = seen

\* The claim of a worker: refused (exit code 2) unless the run is unclaimed and
\* still queued, or cancelled while queued.
Claim(r) ==
    /\ ~claimed[r]
    /\ state[r] \in {"QUEUED", "CANCEL_REQUESTED"}
    /\ claimed' = [claimed EXCEPT ![r] = TRUE]
    /\ state' = [state EXCEPT ![r] = IF cancel[r] THEN "CANCEL_REQUESTED" ELSE "RUNNING"]
    /\ UNCHANGED <<cancel, pending, retryOf, stage>>
=============================================================================
