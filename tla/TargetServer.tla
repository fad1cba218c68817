---------------------------- MODULE TargetServer ----------------------------
(***************************************************************************)
(* The target MariaDB server as the engine uses it: the formal tables, the *)
(* marker table, the advisory lock (GET_LOCK) and the session in which a   *)
(* worker publishes.  A statement that was sent is executed by the server  *)
(* in a step of its own, whether or not its client still lives; a session  *)
(* may end at any moment, and ending it rolls back and frees its lock.     *)
(***************************************************************************)
EXTENDS RunStore

CONSTANTS
    Date,    \* snapshot dates
    DateOf,  \* the date in the specification of each run
    Screen   \* browser sessions of the Streamlit application

ASSUME DateAssumption == DateOf \in [Run -> Date]
ASSUME ScreenAssumption == Screen \cap Run = {}

\* Whoever calls reconcile: the worker of a run, named by the run, or a screen.
Actor == Run \cup Screen

Publisher(r) == <<"publish", r>>
Reconciler(a) == <<"reconcile", a>>
Free == <<"free", NoRun>>
Sessions == {Publisher(r) : r \in Run} \cup {Reconciler(a) : a \in Actor}

VARIABLES
    lock,      \* the session that holds the lock of the target database, or Free
    session,   \* the state of the publishing session of a run, on the server
    replaced,  \* how many tables its open transaction has replaced so far
    formal,    \* formal[t][d]: the run whose rows table t holds for date d
    marker     \* runs with a row in the marker table

targetVars == <<lock, session, replaced, formal, marker>>

SessionStates == {"none", "waiting", "holding", "committing", "committed", "ended"}

TargetTypeOK ==
    /\ lock \in Sessions \cup {Free}
    /\ session \in [Run -> SessionStates]
    /\ replaced \in [Run -> 0..NT]
    /\ formal \in [Table -> [Date -> Run \cup {NoRun}]]
    /\ marker \in SUBSET Run

TargetInit ==
    /\ lock = Free
    /\ session = [r \in Run |-> "none"]
    /\ replaced = [r \in Run |-> 0]
    /\ formal = [t \in Table |-> [d \in Date |-> NoRun]]
    /\ marker = {}

\* acquire_lock of the engine: GET_LOCK is sent and waits on the server.
AskLock(r) ==
    /\ session' = [session EXCEPT ![r] = "waiting"]
    /\ UNCHANGED <<lock, replaced, formal, marker>>

\* The lock is granted, to a session whose client may have died meanwhile.
GrantLock(r) ==
    /\ session[r] = "waiting" /\ lock = Free
    /\ session' = [session EXCEPT ![r] = "holding"]
    /\ lock' = Publisher(r)
    /\ UNCHANGED <<replaced, formal, marker>>

\* DELETE of the date's rows and INSERT ... SELECT from staging, of the next table.
ReplaceNext(r) ==
    /\ session[r] = "holding" /\ replaced[r] < NT
    /\ replaced' = [replaced EXCEPT ![r] = @ + 1]
    /\ UNCHANGED <<lock, session, formal, marker>>

\* Mutant: COMMIT is sent inside the loop over the tables.
SendCommitEarly(r) ==
    /\ session[r] = "holding" /\ replaced[r] > 0
    /\ session' = [session EXCEPT ![r] = "committing"]
    /\ UNCHANGED <<lock, replaced, formal, marker>>

\* After every table: INSERT of the marker row, then COMMIT is sent.
SendCommit(r) ==
    /\ session[r] = "holding" /\ replaced[r] = NT
    /\ session' = [session EXCEPT ![r] = "committing"]
    /\ UNCHANGED <<lock, replaced, formal, marker>>

\* The server executes COMMIT: the replaced tables and the marker at once.
ExecuteCommit(r) ==
    /\ session[r] = "committing"
    /\ session' = [session EXCEPT ![r] = "committed"]
    /\ formal' = [t \in Table |->
                    IF t <= replaced[r] THEN [formal[t] EXCEPT ![DateOf[r]] = r]
                    ELSE formal[t]]
    /\ marker' = marker \cup {r}
    /\ UNCHANGED <<lock, replaced>>

\* The session ends: its client closed it or died, or the server or the network
\* dropped it.  A COMMIT that was not executed yet is lost with it.
EndSession(r) ==
    /\ session[r] \notin {"none", "ended"}
    /\ session' = [session EXCEPT ![r] = "ended"]
    /\ replaced' = [replaced EXCEPT ![r] = 0]
    /\ lock' = IF lock = Publisher(r) THEN Free ELSE lock
    /\ UNCHANGED <<formal, marker>>

\* The lock taken by a session of reconcile, and that session's end.
TakeLock(a) ==
    /\ lock = Free
    /\ lock' = Reconciler(a)
    /\ UNCHANGED <<session, replaced, formal, marker>>

EndReconciler(a) ==
    /\ lock = Reconciler(a)
    /\ lock' = Free
    /\ UNCHANGED <<session, replaced, formal, marker>>
=============================================================================
