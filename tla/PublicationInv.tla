--------------------------- MODULE PublicationInv ---------------------------
(***************************************************************************)
(* The inductive invariant of Publication.  The safety properties are not  *)
(* inductive: they need what each actor may assume while it is between two *)
(* steps, above all that whoever decides the verdict of a run knows that   *)
(* no session can still commit it.                                         *)
(***************************************************************************)
EXTENDS Publication

Unclaimed == {"none", "spawned", "fed", "gone"}
BeforePublish == {"engine", "table", "extract", "load", "ready", "gate", "begin"}

\* The row of a run: what its flags say of its process and of the target.
RowInv(r) ==
    /\ ~claimed[r] => ~pending[r] /\ session[r] = "none" /\ pc[r] \in Unclaimed
    /\ claimed[r] => pc[r] \notin {"none", "spawned", "fed"} /\ state[r] # "ABSENT"
    /\ state[r] = "ABSENT" => pc[r] = "none"
    /\ state[r] = "SUCCESS" => claimed[r] /\ ~pending[r] /\ (r \in FullRun => r \in marker)
    /\ pending[r] \/ session[r] # "none" => r \in FullRun
    /\ ~pending[r] /\ r \in marker => state[r] = "SUCCESS" \/ StoreFaults

\* The publishing session: a COMMIT in flight belongs to a pending run whose session
\* holds the lock, and carries every table.
SessionInv(r) ==
    /\ lock = Publisher(r) <=> session[r] \in {"holding", "committing", "committed"}
    /\ r \in marker => session[r] \in {"committed", "ended"}
    /\ session[r] = "committed" => r \in marker
    /\ session[r] = "committing" => pending[r] /\ replaced[r] = NT

\* The worker: what holds at each label.
WorkerInv(r) ==
    /\ pc[r] \in Body \ {"tidy"} => claimed[r] /\ state[r] \in Active
    /\ pc[r] \in BeforePublish => ~pending[r] /\ session[r] = "none"
    /\ pc[r] = "begin" => r \in FullRun
    /\ pc[r] = "lock" => pending[r] /\ r \notin marker
                         /\ session[r] \in {"none", "waiting", "holding", "ended"}
    /\ pc[r] = "replace" => pending[r] /\ r \notin marker /\ session[r] \in {"holding", "ended"}
    /\ pc[r] = "commit" => pending[r] /\ session[r] \in {"committing", "committed", "ended"}
    /\ pc[r] = "published" => pending[r] /\ r \in marker
    /\ pc[r] = "success" => (r \in FullRun => pending[r] /\ r \in marker)
    /\ pc[r] = "tidy" => state[r] = "SUCCESS"
    /\ pc[r] = "handle" => verdict[r] # "SUCCESS"
    /\ pc[r] \in {"settle", "settleRun"} /\ verdict[r] = "SUCCESS" => state[r] = "SUCCESS"
    /\ pc[r] = "settleRun" /\ state[r] = "SUCCESS" => verdict[r] = "SUCCESS"
    /\ pc[r] = "except" => StoreFaults

\* A call of reconcile: the worker of its run does not publish any more, and what
\* was read of the marker under the lock is still so.
RecInv(a) ==
    recPc[a] # "off" =>
        /\ RecRun(a) \in FullRun /\ claimed[RecRun(a)]
        /\ IF a \in Run THEN pc[a] = "reconcile"
           ELSE op[a] = "reconcile" /\ pc[RecRun(a)] = "gone"
        /\ recPc[a] = "tables" => RecRun(a) \in marker
        /\ recPc[a] = "decide" =>
            RecRun(a) \notin marker /\ session[RecRun(a)] # "committing"

\* A screen between two steps of start or of recover_local.
UiInv(u) ==
    /\ op[u] # "idle" => opRun[u] \in Run /\ state[opRun[u]] # "ABSENT"
    /\ op[u] = "popen" => ~claimed[opRun[u]] /\ pc[opRun[u]] = "none"
    /\ op[u] = "secrets" => ~claimed[opRun[u]] /\ pc[opRun[u]] \in {"spawned", "gone"}
    /\ op[u] = "recover" /\ seen[u] => claimed[opRun[u]] /\ pc[opRun[u]] = "gone"

Starting(u) == op[u] \in {"popen", "secrets"}

OneStarter == \A u, v \in Screen :
    Starting(u) /\ Starting(v) /\ opRun[u] = opRun[v] => u = v

RetryInv == \A r \in Run :
    retryOf[r] # NoRun /\ ~StoreFaults => Final(retryOf[r]) /\ state[retryOf[r]] # "SUCCESS"

\* The tables of a run that is a success, or about to be one.  A recovery that still
\* writes tables writes those of a run whose worker is gone and which nobody can
\* reconcile meanwhile: that needs a single screen, since a second one may settle
\* the run between the two steps.
TablesInv ==
    /\ \A r \in FullRun : state[r] = "SUCCESS" \/ pc[r] = "success" =>
            \A t \in Table : stage[r][t] = "PUBLISHED"
    /\ \A a \in Actor : recPc[a] # "off" =>
            \A t \in Table : t <= recDone[a] => stage[RecRun(a)][t] = "PUBLISHED"
    /\ \A u \in Screen : op[u] \in {"list", "fail"} =>
            state[opRun[u]] \in Terminal \ {"SUCCESS"} /\ pc[opRun[u]] \in Unclaimed

OneScreen == \A u, v \in Screen : u = v

\* What every reachable state satisfies and every step preserves: the rows, sessions,
\* workers, calls of reconcile and screens above, with the safety properties of
\* Publication that the same step argument carries.
IInv ==
    /\ TypeOK
    /\ \A r \in Run : RowInv(r) /\ SessionInv(r) /\ WorkerInv(r)
    /\ \A a \in Actor : RecInv(a)
    /\ \A u \in Screen : UiInv(u)
    /\ OneStarter
    /\ OneBusyRun
    /\ RetryInv
    /\ PublishedWasCommitted
    /\ BundleIsWhole
    /\ OneScreen => TablesInv
=============================================================================
