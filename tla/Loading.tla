------------------------------- MODULE Loading -------------------------------
(* Engine.load: one completed file goes into one staging table, in batches,    *)
(* each a transaction; after a lost connection retry starts again on a new     *)
(* one, while the server may still execute what it was last sent on the old.   *)
(* The file is the sequence of the offsets at which its lines end; what a line *)
(* says is left to the conversions.  A table is the number of copies of each   *)
(* batch.                                                                      *)
EXTENDS Integers, SequencesExt, FiniteSetsExt

CONSTANTS Files,     \* the files of the instance: sequences of offsets
          MaxRows,   \* batch_rows
          MaxBytes,  \* 2 MiB
          Retries    \* retries of the job

ASSUME LoadingAssumption ==
    Files \subseteq Seq(Nat) /\ MaxRows \in Nat \ {0} /\ MaxBytes \in Nat \ {0} /\ Retries \in Nat

VARIABLES
    file,     \* the lines of the file
    attempt,  \* the attempt of retry, and its session
    pc,       \* the statement the worker is at, "connect", "ready" or "failed"
    batch,    \* the batch it is at
    loaded,   \* rows reported as loaded
    stmt,     \* what a session executes, or "idle", "ok", "error"
    at,       \* the batch that its INSERT carries
    held,     \* the batch its open transaction has inserted, or 0
    over,     \* the session has ended
    stage,    \* the staging table: committed copies of each batch, or NoTable
    counted   \* the answer of COUNT(*)

workerVars == <<attempt, pc, batch, loaded>>
sessionVars == <<stmt, at, held, over>>
vars == <<file, workerVars, sessionVars, stage, counted>>

Attempt == 1..(Retries + 1)
Ddl == {"drop", "create"}
Statement == Ddl \cup {"insert", "commit", "count"}
NoTable == [b \in {0} |-> 0]

-----------------------------------------------------------------------------
(* codec.batches. *)

\* Mutant: the byte bound is forgotten.
ClosesByRows(rows, size) == rows >= MaxRows

\* A batch is full with this line.
Closes(rows, size) == rows >= MaxRows \/ size >= MaxBytes

\* The batches that are yielded, and the rows and bytes of the next.
Take(b, bytes) ==
    IF Closes(b.rows + 1, b.size + bytes) THEN [done |-> b.done + 1, rows |-> 0, size |-> 0]
    ELSE [done |-> b.done, rows |-> b.rows + 1, size |-> b.size + bytes]

\* Where line n ends, and the next begins.
Offset(lines, n) == IF n = 0 THEN 0 ELSE lines[n]

\* The loop over the lines, after each of them.
Batches(lines) ==
    LET after[n \in 0..Len(lines)] ==
            IF n = 0 THEN [done |-> 0, rows |-> 0, size |-> 0]
            ELSE Take(after[n - 1], Offset(lines, n) - Offset(lines, n - 1))
    IN after

Line == 1..Len(file)
BatchOf == [n \in Line |-> Batches(file)[n - 1].done + 1]
LastBatch == LET end == Batches(file)[Len(file)] IN IF end.rows # 0 THEN end.done + 1 ELSE end.done

Rows(b) == LET of == BatchOf IN Cardinality({n \in Line : of[n] = b})
Empty == [b \in 1..LastBatch |-> 0]
Total(t) == LET of == BatchOf IN MapThenSumSet(LAMBDA n : t[of[n]], Line)

Init ==
    /\ file \in Files
    /\ attempt = 1 /\ pc = "connect" /\ batch = 1 /\ loaded = 0
    /\ stmt = [s \in Attempt |-> "idle"] /\ at = [s \in Attempt |-> 0] /\ held = [s \in Attempt |-> 0]
    /\ over = [s \in Attempt |-> FALSE] /\ stage = NoTable /\ counted = 0

-----------------------------------------------------------------------------
(* The worker. *)

\* Engine.target on a new connection; progress starts again.
Connect ==
    /\ pc = "connect" /\ pc' = "drop" /\ batch' = 1 /\ loaded' = 0
    /\ UNCHANGED <<file, attempt, sessionVars, stage, counted>>

Send ==
    /\ pc \in Statement /\ stmt[attempt] = "idle" /\ ~over[attempt]
    /\ stmt' = [stmt EXCEPT ![attempt] = pc]
    /\ at' = [at EXCEPT ![attempt] = IF pc = "insert" THEN batch ELSE @]
    /\ UNCHANGED <<file, workerVars, held, over, stage, counted>>

Answer == stmt[attempt] = "ok" /\ ~over[attempt] /\ stmt' = [stmt EXCEPT ![attempt] = "idle"]

NextBatch(b) == IF b <= LastBatch THEN "insert" ELSE "count"

\* DROP TABLE IF EXISTS, CREATE TABLE.
TableMade ==
    /\ Answer
    /\ \/ pc = "drop" /\ pc' = "create"
       \/ pc = "create" /\ pc' = NextBatch(1)
    /\ UNCHANGED <<file, attempt, batch, loaded, at, held, over, stage, counted>>

\* Mutant: the rows are reported before they are committed.
ReportsInserted(s) == s = "insert"

\* After which statement of a batch its rows are reported.
Reports(s) == s = "commit"

\* executemany, commit, progress.
BatchMade ==
    /\ Answer
    /\ \/ pc = "insert" /\ pc' = "commit" /\ UNCHANGED batch
       \/ pc = "commit" /\ pc' = NextBatch(batch + 1) /\ batch' = batch + 1
    /\ loaded' = loaded + (IF Reports(pc) THEN Rows(batch) ELSE 0)
    /\ UNCHANGED <<file, attempt, at, held, over, stage, counted>>

\* The rows in the table, and those reported, are the rows of the manifest.
Validate ==
    /\ Answer /\ pc = "count"
    /\ pc' = IF counted = Len(file) /\ loaded = Len(file) THEN "ready" ELSE "failed"
    /\ UNCHANGED <<file, attempt, batch, loaded, at, held, over, stage, counted>>

\* An error, a warning or a cancellation is not repeated.
Fail ==
    /\ pc \notin {"ready", "failed"} /\ pc' = "failed"
    /\ UNCHANGED <<file, attempt, batch, loaded, sessionVars, stage, counted>>

\* A lost connection: retry starts the load from its beginning.
Lose ==
    /\ pc \notin {"ready", "failed"}
    /\ IF attempt = Retries + 1 THEN pc' = "failed" /\ UNCHANGED attempt
       ELSE pc' = "connect" /\ attempt' = attempt + 1
    /\ UNCHANGED <<file, batch, loaded, sessionVars, stage, counted>>

-----------------------------------------------------------------------------
(* The server. *)

Alone(s) == \A u \in Attempt \ {s} : held[u] = 0

\* DDL waits for the transactions on the table and for DDL that was sent before.
Exclusive(s) == Alone(s) /\ \A u \in 1..(s - 1) : stmt[u] \notin Ddl

Executes(s, st) == ~over[s] /\ stmt[s] = st

\* The answer; nobody hears it in a session that was given up.
Result(s, r) ==
    /\ stmt' = [stmt EXCEPT ![s] = IF s = attempt THEN r ELSE "idle"]
    /\ at' = [at EXCEPT ![s] = 0]
    /\ UNCHANGED <<file, workerVars, over>>

Drop(s) ==
    /\ Executes(s, "drop") /\ Exclusive(s) /\ stage' = NoTable
    /\ Result(s, "ok") /\ UNCHANGED <<held, counted>>

Create(s) ==
    /\ Executes(s, "create") /\ Exclusive(s) /\ stage = NoTable
    /\ stage' = Empty
    /\ Result(s, "ok") /\ UNCHANGED <<held, counted>>

\* Mutant: no transaction is begun, the rows are committed one statement at a time.
InsertAutocommits(s) ==
    /\ Executes(s, "insert")
    /\ IF stage = NoTable THEN UNCHANGED stage /\ Result(s, "error")
       ELSE stage' = [stage EXCEPT ![at[s]] = @ + 1] /\ Result(s, "ok")
    /\ UNCHANGED <<held, counted>>

\* BEGIN and the INSERTs of a batch.
Insert(s) ==
    /\ Executes(s, "insert")
    /\ IF stage = NoTable THEN UNCHANGED held /\ Result(s, "error")
       ELSE held' = [held EXCEPT ![s] = at[s]] /\ Result(s, "ok")
    /\ UNCHANGED <<stage, counted>>

Commit(s) ==
    /\ Executes(s, "commit")
    /\ stage' = IF held[s] = 0 THEN stage ELSE [stage EXCEPT ![held[s]] = @ + 1]
    /\ held' = [held EXCEPT ![s] = 0]
    /\ Result(s, "ok") /\ UNCHANGED counted

Count(s) ==
    /\ Executes(s, "count") /\ stage # NoTable
    /\ counted' = Total(stage)
    /\ Result(s, "ok") /\ UNCHANGED <<held, stage>>

\* The server sees that the connection is gone, or drops it: ROLLBACK.
EndSession(s) ==
    /\ ~over[s] /\ (s = attempt \/ stmt[s] # "idle" \/ held[s] # 0)
    /\ over' = [over EXCEPT ![s] = TRUE] /\ stmt' = [stmt EXCEPT ![s] = "idle"]
    /\ at' = [at EXCEPT ![s] = 0] /\ held' = [held EXCEPT ![s] = 0]
    /\ UNCHANGED <<file, workerVars, stage, counted>>

Next ==
    \/ Connect \/ Send \/ TableMade \/ BatchMade \/ Validate \/ Fail \/ Lose
    \/ \E s \in Attempt :
         Drop(s) \/ Create(s) \/ Insert(s) \/ Commit(s) \/ Count(s) \/ EndSession(s)

Spec == Init /\ [][Next]_vars

-----------------------------------------------------------------------------
(* Properties. *)

\* A staging table that is ready holds every line of the file exactly once, and
\* keeps doing so whatever the server still executes of the lost attempts: the
\* count that Validate compares cannot be fooled by a batch that is missing and
\* another that is there twice.
LoadedIsFile == pc = "ready" => stage = [b \in 1..LastBatch |-> 1]

\* As many rows as the screen shows as loaded are committed in the staging table,
\* and stay there until the next attempt starts to count again.
ProgressIsStored ==
    LET of == BatchOf
    IN loaded <= IF stage = NoTable THEN 0 ELSE Cardinality({n \in Line : stage[of[n]] # 0})

\* The batches are the file, cut into pieces that are not empty; each but the
\* last is full, none has more rows than asked for, and none is already full
\* before its last line.
BatchesCoverFile ==
    LET of == BatchOf
        last == LastBatch
        Full(a, z) == z - a + 1 = MaxRows \/ Offset(file, z) - Offset(file, a - 1) >= MaxBytes
    IN /\ \A b \in 1..last : \E a, z \in Line :
            /\ {n \in Line : of[n] = b} = a..z
            /\ a <= z /\ z - a + 1 <= MaxRows
            /\ (b < last => Full(a, z)) /\ (a < z => ~Full(a, z - 1))
       /\ \A n \in Line : of[n] \in 1..last /\ (n + 1 \in Line => of[n] <= of[n + 1])

-----------------------------------------------------------------------------
(* The inductive invariant.  Once the DROP of an attempt was executed, what is *)
(* left of the attempts before it can no longer change the table: no DDL of    *)
(* theirs waits, and no COMMIT that has something to commit.                   *)

PCs == Statement \cup {"connect", "ready", "failed"}

TypeOK ==
    /\ file \in Files /\ attempt \in Attempt /\ pc \in PCs /\ batch \in Nat /\ loaded \in Nat
    /\ stmt \in [Attempt -> Statement \cup {"idle", "ok", "error"}]
    /\ at \in [Attempt -> 0..LastBatch] /\ held \in [Attempt -> 0..LastBatch]
    /\ over \in [Attempt -> BOOLEAN]
    /\ stage = NoTable \/ stage \in [1..LastBatch -> Nat]

Cleared ==
    \/ pc \in {"create", "insert", "commit", "count", "ready"}
    \/ pc = "drop" /\ stmt[attempt] = "ok"

SessionInv(s) ==
    /\ s > attempt => stmt[s] = "idle" /\ held[s] = 0 /\ ~over[s]
    /\ over[s] => stmt[s] = "idle" /\ held[s] = 0
    /\ stmt[s] = "insert" => at[s] # 0
    /\ Cleared /\ s < attempt => stmt[s] \notin Ddl /\ (held[s] # 0 => stmt[s] # "commit")

\* The worker, and the statement of its attempt.
WorkerInv ==
    /\ pc \in Statement => stmt[attempt] \in {"idle", pc, "ok", "error"}
    /\ pc \in {"connect", "ready"} => stmt[attempt] = "idle"
    /\ pc \in {"connect", "count", "ready"} \cup Ddl => held[attempt] = 0
    /\ pc = "insert" => held[attempt] = IF stmt[attempt] = "ok" THEN batch ELSE 0
    /\ pc = "commit" => held[attempt] = IF stmt[attempt] = "ok" \/ over[attempt] THEN 0 ELSE batch
    /\ stmt[attempt] = "insert" /\ pc = "insert" => at[attempt] = batch
    /\ pc \in Ddl => batch = 1
    /\ pc \in {"insert", "commit"} => batch \in 1..LastBatch
    /\ pc \in {"count", "ready"} => batch = LastBatch + 1

\* The table, as long as the session of the attempt lives; then it may be a step ahead.
TableInv ==
    /\ pc \in Statement /\ ~over[attempt] =>
        /\ pc = "drop" /\ stmt[attempt] = "ok" => stage = NoTable
        /\ pc = "create" => stage = IF stmt[attempt] = "ok" THEN Empty ELSE NoTable
        /\ pc \notin Ddl => stage = [b \in 1..LastBatch |->
                IF b < batch \/ (b = batch /\ pc = "commit" /\ stmt[attempt] = "ok") THEN 1 ELSE 0]
    /\ LoadedIsFile

ProgressInv ==
    /\ ProgressIsStored
    /\ loaded # 0 => \A s \in Attempt : stmt[s] \notin Ddl
    /\ pc \in Ddl => loaded = 0
    /\ LET of == BatchOf
       IN pc \in Statement => loaded = Cardinality({n \in Line : of[n] < batch})

LInv == TypeOK /\ (\A s \in Attempt : SessionInv(s)) /\ WorkerInv /\ TableInv /\ ProgressInv

=============================================================================
