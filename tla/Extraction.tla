----------------------------- MODULE Extraction -----------------------------
(***************************************************************************)
(* Engine.extract with Source.read (snapshot/engine.py, snapshot/db.py):   *)
(* the tables of a run are read one after the other, each in keyset pages  *)
(* that are separate autocommit statements, while the source changes.      *)
(* Everything that raises (a lost connection, a refused EXPLAIN, the 8 MiB *)
(* bound, a cancel that is noticed, a full disk) is the action Raise: the  *)
(* engine does not retry an extraction.                                    *)
(***************************************************************************)
EXTENDS Integers, FiniteSets

CONSTANTS
    Width,     \* number of key columns
    Key,       \* the keys a row may have
    Seen,      \* Seen[k]: key k, read and sent back as the parameters of the next page
    Compared,  \* Compared[k]: key k as `=` and `>` see it next to a parameter
    NoKey,     \* last = None
    NT,        \* number of tables
    Batch,     \* batch_rows of each job
    MaxRows,   \* SOURCE_MAX_ROWS
    Limits,    \* the limits of a test; 0 is the None of a full run
    Wait,      \* the pause between pages of each job: max(wait_ms, 100 ms)
    Reopen,    \* the pause that closes and reopens the connection: 25 s
    Gap,       \* SOURCE_WAIT_SECONDS
    Budget,    \* 600 s
    Durations, \* how long EXPLAIN, SELECT and fetch of a page may take together
    LoadTimes  \* how long the load of a table may take

Table == 1..NT

ASSUME KeyAssumption == /\ Width \in Nat /\ Key \subseteq [1..Width -> Int] /\ IsFiniteSet(Key)
                        /\ NoKey \notin Key /\ Seen \in [Key -> Key]
                        /\ Compared \in [Key -> [1..Width -> Int]]
ASSUME SizeAssumption == /\ NT \in Nat \ {0} /\ Limits \subseteq Nat
                         /\ Batch \in [Table -> Nat \ {0}] /\ MaxRows \in Nat \ {0}
ASSUME TimeAssumption == /\ Reopen \in Nat /\ Gap \in Nat /\ Budget \in Nat
                         /\ Wait \in [Table -> Nat] /\ \A t \in Table : Wait[t] >= Gap
                         /\ Durations \subseteq Nat /\ LoadTimes \subseteq Nat

VARIABLES
    limit,    \* spec["limit"]
    hasKey,   \* hasKey[t]: table t has a usable key
    rows,     \* keys of the rows in the table that is read
    altered,  \* the source schema differs from the one of the preflight
    kept,     \* history: rows that have been there since the read began
    pc, table,
    last,     \* position of the last row received, as the driver showed it
    copied,   \* keys in the data file
    count,    \* writer.rows
    clock, deadline,  \* monotonic time, source_deadline (-1 for None)
    nextRead, \* Source._next_read
    ended,    \* history: the end of the last page
    owed      \* history: when its throttle allows the next one

specVars == <<limit, hasKey>>
sourceVars == <<rows, altered, kept>>
fileVars == <<last, copied, count>>
timeVars == <<clock, deadline, nextRead, ended, owed>>
vars == <<specVars, sourceVars, pc, table, fileVars, timeVars>>

Ended == pc \in {"done", "failed"}
Smaller(a, b) == IF a < b THEN a ELSE b
Later(a, b) == IF a > b THEN a ELSE b

-----------------------------------------------------------------------------
\* Mutant: only the first key column decides, a page may split its group.
FirstColumnBeyond(k, l) == Compared[k][1] > Compared[l][1]

\* Mutant: the last row is read again.
NotBefore(k, l) ==
    k = l \/ \E i \in 1..Width : /\ Compared[k][i] > Compared[l][i]
                               /\ \A j \in 1..(i - 1) : Compared[k][j] = Compared[l][j]

\* The condition keyset() builds: equal on the columns before i, greater on i.
Beyond(k, l) == \E i \in 1..Width : /\ Compared[k][i] > Compared[l][i]
                                   /\ \A j \in 1..(i - 1) : Compared[k][j] = Compared[l][j]

\* ORDER BY the key columns.
Precedes(k, l) == \E i \in 1..Width : k[i] < l[i] /\ \A j \in 1..(i - 1) : k[j] = l[j]

Candidates == {k \in rows : last = NoKey \/ Beyond(k, last)}

PageSize ==
    IF limit = 0 THEN Smaller(Batch[table], MaxRows)
    ELSE Smaller(Smaller(Batch[table], MaxRows), limit - count)

\* The server's answer to ORDER BY ... LIMIT n: the n first of C.
IsPage(P, C, n) ==
    /\ Cardinality(P) = Smaller(n, Cardinality(C))
    /\ \A p \in P, c \in C \ P : Precedes(p, c)

-----------------------------------------------------------------------------
Init ==
    /\ limit \in Limits /\ hasKey \in [Table -> BOOLEAN]
    /\ rows \in SUBSET Key /\ altered = FALSE /\ kept = {}
    /\ pc = "preflight" /\ table = 1
    /\ last = NoKey /\ copied = {} /\ count = 0
    /\ clock = 0 /\ deadline = -1 /\ nextRead = 0 /\ ended = 0 /\ owed = 0

\* A table without a key is read only by a small test.
Preflight ==
    /\ pc = "preflight"
    /\ \A t \in Table : hasKey[t] \/ (limit # 0 /\ limit <= MaxRows)
    /\ pc' = "extract"
    /\ UNCHANGED <<sourceVars, table, fileVars, timeVars>>

\* One budget for the run, from its first extraction on.
RunDeadline == IF deadline = -1 THEN clock + Budget ELSE deadline

\* Budget, Writer(path), source(job), first comparison of the schema.
Extract ==
    /\ pc = "extract" /\ ~altered
    /\ deadline' = RunDeadline
    /\ clock < deadline'
    /\ pc' = IF hasKey[table] THEN "page" ELSE "whole"
    /\ last' = NoKey /\ copied' = {} /\ count' = 0
    /\ nextRead' = 0
    /\ kept' = rows
    /\ UNCHANGED <<rows, altered, table, clock, ended, owed>>

\* Mutant: the budget is not looked at between pages.
Unbudgeted == TRUE

InBudget == clock < deadline

\* The head of the loop, then Source.read sleeps until _next_read.
BeginPage ==
    /\ pc = "page"
    /\ InBudget
    /\ pc' = "reading"
    /\ clock' = Later(clock, nextRead)
    /\ UNCHANGED <<sourceVars, table, fileVars, deadline, nextRead, ended, owed>>

NextRead(end, d) == end + Later(Gap, 4 * d)

\* Mutant: a page that was filled is taken for the last one.
FullIsLast(n, size) == n <= size

\* Fewer rows than asked for: there is no further page.
IsLastPage(n, size) == n < size

\* One page: the statement, then the rows go to the file; the loop's exit.
ReadPage ==
    /\ pc = "reading"
    /\ \E P \in SUBSET Candidates, d \in Durations :
        /\ IsPage(P, Candidates, PageSize)
        /\ copied' = copied \cup P
        /\ count' = count + Cardinality(P)
        /\ IF P = {} THEN last' = last
           ELSE \E m \in P : /\ \A p \in P \ {m} : Precedes(p, m)
                             /\ last' = Seen[m]
        /\ clock' = clock + d
        /\ nextRead' = NextRead(clock', d)
        /\ ended' = clock' /\ owed' = clock' + Later(Gap, 4 * d)
        /\ pc' = IF IsLastPage(Cardinality(P), PageSize) \/ (limit # 0 /\ count' >= limit)
                 THEN "complete" ELSE "pause"
    /\ UNCHANGED <<sourceVars, table, deadline>>

\* Mutant: the connection is reopened, and its throttle forgotten, after any pause.
ReopensAlways == TRUE

Reopens == Wait[table] >= Reopen

\* pause(), and after a long one a new connection.
Pause ==
    /\ pc = "pause"
    /\ clock' = clock + Wait[table]
    /\ nextRead' = IF Reopens THEN 0 ELSE nextRead
    /\ pc' = "page"
    /\ UNCHANGED <<sourceVars, table, fileVars, deadline, ended, owed>>

\* A table without a key: one statement without ORDER BY.
ReadWhole ==
    /\ pc = "whole"
    /\ \E P \in SUBSET rows, d \in Durations :
        /\ Cardinality(P) = Smaller(Smaller(limit, MaxRows), Cardinality(rows))
        /\ copied' = P
        /\ count' = Cardinality(P)
        /\ clock' = clock + d
        /\ nextRead' = NextRead(clock', d)
        /\ ended' = clock' /\ owed' = clock' + Later(Gap, 4 * d)
    /\ pc' = "complete"
    /\ UNCHANGED <<sourceVars, table, last, deadline>>

\* Second comparison of the schema, complete(), the source is closed.
Complete ==
    /\ pc = "complete" /\ ~altered
    /\ pc' = "loading"
    /\ UNCHANGED <<sourceVars, table, fileVars, timeVars>>

\* The file is loaded; the next table has rows of its own.
Load ==
    /\ pc = "loading"
    /\ \E d \in LoadTimes : clock' = clock + d
    /\ IF table = NT
       THEN pc' = "done" /\ UNCHANGED <<rows, kept, table>>
       ELSE pc' = "extract" /\ table' = table + 1 /\ rows' \in SUBSET Key /\ kept' = {}
    /\ UNCHANGED <<altered, fileVars, deadline, nextRead, ended, owed>>

Raise ==
    /\ ~Ended
    /\ pc' = "failed"
    /\ UNCHANGED <<sourceVars, table, fileVars, timeVars>>

\* Other sessions of the source, between two statements of this one.
Change ==
    /\ pc \in {"extract", "page", "reading", "whole", "pause", "complete"}
    /\ \/ \E k \in Key \ rows : rows' = rows \cup {k} /\ UNCHANGED <<altered, kept>>
       \/ \E k \in rows : rows' = rows \ {k} /\ kept' = kept \ {k} /\ UNCHANGED altered
       \/ altered' = ~altered /\ UNCHANGED <<rows, kept>>
    /\ UNCHANGED <<pc, table, fileVars, timeVars>>

Engine == \/ Preflight \/ Extract \/ BeginPage \/ ReadPage \/ Pause
          \/ ReadWhole \/ Complete \/ Load

Next == (Engine \/ Raise \/ Change) /\ UNCHANGED specVars

Spec == Init /\ [][Next]_vars

-----------------------------------------------------------------------------
TypeOK ==
    /\ limit \in Limits /\ hasKey \in [Table -> BOOLEAN]
    /\ rows \subseteq Key /\ altered \in BOOLEAN /\ kept \subseteq rows
    /\ pc \in {"preflight", "extract", "page", "reading", "pause", "whole", "complete",
               "loading", "done", "failed"}
    /\ table \in Table
    /\ last \in Key \cup {NoKey} /\ copied \subseteq Key /\ count \in Nat
    /\ clock \in Nat /\ deadline \in Nat \cup {-1} /\ nextRead \in Nat
    /\ ended \in Nat /\ owed \in Nat

\* Between the first and the last step of the reading of a table.
InTable == pc \in {"page", "reading", "pause", "whole", "complete", "loading"}

\* No row is written twice, whatever is inserted and deleted between the
\* pages, also when a key that was read is deleted and inserted again.
NoRowTwice == InTable => count = Cardinality(copied)

\* The pages leave no gap: a row that was there all the time is either in the
\* file or behind everything that is.
NoGap ==
    InTable /\ hasKey[table] => \A k \in kept \ copied, c \in copied : Precedes(c, k)

\* A file that is completed has every row that stayed put, or, in a test, as
\* many rows as were asked for: what README.md calls a full copy of a table.
CompleteFile ==
    pc \in {"complete", "loading"} => kept \subseteq copied \/ (limit # 0 /\ count = limit)

\* A test never reads more rows than it was asked for.
LimitHolds == InTable /\ limit # 0 => count <= limit

\* The ten minutes of a run are looked at between pages only: a page begins (with its
\* EXPLAIN) before the deadline, or later by less than the throttle after one page.
BudgetHolds ==
    pc = "reading" => \/ clock < deadline
                      \/ \E d \in Durations : clock + Wait[table] < deadline + Later(Gap, 4 * d)

\* Within a table a page starts no earlier than the gap, and four times the duration
\* of the page before it, after that page.  Only a job whose own pause is as long as
\* the one that reopens the connection may start when that pause is over.
ThrottleHolds ==
    pc = "reading" /\ last # NoKey =>
        clock >= owed \/ (Wait[table] >= Reopen /\ clock >= ended + Wait[table])

\* SOURCE_SAFETY.md:16: a page that took long is followed by a pause of four times
\* its duration.  It does not hold: the new connection has forgotten the page.
FourfoldPause == pc = "reading" /\ last # NoKey => clock >= owed

-----------------------------------------------------------------------------
(* The inductive invariant; it needs exact keys. *)

\* Keys come back as they were sent, and `=` and `>` follow the order of ORDER BY.
\* Not so for FLOAT (the driver rounds), a negative TIME (its encoder is the one that
\* bind_value avoids, and keyset() does not call bind_value), ENUM and SET (ordered by
\* their index, compared with a parameter as strings).
ExactKeys ==
    /\ \A k \in Key : Seen[k] = k
    /\ \A k, l \in Key, i \in 1..Width : Compared[k][i] > Compared[l][i] <=> k[i] > l[i]

\* Rows up to last are in the file if they stayed, rows behind it are not.
PositionInv ==
    InTable /\ hasKey[table] =>
        IF last = NoKey THEN copied = {}
        ELSE /\ \A c \in copied : c = last \/ Precedes(c, last)
             /\ \A k \in kept \ copied : Precedes(last, k)

\* Inside the loop the limit is not reached, and only keyed tables get there.
LoopInv ==
    /\ pc \in {"page", "reading", "pause"} => hasKey[table] /\ (limit # 0 => count < limit)
    /\ pc = "whole" => ~hasKey[table] /\ limit # 0 /\ limit <= MaxRows
    /\ pc # "preflight" /\ pc # "failed" =>
           \A t \in Table : hasKey[t] \/ (limit # 0 /\ limit <= MaxRows)

\* What the connection remembers of the last page, or the pause that made it forget.
TimeInv ==
    /\ pc = "pause" => /\ ended = clock /\ nextRead = owed
                       /\ \E d \in Durations : owed = clock + Later(Gap, 4 * d)
    /\ pc = "page" =>
           \/ /\ nextRead = 0
              /\ last # NoKey => Wait[table] >= Reopen /\ clock >= ended + Wait[table]
           \/ /\ nextRead = owed
              /\ \E d \in Durations : owed + Wait[table] = clock + Later(Gap, 4 * d)

EInv ==
    /\ TypeOK /\ NoRowTwice /\ LimitHolds /\ CompleteFile /\ PositionInv /\ LoopInv
    /\ TimeInv /\ BudgetHolds /\ ThrottleHolds
=============================================================================
