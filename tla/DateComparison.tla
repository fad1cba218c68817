---------------------------- MODULE DateComparison ----------------------------
(* snapshot/compare.py: two dates of a snapshot table, with at most maxRows    *)
(* rows of each and maxResults differences.  The rows of a date are a function *)
(* from keys to values; the server orders keys in its way, the page by their   *)
(* repr.  Which rows are read and listed is modelled, not in what order.       *)
EXTENDS Integers, FiniteSetsExt

CONSTANTS Keys,         \* the keys of rows
          ServerRank,   \* the place of a key when the server orders them,
          ReprRank      \* and when they are ordered by repr

Ranks == {rank \in [Keys -> Nat] : \A k, m \in Keys : rank[k] = rank[m] => k = m}

ASSUME ComparisonAssumption == ServerRank \in Ranks /\ ReprRank \in Ranks

\* ORDER BY with the LIMIT n, and sorted(keys)[:n].
First(keys, rank, n) ==
    CHOOSE T \in kSubset(Min({n, Cardinality(keys)}), keys) : \A k \in T, m \in keys \ T : rank[k] < rank[m]

\* Mutant: LIMIT leaves out the row that shows that there are more.
LoadToLimit(rows, maxRows) ==
    LET got == First(DOMAIN rows, ServerRank, maxRows)
    IN [keys |-> got, truncated |-> Cardinality(got) > maxRows]

\* load: one row more is asked for than is compared.
Load(rows, maxRows) ==
    LET got == First(DOMAIN rows, ServerRank, maxRows + 1)
    IN [keys |-> First(got, ServerRank, maxRows), truncated |-> Cardinality(got) > maxRows]

\* Mutant: only rows that came or went count.
CountMoved(added, removed, changed) == Cardinality(added) + Cardinality(removed)

\* total_changes
CountAll(added, removed, changed) == Cardinality(added) + Cardinality(removed) + Cardinality(changed)

Differing(older, newer, keys) == {k \in keys : older[k] # newer[k]}

Compare(older, newer, maxRows, maxResults) ==
    LET old == Load(older, maxRows)
        new == Load(newer, maxRows)
        adds == new.keys \ old.keys
        removes == old.keys \ new.keys
        changes == Differing(older, newer, old.keys \cap new.keys)
        added == First(adds, ReprRank, maxResults)
        removed == First(removes, ReprRank, maxResults - Cardinality(added))
        changed == First(changes, ReprRank, maxResults - Cardinality(added) - Cardinality(removed))
    IN [added |-> added, removed |-> removed, changed |-> changed,
        truncated |-> old.truncated \/ new.truncated,
        resultsTruncated |-> CountAll(adds, removes, changes) > maxResults]

-----------------------------------------------------------------------------
(* What a comparison promises. *)

\* A comparison that carries neither mark is the whole difference of the dates.
UnmarkedIsWhole(older, newer, maxRows, maxResults) ==
    LET c == Compare(older, newer, maxRows, maxResults)
        both == DOMAIN older \cap DOMAIN newer
    IN ~c.truncated /\ ~c.resultsTruncated =>
         /\ c.added = DOMAIN newer \ DOMAIN older
         /\ c.removed = DOMAIN older \ DOMAIN newer
         /\ c.changed = Differing(older, newer, both)

\* What is listed are differences of the rows that were read, each once; some are
\* left out only under the mark, and then as many are listed as were asked for.
MarkedIsFull(older, newer, maxRows, maxResults) ==
    LET c == Compare(older, newer, maxRows, maxResults)
        loaded(rows) == Load(rows, maxRows).keys
        listed == Cardinality(c.added) + Cardinality(c.removed) + Cardinality(c.changed)
        met == {k \in loaded(older) \cup loaded(newer) :
                  k \in loaded(older) \cap loaded(newer) => older[k] # newer[k]}
    IN /\ listed = (IF c.resultsTruncated THEN maxResults ELSE Cardinality(met))
       /\ c.added \cup c.removed \cup c.changed \in kSubset(listed, met)

=============================================================================
