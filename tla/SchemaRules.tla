----------------------------- MODULE SchemaRules -----------------------------
(* snapshot/db.py: what a source table makes of its snapshot table.  A table   *)
(* as information_schema shows it is a record                                  *)
(*   [columns : Seq([name, type, nullable, extra]),                            *)
(*    indexes : Seq([name, unique, parts : Seq([column, prefix])]),            *)
(*    guarded : it has triggers, foreign keys or checks]                       *)
(* with the indexes in the order of their names.                               *)
EXTENDS Naturals, SequencesExt, FiniteSetsExt

CONSTANTS
    Null,         \* NULL in a row
    Supported,    \* types that column_ddl takes
    Timestamp,    \* the type that MariaDB may update by itself
    Date,         \* the type of snapshot_date
    DateName,     \* snapshot_date
    DateNames     \* its spellings: names that casefold to it

ASSUME SchemaAssumption ==
    /\ DateName \in DateNames /\ DateNames \subseteq STRING
    /\ Timestamp \in Supported /\ Date \in Supported /\ Supported \subseteq STRING

ColumnRecord == [name : STRING, type : STRING, nullable : BOOLEAN, extra : BOOLEAN]
PartRecord == [column : STRING, prefix : BOOLEAN]
IndexRecord == [name : STRING, unique : BOOLEAN, parts : Seq(PartRecord)]
TableRecord == [columns : Seq(ColumnRecord), indexes : Seq(IndexRecord), guarded : BOOLEAN]

Names(parts) == [i \in 1..Len(parts) |-> parts[i].column]
Column(t, name) == CHOOSE c \in ToSet(t.columns) : c.name = name

\* Every index names columns of its table; a primary key is unique, its columns NOT NULL.
WellFormed(t) ==
    /\ t \in TableRecord
    /\ \A i \in ToSet(t.indexes) :
         /\ i.name = "PRIMARY" => i.unique
         /\ \A p \in ToSet(i.parts) : /\ p.column \in {c.name : c \in ToSet(t.columns)}
                                      /\ i.name = "PRIMARY" => ~Column(t, p.column).nullable

-----------------------------------------------------------------------------
(* schema, expected_schema. *)

Uniques(t) == {i \in ToSet(t.indexes) : i.unique}

\* Mutant: columns that may be NULL make a key.
IdentifiesOrNull(t, index) == \A p \in ToSet(index.parts) : ~p.prefix

\* A unique index that identifies every row: whole columns, NOT NULL.
Identifies(t, index) ==
    \A p \in ToSet(index.parts) : ~p.prefix /\ ~Column(t, p.column).nullable

\* The columns of the first of the indexes at these places, if there is one.
FirstOf(t, places) == IF places = {} THEN << >> ELSE Names(t.indexes[Min(places)].parts)

Primary(t) == FirstOf(t, {n \in 1..Len(t.indexes) : t.indexes[n].name = "PRIMARY"})

\* Columns of the primary key, else of the first unique index that identifies rows.
Key(t) ==
    IF Primary(t) # << >> THEN Primary(t)
    ELSE FirstOf(t, {n \in 1..Len(t.indexes) : t.indexes[n].unique /\ Identifies(t, t.indexes[n])})

Schema(t) ==
    [columns |-> t.columns,
     pk      |-> Primary(t),
     key     |-> Key(t),
     unique  |-> {<<i.name, Names(i.parts)>> : i \in Uniques(t)},
     indexes |-> t.indexes]

\* preflight goes on: no column is called snapshot_date, every type is known.
Takes(s) ==
    \A c \in ToSet(s.columns) : c.name \notin DateNames /\ c.type \in Supported

ExpectedSchema(s) ==
    LET key == IF s.pk = << >> THEN << >> ELSE <<DateName>> \o s.pk
        Plain(c) == [c EXCEPT !.extra = FALSE]
    IN [columns |-> [i \in 1..Len(s.columns) |-> Plain(s.columns[i])]
                        \o <<[name |-> DateName, type |-> Date, nullable |-> FALSE, extra |-> FALSE]>>,
        pk |-> key, key |-> key,
        unique |-> IF key = << >> THEN {} ELSE {<<"PRIMARY", key>>}]

-----------------------------------------------------------------------------
(* create_sql, and the table the server makes of it. *)

\* column_ddl writes DEFAULT '1970-01-02'.
HasDefault(c) == c.type = Timestamp /\ ~c.nullable

\* Mutant: a table without a primary key gets no index.
IndexIfKeyed(e) == IF e.pk # << >> THEN <<[name |-> "PRIMARY", unique |-> TRUE, columns |-> e.pk]>> ELSE << >>

IndexDdl(e) ==
    IF e.pk # << >> THEN <<[name |-> "PRIMARY", unique |-> TRUE, columns |-> e.pk]>>
    ELSE <<[name |-> "snapshot_date_idx", unique |-> FALSE, columns |-> <<DateName>>]>>

\* A timestamp that is NOT NULL and has no default updates itself.
Created(e) ==
    LET Made(c) == [c EXCEPT !.extra = c.type = Timestamp /\ ~c.nullable /\ ~HasDefault(c)]
        Whole(names) == [i \in 1..Len(names) |-> [column |-> names[i], prefix |-> FALSE]]
        ddl == IndexDdl(e)
    IN [columns |-> [i \in 1..Len(e.columns) |-> Made(e.columns[i])],
        indexes |-> [i \in 1..Len(ddl) |->
                       [name |-> ddl[i].name, unique |-> ddl[i].unique, parts |-> Whole(ddl[i].columns)]],
        guarded |-> FALSE]

-----------------------------------------------------------------------------
(* compare_schema, has_leading_index, the checks of prepare. *)

\* Mutant: further unique indexes are not looked at.
MatchesPrimary(s, e) ==
    LET Clean(cols) == [i \in 1..Len(cols) |-> [cols[i] EXCEPT !.extra = FALSE]]
    IN /\ Clean(s.columns) = Clean(e.columns) /\ s.pk = e.pk
       /\ \A c \in ToSet(s.columns) : ~c.extra

Matches(s, e) ==
    LET Clean(cols) == [i \in 1..Len(cols) |-> [cols[i] EXCEPT !.extra = FALSE]]
    IN /\ Clean(s.columns) = Clean(e.columns) /\ s.pk = e.pk /\ s.unique = e.unique
       /\ \A c \in ToSet(s.columns) : ~c.extra

HasLeadingIndex(s) ==
    \E i \in ToSet(s.indexes) : i.parts[1].column \in DateNames /\ ~i.parts[1].prefix

\* prepare of a target table that exists.
Accepts(t, e) == Matches(Schema(t), e) /\ HasLeadingIndex(Schema(t)) /\ ~t.guarded

\* compare._metadata: the columns that identify a row of one date, none when it refuses.
DayKey(t) == IF HasLeadingIndex(Schema(t)) THEN ToSet(Key(t)) \ DateNames ELSE {}

-----------------------------------------------------------------------------
(* What the server does with rows: functions from column names to values.      *)

Fits(t, row) == \A c \in ToSet(t.columns) : row[c.name] = Null => c.nullable

\* Two rows that a unique index does not let stand side by side; a prefix
\* index does not tell two values apart.
Collide(index, r1, r2) ==
    \A p \in ToSet(index.parts) :
        LET a == r1[p.column]
            b == r2[p.column]
        IN a # Null /\ b # Null /\ (p.prefix \/ a = b)

SideBySide(t, r1, r2) ==
    /\ Fits(t, r1) /\ Fits(t, r2)
    /\ \A i \in Uniques(t) : ~Collide(i, r1, r2)

Rows(t, values) == [{c.name : c \in ToSet(t.columns)} -> values]

-----------------------------------------------------------------------------
(* What these rules promise. *)

\* The table a run creates is one that the next run, and the check before the
\* publication of the same run, accepts.
CreatesWhatItAccepts(source) ==
    LET e == ExpectedSchema(Schema(source))
    IN Takes(Schema(source)) => Accepts(Created(e), e)

\* Two rows that stand side by side in the source can, on any two dates, stand
\* side by side in a target table that is accepted, unless its key cuts values.
TakesEverySnapshot(source, target, values, days) ==
    LET Dated(row, day) == [n \in DOMAIN row \cup {DateName} |-> IF n = DateName THEN day ELSE row[n]]
        whole == \A i \in ToSet(target.indexes) : \A p \in ToSet(i.parts) : ~p.prefix
    IN whole /\ Takes(Schema(source)) /\ Accepts(target, ExpectedSchema(Schema(source))) =>
         \A r1, r2 \in Rows(source, values) : SideBySide(source, r1, r2) =>
             \A d1, d2 \in days : SideBySide(target, Dated(r1, d1), Dated(r2, d2))

\* Two rows of the source differ in the key the pages follow, and have one: a
\* page never ends between two rows of the same key.
KeyTellsRowsApart(source, values) ==
    Key(source) # << >> =>
        \A r1, r2 \in Rows(source, values) : SideBySide(source, r1, r2) =>
            \E n \in ToSet(Key(source)) : r1[n] # r2[n]

\* No two rows of one date fall together under the key of the comparison.
DayKeyTellsRowsApart(t, values) ==
    DayKey(t) # {} =>
        \A r1, r2 \in Rows(t, values) :
            SideBySide(t, r1, r2) /\ (\A n \in DateNames \cap DOMAIN r1 : r1[n] = r2[n]) =>
                \E n \in DayKey(t) : r1[n] # r2[n]

=============================================================================
