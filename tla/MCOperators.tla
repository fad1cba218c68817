----------------------------- MODULE MCOperators -----------------------------
(* The inputs of the sequential rules: tables with the indexes that make a     *)
(* difference, all small sets of rows, the times around every part of a clock. *)
EXTENDS Operators

-----------------------------------------------------------------------------
(* Tables. *)

Part(name) == [column |-> name, prefix |-> FALSE]
Index(name, unique, parts) == [name |-> name, unique |-> unique, parts |-> parts]
Pk(parts) == Index("PRIMARY", TRUE, parts)
DatePart == Part("snapshot_date")
Cut == [column |-> "n", prefix |-> TRUE]

Col(name, type, nullable, extra) == [name |-> name, type |-> type, nullable |-> nullable, extra |-> extra]

SourceColumns ==
    {<<Col("id", "int", FALSE, x), Col("n", t, b, x)>> :
        x \in BOOLEAN, b \in BOOLEAN, t \in {"int", "timestamp", "json"}}
    \cup {<<Col("id", "int", FALSE, FALSE), Col(d, "date", TRUE, FALSE)>> : d \in {"snapshot_date", "SNAPSHOT_DATE"}}

\* In the order of the names; PRIMARY is not always the first.
SourceIndexes ==
    {p \o u : p \in {<< >>, <<Index("A", TRUE, <<Part("id")>>)>>, <<Index("A", TRUE, <<Part("n")>>)>>,
                     <<Index("A", TRUE, <<Part("id"), Part("n")>>)>>, <<Index("A", TRUE, <<Cut>>)>>},
              u \in {<< >>, <<Pk(<<Part("id")>>)>>, <<Pk(<<Part("n"), Part("id")>>)>>,
                     <<Index("Z", TRUE, <<Part("id")>>)>>, <<Index("Z", FALSE, <<Part("n")>>)>>}}

Table(columns, indexes, guarded) == [columns |-> columns, indexes |-> indexes, guarded |-> guarded]

SourceTables == {t \in {Table(c, i, FALSE) : c \in SourceColumns, i \in SourceIndexes} : WellFormed(t)}

TargetColumns ==
    {c \o <<Col("snapshot_date", "date", b, FALSE)>> : c \in {c \in SourceColumns : c[2].type = "int"}, b \in BOOLEAN}

TargetIndexes ==
    {u \o p \o k :
        u \in {<< >>, <<Index("A", TRUE, <<Part("id")>>)>>, <<Index("A", TRUE, <<DatePart, Part("n")>>)>>},
        p \in {<< >>, <<Pk(<<DatePart, Part("id")>>)>>, <<Pk(<<DatePart, Part("n"), Part("id")>>)>>,
               <<Pk(<<Part("id"), DatePart>>)>>, <<Pk(<<DatePart>>)>>, <<Pk(<<DatePart, Cut>>)>>},
        k \in {<< >>, <<Index("Z", FALSE, <<DatePart>>)>>}}

TargetTables == {t \in {Table(c, i, g) : c \in TargetColumns, i \in TargetIndexes, g \in BOOLEAN} : WellFormed(t)}

\* 0 stands for NULL; the dates are two of the values.
SomeValues == 0..2
SomeDays == 1..2

-----------------------------------------------------------------------------
(* Dates, times. *)

SomeKeys == 1..4
KeyOrder == <<1, 2, 3, 4>>
ReprOrder == <<3, 1, 4, 2>>
SomeDayRows == UNION {[S -> 1..2] : S \in SUBSET SomeKeys}

\* Around zero and around every part of the clock, to the ends of TIME and beyond.
SomeTimes ==
    LET parts == {1, Micro, Second * Micro, Hour * Second * Micro, DaySeconds * Micro, 35 * DaySeconds * Micro}
        near == {k * p + e : k \in 0..2, p \in parts, e \in -2..2}
    IN near \cup {-x : x \in near}
=============================================================================
