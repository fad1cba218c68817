------------------------------ MODULE Operators ------------------------------
(* The sequential rules, each over a set of inputs: a behaviour takes one      *)
(* input and has it judged.                                                    *)
EXTENDS SchemaRules, DateComparison, Conversions

CONSTANTS
    Sources,   \* tables of a source server
    Targets,   \* tables of the target
    Values,    \* what a column of a row may hold
    Days,      \* snapshot dates
    DayRows,   \* the rows of one date: functions on keys
    RowLimits, \* bounds on the rows of a date
    Limits,    \* bounds on the differences
    Times      \* TIME values

ASSUME OperatorsAssumption ==
    /\ \A t \in Sources \cup Targets : WellFormed(t)
    /\ Null \notin Days
    /\ \A rows \in DayRows : DOMAIN rows \subseteq Keys /\ IsFiniteSet(DOMAIN rows)
    /\ RowLimits \subseteq Nat /\ Limits \subseteq Nat /\ Times \subseteq Int

VARIABLES input, judged

-----------------------------------------------------------------------------
\* Sources that preflight takes, targets that are of the schema of one of them.
Taken == {s \in Sources : Takes(Schema(s))}
Matched == {t \in Targets : \E s \in Taken : Matches(Schema(t), ExpectedSchema(Schema(s)))}

Inputs ==
    {[kind |-> "source", source |-> s] : s \in Sources}
    \cup {[kind |-> "target", target |-> t] : t \in Targets}
    \cup {[kind |-> "pair", source |-> s, target |-> t] : s \in Taken, t \in Matched}
    \cup {[kind |-> "rows", older |-> o, newer |-> n, rows |-> m, results |-> r] :
            o \in DayRows, n \in DayRows, m \in RowLimits, r \in Limits}
    \cup {[kind |-> "time", total |-> t] : t \in Times}

Init == input \in Inputs /\ judged = FALSE
Judge == ~judged /\ judged' = TRUE /\ UNCHANGED input
Next == Judge
Spec == Init /\ [][Next]_<<input, judged>>

Given(kind) == judged /\ input.kind = kind

-----------------------------------------------------------------------------
\* db.create_sql and prepare: the table that a run creates is accepted later on.
CreatedIsAccepted == Given("source") => CreatesWhatItAccepts(input.source)

\* db.schema and compare._metadata: the key that pages follow tells any two rows of
\* the source apart, the key of the comparison any two rows of one date.
KeysTellRowsApart ==
    /\ Given("source") => KeyTellsRowsApart(input.source, Values)
    /\ Given("target") => DayKeyTellsRowsApart(input.target, Values)

\* db.compare_schema: an accepted target refuses no snapshot of its source.
AcceptedTakesSnapshots ==
    Given("pair") => TakesEverySnapshot(input.source, input.target, Values, Days)

\* compare.compare: a comparison without a mark is the whole difference.
ComparisonIsWhole ==
    Given("rows") => UnmarkedIsWhole(input.older, input.newer, input.rows, input.results)

\* compare.compare: what is listed are differences, left out only under a mark.
ComparisonIsMarked ==
    Given("rows") => MarkedIsFull(input.older, input.newer, input.rows, input.results)

\* codec and db.bind_value: a TIME arrives as it was.
TimeIsKept == Given("time") => TimeArrives(input.total)
=============================================================================
