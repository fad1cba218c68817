---------------------------- MODULE MCExtraction ----------------------------
(* Instances of Extraction for TLC. *)
EXTENDS Extraction

\* Keys the driver returns as they are.
Exact == [k \in Key |-> k]

\* Two key columns; groups of two rows share the first one.
Pairs == {<<0, 0>>, <<0, 1>>, <<1, 0>>, <<1, 1>>}
OneThenTwo == <<1, 2>>
ShortAndLong == <<1, 12>>
FullOrThree == {0, 3}

\* The longest page owes more than the pause that reopens the connection.
Slow == {0, 1, 4}
Quick == {0, 1}
=============================================================================
