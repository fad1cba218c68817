------------------------------ MODULE MCScreens ------------------------------
(* Instances of Screens for TLC. *)
EXTENDS Screens, TLC

CONSTANTS s1, s2, t1, t2, a, b, j1, j2

\* The jobs read one of the sources; the other is registered beside it.
OneSource == {[source |-> s1, target |-> t1], [source |-> s1, target |-> t2]}

ToT1 == [source |-> s1, target |-> t1]

InstanceSymmetry ==
    Permutations(Tab) \cup Permutations(Run)
=============================================================================
