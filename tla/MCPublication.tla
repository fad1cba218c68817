--------------------------- MODULE MCPublication ---------------------------
(***************************************************************************)
(* Instances of Publication for TLC.  Every run of the instance is made    *)
(* for one date, or the runs are made for two dates in turn.               *)
(***************************************************************************)
EXTENDS PublicationInv, TLC

CONSTANTS r1, r2, d1, d2, u1, u2

SameDate == [r \in Run |-> d1]
TwoDates == [r \in Run |-> IF r = r1 THEN d1 ELSE d2]

ScreenSymmetry == Permutations(Screen)
RunSymmetry == Permutations(Run)
=============================================================================
