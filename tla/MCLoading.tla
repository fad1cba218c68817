------------------------------ MODULE MCLoading ------------------------------
(* Small instance of Loading: files of up to four lines, each of size 1 or 3.  *)
EXTENDS Loading

SmallFiles ==
    UNION {{f \in [1..n -> 1..12] : \A i \in 1..n : Offset(f, i) - Offset(f, i - 1) \in {1, 3}} : n \in 0..4}
=============================================================================
