--------------------------- MODULE LoadingTheorems ---------------------------
(* The batches of any file cover it, and a staging table that is ready holds   *)
(* its file, for any files, bounds and number of retries.  The loop over the   *)
(* lines is a recursive function; what it computes is proved by induction,     *)
(* which the first lemmas provide for sets of numbers.                         *)
EXTENDS Loading, FiniteSetTheorems, TLAPS

\* A set of numbers has a least one.
LEMMA LeastNatural ==
  ASSUME NEW S \in SUBSET Nat, S # {}
  PROVE  \E n \in S : \A m \in S : n <= m
<1> DEFINE R == OpToRel(<, Nat)
<1>1. IsWellFoundedOn(R, Nat)
  BY NatLessThanWellFounded
<1>2. \A x, y \in Nat : y < x => <<y, x>> \in R
  BY DEF OpToRel
<1> HIDE DEF R
<1>3. PICK x \in S : \A y \in S : <<y, x>> \notin R
  BY <1>1, WFMin
<1>4. ASSUME NEW m \in S PROVE x <= m
  <2>1. x \in Nat /\ m \in Nat /\ <<m, x>> \notin R
    BY <1>3
  <2> QED BY <2>1, <1>2
<1> QED BY <1>4

\* Induction up to a bound, for the set of the numbers that satisfy a formula.
LEMMA Induction ==
  ASSUME NEW L \in Nat, NEW S, 0 \in S, \A n \in 1..L : n - 1 \in S => n \in S
  PROVE  0..L \subseteq S
<1> DEFINE Bad == (0..L) \ S
<1> SUFFICES ASSUME Bad # {} PROVE FALSE
  OBVIOUS
<1>1. PICK n \in Bad : \A m \in Bad : n <= m
  <2>1. Bad \in SUBSET Nat
    OBVIOUS
  <2> HIDE DEF Bad
  <2> QED BY <2>1, LeastNatural
<1>2. n \in 1..L /\ n - 1 \notin Bad
  BY <1>1
<1> QED BY <1>1, <1>2

\* Values that follow from one another, L times, from a first one.
IsIteration(f, S, b, L, G) ==
  f \in [0..L -> S] /\ f[0] = b /\ \A n \in 1..L : f[n] = G[<<f[n - 1], n>>]

\* For every step function there are such values.
LEMMA Recursion ==
  ASSUME NEW S, NEW b \in S, NEW L \in Nat, NEW G \in [S \X (1..L) -> S]
  PROVE  \E f : IsIteration(f, S, b, L, G)
<1> DEFINE Upto(k, f) == f[0] = b /\ \A n \in 1..L : n <= k => f[n] = G[<<f[n - 1], n>>]
           Good == {k \in 0..L : \E f \in [0..L -> S] : Upto(k, f)}
<1>1. 0 \in Good
  <2> DEFINE f == [n \in 0..L |-> b]
  <2>1. f \in [0..L -> S] /\ f[0] = b
    OBVIOUS
  <2> HIDE DEF f
  <2> QED BY <2>1
<1>2. ASSUME NEW k \in 1..L, k - 1 \in Good PROVE k \in Good
  <2>1. PICK f \in [0..L -> S] : Upto(k - 1, f)
    BY <1>2
  <2> DEFINE g == [f EXCEPT ![k] = G[<<f[k - 1], k>>]]
  <2>2. k - 1 \in 0..L /\ <<f[k - 1], k>> \in S \X (1..L)
    OBVIOUS
  <2>3. g \in [0..L -> S] /\ g[0] = b
    BY <2>1, <2>2
  <2>4. ASSUME NEW n \in 1..L, n <= k PROVE g[n] = G[<<g[n - 1], n>>]
    <3>1. g[n - 1] = f[n - 1]
      BY <2>4
    <3>2. CASE n = k
      <4>1. g[n] = G[<<f[k - 1], k>>]
        BY <3>2
      <4> QED BY <3>1, <3>2, <4>1
    <3>3. CASE n # k
      BY <2>1, <2>4, <3>1, <3>3
    <3> QED BY <3>2, <3>3
  <2> HIDE DEF g
  <2>5. Upto(k, g)
    BY <2>3, <2>4
  <2> QED BY <2>3, <2>5
<1> HIDE DEF Good
<1>3. L \in Good
  BY <1>1, <1>2, Induction
<1> QED BY <1>3 DEF Good, IsIteration
-----------------------------------------------------------------------------
(* The loop of codec.batches. *)

LoopState == [done : Nat, rows : Nat, size : Int]

Bytes(lines, n) == Offset(lines, n) - Offset(lines, n - 1)

\* The recursive function is what its equations say.
LEMMA BatchesUnfold ==
  ASSUME NEW lines \in Seq(Nat)
  PROVE  /\ Batches(lines) \in [0..Len(lines) -> LoopState]
         /\ Batches(lines)[0] = [done |-> 0, rows |-> 0, size |-> 0]
         /\ \A n \in 1..Len(lines) : Batches(lines)[n] = Take(Batches(lines)[n - 1], Bytes(lines, n))
<1> DEFINE L == Len(lines)
           b == [done |-> 0, rows |-> 0, size |-> 0]
           G == [p \in LoopState \X (1..L) |-> Take(p[1], Bytes(lines, p[2]))]
           Is(s) == s = [n \in 0..L |-> IF n = 0 THEN b ELSE Take(s[n - 1], Bytes(lines, n))]
<1>1. L \in Nat /\ b \in LoopState
  BY DEF LoopState
<1>2. \A n \in 1..L : Bytes(lines, n) \in Int
  BY DEF Bytes, Offset
<1>3. \A s \in LoopState, n \in 1..L : Take(s, Bytes(lines, n)) \in LoopState
  BY <1>2 DEF Take, LoopState
<1>4. G \in [LoopState \X (1..L) -> LoopState]
  BY <1>3
<1>5. \A s \in LoopState, n \in 1..L : G[<<s, n>>] = Take(s, Bytes(lines, n))
  OBVIOUS
<1>6. Batches(lines) = CHOOSE s : Is(s)
  BY DEF Batches, Bytes
<1> HIDE DEF L, b, G
<1>7. PICK f : IsIteration(f, LoopState, b, L, G)
  BY <1>1, <1>4, Recursion
<1>8. f \in [0..L -> LoopState] /\ f[0] = b
  BY <1>7 DEF IsIteration
<1>9. ASSUME NEW n \in 1..L PROVE f[n] = Take(f[n - 1], Bytes(lines, n))
  <2>1. n - 1 \in 0..L
    BY <1>1
  <2> QED BY <1>5, <1>7, <1>8, <2>1 DEF IsIteration
<1>10. Is(f)
  BY <1>1, <1>8, <1>9
<1> DEFINE s == Batches(lines)
<1>11. Is(s)
  BY <1>6, <1>10
<1> HIDE DEF s
<1>12. s[0] = b /\ \A n \in 1..L : s[n] = Take(s[n - 1], Bytes(lines, n))
  BY <1>1, <1>11
<1> DEFINE Same == {n \in 0..L : s[n] = f[n]}
<1>13. 0..L \subseteq Same
  <2>1. 0 \in Same
    BY <1>1, <1>8, <1>12
  <2>2. ASSUME NEW n \in 1..L, n - 1 \in Same PROVE n \in Same
    BY <1>1, <1>9, <1>12, <2>2
  <2> HIDE DEF Same
  <2> QED BY <1>1, <2>1, <2>2, Induction
<1>14. s = [n \in 0..L |-> s[n]]
  BY <1>11
<1>15. s = f
  BY <1>8, <1>13, <1>14
<1> QED BY <1>8, <1>12, <1>15 DEF L, b, s

\* The batch that line m goes into, and when the lines a..z fill one.
At(lines, m) == Batches(lines)[m - 1].done + 1
Fill(lines, a, z) == z - a + 1 = MaxRows \/ Offset(lines, z) - Offset(lines, a - 1) >= MaxBytes

\* The lines a..z are those of the first n that go into batch b, which they fill.
Piece(lines, n, b, a, z) ==
  /\ \A m \in 1..n : At(lines, m) = b <=> m \in a..z
  /\ a <= z /\ z - a + 1 <= MaxRows
  /\ Fill(lines, a, z) /\ (a < z => ~Fill(lines, a, z - 1))

\* The invariant of the loop, after n lines.
LoopInv(lines, n) ==
  LET s == Batches(lines)[n]
  IN /\ s.rows <= n /\ s.size = Offset(lines, n) - Offset(lines, n - s.rows)
     /\ s.rows # 0 => s.rows < MaxRows /\ s.size < MaxBytes
     /\ s.rows > 1 => ~Fill(lines, n - s.rows + 1, n - 1)
     /\ \A m \in 1..n : IF m <= n - s.rows THEN At(lines, m) \in 1..s.done
                        ELSE At(lines, m) = s.done + 1
     /\ \A b \in 1..s.done : \E a, z \in 1..(n - s.rows) : Piece(lines, n, b, a, z)

\* Where the lines of an open batch with r rows begin, when n is its next line.
LEMMA OpenLines ==
  ASSUME NEW L \in Nat, NEW n \in 1..L, NEW r \in Nat, r <= n - 1
  PROVE  /\ (n - 1) - r \in 0..L /\ (n - 1) - r <= n - 1 /\ n - r \in 1..n
         /\ (n - r) - 1 = (n - 1) - r /\ n - (n - r) + 1 = r + 1 /\ (n - 1) - (n - r) + 1 = r
         /\ \A m \in 1..((n - 1) - r) : m \in 1..n /\ m < n
         /\ \A m \in 1..n : m \in (n - r)..n <=> ~(m <= (n - 1) - r)
OBVIOUS

\* One more line keeps it.
LEMMA LoopStep ==
  ASSUME NEW lines \in Seq(Nat), NEW n \in 1..Len(lines), LoopInv(lines, n - 1)
  PROVE  LoopInv(lines, n)
<1> DEFINE s == Batches(lines)[n - 1]
           t == Batches(lines)[n]
<1> USE LoadingAssumption
<1>1. Len(lines) \in Nat /\ n \in Nat \ {0} /\ n - 1 \in 0..Len(lines) /\ n \in 0..Len(lines)
  OBVIOUS
<1>2. s \in LoopState /\ t = Take(s, Bytes(lines, n))
  BY <1>1, BatchesUnfold
<1>3. \A m \in 0..Len(lines) : Offset(lines, m) \in Int
  BY DEF Offset
<1>4. /\ s.rows <= n - 1 /\ s.size = Offset(lines, n - 1) - Offset(lines, (n - 1) - s.rows)
      /\ s.rows # 0 => s.rows < MaxRows /\ s.size < MaxBytes
      /\ \A m \in 1..(n - 1) : IF m <= (n - 1) - s.rows THEN At(lines, m) \in 1..s.done
                               ELSE At(lines, m) = s.done + 1
      /\ \A b \in 1..s.done : \E a, z \in 1..((n - 1) - s.rows) : Piece(lines, n - 1, b, a, z)
  BY DEF LoopInv
<1>5. At(lines, n) = s.done + 1
  BY DEF At
<1> HIDE DEF s, t
<1>6. s.done \in Nat /\ s.rows \in Nat /\ s.size \in Int
  BY <1>2 DEF LoopState
<1>7. /\ (n - 1) - s.rows \in 0..Len(lines) /\ (n - 1) - s.rows <= n - 1 /\ n - s.rows \in 1..n
      /\ (n - s.rows) - 1 = (n - 1) - s.rows /\ n - (n - s.rows) + 1 = s.rows + 1
      /\ (n - 1) - (n - s.rows) + 1 = s.rows
      /\ \A m \in 1..((n - 1) - s.rows) : m \in 1..n /\ m < n
      /\ \A m \in 1..n : m \in (n - s.rows)..n <=> ~(m <= (n - 1) - s.rows)
  <2>1. Len(lines) \in Nat /\ n \in 1..Len(lines) /\ s.rows \in Nat /\ s.rows <= n - 1
    BY <1>1, <1>4, <1>6
  <2> DEFINE L == Len(lines)
             r == s.rows
  <2> HIDE DEF L, r
  <2>2. L \in Nat /\ n \in 1..L /\ r \in Nat /\ r <= n - 1
    BY <2>1 DEF L, r
  <2>3. /\ (n - 1) - r \in 0..L /\ (n - 1) - r <= n - 1 /\ n - r \in 1..n
        /\ (n - r) - 1 = (n - 1) - r /\ n - (n - r) + 1 = r + 1 /\ (n - 1) - (n - r) + 1 = r
        /\ \A m \in 1..((n - 1) - r) : m \in 1..n /\ m < n
        /\ \A m \in 1..n : m \in (n - r)..n <=> ~(m <= (n - 1) - r)
    BY <2>2, OpenLines
  <2> QED BY <2>3 DEF L, r
<1>8. s.size + Bytes(lines, n) = Offset(lines, n) - Offset(lines, (n - 1) - s.rows)
  <2>1. /\ Offset(lines, n) \in Int /\ Offset(lines, n - 1) \in Int
        /\ Offset(lines, (n - 1) - s.rows) \in Int
    BY <1>1, <1>3, <1>7
  <2> QED BY <1>4, <2>1 DEF Bytes
<1>9. ASSUME NEW b \in 1..s.done
      PROVE  \E a, z \in 1..((n - 1) - s.rows) : Piece(lines, n, b, a, z)
  <2>1. PICK a, z \in 1..((n - 1) - s.rows) : Piece(lines, n - 1, b, a, z)
    BY <1>4
  <2>2. ASSUME NEW m \in 1..n PROVE At(lines, m) = b <=> m \in a..z
    <3>1. CASE m = n
      <4>1. z < n
        BY <1>7
      <4>2. m \notin a..z
        BY <1>1, <3>1, <4>1
      <4>3. At(lines, m) # b
        BY <1>5, <1>6, <3>1
      <4> QED BY <4>2, <4>3
    <3>2. CASE m # n
      <4>1. m \in 1..(n - 1)
        BY <1>1, <3>2
      <4> QED BY <2>1, <4>1 DEF Piece
    <3> QED BY <3>1, <3>2
  <2> QED BY <2>1, <2>2 DEF Piece
<1>10. s.rows # 0 => ~Fill(lines, n - s.rows, n - 1)
  <2>1. (n - s.rows) - 1 = (n - 1) - s.rows /\ (n - 1) - (n - s.rows) + 1 = s.rows
    BY <1>7
  <2>2. s.rows # 0 => s.rows < MaxRows /\ s.size < MaxBytes
    BY <1>4
  <2>3. s.rows < MaxRows /\ s.size < MaxBytes => s.rows # MaxRows /\ ~(s.size >= MaxBytes)
    BY <1>6
  <2>4. s.size = Offset(lines, n - 1) - Offset(lines, (n - s.rows) - 1)
    BY <1>4, <2>1
  <2> QED BY <2>1, <2>2, <2>3, <2>4 DEF Fill
<1>11. CASE Closes(s.rows + 1, s.size + Bytes(lines, n))
  <2>1. t = [done |-> s.done + 1, rows |-> 0, size |-> 0]
    BY <1>2, <1>11 DEF Take
  <2>2. ASSUME NEW m \in 1..n
        PROVE  At(lines, m) \in 1..(s.done + 1) /\ (At(lines, m) = s.done + 1 <=> m \in (n - s.rows)..n)
    <3>1. CASE m = n
      <4>1. s.done + 1 \in 1..(s.done + 1)
        BY <1>6
      <4>2. ~(n <= (n - 1) - s.rows)
        BY <1>1, <1>6
      <4> QED BY <1>5, <1>7, <3>1, <4>1, <4>2
    <3>2. CASE m # n
      <4>1. m \in 1..(n - 1)
        BY <1>1, <3>2
      <4>2. IF m <= (n - 1) - s.rows THEN At(lines, m) \in 1..s.done ELSE At(lines, m) = s.done + 1
        BY <1>4, <4>1
      <4>3. At(lines, m) \in 1..s.done => At(lines, m) \in 1..(s.done + 1) /\ At(lines, m) # s.done + 1
        BY <1>6
      <4>4. s.done + 1 \in 1..(s.done + 1)
        BY <1>6
      <4> QED BY <1>7, <4>2, <4>3, <4>4
    <3> QED BY <3>1, <3>2
  <2>3. Piece(lines, n, s.done + 1, n - s.rows, n)
    <3>1. n - s.rows <= n /\ n - (n - s.rows) + 1 = s.rows + 1 /\ s.rows + 1 <= MaxRows
      BY <1>1, <1>4, <1>6
    <3>2. Fill(lines, n - s.rows, n)
      <4>1. s.rows + 1 >= MaxRows \/ Offset(lines, n) - Offset(lines, (n - s.rows) - 1) >= MaxBytes
        BY <1>7, <1>8, <1>11 DEF Closes
      <4>2. s.rows + 1 >= MaxRows => s.rows + 1 = MaxRows
        BY <1>6, <3>1
      <4> QED BY <3>1, <4>1, <4>2 DEF Fill
    <3>3. n - s.rows < n => ~Fill(lines, n - s.rows, n - 1)
      BY <1>1, <1>6, <1>10
    <3> QED BY <2>2, <3>1, <3>2, <3>3 DEF Piece
  <2>4. ASSUME NEW b \in 1..(s.done + 1)
        PROVE  \E a, z \in 1..n : Piece(lines, n, b, a, z)
    <3>1. CASE b = s.done + 1
      BY <1>1, <1>7, <2>3, <3>1
    <3>2. CASE b # s.done + 1
      <4>1. b \in 1..s.done
        BY <1>6, <3>2
      <4>2. PICK a, z \in 1..((n - 1) - s.rows) : Piece(lines, n, b, a, z)
        BY <4>1, <1>9
      <4>3. a \in 1..n /\ z \in 1..n
        BY <1>1, <1>7
      <4> QED BY <4>2, <4>3
    <3> QED BY <3>1, <3>2
  <2>5. t.rows = 0 /\ t.size = 0 /\ t.done = s.done + 1 /\ n - 0 = n
    BY <2>1, <1>1
  <2>6. 0 = Offset(lines, n) - Offset(lines, n)
    BY <1>1, <1>3
  <2>7. ASSUME NEW m \in 1..n PROVE m <= n - t.rows /\ At(lines, m) \in 1..t.done
    BY <1>1, <2>2, <2>5
  <2>8. \A b \in 1..t.done : \E a, z \in 1..(n - t.rows) : Piece(lines, n, b, a, z)
    BY <2>4, <2>5
  <2>9. t.rows <= n /\ t.size = Offset(lines, n) - Offset(lines, n - t.rows)
    BY <1>1, <2>5, <2>6
  <2>10. t.rows = 0 /\ ~(t.rows > 1)
    BY <2>5
  <2> QED
    BY <2>7, <2>8, <2>9, <2>10 DEF LoopInv, t
<1>12. CASE ~Closes(s.rows + 1, s.size + Bytes(lines, n))
  <2>1. t = [done |-> s.done, rows |-> s.rows + 1, size |-> s.size + Bytes(lines, n)]
    BY <1>2, <1>12 DEF Take
  <2>2. /\ t.done = s.done /\ t.rows = s.rows + 1 /\ n - t.rows = (n - 1) - s.rows
        /\ t.size = s.size + Bytes(lines, n) /\ t.size = Offset(lines, n) - Offset(lines, n - t.rows)
    <3>1. t.done = s.done /\ t.rows = s.rows + 1 /\ t.size = s.size + Bytes(lines, n)
      BY <2>1
    <3>2. n - t.rows = (n - 1) - s.rows
      BY <1>1, <1>6, <3>1
    <3> QED BY <1>8, <3>1, <3>2
  <2>3. Offset(lines, n) \in Int /\ Offset(lines, (n - 1) - s.rows) \in Int
    BY <1>1, <1>3, <1>7
  <2>4. t.rows <= n /\ t.rows < MaxRows /\ t.size < MaxBytes
    <3>1. t.rows \in Int /\ t.size \in Int
      BY <1>6, <1>8, <2>2, <2>3
    <3>2. ~(t.rows >= MaxRows) /\ ~(t.size >= MaxBytes)
      BY <1>12, <2>2 DEF Closes
    <3>3. t.rows < MaxRows /\ t.size < MaxBytes
      BY <3>1, <3>2
    <3>4. s.rows <= n - 1
      BY <1>4
    <3> QED BY <1>1, <1>6, <2>2, <3>3, <3>4
  <2>5. ASSUME NEW m \in 1..n
        PROVE  IF m <= n - t.rows THEN At(lines, m) \in 1..t.done ELSE At(lines, m) = t.done + 1
    <3>1. CASE m = n
      BY <1>1, <1>5, <1>6, <2>2, <3>1
    <3>2. CASE m # n
      <4>1. m \in 1..(n - 1)
        BY <1>1, <3>2
      <4> QED BY <1>4, <2>2, <4>1
    <3> QED BY <3>1, <3>2
  <2>6. \A b \in 1..t.done : \E a, z \in 1..(n - t.rows) : Piece(lines, n, b, a, z)
    BY <1>9, <2>2
  <2>7. t.rows > 1 => ~Fill(lines, n - t.rows + 1, n - 1)
    <3>1. n - t.rows + 1 = n - s.rows /\ (t.rows > 1 => s.rows # 0)
      BY <1>1, <1>6, <2>2
    <3> QED BY <1>10, <3>1
  <2> QED
    BY <2>2, <2>4, <2>5, <2>6, <2>7 DEF LoopInv, t
<1> QED BY <1>11, <1>12

\* The invariant holds after every line.
LEMMA LoopHolds ==
  ASSUME NEW lines \in Seq(Nat)
  PROVE  \A n \in 0..Len(lines) : LoopInv(lines, n)
<1> DEFINE Good == {n \in 0..Len(lines) : LoopInv(lines, n)}
<1>1. 0 \in Good
  BY BatchesUnfold DEF LoopInv, Offset
<1>2. ASSUME NEW n \in 1..Len(lines), n - 1 \in Good PROVE n \in Good
  BY <1>2, LoopStep
<1>3. Len(lines) \in Nat
  OBVIOUS
<1> HIDE DEF Good
<1>4. 0..Len(lines) \subseteq Good
  BY <1>1, <1>2, <1>3, Induction
<1> QED BY <1>4 DEF Good

\* What the theorems use of the batches of a file: each line goes into one of
\* them, and they cover it.
LEMMA BatchFacts ==
  ASSUME file \in Seq(Nat)
  PROVE  LastBatch \in Nat /\ BatchOf \in [Line -> 1..LastBatch] /\ BatchesCoverFile
<1> DEFINE L == Len(file)
           e == Batches(file)[L]
           of == BatchOf
           last == LastBatch
<1> USE LoadingAssumption
<1>1. L \in Nat /\ Line = 1..L
  BY DEF Line
<1>2. e \in LoopState
  BY <1>1, BatchesUnfold
<1>3. \A n \in Line : of[n] = At(file, n)
  BY DEF BatchOf, At
<1>4. of = [n \in Line |-> of[n]]
  BY DEF BatchOf
<1>5. last = IF e.rows # 0 THEN e.done + 1 ELSE e.done
  BY DEF LastBatch
<1>6. LoopInv(file, L)
  BY <1>1, LoopHolds
<1>7. /\ e.rows <= L /\ e.size = Offset(file, L) - Offset(file, L - e.rows)
      /\ e.rows # 0 => e.rows < MaxRows /\ e.size < MaxBytes
      /\ e.rows > 1 => ~Fill(file, L - e.rows + 1, L - 1)
      /\ \A m \in 1..L : IF m <= L - e.rows THEN At(file, m) \in 1..e.done ELSE At(file, m) = e.done + 1
      /\ \A b \in 1..e.done : \E a, z \in 1..(L - e.rows) : Piece(file, L, b, a, z)
  BY <1>6 DEF LoopInv
<1> HIDE DEF e, L, of, last
<1>8. e.done \in Nat /\ e.rows \in Nat
  BY <1>2 DEF LoopState
<1>9. last \in Nat /\ e.done <= last
  BY <1>5, <1>8
<1>10. ASSUME NEW n \in Line PROVE of[n] \in 1..last
  <2>1. At(file, n) \in 1..e.done \/ (e.rows # 0 /\ At(file, n) = e.done + 1)
    <3>1. n \in 1..L /\ (e.rows = 0 => n <= L - e.rows)
      BY <1>1, <1>8
    <3> QED BY <1>7, <3>1
  <2> QED BY <1>3, <1>5, <1>8, <2>1
<1>11. of \in [Line -> 1..last]
  BY <1>4, <1>10
<1>12. ASSUME NEW n \in Line, n + 1 \in Line PROVE of[n] <= of[n + 1]
  <2> DEFINE s == Batches(file)[n - 1]
             t == Batches(file)[n]
  <2>1. n \in 1..L /\ n - 1 \in 0..L /\ n \in 0..L /\ (n + 1) - 1 = n
    BY <1>1
  <2>2. s \in LoopState /\ t = Take(s, Bytes(file, n))
    BY <2>1, BatchesUnfold DEF L
  <2>3. of[n] = s.done + 1 /\ of[n + 1] = t.done + 1
    BY <1>3, <1>12, <2>1 DEF At
  <2> HIDE DEF s, t
  <2>4. t.done = s.done \/ t.done = s.done + 1
    BY <2>2 DEF Take
  <2>5. s.done \in Nat
    BY <2>2 DEF LoopState
  <2> QED BY <2>3, <2>4, <2>5
<1> DEFINE Cut(b, a, z) ==
             /\ {n \in Line : of[n] = b} = a..z
             /\ a <= z /\ z - a + 1 <= MaxRows
             /\ (b < last => Fill(file, a, z)) /\ (a < z => ~Fill(file, a, z - 1))
<1>13. ASSUME NEW b \in 1..last PROVE \E a, z \in Line : Cut(b, a, z)
  <2>1. CASE b \in 1..e.done
    <3>1. PICK a, z \in 1..(L - e.rows) : Piece(file, L, b, a, z)
      BY <1>7, <2>1
    <3>2. a \in Line /\ z \in Line
      BY <1>1, <1>8
    <3>3. ASSUME NEW n \in Line PROVE of[n] = b <=> n \in a..z
      BY <1>1, <1>3, <3>1 DEF Piece
    <3>4. a..z \subseteq Line
      BY <1>1, <3>2
    <3>5. {n \in Line : of[n] = b} = a..z
      BY <3>3, <3>4
    <3> QED BY <3>1, <3>2, <3>5 DEF Piece
  <2>2. CASE b \notin 1..e.done
    <3>1. e.rows # 0 /\ b = e.done + 1 /\ ~(b < last) /\ e.rows <= L
      BY <1>5, <1>7, <1>8, <2>2
    <3> DEFINE a == L - e.rows + 1
    <3>2. a \in Line /\ L \in Line /\ a <= L /\ L - a + 1 = e.rows /\ (a < L => e.rows > 1)
      BY <1>1, <1>8, <3>1
    <3>3. ASSUME NEW n \in Line PROVE of[n] = b <=> n \in a..L
      <4>1. n \in 1..L /\ (n \in a..L <=> ~(n <= L - e.rows))
        BY <1>1, <1>8
      <4>2. IF n <= L - e.rows THEN At(file, n) \in 1..e.done ELSE At(file, n) = e.done + 1
        BY <1>7, <4>1
      <4>3. e.done + 1 \notin 1..e.done
        BY <1>8
      <4> QED BY <1>3, <3>1, <4>1, <4>2, <4>3
    <3>4. a..L \subseteq Line
      BY <1>1, <3>2
    <3>5. {n \in Line : of[n] = b} = a..L
      BY <3>3, <3>4
    <3>6. e.rows <= MaxRows
      BY <1>7, <1>8, <3>1
    <3>7. a < L => ~Fill(file, a, L - 1)
      BY <1>7, <3>2
    <3> HIDE DEF a
    <3> QED BY <3>1, <3>2, <3>5, <3>6, <3>7
  <2> QED BY <2>1, <2>2
<1>14. BatchesCoverFile
  BY <1>10, <1>12, <1>13 DEF BatchesCoverFile, Fill, of, last
<1> QED BY <1>9, <1>11, <1>14 DEF of, last
-----------------------------------------------------------------------------
(* The inductive invariant. *)

\* The lines before batch b, and those that a table has.
Below(b) == {n \in Line : BatchOf[n] < b}
Seen(t) == {n \in Line : t[BatchOf[n]] # 0}

\* How many lines there are in sets of them.
LEMMA Counting ==
  ASSUME file \in Seq(Nat)
  PROVE  /\ \A T \in SUBSET Line : Cardinality(T) \in Nat
         /\ \A T, U \in SUBSET Line : T \subseteq U => Cardinality(T) <= Cardinality(U)
         /\ \A b \in Nat : Rows(b) \in Nat /\ Cardinality(Below(b + 1)) = Cardinality(Below(b)) + Rows(b)
         /\ Cardinality(Below(1)) = 0
<1>1. IsFiniteSet(Line)
  <2>1. 1 \in Int /\ Len(file) \in Int
    OBVIOUS
  <2> QED BY <2>1, FS_Interval DEF Line
<1>2. \A T \in SUBSET Line : IsFiniteSet(T) /\ Cardinality(T) \in Nat
  BY <1>1, FS_Subset, FS_CardinalityType
<1>3. \A T, U \in SUBSET Line : T \subseteq U => Cardinality(T) <= Cardinality(U)
  BY <1>2, FS_Subset
<1>4. BatchOf \in [Line -> 1..LastBatch] /\ LastBatch \in Nat
  BY BatchFacts
<1>5. ASSUME NEW b \in Nat
      PROVE  Rows(b) \in Nat /\ Cardinality(Below(b + 1)) = Cardinality(Below(b)) + Rows(b)
  <2> DEFINE T == {n \in Line : BatchOf[n] = b}
             A == Below(b)
  <2>1. \A n \in Line : BatchOf[n] \in Nat
    BY <1>4
  <2>2. Below(b + 1) = A \cup T
    BY <2>1 DEF Below
  <2>3. A \cap T = {}
    BY <2>1 DEF Below
  <2>4. T \in SUBSET Line /\ A \in SUBSET Line
    BY DEF Below
  <2>5. Rows(b) = Cardinality(T)
    BY DEF Rows
  <2> HIDE DEF T, A
  <2>6. IsFiniteSet(T) /\ IsFiniteSet(A) /\ Cardinality(T) \in Nat /\ Cardinality(A) \in Nat
    BY <1>2, <2>4
  <2>7. Cardinality(A \cup T) = Cardinality(A) + Cardinality(T) - Cardinality({})
    BY <2>3, <2>6, FS_Union
  <2>8. Cardinality({}) = 0
    BY FS_EmptySet
  <2>9. Cardinality(A \cup T) = Cardinality(A) + Cardinality(T)
    BY <2>6, <2>7, <2>8
  <2>10. Cardinality(Below(b + 1)) = Cardinality(A) + Rows(b) /\ Rows(b) \in Nat
    BY <2>2, <2>5, <2>6, <2>9
  <2> QED BY <2>10 DEF A
<1>6. Cardinality(Below(1)) = 0
  <2>1. Below(1) = {}
    BY <1>4 DEF Below
  <2> QED BY <2>1, FS_EmptySet
<1> QED BY <1>2, <1>3, <1>5, <1>6

\* What the proofs use of the types.
LEMMA Typed ==
  ASSUME LInv
  PROVE  /\ file \in Seq(Nat) /\ LastBatch \in Nat /\ BatchOf \in [Line -> 1..LastBatch]
         /\ Attempt = 1..(Retries + 1) /\ Retries \in Nat /\ attempt \in Attempt
         /\ \A s \in Attempt : s \in Nat
         /\ NoTable \notin [1..LastBatch -> Nat]
         /\ \A s \in Attempt : SessionInv(s)
         /\ loaded <= IF stage = NoTable THEN 0 ELSE Cardinality(Seen(stage))
         /\ pc \in Statement => loaded = Cardinality(Below(batch))
<1>1. file \in Seq(Nat) /\ Retries \in Nat /\ attempt \in Attempt
  BY LoadingAssumption DEF LInv, TypeOK
<1>2. LastBatch \in Nat /\ BatchOf \in [Line -> 1..LastBatch]
  BY <1>1, BatchFacts
<1>3. NoTable \notin [1..LastBatch -> Nat]
  <2>1. DOMAIN NoTable = {0}
    BY DEF NoTable
  <2>2. 0 \notin 1..LastBatch
    BY <1>2
  <2> QED BY <2>1, <2>2
<1>4. /\ loaded <= IF stage = NoTable THEN 0 ELSE Cardinality(Seen(stage))
      /\ pc \in Statement => loaded = Cardinality(Below(batch))
  BY DEF LInv, ProgressInv, ProgressIsStored, Seen, Below
<1> QED BY <1>1, <1>2, <1>3, <1>4 DEF Attempt, LInv

\* What is computed from the file stays with it.
LEMMA FileStays ==
  ASSUME file' = file
  PROVE  /\ LastBatch' = LastBatch /\ BatchOf' = BatchOf /\ Line' = Line /\ Empty' = Empty
         /\ BatchesCoverFile' = BatchesCoverFile
         /\ ProgressInv' <=>
              /\ loaded' <= IF stage' = NoTable THEN 0 ELSE Cardinality(Seen(stage'))
              /\ loaded' # 0 => \A s \in Attempt : stmt'[s] \notin Ddl
              /\ pc' \in Ddl => loaded' = 0
              /\ pc' \in Statement => loaded' = Cardinality(Below(batch'))
<1>1. LastBatch' = LastBatch /\ BatchOf' = BatchOf /\ Line' = Line
  BY DEF LastBatch, BatchOf, Line
<1>2. Empty' = Empty /\ BatchesCoverFile' = BatchesCoverFile
  BY <1>1 DEF Empty, BatchesCoverFile
<1>3. ProgressInv' <=>
        /\ loaded' <= IF stage' = NoTable THEN 0 ELSE Cardinality(Seen(stage'))
        /\ loaded' # 0 => \A s \in Attempt : stmt'[s] \notin Ddl
        /\ pc' \in Ddl => loaded' = 0
        /\ pc' \in Statement => loaded' = Cardinality(Below(batch'))
  BY <1>1 DEF ProgressInv, ProgressIsStored, Seen, Below, NoTable, Attempt
<1> QED BY <1>1, <1>2, <1>3

\* The initial states.
LEMMA InitLInv == Init => LInv
<1> SUFFICES ASSUME Init PROVE LInv
  OBVIOUS
<1> USE LoadingAssumption
<1>1. file \in Seq(Nat)
  BY DEF Init
<1>2. LastBatch \in Nat
  BY <1>1, BatchFacts
<1>3. 1 \in Attempt
  BY DEF Attempt
<1>4. TypeOK
  BY <1>2, <1>3 DEF Init, TypeOK, PCs, Statement, Ddl
<1>5. \A s \in Attempt : SessionInv(s)
  BY DEF Init, SessionInv, Cleared, Ddl
<1>6. WorkerInv
  BY <1>3 DEF Init, WorkerInv, Statement, Ddl
<1>7. TableInv
  BY DEF Init, TableInv, LoadedIsFile, Statement, Ddl
<1>8. ProgressInv
  BY DEF Init, ProgressInv, ProgressIsStored, Statement, Ddl
<1> QED BY <1>4, <1>5, <1>6, <1>7, <1>8 DEF LInv

\* A new connection: nothing of its attempt is in the table or at the server.
LEMMA ConnectStep == LInv /\ Connect => LInv'
<1> SUFFICES ASSUME LInv, Connect PROVE LInv'
  OBVIOUS
<1>1. /\ LastBatch \in Nat /\ attempt \in Attempt
      /\ \A s \in Attempt : s \in Nat /\ SessionInv(s)
  BY Typed
<1>2. LastBatch' = LastBatch /\ BatchOf' = BatchOf /\ Line' = Line
  BY FileStays DEF Connect
<1>3. TypeOK'
  BY <1>1, <1>2 DEF LInv, TypeOK, Connect, sessionVars, PCs, Statement, Ddl
<1>4. ASSUME NEW s \in Attempt PROVE SessionInv(s)'
  BY <1>1, <1>4 DEF LInv, WorkerInv, SessionInv, Cleared, Connect, sessionVars, Ddl
<1>5. WorkerInv'
  BY <1>1, <1>2 DEF LInv, WorkerInv, Connect, sessionVars, Statement, Ddl
<1>6. TableInv'
  BY <1>1 DEF LInv, WorkerInv, TableInv, LoadedIsFile, Connect, sessionVars, Statement, Ddl
<1>7. ProgressInv'
  <2>1. Seen(stage') \in SUBSET Line
    BY DEF Seen
  <2>2. Cardinality(Seen(stage')) \in Nat
    BY <2>1, Counting, Typed
  <2>3. Cardinality(Below(batch')) = 0
    BY Counting, Typed DEF Connect
  <2> QED BY <2>2, <2>3, FileStays DEF Connect
<1> QED BY <1>3, <1>4, <1>5, <1>6, <1>7 DEF LInv, Attempt
\* A statement is sent.
LEMMA SendStep == LInv /\ Send => LInv'
<1> SUFFICES ASSUME LInv, Send PROVE LInv'
  OBVIOUS
<1>1. /\ LastBatch \in Nat /\ attempt \in Attempt
      /\ \A s \in Attempt : s \in Nat /\ SessionInv(s)
  BY Typed
<1>2. LastBatch' = LastBatch /\ BatchOf' = BatchOf /\ Line' = Line
  BY FileStays DEF Send
<1>3. TypeOK'
  <2>1. pc = "insert" => batch \in 0..LastBatch
    BY <1>1 DEF LInv, WorkerInv
  <2> QED BY <1>1, <1>2, <2>1 DEF LInv, TypeOK, Send, workerVars, Statement, Ddl
<1>4. ASSUME NEW s \in Attempt PROVE SessionInv(s)'
  <2>1. CASE s = attempt
    BY <1>1, <2>1 DEF LInv, TypeOK, WorkerInv, SessionInv, Send, workerVars, Statement, Ddl
  <2>2. CASE s # attempt
    BY <1>1, <1>4, <2>2 DEF LInv, TypeOK, SessionInv, Cleared, Send, workerVars, Statement, Ddl
  <2> QED BY <2>1, <2>2
<1>5. WorkerInv'
  BY <1>1, <1>2 DEF LInv, TypeOK, WorkerInv, Send, workerVars, Statement, Ddl
<1>6. TableInv'
  BY <1>1, <1>2 DEF LInv, TypeOK, TableInv, LoadedIsFile, Send, workerVars, Statement, Ddl
<1>7. ProgressInv'
  <2>1. loaded <= (IF stage = NoTable THEN 0 ELSE Cardinality(Seen(stage))) /\ loaded = Cardinality(Below(batch))
    BY Typed DEF Send
  <2>2. loaded # 0 => \A s \in Attempt : stmt'[s] \notin Ddl
    BY <1>1 DEF LInv, TypeOK, ProgressInv, Send, Statement, Ddl
  <2> QED BY <2>1, <2>2, FileStays DEF LInv, ProgressInv, Send, workerVars
<1> QED BY <1>3, <1>4, <1>5, <1>6, <1>7 DEF LInv, Attempt

\* The table is there, and empty.
LEMMA TableMadeStep == LInv /\ TableMade => LInv'
<1> SUFFICES ASSUME LInv, TableMade PROVE LInv'
  OBVIOUS
<1>1. /\ LastBatch \in Nat /\ attempt \in Attempt
      /\ \A s \in Attempt : s \in Nat /\ SessionInv(s)
  BY Typed
<1>2. LastBatch' = LastBatch /\ BatchOf' = BatchOf /\ Line' = Line
  BY FileStays DEF TableMade
<1>3. TypeOK'
  BY <1>1, <1>2 DEF LInv, TypeOK, TableMade, Answer, NextBatch, PCs, Statement, Ddl
<1>4. ASSUME NEW s \in Attempt PROVE SessionInv(s)'
  BY <1>1, <1>4 DEF LInv, TypeOK, SessionInv, Cleared, TableMade, Answer, NextBatch, Ddl
<1>5. WorkerInv'
  BY <1>1, <1>2 DEF LInv, TypeOK, WorkerInv, TableMade, Answer, NextBatch, Statement, Ddl
<1>6. TableInv'
  BY <1>1, <1>2 DEF LInv, TypeOK, WorkerInv, TableInv, LoadedIsFile, TableMade, Answer, NextBatch, Empty, Statement, Ddl
<1>7. ProgressInv'
  <2>1. loaded <= (IF stage = NoTable THEN 0 ELSE Cardinality(Seen(stage))) /\ loaded = Cardinality(Below(batch))
    BY Typed DEF TableMade, Statement, Ddl
  <2>2. loaded = 0
    BY DEF LInv, ProgressInv, TableMade, Ddl
  <2> QED BY <2>1, <2>2, FileStays DEF TableMade
<1> QED BY <1>3, <1>4, <1>5, <1>6, <1>7 DEF LInv, Attempt

\* A batch is inserted, or committed.
LEMMA BatchMadeStep == LInv /\ BatchMade => LInv'
<1> SUFFICES ASSUME LInv, BatchMade PROVE LInv'
  OBVIOUS
<1>1. /\ LastBatch \in Nat /\ attempt \in Attempt
      /\ \A s \in Attempt : s \in Nat /\ SessionInv(s)
  BY Typed
<1>2. LastBatch' = LastBatch /\ BatchOf' = BatchOf /\ Line' = Line
  BY FileStays DEF BatchMade
<1>3. TypeOK'
  <2>1. Rows(batch) \in Nat
    BY Counting, Typed DEF LInv, TypeOK
  <2> QED BY <1>1, <1>2, <2>1 DEF LInv, TypeOK, BatchMade, Answer, NextBatch, PCs, Statement, Ddl
<1>4. ASSUME NEW s \in Attempt PROVE SessionInv(s)'
  BY <1>1, <1>4 DEF LInv, TypeOK, SessionInv, Cleared, BatchMade, Answer, NextBatch, Ddl
<1>5. WorkerInv'
  BY <1>1, <1>2 DEF LInv, TypeOK, WorkerInv, BatchMade, Answer, NextBatch, Statement, Ddl
<1>6. TableInv'
  BY <1>1, <1>2 DEF LInv, TypeOK, WorkerInv, TableInv, LoadedIsFile, BatchMade, Answer, NextBatch, Statement, Ddl
<1>7. ProgressInv'
  <2>1. ASSUME NEW s \in Attempt PROVE stmt'[s] \notin Ddl
    <3>1. s < attempt => stmt[s] \notin Ddl
      BY <1>1 DEF SessionInv, Cleared, BatchMade
    <3>2. s > attempt => stmt[s] = "idle"
      BY <1>1 DEF SessionInv
    <3>3. stmt' = [stmt EXCEPT ![attempt] = "idle"]
      BY DEF BatchMade, Answer
    <3>4. s = attempt \/ s < attempt \/ s > attempt
      BY <1>1
    <3> QED BY <1>1, <3>1, <3>2, <3>3, <3>4 DEF LInv, TypeOK, Ddl
  <2>2. stage' = stage /\ loaded = Cardinality(Below(batch)) /\ pc' \notin Ddl
    BY Typed DEF BatchMade, NextBatch, Statement, Ddl
  <2>3. CASE pc = "insert"
    <3>1. loaded' = loaded /\ batch' = batch
      <4>1. loaded \in Nat
        BY DEF LInv, TypeOK
      <4> QED BY <2>3, <4>1 DEF BatchMade, Reports
    <3> QED BY <2>1, <2>2, <3>1, FileStays, Typed DEF BatchMade
  <2>4. CASE pc = "commit"
    <3>1. /\ stage = [b \in 1..LastBatch |-> IF b < batch \/ b = batch THEN 1 ELSE 0]
          /\ batch \in Nat /\ batch' = batch + 1 /\ loaded' = loaded + Rows(batch)
      BY <2>4 DEF LInv, TypeOK, WorkerInv, TableInv, BatchMade, Answer, Reports, Statement, Ddl
    <3>2. loaded' = Cardinality(Below(batch + 1))
      BY <2>2, <3>1, Counting, Typed
    <3>3. Below(batch + 1) \subseteq Seen(stage)
      <4>1. \A n \in Line : BatchOf[n] \in 1..LastBatch
        BY Typed
      <4> QED BY <1>1, <3>1, <4>1 DEF Below, Seen
    <3>4. Below(batch + 1) \in SUBSET Line /\ Seen(stage) \in SUBSET Line
      BY DEF Below, Seen
    <3>5. Cardinality(Below(batch + 1)) <= Cardinality(Seen(stage))
      BY <3>3, <3>4, Counting, Typed
    <3>6. stage # NoTable
      BY <3>1, Typed
    <3> QED BY <2>1, <2>2, <3>1, <3>2, <3>5, <3>6, FileStays DEF BatchMade
  <2> QED BY <2>3, <2>4 DEF BatchMade
<1> QED BY <1>3, <1>4, <1>5, <1>6, <1>7 DEF LInv, Attempt

\* The counts are compared.
LEMMA ValidateStep == LInv /\ Validate => LInv'
<1> SUFFICES ASSUME LInv, Validate PROVE LInv'
  OBVIOUS
<1>1. /\ LastBatch \in Nat /\ attempt \in Attempt
      /\ \A s \in Attempt : s \in Nat /\ SessionInv(s)
  BY Typed
<1>2. LastBatch' = LastBatch /\ BatchOf' = BatchOf /\ Line' = Line
  BY FileStays DEF Validate
<1>3. TypeOK'
  BY <1>1, <1>2 DEF LInv, TypeOK, Validate, Answer, PCs, Statement, Ddl
<1>4. ASSUME NEW s \in Attempt PROVE SessionInv(s)'
  BY <1>1, <1>4 DEF LInv, TypeOK, SessionInv, Cleared, Validate, Answer, Ddl
<1>5. WorkerInv'
  BY <1>1, <1>2 DEF LInv, TypeOK, WorkerInv, Validate, Answer, Statement, Ddl
<1>6. TableInv'
  <2>1. stage = [b \in 1..LastBatch |-> 1]
    BY <1>1 DEF LInv, WorkerInv, TableInv, Validate, Answer, Statement, Ddl
  <2> QED BY <1>2, <2>1 DEF TableInv, LoadedIsFile, Validate, Statement, Ddl
<1>7. ProgressInv'
  BY <1>1, FileStays, Typed DEF LInv, TypeOK, ProgressInv, Validate, Answer, Statement, Ddl
<1> QED BY <1>3, <1>4, <1>5, <1>6, <1>7 DEF LInv, Attempt

\* The load is given up.
LEMMA FailStep == LInv /\ Fail => LInv'
<1> SUFFICES ASSUME LInv, Fail PROVE LInv'
  OBVIOUS
<1>1. /\ LastBatch \in Nat /\ attempt \in Attempt
      /\ \A s \in Attempt : s \in Nat /\ SessionInv(s)
  BY Typed
<1>2. LastBatch' = LastBatch /\ BatchOf' = BatchOf /\ Line' = Line
  BY FileStays DEF Fail
<1>3. TypeOK'
  BY <1>1, <1>2 DEF LInv, TypeOK, Fail, sessionVars, PCs, Statement, Ddl
<1>4. ASSUME NEW s \in Attempt PROVE SessionInv(s)'
  BY <1>1, <1>4 DEF SessionInv, Cleared, Fail, sessionVars
<1>5. WorkerInv'
  BY <1>1, <1>2 DEF LInv, TypeOK, WorkerInv, Fail, sessionVars, Statement, Ddl
<1>6. TableInv'
  BY DEF TableInv, LoadedIsFile, Fail, Statement, Ddl
<1>7. ProgressInv'
  BY FileStays, Typed DEF LInv, ProgressInv, Fail, sessionVars, Statement, Ddl
<1> QED BY <1>3, <1>4, <1>5, <1>6, <1>7 DEF LInv, Attempt

\* The connection is lost: the next attempt, whose session nothing was sent to.
LEMMA LoseStep == LInv /\ Lose => LInv'
<1> SUFFICES ASSUME LInv, Lose PROVE LInv'
  OBVIOUS
<1>1. /\ LastBatch \in Nat /\ attempt \in Attempt
      /\ \A s \in Attempt : s \in Nat /\ SessionInv(s)
  BY Typed
<1>2. LastBatch' = LastBatch /\ BatchOf' = BatchOf /\ Line' = Line
  BY FileStays DEF Lose
<1>3. TypeOK'
  <2>1. attempt' \in Attempt
    BY Typed DEF Lose
  <2> QED BY <1>1, <1>2, <2>1 DEF LInv, TypeOK, Lose, sessionVars, PCs, Statement, Ddl
<1>4. ASSUME NEW s \in Attempt PROVE SessionInv(s)'
  BY <1>1, <1>4 DEF SessionInv, Cleared, Lose, sessionVars
<1>5. WorkerInv'
  BY <1>1, <1>2, Typed DEF LInv, TypeOK, WorkerInv, SessionInv, Lose, sessionVars, Statement, Ddl
<1>6. TableInv'
  BY DEF TableInv, LoadedIsFile, Lose, Statement, Ddl
<1>7. ProgressInv'
  BY FileStays, Typed DEF LInv, ProgressInv, Lose, sessionVars, Statement, Ddl
<1> QED BY <1>3, <1>4, <1>5, <1>6, <1>7 DEF LInv, Attempt
\* An answer changes the session that it is for, and nothing of the worker.
LEMMA Answered ==
  ASSUME LInv, NEW s \in Attempt, NEW r \in {"ok", "error"}, Result(s, r)
  PROVE  /\ file' = file /\ attempt' = attempt /\ pc' = pc /\ batch' = batch /\ loaded' = loaded /\ over' = over
         /\ stmt' \in [Attempt -> Statement \cup {"idle", "ok", "error"}] /\ at' \in [Attempt -> 0..LastBatch]
         /\ stmt'[s] = IF s = attempt THEN r ELSE "idle"
         /\ \A u \in Attempt \ {s} : stmt'[u] = stmt[u] /\ at'[u] = at[u]
<1>1. /\ stmt \in [Attempt -> Statement \cup {"idle", "ok", "error"}] /\ at \in [Attempt -> 0..LastBatch]
      /\ LastBatch \in Nat
  BY Typed DEF LInv, TypeOK
<1>2. stmt' = [stmt EXCEPT ![s] = IF s = attempt THEN r ELSE "idle"] /\ at' = [at EXCEPT ![s] = 0]
  BY DEF Result
<1>3. file' = file /\ attempt' = attempt /\ pc' = pc /\ batch' = batch /\ loaded' = loaded /\ over' = over
  BY DEF Result, workerVars
<1> QED BY <1>1, <1>2, <1>3

\* It is the answer to no DROP, unless it was one that was executed.
LEMMA StaysCleared ==
  ASSUME LInv, NEW s \in Attempt, NEW r \in {"ok", "error"}, Result(s, r), stmt[s] # "drop", stmt[s] \in Statement
  PROVE  Cleared' => Cleared
<1>1. CASE s = attempt
  <2>1. pc # "drop"
    BY <1>1 DEF LInv, WorkerInv, Statement, Ddl
  <2> QED BY <2>1, Answered DEF Cleared
<1>2. CASE s # attempt
  BY <1>2, Answered, Typed DEF Cleared
<1> QED BY <1>1, <1>2

\* The table, and what is known of it, is the concern of the attempt alone.
LEMMA TableStays ==
  ASSUME LInv, file' = file, attempt' = attempt, pc' = pc, batch' = batch, stage' = stage,
         over'[attempt] = over[attempt], stmt'[attempt] = stmt[attempt]
  PROVE  TableInv'
<1>1. LastBatch' = LastBatch /\ Empty' = Empty
  BY FileStays
<1> DEFINE Upto == [b \in 1..LastBatch |->
                     IF b < batch \/ (b = batch /\ pc = "commit" /\ stmt[attempt] = "ok") THEN 1 ELSE 0]
           All == [b \in 1..LastBatch |-> 1]
<1>2. Upto' = Upto /\ All' = All
  BY <1>1
<1>3. /\ pc \in Statement /\ ~over[attempt] =>
           /\ pc = "drop" /\ stmt[attempt] = "ok" => stage = NoTable
           /\ pc = "create" => stage = IF stmt[attempt] = "ok" THEN Empty ELSE NoTable
           /\ pc \notin Ddl => stage = Upto
      /\ pc = "ready" => stage = All
  BY DEF LInv, TableInv, LoadedIsFile
<1>4. TableInv' <=> /\ pc' \in Statement /\ ~over'[attempt'] =>
                         /\ pc' = "drop" /\ stmt'[attempt'] = "ok" => stage' = NoTable
                         /\ pc' = "create" => stage' = IF stmt'[attempt'] = "ok" THEN Empty' ELSE NoTable
                         /\ pc' \notin Ddl => stage' = Upto'
                    /\ pc' = "ready" => stage' = All'
  BY DEF TableInv, LoadedIsFile, NoTable, Statement, Ddl
<1> HIDE DEF Upto, All
<1> QED BY <1>1, <1>2, <1>3, <1>4

\* The table is dropped: no transaction is open on it, and no older DDL waits.
LEMMA DropStep == LInv /\ (\E s \in Attempt : Drop(s)) => LInv'
<1> SUFFICES ASSUME LInv, NEW s \in Attempt, Drop(s) PROVE LInv'
  OBVIOUS
<1>1. /\ LastBatch \in Nat /\ attempt \in Attempt
      /\ \A u \in Attempt : u \in Nat /\ SessionInv(u)
  BY Typed
<1>2. LastBatch' = LastBatch /\ BatchOf' = BatchOf /\ Line' = Line
  BY FileStays DEF Drop, Result
<1>3. TypeOK'
  BY <1>1, <1>2 DEF LInv, TypeOK, Drop, Executes, Result, workerVars, Statement, Ddl
<1>4. ASSUME NEW u \in Attempt PROVE SessionInv(u)'
  <2>1. CASE s = attempt
    <3>1. CASE u = s
      BY <1>1, <2>1, <3>1, Answered DEF LInv, TypeOK, SessionInv, Drop, Executes, Ddl
    <3>2. CASE u # s
      <4>1. stmt'[u] = stmt[u] /\ held[u] = 0 /\ held' = held /\ over' = over /\ attempt' = attempt
        BY <1>4, <3>2, Answered DEF Drop, Exclusive, Alone
      <4>2. u < attempt => stmt[u] \notin Ddl
        BY <1>1, <1>4, <2>1 DEF Attempt, Drop, Exclusive
      <4> QED BY <1>1, <1>4, <2>1, <4>1, <4>2, Answered DEF SessionInv, Drop
    <3> QED BY <3>1, <3>2
  <2>2. CASE s # attempt
    BY <1>1, <1>4, <2>2 DEF LInv, TypeOK, SessionInv, Cleared, Drop, Executes, Result, workerVars, Ddl
  <2> QED BY <2>1, <2>2
<1>5. WorkerInv'
  BY <1>1, <1>2 DEF LInv, TypeOK, WorkerInv, Drop, Executes, Result, workerVars, Statement, Ddl
<1>6. TableInv'
  <2>1. CASE s = attempt
    <3>1. pc \in {"drop", "failed"} /\ pc' = pc
      BY <1>1, <2>1, Answered DEF LInv, TypeOK, WorkerInv, PCs, Drop, Executes, Statement, Ddl
    <3>2. stage' = NoTable
      BY DEF Drop
    <3> QED BY <3>1, <3>2 DEF TableInv, LoadedIsFile, NoTable, Statement, Ddl
  <2>2. CASE s # attempt
    <3>1. s < attempt /\ ~Cleared
      BY <1>1, <2>2 DEF SessionInv, Drop, Executes, Ddl
    <3> QED BY <1>1, <2>2, <3>1 DEF LInv, TypeOK, TableInv, LoadedIsFile, Cleared, Drop, Executes, Result, workerVars, Statement, Ddl
  <2> QED BY <2>1, <2>2
<1>7. ProgressInv'
  <2>1. loaded = 0
    BY DEF LInv, ProgressInv, Drop, Executes, Ddl
  <2> QED BY <2>1, FileStays, Typed DEF Drop, Result, workerVars
<1> QED BY <1>3, <1>4, <1>5, <1>6, <1>7 DEF LInv, Attempt

\* The table is created: none was there.
LEMMA CreateStep == LInv /\ (\E s \in Attempt : Create(s)) => LInv'
<1> SUFFICES ASSUME LInv, NEW s \in Attempt, Create(s) PROVE LInv'
  OBVIOUS
<1>1. /\ LastBatch \in Nat /\ attempt \in Attempt
      /\ \A u \in Attempt : u \in Nat /\ SessionInv(u)
  BY Typed
<1>2. LastBatch' = LastBatch /\ BatchOf' = BatchOf /\ Line' = Line
  BY FileStays DEF Create, Result
<1>3. TypeOK'
  BY <1>1, <1>2 DEF LInv, TypeOK, Create, Executes, Result, Empty, workerVars, Statement, Ddl
<1>4. ASSUME NEW u \in Attempt PROVE SessionInv(u)'
  <2>1. CASE s = attempt
    BY <1>1, <1>4, <2>1 DEF LInv, TypeOK, WorkerInv, SessionInv, Cleared, Create, Executes, Exclusive, Alone, Result, workerVars, Statement, Ddl
  <2>2. CASE s # attempt
    BY <1>1, <1>4, <2>2 DEF LInv, TypeOK, SessionInv, Cleared, Create, Executes, Result, workerVars, Ddl
  <2> QED BY <2>1, <2>2
<1>5. WorkerInv'
  BY <1>1, <1>2 DEF LInv, TypeOK, WorkerInv, Create, Executes, Result, workerVars, Statement, Ddl
<1>6. TableInv'
  <2>1. CASE s = attempt
    BY <1>1, <1>2, <2>1, FileStays DEF LInv, TypeOK, WorkerInv, TableInv, LoadedIsFile, Create, Executes, Result, workerVars, Statement, Ddl
  <2>2. CASE s # attempt
    <3>1. s < attempt /\ ~Cleared
      BY <1>1, <2>2 DEF SessionInv, Create, Executes, Ddl
    <3> QED BY <1>1, <2>2, <3>1 DEF LInv, TypeOK, TableInv, LoadedIsFile, Cleared, Create, Executes, Result, workerVars, Statement, Ddl
  <2> QED BY <2>1, <2>2
<1>7. ProgressInv'
  <2>1. loaded = 0
    BY DEF LInv, ProgressInv, Create, Executes, Ddl
  <2>2. Cardinality(Seen(stage')) \in Nat
    <3>1. Seen(stage') \in SUBSET Line
      BY DEF Seen
    <3> QED BY <3>1, Counting, Typed
  <2> QED BY <2>1, <2>2, FileStays, Typed DEF Create, Result, workerVars
<1> QED BY <1>3, <1>4, <1>5, <1>6, <1>7 DEF LInv, Attempt

\* A batch is inserted in a transaction that stays open.
LEMMA InsertStep == LInv /\ (\E s \in Attempt : Insert(s)) => LInv'
<1> SUFFICES ASSUME LInv, NEW s \in Attempt, Insert(s) PROVE LInv'
  OBVIOUS
<1>1. /\ LastBatch \in Nat /\ attempt \in Attempt
      /\ \A u \in Attempt : u \in Nat /\ SessionInv(u)
  BY Typed
<1>2. LastBatch' = LastBatch /\ BatchOf' = BatchOf /\ Line' = Line
  BY FileStays DEF Insert, Result
<1>3. TypeOK'
  <2>1. /\ stmt' \in [Attempt -> Statement \cup {"idle", "ok", "error"}]
        /\ at' \in [Attempt -> 0..LastBatch] /\ held' \in [Attempt -> 0..LastBatch]
    <3>1. CASE stage = NoTable
      BY <1>1, <3>1 DEF LInv, TypeOK, Insert, Result
    <3>2. CASE stage # NoTable
      <4>1. Result(s, "ok") /\ held' = [held EXCEPT ![s] = at[s]]
        BY <3>2 DEF Insert
      <4>2. held \in [Attempt -> 0..LastBatch] /\ at[s] \in 0..LastBatch
        BY DEF LInv, TypeOK
      <4> QED BY <4>1, <4>2, Answered
    <3> QED BY <3>1, <3>2
  <2> QED BY <1>2, <2>1 DEF LInv, TypeOK, Insert, Result, workerVars, NoTable, Attempt
<1>4. ASSUME NEW u \in Attempt PROVE SessionInv(u)'
  <2>1. Cleared' => Cleared
    BY StaysCleared DEF Insert, Executes, Statement
  <2>2. CASE u = s
    BY <1>1, <2>1, <2>2 DEF LInv, TypeOK, SessionInv, Insert, Executes, Result, workerVars, Ddl
  <2>3. CASE u # s
    BY <1>1, <2>1, <2>3 DEF LInv, TypeOK, SessionInv, Insert, Executes, Result, workerVars, Ddl
  <2> QED BY <2>2, <2>3
<1>5. WorkerInv'
  BY <1>1, <1>2 DEF LInv, TypeOK, WorkerInv, Insert, Executes, Result, workerVars, Statement, Ddl
<1>6. TableInv'
  <2>1. CASE s = attempt
    BY <1>1, <1>2, <2>1 DEF LInv, TypeOK, WorkerInv, TableInv, LoadedIsFile, Insert, Executes, Result, workerVars, Statement, Ddl
  <2>2. CASE s # attempt
    BY <1>1, <2>2, Answered, TableStays DEF Insert
  <2> QED BY <2>1, <2>2
<1>7. ProgressInv'
  BY FileStays, Typed DEF LInv, TypeOK, ProgressInv, Insert, Executes, Result, workerVars, Ddl
<1> QED BY <1>3, <1>4, <1>5, <1>6, <1>7 DEF LInv, Attempt

\* A transaction is committed: that of the attempt, or one that inserted nothing, once the DROP was executed.
LEMMA CommitStep == LInv /\ (\E s \in Attempt : Commit(s)) => LInv'
<1> SUFFICES ASSUME LInv, NEW s \in Attempt, Commit(s) PROVE LInv'
  OBVIOUS
<1>1. /\ LastBatch \in Nat /\ attempt \in Attempt
      /\ \A u \in Attempt : u \in Nat /\ SessionInv(u)
  BY Typed
<1>2. LastBatch' = LastBatch /\ BatchOf' = BatchOf /\ Line' = Line
  BY FileStays DEF Commit, Result
<1>3. TypeOK'
  BY <1>1, <1>2 DEF LInv, TypeOK, NoTable, Commit, Executes, Result, workerVars, Statement, Ddl
<1>4. ASSUME NEW u \in Attempt PROVE SessionInv(u)'
  <2>1. Cleared' => Cleared
    BY StaysCleared DEF Commit, Executes, Statement
  <2>2. CASE u = s
    BY <1>1, <2>1, <2>2 DEF LInv, TypeOK, SessionInv, Commit, Executes, Result, workerVars, Ddl
  <2>3. CASE u # s
    BY <1>1, <2>1, <2>3 DEF LInv, TypeOK, SessionInv, Commit, Executes, Result, workerVars, Ddl
  <2> QED BY <2>2, <2>3
<1>5. WorkerInv'
  BY <1>1, <1>2 DEF LInv, TypeOK, WorkerInv, Commit, Executes, Result, workerVars, Statement, Ddl
<1>6. TableInv'
  <2>1. CASE s = attempt
    BY <1>1, <1>2, <2>1 DEF LInv, TypeOK, WorkerInv, TableInv, LoadedIsFile, Commit, Executes, Result, workerVars, Statement, Ddl
  <2>2. CASE s # attempt
    <3>1. s < attempt /\ (held[s] # 0 => ~Cleared)
      BY <1>1, <2>2 DEF SessionInv, Commit, Executes, Ddl
    <3>2. CASE held[s] = 0
      BY <1>1, <2>2, <3>2, Answered, TableStays DEF Commit
    <3>3. CASE held[s] # 0
      <4>1. pc' \notin {"create", "insert", "commit", "count", "ready"} /\ ~(pc' = "drop" /\ stmt'[attempt'] = "ok")
        BY <1>1, <2>2, <3>1, <3>3, Answered DEF Cleared, Commit
      <4> QED BY <4>1 DEF TableInv, LoadedIsFile, Statement, Ddl
    <3> QED BY <3>2, <3>3
  <2> QED BY <2>1, <2>2
<1>7. ProgressInv'
  <2>1. stage = NoTable => stage' = NoTable
    BY DEF LInv, TypeOK, NoTable, Commit
  <2>2. stage # NoTable => stage' # NoTable
    <3>1. ASSUME stage # NoTable PROVE stage' \in [1..LastBatch -> Nat]
      <4>1. stage \in [1..LastBatch -> Nat] /\ held[s] \in 0..LastBatch
        BY <3>1 DEF LInv, TypeOK
      <4>2. CASE held[s] = 0
        BY <4>1, <4>2 DEF Commit
      <4>3. CASE held[s] # 0
        BY <4>1, <4>3, <1>1 DEF Commit
      <4> QED BY <4>2, <4>3
    <3> QED BY <3>1, Typed
  <2>3. stage # NoTable => Cardinality(Seen(stage)) <= Cardinality(Seen(stage'))
    <3>1. stage # NoTable => Seen(stage) \subseteq Seen(stage')
      <4>1. \A n \in Line : BatchOf[n] \in 1..LastBatch
        BY Typed
      <4> QED BY <4>1 DEF LInv, TypeOK, Commit, Seen
    <3>2. Seen(stage) \in SUBSET Line /\ Seen(stage') \in SUBSET Line
      BY DEF Seen
    <3> QED BY <3>1, <3>2, Counting, Typed
  <2>4. loaded <= IF stage' = NoTable THEN 0 ELSE Cardinality(Seen(stage'))
    <3>1. loaded \in Nat /\ Cardinality(Seen(stage)) \in Nat /\ Cardinality(Seen(stage')) \in Nat
      BY Counting, Typed DEF LInv, TypeOK, Seen
    <3> QED BY <2>1, <2>2, <2>3, <3>1, Typed
  <2> QED BY <2>4, FileStays, Typed DEF LInv, TypeOK, ProgressInv, Commit, Executes, Result, workerVars, Ddl
<1> QED BY <1>3, <1>4, <1>5, <1>6, <1>7 DEF LInv, Attempt

\* The rows are counted.
LEMMA CountStep == LInv /\ (\E s \in Attempt : Count(s)) => LInv'
<1> SUFFICES ASSUME LInv, NEW s \in Attempt, Count(s) PROVE LInv'
  OBVIOUS
<1>1. /\ LastBatch \in Nat /\ attempt \in Attempt
      /\ \A u \in Attempt : u \in Nat /\ SessionInv(u)
  BY Typed
<1>2. LastBatch' = LastBatch /\ BatchOf' = BatchOf /\ Line' = Line
  BY FileStays DEF Count, Result
<1>3. TypeOK'
  BY <1>1, <1>2 DEF LInv, TypeOK, Count, Executes, Result, workerVars, Statement, Ddl
<1>4. ASSUME NEW u \in Attempt PROVE SessionInv(u)'
  <2>1. Cleared' => Cleared
    BY StaysCleared DEF Count, Executes, Statement
  <2>2. CASE u = s
    BY <1>1, <2>1, <2>2 DEF LInv, TypeOK, SessionInv, Count, Executes, Result, workerVars, Ddl
  <2>3. CASE u # s
    BY <1>1, <2>1, <2>3 DEF LInv, TypeOK, SessionInv, Count, Executes, Result, workerVars, Ddl
  <2> QED BY <2>2, <2>3
<1>5. WorkerInv'
  BY <1>1, <1>2 DEF LInv, TypeOK, WorkerInv, Count, Executes, Result, workerVars, Statement, Ddl
<1>6. TableInv'
  <2>1. CASE s = attempt
    BY <1>1, <1>2, <2>1 DEF LInv, TypeOK, WorkerInv, TableInv, LoadedIsFile, Count, Executes, Result, workerVars, Statement, Ddl
  <2>2. CASE s # attempt
    BY <1>1, <2>2, Answered, TableStays DEF Count
  <2> QED BY <2>1, <2>2
<1>7. ProgressInv'
  BY FileStays, Typed DEF LInv, TypeOK, ProgressInv, Count, Executes, Result, workerVars, Ddl
<1> QED BY <1>3, <1>4, <1>5, <1>6, <1>7 DEF LInv, Attempt

\* A session ends.
LEMMA EndSessionStep == LInv /\ (\E s \in Attempt : EndSession(s)) => LInv'
<1> SUFFICES ASSUME LInv, NEW s \in Attempt, EndSession(s) PROVE LInv'
  OBVIOUS
<1>1. /\ LastBatch \in Nat /\ attempt \in Attempt
      /\ \A u \in Attempt : u \in Nat /\ SessionInv(u)
  BY Typed
<1>2. LastBatch' = LastBatch /\ BatchOf' = BatchOf /\ Line' = Line
  BY FileStays DEF EndSession
<1>3. TypeOK'
  BY <1>1, <1>2 DEF LInv, TypeOK, EndSession, workerVars, Statement, Ddl
<1>4. ASSUME NEW u \in Attempt PROVE SessionInv(u)'
  BY <1>1, <1>4 DEF LInv, TypeOK, SessionInv, Cleared, EndSession, workerVars, Ddl
<1>5. WorkerInv'
  BY <1>1, <1>2 DEF LInv, TypeOK, WorkerInv, EndSession, workerVars, Statement, Ddl
<1>6. TableInv'
  <2>1. CASE s = attempt
    BY <1>1, <1>2, <2>1 DEF LInv, TypeOK, WorkerInv, TableInv, LoadedIsFile, EndSession, workerVars, Statement, Ddl
  <2>2. CASE s # attempt
    BY <1>1, <2>2, TableStays DEF LInv, TypeOK, EndSession, workerVars
  <2> QED BY <2>1, <2>2
<1>7. ProgressInv'
  BY FileStays, Typed DEF LInv, TypeOK, ProgressInv, EndSession, workerVars, Ddl
<1> QED BY <1>3, <1>4, <1>5, <1>6, <1>7 DEF LInv, Attempt
-----------------------------------------------------------------------------
(* The theorems. *)

\* A step that changes nothing.
LEMMA StutterStep == LInv /\ UNCHANGED vars => LInv'
<1> SUFFICES ASSUME LInv, UNCHANGED vars PROVE LInv'
  OBVIOUS
<1>1. LastBatch' = LastBatch /\ BatchOf' = BatchOf /\ Line' = Line
  BY FileStays DEF vars
<1>2. TypeOK'
  BY <1>1 DEF LInv, TypeOK, vars, workerVars, sessionVars
<1>3. \A s \in Attempt : SessionInv(s)'
  BY DEF LInv, SessionInv, Cleared, vars, workerVars, sessionVars
<1>4. WorkerInv'
  BY <1>1 DEF LInv, WorkerInv, vars, workerVars, sessionVars
<1>5. TableInv'
  BY TableStays DEF vars, workerVars, sessionVars
<1>6. ProgressInv'
  BY FileStays, Typed DEF LInv, ProgressInv, vars, workerVars, sessionVars
<1> QED BY <1>2, <1>3, <1>4, <1>5, <1>6 DEF LInv, Attempt

\* The invariant of a load holds for any files, bounds of a batch and number of
\* retries: what an attempt finds in the table is what it put there itself,
\* whatever the server still executes of the attempts before it.
THEOREM LoadingInductive == Spec => []LInv
<1>1. LInv /\ [Next]_vars => LInv'
  BY ConnectStep, SendStep, TableMadeStep, BatchMadeStep, ValidateStep, FailStep, LoseStep,
     DropStep, CreateStep, InsertStep, CommitStep, CountStep, EndSessionStep, StutterStep DEF Next
<1> QED BY <1>1, InitLInv, PTL DEF Spec

\* A staging table that is ready holds every line of its file exactly once.
THEOREM TheFileIsLoaded == Spec => []LoadedIsFile
<1>1. LInv => LoadedIsFile
  BY DEF LInv, TableInv
<1> QED BY <1>1, LoadingInductive, PTL

\* The rows that the screen shows as loaded are committed in the staging table.
THEOREM ProgressIsTrue == Spec => []ProgressIsStored
<1>1. LInv => ProgressIsStored
  BY DEF LInv, ProgressInv
<1> QED BY <1>1, LoadingInductive, PTL

\* codec.batches cuts any file into batches that cover it, each as large as the
\* bounds let it be.
THEOREM TheFileIsCut == Spec => []BatchesCoverFile
<1>1. LInv => BatchesCoverFile
  BY Typed, BatchFacts
<1> QED BY <1>1, LoadingInductive, PTL
=============================================================================
