-------------------------- MODULE OperatorsTheorems --------------------------
(* The rules hold for every table, every pair of dates and every time: for the *)
(* schema and the comparison by case distinction over what they choose, for    *)
(* the conversions by the arithmetic of quotients and remainders.              *)
EXTENDS Operators, FiniteSetTheorems, TLAPS

\* A set of numbers has a least one.
LEMMA LeastNatural ==
  ASSUME NEW S \in SUBSET Nat, S # {}
  PROVE  \E n \in S : \A m \in S : n <= m
<1> DEFINE R == OpToRel(<, Nat)
<1>1. IsWellFoundedOn(R, Nat)
  BY NatLessThanWellFounded
<1>2. \A x, y \in Nat : y < x => <<y, x>> \in R
  BY DEF OpToRel
<1> HIDE DEF R
<1>3. PICK x \in S : \A y \in S : <<y, x>> \notin R
  BY <1>1, WFMin
<1>4. ASSUME NEW m \in S PROVE x <= m
  <2>1. x \in Nat /\ m \in Nat /\ <<m, x>> \notin R
    BY <1>3
  <2> QED BY <2>1, <1>2
<1> QED BY <1>4

\* Induction up to a bound, for the set of the numbers that satisfy a formula.
LEMMA Induction ==
  ASSUME NEW L \in Nat, NEW S, 0 \in S, \A n \in 1..L : n - 1 \in S => n \in S
  PROVE  0..L \subseteq S
<1> DEFINE Bad == (0..L) \ S
<1> SUFFICES ASSUME Bad # {} PROVE FALSE
  OBVIOUS
<1>1. PICK n \in Bad : \A m \in Bad : n <= m
  <2>1. Bad \in SUBSET Nat
    OBVIOUS
  <2> HIDE DEF Bad
  <2> QED BY <2>1, LeastNatural
<1>2. n \in 1..L /\ n - 1 \notin Bad
  BY <1>1
<1> QED BY <1>1, <1>2

-----------------------------------------------------------------------------
(* Conversions. *)

\* A multiple that is positive is not smaller than its factor.
LEMMA Multiple ==
  ASSUME NEW b \in Nat \ {0}, NEW k \in Int, k >= 1
  PROVE  b * k >= b
OBVIOUS

\* Quotient and remainder, in the way of TLA+ and of Python.
LEMMA DivMod ==
  ASSUME NEW a \in Int, NEW b \in Nat \ {0}
  PROVE  /\ a \div b \in Int /\ a % b \in 0..(b - 1)
         /\ a = b * (a \div b) + (a % b)
OBVIOUS

\* A quotient of natural numbers is one.
LEMMA NaturalQuotient ==
  ASSUME NEW a \in Nat, NEW b \in Nat \ {0}
  PROVE  a \div b \in Nat
<1> DEFINE q == a \div b
<1>1. q \in Int /\ a % b \in 0..(b - 1) /\ a = b * q + (a % b)
  BY DivMod
<1> HIDE DEF q
<1>2. ~(-q >= 1)
  <2>1. -q >= 1 => b * (-q) >= b
    BY <1>1, Multiple
  <2>2. b * (-q) = (a % b) - a
    BY <1>1
  <2> QED BY <1>1, <2>1, <2>2
<1>3. q \in Nat
  BY <1>1, <1>2
<1> QED BY <1>3 DEF q

\* They are the only ones.
LEMMA DivModUnique ==
  ASSUME NEW b \in Nat \ {0}, NEW q \in Int, NEW r \in 0..(b - 1), NEW p \in Int, NEW s \in 0..(b - 1),
         b * q + r = b * p + s
  PROVE  q = p /\ r = s
<1>1. b * (q - p) = s - r
  OBVIOUS
<1>2. ~(q - p >= 1)
  <2>1. q - p >= 1 => b * (q - p) >= b
    BY Multiple
  <2> QED BY <1>1, <2>1
<1>3. ~(p - q >= 1)
  <2>1. p - q >= 1 => b * (p - q) >= b
    BY Multiple
  <2>2. b * (p - q) = r - s
    OBVIOUS
  <2> QED BY <2>1, <2>2
<1> QED BY <1>2, <1>3

\* A quotient taken in two steps.
LEMMA Nested ==
  ASSUME NEW a \in Int, NEW b \in Nat \ {0}, NEW c \in Nat \ {0}
  PROVE  a \div (c * b) = (a \div b) \div c
<1> DEFINE q == a \div b
           r == a % b
           p == q \div c
           s == q % c
<1>1. q \in Int /\ r \in 0..(b - 1) /\ a = b * q + r
  BY DivMod
<1> HIDE DEF q, r
<1>2. p \in Int /\ s \in 0..(c - 1) /\ q = c * p + s
  BY <1>1, DivMod
<1> HIDE DEF p, s
<1>3. a = (c * b) * p + (b * s + r)
  <2>1. b * q = b * (c * p + s)
    BY <1>2
  <2>2. b * (c * p + s) = (c * b) * p + b * s
    BY <1>2
  <2> QED BY <1>1, <1>2, <2>1, <2>2
<1>4. c * b \in Nat \ {0} /\ b * s + r \in 0..(c * b - 1)
  <2>1. c * b \in Nat \ {0} /\ b * s \in Nat
    BY <1>2
  <2>2. b * (c - s) >= b
    BY <1>2, Multiple
  <2>3. b * (c - s) = c * b - b * s
    BY <1>2
  <2> QED BY <1>1, <2>1, <2>2, <2>3
<1> DEFINE d == c * b
           e == b * s + r
           x == a \div d
           y == a % d
<1>5. d \in Nat \ {0} /\ e \in 0..(d - 1) /\ a = d * p + e
  BY <1>3, <1>4
<1> HIDE DEF d, e
<1>6. x \in Int /\ y \in 0..(d - 1) /\ a = d * x + y
  BY <1>5, DivMod
<1> HIDE DEF x, y
<1>7. x = p
  BY <1>2, <1>5, <1>6, DivModUnique
<1> QED BY <1>7 DEF d, p, q, x

\* timedelta keeps the whole value, whatever its sign.
LEMMA WholeTimedelta ==
  ASSUME NEW total \in Int
  PROVE  Total(Timedelta(total)) = total
<1> USE ConversionsAssumption
<1> DEFINE s == total \div Micro
           u == total % Micro
           d == s \div DaySeconds
           v == s % DaySeconds
<1>1. Micro \in Nat \ {0} /\ DaySeconds \in Nat \ {0}
  <2>1. Day \in Nat \ {0} /\ Hour \in Nat \ {0} /\ Second \in Nat \ {0} /\ Micro \in Nat \ {0}
    OBVIOUS
  <2>2. Day * Hour \in Nat \ {0}
    BY <2>1
  <2> DEFINE h == Day * Hour
  <2> HIDE DEF h
  <2>3. h * Second \in Nat \ {0}
    BY <2>1, <2>2 DEF h
  <2> QED BY <2>1, <2>3 DEF DaySeconds, h
<1>2. s \in Int /\ u \in Int /\ total = Micro * s + u
  BY <1>1, DivMod
<1> HIDE DEF s, u
<1>3. d \in Int /\ v \in Int /\ s = DaySeconds * d + v
  BY <1>1, <1>2, DivMod
<1> HIDE DEF d, v
<1>4. Total(Timedelta(total)) = (d * DaySeconds + v) * Micro + u
  BY DEF Total, Timedelta, s, u, d, v
<1> QED BY <1>1, <1>2, <1>3, <1>4

\* A TIME arrives as it was, for every value and radices of the clock.
LEMMA EveryTimeArrives ==
  ASSUME NEW total \in Int
  PROVE  TimeArrives(total)
<1> USE ConversionsAssumption
<1> DEFINE D == Decode(Encode(Timedelta(total)))
           size == IF total < 0 THEN -total ELSE total
           s == size \div Micro
           u == size % Micro
           q == s \div Second
           text == BindValue(D)
<1>1. /\ Hour \in Nat \ {0} /\ Second \in Nat \ {0} /\ Micro \in Nat \ {0}
      /\ size \in Nat
  OBVIOUS
<1>2. Total(D) = total
  BY WholeTimedelta DEF Decode, Encode
<1>3. text = [negative |-> total < 0, hours |-> s \div (Hour * Second), minutes |-> q % Hour,
              seconds |-> s % Second, fraction |-> u]
  BY <1>2 DEF BindValue
<1> HIDE DEF D, size, text
<1>4. s \in Int /\ u \in 0..(Micro - 1) /\ size = Micro * s + u
  BY <1>1, DivMod
<1> HIDE DEF s, u
<1>5. s \in Nat
  BY <1>1, NaturalQuotient DEF s
<1> DEFINE h == q \div Hour
           m == q % Hour
           r == s % Second
<1>6. q \in Nat /\ r \in 0..(Second - 1) /\ s = Second * q + r
  <2>1. s \in Nat /\ s \in Int /\ Second \in Nat \ {0}
    BY <1>1, <1>5
  <2>2. q \in Nat
    BY ONLY <2>1, NaturalQuotient
  <2>3. r \in 0..(Second - 1) /\ s = Second * q + r
    BY ONLY <2>1, DivMod
  <2> QED BY <2>2, <2>3
<1>7. s \div (Hour * Second) = h
  <2>1. s \in Int /\ Second \in Nat \ {0} /\ Hour \in Nat \ {0}
    BY <1>1, <1>5
  <2>2. s \div (Hour * Second) = (s \div Second) \div Hour
    BY ONLY <2>1, Nested
  <2> QED BY <2>2
<1> HIDE DEF q, r
<1>8. h \in Nat /\ m \in 0..(Hour - 1) /\ q = Hour * h + m
  <2>1. q \in Nat /\ q \in Int /\ Hour \in Nat \ {0}
    BY <1>1, <1>6
  <2>2. h \in Nat
    BY ONLY <2>1, NaturalQuotient
  <2>3. m \in 0..(Hour - 1) /\ q = Hour * h + m
    BY ONLY <2>1, DivMod
  <2> QED BY <2>2, <2>3
<1> HIDE DEF h, m
<1>9. /\ text.negative = (total < 0) /\ text.hours = h /\ text.minutes = m
      /\ text.seconds = r /\ text.fraction = u
  BY <1>3, <1>7 DEF m, r
<1>10. Read(text) = IF total < 0 THEN -size ELSE size
  <2>1. (h * Hour + m) * Second + r = s
    BY <1>1, <1>6, <1>8
  <2>2. s * Micro + u = size
    BY <1>1, <1>4
  <2> QED BY <1>9, <2>1, <2>2 DEF Read
<1>11. Read(text) = total
  BY <1>10 DEF size
<1> QED BY <1>6, <1>8, <1>9, <1>4, <1>11 DEF TimeArrives, D, text

-----------------------------------------------------------------------------
(* Comparison. *)

\* There are n first ones among enough keys.
LEMMA FirstExists ==
  ASSUME NEW rank \in Ranks, NEW keys \in SUBSET Keys, IsFiniteSet(keys), NEW n \in 0..Cardinality(keys)
  PROVE  \E T \in kSubset(n, keys) : \A k \in T, m \in keys \ T : rank[k] < rank[m]
<1> DEFINE Low(T) == \A k \in T, m \in keys \ T : rank[k] < rank[m]
           L == Cardinality(keys)
           S == {j \in 0..L : \E T \in SUBSET keys : Cardinality(T) = j /\ Low(T)}
<1>1. L \in Nat
  BY FS_CardinalityType
<1>2. 0 \in S
  <2>1. {} \in SUBSET keys /\ Cardinality({}) = 0 /\ Low({})
    BY FS_EmptySet
  <2> QED BY <1>1, <2>1
<1>3. ASSUME NEW j \in 1..L, j - 1 \in S PROVE j \in S
  <2>1. PICK T \in SUBSET keys : Cardinality(T) = j - 1 /\ Low(T)
    BY <1>3
  <2>2. IsFiniteSet(T)
    BY FS_Subset
  <2>3. keys \ T # {}
    <3>1. T # keys
      BY <1>1, <2>1
    <3> QED BY <3>1
  <2> DEFINE R == {rank[k] : k \in keys \ T}
  <2>4. rank \in [Keys -> Nat] /\ \A k, m \in Keys : rank[k] = rank[m] => k = m
    BY DEF Ranks
  <2>5. R \in SUBSET Nat /\ R # {}
    BY <2>3, <2>4
  <2>6. PICK r \in R : \A q \in R : r <= q
    <3> HIDE DEF R
    <3> QED BY <2>5, LeastNatural
  <2>7. PICK x \in keys \ T : r = rank[x]
    OBVIOUS
  <2> DEFINE U == T \cup {x}
  <2>8. Cardinality(U) = j
    <3>1. Cardinality(U) = Cardinality(T) + 1
      BY <2>2, <2>7, FS_AddElement
    <3> QED BY <1>1, <2>1, <3>1
  <2>9. ASSUME NEW k \in U, NEW m \in keys \ U PROVE rank[k] < rank[m]
    <3>1. CASE k \in T
      BY <2>1, <3>1
    <3>2. CASE k = x
      <4>1. rank[x] <= rank[m] /\ rank[x] # rank[m]
        BY <2>4, <2>6, <2>7
      <4>2. rank[x] \in Nat /\ rank[m] \in Nat
        BY <2>4
      <4> QED BY <3>2, <4>1, <4>2
    <3> QED BY <3>1, <3>2
  <2>10. U \in SUBSET keys
    BY <2>1
  <2> HIDE DEF U
  <2> QED BY <2>8, <2>9, <2>10
<1> HIDE DEF S
<1>4. 0..L \subseteq S
  <2> HIDE DEF L
  <2> QED BY <1>1, <1>2, <1>3, Induction
<1>5. n \in S
  BY <1>4
<1> QED BY <1>5 DEF S, kSubset

\* What First takes: as many as it was asked for or all.
LEMMA FirstFacts ==
  ASSUME NEW rank \in Ranks, NEW keys \in SUBSET Keys, IsFiniteSet(keys), NEW n \in Nat
  PROVE  /\ First(keys, rank, n) \in SUBSET keys /\ IsFiniteSet(First(keys, rank, n))
         /\ Cardinality(keys) \in Nat
         /\ Cardinality(First(keys, rank, n)) = IF n <= Cardinality(keys) THEN n ELSE Cardinality(keys)
         /\ n >= Cardinality(keys) => First(keys, rank, n) = keys
<1> DEFINE C == Cardinality(keys)
           l == IF n <= C THEN n ELSE C
           T == First(keys, rank, n)
<1>1. C \in Nat
  BY FS_CardinalityType
<1>2. Min({n, C}) = l
  <2> HIDE DEF C
  <2>1. l \in {n, C} /\ \A y \in {n, C} : l <= y
    BY <1>1
  <2>2. \A x \in {n, C} : (\A y \in {n, C} : x <= y) => x = l
    BY <1>1
  <2> QED BY <2>1, <2>2 DEF Min
<1>3. l \in 0..C
  BY <1>1
<1>4. T = CHOOSE U \in kSubset(l, keys) : \A k \in U, m \in keys \ U : rank[k] < rank[m]
  BY <1>2 DEF First
<1>5. \E U \in kSubset(l, keys) : \A k \in U, m \in keys \ U : rank[k] < rank[m]
  BY <1>3, FirstExists
<1> HIDE DEF T, l
<1>6. T \in kSubset(l, keys)
  BY <1>4, <1>5
<1>7. T \in SUBSET keys /\ Cardinality(T) = l /\ IsFiniteSet(T)
  BY <1>6, FS_Subset DEF kSubset
<1>8. n >= C => T = keys
  <2>1. n >= C => l = C
    BY <1>1 DEF l
  <2> QED BY <1>7, <2>1, FS_Subset
<1> QED BY <1>1, <1>7, <1>8 DEF T, l

IsDay(rows) == DOMAIN rows \subseteq Keys /\ IsFiniteSet(DOMAIN rows)

\* What is loaded, and all of it without the mark.
LEMMA LoadFacts ==
  ASSUME NEW rows, IsDay(rows), NEW maxRows \in Nat
  PROVE  /\ Load(rows, maxRows).keys \in SUBSET (DOMAIN rows) /\ IsFiniteSet(Load(rows, maxRows).keys)
         /\ ~Load(rows, maxRows).truncated => Load(rows, maxRows).keys = DOMAIN rows
<1> DEFINE D == DOMAIN rows
           got == First(D, ServerRank, maxRows + 1)
           keys == First(got, ServerRank, maxRows)
<1>1. D \in SUBSET Keys /\ IsFiniteSet(D) /\ ServerRank \in Ranks /\ maxRows + 1 \in Nat
  BY ComparisonAssumption DEF IsDay
<1>2. Load(rows, maxRows) = [keys |-> keys, truncated |-> Cardinality(got) > maxRows]
  BY DEF Load
<1> HIDE DEF D
<1>3. /\ got \in SUBSET D /\ IsFiniteSet(got) /\ Cardinality(D) \in Nat
      /\ Cardinality(got) = IF maxRows + 1 <= Cardinality(D) THEN maxRows + 1 ELSE Cardinality(D)
      /\ maxRows + 1 >= Cardinality(D) => got = D
  BY <1>1, FirstFacts
<1> HIDE DEF got
<1>4. got \in SUBSET Keys
  BY <1>1, <1>3
<1>5. /\ keys \in SUBSET got /\ IsFiniteSet(keys) /\ Cardinality(got) \in Nat
      /\ maxRows >= Cardinality(got) => keys = got
  BY <1>1, <1>3, <1>4, FirstFacts
<1> HIDE DEF keys
<1>6. ~(Cardinality(got) > maxRows) => keys = D
  BY <1>3, <1>5
<1>7. Load(rows, maxRows).keys = keys /\ Load(rows, maxRows).truncated = (Cardinality(got) > maxRows)
  BY <1>2
<1> QED BY <1>3, <1>5, <1>6, <1>7 DEF D

\* How three sets that are apart share a limit.
LEMMA Shares ==
  ASSUME NEW n \in Nat, NEW x \in Nat, NEW y \in Nat, NEW z \in Nat, NEW a, NEW b, NEW c,
         a = IF n <= x THEN n ELSE x,
         b = IF n - a <= y THEN n - a ELSE y,
         c = IF n - a - b <= z THEN n - a - b ELSE z
  PROVE  /\ a \in Nat /\ b \in Nat /\ c \in Nat /\ n - a \in Nat /\ n - a - b \in Nat
         /\ a + b + c = IF x + y + z > n THEN n ELSE x + y + z
         /\ ~(x + y + z > n) => n >= x /\ n - a >= y /\ n - a - b >= z
OBVIOUS

\* The differences that are met, and those of them that are listed.
LEMMA CompareFacts ==
  ASSUME NEW older, IsDay(older), NEW newer, IsDay(newer), NEW maxRows \in Nat, NEW maxResults \in Nat
  PROVE  LET c == Compare(older, newer, maxRows, maxResults)
             old == Load(older, maxRows).keys
             new == Load(newer, maxRows).keys
             adds == new \ old
             removes == old \ new
             changes == Differing(older, newer, old \cap new)
             total == Cardinality(adds) + Cardinality(removes) + Cardinality(changes)
         IN /\ c.truncated = (Load(older, maxRows).truncated \/ Load(newer, maxRows).truncated)
            /\ IsFiniteSet(adds) /\ IsFiniteSet(removes) /\ IsFiniteSet(changes)
            /\ c.resultsTruncated = (total > maxResults)
            /\ c.added \in SUBSET adds /\ c.removed \in SUBSET removes /\ c.changed \in SUBSET changes
            /\ Cardinality(c.added) + Cardinality(c.removed) + Cardinality(c.changed)
                 = IF total > maxResults THEN maxResults ELSE total
            /\ ~(total > maxResults) => c.added = adds /\ c.removed = removes /\ c.changed = changes
<1> DEFINE old == Load(older, maxRows).keys
           new == Load(newer, maxRows).keys
           A == new \ old
           R == old \ new
           C == Differing(older, newer, old \cap new)
           a == First(A, ReprRank, maxResults)
           r == First(R, ReprRank, maxResults - Cardinality(a))
           d == First(C, ReprRank, maxResults - Cardinality(a) - Cardinality(r))
           total == Cardinality(A) + Cardinality(R) + Cardinality(C)
           cut == Load(older, maxRows).truncated \/ Load(newer, maxRows).truncated
           c == Compare(older, newer, maxRows, maxResults)
<1>1. /\ old \in SUBSET (DOMAIN older) /\ IsFiniteSet(old)
      /\ new \in SUBSET (DOMAIN newer) /\ IsFiniteSet(new)
  BY LoadFacts
<1>2. c = [added |-> a, removed |-> r, changed |-> d, truncated |-> cut, resultsTruncated |-> total > maxResults]
  BY DEF Compare, CountAll
<1>3. old \in SUBSET Keys /\ new \in SUBSET Keys
  BY <1>1 DEF IsDay
<1>4. C \in SUBSET old
  BY DEF Differing
<1> HIDE DEF old, new, cut, c, C
<1>5. /\ A \in SUBSET Keys /\ R \in SUBSET Keys /\ C \in SUBSET Keys
      /\ IsFiniteSet(A) /\ IsFiniteSet(R) /\ IsFiniteSet(C)
  BY <1>1, <1>3, <1>4, FS_Subset, FS_Difference
<1> HIDE DEF A, R
<1>6. ReprRank \in Ranks
  BY ComparisonAssumption
<1>7. /\ a \in SUBSET A /\ Cardinality(A) \in Nat
      /\ Cardinality(a) = IF maxResults <= Cardinality(A) THEN maxResults ELSE Cardinality(A)
      /\ maxResults >= Cardinality(A) => a = A
  BY <1>5, <1>6, FirstFacts
<1> HIDE DEF a
<1>8. maxResults - Cardinality(a) \in Nat
  BY <1>7
<1>9. /\ r \in SUBSET R /\ Cardinality(R) \in Nat
      /\ Cardinality(r) = IF maxResults - Cardinality(a) <= Cardinality(R) THEN maxResults - Cardinality(a)
                           ELSE Cardinality(R)
      /\ maxResults - Cardinality(a) >= Cardinality(R) => r = R
  BY <1>5, <1>6, <1>8, FirstFacts
<1> HIDE DEF r
<1>10. maxResults - Cardinality(a) - Cardinality(r) \in Nat
  BY <1>7, <1>8, <1>9
<1>11. /\ d \in SUBSET C /\ Cardinality(C) \in Nat
       /\ Cardinality(d) = IF maxResults - Cardinality(a) - Cardinality(r) <= Cardinality(C)
                            THEN maxResults - Cardinality(a) - Cardinality(r) ELSE Cardinality(C)
       /\ maxResults - Cardinality(a) - Cardinality(r) >= Cardinality(C) => d = C
  BY <1>5, <1>6, <1>10, FirstFacts
<1> HIDE DEF d
<1>12. /\ Cardinality(a) + Cardinality(r) + Cardinality(d) = IF total > maxResults THEN maxResults ELSE total
       /\ ~(total > maxResults) => /\ maxResults >= Cardinality(A) /\ maxResults - Cardinality(a) >= Cardinality(R)
                                   /\ maxResults - Cardinality(a) - Cardinality(r) >= Cardinality(C)
  BY <1>7, <1>9, <1>11, Shares
<1>13. /\ c.added = a /\ c.removed = r /\ c.changed = d /\ c.truncated = cut
       /\ c.resultsTruncated = (total > maxResults)
  BY <1>2
<1> HIDE DEF total
<1> QED BY <1>5, <1>7, <1>9, <1>11, <1>12, <1>13 DEF A, R, C, old, new, cut, c, total

\* A comparison without a mark is the whole difference, for any rows and limits.
LEMMA WholeComparison ==
  ASSUME NEW older, IsDay(older), NEW newer, IsDay(newer), NEW maxRows \in Nat, NEW maxResults \in Nat
  PROVE  UnmarkedIsWhole(older, newer, maxRows, maxResults)
<1> DEFINE c == Compare(older, newer, maxRows, maxResults)
           old == Load(older, maxRows)
           new == Load(newer, maxRows)
<1>1. ASSUME ~c.truncated, ~c.resultsTruncated
      PROVE  /\ c.added = DOMAIN newer \ DOMAIN older /\ c.removed = DOMAIN older \ DOMAIN newer
             /\ c.changed = Differing(older, newer, DOMAIN older \cap DOMAIN newer)
  <2>1. ~old.truncated /\ ~new.truncated
    BY <1>1, CompareFacts
  <2>2. old.keys = DOMAIN older /\ new.keys = DOMAIN newer
    BY <2>1, LoadFacts
  <2>3. /\ c.added = new.keys \ old.keys /\ c.removed = old.keys \ new.keys
        /\ c.changed = Differing(older, newer, old.keys \cap new.keys)
    <3> DEFINE adds == new.keys \ old.keys
               removes == old.keys \ new.keys
               changes == Differing(older, newer, old.keys \cap new.keys)
               total == Cardinality(adds) + Cardinality(removes) + Cardinality(changes)
    <3>1. c.resultsTruncated = (total > maxResults)
      BY CompareFacts
    <3>2. ~(total > maxResults) => c.added = adds /\ c.removed = removes /\ c.changed = changes
      BY CompareFacts
    <3> HIDE DEF c, total, adds, removes, changes
    <3>3. c.added = adds /\ c.removed = removes /\ c.changed = changes
      BY <1>1, <3>1, <3>2
    <3> QED BY <3>3 DEF adds, removes, changes
  <2> HIDE DEF c, old, new
  <2> QED BY <2>2, <2>3
<1> HIDE DEF c
<1> QED BY <1>1 DEF UnmarkedIsWhole, c

\* What a comparison lists are as many of the differences as the limit lets it.
LEMMA FullComparison ==
  ASSUME NEW older, IsDay(older), NEW newer, IsDay(newer), NEW maxRows \in Nat, NEW maxResults \in Nat
  PROVE  MarkedIsFull(older, newer, maxRows, maxResults)
<1> DEFINE c == Compare(older, newer, maxRows, maxResults)
           old == Load(older, maxRows).keys
           new == Load(newer, maxRows).keys
           A == new \ old
           R == old \ new
           C == Differing(older, newer, old \cap new)
           a == c.added
           r == c.removed
           d == c.changed
           total == Cardinality(A) + Cardinality(R) + Cardinality(C)
           listed == Cardinality(a) + Cardinality(r) + Cardinality(d)
           met == {k \in old \cup new : k \in old \cap new => older[k] # newer[k]}
<1>1. /\ IsFiniteSet(A) /\ IsFiniteSet(R) /\ IsFiniteSet(C)
      /\ c.resultsTruncated = (total > maxResults)
      /\ a \in SUBSET A /\ r \in SUBSET R /\ d \in SUBSET C
      /\ listed = IF total > maxResults THEN maxResults ELSE total
  <2>1. IsFiniteSet(A) /\ IsFiniteSet(R) /\ IsFiniteSet(C)
    BY CompareFacts
  <2>2. a \in SUBSET A /\ r \in SUBSET R /\ d \in SUBSET C
    BY CompareFacts
  <2>3. c.resultsTruncated = (total > maxResults)
    BY CompareFacts
  <2>4. listed = IF total > maxResults THEN maxResults ELSE total
    BY CompareFacts
  <2> QED BY <2>1, <2>2, <2>3, <2>4
<1>2. met = (A \cup R) \cup C
  BY DEF Differing
<1>3. A \cap R = {} /\ (A \cup R) \cap C = {}
  BY DEF Differing
<1> HIDE DEF A, R, C, a, r, d, met
<1>4. ASSUME NEW X \in SUBSET A, NEW Y \in SUBSET R, NEW Z \in SUBSET C
      PROVE  Cardinality((X \cup Y) \cup Z) = Cardinality(X) + Cardinality(Y) + Cardinality(Z)
  <2>1. X \cap Y = {} /\ (X \cup Y) \cap Z = {}
    BY <1>3
  <2>2. IsFiniteSet(X) /\ IsFiniteSet(Y) /\ IsFiniteSet(Z)
    BY <1>1, FS_Subset
  <2>3. IsFiniteSet(X \cup Y) /\ Cardinality(X \cup Y) = Cardinality(X) + Cardinality(Y) - Cardinality({})
    BY <2>1, <2>2, FS_Union
  <2>4. Cardinality((X \cup Y) \cup Z) = Cardinality(X \cup Y) + Cardinality(Z) - Cardinality({})
    BY <2>1, <2>2, <2>3, FS_Union
  <2>5. Cardinality({}) = 0 /\ Cardinality(X) \in Nat /\ Cardinality(Y) \in Nat /\ Cardinality(Z) \in Nat
    BY <2>2, FS_EmptySet, FS_CardinalityType
  <2> QED BY <2>3, <2>4, <2>5
<1>5. Cardinality(met) = total
  BY <1>2, <1>4
<1>6. Cardinality((a \cup r) \cup d) = listed
  BY <1>1, <1>4
<1>7. (a \cup r) \cup d \in kSubset(listed, met)
  BY <1>1, <1>2, <1>6 DEF kSubset
<1> HIDE DEF listed, total, c
<1>8. listed = IF c.resultsTruncated THEN maxResults ELSE Cardinality(met)
  BY <1>1, <1>5
<1> QED BY <1>7, <1>8 DEF MarkedIsFull, listed, met, a, r, d, c, old, new

-----------------------------------------------------------------------------
(* Schema rules. *)

\* The columns of an index.
LEMMA NamesFacts ==
  ASSUME NEW parts \in Seq(PartRecord)
  PROVE  /\ Names(parts) \in Seq(STRING) /\ Len(Names(parts)) = Len(parts)
         /\ \A i \in 1..Len(parts) : Names(parts)[i] = parts[i].column
<1>1. Len(parts) \in Nat /\ \A i \in 1..Len(parts) : parts[i] \in PartRecord
  OBVIOUS
<1>2. \A p \in PartRecord : p.column \in STRING
  BY DEF PartRecord
<1>3. Names(parts) = [i \in 1..Len(parts) |-> parts[i].column]
  BY DEF Names
<1> DEFINE f == Names(parts)
           L == Len(parts)
<1>4. f \in [1..L -> STRING]
  BY <1>1, <1>2, <1>3
<1>5. \A i \in 1..L : f[i] = parts[i].column
  BY <1>3
<1>6. L \in Nat
  BY <1>1
<1> HIDE DEF f, L
<1>7. f \in Seq(STRING) /\ Len(f) = L
  BY <1>4, <1>6
<1> QED BY <1>5, <1>7 DEF f, L

\* The first of some indexes, if there is one.
LEMMA FirstOfFacts ==
  ASSUME NEW t \in TableRecord, NEW places \in SUBSET (1..Len(t.indexes)), places # {}
  PROVE  \E n \in places : FirstOf(t, places) = Names(t.indexes[n].parts)
<1>1. places \in SUBSET Nat
  OBVIOUS
<1>2. \E n \in places : \A m \in places : n <= m
  BY <1>1, LeastNatural
<1>3. Min(places) \in places
  BY <1>2 DEF Min
<1> QED BY <1>3 DEF FirstOf

\* The primary key is that of an index, as is the key that rows are read by.
LEMMA PrimaryFacts ==
  ASSUME NEW t, WellFormed(t)
  PROVE  /\ Primary(t) \in Seq(STRING)
         /\ Primary(t) # << >> => \E n \in 1..Len(t.indexes) :
              t.indexes[n].name = "PRIMARY" /\ Primary(t) = Names(t.indexes[n].parts)
<1> DEFINE places == {n \in 1..Len(t.indexes) : t.indexes[n].name = "PRIMARY"}
<1>1. t \in TableRecord /\ t.indexes \in Seq(IndexRecord)
  BY DEF WellFormed, TableRecord
<1>2. Primary(t) = FirstOf(t, places) /\ places \in SUBSET (1..Len(t.indexes))
  BY DEF Primary
<1>3. \A n \in places : n \in 1..Len(t.indexes) /\ t.indexes[n].name = "PRIMARY"
  OBVIOUS
<1>4. \A n \in 1..Len(t.indexes) : t.indexes[n].parts \in Seq(PartRecord)
  <2>1. \A n \in 1..Len(t.indexes) : t.indexes[n] \in IndexRecord
    BY <1>1
  <2>2. \A i \in IndexRecord : i.parts \in Seq(PartRecord)
    BY DEF IndexRecord
  <2> QED BY <2>1, <2>2
<1> HIDE DEF places
<1>5. CASE places = {}
  BY <1>2, <1>5 DEF FirstOf
<1>6. CASE places # {}
  <2>1. PICK n \in places : FirstOf(t, places) = Names(t.indexes[n].parts)
    BY <1>1, <1>2, <1>6, FirstOfFacts
  <2>2. Primary(t) = Names(t.indexes[n].parts)
    BY <1>2, <2>1
  <2>3. Primary(t) \in Seq(STRING)
    BY <1>3, <1>4, <2>2, NamesFacts
  <2> QED BY <1>3, <2>2, <2>3
<1> QED BY <1>5, <1>6

\* A key that rows are read by is a unique index that identifies them.
LEMMA KeyFacts ==
  ASSUME NEW t, WellFormed(t), Key(t) # << >>
  PROVE  \E n \in 1..Len(t.indexes) :
           /\ t.indexes[n].unique /\ Key(t) = Names(t.indexes[n].parts)
           /\ \A p \in ToSet(t.indexes[n].parts) : ~Column(t, p.column).nullable
<1> DEFINE places == {n \in 1..Len(t.indexes) : t.indexes[n].unique /\ Identifies(t, t.indexes[n])}
<1>1. t \in TableRecord /\ t.indexes \in Seq(IndexRecord)
  BY DEF WellFormed, TableRecord
<1>2. \A n \in 1..Len(t.indexes) : t.indexes[n] \in ToSet(t.indexes)
  BY <1>1 DEF ToSet
<1>3. CASE Primary(t) # << >>
  <2>1. PICK n \in 1..Len(t.indexes) :
          t.indexes[n].name = "PRIMARY" /\ Primary(t) = Names(t.indexes[n].parts)
    BY <1>3, PrimaryFacts
  <2>2. Key(t) = Names(t.indexes[n].parts)
    BY <1>3, <2>1 DEF Key
  <2>3. t.indexes[n].unique /\ \A p \in ToSet(t.indexes[n].parts) : ~Column(t, p.column).nullable
    BY <1>2, <2>1 DEF WellFormed
  <2> QED BY <2>2, <2>3
<1>4. CASE Primary(t) = << >>
  <2>1. Key(t) = FirstOf(t, places) /\ places \in SUBSET (1..Len(t.indexes))
    BY <1>4 DEF Key
  <2>2. \A n \in places : n \in 1..Len(t.indexes) /\ t.indexes[n].unique /\ Identifies(t, t.indexes[n])
    OBVIOUS
  <2> HIDE DEF places
  <2>3. places # {}
    BY <2>1 DEF FirstOf
  <2>4. PICK n \in places : FirstOf(t, places) = Names(t.indexes[n].parts)
    BY <1>1, <2>1, <2>3, FirstOfFacts
  <2> QED BY <2>1, <2>2, <2>4 DEF Identifies
<1> QED BY <1>3, <1>4

\* What an index says of two rows that stand side by side.
LEMMA RowsApart ==
  ASSUME NEW t, WellFormed(t), NEW n \in 1..Len(t.indexes), t.indexes[n].unique,
         \A p \in ToSet(t.indexes[n].parts) : ~Column(t, p.column).nullable,
         NEW r1, NEW r2, SideBySide(t, r1, r2)
  PROVE  \E p \in ToSet(t.indexes[n].parts) :
           ~p.prefix /\ r1[p.column] # r2[p.column] /\ p.column \in {c.name : c \in ToSet(t.columns)}
<1> DEFINE i == t.indexes[n]
<1>1. t.indexes \in Seq(IndexRecord)
  BY DEF WellFormed, TableRecord
<1>2. i \in ToSet(t.indexes)
  BY <1>1 DEF ToSet
<1>3. i \in Uniques(t)
  BY <1>2 DEF Uniques
<1>4. ~Collide(i, r1, r2)
  BY <1>3 DEF SideBySide
<1>5. PICK p \in ToSet(i.parts) :
        ~(r1[p.column] # Null /\ r2[p.column] # Null /\ (p.prefix \/ r1[p.column] = r2[p.column]))
  BY <1>4 DEF Collide
<1> DEFINE names == {c.name : c \in ToSet(t.columns)}
           d == Column(t, p.column)
<1>6. p.column \in names
  BY <1>2, <1>5 DEF WellFormed
<1>7. d \in ToSet(t.columns) /\ d.name = p.column
  BY <1>6 DEF Column
<1>8. ~d.nullable
  BY <1>5
<1> HIDE DEF i, d, names
<1>9. r1[p.column] # Null /\ r2[p.column] # Null
  BY <1>7, <1>8 DEF SideBySide, Fits
<1> QED BY <1>5, <1>6, <1>9 DEF i, names

\* A column of an index is one of its names.
LEMMA PartNamed ==
  ASSUME NEW parts, NEW p \in ToSet(parts), DOMAIN parts = 1..Len(parts)
  PROVE  p.column \in ToSet(Names(parts))
BY DEF ToSet, Names

\* The columns of the key of a table differ in any two of its rows.
LEMMA KeyApart ==
  ASSUME NEW t, WellFormed(t), Key(t) # << >>, NEW r1, NEW r2, SideBySide(t, r1, r2)
  PROVE  \E c \in ToSet(Key(t)) : r1[c] # r2[c] /\ c \in {d.name : d \in ToSet(t.columns)}
<1>1. PICK n \in 1..Len(t.indexes) :
        /\ t.indexes[n].unique /\ Key(t) = Names(t.indexes[n].parts)
        /\ \A p \in ToSet(t.indexes[n].parts) : ~Column(t, p.column).nullable
  BY KeyFacts
<1>2. PICK p \in ToSet(t.indexes[n].parts) :
        r1[p.column] # r2[p.column] /\ p.column \in {c.name : c \in ToSet(t.columns)}
  BY <1>1, RowsApart
<1>3. DOMAIN t.indexes[n].parts = 1..Len(t.indexes[n].parts)
  <2>1. t.indexes[n] \in IndexRecord
    BY DEF WellFormed, TableRecord
  <2>2. t.indexes[n].parts \in Seq(PartRecord)
    BY <2>1 DEF IndexRecord
  <2> QED BY <2>2
<1>4. p.column \in ToSet(Key(t))
  BY <1>1, <1>2, <1>3, PartNamed
<1> QED BY <1>2, <1>4

\* The key that pages follow tells rows apart, in any table.
LEMMA PagesTell ==
  ASSUME NEW t, WellFormed(t), NEW values
  PROVE  KeyTellsRowsApart(t, values)
BY KeyApart DEF KeyTellsRowsApart

\* The key of a comparison tells the rows of one date apart, in any table.
LEMMA DaysTell ==
  ASSUME NEW t, WellFormed(t), NEW values
  PROVE  DayKeyTellsRowsApart(t, values)
<1> SUFFICES ASSUME DayKey(t) # {}, NEW r1 \in Rows(t, values), NEW r2 \in Rows(t, values), SideBySide(t, r1, r2),
                    \A n \in DateNames \cap DOMAIN r1 : r1[n] = r2[n]
             PROVE  \E n \in DayKey(t) : r1[n] # r2[n]
  BY DEF DayKeyTellsRowsApart
<1>1. DayKey(t) = ToSet(Key(t)) \ DateNames
  BY DEF DayKey
<1>2. Key(t) # << >>
  BY <1>1 DEF ToSet
<1>3. PICK c \in ToSet(Key(t)) : r1[c] # r2[c] /\ c \in {d.name : d \in ToSet(t.columns)}
  BY <1>2, KeyApart
<1>4. DOMAIN r1 = {d.name : d \in ToSet(t.columns)}
  BY DEF Rows
<1> QED BY <1>1, <1>3, <1>4

\* One more element at the end.
LEMMA OneMore ==
  ASSUME NEW S, NEW p \in Seq(S), NEW x \in S, NEW q, q = p \o <<x>>
  PROVE  /\ q \in Seq(S) /\ Len(q) = Len(p) + 1 /\ DOMAIN q = 1..(Len(p) + 1) /\ q[Len(p) + 1] = x
         /\ \A i \in 1..Len(p) : q[i] = p[i]
OBVIOUS

\* What the schema that is expected of a snapshot table is, part by part.
DatedSchema(s, e) ==
    /\ e.columns \in Seq(ColumnRecord)
    /\ Len(e.columns) = Len(s.columns) + 1 /\ DOMAIN e.columns = 1..(Len(s.columns) + 1)
    /\ \A i \in 1..Len(s.columns) : e.columns[i] = [s.columns[i] EXCEPT !.extra = FALSE]
    /\ e.columns[Len(s.columns) + 1] = [name |-> DateName, type |-> Date, nullable |-> FALSE, extra |-> FALSE]
    /\ e.pk = IF s.pk = << >> THEN << >> ELSE <<DateName>> \o s.pk
    /\ e.unique = IF e.pk = << >> THEN {} ELSE {<<"PRIMARY", e.pk>>}
    /\ e.pk \in Seq(STRING)
    /\ e.pk # << >> => Len(e.pk) = Len(s.pk) + 1 /\ e.pk[1] = DateName /\ DOMAIN e.pk = 1..Len(e.pk)
                       /\ \A i \in 1..Len(s.pk) : e.pk[i + 1] = s.pk[i]

\* The schema that is expected of the snapshot table of a source.
LEMMA ExpectedFacts ==
  ASSUME NEW s, NEW e, s.columns \in Seq(ColumnRecord), s.pk \in Seq(STRING), e = ExpectedSchema(s)
  PROVE  DatedSchema(s, e)
<1> DEFINE L == Len(s.columns)
           date == [name |-> DateName, type |-> Date, nullable |-> FALSE, extra |-> FALSE]
           plain == [i \in 1..L |-> [s.columns[i] EXCEPT !.extra = FALSE]]
           key == IF s.pk = << >> THEN << >> ELSE <<DateName>> \o s.pk
<1>1. e = [columns |-> plain \o <<date>>, pk |-> key, key |-> key,
           unique |-> IF key = << >> THEN {} ELSE {<<"PRIMARY", key>>}]
  BY DEF ExpectedSchema
<1>2. L \in Nat
  OBVIOUS
<1>3. plain \in Seq(ColumnRecord) /\ Len(plain) = L
  <2>1. \A c \in ColumnRecord : [c EXCEPT !.extra = FALSE] \in ColumnRecord
    BY DEF ColumnRecord
  <2>2. \A i \in 1..L : s.columns[i] \in ColumnRecord
    OBVIOUS
  <2>3. plain \in [1..L -> ColumnRecord]
    BY <2>1, <2>2
  <2> HIDE DEF plain, L
  <2> QED BY <1>2, <2>3
<1>4. \A i \in 1..L : plain[i] = [s.columns[i] EXCEPT !.extra = FALSE]
  OBVIOUS
<1> HIDE DEF L, plain, date
<1>5. e.columns = plain \o <<date>> /\ e.pk = key /\ e.unique = IF key = << >> THEN {} ELSE {<<"PRIMARY", key>>}
  BY <1>1
<1>6. /\ e.columns \in Seq(ColumnRecord) /\ Len(e.columns) = L + 1 /\ DOMAIN e.columns = 1..(L + 1) /\ e.columns[L + 1] = date
      /\ \A i \in 1..L : e.columns[i] = plain[i]
  <2> DEFINE q == e.columns
  <2>1. date \in ColumnRecord
    BY SchemaAssumption DEF date, ColumnRecord
  <2>2. q = plain \o <<date>>
    BY <1>5
  <2> HIDE DEF q
  <2>3. /\ q \in Seq(ColumnRecord) /\ Len(q) = Len(plain) + 1 /\ DOMAIN q = 1..(Len(plain) + 1) /\ q[Len(plain) + 1] = date
        /\ \A i \in 1..Len(plain) : q[i] = plain[i]
    BY <1>3, <2>1, <2>2, OneMore
  <2> QED BY <1>3, <2>3 DEF q
<1>7. e.pk # << >> => Len(e.pk) = Len(s.pk) + 1 /\ e.pk[1] = DateName /\ DOMAIN e.pk = 1..Len(e.pk)
                     /\ \A i \in 1..Len(s.pk) : e.pk[i + 1] = s.pk[i]
  BY <1>5
<1>8. e.pk \in Seq(STRING)
  <2>1. DateName \in STRING
    BY SchemaAssumption
  <2>2. <<DateName>> \o s.pk \in Seq(STRING)
    BY <2>1
  <2>3. << >> \in Seq(STRING)
    OBVIOUS
  <2> QED BY <1>5, <2>2, <2>3
<1> QED BY <1>4, <1>5, <1>6, <1>7, <1>8 DEF DatedSchema, L, date

\* What Clean of compare_schema leaves of a column.
Plain(c) == [c EXCEPT !.extra = FALSE]

\* A column is plain at once, and keeps the rest.
LEMMA PlainFacts ==
  ASSUME NEW c \in ColumnRecord
  PROVE  /\ Plain(c) \in ColumnRecord /\ ~Plain(c).extra /\ Plain(Plain(c)) = Plain(c)
         /\ Plain(c).name = c.name /\ Plain(c).type = c.type /\ Plain(c).nullable = c.nullable
BY DEF Plain, ColumnRecord

\* The schema of a source is well typed.
LEMMA SchemaTyped ==
  ASSUME NEW t, WellFormed(t)
  PROVE  /\ Schema(t).columns = t.columns /\ t.columns \in Seq(ColumnRecord)
         /\ Schema(t).pk = Primary(t) /\ Primary(t) \in Seq(STRING)
         /\ Schema(t).unique = {<<i.name, Names(i.parts)>> : i \in Uniques(t)}
         /\ Schema(t).indexes = t.indexes /\ t.indexes \in Seq(IndexRecord)
BY PrimaryFacts DEF Schema, WellFormed, TableRecord

\* The server makes the columns that were expected.
LEMMA CreatedColumns ==
  ASSUME NEW e, e.columns \in Seq(ColumnRecord)
  PROVE  /\ Len(Created(e).columns) = Len(e.columns)
         /\ \A i \in 1..Len(e.columns) : Created(e).columns[i] = Plain(e.columns[i])
         /\ \A c \in ToSet(Created(e).columns) : ~c.extra
<1> DEFINE L == Len(e.columns)
           Made(c) == [c EXCEPT !.extra = c.type = Timestamp /\ ~c.nullable /\ ~HasDefault(c)]
           cols == Created(e).columns
<1>1. cols = [i \in 1..L |-> Made(e.columns[i])]
  BY DEF Created
<1>2. \A c : (c.type = Timestamp /\ ~c.nullable /\ ~HasDefault(c)) = FALSE
  BY DEF HasDefault
<1>3. \A c : Made(c) = Plain(c)
  BY <1>2 DEF Plain
<1> HIDE DEF Made
<1>4. cols = [i \in 1..L |-> Plain(e.columns[i])]
  BY <1>1, <1>3
<1>5. L \in Nat /\ \A i \in 1..L : Plain(e.columns[i]) \in ColumnRecord /\ ~Plain(e.columns[i]).extra
  <2>1. \A i \in 1..L : e.columns[i] \in ColumnRecord
    OBVIOUS
  <2> QED BY <2>1, PlainFacts
<1> HIDE DEF L, cols
<1>6. cols \in [1..L -> ColumnRecord]
  BY <1>4, <1>5
<1>7. Len(cols) = L /\ DOMAIN cols = 1..L
  BY <1>5, <1>6
<1>8. \A c \in ToSet(cols) : ~c.extra
  BY <1>4, <1>5, <1>7 DEF ToSet
<1> QED BY <1>4, <1>7, <1>8 DEF L, cols

\* It makes the key that was expected, or an index on the date.
LEMMA CreatedIndexes ==
  ASSUME NEW e, e.pk \in Seq(STRING), e.pk # << >> => e.pk[1] = DateName, NEW t, t = Created(e)
  PROVE  /\ Primary(t) = e.pk
         /\ {<<i.name, Names(i.parts)>> : i \in Uniques(t)} = IF e.pk = << >> THEN {} ELSE {<<"PRIMARY", e.pk>>}
         /\ \E i \in ToSet(t.indexes) : i.parts[1].column \in DateNames /\ ~i.parts[1].prefix
<1> DEFINE Whole(names) == [i \in 1..Len(names) |-> [column |-> names[i], prefix |-> FALSE]]
           cols == IF e.pk # << >> THEN e.pk ELSE <<DateName>>
           parts == Whole(cols)
           index == IF e.pk # << >> THEN [name |-> "PRIMARY", unique |-> TRUE, parts |-> parts]
                    ELSE [name |-> "snapshot_date_idx", unique |-> FALSE, parts |-> parts]
           ddl == IndexDdl(e)
           x == t.indexes
<1>1. cols \in Seq(STRING) /\ Len(cols) # 0 /\ cols[1] = DateName
  <2>1. CASE e.pk = << >>
    <3>1. DateName \in STRING
      BY SchemaAssumption
    <3>2. cols = <<DateName>>
      BY <2>1
    <3> HIDE DEF cols
    <3> QED BY <3>1, <3>2
  <2>2. CASE e.pk # << >>
    <3>1. Len(e.pk) # 0
      BY <2>2
    <3> QED BY <2>2, <3>1
  <2> QED BY <2>1, <2>2
<1>2. ddl = <<IF e.pk # << >> THEN [name |-> "PRIMARY", unique |-> TRUE, columns |-> cols]
              ELSE [name |-> "snapshot_date_idx", unique |-> FALSE, columns |-> cols]>>
  BY DEF IndexDdl
<1>3. x = [i \in 1..Len(ddl) |-> [name |-> ddl[i].name, unique |-> ddl[i].unique, parts |-> Whole(ddl[i].columns)]]
  BY DEF Created
<1> HIDE DEF cols, ddl, x
<1>4. Len(ddl) = 1 /\ ddl[1] = IF e.pk # << >> THEN [name |-> "PRIMARY", unique |-> TRUE, columns |-> cols]
                                ELSE [name |-> "snapshot_date_idx", unique |-> FALSE, columns |-> cols]
  BY <1>2
<1>5. /\ ddl[1].name = index.name /\ ddl[1].unique = index.unique /\ ddl[1].columns = cols
  BY <1>4
<1>6. x = [i \in 1..1 |-> [name |-> index.name, unique |-> index.unique, parts |-> parts]]
  <2> HIDE DEF Whole, index
  <2>1. \A i \in 1..1 : i = 1
    OBVIOUS
  <2> QED BY <1>3, <1>4, <1>5, <2>1
<1>7. [name |-> index.name, unique |-> index.unique, parts |-> parts] = index
  OBVIOUS
<1> HIDE DEF index
<1>8. x = [i \in 1..1 |-> index]
  BY <1>6, <1>7
<1>9. Len(x) = 1 /\ x[1] = index /\ ToSet(x) = {index}
  <2>1. x \in [1..1 -> {index}] /\ DOMAIN x = 1..1
    BY <1>8
  <2>2. Len(x) = 1
    BY <2>1
  <2>3. ToSet(x) = {index}
    BY <1>8, <2>1 DEF ToSet
  <2> QED BY <1>8, <2>2, <2>3
<1>10. Len(parts) = Len(cols) /\ \A i \in 1..Len(cols) : parts[i] = [column |-> cols[i], prefix |-> FALSE]
  <2>1. Len(cols) \in Nat
    BY <1>1
  <2> DEFINE L == Len(cols)
  <2> HIDE DEF L
  <2>2. parts = [i \in 1..L |-> [column |-> cols[i], prefix |-> FALSE]]
    BY DEF L
  <2>3. Len(parts) = L
    BY <2>1, <2>2 DEF L
  <2> QED BY <2>2, <2>3 DEF L
<1>11. Names(parts) = cols
  <2>1. Names(parts) = [i \in 1..Len(cols) |-> cols[i]]
    BY <1>10 DEF Names
  <2>2. cols = [i \in 1..Len(cols) |-> cols[i]]
    BY <1>1
  <2> QED BY <2>1, <2>2
<1> HIDE DEF parts
<1>12. index.parts = parts
  BY DEF index
<1>13. index.parts[1].column \in DateNames /\ ~index.parts[1].prefix
  <2>1. 1 \in 1..Len(cols)
    BY <1>1
  <2>2. parts[1] = [column |-> cols[1], prefix |-> FALSE]
    BY <1>10, <2>1
  <2>3. parts[1].column = DateName /\ parts[1].prefix = FALSE
    BY <1>1, <2>2
  <2>4. DateName \in DateNames
    BY SchemaAssumption
  <2> QED BY <1>12, <2>3, <2>4
<1>14. CASE e.pk = << >>
  <2>1. index.name # "PRIMARY" /\ ~index.unique
    BY <1>14 DEF index
  <2>2. {n \in 1..Len(x) : x[n].name = "PRIMARY"} = {}
    BY <1>9, <2>1
  <2>3. Primary(t) = << >>
    BY <2>2 DEF Primary, FirstOf, x
  <2>4. Uniques(t) = {}
    BY <1>9, <2>1 DEF Uniques, x
  <2> QED BY <1>9, <1>13, <1>14, <2>3, <2>4 DEF x
<1>15. CASE e.pk # << >>
  <2>1. index.name = "PRIMARY" /\ index.unique /\ cols = e.pk
    BY <1>15 DEF index, cols
  <2>2. {n \in 1..Len(x) : x[n].name = "PRIMARY"} = {1}
    BY <1>9, <2>1
  <2>3. Min({1}) = 1
    BY DEF Min
  <2>4. Primary(t) = Names(x[1].parts)
    BY <2>2, <2>3 DEF Primary, FirstOf, x
  <2>5. Primary(t) = e.pk
    BY <1>9, <1>11, <1>12, <2>1, <2>4
  <2>6. Uniques(t) = {index}
    BY <1>9, <2>1 DEF Uniques, x
  <2> QED BY <1>9, <1>11, <1>12, <1>13, <1>15, <2>1, <2>5, <2>6 DEF x
<1> QED BY <1>14, <1>15

\* What compare_schema asks of the columns, column by column.
LEMMA SameColumns ==
  ASSUME NEW a \in Seq(ColumnRecord), NEW b \in Seq(ColumnRecord)
  PROVE  [i \in 1..Len(a) |-> [a[i] EXCEPT !.extra = FALSE]] = [i \in 1..Len(b) |-> [b[i] EXCEPT !.extra = FALSE]]
         <=> Len(a) = Len(b) /\ \A i \in 1..Len(a) : Plain(a[i]) = Plain(b[i])
<1> DEFINE f == [i \in 1..Len(a) |-> Plain(a[i])]
           g == [i \in 1..Len(b) |-> Plain(b[i])]
<1>1. Len(a) \in Nat /\ Len(b) \in Nat
  OBVIOUS
<1>2. ASSUME Len(a) = Len(b), \A i \in 1..Len(a) : Plain(a[i]) = Plain(b[i])
      PROVE  f = g
  BY <1>2
<1>3. ASSUME f = g
      PROVE  Len(a) = Len(b) /\ \A i \in 1..Len(a) : Plain(a[i]) = Plain(b[i])
  <2>1. DOMAIN f = 1..Len(a) /\ DOMAIN g = 1..Len(b)
    OBVIOUS
  <2>2. \A m, n \in Nat : 1..m = 1..n => m = n
    OBVIOUS
  <2>3. Len(a) = Len(b)
    BY <1>1, <1>3, <2>1, <2>2
  <2>4. \A i \in 1..Len(a) : f[i] = Plain(a[i]) /\ g[i] = Plain(b[i])
    BY <2>3
  <2> QED BY <1>3, <2>3, <2>4
<1>4. /\ [i \in 1..Len(a) |-> [a[i] EXCEPT !.extra = FALSE]] = f
      /\ [i \in 1..Len(b) |-> [b[i] EXCEPT !.extra = FALSE]] = g
  BY DEF Plain
<1> QED BY <1>2, <1>3, <1>4

\* The table that a run creates for a source is accepted.
LEMMA CreatedTaken ==
  ASSUME NEW source, WellFormed(source)
  PROVE  CreatesWhatItAccepts(source)
<1> DEFINE s == Schema(source)
           e == ExpectedSchema(s)
           t == Created(e)
<1>1. s.columns \in Seq(ColumnRecord) /\ s.pk \in Seq(STRING)
  BY SchemaTyped
<1> HIDE DEF s
<1>2. DatedSchema(s, e)
  BY <1>1, ExpectedFacts
<1> HIDE DEF e
<1>3. e.columns \in Seq(ColumnRecord) /\ e.pk \in Seq(STRING) /\ (e.pk # << >> => e.pk[1] = DateName)
  BY <1>2 DEF DatedSchema
<1>4. e.unique = IF e.pk = << >> THEN {} ELSE {<<"PRIMARY", e.pk>>}
  BY <1>2 DEF DatedSchema
<1>5. /\ Len(t.columns) = Len(e.columns)
      /\ \A i \in 1..Len(e.columns) : t.columns[i] = Plain(e.columns[i])
      /\ \A c \in ToSet(t.columns) : ~c.extra
  BY <1>3, CreatedColumns
<1>6. /\ Primary(t) = e.pk
      /\ {<<i.name, Names(i.parts)>> : i \in Uniques(t)} = e.unique
      /\ \E i \in ToSet(t.indexes) : i.parts[1].column \in DateNames /\ ~i.parts[1].prefix
  BY <1>3, <1>4, CreatedIndexes
<1>7. t.guarded = FALSE
  BY DEF Created
<1>8. t.columns \in Seq(ColumnRecord)
  <2>1. t.columns = [i \in 1..Len(e.columns) |->
          [e.columns[i] EXCEPT !.extra = e.columns[i].type = Timestamp /\ ~e.columns[i].nullable /\ ~HasDefault(e.columns[i])]]
    BY DEF Created
  <2>2. \A i \in 1..Len(e.columns) : Plain(e.columns[i]) \in ColumnRecord
    BY <1>3, PlainFacts
  <2> DEFINE cols == t.columns
             L == Len(e.columns)
  <2>3. DOMAIN cols = 1..L
    BY <2>1
  <2>4. L \in Nat
    BY <1>3
  <2>5. cols = [i \in 1..L |-> cols[i]]
    BY <2>1
  <2>6. \A i \in 1..L : cols[i] \in ColumnRecord
    BY <1>5, <2>2
  <2> HIDE DEF cols, L
  <2>7. cols \in [1..L -> ColumnRecord]
    BY <2>5, <2>6
  <2>8. cols \in Seq(ColumnRecord)
    BY <2>4, <2>7
  <2> QED BY <2>8 DEF cols
<1> HIDE DEF t
<1>9. \A i \in 1..Len(t.columns) : Plain(t.columns[i]) = Plain(e.columns[i])
  <2>1. \A i \in 1..Len(e.columns) : Plain(Plain(e.columns[i])) = Plain(e.columns[i])
    BY <1>3, PlainFacts
  <2> QED BY <1>5, <2>1
<1>10. [i \in 1..Len(t.columns) |-> [t.columns[i] EXCEPT !.extra = FALSE]]
        = [i \in 1..Len(e.columns) |-> [e.columns[i] EXCEPT !.extra = FALSE]]
  BY <1>3, <1>5, <1>8, <1>9, SameColumns
<1>11. /\ Schema(t).columns = t.columns /\ Schema(t).pk = Primary(t) /\ Schema(t).indexes = t.indexes
       /\ Schema(t).unique = {<<i.name, Names(i.parts)>> : i \in Uniques(t)}
  BY DEF Schema
<1>12. Matches(Schema(t), e)
  BY <1>5, <1>6, <1>10, <1>11 DEF Matches
<1>13. HasLeadingIndex(Schema(t))
  BY <1>6, <1>11 DEF HasLeadingIndex
<1>14. Accepts(t, e)
  BY <1>7, <1>12, <1>13 DEF Accepts
<1> QED BY <1>14 DEF CreatesWhatItAccepts, s, e, t

\* What an accepted table is: the columns of the source and the date, and no
\* unique index but on the date and the source's key.
LEMMA AcceptedFacts ==
  ASSUME NEW source, WellFormed(source), NEW target, WellFormed(target),
         Accepts(target, ExpectedSchema(Schema(source)))
  PROVE  /\ \A c \in ToSet(target.columns) :
              \/ c.name = DateName
              \/ \E d \in ToSet(source.columns) : d.name = c.name /\ d.nullable = c.nullable
         /\ \A i \in Uniques(target) :
              /\ Primary(source) # << >> /\ Len(Names(i.parts)) = Len(Primary(source)) + 1
              /\ \A k \in 1..Len(Primary(source)) : Names(i.parts)[k + 1] = Primary(source)[k]
<1> DEFINE s == Schema(source)
           e == ExpectedSchema(s)
           L == Len(source.columns)
           a == target.columns
           b == e.columns
<1>1. s.columns = source.columns /\ s.columns \in Seq(ColumnRecord) /\ s.pk = Primary(source) /\ s.pk \in Seq(STRING)
  BY SchemaTyped
<1>2. Schema(target).columns = a /\ a \in Seq(ColumnRecord)
      /\ Schema(target).unique = {<<i.name, Names(i.parts)>> : i \in Uniques(target)}
  BY SchemaTyped
<1>3. Matches(Schema(target), e)
  BY DEF Accepts
<1>4. DatedSchema(s, e)
  BY <1>1, ExpectedFacts
<1> HIDE DEF s, e
<1>5. Len(b) = L + 1 /\ \A i \in 1..L : b[i] = [source.columns[i] EXCEPT !.extra = FALSE]
  BY <1>1, <1>4 DEF DatedSchema
<1>6. b[L + 1] = [name |-> DateName, type |-> Date, nullable |-> FALSE, extra |-> FALSE]
  BY <1>1, <1>4 DEF DatedSchema
<1>7. /\ e.unique = IF e.pk = << >> THEN {} ELSE {<<"PRIMARY", e.pk>>}
      /\ e.pk = IF s.pk = << >> THEN << >> ELSE <<DateName>> \o s.pk
      /\ e.pk # << >> => Len(e.pk) = Len(s.pk) + 1 /\ \A k \in 1..Len(s.pk) : e.pk[k + 1] = s.pk[k]
  BY <1>4 DEF DatedSchema
<1>8. \A i \in 1..L : source.columns[i] \in ColumnRecord /\ source.columns[i] \in ToSet(source.columns)
  BY <1>1 DEF ToSet
<1>9. L \in Nat
  BY <1>1
<1>10. /\ [i \in 1..Len(a) |-> [a[i] EXCEPT !.extra = FALSE]] = [i \in 1..Len(b) |-> [b[i] EXCEPT !.extra = FALSE]]
       /\ Schema(target).unique = e.unique
  BY <1>2, <1>3 DEF Matches
<1>11. b \in Seq(ColumnRecord) /\ a \in Seq(ColumnRecord)
  BY <1>2, <1>4 DEF DatedSchema
<1> HIDE DEF a, b, L
<1>12. Len(a) = L + 1 /\ \A i \in 1..Len(a) : Plain(a[i]) = Plain(b[i])
  BY <1>5, <1>10, <1>11, SameColumns
<1>13. ASSUME NEW c \in ToSet(a)
       PROVE  c.name = DateName \/ \E d \in ToSet(source.columns) : d.name = c.name /\ d.nullable = c.nullable
  <2>1. PICK i \in 1..(L + 1) : c = a[i] /\ a[i] \in ColumnRecord
    BY <1>2, <1>12 DEF ToSet
  <2>2. Plain(c) = Plain(b[i])
    BY <1>12, <2>1
  <2>6. b[i] \in ColumnRecord
    <3>1. i \in 1..Len(b)
      BY <1>5, <2>1
    <3> QED BY <1>11, <3>1
  <2>3. c.name = b[i].name /\ c.nullable = b[i].nullable
    BY <2>1, <2>2, <2>6, PlainFacts
  <2>4. CASE i = L + 1
    BY <1>6, <2>3, <2>4
  <2>5. CASE i # L + 1
    <3>1. i \in 1..L
      BY <1>9, <2>5
    <3>2. b[i] = Plain(source.columns[i])
      BY <1>5, <3>1 DEF Plain
    <3>3. b[i].name = source.columns[i].name /\ b[i].nullable = source.columns[i].nullable
      BY <1>8, <3>1, <3>2, PlainFacts
    <3> QED BY <1>8, <2>3, <3>1, <3>3
  <2> QED BY <2>4, <2>5
<1>14. ASSUME NEW i \in Uniques(target)
       PROVE  /\ Primary(source) # << >> /\ Len(Names(i.parts)) = Len(Primary(source)) + 1
              /\ \A k \in 1..Len(Primary(source)) : Names(i.parts)[k + 1] = Primary(source)[k]
  <2>1. <<i.name, Names(i.parts)>> \in e.unique
    BY <1>2, <1>10
  <2>2. e.pk # << >>
    BY <1>7, <2>1
  <2>3. <<i.name, Names(i.parts)>> = <<"PRIMARY", e.pk>>
    BY <1>7, <2>1, <2>2
  <2>4. Names(i.parts) = e.pk
    BY <2>3
  <2> QED BY <1>1, <1>7, <2>2, <2>4
<1> QED BY <1>13, <1>14 DEF a

\* An accepted target takes every two rows that stand side by side in the source.
LEMMA SnapshotsTaken ==
  ASSUME NEW source, WellFormed(source), NEW target, WellFormed(target), NEW values, NEW days, Null \notin days
  PROVE  TakesEverySnapshot(source, target, values, days)
<1> DEFINE Dated(row, day) == [n \in DOMAIN row \cup {DateName} |-> IF n = DateName THEN day ELSE row[n]]
           names == {c.name : c \in ToSet(source.columns)}
<1> SUFFICES ASSUME \A i \in ToSet(target.indexes) : \A p \in ToSet(i.parts) : ~p.prefix,
                    Takes(Schema(source)), Accepts(target, ExpectedSchema(Schema(source))),
                    NEW r1 \in Rows(source, values), NEW r2 \in Rows(source, values), SideBySide(source, r1, r2),
                    NEW d1 \in days, NEW d2 \in days
             PROVE  SideBySide(target, Dated(r1, d1), Dated(r2, d2))
  BY DEF TakesEverySnapshot
<1>1. DateName \notin names
  <2>1. \A c \in ToSet(Schema(source).columns) : c.name \notin DateNames
    BY DEF Takes
  <2>2. \A c \in ToSet(source.columns) : c.name \notin DateNames
    BY <2>1, SchemaTyped
  <2> QED BY <2>2, SchemaAssumption
<1>2. DOMAIN r1 = names /\ DOMAIN r2 = names
  BY DEF Rows
<1>3. \A r, d, n : n \in DOMAIN r /\ n # DateName => Dated(r, d)[n] = r[n]
  OBVIOUS
<1>4. \A r, d : Dated(r, d)[DateName] = d
  OBVIOUS
<1> HIDE DEF Dated
<1>5. ASSUME NEW r, DOMAIN r = names, Fits(source, r), NEW d \in days
      PROVE  Fits(target, Dated(r, d))
  <2> SUFFICES ASSUME NEW c \in ToSet(target.columns), Dated(r, d)[c.name] = Null
               PROVE  c.nullable
    BY DEF Fits
  <2>1. c.name # DateName
    BY <1>4
  <2>2. PICK f \in ToSet(source.columns) : f.name = c.name /\ f.nullable = c.nullable
    BY <2>1, AcceptedFacts
  <2>3. c.name \in names
    BY <2>2
  <2>4. r[f.name] = Null
    BY <1>3, <1>5, <2>1, <2>2, <2>3
  <2> QED BY <1>5, <2>2, <2>4 DEF Fits
<1>6. Fits(target, Dated(r1, d1)) /\ Fits(target, Dated(r2, d2))
  BY <1>2, <1>5 DEF SideBySide
<1>7. ASSUME NEW i \in Uniques(target)
      PROVE  ~Collide(i, Dated(r1, d1), Dated(r2, d2))
  <2> DEFINE pk == Primary(source)
             q == i.parts
  <2>1. pk # << >> /\ Len(Names(q)) = Len(pk) + 1 /\ \A k \in 1..Len(pk) : Names(q)[k + 1] = pk[k]
    BY AcceptedFacts
  <2>2. PICK n \in 1..Len(source.indexes) :
          source.indexes[n].name = "PRIMARY" /\ pk = Names(source.indexes[n].parts)
    BY <2>1, PrimaryFacts
  <2> DEFINE x == source.indexes[n]
  <2>3. x \in IndexRecord /\ x \in ToSet(source.indexes)
    BY DEF WellFormed, TableRecord, ToSet
  <2>4. x.unique /\ \A p \in ToSet(x.parts) : ~Column(source, p.column).nullable
    BY <2>2, <2>3 DEF WellFormed
  <2>5. PICK p \in ToSet(x.parts) : r1[p.column] # r2[p.column] /\ p.column \in names
    BY <2>4, RowsApart
  <2>6. x.parts \in Seq(PartRecord)
    BY <2>3 DEF IndexRecord
  <2> HIDE DEF x
  <2>7. p.column \in ToSet(Names(x.parts))
    BY <2>6, PartNamed
  <2>8. PICK k \in 1..Len(pk) : pk[k] = p.column
    <3>1. pk \in Seq(STRING)
      BY PrimaryFacts
    <3> QED BY <2>2, <2>7, <3>1 DEF x, ToSet
  <2>9. q \in Seq(PartRecord)
    <3>1. i \in IndexRecord
      BY DEF Uniques, WellFormed, TableRecord, ToSet
    <3> QED BY <3>1 DEF IndexRecord
  <2> HIDE DEF pk, q
  <2>10. Len(q) = Len(pk) + 1 /\ Len(pk) \in Nat
    <3>1. Len(Names(q)) = Len(q)
      BY <2>9, NamesFacts
    <3>2. pk \in Seq(STRING)
      BY PrimaryFacts DEF pk
    <3>3. Len(pk) \in Nat
      BY <3>2
    <3> QED BY <2>1, <3>1, <3>3
  <2>11. k + 1 \in 1..Len(q)
    BY <2>10
  <2>12. q[k + 1].column = p.column
    BY <2>1, <2>8, <2>9, <2>11, NamesFacts
  <2>13. q[k + 1] \in ToSet(q)
    BY <2>9, <2>11 DEF ToSet
  <2>14. ~q[k + 1].prefix
    BY <2>13 DEF Uniques, q
  <2>15. Dated(r1, d1)[p.column] = r1[p.column] /\ Dated(r2, d2)[p.column] = r2[p.column]
    BY <1>1, <1>2, <1>3, <2>5
  <2> QED BY <2>5, <2>12, <2>13, <2>14, <2>15 DEF Collide, q
<1> QED BY <1>6, <1>7 DEF SideBySide

-----------------------------------------------------------------------------
(* Every input that is judged. *)

\* What the rules are given is one of the inputs, and stays it.
LEMMA InputStays == Spec => [](input \in Inputs)
<1>1. Init => input \in Inputs
  BY DEF Init
<1>2. input \in Inputs /\ [Next]_<<input, judged>> => (input \in Inputs)'
  BY DEF Next, Judge
<1> QED BY <1>1, <1>2, PTL DEF Spec

\* What an input holds, by its kind.
LEMMA InputFacts ==
  ASSUME input \in Inputs
  PROVE  /\ input.kind = "source" => input.source \in Sources
         /\ input.kind = "target" => input.target \in Targets
         /\ input.kind = "pair" => input.source \in Sources /\ input.target \in Targets
         /\ input.kind = "rows" => /\ input.older \in DayRows /\ input.newer \in DayRows
                                   /\ input.rows \in RowLimits /\ input.results \in Limits
         /\ input.kind = "time" => input.total \in Times
<1>1. CASE input \in {[kind |-> "source", source |-> s] : s \in Sources}
  BY <1>1
<1>2. CASE input \in {[kind |-> "target", target |-> t] : t \in Targets}
  BY <1>2
<1>3. CASE input \in {[kind |-> "pair", source |-> s, target |-> t] : s \in Taken, t \in Matched}
  BY <1>3 DEF Taken, Matched
<1>4. CASE input \in {[kind |-> "rows", older |-> o, newer |-> n, rows |-> m, results |-> r] :
                        o \in DayRows, n \in DayRows, m \in RowLimits, r \in Limits}
  BY <1>4
<1>5. CASE input \in {[kind |-> "time", total |-> t] : t \in Times}
  BY <1>5
<1> QED BY <1>1, <1>2, <1>3, <1>4, <1>5 DEF Inputs

\* db.create_sql and prepare: whatever table a source has, of any columns and
\* indexes, the table that a run creates for it is accepted by every later check.
THEOREM CreatedTables == Spec => []CreatedIsAccepted
<1>1. input \in Inputs => CreatedIsAccepted
  BY InputFacts, CreatedTaken, OperatorsAssumption DEF CreatedIsAccepted, Given
<1> QED BY <1>1, InputStays, PTL

\* db.schema and compare._metadata: in every table, the key that pages follow and
\* the key of the comparison tell apart what has to be told apart.
THEOREM KeysTell == Spec => []KeysTellRowsApart
<1>1. input \in Inputs => KeysTellRowsApart
  BY InputFacts, PagesTell, DaysTell, OperatorsAssumption DEF KeysTellRowsApart, Given
<1> QED BY <1>1, InputStays, PTL

\* db.compare_schema: a target that is accepted takes any two rows of its source,
\* on any dates, unless its key cuts values.
THEOREM SnapshotsFit == Spec => []AcceptedTakesSnapshots
<1>1. input \in Inputs => AcceptedTakesSnapshots
  BY InputFacts, SnapshotsTaken, OperatorsAssumption DEF AcceptedTakesSnapshots, Given
<1> QED BY <1>1, InputStays, PTL

\* compare.compare: with any bounds, a comparison without a mark is the whole
\* difference of any two dates.
THEOREM ComparisonsAreWhole == Spec => []ComparisonIsWhole
<1>1. ASSUME input \in Inputs, input.kind = "rows"
      PROVE  IsDay(input.older) /\ IsDay(input.newer) /\ input.rows \in Nat /\ input.results \in Nat
  BY <1>1, InputFacts, OperatorsAssumption DEF IsDay
<1>2. input \in Inputs => ComparisonIsWhole
  BY <1>1, WholeComparison DEF ComparisonIsWhole, Given
<1> QED BY <1>2, InputStays, PTL

\* compare.compare: what is listed are differences, as many as there are or as the
\* bound allows, and then under the mark.
THEOREM ComparisonsAreMarked == Spec => []ComparisonIsMarked
<1>1. ASSUME input \in Inputs, input.kind = "rows"
      PROVE  IsDay(input.older) /\ IsDay(input.newer) /\ input.rows \in Nat /\ input.results \in Nat
  BY <1>1, InputFacts, OperatorsAssumption DEF IsDay
<1>2. input \in Inputs => ComparisonIsMarked
  BY <1>1, FullComparison DEF ComparisonIsMarked, Given
<1> QED BY <1>2, InputStays, PTL

\* codec and db.bind_value: every TIME, of either sign and any size, arrives.
THEOREM TimesAreKept == Spec => []TimeIsKept
<1>1. input \in Inputs => TimeIsKept
  BY InputFacts, EveryTimeArrives, OperatorsAssumption DEF TimeIsKept, Given
<1> QED BY <1>1, InputStays, PTL
=============================================================================
