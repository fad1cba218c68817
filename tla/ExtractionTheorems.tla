------------------------- MODULE ExtractionTheorems -------------------------
(***************************************************************************)
(* Proofs about Extraction: for any exact key, page size, limit and        *)
(* duration of a page, the pages of a table neither repeat nor skip a row  *)
(* that stays put, and the source is left its pauses.                      *)
(***************************************************************************)
EXTENDS Extraction, FiniteSetTheorems, TLAPS

\* ORDER BY never puts a key before itself.
LEMMA Irreflexive == ASSUME NEW k \in Key PROVE ~Precedes(k, k)
  BY KeyAssumption DEF Precedes

\* ORDER BY is transitive: the first column in which two keys differ decides.
LEMMA Transitive ==
    ASSUME NEW a \in Key, NEW b \in Key, NEW c \in Key, Precedes(a, b), Precedes(b, c)
    PROVE  Precedes(a, c)
<1>1. PICK i \in 1..Width : a[i] < b[i] /\ \A j \in 1..(i - 1) : a[j] = b[j]
  BY DEF Precedes
<1>2. PICK n \in 1..Width : b[n] < c[n] /\ \A j \in 1..(n - 1) : b[j] = c[j]
  BY DEF Precedes
<1>3. \A j \in 1..Width : a[j] \in Int /\ b[j] \in Int /\ c[j] \in Int
  BY KeyAssumption
<1>4. CASE i < n
  <2>1. i \in 1..(n - 1) /\ \A j \in 1..(i - 1) : j \in 1..(n - 1)
    BY <1>4, KeyAssumption
  <2>. QED
    BY <1>1, <1>2, <1>3, <2>1 DEF Precedes
<1>5. CASE n < i
  <2>1. n \in 1..(i - 1) /\ \A j \in 1..(n - 1) : j \in 1..(i - 1)
    BY <1>5, KeyAssumption
  <2>. QED
    BY <1>1, <1>2, <1>3, <2>1 DEF Precedes
<1>6. CASE i = n
  BY <1>1, <1>2, <1>3, <1>6 DEF Precedes
<1>. QED
  BY <1>4, <1>5, <1>6, KeyAssumption

\* For exact keys the condition of keyset() asks for the rows that ORDER BY puts behind.
LEMMA KeysetIsOrder ==
    ASSUME ExactKeys, NEW k \in Key, NEW l \in Key
    PROVE  Beyond(k, l) <=> Precedes(l, k)
<1>1. \A i \in 1..Width : /\ k[i] \in Int /\ l[i] \in Int
                          /\ Compared[k][i] \in Int /\ Compared[l][i] \in Int
  BY KeyAssumption
<1>2. \A i \in 1..Width : Compared[k][i] > Compared[l][i] <=> l[i] < k[i]
  BY <1>1 DEF ExactKeys
<1>3. \A i \in 1..Width : Compared[l][i] > Compared[k][i] <=> k[i] < l[i]
  BY <1>1 DEF ExactKeys
<1>4. \A i \in 1..Width : Compared[k][i] = Compared[l][i] <=> l[i] = k[i]
  BY <1>1, <1>2, <1>3
<1>5. \A i \in 1..Width : \A j \in 1..(i - 1) : j \in 1..Width
  BY KeyAssumption
<1>. QED
  BY <1>2, <1>4, <1>5 DEF Beyond, Precedes

\* A page is finite, no longer than was asked for, and the last one has everything.
LEMMA PageFacts ==
    ASSUME NEW C \in SUBSET Key, NEW P \in SUBSET C, NEW n \in Nat, IsPage(P, C, n)
    PROVE  /\ IsFiniteSet(P) /\ Cardinality(P) \in Nat /\ Cardinality(P) <= n
           /\ Cardinality(P) < n => P = C
<1>1. IsFiniteSet(C) /\ IsFiniteSet(P)
  BY KeyAssumption, FS_Subset
<1>2. Cardinality(C) \in Nat /\ Cardinality(P) \in Nat /\ Cardinality(P) = Smaller(n, Cardinality(C))
  BY <1>1, FS_CardinalityType DEF IsPage
<1>3. Cardinality(P) = Cardinality(C) => P = C
  BY <1>1, FS_Subset
<1>. QED
  BY <1>1, <1>2, <1>3 DEF Smaller

\* The page size is positive inside the loop and never exceeds what the limit leaves.
LEMMA PageSizeFacts ==
    ASSUME TypeOK, LoopInv, pc = "reading"
    PROVE  PageSize \in Nat /\ PageSize > 0 /\ (limit # 0 => PageSize <= limit - count)
  BY SizeAssumption DEF TypeOK, LoopInv, PageSize, Smaller, Table

\* Before the first table nothing has been read.
LEMMA InitEInv == Init => EInv
<1>. SUFFICES ASSUME Init PROVE EInv
  OBVIOUS
<1>1. TypeOK
  <2>1. 1 \in Table
    BY SizeAssumption DEF Table
  <2>. QED
    BY <2>1 DEF Init, TypeOK
<1>2. NoRowTwice /\ LimitHolds /\ CompleteFile /\ PositionInv
  BY DEF Init, NoRowTwice, LimitHolds, CompleteFile, PositionInv, InTable
<1>3. LoopInv /\ TimeInv /\ BudgetHolds /\ ThrottleHolds
  BY DEF Init, LoopInv, TimeInv, BudgetHolds, ThrottleHolds
<1>. QED
  BY <1>1, <1>2, <1>3 DEF EInv

\* A source that changes takes rows away from those that stayed, nothing else.
LEMMA ChangeEInv == ASSUME EInv, Change, UNCHANGED specVars PROVE EInv'
<1>. USE DEF EInv, specVars
<1>1. /\ UNCHANGED <<pc, table, last, copied, count, clock, deadline, nextRead, ended, owed>>
      /\ kept' \subseteq kept /\ rows' \subseteq Key /\ kept' \subseteq rows' /\ altered' \in BOOLEAN
  BY DEF Change, fileVars, timeVars, TypeOK
<1>2. TypeOK'
  BY <1>1 DEF TypeOK
<1>3. NoRowTwice' /\ LimitHolds'
  BY <1>1 DEF NoRowTwice, LimitHolds, InTable
<1>4. CompleteFile' /\ PositionInv'
  BY <1>1 DEF CompleteFile, PositionInv, InTable
<1>5. LoopInv' /\ TimeInv' /\ BudgetHolds' /\ ThrottleHolds'
  BY <1>1 DEF LoopInv, TimeInv, BudgetHolds, ThrottleHolds
<1>. QED
  BY <1>2, <1>3, <1>4, <1>5

\* The steps around the loop move the position of no table.
LEMMA OuterEInv ==
    ASSUME EInv, Preflight \/ Extract \/ Complete \/ Load \/ Raise, UNCHANGED specVars
    PROVE  EInv'
<1>. USE DEF EInv, specVars, sourceVars, fileVars, timeVars
<1>1. CASE Preflight
  BY <1>1 DEF Preflight, TypeOK, NoRowTwice, LimitHolds, CompleteFile, PositionInv, LoopInv,
     TimeInv, BudgetHolds, ThrottleHolds, InTable
<1>2. CASE Extract
  <2>1. deadline' \in Nat
    BY <1>2, TimeAssumption DEF Extract, RunDeadline, TypeOK
  <2>2. TypeOK'
    BY <1>2, <2>1 DEF Extract, TypeOK
  <2>3. copied' = {} /\ count' = 0 /\ last' = NoKey /\ nextRead' = 0 /\ table' = table
        /\ pc' \in {"page", "whole"} /\ (pc' = "page" <=> hasKey[table]) /\ pc = "extract"
    BY <1>2 DEF Extract
  <2>4. NoRowTwice' /\ LimitHolds'
    BY <2>3, FS_EmptySet, SizeAssumption DEF NoRowTwice, LimitHolds, TypeOK
  <2>5. CompleteFile' /\ PositionInv'
    BY <2>3 DEF CompleteFile, PositionInv
  <2>6. LoopInv'
    BY <2>3, SizeAssumption DEF LoopInv, TypeOK
  <2>7. TimeInv' /\ BudgetHolds' /\ ThrottleHolds'
    BY <2>3 DEF TimeInv, BudgetHolds, ThrottleHolds
  <2>. QED
    BY <2>2, <2>4, <2>5, <2>6, <2>7
<1>3. CASE Complete
  BY <1>3 DEF Complete, TypeOK, NoRowTwice, LimitHolds, CompleteFile, PositionInv, LoopInv,
     TimeInv, BudgetHolds, ThrottleHolds, InTable
<1>4. CASE Load
  <2>1. PICK d \in LoadTimes : clock' = clock + d
    BY <1>4 DEF Load
  <2>2. clock' \in Nat
    BY <2>1, TimeAssumption DEF TypeOK
  <2>3. table' \in Table /\ rows' \subseteq Key /\ kept' \subseteq rows' /\ pc' \in {"done", "extract"}
    BY <1>4, SizeAssumption DEF Load, TypeOK, Table
  <2>4. TypeOK'
    BY <1>4, <2>2, <2>3 DEF Load, TypeOK
  <2>5. NoRowTwice' /\ LimitHolds' /\ CompleteFile' /\ PositionInv'
    BY <2>3 DEF NoRowTwice, LimitHolds, CompleteFile, PositionInv, InTable
  <2>6. LoopInv' /\ TimeInv' /\ BudgetHolds' /\ ThrottleHolds'
    BY <1>4, <2>3 DEF Load, LoopInv, TimeInv, BudgetHolds, ThrottleHolds
  <2>. QED
    BY <2>4, <2>5, <2>6
<1>5. CASE Raise
  BY <1>5 DEF Raise, TypeOK, NoRowTwice, LimitHolds, CompleteFile, PositionInv, LoopInv,
     TimeInv, BudgetHolds, ThrottleHolds, InTable
<1>. QED
  BY <1>1, <1>2, <1>3, <1>4, <1>5

\* The head of the loop sleeps off what the page before it owes to the source.
LEMMA BeginPageEInv == ASSUME EInv, BeginPage, UNCHANGED specVars PROVE EInv'
<1>. USE DEF EInv, specVars, sourceVars, fileVars, timeVars
<1>1. clock' \in Nat /\ clock' >= nextRead /\ (clock' = clock \/ clock' = nextRead)
      /\ clock < deadline
  BY DEF BeginPage, Later, TypeOK, InBudget
<1>2. TypeOK'
  BY <1>1 DEF BeginPage, TypeOK
<1>3. NoRowTwice' /\ LimitHolds' /\ CompleteFile' /\ PositionInv' /\ LoopInv' /\ TimeInv'
  BY DEF BeginPage, NoRowTwice, LimitHolds, CompleteFile, PositionInv, LoopInv, TimeInv, InTable
<1>4. CASE /\ nextRead = 0
           /\ last # NoKey => Wait[table] >= Reopen /\ clock >= ended + Wait[table]
  <2>1. clock' = clock
    BY <1>1, <1>4 DEF TypeOK, BeginPage, Later
  <2>. QED
    BY <1>1, <1>2, <1>3, <1>4, <2>1 DEF BeginPage, BudgetHolds, ThrottleHolds, TypeOK
<1>5. CASE nextRead = owed /\ \E d \in Durations : owed + Wait[table] = clock + Later(Gap, 4 * d)
  <2>1. PICK d \in Durations : owed + Wait[table] = clock + Later(Gap, 4 * d)
    BY <1>5
  <2>2. Later(Gap, 4 * d) \in Nat /\ Wait[table] \in Nat /\ deadline \in Int
    BY TimeAssumption DEF Later, TypeOK
  <2>3. ThrottleHolds'
    BY <1>1, <1>5 DEF BeginPage, ThrottleHolds, TypeOK
  <2>4. clock' < deadline \/ clock' + Wait[table] < deadline + Later(Gap, 4 * d)
    BY <1>1, <1>5, <2>1, <2>2 DEF TypeOK
  <2>5. BudgetHolds'
    BY <2>4 DEF BeginPage, BudgetHolds
  <2>. QED
    BY <1>2, <1>3, <2>3, <2>5
<1>. QED
  BY <1>4, <1>5 DEF BeginPage, TimeInv

\* A pause is kept in full; only one that closes the connection forgets the throttle.
LEMMA PauseEInv == ASSUME EInv, Pause, UNCHANGED specVars PROVE EInv'
<1>. USE DEF EInv, specVars, sourceVars, fileVars, timeVars
<1>1. PICK d \in Durations : nextRead = owed /\ owed = clock + Later(Gap, 4 * d)
  BY DEF Pause, TimeInv
<1>2. ended = clock /\ clock \in Nat /\ Wait[table] \in Nat /\ Later(Gap, 4 * d) \in Nat
  BY TimeAssumption DEF TypeOK, Pause, TimeInv, Later
<1>3. clock' = clock + Wait[table] /\ clock' \in Nat /\ nextRead' \in Nat
  BY <1>2 DEF Pause, TypeOK
<1>4. TypeOK'
  BY <1>3 DEF Pause, TypeOK
<1>5. NoRowTwice' /\ LimitHolds' /\ CompleteFile' /\ PositionInv' /\ LoopInv'
  BY DEF Pause, NoRowTwice, LimitHolds, CompleteFile, PositionInv, LoopInv, InTable
<1>6. TimeInv'
  <2>1. CASE Reopens
    <3>1. Wait[table] >= Reopen /\ clock' >= ended + Wait[table]
      BY <1>2, <1>3, <2>1 DEF Reopens
    <3>. QED
      BY <2>1, <3>1 DEF Pause, TimeInv
  <2>2. CASE ~Reopens
    <3>1. owed + Wait[table] = clock' + Later(Gap, 4 * d)
      BY <1>1, <1>2, <1>3
    <3>. QED
      BY <1>1, <2>2, <3>1 DEF Pause, TimeInv
  <2>. QED
    BY <2>1, <2>2
<1>7. BudgetHolds' /\ ThrottleHolds'
  BY DEF Pause, BudgetHolds, ThrottleHolds
<1>. QED
  BY <1>4, <1>5, <1>6, <1>7

\* One statement without ORDER BY returns the whole table or as many rows as were asked for.
LEMMA ReadWholeEInv == ASSUME EInv, ReadWhole, UNCHANGED specVars PROVE EInv'
<1>. USE DEF EInv, specVars, sourceVars, timeVars
<1>1. PICK P \in SUBSET rows, d \in Durations :
          /\ Cardinality(P) = Smaller(Smaller(limit, MaxRows), Cardinality(rows))
          /\ copied' = P /\ count' = Cardinality(P)
          /\ clock' = clock + d /\ nextRead' = NextRead(clock', d)
          /\ ended' = clock' /\ owed' = clock' + Later(Gap, 4 * d)
  BY DEF ReadWhole
<1>2. IsFiniteSet(rows) /\ IsFiniteSet(P) /\ Cardinality(rows) \in Nat /\ Cardinality(P) \in Nat
      /\ (Cardinality(P) = Cardinality(rows) => P = rows)
  <2>1. IsFiniteSet(rows)
    BY KeyAssumption, FS_Subset DEF TypeOK
  <2>. QED
    BY <2>1, FS_Subset, FS_CardinalityType
<1>3. ~hasKey[table] /\ limit \in Nat /\ limit # 0 /\ MaxRows \in Nat /\ limit <= MaxRows
  BY SizeAssumption DEF ReadWhole, LoopInv, TypeOK
<1>4. clock' \in Nat /\ nextRead' \in Nat /\ ended' \in Nat /\ owed' \in Nat
  BY <1>1, TimeAssumption DEF TypeOK, NextRead, Later
<1>5. TypeOK'
  BY <1>1, <1>2, <1>4 DEF ReadWhole, TypeOK
<1>6. count' <= limit /\ (count' = limit \/ P = rows)
  BY <1>1, <1>2, <1>3 DEF Smaller
<1>7. NoRowTwice' /\ LimitHolds'
  BY <1>1, <1>6 DEF NoRowTwice, LimitHolds
<1>8. CompleteFile' /\ PositionInv'
  BY <1>1, <1>3, <1>6 DEF ReadWhole, CompleteFile, PositionInv, TypeOK
<1>9. LoopInv' /\ TimeInv' /\ BudgetHolds' /\ ThrottleHolds'
  BY DEF ReadWhole, LoopInv, TimeInv, BudgetHolds, ThrottleHolds
<1>. QED
  BY <1>5, <1>7, <1>8, <1>9

\* A row behind the position is behind everything in the file.
LEMMA Behind ==
    ASSUME TypeOK, PositionInv, InTable, hasKey[table], last # NoKey,
           NEW c \in copied, NEW k \in Key, Precedes(last, k)
    PROVE  Precedes(c, k)
<1>1. last \in Key /\ c \in Key
  BY DEF TypeOK
<1>2. c = last \/ Precedes(c, last)
  BY DEF PositionInv
<1>. QED
  BY <1>1, <1>2, Transitive

\* A page takes the file from one prefix of the order to a longer one.
LEMMA ReadPageEInv == ASSUME ExactKeys, EInv, ReadPage, UNCHANGED specVars PROVE EInv'
<1>. USE DEF EInv, specVars, sourceVars
<1>. DEFINE C == Candidates
<1>1. PICK P \in SUBSET C, d \in Durations :
          /\ IsPage(P, C, PageSize)
          /\ copied' = copied \cup P /\ count' = count + Cardinality(P)
          /\ IF P = {} THEN last' = last
             ELSE \E m \in P : /\ \A p \in P \ {m} : Precedes(p, m)
                               /\ last' = Seen[m]
          /\ clock' = clock + d /\ nextRead' = NextRead(clock', d)
          /\ ended' = clock' /\ owed' = clock' + Later(Gap, 4 * d)
          /\ pc' = IF IsLastPage(Cardinality(P), PageSize) \/ (limit # 0 /\ count' >= limit)
                   THEN "complete" ELSE "pause"
  BY DEF ReadPage
<1>2. UNCHANGED <<rows, altered, kept, table, deadline>> /\ pc = "reading" /\ InTable /\ hasKey[table]
  BY DEF ReadPage, InTable, LoopInv
<1>3. C \subseteq rows /\ C \subseteq Key /\ P \subseteq Key /\ last \in Key \cup {NoKey} /\ copied \subseteq Key
  BY <1>1 DEF Candidates, TypeOK
<1>4. PageSize \in Nat /\ PageSize > 0 /\ (limit # 0 => PageSize <= limit - count)
  BY <1>2, PageSizeFacts
<1>5. /\ IsFiniteSet(P) /\ Cardinality(P) \in Nat /\ Cardinality(P) <= PageSize
      /\ Cardinality(P) < PageSize => P = C
  BY <1>1, <1>3, <1>4, PageFacts
<1>6. \A k \in C : last = NoKey \/ Precedes(last, k)
  BY <1>3, KeysetIsOrder DEF Candidates
<1>7. \A k \in kept \ copied : k \in C
  <2>. SUFFICES ASSUME NEW k \in kept \ copied PROVE k \in C
    OBVIOUS
  <2>1. k \in rows /\ k \in Key /\ (last = NoKey \/ Precedes(last, k))
    BY <1>2 DEF PositionInv, TypeOK
  <2>. QED
    BY <1>3, <2>1, KeysetIsOrder DEF Candidates
<1>8. copied \cap P = {}
  <2>. SUFFICES ASSUME NEW c \in copied, c \in P PROVE FALSE
    OBVIOUS
  <2>1. last # NoKey
    BY <1>2 DEF PositionInv
  <2>2. c \in Key /\ Precedes(last, c)
    BY <1>1, <1>3, <1>6, <2>1
  <2>. QED
    BY <1>2, <2>1, <2>2, Behind, Irreflexive
<1>9. clock' \in Nat /\ nextRead' \in Nat /\ ended' = clock' /\ owed' \in Nat /\ nextRead' = owed'
  BY <1>1, TimeAssumption DEF NextRead, Later, TypeOK
<1>10. count' \in Nat /\ count' = Cardinality(copied')
  <2>1. IsFiniteSet(copied) /\ count = Cardinality(copied) /\ count \in Nat
    BY <1>2, <1>3, KeyAssumption, FS_Subset DEF NoRowTwice, TypeOK
  <2>2. Cardinality(copied \cup P) = Cardinality(copied) + Cardinality(P) - Cardinality(copied \cap P)
    BY <1>5, <2>1, FS_Union
  <2>3. Cardinality(copied \cap P) = 0
    BY <1>8, FS_EmptySet
  <2>4. copied' = copied \cup P /\ count' = count + Cardinality(P)
    BY <1>1
  <2>5. Cardinality(copied \cup P) = count + Cardinality(P)
    BY <1>5, <2>1, <2>2, <2>3
  <2>. QED
    BY <1>5, <2>1, <2>4, <2>5
<1>11. last' \in Key \cup {NoKey}
  BY <1>1, <1>3 DEF ExactKeys
<1>12. pc' \in {"complete", "pause"}
  BY <1>1
<1>13. TypeOK'
  BY <1>1, <1>2, <1>3, <1>9, <1>10, <1>11, <1>12 DEF TypeOK
<1>14. LimitHolds'
  BY <1>1, <1>4, <1>5, SizeAssumption DEF LimitHolds, TypeOK
<1>15. CompleteFile'
  <2>. SUFFICES ASSUME pc' = "complete" PROVE kept \subseteq copied' \/ (limit # 0 /\ count' = limit)
    BY <1>2, <1>12, SizeAssumption DEF CompleteFile
  <2>1. CASE Cardinality(P) < PageSize
    BY <1>1, <1>5, <1>7, <2>1
  <2>2. CASE limit # 0 /\ count' >= limit
    BY <1>1, <1>4, <1>5, <1>10, <2>2, SizeAssumption DEF TypeOK
  <2>. QED
    BY <1>1, <2>1, <2>2 DEF IsLastPage
<1>16. PositionInv'
  <2>1. CASE P = {}
    BY <1>1, <1>2, <2>1 DEF PositionInv, InTable
  <2>2. CASE P # {}
    <3>1. PICK m \in P : (\A p \in P \ {m} : Precedes(p, m)) /\ last' = m
      BY <1>1, <1>3, <2>2 DEF ExactKeys
    <3>2. last' # NoKey
      BY <1>3, <3>1, KeyAssumption
    <3>3. \A c \in copied' : c = m \/ Precedes(c, m)
      <4>. SUFFICES ASSUME NEW c \in copied PROVE Precedes(c, m)
        BY <1>1, <3>1
      <4>1. last # NoKey
        BY <1>2 DEF PositionInv
      <4>2. m \in Key /\ Precedes(last, m)
        BY <1>1, <1>3, <1>6, <4>1
      <4>. QED
        BY <1>2, <4>1, <4>2, Behind
    <3>4. \A k \in kept' \ copied' : Precedes(m, k)
      BY <1>1, <1>2, <1>7 DEF IsPage
    <3>. QED
      BY <3>1, <3>2, <3>3, <3>4 DEF PositionInv
  <2>. QED
    BY <2>1, <2>2
<1>17. LoopInv'
  BY <1>1, <1>2, <1>10, <1>12, SizeAssumption DEF LoopInv, TypeOK
<1>18. TimeInv' /\ BudgetHolds' /\ ThrottleHolds'
  BY <1>1, <1>9, <1>12 DEF TimeInv, BudgetHolds, ThrottleHolds
<1>. QED
  BY <1>10, <1>13, <1>14, <1>15, <1>16, <1>17, <1>18 DEF NoRowTwice

\* Every step of the engine and of the source keeps the invariant.
LEMMA StepEInv == ASSUME ExactKeys, EInv, [Next]_vars PROVE EInv'
<1>1. CASE (Preflight \/ Extract \/ Complete \/ Load \/ Raise) /\ UNCHANGED specVars
  BY <1>1, OuterEInv
<1>2. CASE BeginPage /\ UNCHANGED specVars
  BY <1>2, BeginPageEInv
<1>3. CASE ReadPage /\ UNCHANGED specVars
  BY <1>3, ReadPageEInv
<1>4. CASE Pause /\ UNCHANGED specVars
  BY <1>4, PauseEInv
<1>5. CASE ReadWhole /\ UNCHANGED specVars
  BY <1>5, ReadWholeEInv
<1>6. CASE Change /\ UNCHANGED specVars
  BY <1>6, ChangeEInv
<1>7. CASE UNCHANGED vars
  BY <1>7 DEF vars, specVars, sourceVars, fileVars, timeVars, EInv, TypeOK, NoRowTwice, LimitHolds,
     CompleteFile, PositionInv, LoopInv, TimeInv, BudgetHolds, ThrottleHolds, InTable
<1>. QED
  BY <1>1, <1>2, <1>3, <1>4, <1>5, <1>6, <1>7 DEF Next, Engine

\* EInv is inductive where the driver returns keys as they are.
THEOREM ExtractionInductive == ExactKeys /\ Spec => []EInv
<1>. SUFFICES ASSUME ExactKeys PROVE Spec => []EInv
  OBVIOUS
<1>1. EInv /\ [Next]_vars => EInv'
  BY StepEInv
<1>. QED
  BY <1>1, InitEInv, PTL DEF Spec

\* Pages read in separate statements of a changing table repeat no row, and a
\* test stops at its limit.
THEOREM PagesAreDisjoint == ExactKeys /\ Spec => [](NoRowTwice /\ LimitHolds)
<1>1. EInv => NoRowTwice /\ LimitHolds
  BY DEF EInv
<1>. QED
  BY <1>1, ExtractionInductive, PTL

\* They skip no row that stays, and a file that is completed has all of these.
THEOREM PagesLeaveNoGap == ExactKeys /\ Spec => [](NoGap /\ CompleteFile)
<1>1. EInv => NoGap
  <2>. SUFFICES ASSUME EInv, InTable, hasKey[table], NEW k \in kept \ copied, NEW c \in copied
                PROVE  Precedes(c, k)
    BY DEF NoGap
  <2>1. last # NoKey /\ Precedes(last, k)
    BY DEF EInv, PositionInv
  <2>2. k \in Key
    BY DEF EInv, TypeOK
  <2>. QED
    BY <2>1, <2>2, Behind DEF EInv
<1>2. EInv => CompleteFile
  BY DEF EInv
<1>. QED
  BY <1>1, <1>2, ExtractionInductive, PTL

\* However long a page takes, the next one of the table leaves the source the gap and
\* four times that duration, or, in a job whose pause reopens the connection, that
\* pause: the throttle is lost nowhere else.
THEOREM SourceIsSpared == ExactKeys /\ Spec => []ThrottleHolds
<1>1. EInv => ThrottleHolds
  BY DEF EInv
<1>. QED
  BY <1>1, ExtractionInductive, PTL

\* The ten minutes of a run are kept up to one pause: no page begins after the
\* deadline by as much as the throttle owes for the page before it.
THEOREM BudgetIsKept == ExactKeys /\ Spec => []BudgetHolds
<1>1. EInv => BudgetHolds
  BY DEF EInv
<1>. QED
  BY <1>1, ExtractionInductive, PTL
=============================================================================
