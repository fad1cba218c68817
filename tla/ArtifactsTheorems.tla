------------------------- MODULE ArtifactsTheorems -------------------------
(***************************************************************************)
(* AInv is inductive: one lemma per action, one step per group of its      *)
(* conjuncts.  The properties of the runs follow from it.                  *)
(***************************************************************************)
EXTENDS Artifacts, TLAPS
\* The last table is the one that is not before NT.
LEMMA LastTable == ASSUME NEW t \in Table, ~(t < NT) PROVE t = NT
  BY ArtifactsAssumption DEF Table

\* The numbers of the tables, by which the worker counts (engine.py, the loop of execute).
LEMMA TableNumbers == /\ \A t \in Table : t < NT => t + 1 \in Table
                      /\ \A t \in Table : t < NT \/ t = NT
                      /\ \A s, t \in Table : t < s + 1 => t < s \/ t = s
                      /\ 1 \in Table
  BY ArtifactsAssumption DEF Table

\* What was loaded stays verified as long as nothing is loaded.
LEMMA LoadedFrame == ASSUME LoadedIsVerified, UNCHANGED <<loaded, sch>> PROVE LoadedIsVerified'
  BY DEF LoadedIsVerified

\* A run starts when none is active and no publication is open; a retry has a failed parent.
LEMMA StartStep == ASSUME AInv, NEW r \in Run, NEW p \in Run \cup {NoRun}, Start(r, p) PROVE AInv'
<1>. USE ArtifactsAssumption DEF AInv, Start, NoneActive, Becomes, Goto, rowVars, diskVars,
         localVars, cleanVars, TypeOK, File
<1>1. TypeOK'
  BY DEF Labels, Body
<1>2. WorkerInv'
  BY DEF WorkerInv, Alive, Body
<1>3. RefusalInv' /\ NoSecondRefusal'
  <2>1. RefusalInv'
    BY DEF RefusalInv, WorkerInv
  <2>2. refused[r] = 0
    BY DEF RefusalInv, WorkerInv
  <2>3. \A q \in Run \ {r} : parent'[q] = parent[q]
    OBVIOUS
  <2>4. NoSecondRefusal'
    BY <2>2, <2>3 DEF NoSecondRefusal
  <2>. QED
    BY <2>1, <2>4
<1>4. DiskInv'
  BY DEF DiskInv, Used
<1>5. PositionInv'
  <2>1. pc[r] = "none"
    BY DEF WorkerInv
  <2>2. current[r] = 1 /\ file[Here(r)] = NoRun
    BY <2>1 DEF PositionInv, Position
  <2>3. \A t \in Table : t > current[r] => file[<<r, t>>] = NoRun
    BY <2>1 DEF PositionInv, Position
  <2>. QED
    BY <2>1, <2>2, <2>3 DEF PositionInv, Position, Here, Body, Table
<1>6. StagingIsRecorded' /\ StagingOutlivesPublication'
  BY DEF StagingIsRecorded, StagingOutlivesPublication, Of
<1>7. CleanInv'
  BY DEF CleanInv, CleanedIsClean, Emptied, Of, WorkerInv, Alive
<1>8. LoadedIsVerified'
  BY LoadedFrame
<1>. QED
  BY <1>1, <1>2, <1>3, <1>4, <1>5, <1>6, <1>7, <1>8

\* The retry reads the paths its parent has recorded; none is of a table the parent was refused.
LEMMA PreflightStep == ASSUME AInv, NEW r \in Run, Preflight(r) PROVE AInv'
<1>. USE ArtifactsAssumption DEF AInv, Preflight, At, Goto, rowVars, diskVars, localVars, cleanVars,
         TypeOK, File
<1>1. TypeOK'
  BY DEF Labels, Body
<1>2. WorkerInv'
  BY DEF WorkerInv, Alive, Body
<1>3. RefusalInv' /\ NoSecondRefusal'
  <2>1. RefusalInv'
    BY DEF RefusalInv, Table
  <2>2. NoSecondRefusal'
    BY DEF NoSecondRefusal
  <2>. QED
    BY <2>1, <2>2
<1>4. DiskInv'
  BY DEF DiskInv, Used
<1>5. PositionInv'
  BY DEF PositionInv, Position, Here, Body
<1>6. StagingIsRecorded' /\ StagingOutlivesPublication'
  BY DEF StagingIsRecorded, StagingOutlivesPublication, Of
<1>7. CleanInv'
  BY DEF CleanInv, CleanedIsClean, Emptied, Of, WorkerInv, Alive
<1>8. LoadedIsVerified'
  BY LoadedFrame
<1>. QED
  BY <1>1, <1>2, <1>3, <1>4, <1>5, <1>6, <1>7, <1>8

\* The name of the staging table is recorded before the table exists.
LEMMA BeginTableStep == ASSUME AInv, NEW r \in Run, BeginTable(r) PROVE AInv'
<1>. USE ArtifactsAssumption DEF AInv, BeginTable, At, Goto, Announce, Here, rowVars, diskVars,
         localVars, cleanVars, TypeOK, File
<1>1. TypeOK'
  BY DEF Labels, Body
<1>2. WorkerInv'
  BY DEF WorkerInv, Alive, Body
<1>3. RefusalInv' /\ NoSecondRefusal'
  BY DEF RefusalInv, WorkerInv, NoSecondRefusal
<1>4. DiskInv'
  BY DEF DiskInv, Used
<1>5. PositionInv'
  BY DEF PositionInv, Position, Here, Body
<1>6. StagingIsRecorded' /\ StagingOutlivesPublication'
  BY DEF StagingIsRecorded, StagingOutlivesPublication, Of
<1>7. CleanInv'
  BY DEF CleanInv, CleanedIsClean, Emptied, Of, WorkerInv, Alive
<1>8. LoadedIsVerified'
  BY LoadedFrame
<1>. QED
  BY <1>1, <1>2, <1>3, <1>4, <1>5, <1>6, <1>7, <1>8

\* A recorded file is taken, or a new one is opened; no worker is loading meanwhile.
LEMMA LookStep == ASSUME AInv, NEW r \in Run, Look(r) PROVE AInv'
<1>. USE ArtifactsAssumption DEF AInv, Look, At, Goto, Reusable, Exists, Here, rowVars, diskVars,
         localVars, cleanVars, TypeOK, File
<1>1. TypeOK'
  <2>1. Here(r) \in File
    BY DEF Here
  <2>2. CASE Reusable(r)
    BY <2>1, <2>2 DEF Labels, Body
  <2>3. CASE ~Reusable(r)
    BY <2>1, <2>3 DEF Labels, Body
  <2>. QED
    BY <2>2, <2>3
<1>2. WorkerInv'
  BY DEF WorkerInv, Alive, Body
<1>3. RefusalInv' /\ NoSecondRefusal'
  BY DEF RefusalInv, WorkerInv, NoSecondRefusal
<1>4. DiskInv'
  <2>1. \A q \in Run : q # r => pc[q] \notin {"create", "load"}
    BY DEF WorkerInv, Body
  <2>2. pc'[r] \in {"reuse", "write"} /\ \A q \in Run : q # r => pc'[q] = pc[q]
    OBVIOUS
  <2>3. UNCHANGED <<manifest, sch>>
    OBVIOUS
  <2>. QED
    BY <2>1, <2>2, <2>3 DEF DiskInv
<1>5. PositionInv'
  <2>1. UNCHANGED <<recorded, file, staging, current, prev>> /\ \A q \in Run : q # r => pc'[q] = pc[q]
    OBVIOUS
  <2>2. pc[r] = "look" /\ (pc'[r] = "write" \/ (pc'[r] = "reuse" /\ prev[Here(r)] # NoRun))
    OBVIOUS
  <2>3. recorded[Here(r)] /\ file[Here(r)] = NoRun
    BY <2>2 DEF PositionInv, Position, Body
  <2>4. \A t \in Table : (t > current[r] => file[<<r, t>>] = NoRun) /\ (t < current[r] => staging[<<r, t>>])
    BY <2>2 DEF PositionInv, Position, Body
  <2>5. CASE pc'[r] = "write"
    BY <2>1, <2>2, <2>3, <2>4, <2>5 DEF PositionInv, Position, Here, Body
  <2>6. CASE pc'[r] = "reuse" /\ prev[Here(r)] # NoRun
    <3>1. prev'[Here(r)'] # NoRun /\ recorded'[Here(r)'] /\ file'[Here(r)'] = NoRun
      BY <2>1, <2>3, <2>6 DEF Here
    <3>2. \A t \in Table : (t > current'[r] => file'[<<r, t>>] = NoRun) /\ (t < current'[r] => staging'[<<r, t>>])
      BY <2>1, <2>4
    <3>3. \A q \in Run : q # r => Here(q)' = Here(q)
      BY <2>1 DEF Here
    <3>4. pc'[r] = "reuse"
      BY <2>6
    <3>5. ASSUME NEW q \in Run, q # r PROVE Position(q)'
      BY <2>1, <3>3, <3>5 DEF PositionInv, Position
    <3>. HIDE DEF Look, AInv
    <3>6. Position(r)'
      BY <3>1, <3>2, <3>4 DEF Position, Body
    <3>. QED
      BY <3>5, <3>6 DEF PositionInv
  <2>. QED
    BY <2>2, <2>5, <2>6
<1>6. StagingIsRecorded' /\ StagingOutlivesPublication'
  BY DEF StagingIsRecorded, StagingOutlivesPublication, Of
<1>7. CleanInv'
  BY DEF CleanInv, CleanedIsClean, Emptied, Of, WorkerInv, Alive
<1>8. LoadedIsVerified'
  BY LoadedFrame
<1>. QED
  BY <1>1, <1>2, <1>3, <1>4, <1>5, <1>6, <1>7, <1>8

\* A file is recorded only when it verifies; the run that was refused one has no path for its table.
LEMMA ReuseStep == ASSUME AInv, NEW r \in Run, Reuse(r) PROVE AInv'
<1>. USE ArtifactsAssumption DEF AInv, TypeOK, File
<1>1. /\ pc[r] = "reuse" /\ UNCHANGED <<pending, parent, recorded, data, manifest, staging, current, sch, prev, path,
                                        done, loaded, cleanPc, cleaned>>
      /\ \/ /\ pc' = [pc EXCEPT ![r] = "verify"] /\ UNCHANGED <<state, refused>>
            /\ file' = [file EXCEPT ![<<r, current[r]>>] = path[r]]
         \/ /\ pc' = [pc EXCEPT ![r] = "finally"] /\ state' = [state EXCEPT ![r] = "FAILED"]
            /\ refused' = [refused EXCEPT ![r] = current[r]] /\ UNCHANGED file
  BY DEF Reuse, At, Goto, Becomes, RecordsReuse, Here, diskVars, localVars, cleanVars
<1>2. <<r, current[r]>> \in File /\ current[r] \in Table
  OBVIOUS
<1>3. /\ file[<<r, current[r]>>] = NoRun /\ prev[<<r, current[r]>>] # NoRun /\ state[r] = "ACTIVE" /\ ~pending[r]
      /\ refused[r] = 0
  BY <1>1, <1>2 DEF PositionInv, Position, WorkerInv, RefusalInv, Body, Here
<1>4. parent[r] # NoRun /\ parent[r] # r /\ refused[parent[r]] # current[r]
  BY <1>2, <1>3 DEF RefusalInv, WorkerInv
<1>5. \A q \in Run : parent[q] # r
  BY <1>3 DEF WorkerInv
<1>6. cleaned # r
  BY <1>3 DEF WorkerInv
<1>7. CASE pc' = [pc EXCEPT ![r] = "verify"]
  <2>1. UNCHANGED <<state, refused>> /\ file' = [file EXCEPT ![<<r, current[r]>>] = path[r]]
    BY <1>1, <1>7
  <2>2. TypeOK'
    BY <1>1, <1>2, <1>7, <2>1 DEF Labels, Body
  <2>3. WorkerInv'
    BY <1>1, <1>7, <2>1 DEF WorkerInv, Alive, Body
  <2>4. DiskInv'
    BY <1>1, <1>7 DEF DiskInv, Used
  <2>5. PositionInv'
    BY <1>1, <1>2, <1>7, <2>1 DEF PositionInv, Position, Here, Body, Table
  <2>6. RefusalInv' /\ NoSecondRefusal'
    BY <1>1, <1>3, <2>1 DEF RefusalInv, NoSecondRefusal
  <2>7. CleanInv'
    BY <1>1, <1>6, <2>1 DEF CleanInv, CleanedIsClean, Emptied, Of
  <2>8. LoadedIsVerified' /\ StagingIsRecorded' /\ StagingOutlivesPublication'
    BY <1>1 DEF LoadedIsVerified, StagingIsRecorded, StagingOutlivesPublication, Of
  <2>. QED
    BY <2>2, <2>3, <2>4, <2>5, <2>6, <2>7, <2>8
<1>8. CASE pc' = [pc EXCEPT ![r] = "finally"]
  <2>1. state' = [state EXCEPT ![r] = "FAILED"] /\ refused' = [refused EXCEPT ![r] = current[r]] /\ UNCHANGED file
    BY <1>1, <1>8
  <2>2. TypeOK'
    <3>1. current[r] \in 0..NT
      BY <1>2 DEF Table
    <3>2. state' \in [Run -> {"ABSENT", "ACTIVE", "FAILED", "SUCCESS"}] /\ refused' \in [Run -> 0..NT]
      BY <2>1, <3>1
    <3>3. pc' \in [Run -> Labels]
      BY <1>8 DEF Labels
    <3>. QED
      BY <1>1, <2>1, <3>2, <3>3
  <2>3. WorkerInv'
    BY <1>1, <1>8, <2>1 DEF WorkerInv, Alive, Body
  <2>4. DiskInv'
    BY <1>1, <1>8 DEF DiskInv, Used
  <2>5. PositionInv'
    BY <1>1, <1>8, <2>1 DEF PositionInv, Position, Here, Body
  <2>6. RefusalInv'
    <3>1. \A q \in Run : parent[q] # NoRun => refused'[parent[q]] = refused[parent[q]]
      BY <1>5, <2>1
    <3>2. \A q \in Run : q # r => refused'[q] = refused[q] /\ state'[q] = state[q]
      BY <2>1
    <3>3. refused'[r] = current[r] /\ state'[r] = "FAILED"
      BY <2>1
    <3>4. \A q \in Run : refused'[q] # 0 => state'[q] = "FAILED" /\ ~pending'[q] /\ file'[<<q, refused'[q]>>] = NoRun
      <4>1. ASSUME NEW q \in Run, q # r
            PROVE  refused'[q] # 0 => state'[q] = "FAILED" /\ ~pending'[q] /\ file'[<<q, refused'[q]>>] = NoRun
        BY <1>1, <2>1, <3>2, <4>1 DEF RefusalInv
      <4>2. ~pending'[r] /\ file'[<<r, refused'[r]>>] = NoRun
        BY <1>1, <1>3, <2>1, <3>3
      <4>. QED
        BY <3>3, <4>1, <4>2
    <3>5. \A q \in Run, t \in Table : prev'[<<q, t>>] # NoRun => parent'[q] # NoRun /\ refused'[parent'[q]] # t
      BY <1>1, <3>1 DEF RefusalInv
    <3>. QED
      BY <3>4, <3>5 DEF RefusalInv
  <2>7. NoSecondRefusal'
    BY <1>1, <1>4, <1>5, <2>1 DEF NoSecondRefusal
  <2>8. CleanInv'
    BY <1>1, <1>6, <2>1 DEF CleanInv, CleanedIsClean, Emptied, Of
  <2>9. LoadedIsVerified' /\ StagingIsRecorded' /\ StagingOutlivesPublication'
    BY <1>1 DEF LoadedIsVerified, StagingIsRecorded, StagingOutlivesPublication, Of
  <2>. QED
    BY <2>2, <2>3, <2>4, <2>5, <2>6, <2>7, <2>8, <2>9
<1>. QED
  BY <1>1, <1>7, <1>8

\* The data file gets its name; only this worker is in its try block.
LEMMA CompleteDataStep == ASSUME AInv, NEW r \in Run, CompleteData(r) PROVE AInv'
<1>. USE ArtifactsAssumption DEF AInv, CompleteData, At, Goto, Here, rowVars, diskVars, localVars,
         cleanVars, TypeOK, File
<1>1. TypeOK'
  BY DEF Labels, Body
<1>2. WorkerInv'
  BY DEF WorkerInv, Alive, Body
<1>3. RefusalInv' /\ NoSecondRefusal'
  BY DEF RefusalInv, WorkerInv, NoSecondRefusal
<1>4. DiskInv'
  BY DEF DiskInv, Used
<1>5. PositionInv'
  BY DEF PositionInv, Position, Here, Body
<1>6. StagingIsRecorded' /\ StagingOutlivesPublication'
  BY DEF StagingIsRecorded, StagingOutlivesPublication, Of
<1>7. CleanInv'
  BY DEF CleanInv, CleanedIsClean, Emptied, Of, WorkerInv, Alive
<1>8. LoadedIsVerified'
  BY LoadedFrame
<1>. QED
  BY <1>1, <1>2, <1>3, <1>4, <1>5, <1>6, <1>7, <1>8

\* The manifest has the schema of its writer.
LEMMA CompleteManifestStep == ASSUME AInv, NEW r \in Run, CompleteManifest(r) PROVE AInv'
<1>. USE ArtifactsAssumption DEF AInv, CompleteManifest, At, Goto, Here, rowVars, diskVars,
         localVars, cleanVars, TypeOK, File
<1>1. TypeOK'
  BY DEF Labels, Body
<1>2. WorkerInv'
  BY DEF WorkerInv, Alive, Body
<1>3. RefusalInv' /\ NoSecondRefusal'
  BY DEF RefusalInv, WorkerInv, NoSecondRefusal
<1>4. DiskInv'
  BY DEF DiskInv, Used
<1>5. PositionInv'
  BY DEF PositionInv, Position, Here, Body
<1>6. StagingIsRecorded' /\ StagingOutlivesPublication'
  BY DEF StagingIsRecorded, StagingOutlivesPublication, Of
<1>7. CleanInv'
  BY DEF CleanInv, CleanedIsClean, Emptied, Of, WorkerInv, Alive
<1>8. LoadedIsVerified'
  BY LoadedFrame
<1>. QED
  BY <1>1, <1>2, <1>3, <1>4, <1>5, <1>6, <1>7, <1>8

\* The path is recorded for the current table.
LEMMA RecordFileStep == ASSUME AInv, NEW r \in Run, RecordFile(r) PROVE AInv'
<1>. USE ArtifactsAssumption DEF AInv, RecordFile, At, Goto, Here, rowVars, diskVars, localVars,
         cleanVars, TypeOK, File
<1>1. TypeOK'
  BY DEF Labels, Body
<1>2. WorkerInv'
  BY DEF WorkerInv, Alive, Body
<1>3. RefusalInv' /\ NoSecondRefusal'
  BY DEF RefusalInv, WorkerInv, NoSecondRefusal, Body, Here
<1>4. DiskInv'
  BY DEF DiskInv, Used
<1>5. PositionInv'
  BY DEF PositionInv, Position, Here, Body, Table
<1>6. StagingIsRecorded' /\ StagingOutlivesPublication'
  BY DEF StagingIsRecorded, StagingOutlivesPublication, Of
<1>7. CleanInv'
  BY DEF CleanInv, CleanedIsClean, Emptied, Of, WorkerInv, Alive
<1>8. LoadedIsVerified'
  BY LoadedFrame
<1>. QED
  BY <1>1, <1>2, <1>3, <1>4, <1>5, <1>6, <1>7, <1>8

\* What verifies has the schema of its writer, so of this run.
LEMMA VerifyStep == ASSUME AInv, NEW r \in Run, Verify(r) PROVE AInv'
<1>. USE ArtifactsAssumption DEF AInv, Verify, At, Goto, Verifies, Used, Here, rowVars, diskVars,
         localVars, cleanVars, TypeOK, File
<1>1. TypeOK'
  BY DEF Labels, Body
<1>2. WorkerInv'
  BY DEF WorkerInv, Alive, Body
<1>3. RefusalInv' /\ NoSecondRefusal'
  BY DEF RefusalInv, WorkerInv, NoSecondRefusal
<1>4. DiskInv'
  <2>1. Used(r) \in File /\ Used(r)[1] = path[r] /\ sch[r] # None
    BY DEF Used
  <2>2. manifest[Used(r)] \in {None, sch[path[r]]} /\ manifest[Used(r)] = sch[r]
    BY <2>1 DEF DiskInv
  <2>3. sch[path[r]] = sch[r] /\ data[Used(r)] = "whole"
    BY <2>1, <2>2
  <2>. QED
    BY <2>3 DEF DiskInv, Used
<1>5. PositionInv'
  BY DEF PositionInv, Position, Here, Body
<1>6. StagingIsRecorded' /\ StagingOutlivesPublication'
  BY DEF StagingIsRecorded, StagingOutlivesPublication, Of
<1>7. CleanInv'
  BY DEF CleanInv, CleanedIsClean, Emptied, Of, WorkerInv, Alive
<1>8. LoadedIsVerified'
  BY LoadedFrame
<1>. QED
  BY <1>1, <1>2, <1>3, <1>4, <1>5, <1>6, <1>7, <1>8

\* The staging table of the current table exists; its name is recorded.
LEMMA CreateStagingStep == ASSUME AInv, NEW r \in Run, CreateStaging(r) PROVE AInv'
<1>. USE ArtifactsAssumption DEF AInv, CreateStaging, At, Goto, Here, rowVars, diskVars, localVars,
         cleanVars, TypeOK, File
<1>1. TypeOK'
  BY DEF Labels, Body
<1>2. WorkerInv'
  BY DEF WorkerInv, Alive, Body
<1>3. RefusalInv' /\ NoSecondRefusal'
  BY DEF RefusalInv, WorkerInv, NoSecondRefusal
<1>4. DiskInv'
  BY DEF DiskInv, Used
<1>5. PositionInv'
  BY DEF PositionInv, Position, Here, Body
<1>6. StagingIsRecorded' /\ StagingOutlivesPublication'
  BY DEF StagingIsRecorded, StagingOutlivesPublication, Of, PositionInv, Position, Here, Body
<1>7. CleanInv'
  BY DEF CleanInv, CleanedIsClean, Emptied, Of, WorkerInv, Alive
<1>8. LoadedIsVerified'
  BY LoadedFrame
<1>. QED
  BY <1>1, <1>2, <1>3, <1>4, <1>5, <1>6, <1>7, <1>8

\* The verified file is loaded, or the connection is lost; the worker goes to the next table.
LEMMA LoadRowsStep == ASSUME AInv, NEW r \in Run, LoadRows(r) PROVE AInv'
<1>. USE ArtifactsAssumption DEF AInv, LoadRows, At, Goto, Exists, Used, Here, rowVars, diskVars,
         localVars, cleanVars, TypeOK, File
<1>1. TypeOK'
  <2>1. Used(r) \in File /\ data[Used(r)] \in {"whole", "damaged"} /\ Here(r) \in File
    BY DEF Used, Here
  <2>2. loaded' \in [File -> {"none", "whole", "damaged", "foreign"}]
    BY <2>1
  <2>3. current' \in [Run -> Table]
    BY DEF Table
  <2>4. pc' \in [Run -> Labels]
    BY DEF Labels, Body
  <2>. QED
    BY <2>2, <2>3, <2>4
<1>2. WorkerInv'
  BY DEF WorkerInv, Alive, Body
<1>3. RefusalInv' /\ NoSecondRefusal'
  BY DEF RefusalInv, WorkerInv, NoSecondRefusal
<1>4. DiskInv'
  BY DEF DiskInv, Used
<1>5. PositionInv'
  <2>1. UNCHANGED <<recorded, file, staging, prev>> /\ \A q \in Run : q # r => pc'[q] = pc[q] /\ current'[q] = current[q]
    OBVIOUS
  <2>2. \/ pc'[r] = "create" /\ current'[r] = current[r]
        \/ pc'[r] = "table" /\ current[r] < NT /\ current'[r] = current[r] + 1
        \/ pc'[r] = "loaded" /\ current[r] = NT /\ current'[r] = current[r]
    <3>1. current[r] < NT \/ current[r] = NT
      BY TableNumbers
    <3>2. \/ pc'[r] = "create" /\ current'[r] = current[r]
          \/ pc'[r] = "table" /\ current[r] < NT /\ current'[r] = current[r] + 1
          \/ pc'[r] = "loaded" /\ ~(current[r] < NT) /\ current'[r] = current[r]
      OBVIOUS
    <3>. HIDE DEF AInv, LoadRows, TypeOK
    <3>. QED
      BY <3>1, <3>2
  <2>3. pc[r] = "load" /\ staging[<<r, current[r]>>] /\ current[r] \in 1..NT
    BY DEF PositionInv, Position, Here, Table
  <2>4. \A t \in Table : t > current[r] => file[<<r, t>>] = NoRun
    BY <2>3 DEF PositionInv, Position, Body
  <2>5. \A t \in Table : t < current[r] => staging[<<r, t>>]
    BY <2>3 DEF PositionInv, Position, Body
  <2>6. CASE pc'[r] = "create"
    BY <2>1, <2>2, <2>3, <2>6 DEF PositionInv, Position, Here, Body
  <2>7. CASE pc'[r] = "table"
    <3>1. current'[r] = current[r] + 1
      BY <2>2, <2>7
    <3>2. \A t \in Table : t < current'[r] => staging'[<<r, t>>]
      <4>1. \A t \in Table : t < current[r] + 1 => t < current[r] \/ t = current[r]
        BY TableNumbers
      <4>2. staging' = staging
        BY <2>1
      <4>. HIDE DEF LoadRows, AInv, TypeOK
      <4>. QED
        BY <2>3, <2>5, <3>1, <4>1, <4>2
    <3>3. \A t \in Table : t >= current'[r] => file'[<<r, t>>] = NoRun
      BY <2>1, <2>3, <2>4, <3>1 DEF Table
    <3>4. ASSUME NEW q \in Run, q # r PROVE Position(q)'
      BY <2>1, <3>4 DEF PositionInv, Position, Here
    <3>5. current'[r] \in Table
      BY <1>1
    <3>. HIDE DEF LoadRows, AInv
    <3>6. Position(r)'
      BY <2>7, <3>2, <3>3, <3>5 DEF Position, Here, Body, Table
    <3>. QED
      BY <3>4, <3>6 DEF PositionInv
  <2>8. CASE pc'[r] = "loaded"
    BY <2>1, <2>2, <2>3, <2>4, <2>5, <2>8 DEF PositionInv, Position, Here, Body, Table
  <2>. QED
    BY <2>2, <2>6, <2>7, <2>8
<1>6. StagingIsRecorded' /\ StagingOutlivesPublication'
  BY DEF StagingIsRecorded, StagingOutlivesPublication, Of
<1>7. CleanInv'
  BY DEF CleanInv, CleanedIsClean, Emptied, Of, WorkerInv, Alive
<1>8. LoadedIsVerified'
  <2>1. Used(r) \in File /\ data[Used(r)] = "whole" /\ sch[path[r]] = sch[r]
    BY DEF DiskInv, Used
  <2>. QED
    BY <2>1 DEF LoadedIsVerified
<1>. QED
  BY <1>1, <1>2, <1>3, <1>4, <1>5, <1>6, <1>7, <1>8

\* All tables are staged when the publication is announced.
LEMMA BeginPublishStep == ASSUME AInv, NEW r \in Run, BeginPublish(r) PROVE AInv'
<1>. USE ArtifactsAssumption DEF AInv, BeginPublish, At, Goto, rowVars, diskVars, localVars,
         cleanVars, TypeOK, File
<1>1. TypeOK'
  BY DEF Labels, Body
<1>2. WorkerInv'
  BY DEF WorkerInv, Alive, Body
<1>3. RefusalInv' /\ NoSecondRefusal'
  <2>1. refused[r] = 0
    BY DEF RefusalInv, WorkerInv, Body
  <2>2. RefusalInv'
    BY <2>1 DEF RefusalInv
  <2>3. NoSecondRefusal'
    BY DEF NoSecondRefusal
  <2>. QED
    BY <2>2, <2>3
<1>4. DiskInv'
  BY DEF DiskInv, Used
<1>5. PositionInv'
  BY DEF PositionInv, Position, Here, Body
<1>6. StagingIsRecorded' /\ StagingOutlivesPublication'
  <2>1. current[r] = NT /\ staging[<<r, current[r]>>] /\ \A t \in Table : t < current[r] => staging[<<r, t>>]
    BY DEF PositionInv, Position, Here, Body
  <2>2. \A f \in Of(r) : staging[f]
    <3>1. \A t \in Table : staging[<<r, t>>]
      BY <2>1, TableNumbers
    <3>. QED
      BY <3>1 DEF Of
  <2>3. \A q \in Run : q # r => pending'[q] = pending[q]
    OBVIOUS
  <2>. QED
    BY <2>2, <2>3 DEF StagingIsRecorded, StagingOutlivesPublication
<1>7. CleanInv'
  BY DEF CleanInv, CleanedIsClean, Emptied, Of, WorkerInv, Alive
<1>8. LoadedIsVerified'
  BY LoadedFrame
<1>. QED
  BY <1>1, <1>2, <1>3, <1>4, <1>5, <1>6, <1>7, <1>8

\* The outcome is known, or stays open with the run failed.
LEMMA PublishStep == ASSUME AInv, NEW r \in Run, Publish(r) PROVE AInv'
<1>. USE ArtifactsAssumption DEF AInv, Publish, At, Goto, Becomes, rowVars, diskVars, localVars,
         cleanVars, TypeOK, File
<1>1. TypeOK'
  <2>1. CASE pc' = [pc EXCEPT ![r] = "tidy"] /\ state' = [state EXCEPT ![r] = "SUCCESS"] /\ pending' = [pending EXCEPT ![r] = FALSE]
    BY <2>1 DEF Labels, Body
  <2>2. CASE pc' = [pc EXCEPT ![r] = "finally"] /\ (\E s \in {"SUCCESS", "FAILED"} : state' = [state EXCEPT ![r] = s]) /\ pending' = [pending EXCEPT ![r] = FALSE]
    BY <2>2 DEF Labels, Body
  <2>3. CASE pc' = [pc EXCEPT ![r] = "finally"] /\ state' = [state EXCEPT ![r] = "FAILED"] /\ UNCHANGED pending
    BY <2>3 DEF Labels, Body
  <2>. QED
    BY <2>1, <2>2, <2>3
<1>2. WorkerInv'
  <2>1. CASE pc' = [pc EXCEPT ![r] = "tidy"] /\ state' = [state EXCEPT ![r] = "SUCCESS"] /\ pending' = [pending EXCEPT ![r] = FALSE]
    BY <2>1 DEF WorkerInv, Alive, Body
  <2>2. CASE pc' = [pc EXCEPT ![r] = "finally"] /\ (\E s \in {"SUCCESS", "FAILED"} : state' = [state EXCEPT ![r] = s]) /\ pending' = [pending EXCEPT ![r] = FALSE]
    BY <2>2 DEF WorkerInv, Alive, Body
  <2>3. CASE pc' = [pc EXCEPT ![r] = "finally"] /\ state' = [state EXCEPT ![r] = "FAILED"] /\ UNCHANGED pending
    BY <2>3 DEF WorkerInv, Alive, Body
  <2>. QED
    BY <2>1, <2>2, <2>3
<1>3. RefusalInv' /\ NoSecondRefusal'
  <2>1. refused[r] = 0
    BY DEF RefusalInv, WorkerInv, Body
  <2>2. \A q \in Run : q # r => state'[q] = state[q] /\ pending'[q] = pending[q]
    OBVIOUS
  <2>3. UNCHANGED <<refused, file, prev, parent>>
    OBVIOUS
  <2>. QED
    BY <2>1, <2>2, <2>3 DEF RefusalInv, NoSecondRefusal
<1>4. DiskInv'
  BY DEF DiskInv, Used
<1>5. PositionInv'
  BY DEF PositionInv, Position, Here, Body
<1>6. StagingIsRecorded' /\ StagingOutlivesPublication'
  <2>1. UNCHANGED <<staging, recorded>> /\ \A q \in Run : pending'[q] => pending[q]
    OBVIOUS
  <2>. QED
    BY <2>1 DEF StagingIsRecorded, StagingOutlivesPublication, Of
<1>7. CleanInv'
  BY DEF CleanInv, CleanedIsClean, Emptied, Of, WorkerInv, Alive
<1>8. LoadedIsVerified'
  BY LoadedFrame
<1>. QED
  BY <1>1, <1>2, <1>3, <1>4, <1>5, <1>6, <1>7, <1>8

\* After success files only disappear.
LEMMA TidyStep == ASSUME AInv, NEW r \in Run, Tidy(r) PROVE AInv'
<1>. USE ArtifactsAssumption DEF AInv, Tidy, At, Goto, Exists, rowVars, diskVars, localVars,
         cleanVars, TypeOK, File
<1>1. TypeOK'
  <2>1. PICK f \in File : \/ data' = [data EXCEPT ![f] = "none"] /\ UNCHANGED <<manifest, done, pc>>
                          \/ /\ manifest' = [manifest EXCEPT ![f] = None]
                             /\ done' = [done EXCEPT ![r] = @ \ {f}] /\ UNCHANGED <<data, pc>>
                          \/ UNCHANGED <<data, manifest, done>> /\ pc' = [pc EXCEPT ![r] = "finally"]
    <3>1. Here(r) \in File
      BY DEF Here
    <3>. QED
      BY <3>1
  <2>2. data' \in [File -> {"none", "partial", "whole", "damaged"}]
    BY <2>1
  <2>3. manifest' \in [File -> Schema \cup {None}] /\ done' \in [Run -> SUBSET File]
    <3>1. manifest' = manifest \/ manifest' = [manifest EXCEPT ![f] = None]
      BY <2>1
    <3>2. done' = done \/ done' = [done EXCEPT ![r] = @ \ {f}]
      BY <2>1
    <3>. HIDE DEF Tidy
    <3>3. manifest' \in [File -> Schema \cup {None}]
      BY <3>1
    <3>4. done' \in [Run -> SUBSET File]
      BY <3>2
    <3>. QED
      BY <3>3, <3>4
  <2>4. pc' \in [Run -> Labels]
    <3>1. pc' = pc \/ pc' = [pc EXCEPT ![r] = "finally"]
      BY <2>1
    <3>2. "finally" \in Labels
      BY DEF Labels
    <3>. HIDE DEF Tidy
    <3>. QED
      BY <3>1, <3>2
  <2>. QED
    BY <2>2, <2>3, <2>4
<1>2. WorkerInv'
  <2>1. CASE UNCHANGED pc
    BY <2>1 DEF WorkerInv, Alive, Body
  <2>2. CASE pc' = [pc EXCEPT ![r] = "finally"] /\ UNCHANGED <<data, manifest, done>>
    BY <2>2 DEF WorkerInv, Alive, Body
  <2>. QED
    BY <2>1, <2>2
<1>3. RefusalInv' /\ NoSecondRefusal'
  BY DEF RefusalInv, WorkerInv, NoSecondRefusal
<1>4. DiskInv'
  <2>1. \A f \in File : data'[f] \in {data[f], "none"} /\ manifest'[f] \in {manifest[f], None}
    OBVIOUS
  <2>2. \A q \in Run : pc'[q] \in {"create", "load"} => pc[q] \in {"create", "load"} /\ Used(q) \in File
    BY DEF Used
  <2>3. UNCHANGED <<path, current, sch>>
    OBVIOUS
  <2>. QED
    BY <2>1, <2>2, <2>3 DEF DiskInv, Used
<1>5. PositionInv'
  BY DEF PositionInv, Position, Here, Body
<1>6. StagingIsRecorded' /\ StagingOutlivesPublication'
  BY DEF StagingIsRecorded, StagingOutlivesPublication, Of
<1>7. CleanInv'
  BY DEF CleanInv, CleanedIsClean, Emptied, Of, WorkerInv, Alive
<1>8. LoadedIsVerified'
  BY LoadedFrame
<1>. QED
  BY <1>1, <1>2, <1>3, <1>4, <1>5, <1>6, <1>7, <1>8

\* A run fails while nothing is published.
LEMMA FailStep == ASSUME AInv, NEW r \in Run, Fail(r) PROVE AInv'
<1>. USE ArtifactsAssumption DEF AInv, Fail, Goto, Becomes, Alive, rowVars, diskVars, localVars,
         cleanVars, TypeOK, File
<1>1. TypeOK'
  BY DEF Labels, Body
<1>2. WorkerInv'
  BY DEF WorkerInv, Alive, Body
<1>3. RefusalInv' /\ NoSecondRefusal'
  BY DEF RefusalInv, WorkerInv, NoSecondRefusal
<1>4. DiskInv'
  BY DEF DiskInv, Used
<1>5. PositionInv'
  BY DEF PositionInv, Position, Here, Body
<1>6. StagingIsRecorded' /\ StagingOutlivesPublication'
  BY DEF StagingIsRecorded, StagingOutlivesPublication, Of
<1>7. CleanInv'
  BY DEF CleanInv, CleanedIsClean, Emptied, Of, WorkerInv, Alive
<1>8. LoadedIsVerified'
  BY LoadedFrame
<1>. QED
  BY <1>1, <1>2, <1>3, <1>4, <1>5, <1>6, <1>7, <1>8

\* Staging tables are dropped unless the publication is open.
LEMMA FinallyStep == ASSUME AInv, NEW r \in Run, Finally(r) PROVE AInv'
<1>. USE ArtifactsAssumption DEF AInv, Finally, At, Goto, DropsStaging, Of, rowVars, diskVars,
         localVars, cleanVars, TypeOK, File
<1>1. TypeOK'
  BY DEF Labels, Body
<1>2. WorkerInv'
  BY DEF WorkerInv, Alive, Body
<1>3. RefusalInv' /\ NoSecondRefusal'
  BY DEF RefusalInv, WorkerInv, NoSecondRefusal
<1>4. DiskInv'
  BY DEF DiskInv, Used
<1>5. PositionInv'
  BY DEF PositionInv, Position, Here, Body
<1>6. StagingIsRecorded' /\ StagingOutlivesPublication'
  BY DEF StagingIsRecorded, StagingOutlivesPublication, Of
<1>7. CleanInv'
  BY DEF CleanInv, CleanedIsClean, Emptied, Of, WorkerInv, Alive
<1>8. LoadedIsVerified'
  BY LoadedFrame
<1>. QED
  BY <1>1, <1>2, <1>3, <1>4, <1>5, <1>6, <1>7, <1>8

\* The worker is gone in any state.
LEMMA DieStep == ASSUME AInv, NEW r \in Run, Die(r) PROVE AInv'
<1>. USE ArtifactsAssumption DEF AInv, Die, Goto, Becomes, Alive, rowVars, diskVars, localVars,
         cleanVars, TypeOK, File
<1>1. TypeOK'
  BY DEF Labels, Body
<1>2. WorkerInv'
  BY DEF WorkerInv, Alive, Body
<1>3. RefusalInv' /\ NoSecondRefusal'
  BY DEF RefusalInv, WorkerInv, NoSecondRefusal
<1>4. DiskInv'
  BY DEF DiskInv, Used
<1>5. PositionInv'
  BY DEF PositionInv, Position, Here, Body
<1>6. StagingIsRecorded' /\ StagingOutlivesPublication'
  BY DEF StagingIsRecorded, StagingOutlivesPublication, Of
<1>7. CleanInv'
  BY DEF CleanInv, CleanedIsClean, Emptied, Of, WorkerInv, Alive
<1>8. LoadedIsVerified'
  BY LoadedFrame
<1>. QED
  BY <1>1, <1>2, <1>3, <1>4, <1>5, <1>6, <1>7, <1>8

\* A screen settles the outcome of a run without a worker.
LEMMA ReconcileStep == ASSUME AInv, NEW r \in Run, Reconcile(r) PROVE AInv'
<1>. USE ArtifactsAssumption DEF AInv, Reconcile, Becomes, Alive, rowVars, diskVars, localVars,
         cleanVars, TypeOK, File
<1>1. TypeOK'
  BY DEF Labels, Body
<1>2. WorkerInv'
  BY DEF WorkerInv, Alive, Body
<1>3. RefusalInv' /\ NoSecondRefusal'
  BY DEF RefusalInv, WorkerInv, NoSecondRefusal
<1>4. DiskInv'
  BY DEF DiskInv, Used
<1>5. PositionInv'
  BY DEF PositionInv, Position, Here, Body
<1>6. StagingIsRecorded' /\ StagingOutlivesPublication'
  BY DEF StagingIsRecorded, StagingOutlivesPublication, Of
<1>7. CleanInv'
  BY DEF CleanInv, CleanedIsClean, Emptied, Of, WorkerInv, Alive
<1>8. LoadedIsVerified'
  BY LoadedFrame
<1>. QED
  BY <1>1, <1>2, <1>3, <1>4, <1>5, <1>6, <1>7, <1>8

\* Files decay while no worker is there to have verified them.
LEMMA DamageStep == ASSUME AInv, NEW f \in File, Damage(f) PROVE AInv'
<1>. USE ArtifactsAssumption DEF AInv, Damage, TypeOK, File, rowVars, localVars, cleanVars
<1>1. TypeOK'
  OBVIOUS
<1>2. WorkerInv'
  BY DEF WorkerInv, Alive, Body
<1>3. DiskInv'
  BY DEF DiskInv, Used, Alive
<1>4. PositionInv'
  BY DEF PositionInv, Position, Here, Body
<1>5. RefusalInv' /\ NoSecondRefusal'
  BY DEF RefusalInv, NoSecondRefusal
<1>6. CleanInv'
  BY DEF CleanInv, CleanedIsClean, Emptied, Of
<1>7. LoadedIsVerified' /\ StagingIsRecorded' /\ StagingOutlivesPublication'
  BY DEF LoadedIsVerified, StagingIsRecorded, StagingOutlivesPublication, Of
<1>. QED
  BY <1>1, <1>2, <1>3, <1>4, <1>5, <1>6, <1>7

\* A cleanup begins when nothing is active or open.
LEMMA CleanBeginStep == ASSUME AInv, NEW r \in Run, CleanBegin(r) PROVE AInv'
<1>. USE ArtifactsAssumption DEF AInv, CleanBegin, MayClean, TypeOK, File, rowVars, localVars, diskVars
<1>1. TypeOK' /\ WorkerInv'
  BY DEF WorkerInv, Alive, Body
<1>2. DiskInv' /\ PositionInv'
  BY DEF DiskInv, Used, PositionInv, Position, Here, Body
<1>3. RefusalInv' /\ NoSecondRefusal' /\ CleanInv'
  BY DEF RefusalInv, NoSecondRefusal, CleanInv, CleanedIsClean, Emptied, Of
<1>4. LoadedIsVerified' /\ StagingIsRecorded' /\ StagingOutlivesPublication'
  BY DEF LoadedIsVerified, StagingIsRecorded, StagingOutlivesPublication, Of
<1>. QED
  BY <1>1, <1>2, <1>3, <1>4

\* Every staging table of the run is recorded, so all are dropped.
LEMMA CleanStagingStep == ASSUME AInv, CleanStaging PROVE AInv'
<1>. USE ArtifactsAssumption DEF AInv, CleanStaging, TypeOK, File, rowVars, localVars, diskVars
<1>1. cleaned \in Run /\ ~pending[cleaned] /\ pc[cleaned] \notin Body
  BY DEF WorkerInv, Alive, Body
<1>2. \A f \in File : (staging'[f] => staging[f]) /\ (f[1] # cleaned => staging'[f] = staging[f])
  OBVIOUS
<1>3. TypeOK' /\ WorkerInv'
  BY DEF WorkerInv, Alive, Body
<1>4. DiskInv'
  BY DEF DiskInv, Used
<1>5. PositionInv'
  BY <1>1, <1>2 DEF PositionInv, Position, Here, Body
<1>6. RefusalInv' /\ NoSecondRefusal'
  BY DEF RefusalInv, NoSecondRefusal
<1>7. CleanInv'
  BY <1>1 DEF CleanInv, CleanedIsClean, Emptied, Of, StagingIsRecorded
<1>8. LoadedIsVerified' /\ StagingIsRecorded' /\ StagingOutlivesPublication'
  BY <1>1, <1>2 DEF LoadedIsVerified, StagingIsRecorded, StagingOutlivesPublication, Of
<1>. QED
  BY <1>3, <1>4, <1>5, <1>6, <1>7, <1>8

\* Files only disappear.
LEMMA CleanFileStep == ASSUME AInv, CleanFile PROVE AInv'
<1>. USE ArtifactsAssumption DEF AInv, TypeOK, File
<1>1. /\ cleanPc = "delete" /\ UNCHANGED <<rowVars, recorded, file, staging, pc, localVars, loaded, refused, cleanVars>>
      /\ \A f \in File : data'[f] \in {data[f], "none"} /\ manifest'[f] \in {manifest[f], None}
      /\ data' \in [File -> {"none", "partial", "whole", "damaged"}] /\ manifest' \in [File -> Schema \cup {None}]
  <2>1. cleanPc = "delete" /\ UNCHANGED <<rowVars, recorded, file, staging, pc, localVars, loaded, refused, cleanVars>>
    BY DEF CleanFile
  <2>2. PICK f \in File : \/ data' = [data EXCEPT ![f] = "none"] /\ UNCHANGED manifest
                          \/ manifest' = [manifest EXCEPT ![f] = None] /\ UNCHANGED data
    BY <2>1 DEF CleanFile, Of, WorkerInv
  <2>3. CASE data' = [data EXCEPT ![f] = "none"] /\ UNCHANGED manifest
    BY <2>1, <2>3
  <2>4. CASE manifest' = [manifest EXCEPT ![f] = None] /\ UNCHANGED data
    BY <2>1, <2>4
  <2>. QED
    BY <2>2, <2>3, <2>4
<1>. USE DEF rowVars, localVars, cleanVars
<1>2. TypeOK' /\ WorkerInv'
  BY <1>1 DEF WorkerInv, Alive, Body
<1>3. DiskInv'
  BY <1>1 DEF DiskInv, Used
<1>4. PositionInv'
  BY <1>1 DEF PositionInv, Position, Here, Body
<1>5. RefusalInv' /\ NoSecondRefusal'
  BY <1>1 DEF RefusalInv, NoSecondRefusal
<1>6. CleanInv'
  BY <1>1 DEF CleanInv, CleanedIsClean, Of
<1>7. LoadedIsVerified' /\ StagingIsRecorded' /\ StagingOutlivesPublication'
  BY <1>1 DEF LoadedIsVerified, StagingIsRecorded, StagingOutlivesPublication, Of
<1>. QED
  BY <1>2, <1>3, <1>4, <1>5, <1>6, <1>7

\* Paths are only forgotten.
LEMMA CleanPathStep == ASSUME AInv, CleanPath PROVE AInv'
<1>. USE ArtifactsAssumption DEF AInv, TypeOK, File
<1>1. /\ cleanPc = "delete" /\ UNCHANGED <<rowVars, recorded, data, manifest, staging, pc, localVars, loaded, refused, cleanVars>>
      /\ \A f \in File : file'[f] \in {file[f], NoRun}
      /\ file' \in [File -> Run \cup {NoRun}]
  BY DEF CleanPath, Of, WorkerInv, diskVars
<1>. USE DEF rowVars, localVars, cleanVars
<1>2. TypeOK' /\ WorkerInv'
  BY <1>1 DEF WorkerInv, Alive, Body
<1>3. DiskInv'
  BY <1>1 DEF DiskInv, Used
<1>4. PositionInv'
  BY <1>1 DEF PositionInv, Position, Here, Body, Table
<1>5. RefusalInv'
  <2>1. \A q \in Run : refused[q] # 0 => <<q, refused[q]>> \in File
    BY DEF Table
  <2>. QED
    BY <1>1, <2>1 DEF RefusalInv
<1>6. NoSecondRefusal' /\ CleanInv'
  BY <1>1 DEF NoSecondRefusal, CleanInv, CleanedIsClean, Of
<1>7. LoadedIsVerified' /\ StagingIsRecorded' /\ StagingOutlivesPublication'
  BY <1>1 DEF LoadedIsVerified, StagingIsRecorded, StagingOutlivesPublication, Of
<1>. QED
  BY <1>2, <1>3, <1>4, <1>5, <1>6, <1>7

\* Nothing of the run is left when its cleanup ends.
LEMMA CleanEndStep == ASSUME AInv, CleanEnd PROVE AInv'
<1>. USE ArtifactsAssumption DEF AInv, CleanEnd, TypeOK, File, rowVars, localVars, diskVars
<1>1. TypeOK' /\ WorkerInv'
  BY DEF WorkerInv, Alive, Body
<1>2. DiskInv' /\ PositionInv'
  BY DEF DiskInv, Used, PositionInv, Position, Here, Body
<1>3. RefusalInv' /\ NoSecondRefusal'
  BY DEF RefusalInv, NoSecondRefusal
<1>4. CleanInv'
  BY DEF CleanInv, CleanedIsClean, Emptied, Of
<1>5. LoadedIsVerified' /\ StagingIsRecorded' /\ StagingOutlivesPublication'
  BY DEF LoadedIsVerified, StagingIsRecorded, StagingOutlivesPublication, Of
<1>. QED
  BY <1>1, <1>2, <1>3, <1>4, <1>5

\* A cleanup that raises promises nothing.
LEMMA CleanRaisesStep == ASSUME AInv, CleanRaises PROVE AInv'
<1>. USE ArtifactsAssumption DEF AInv, CleanRaises, TypeOK, File, rowVars, localVars, diskVars
<1>1. TypeOK' /\ WorkerInv'
  BY DEF WorkerInv, Alive, Body
<1>2. DiskInv' /\ PositionInv'
  BY DEF DiskInv, Used, PositionInv, Position, Here, Body
<1>3. RefusalInv' /\ NoSecondRefusal' /\ CleanInv'
  BY DEF RefusalInv, NoSecondRefusal, CleanInv, CleanedIsClean, Emptied, Of
<1>4. LoadedIsVerified' /\ StagingIsRecorded' /\ StagingOutlivesPublication'
  BY DEF LoadedIsVerified, StagingIsRecorded, StagingOutlivesPublication, Of
<1>. QED
  BY <1>1, <1>2, <1>3, <1>4

\* Nothing changes.
LEMMA StutterStep == ASSUME AInv, UNCHANGED vars PROVE AInv'
<1>. USE DEF AInv, vars, rowVars, localVars, diskVars, cleanVars
<1>1. TypeOK' /\ WorkerInv'
  BY DEF TypeOK, WorkerInv, Alive
<1>2. DiskInv' /\ PositionInv'
  BY DEF DiskInv, Used, PositionInv, Position, Here
<1>3. RefusalInv' /\ NoSecondRefusal' /\ CleanInv'
  BY DEF RefusalInv, NoSecondRefusal, CleanInv, CleanedIsClean, Emptied
<1>4. LoadedIsVerified' /\ StagingIsRecorded' /\ StagingOutlivesPublication'
  BY DEF LoadedIsVerified, StagingIsRecorded, StagingOutlivesPublication
<1>. QED
  BY <1>1, <1>2, <1>3, <1>4

\* The initial states.
LEMMA InitAInv == Init => AInv
<1>. USE ArtifactsAssumption DEF Init, AInv
<1>1. Init => TypeOK
  BY TableNumbers DEF TypeOK, Labels, File
<1>2. Init => WorkerInv /\ DiskInv
  BY DEF WorkerInv, DiskInv, Alive, Body, File
<1>3. Init => PositionInv
  BY TableNumbers DEF PositionInv, Position, Here, Body, File
<1>4. Init => RefusalInv /\ NoSecondRefusal /\ CleanInv
  BY DEF RefusalInv, NoSecondRefusal, CleanInv, CleanedIsClean, File
<1>5. Init => LoadedIsVerified /\ StagingIsRecorded /\ StagingOutlivesPublication
  BY DEF LoadedIsVerified, StagingIsRecorded, StagingOutlivesPublication
<1>. QED
  BY <1>1, <1>2, <1>3, <1>4, <1>5

\* Every step of Next, by the lemmas of its actions.
LEMMA StepAInv == AInv /\ [Next]_vars => AInv'
<1>. SUFFICES ASSUME AInv, [Next]_vars PROVE AInv'
  OBVIOUS
<1>1. ASSUME NEW r \in Run, NEW p \in Run \cup {NoRun}, Start(r, p) PROVE AInv'
  BY <1>1, StartStep
<1>2. ASSUME NEW r \in Run, Work(r) PROVE AInv'
  BY <1>2, PreflightStep, BeginTableStep, LookStep, ReuseStep, CompleteDataStep, CompleteManifestStep,
     RecordFileStep,
     VerifyStep, CreateStagingStep, LoadRowsStep, BeginPublishStep, PublishStep, TidyStep, FailStep, FinallyStep DEF Work
<1>3. ASSUME NEW r \in Run, Die(r) \/ Reconcile(r) PROVE AInv'
  BY <1>3, DieStep, ReconcileStep
<1>4. ASSUME NEW f \in File, Damage(f) PROVE AInv'
  BY <1>4, DamageStep
<1>5. CASE Cleanup
  BY <1>5, CleanBeginStep, CleanStagingStep, CleanFileStep, CleanPathStep, CleanEndStep, CleanRaisesStep
     DEF Cleanup
<1>. QED
  BY <1>1, <1>2, <1>3, <1>4, <1>5, StutterStep DEF Next

\* The inductive invariant: where files, paths and staging tables are at each step of a worker.
THEOREM ArtifactsInductive == Spec => []AInv
  BY InitAInv, StepAInv, PTL DEF Spec

\* Engine.load reads only bytes that codec.verify accepted for this configuration, though cleanup
\* may delete them and other runs may die over theirs (codec.py verify, engine.py execute).
THEOREM OnlyVerifiedFilesAreLoaded == Spec => []LoadedIsVerified
<1>1. AInv => LoadedIsVerified
  BY DEF AInv
<1>. QED
  BY <1>1, ArtifactsInductive, PTL

\* Each staging table has its name in the store, where cleanup looks, and stays until the outcome
\* of the publication is known (engine.py: begin_table before load, the finally block).
THEOREM StagingCanBeFound == Spec => [](StagingIsRecorded /\ StagingOutlivesPublication)
<1>1. AInv => StagingIsRecorded /\ StagingOutlivesPublication
  BY DEF AInv
<1>. QED
  BY <1>1, ArtifactsInductive, PTL

\* Nothing is left or comes back when process.cleanup has ended.
THEOREM CleanedStaysClean == Spec => []CleanedIsClean
<1>1. AInv => CleanedIsClean
  BY DEF AInv, CleanInv
<1>. QED
  BY <1>1, ArtifactsInductive, PTL

\* A retry is never refused the file its parent was refused (engine.py: verify before the path is recorded).
THEOREM RefusalsAreNotInherited == Spec => []NoSecondRefusal
<1>1. AInv => NoSecondRefusal
  BY DEF AInv
<1>. QED
  BY <1>1, ArtifactsInductive, PTL

=============================================================================
