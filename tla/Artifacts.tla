----------------------------- MODULE Artifacts -----------------------------
(***************************************************************************)
(* What runs leave behind: data files with manifests (snapshot/codec.py),  *)
(* the paths and staging names in run_table, staging tables on the target. *)
(* A retry reuses completed files of its ancestors (Engine.execute),       *)
(* success deletes them, process.cleanup deletes what a run left, workers  *)
(* are killed and files decay in between.  A worker that is killed is      *)
(* found dead in the same step (recover_local): until then nobody may      *)
(* start a run or a cleanup.                                               *)
(***************************************************************************)
EXTENDS Integers, FiniteSets

CONSTANTS Run, NT, Schema, NoRun, None

Table == 1..NT
File == Run \X Table

ASSUME ArtifactsAssumption == NT \in Nat \ {0} /\ NoRun \notin Run /\ None \notin Schema

VARIABLES
    state,     \* run.state: ABSENT, ACTIVE, FAILED (or CANCELLED, INTERRUPTED), SUCCESS
    pending,   \* run.publish_pending
    parent,    \* run.retry_of
    recorded,  \* run_table.staging is set
    file,      \* run_table.file, as the run that owns its directory
    data,      \* .partial ("partial") or .jsonl ("whole", "damaged") of a table
    manifest,  \* the schema in .manifest.json, None without one
    staging,   \* staging tables on the target server
    pc, current,
    sch,       \* the schema the worker's preflight sees
    prev,      \* files of store.tables(retry_of), read once
    path,      \* owner of the file in use
    done,      \* done_files
    loaded,    \* history: the data that went into staging, "foreign" for another schema
    refused,   \* history: the table whose recorded file verify refused, 0 if none
    cleanPc, cleaned  \* process.cleanup, and the run it is or was about

rowVars == <<state, pending, parent>>
diskVars == <<data, manifest>>
localVars == <<current, sch, prev, path, done>>
cleanVars == <<cleanPc, cleaned>>
vars == <<rowVars, recorded, file, diskVars, staging, pc, localVars, loaded, refused, cleanVars>>

Alive(r) == pc[r] \notin {"none", "exit"}
Here(r) == <<r, current[r]>>
Used(r) == <<path[r], current[r]>>
Of(r) == {r} \X Table

Init ==
    /\ state = [r \in Run |-> "ABSENT"] /\ pending = [r \in Run |-> FALSE]
    /\ parent = [r \in Run |-> NoRun]
    /\ recorded = [f \in File |-> FALSE] /\ file = [f \in File |-> NoRun]
    /\ data = [f \in File |-> "none"] /\ manifest = [f \in File |-> None]
    /\ staging = [f \in File |-> FALSE]
    /\ pc = [r \in Run |-> "none"] /\ current = [r \in Run |-> 1]
    /\ sch \in [Run -> Schema] /\ prev = [f \in File |-> NoRun]
    /\ path = [r \in Run |-> r] /\ done = [r \in Run |-> {}]
    /\ loaded = [f \in File |-> "none"] /\ refused = [r \in Run |-> 0]
    /\ cleanPc = "idle" /\ cleaned = NoRun

-----------------------------------------------------------------------------
(* The worker: the labels of its try block, and the others. *)
Body == {"preflight", "table", "look", "reuse", "write", "manifest", "record",
         "verify", "create", "load", "loaded", "publish"}
Labels == Body \cup {"none", "tidy", "finally", "exit"}

At(r, label) == pc[r] = label
Goto(r, label) == pc' = [pc EXCEPT ![r] = label]
Becomes(r, s) == state' = [state EXCEPT ![r] = s]

NoneActive == \A q \in Run : state[q] # "ACTIVE"

Start(r, p) ==
    /\ state[r] = "ABSENT" /\ NoneActive /\ \A q \in Run : ~pending[q]
    /\ p # NoRun => state[p] = "FAILED"
    /\ Becomes(r, "ACTIVE") /\ parent' = [parent EXCEPT ![r] = p]
    /\ Goto(r, "preflight")
    /\ UNCHANGED <<pending, recorded, file, diskVars, staging, localVars, loaded, refused, cleanVars>>

\* previous is the list of the parent's tables at this moment.
Preflight(r) ==
    /\ At(r, "preflight")
    /\ prev' = [f \in File |-> IF f[1] = r /\ parent[r] # NoRun THEN file[<<parent[r], f[2]>>]
                               ELSE prev[f]]
    /\ Goto(r, "table")
    /\ UNCHANGED <<rowVars, recorded, file, diskVars, staging, current, sch, path, done, loaded,
                   refused, cleanVars>>

\* The name of the staging table is in the store before the table can exist.
Announce(r) == recorded' = [recorded EXCEPT ![Here(r)] = TRUE]

BeginTable(r) ==
    /\ At(r, "table")
    /\ Announce(r)
    /\ Goto(r, "look")
    /\ UNCHANGED <<rowVars, file, diskVars, staging, localVars, loaded, refused, cleanVars>>

\* old_path.exists(); a .partial file has another name.
Exists(f) == data[f] \in {"whole", "damaged"}

Reusable(r) == prev[Here(r)] # NoRun /\ Exists(<<prev[Here(r)], current[r]>>)

\* Reuse a recorded file that is still there, or open a new one.
Look(r) ==
    /\ At(r, "look")
    /\ IF Reusable(r)
       THEN path' = [path EXCEPT ![r] = prev[Here(r)]] /\ Goto(r, "reuse") /\ UNCHANGED data
       ELSE /\ path' = [path EXCEPT ![r] = r] /\ Goto(r, "write")
            /\ data' = [data EXCEPT ![Here(r)] = "partial"]
    /\ UNCHANGED <<rowVars, recorded, file, manifest, staging, current, sch, prev, done, loaded,
                   refused, cleanVars>>

\* Mutant: the content is not compared with the manifest.
NoDigest(f, s) == Exists(f) /\ manifest[f] = s

\* codec.verify: a manifest of this configuration, and the bytes it describes.
Verifies(f, s) == data[f] = "whole" /\ manifest[f] = s

\* Mutant: the path is recorded before the file is verified.
RecordsAnyway(r) == TRUE

\* What verify refuses is not recorded for this run.
RecordsReuse(r) == Verifies(Used(r), sch[r])

Reuse(r) ==
    /\ At(r, "reuse")
    /\ file' = IF RecordsReuse(r) THEN [file EXCEPT ![Here(r)] = path[r]] ELSE file
    /\ IF Verifies(Used(r), sch[r])
       THEN Goto(r, "verify") /\ UNCHANGED <<state, refused>>
       ELSE /\ Goto(r, "finally") /\ Becomes(r, "FAILED")
            /\ refused' = [refused EXCEPT ![r] = current[r]]
    /\ UNCHANGED <<pending, parent, recorded, diskVars, staging, localVars, loaded, cleanVars>>

\* Writer.complete: the data is renamed, then the manifest; extract records the path last.
CompleteData(r) ==
    /\ At(r, "write")
    /\ data' = [data EXCEPT ![Here(r)] = "whole"]
    /\ Goto(r, "manifest")
    /\ UNCHANGED <<rowVars, recorded, file, manifest, staging, localVars, loaded, refused, cleanVars>>

CompleteManifest(r) ==
    /\ At(r, "manifest")
    /\ manifest' = [manifest EXCEPT ![Here(r)] = sch[r]]
    /\ Goto(r, "record")
    /\ UNCHANGED <<rowVars, recorded, file, data, staging, localVars, loaded, refused, cleanVars>>

RecordFile(r) ==
    /\ At(r, "record")
    /\ file' = [file EXCEPT ![Here(r)] = r]
    /\ Goto(r, "verify")
    /\ UNCHANGED <<rowVars, recorded, diskVars, staging, localVars, loaded, refused, cleanVars>>

\* The second verify, of new and reused files alike.
Verify(r) ==
    /\ At(r, "verify") /\ Verifies(Used(r), sch[r])
    /\ done' = [done EXCEPT ![r] = @ \cup {Used(r)}]
    /\ Goto(r, "create")
    /\ UNCHANGED <<rowVars, recorded, file, diskVars, staging, current, sch, prev, path, loaded,
                   refused, cleanVars>>

\* load: the staging table is dropped and created ...
CreateStaging(r) ==
    /\ At(r, "create")
    /\ staging' = [staging EXCEPT ![Here(r)] = TRUE]
    /\ Goto(r, "load")
    /\ UNCHANGED <<rowVars, recorded, file, diskVars, localVars, loaded, refused, cleanVars>>

\* ... then batches opens the file; a lost connection begins with CREATE again.
LoadRows(r) ==
    /\ At(r, "load") /\ Exists(Used(r))
    /\ \/ /\ loaded' = [loaded EXCEPT ![Here(r)] = IF sch[path[r]] = sch[r] THEN data[Used(r)]
                                                     ELSE "foreign"]
          /\ IF current[r] < NT
             THEN current' = [current EXCEPT ![r] = @ + 1] /\ Goto(r, "table")
             ELSE current' = current /\ Goto(r, "loaded")
       \/ Goto(r, "create") /\ UNCHANGED <<current, loaded>>
    /\ UNCHANGED <<rowVars, recorded, file, diskVars, staging, sch, prev, path, done, refused, cleanVars>>

BeginPublish(r) ==
    /\ At(r, "loaded")
    /\ pending' = [pending EXCEPT ![r] = TRUE]
    /\ Goto(r, "publish")
    /\ UNCHANGED <<state, parent, recorded, file, diskVars, staging, localVars, loaded, refused, cleanVars>>

\* Committed and acknowledged; or the handler asks reconcile, perhaps in vain.
Publish(r) ==
    /\ At(r, "publish")
    /\ \/ Becomes(r, "SUCCESS") /\ pending' = [pending EXCEPT ![r] = FALSE] /\ Goto(r, "tidy")
       \/ /\ \E s \in {"SUCCESS", "FAILED"} : Becomes(r, s)
          /\ pending' = [pending EXCEPT ![r] = FALSE] /\ Goto(r, "finally")
       \/ Becomes(r, "FAILED") /\ UNCHANGED pending /\ Goto(r, "finally")
    /\ UNCHANGED <<parent, recorded, file, diskVars, staging, localVars, loaded, refused, cleanVars>>

\* After success: the data of a file, then its manifest, table by table; unlink may raise.
Tidy(r) ==
    /\ At(r, "tidy")
    /\ \/ \E f \in done[r] :
            /\ \A g \in done[r] : f[2] <= g[2]
            /\ IF Exists(f)
               THEN data' = [data EXCEPT ![f] = "none"] /\ UNCHANGED <<manifest, done>>
               ELSE /\ manifest' = [manifest EXCEPT ![f] = None]
                    /\ done' = [done EXCEPT ![r] = @ \ {f}] /\ UNCHANGED data
            /\ UNCHANGED pc
       \/ Goto(r, "finally") /\ UNCHANGED <<diskVars, done>>
    /\ UNCHANGED <<rowVars, recorded, file, staging, current, sch, prev, path, loaded, refused, cleanVars>>

\* An exception or a cancel that is noticed before begin_publish.
Fail(r) ==
    /\ state[r] = "ACTIVE" /\ Alive(r) /\ ~pending[r]
    /\ Becomes(r, "FAILED") /\ Goto(r, "finally")
    /\ UNCHANGED <<pending, parent, recorded, file, diskVars, staging, localVars, loaded, refused, cleanVars>>

\* Mutant: the publication is not asked about.
AlwaysDrops(r) == TRUE

DropsStaging(r) == ~pending[r]

\* The finally block drops what it can reach of the worker's own staging tables.
Finally(r) ==
    /\ At(r, "finally")
    /\ \E S \in SUBSET Of(r) :
        /\ ~DropsStaging(r) => S = {}
        /\ staging' = [f \in File |-> staging[f] /\ f \notin S]
    /\ Goto(r, "exit")
    /\ UNCHANGED <<rowVars, recorded, file, diskVars, localVars, loaded, refused, cleanVars>>

Work(r) ==
    \/ Preflight(r) \/ BeginTable(r) \/ Look(r) \/ Reuse(r)
    \/ CompleteData(r) \/ CompleteManifest(r) \/ RecordFile(r) \/ Verify(r)
    \/ CreateStaging(r) \/ LoadRows(r) \/ BeginPublish(r) \/ Publish(r) \/ Tidy(r)
    \/ Fail(r) \/ Finally(r)

Die(r) ==
    /\ Alive(r)
    /\ Goto(r, "exit")
    /\ Becomes(r, IF state[r] = "ACTIVE" THEN "FAILED" ELSE state[r])
    /\ UNCHANGED <<pending, parent, recorded, file, diskVars, staging, localVars, loaded, refused, cleanVars>>

\* A screen resolves a run whose worker is gone.
Reconcile(r) ==
    /\ pending[r] /\ ~Alive(r)
    /\ pending' = [pending EXCEPT ![r] = FALSE]
    /\ \E s \in {"SUCCESS", "FAILED"} : Becomes(r, s)
    /\ UNCHANGED <<parent, recorded, file, diskVars, staging, pc, localVars, loaded, refused, cleanVars>>

\* Bytes decay on the disk while no worker is there.
Damage(f) ==
    /\ data[f] = "whole" /\ \A r \in Run : ~Alive(r)
    /\ data' = [data EXCEPT ![f] = "damaged"]
    /\ UNCHANGED <<rowVars, recorded, file, manifest, staging, pc, localVars, loaded, refused, cleanVars>>

-----------------------------------------------------------------------------
(* process.cleanup *)

\* Mutant: only the outcome of the publication is asked about.
PendingOnly(r) == state[r] # "ABSENT" /\ ~pending[r]

MayClean(r) == state[r] \in {"FAILED", "SUCCESS"} /\ ~pending[r] /\ ~Alive(r) /\ NoneActive

CleanBegin(r) ==
    /\ cleanPc = "idle" /\ MayClean(r)
    /\ cleanPc' = "drop" /\ cleaned' = r
    /\ UNCHANGED <<rowVars, recorded, file, diskVars, staging, pc, localVars, loaded, refused>>

CleanStaging ==
    /\ cleanPc = "drop"
    /\ staging' = [f \in File |-> staging[f] /\ ~(f[1] = cleaned /\ recorded[f])]
    /\ cleanPc' = "delete"
    /\ UNCHANGED <<rowVars, recorded, file, diskVars, pc, localVars, loaded, refused, cleaned>>

\* The directory is emptied, but for the log, in the order in which it lists its files.
CleanFile ==
    /\ cleanPc = "delete"
    /\ \E f \in Of(cleaned) :
        \/ data[f] # "none" /\ data' = [data EXCEPT ![f] = "none"] /\ UNCHANGED manifest
        \/ manifest[f] # None /\ manifest' = [manifest EXCEPT ![f] = None] /\ UNCHANGED data
    /\ UNCHANGED <<rowVars, recorded, file, staging, pc, localVars, loaded, refused, cleanVars>>

Emptied == \A f \in Of(cleaned) : data[f] = "none" /\ manifest[f] = None

\* Paths into the directory are forgotten; those to an ancestor's file are not.
CleanPath ==
    /\ cleanPc = "delete" /\ Emptied
    /\ \E f \in Of(cleaned) : file[f] = cleaned /\ file' = [file EXCEPT ![f] = NoRun]
    /\ UNCHANGED <<rowVars, recorded, diskVars, staging, pc, localVars, loaded, refused, cleanVars>>

CleanEnd ==
    /\ cleanPc = "delete" /\ Emptied /\ \A f \in Of(cleaned) : file[f] # cleaned
    /\ cleanPc' = "idle"
    /\ UNCHANGED <<rowVars, recorded, file, diskVars, staging, pc, localVars, loaded, refused, cleaned>>

\* The target cannot be reached, a file cannot be deleted, the page is closed.
CleanRaises ==
    /\ cleanPc # "idle"
    /\ cleanPc' = "idle" /\ cleaned' = NoRun
    /\ UNCHANGED <<rowVars, recorded, file, diskVars, staging, pc, localVars, loaded, refused>>

Cleanup ==
    \/ \E r \in Run : CleanBegin(r)
    \/ CleanStaging \/ CleanFile \/ CleanPath \/ CleanEnd \/ CleanRaises

Next ==
    \/ \E r \in Run : \/ \E p \in Run \cup {NoRun} : Start(r, p)
                      \/ Work(r) \/ Die(r) \/ Reconcile(r)
    \/ \E f \in File : Damage(f)
    \/ Cleanup

Spec == Init /\ [][Next]_vars

-----------------------------------------------------------------------------
TypeOK ==
    /\ state \in [Run -> {"ABSENT", "ACTIVE", "FAILED", "SUCCESS"}]
    /\ pending \in [Run -> BOOLEAN] /\ parent \in [Run -> Run \cup {NoRun}]
    /\ recorded \in [File -> BOOLEAN] /\ file \in [File -> Run \cup {NoRun}]
    /\ data \in [File -> {"none", "partial", "whole", "damaged"}]
    /\ manifest \in [File -> Schema \cup {None}] /\ staging \in [File -> BOOLEAN]
    /\ pc \in [Run -> Labels]
    /\ current \in [Run -> Table] /\ sch \in [Run -> Schema] /\ prev \in [File -> Run \cup {NoRun}]
    /\ path \in [Run -> Run] /\ done \in [Run -> SUBSET File]
    /\ loaded \in [File -> {"none", "whole", "damaged", "foreign"}]
    /\ refused \in [Run -> 0..NT]
    /\ cleanPc \in {"idle", "drop", "delete"} /\ cleaned \in Run \cup {NoRun}

\* Only the bytes of a completed file of this very schema reach a staging table,
\* whoever wrote it, was killed over it, deletes it meanwhile or let it decay.
LoadedIsVerified ==
    \A f \in File : loaded[f] \in {"none", "whole"}

\* A killed worker leaves no staging table that cleanup could not find.
StagingIsRecorded == \A f \in File : staging[f] => recorded[f]

\* As long as the outcome of a publication is open its staging tables are there.
StagingOutlivesPublication == \A r \in Run : pending[r] => \A f \in Of(r) : staging[f]

\* A retry is not stuck with a file that verify refuses: the next one reads the source.
NoSecondRefusal ==
    \A r \in Run : refused[r] # 0 /\ parent[r] # NoRun => refused[parent[r]] # refused[r]

\* When cleanup has ended nothing of the run is left or comes back.
CleanedIsClean ==
    cleanPc = "idle" /\ cleaned # NoRun =>
        Emptied /\ \A f \in Of(cleaned) : ~staging[f] /\ file[f] # cleaned

-----------------------------------------------------------------------------
(* The inductive invariant. *)

\* One worker is in its try block; what is final or cleaned up has none.
WorkerInv ==
    /\ \A r \in Run : /\ state[r] = "ACTIVE" <=> pc[r] \in Body
                      /\ state[r] = "ABSENT" <=> pc[r] = "none"
                      /\ state[r] = "ABSENT" => parent[r] = NoRun
                      /\ pc[r] = "publish" => pending[r]
                      /\ pending[r] => pc[r] = "publish" \/ state[r] = "FAILED"
    /\ \A q, r \in Run : state[q] = "ACTIVE" /\ state[r] = "ACTIVE" => q = r
    /\ \A r \in Run : parent[r] # NoRun => /\ state[parent[r]] = "FAILED" /\ ~pending[parent[r]]
                                           /\ parent[r] # r
    /\ cleanPc # "idle" => cleaned # NoRun
    /\ cleaned # NoRun => state[cleaned] \in {"FAILED", "SUCCESS"} /\ ~pending[cleaned] /\ ~Alive(cleaned)

\* A manifest has the schema of its writer; a verified file can only disappear.
DiskInv ==
    /\ \A f \in File : manifest[f] \in {None, sch[f[1]]}
    /\ \A r \in Run : pc[r] \in {"create", "load"} =>
                          data[Used(r)] \in {"none", "whole"} /\ sch[path[r]] = sch[r]

\* What the worker's position says about the store and the target.
Position(r) ==
    /\ pc[r] \in Body \ {"preflight", "table"} => recorded[Here(r)]
    /\ pc[r] \in {"preflight", "table", "look", "reuse", "write", "manifest", "record"} =>
           file[Here(r)] = NoRun
    /\ pc[r] \in Body \cup {"none"} => \A t \in Table : t > current[r] => file[<<r, t>>] = NoRun
    /\ pc[r] \in {"none", "preflight"} => current[r] = 1 /\ file[Here(r)] = NoRun
    /\ pc[r] \in Body => \A t \in Table : t < current[r] => staging[<<r, t>>]
    /\ pc[r] \in {"load", "loaded", "publish"} => staging[Here(r)]
    /\ pc[r] \in {"loaded", "publish"} => current[r] = NT
    /\ pc[r] = "reuse" => prev[Here(r)] # NoRun

PositionInv == \A r \in Run : Position(r)

\* A refused file is recorded nowhere in the run that was refused it.
RefusalInv ==
    /\ \A r \in Run : refused[r] # 0 => /\ state[r] = "FAILED" /\ ~pending[r]
                                        /\ file[<<r, refused[r]>>] = NoRun
    /\ \A r \in Run, t \in Table : prev[<<r, t>>] # NoRun =>
                                       parent[r] # NoRun /\ refused[parent[r]] # t

CleanInv ==
    /\ cleanPc = "delete" => \A f \in Of(cleaned) : ~staging[f]
    /\ CleanedIsClean

AInv ==
    /\ TypeOK /\ WorkerInv /\ DiskInv /\ PositionInv /\ RefusalInv /\ CleanInv
    /\ LoadedIsVerified /\ StagingIsRecorded /\ StagingOutlivesPublication /\ NoSecondRefusal
=============================================================================
