------------------------------- MODULE Screens -------------------------------
(* The browser tabs of app.py: what they register, delete, start and retry in *)
(* the configuration tables of the store.  A click runs the whole script: it   *)
(* reads profiles, jobs and runs at the top (Draw), and what the click does to *)
(* the store is a later transaction, with other tabs in between.  A dangerous  *)
(* action goes through confirm_button and confirmation_dialog, two scripts.    *)
(* The life of a run is Publication; here a run is busy (active, or pending)   *)
(* until it ends.  Passwords, labels and connection tests are left out, and a  *)
(* connection is its identifier: its role never changes, since a form edits    *)
(* the connections of one role and an import always adds.  The dialog of an    *)
(* import is left out; clean-up, cancel and force_stop, which go through the   *)
(* same dialog, are in Artifacts and Publication.                              *)
EXTENDS Naturals

CONSTANTS Tab, Source, Target, Job, Run,
          Link,        \* the (source, target) pairs a job may connect
          Deletable,   \* the connections and jobs that someone may delete
          FirstLink,   \* the link of every job at first
          NoJob, NoAction, NoRun,
          MaxChanges   \* bound: changes of the configuration

Profile == Source \cup Target
Action == {<<"start", NoRun>>} \cup {<<"retry", r>> : r \in Run}
              \cup {<<"delete_connection", p>> : p \in Profile \cap Deletable}
              \cup {<<"delete_job", j>> : j \in Job \cap Deletable}

ASSUME BoundAssumption == MaxChanges \in Nat
ASSUME LinkAssumption == /\ Link \subseteq [source : Source, target : Target]
                         /\ NoJob \notin Link /\ FirstLink \in Link
ASSUME ActionAssumption == NoAction \notin Action
ASSUME RoleAssumption == Source \cap Target = {}

VARIABLES
    profile,  \* connection_profile: the registered connections
    job,      \* backup_job: the link of each job, or NoJob
    run,      \* "absent", "busy", "failed" or "success"
    spec,     \* what a run carries: the links of its jobs, its connections
    parent,   \* retry_of
    pc,       \* where the script of a tab is
    seen,     \* what it read at the top
    pending,  \* _pending_confirmation, or NoAction
    confirmed,\* _confirmed_action, or NoAction
    draft,    \* the spec it is about to queue, and the run it retries
    consent,  \* history: the action confirmed last, until it is carried out
    known,    \* history: sources that stayed registered since the last confirmation
    changes   \* bounded by MaxChanges

storeVars == <<profile, job, changes>>
runVars == <<run, spec, parent>>
scriptVars == <<pc, seen, draft>>
choiceVars == <<pending, confirmed, consent>>
dialogVars == <<choiceVars, known>>
vars == <<storeVars, runVars, scriptVars, dialogVars>>

NoLinks == [j \in Job |-> NoJob]
NoSpec == [jobs |-> NoLinks, profiles |-> {}]
Blank == [profiles |-> {}, jobs |-> NoLinks, busy |-> FALSE]
NoDraft == [spec |-> NoSpec, parent |-> NoRun]
Existing(jobs) == {j \in Job : jobs[j] # NoJob}
Busy == \E r \in Run : run[r] = "busy"

Init ==
    /\ profile \in {P \in SUBSET Profile : Target \cup {FirstLink.source} \subseteq P}
    /\ job = [j \in Job |-> FirstLink]
    /\ run = [r \in Run |-> "absent"] /\ spec = [r \in Run |-> NoSpec]
    /\ parent = [r \in Run |-> NoRun]
    /\ pc = [t \in Tab |-> "idle"] /\ seen = [t \in Tab |-> Blank] /\ draft = [t \in Tab |-> NoDraft]
    /\ pending = [t \in Tab |-> NoAction] /\ confirmed = [t \in Tab |-> NoAction]
    /\ consent = [t \in Tab |-> NoAction] /\ known = [t \in Tab |-> {}]
    /\ changes = 0

-----------------------------------------------------------------------------
(* A script and its dialogs. *)

Forget(t) == known' = [known EXCEPT ![t] = {}]

EndScript(t) ==
    /\ pc' = [pc EXCEPT ![t] = "idle"] /\ seen' = [seen EXCEPT ![t] = Blank]
    /\ draft' = [draft EXCEPT ![t] = NoDraft]

\* A click starts the script.
Draw(t) ==
    /\ pc[t] = "idle" /\ pc' = [pc EXCEPT ![t] = "page"]
    /\ seen' = [seen EXCEPT ![t] = [profiles |-> profile, jobs |-> job, busy |-> Busy]]
    /\ UNCHANGED <<storeVars, runVars, draft, dialogVars>>

Leave(t) == pc[t] = "page" /\ EndScript(t) /\ UNCHANGED <<storeVars, runVars, dialogVars>>

Connected(s) == s.profiles \cap Source # {} /\ s.profiles \cap Target # {}
Targets(links, S) == {links[j].target : j \in S}

\* What the user can have chosen of the jobs drawn: some, and for one target.
Choices(t) == {S \in SUBSET Existing(seen[t].jobs) : \E d \in Target : Targets(seen[t].jobs, S) = {d}}

\* Whether the drawn page has the button of an action; the page is the user's choice.
Rendered(t, a) ==
    CASE a[1] = "start" -> Connected(seen[t]) /\ Existing(seen[t].jobs) # {}
      [] a[1] = "retry" -> run[a[2]] = "failed"
      [] a[1] = "delete_connection" -> a[2] \in seen[t].profiles
      [] a[1] = "delete_job" -> Connected(seen[t]) /\ seen[t].jobs[a[2]] # NoJob

Disabled(t, a) ==
    seen[t].busy \/ (a[1] = "start" /\ Choices(t) = {})

\* confirm_button before the dialog.
Ask(t, a) ==
    /\ pc[t] = "page" /\ pending[t] = NoAction /\ confirmed[t] # a
    /\ Rendered(t, a) /\ ~Disabled(t, a)
    /\ pending' = [pending EXCEPT ![t] = a] /\ EndScript(t)
    /\ UNCHANGED <<storeVars, runVars, confirmed, consent, known>>

\* The buttons of confirmation_dialog; each is a script that ends at once.
Confirm(t) ==
    /\ pc[t] = "idle" /\ pending[t] # NoAction
    /\ confirmed' = [confirmed EXCEPT ![t] = pending[t]]
    /\ consent' = [consent EXCEPT ![t] = pending[t]]
    /\ known' = [known EXCEPT ![t] = IF pending[t][1] = "start" THEN profile \cap Source ELSE {}]
    /\ pending' = [pending EXCEPT ![t] = NoAction]
    /\ UNCHANGED <<storeVars, runVars, scriptVars>>

CancelDialog(t) ==
    /\ pc[t] = "idle" /\ pending[t] # NoAction
    /\ pending' = [pending EXCEPT ![t] = NoAction]
    /\ UNCHANGED <<storeVars, runVars, scriptVars, confirmed, consent, known>>

\* What is left of a confirmation when its button is reached.
Taken(c) == NoAction

\* confirm_button after the dialog: the confirmation is used up, also when the
\* button has been disabled in the meantime.
Take(t, a) ==
    /\ pc[t] = "page" /\ confirmed[t] = a /\ Rendered(t, a)
    /\ confirmed' = [confirmed EXCEPT ![t] = Taken(a)]
    /\ consent' = [consent EXCEPT ![t] = NoAction]
    /\ UNCHANGED pending

TooLate(t, a) == Take(t, a) /\ Disabled(t, a) /\ EndScript(t) /\ Forget(t) /\ UNCHANGED <<storeVars, runVars>>

-----------------------------------------------------------------------------
(* The configuration. *)

\* Mutant: what the page showed at the top is taken for the state of the store.
MayChangeAsDrawn(t) == ~seen[t].busy

\* _assert_idle, in the transaction of save and delete.
MayChange(t) == ~Busy

Change == changes < MaxChanges /\ changes' = changes + 1

\* Store.save of a connection, new, edited or imported.
SaveProfile(t, p) ==
    /\ pc[t] = "page" /\ MayChange(t) /\ p \notin profile /\ Change
    /\ profile' = profile \cup {p} /\ EndScript(t)
    /\ UNCHANGED <<job, runVars, dialogVars>>

\* Store.save of a job: the form offers the connections that the script has read;
\* a duplicate has the link of a job it has read.
SaveJob(t, j, l) ==
    /\ pc[t] = "page" /\ MayChange(t) /\ job[j] # l /\ Change
    /\ {l.source, l.target} \subseteq seen[t].profiles \/ \E i \in Job : seen[t].jobs[i] = l
    /\ job' = [job EXCEPT ![j] = l] /\ EndScript(t)
    /\ UNCHANGED <<profile, runVars, dialogVars>>

InUse(p) == \E j \in Existing(job) : p \in {job[j].source, job[j].target}

DeleteProfile(t, p) ==
    /\ Take(t, <<"delete_connection", p>>) /\ ~Disabled(t, <<"delete_connection", p>>)
    /\ \/ MayChange(t) /\ ~InUse(p) /\ Change /\ profile' = profile \ {p}
          /\ known' = [u \in Tab |-> IF u = t THEN {} ELSE known[u] \ {p}]
       \/ (~MayChange(t) \/ InUse(p)) /\ UNCHANGED <<profile, changes>> /\ Forget(t)
    /\ EndScript(t) /\ UNCHANGED <<job, runVars>>

DeleteJob(t, j) ==
    /\ Take(t, <<"delete_job", j>>) /\ ~Disabled(t, <<"delete_job", j>>)
    /\ \/ MayChange(t) /\ Change /\ job' = [job EXCEPT ![j] = NoJob]
       \/ ~MayChange(t) /\ UNCHANGED <<job, changes>>
    /\ EndScript(t) /\ Forget(t) /\ UNCHANGED <<profile, runVars>>

-----------------------------------------------------------------------------
(* Runs. *)

Chosen(S) == [j \in Job |-> IF j \in S THEN job[j] ELSE NoJob]

\* build_spec reads the jobs; one that is gone raises.
StartRun(t) ==
    /\ Take(t, <<"start", NoRun>>) /\ ~Disabled(t, <<"start", NoRun>>)
    /\ \E S \in Choices(t) :
           IF S \subseteq Existing(job)
           THEN /\ pc' = [pc EXCEPT ![t] = "profiles"]
                /\ draft' = [draft EXCEPT ![t] =
                                 [NoDraft EXCEPT !.spec = [jobs |-> Chosen(S), profiles |-> {}]]]
                /\ seen' = [seen EXCEPT ![t] = Blank] /\ UNCHANGED known
           ELSE EndScript(t) /\ Forget(t)
    /\ UNCHANGED <<storeVars, runVars>>

\* Mutant: the page has checked the targets.
OneTargetAsDrawn(links) == TRUE

\* All selected jobs have the same target connection.
OneTarget(links) == \E d \in Target : Targets(links, Existing(links)) = {d}

\* Mutant: the connections of the selected jobs only.
SelectedOnly(links) == UNION {{links[j].source, links[j].target} : j \in Existing(links)}

\* All registered sources, and the connections of the selected jobs.
SpecProfiles(links) ==
    (profile \cap Source) \cup UNION {{links[j].source, links[j].target} : j \in Existing(links)}

\* build_spec reads the connections in another transaction; a connection that is gone raises.
BuildSpec(t) ==
    /\ pc[t] = "profiles"
    /\ LET links == draft[t].spec.jobs IN
           IF /\ OneTarget(links)
              /\ \A j \in Existing(links) : {links[j].source, links[j].target} \subseteq profile
           THEN /\ pc' = [pc EXCEPT ![t] = "queue"]
                /\ draft' = [draft EXCEPT ![t].spec.profiles = SpecProfiles(links)]
                /\ UNCHANGED <<seen, known>>
           ELSE EndScript(t) /\ Forget(t)
    /\ UNCHANGED <<storeVars, runVars, choiceVars>>

\* process.retry starts from the specification of the run it repeats.
RetryRun(t, r) ==
    /\ Take(t, <<"retry", r>>) /\ ~Disabled(t, <<"retry", r>>)
    /\ pc' = [pc EXCEPT ![t] = "queue"]
    /\ draft' = [draft EXCEPT ![t] = [spec |-> spec[r], parent |-> r]]
    /\ seen' = [seen EXCEPT ![t] = Blank] /\ Forget(t)
    /\ UNCHANGED <<storeVars, runVars>>

\* process.start: Store.queue, or an exception (a missing password, a busy store).
Queue(t, r) ==
    /\ pc[t] = "queue" /\ run[r] = "absent" /\ ~Busy
    /\ run' = [run EXCEPT ![r] = "busy"] /\ spec' = [spec EXCEPT ![r] = draft[t].spec]
    /\ parent' = [parent EXCEPT ![r] = draft[t].parent]
    /\ EndScript(t) /\ Forget(t) /\ UNCHANGED <<storeVars, choiceVars>>

Refused(t) ==
    pc[t] = "queue" /\ EndScript(t) /\ Forget(t) /\ UNCHANGED <<storeVars, runVars, choiceVars>>

\* The run ends, whatever its worker, a recovery or a reconcile had to do for it.
\* What a run that succeeded was is of no further consequence.
EndRun(r) ==
    /\ run[r] = "busy"
    /\ \/ run' = [run EXCEPT ![r] = "failed"] /\ UNCHANGED <<spec, parent>>
       \/ /\ run' = [run EXCEPT ![r] = "success"]
          /\ spec' = [spec EXCEPT ![r] = NoSpec] /\ parent' = [parent EXCEPT ![r] = NoRun]
    /\ UNCHANGED <<storeVars, scriptVars, dialogVars>>

Next ==
    \/ \E t \in Tab :
           \/ Draw(t) \/ Leave(t) \/ Confirm(t) \/ CancelDialog(t)
           \/ \E a \in Action : Ask(t, a) \/ TooLate(t, a)
           \/ \E p \in Profile : SaveProfile(t, p)
           \/ \E p \in Profile \cap Deletable : DeleteProfile(t, p)
           \/ \E j \in Job, l \in Link : SaveJob(t, j, l)
           \/ \E j \in Job \cap Deletable : DeleteJob(t, j)
           \/ StartRun(t) \/ BuildSpec(t)
           \/ \E r \in Run : RetryRun(t, r) \/ Queue(t, r)
           \/ Refused(t)
    \/ \E r \in Run : EndRun(r)

Spec == Init /\ [][Next]_vars

-----------------------------------------------------------------------------
(* Properties. *)

LinkMap == [Job -> Link \cup {NoJob}]
SpecType == [jobs : LinkMap, profiles : SUBSET Profile]

TypeOK ==
    /\ profile \subseteq Profile /\ job \in LinkMap
    /\ run \in [Run -> {"absent", "busy", "failed", "success"}]
    /\ spec \in [Run -> SpecType] /\ parent \in [Run -> Run \cup {NoRun}]
    /\ pc \in [Tab -> {"idle", "page", "profiles", "queue"}]
    /\ seen \in [Tab -> [profiles : SUBSET Profile, jobs : LinkMap, busy : BOOLEAN]]
    /\ draft \in [Tab -> [spec : SpecType, parent : Run \cup {NoRun}]]
    /\ pending \in [Tab -> Action \cup {NoAction}] /\ confirmed \in [Tab -> Action \cup {NoAction}]
    /\ consent \in [Tab -> Action \cup {NoAction}] /\ known \in [Tab -> SUBSET Source]
    /\ changes \in 0..MaxChanges

\* README.md: an action is carried out once for each time it was confirmed.
ConfirmedOnce == \A t \in Tab : confirmed[t] # NoAction => consent[t] = confirmed[t]

\* The jobs of a specification have one target, and it carries all their connections.
Closed(s) ==
    /\ \E d \in Target : \A j \in Existing(s.jobs) : s.jobs[j].target = d
    /\ Existing(s.jobs) # {}
    /\ \A j \in Existing(s.jobs) : {s.jobs[j].source, s.jobs[j].target} \subseteq s.profiles

\* What is published in one transaction goes to one server, though another tab may
\* change jobs and connections while a start is being confirmed, checked and read.
RunsAreClosed == \A r \in Run : run[r] \in {"busy", "failed"} => Closed(spec[r])

\* Every source that was registered when the user confirmed a start, and was not
\* deleted since, is among those that the run keeps away from its target.
KnownSourcesAreChecked ==
    \A t \in Tab : pc[t] = "queue" /\ draft[t].parent = NoRun => known[t] \subseteq draft[t].spec.profiles

\* Whatever a page has drawn, nobody changes the configuration under a run.
FrozenWhileBusy == [][Busy => UNCHANGED <<profile, job>>]_vars

-----------------------------------------------------------------------------
(* The inductive invariant. *)

\* What a script is about to queue is closed; what it read of the jobs is kept.
DraftInv == \A t \in Tab : pc[t] = "queue" => Closed(draft[t].spec)

\* The sources the user knew of are still registered.
KnownInv == \A t \in Tab : known[t] \subseteq profile

SInv ==
    /\ TypeOK /\ ConfirmedOnce /\ RunsAreClosed /\ KnownSourcesAreChecked /\ DraftInv /\ KnownInv
=============================================================================
