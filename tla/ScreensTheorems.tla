--------------------------- MODULE ScreensTheorems ---------------------------
(* The invariants of Screens, for any tabs, connections, jobs and runs. *)
EXTENDS Screens, TLAPS

USE LinkAssumption, ActionAssumption, RoleAssumption, BoundAssumption

\* At first nobody has clicked.
LEMMA InitSInv == Init => SInv
<1>. SUFFICES ASSUME Init PROVE SInv
  OBVIOUS
<1>. USE DEF Init
<1>1. TypeOK
  <2>1. NoLinks \in LinkMap /\ NoSpec \in SpecType
    BY DEF NoLinks, NoSpec, LinkMap, SpecType
  <2>2. Blank \in [profiles : SUBSET Profile, jobs : LinkMap, busy : BOOLEAN]
    BY <2>1 DEF Blank
  <2>3. NoDraft \in [spec : SpecType, parent : Run \cup {NoRun}]
    BY <2>1 DEF NoDraft
  <2>4. job \in LinkMap /\ profile \subseteq Profile /\ changes \in 0..MaxChanges
    BY DEF LinkMap
  <2>. QED
    BY <2>1, <2>2, <2>3, <2>4 DEF TypeOK
<1>2. ConfirmedOnce /\ RunsAreClosed /\ KnownSourcesAreChecked /\ DraftInv /\ KnownInv
  BY DEF ConfirmedOnce, RunsAreClosed, KnownSourcesAreChecked, DraftInv, KnownInv
<1>. QED
  BY <1>1, <1>2 DEF SInv

-----------------------------------------------------------------------------
(* What the ends of scripts keep. *)

\* A script that ends leaves the types and the invariants about drafts alone.
LEMMA ScriptEnds ==
    ASSUME NEW t \in Tab, TypeOK, EndScript(t)
    PROVE  /\ pc' \in [Tab -> {"idle", "page", "profiles", "queue"}]
           /\ seen' \in [Tab -> [profiles : SUBSET Profile, jobs : LinkMap, busy : BOOLEAN]]
           /\ draft' \in [Tab -> [spec : SpecType, parent : Run \cup {NoRun}]]
           /\ pc'[t] = "idle"
           /\ \A u \in Tab : u # t => pc'[u] = pc[u] /\ draft'[u] = draft[u]
<1>1. NoLinks \in LinkMap /\ NoSpec \in SpecType
  BY DEF NoLinks, NoSpec, LinkMap, SpecType
<1>2. Blank \in [profiles : SUBSET Profile, jobs : LinkMap, busy : BOOLEAN]
  BY <1>1 DEF Blank
<1>3. NoDraft \in [spec : SpecType, parent : Run \cup {NoRun}]
  BY <1>1 DEF NoDraft
<1>. QED
  BY <1>2, <1>3 DEF EndScript, TypeOK

\* A button that is taken uses up its confirmation.
LEMMA TakeSteps ==
    ASSUME NEW t \in Tab, NEW a \in Action, TypeOK, ConfirmedOnce, Take(t, a)
    PROVE  /\ pending' \in [Tab -> Action \cup {NoAction}]
           /\ confirmed' \in [Tab -> Action \cup {NoAction}]
           /\ consent' \in [Tab -> Action \cup {NoAction}]
           /\ ConfirmedOnce'
BY DEF Take, Taken, TypeOK, ConfirmedOnce

\* What a tab knows only becomes less.
LEMMA ForgetSteps ==
    ASSUME NEW t \in Tab, TypeOK, Forget(t)
    PROVE  known' \in [Tab -> SUBSET Source] /\ \A u \in Tab : known'[u] \subseteq known[u]
BY DEF Forget, TypeOK

-----------------------------------------------------------------------------
(* Steps that only end a script, choose or refuse. *)

\* The clicks that open and close dialogs, and the ones that come to nothing.
LEMMA ClickSteps ==
    ASSUME SInv, NEW t \in Tab, NEW a \in Action,
           Leave(t) \/ Ask(t, a) \/ TooLate(t, a) \/ Refused(t)
    PROVE  SInv'
<1>1. EndScript(t)
  BY DEF Leave, Ask, TooLate, Refused
<1>2. UNCHANGED <<storeVars, runVars>>
  BY DEF Leave, Ask, TooLate, Refused, dialogVars, choiceVars
<1>3. known' \in [Tab -> SUBSET Source] /\ \A u \in Tab : known'[u] \subseteq known[u]
  BY ForgetSteps DEF Leave, Ask, TooLate, Refused, dialogVars, SInv, TypeOK
<1>4. /\ pending' \in [Tab -> Action \cup {NoAction}]
      /\ confirmed' \in [Tab -> Action \cup {NoAction}]
      /\ consent' \in [Tab -> Action \cup {NoAction}]
      /\ ConfirmedOnce'
  <2>1. CASE TooLate(t, a)
    BY <2>1, TakeSteps DEF TooLate, SInv
  <2>2. CASE Leave(t) \/ Refused(t)
    BY <2>2 DEF Leave, Refused, dialogVars, choiceVars, SInv, TypeOK, ConfirmedOnce
  <2>3. CASE Ask(t, a)
    BY <2>3 DEF Ask, SInv, TypeOK, ConfirmedOnce
  <2>. QED
    BY <2>1, <2>2, <2>3
<1>5. TypeOK'
  BY <1>1, <1>2, <1>3, <1>4, ScriptEnds DEF SInv, TypeOK, storeVars, runVars
<1>6. RunsAreClosed' /\ KnownInv'
  BY <1>2, <1>3 DEF SInv, RunsAreClosed, KnownInv, storeVars, runVars
<1>7. DraftInv' /\ KnownSourcesAreChecked'
  BY <1>1, <1>3, ScriptEnds DEF SInv, DraftInv, KnownSourcesAreChecked
<1>. QED
  BY <1>4, <1>5, <1>6, <1>7 DEF SInv

\* Drawing reads the store and writes nothing.
LEMMA DrawSteps == ASSUME SInv, NEW t \in Tab, Draw(t) PROVE SInv'
<1>. USE DEF Draw
<1>1. [profiles |-> profile, jobs |-> job, busy |-> Busy]
          \in [profiles : SUBSET Profile, jobs : LinkMap, busy : BOOLEAN]
  <2>1. Busy \in BOOLEAN
    BY DEF Busy
  <2>. QED
    BY <2>1 DEF SInv, TypeOK
<1>2. TypeOK'
  BY <1>1 DEF SInv, TypeOK, storeVars, runVars, dialogVars, choiceVars
<1>3. \A u \in Tab : pc'[u] = "queue" => pc[u] = "queue"
  BY DEF SInv, TypeOK
<1>. QED
  BY <1>2, <1>3 DEF SInv, ConfirmedOnce, RunsAreClosed, KnownSourcesAreChecked, DraftInv, KnownInv,
     storeVars, runVars, dialogVars, choiceVars

\* A confirmation is remembered with the sources of the moment.
LEMMA DialogSteps == ASSUME SInv, NEW t \in Tab, Confirm(t) \/ CancelDialog(t) PROVE SInv'
<1>1. CASE Confirm(t)
  <2>. USE <1>1 DEF Confirm
  <2>1. /\ known' \in [Tab -> SUBSET Source] /\ known'[t] \subseteq profile
        /\ \A u \in Tab : u # t => known'[u] = known[u]
    BY DEF SInv, TypeOK
  <2>2. TypeOK'
    BY <2>1 DEF SInv, TypeOK, storeVars, runVars, scriptVars
  <2>3. ConfirmedOnce'
    BY DEF SInv, TypeOK, ConfirmedOnce
  <2>4. KnownInv' /\ KnownSourcesAreChecked'
    BY <2>1 DEF SInv, KnownInv, KnownSourcesAreChecked, storeVars, scriptVars
  <2>. QED
    BY <2>2, <2>3, <2>4 DEF SInv, RunsAreClosed, DraftInv, runVars, scriptVars
<1>2. CASE CancelDialog(t)
  BY <1>2 DEF CancelDialog, SInv, TypeOK, ConfirmedOnce, RunsAreClosed, KnownSourcesAreChecked,
     DraftInv, KnownInv, storeVars, runVars, scriptVars
<1>. QED
  BY <1>1, <1>2

-----------------------------------------------------------------------------
(* Steps that change the configuration. *)

\* Connections come.
LEMMA SaveProfileSteps == ASSUME SInv, NEW t \in Tab, NEW p \in Profile, SaveProfile(t, p) PROVE SInv'
<1>. USE DEF SaveProfile
<1>1. changes' \in 0..MaxChanges /\ profile' \subseteq Profile
  BY DEF Change, SInv, TypeOK
<1>2. TypeOK'
  BY <1>1, ScriptEnds DEF SInv, TypeOK, runVars, dialogVars, choiceVars
<1>3. DraftInv' /\ KnownSourcesAreChecked'
  BY ScriptEnds DEF SInv, DraftInv, KnownSourcesAreChecked, dialogVars
<1>. QED
  BY <1>2, <1>3 DEF SInv, ConfirmedOnce, RunsAreClosed, KnownInv, runVars, dialogVars, choiceVars

\* Jobs come and change.
LEMMA SaveJobSteps ==
    ASSUME SInv, NEW t \in Tab, NEW j \in Job, NEW l \in Link, SaveJob(t, j, l) PROVE SInv'
<1>. USE DEF SaveJob
<1>1. changes' \in 0..MaxChanges /\ job' \in LinkMap
  BY DEF Change, SInv, TypeOK, LinkMap
<1>2. TypeOK'
  BY <1>1, ScriptEnds DEF SInv, TypeOK, runVars, dialogVars, choiceVars
<1>3. DraftInv' /\ KnownSourcesAreChecked'
  BY ScriptEnds DEF SInv, DraftInv, KnownSourcesAreChecked, dialogVars
<1>. QED
  BY <1>2, <1>3 DEF SInv, ConfirmedOnce, RunsAreClosed, KnownInv, runVars, dialogVars, choiceVars

\* Connections go, and with them what anybody knew of them.
LEMMA DeleteProfileSteps ==
    ASSUME SInv, NEW t \in Tab, NEW p \in Profile, <<"delete_connection", p>> \in Action,
           DeleteProfile(t, p)
    PROVE  SInv'
<1>. USE DEF DeleteProfile
<1>1. changes' \in 0..MaxChanges /\ profile' \subseteq Profile
  BY DEF Change, SInv, TypeOK
<1>2. /\ known' \in [Tab -> SUBSET Source]
      /\ \A u \in Tab : known'[u] \subseteq known[u] /\ known'[u] \subseteq profile'
  <2>1. CASE /\ profile' = profile \ {p}
             /\ known' = [u \in Tab |-> IF u = t THEN {} ELSE known[u] \ {p}]
    BY <2>1 DEF SInv, TypeOK, KnownInv
  <2>2. CASE UNCHANGED profile /\ Forget(t)
    BY <2>2, ForgetSteps DEF SInv, KnownInv
  <2>. QED
    BY <2>1, <2>2
<1>3. /\ pending' \in [Tab -> Action \cup {NoAction}]
      /\ confirmed' \in [Tab -> Action \cup {NoAction}]
      /\ consent' \in [Tab -> Action \cup {NoAction}]
      /\ ConfirmedOnce'
  BY TakeSteps DEF SInv
<1>4. TypeOK'
  BY <1>1, <1>2, <1>3, ScriptEnds DEF SInv, TypeOK, runVars
<1>5. DraftInv' /\ KnownSourcesAreChecked'
  BY <1>2, ScriptEnds DEF SInv, DraftInv, KnownSourcesAreChecked
<1>. QED
  BY <1>2, <1>3, <1>4, <1>5 DEF SInv, RunsAreClosed, KnownInv, runVars

\* Jobs go.
LEMMA DeleteJobSteps ==
    ASSUME SInv, NEW t \in Tab, NEW j \in Job, <<"delete_job", j>> \in Action, DeleteJob(t, j)
    PROVE  SInv'
<1>. USE DEF DeleteJob
<1>1. changes' \in 0..MaxChanges /\ job' \in LinkMap
  <2>1. CASE Change /\ job' = [job EXCEPT ![j] = NoJob]
    BY <2>1 DEF Change, SInv, TypeOK, LinkMap
  <2>2. CASE UNCHANGED <<job, changes>>
    BY <2>2 DEF SInv, TypeOK
  <2>. QED
    BY <2>1, <2>2
<1>2. known' \in [Tab -> SUBSET Source] /\ \A u \in Tab : known'[u] \subseteq known[u]
  BY ForgetSteps DEF SInv
<1>3. /\ pending' \in [Tab -> Action \cup {NoAction}]
      /\ confirmed' \in [Tab -> Action \cup {NoAction}]
      /\ consent' \in [Tab -> Action \cup {NoAction}]
      /\ ConfirmedOnce'
  BY TakeSteps DEF SInv
<1>4. TypeOK'
  BY <1>1, <1>2, <1>3, ScriptEnds DEF SInv, TypeOK, runVars
<1>5. DraftInv' /\ KnownSourcesAreChecked'
  BY <1>2, ScriptEnds DEF SInv, DraftInv, KnownSourcesAreChecked
<1>. QED
  BY <1>2, <1>3, <1>4, <1>5 DEF SInv, RunsAreClosed, KnownInv, runVars

-----------------------------------------------------------------------------
(* Steps that start runs and end them. *)

\* Whether a job is cancelled or read, the confirmation is used up.
LEMMA StartRunSteps == ASSUME SInv, NEW t \in Tab, StartRun(t) PROVE SInv'
<1>1. PICK S \in Choices(t) :
          IF S \subseteq Existing(job)
          THEN /\ pc' = [pc EXCEPT ![t] = "profiles"]
               /\ draft' = [draft EXCEPT ![t] =
                                [NoDraft EXCEPT !.spec = [jobs |-> Chosen(S), profiles |-> {}]]]
               /\ seen' = [seen EXCEPT ![t] = Blank] /\ UNCHANGED known
          ELSE EndScript(t) /\ Forget(t)
  BY DEF StartRun
<1>2. /\ pending' \in [Tab -> Action \cup {NoAction}]
      /\ confirmed' \in [Tab -> Action \cup {NoAction}]
      /\ consent' \in [Tab -> Action \cup {NoAction}]
      /\ ConfirmedOnce'
  <2>1. <<"start", NoRun>> \in Action
    BY DEF Action
  <2>. QED
    BY <2>1, TakeSteps DEF SInv, StartRun
<1>3. UNCHANGED <<storeVars, runVars>>
  BY DEF StartRun
<1>4. /\ known' \in [Tab -> SUBSET Source] /\ \A u \in Tab : known'[u] \subseteq known[u]
      /\ pc' \in [Tab -> {"idle", "page", "profiles", "queue"}]
      /\ seen' \in [Tab -> [profiles : SUBSET Profile, jobs : LinkMap, busy : BOOLEAN]]
      /\ draft' \in [Tab -> [spec : SpecType, parent : Run \cup {NoRun}]]
      /\ pc'[t] # "queue" /\ \A u \in Tab : u # t => pc'[u] = pc[u] /\ draft'[u] = draft[u]
  <2>1. CASE S \subseteq Existing(job)
    <3>1. Chosen(S) \in LinkMap
      BY DEF Chosen, SInv, TypeOK, LinkMap
    <3>2. Blank \in [profiles : SUBSET Profile, jobs : LinkMap, busy : BOOLEAN]
      BY DEF Blank, NoLinks, LinkMap
    <3>3. draft' \in [Tab -> [spec : SpecType, parent : Run \cup {NoRun}]]
      <4>1. [NoDraft EXCEPT !.spec = [jobs |-> Chosen(S), profiles |-> {}]]
                \in [spec : SpecType, parent : Run \cup {NoRun}]
        BY <3>1 DEF NoDraft, SpecType
      <4>. QED
        BY <1>1, <2>1, <4>1 DEF SInv, TypeOK
    <3>4. UNCHANGED known /\ pc' = [pc EXCEPT ![t] = "profiles"] /\ seen' = [seen EXCEPT ![t] = Blank]
          /\ \A u \in Tab : u # t => draft'[u] = draft[u]
      <4>1. draft \in [Tab -> [spec : SpecType, parent : Run \cup {NoRun}]]
        BY DEF SInv, TypeOK
      <4>. QED
        BY <1>1, <2>1, <4>1
    <3>. QED
      BY <3>2, <3>3, <3>4 DEF SInv, TypeOK
  <2>2. CASE ~(S \subseteq Existing(job))
    BY <1>1, <2>2, ScriptEnds, ForgetSteps DEF SInv
  <2>. QED
    BY <2>1, <2>2
<1>5. TypeOK'
  BY <1>2, <1>3, <1>4 DEF SInv, TypeOK, storeVars, runVars
<1>6. DraftInv' /\ KnownSourcesAreChecked'
  BY <1>4 DEF SInv, DraftInv, KnownSourcesAreChecked
<1>. QED
  BY <1>2, <1>3, <1>4, <1>5, <1>6 DEF SInv, RunsAreClosed, KnownInv, storeVars, runVars

\* What build_spec accepts is closed, and has every source the user knew of.
LEMMA BuildSpecSteps == ASSUME SInv, NEW t \in Tab, BuildSpec(t) PROVE SInv'
<1>. DEFINE links == draft[t].spec.jobs
            ok == OneTarget(links)
                  /\ \A j \in Existing(links) : {links[j].source, links[j].target} \subseteq profile
<1>1. UNCHANGED <<storeVars, runVars, choiceVars>> /\ pc[t] = "profiles"
  BY DEF BuildSpec
<1>2. CASE ok
  <2>1. /\ pc' = [pc EXCEPT ![t] = "queue"]
        /\ draft' = [draft EXCEPT ![t].spec.profiles = SpecProfiles(links)]
        /\ UNCHANGED <<seen, known>>
    BY <1>2 DEF BuildSpec
  <2>2. links \in LinkMap /\ draft[t] \in [spec : SpecType, parent : Run \cup {NoRun}]
    BY DEF SInv, TypeOK, SpecType
  <2>3. SpecProfiles(links) \subseteq Profile
    <3>1. \A j \in Existing(links) : {links[j].source, links[j].target} \subseteq Profile
      BY <1>2 DEF SInv, TypeOK
    <3>. QED
      BY <3>1 DEF SpecProfiles, SInv, TypeOK
  <2>4. /\ draft'[t].spec.jobs = links /\ draft'[t].spec.profiles = SpecProfiles(links)
        /\ draft' \in [Tab -> [spec : SpecType, parent : Run \cup {NoRun}]]
    BY <2>1, <2>2, <2>3 DEF SInv, TypeOK, SpecType
  <2>5. Closed(draft'[t].spec)
    <3>1. PICK d \in Target : Targets(links, Existing(links)) = {d}
      BY <1>2 DEF OneTarget
    <3>2. Existing(links) # {} /\ \A j \in Existing(links) : links[j].target = d
      BY <3>1 DEF Targets
    <3>3. \A j \in Existing(links) : {links[j].source, links[j].target} \subseteq SpecProfiles(links)
      BY DEF SpecProfiles
    <3>. QED
      BY <2>4, <3>2, <3>3 DEF Closed
  <2>6. known[t] \subseteq draft'[t].spec.profiles
    BY <2>4 DEF SpecProfiles, SInv, KnownInv, TypeOK
  <2>7. TypeOK'
    BY <1>1, <2>1, <2>4 DEF SInv, TypeOK, storeVars, runVars, choiceVars
  <2>8. DraftInv' /\ KnownSourcesAreChecked'
    BY <2>1, <2>5, <2>6 DEF SInv, TypeOK, DraftInv, KnownSourcesAreChecked
  <2>. QED
    BY <1>1, <2>1, <2>7, <2>8 DEF SInv, ConfirmedOnce, RunsAreClosed, KnownInv, storeVars, runVars, choiceVars
<1>3. CASE ~ok
  <2>1. EndScript(t) /\ Forget(t)
    BY <1>3 DEF BuildSpec
  <2>2. TypeOK'
    BY <1>1, <2>1, ScriptEnds, ForgetSteps DEF SInv, TypeOK, storeVars, runVars, choiceVars
  <2>3. DraftInv' /\ KnownSourcesAreChecked' /\ KnownInv'
    BY <1>1, <2>1, ScriptEnds, ForgetSteps DEF SInv, DraftInv, KnownSourcesAreChecked, KnownInv, storeVars
  <2>. QED
    BY <1>1, <2>2, <2>3 DEF SInv, ConfirmedOnce, RunsAreClosed, runVars, choiceVars
<1>. QED
  BY <1>2, <1>3

\* A retry has the specification of a run that was closed.
LEMMA RetryRunSteps == ASSUME SInv, NEW t \in Tab, NEW r \in Run, RetryRun(t, r) PROVE SInv'
<1>. USE DEF RetryRun
<1>1. <<"retry", r>> \in Action
  BY DEF Action
<1>2. /\ pending' \in [Tab -> Action \cup {NoAction}]
      /\ confirmed' \in [Tab -> Action \cup {NoAction}]
      /\ consent' \in [Tab -> Action \cup {NoAction}]
      /\ ConfirmedOnce'
  BY <1>1, TakeSteps DEF SInv
<1>3. Closed(spec[r])
  BY DEF Take, Rendered, SInv, RunsAreClosed
<1>4. known' \in [Tab -> SUBSET Source] /\ known'[t] = {} /\ \A u \in Tab : known'[u] \subseteq known[u]
  BY DEF Forget, SInv, TypeOK
<1>5. draft' \in [Tab -> [spec : SpecType, parent : Run \cup {NoRun}]] /\ draft'[t].spec = spec[r]
  BY DEF SInv, TypeOK
<1>6. Blank \in [profiles : SUBSET Profile, jobs : LinkMap, busy : BOOLEAN]
  BY DEF Blank, NoLinks, LinkMap
<1>7. TypeOK'
  BY <1>2, <1>4, <1>5, <1>6 DEF SInv, TypeOK, storeVars, runVars
<1>8. DraftInv' /\ KnownSourcesAreChecked'
  BY <1>3, <1>4, <1>5 DEF SInv, TypeOK, DraftInv, KnownSourcesAreChecked
<1>. QED
  BY <1>2, <1>4, <1>7, <1>8 DEF SInv, RunsAreClosed, KnownInv, storeVars, runVars

\* What is queued was drafted.
LEMMA QueueSteps == ASSUME SInv, NEW t \in Tab, NEW r \in Run, Queue(t, r) PROVE SInv'
<1>. USE DEF Queue
<1>1. draft[t] \in [spec : SpecType, parent : Run \cup {NoRun}] /\ Closed(draft[t].spec)
  BY DEF SInv, TypeOK, DraftInv
<1>2. TypeOK'
  BY <1>1, ScriptEnds, ForgetSteps DEF SInv, TypeOK, storeVars, choiceVars
<1>3. RunsAreClosed'
  BY <1>1 DEF SInv, TypeOK, RunsAreClosed
<1>4. DraftInv' /\ KnownSourcesAreChecked' /\ KnownInv'
  BY ScriptEnds, ForgetSteps DEF SInv, DraftInv, KnownSourcesAreChecked, KnownInv, storeVars
<1>. QED
  BY <1>2, <1>3, <1>4 DEF SInv, ConfirmedOnce, choiceVars

\* Runs end.
LEMMA EndRunSteps == ASSUME SInv, NEW r \in Run, EndRun(r) PROVE SInv'
<1>. USE DEF EndRun
<1>1. NoSpec \in SpecType
  BY DEF NoSpec, NoLinks, SpecType, LinkMap
<1>2. TypeOK'
  <2>1. /\ run' \in [Run -> {"absent", "busy", "failed", "success"}]
        /\ spec' \in [Run -> SpecType] /\ parent' \in [Run -> Run \cup {NoRun}]
    <3>1. CASE run' = [run EXCEPT ![r] = "failed"] /\ UNCHANGED <<spec, parent>>
      BY <3>1 DEF SInv, TypeOK
    <3>2. CASE /\ run' = [run EXCEPT ![r] = "success"]
               /\ spec' = [spec EXCEPT ![r] = NoSpec] /\ parent' = [parent EXCEPT ![r] = NoRun]
      BY <1>1, <3>2 DEF SInv, TypeOK
    <3>. QED
      BY <3>1, <3>2
  <2>. QED
    BY <2>1 DEF SInv, TypeOK, storeVars, scriptVars, dialogVars, choiceVars
<1>3. RunsAreClosed'
  BY DEF SInv, TypeOK, RunsAreClosed
<1>. QED
  BY <1>2, <1>3 DEF SInv, ConfirmedOnce, KnownSourcesAreChecked, DraftInv, KnownInv,
     storeVars, scriptVars, dialogVars, choiceVars

-----------------------------------------------------------------------------

\* The inductive invariant of tabs, dialogs, configuration and runs.
THEOREM ScreensInductive == Spec => []SInv
<1>1. SInv /\ [Next]_vars => SInv'
  <2>. SUFFICES ASSUME SInv, [Next]_vars PROVE SInv'
    OBVIOUS
  <2>1. CASE UNCHANGED vars
    BY <2>1 DEF vars, storeVars, runVars, scriptVars, dialogVars, choiceVars, SInv, TypeOK, ConfirmedOnce,
       RunsAreClosed, KnownSourcesAreChecked, DraftInv, KnownInv
  <2>2. CASE Next
    <3>1. ASSUME NEW t \in Tab, Draw(t) \/ Confirm(t) \/ CancelDialog(t) PROVE SInv'
      BY <3>1, DrawSteps, DialogSteps
    <3>2. ASSUME NEW t \in Tab, Leave(t) \/ Refused(t) PROVE SInv'
      <4>1. <<"start", NoRun>> \in Action
        BY DEF Action
      <4>. QED
        BY <3>2, <4>1, ClickSteps
    <3>3. ASSUME NEW t \in Tab, NEW a \in Action, Ask(t, a) \/ TooLate(t, a) PROVE SInv'
      BY <3>3, ClickSteps
    <3>4. ASSUME NEW t \in Tab,
                 \/ \E p \in Profile : SaveProfile(t, p)
                 \/ \E p \in Profile \cap Deletable : DeleteProfile(t, p)
          PROVE  SInv'
      <4>1. \A p \in Profile \cap Deletable : <<"delete_connection", p>> \in Action
        BY DEF Action
      <4>. QED
        BY <3>4, <4>1, SaveProfileSteps, DeleteProfileSteps
    <3>5. ASSUME NEW t \in Tab,
                 \/ \E j \in Job, l \in Link : SaveJob(t, j, l)
                 \/ \E j \in Job \cap Deletable : DeleteJob(t, j)
          PROVE  SInv'
      <4>1. \A j \in Job \cap Deletable : <<"delete_job", j>> \in Action
        BY DEF Action
      <4>. QED
        BY <3>5, <4>1, SaveJobSteps, DeleteJobSteps
    <3>6. ASSUME NEW t \in Tab, StartRun(t) \/ BuildSpec(t) PROVE SInv'
      BY <3>6, StartRunSteps, BuildSpecSteps
    <3>7. ASSUME NEW t \in Tab, NEW r \in Run, RetryRun(t, r) \/ Queue(t, r) PROVE SInv'
      BY <3>7, RetryRunSteps, QueueSteps
    <3>8. ASSUME NEW r \in Run, EndRun(r) PROVE SInv'
      BY <3>8, EndRunSteps
    <3>. QED
      BY <2>2, <3>1, <3>2, <3>3, <3>4, <3>5, <3>6, <3>7, <3>8 DEF Next
  <2>. QED
    BY <2>1, <2>2
<1>. QED
  BY <1>1, InitSInv, PTL DEF Spec

\* Whatever other tabs change while a start is confirmed and read, the tables of a
\* run have one target, and it carries their connections.
THEOREM ClosedRuns == Spec => []RunsAreClosed
<1>1. SInv => RunsAreClosed
  BY DEF SInv
<1>. QED
  BY <1>1, ScreensInductive, PTL

\* A start carries every source that its user can have known of.
THEOREM SourcesAreCarried == Spec => []KnownSourcesAreChecked
<1>1. SInv => KnownSourcesAreChecked
  BY DEF SInv
<1>. QED
  BY <1>1, ScreensInductive, PTL

\* No confirmation is used twice.
THEOREM Confirmations == Spec => []ConfirmedOnce
<1>1. SInv => ConfirmedOnce
  BY DEF SInv
<1>. QED
  BY <1>1, ScreensInductive, PTL

\* The configuration stays as it is while a run is busy.
THEOREM Frozen == Spec => FrozenWhileBusy
<1>1. [Next]_vars => [Busy => UNCHANGED <<profile, job>>]_vars
  <2>. SUFFICES ASSUME Next, Busy PROVE UNCHANGED <<profile, job>>
    BY DEF vars, storeVars
  <2>1. ASSUME NEW t \in Tab,
               \/ Draw(t) \/ Leave(t) \/ Confirm(t) \/ CancelDialog(t) \/ Refused(t)
               \/ StartRun(t) \/ BuildSpec(t) \/ (\E a \in Action : Ask(t, a) \/ TooLate(t, a))
        PROVE  UNCHANGED <<profile, job>>
    BY <2>1 DEF Draw, Leave, Confirm, CancelDialog, Refused, Ask, TooLate, StartRun, BuildSpec, storeVars
  <2>2. ASSUME NEW t \in Tab,
               \/ \E p \in Profile : SaveProfile(t, p)
               \/ \E p \in Profile \cap Deletable : DeleteProfile(t, p)
               \/ \E j \in Job, l \in Link : SaveJob(t, j, l)
               \/ \E j \in Job \cap Deletable : DeleteJob(t, j)
        PROVE  UNCHANGED <<profile, job>>
    BY <2>2 DEF SaveProfile, SaveJob, DeleteProfile, DeleteJob, MayChange
  <2>3. ASSUME NEW r \in Run, (\E t \in Tab : RetryRun(t, r) \/ Queue(t, r)) \/ EndRun(r)
        PROVE  UNCHANGED <<profile, job>>
    BY <2>3 DEF RetryRun, Queue, EndRun, storeVars
  <2>. QED
    BY <2>1, <2>2, <2>3 DEF Next
<1>. QED
  BY <1>1, PTL DEF Spec, FrozenWhileBusy
=============================================================================
