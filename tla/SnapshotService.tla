-------------------------- MODULE SnapshotService --------------------------
(***************************************************************************)
(* What the application promises of its runs, and nothing of how: one run  *)
(* is open at a time; a full run replaces the rows of its date in all the  *)
(* tables in one step, at most once and only while it is open; it is then  *)
(* reported as a success, and as a failure only if it replaced nothing.    *)
(***************************************************************************)
CONSTANTS Run, NoRun, Date, DateOf, FullRun

VARIABLES
    outcome,  \* "none", "open", "replaced" (open, rows in place), "success", "failure"
    content   \* content[d]: the run whose rows all the tables hold for date d

Init ==
    /\ outcome = [r \in Run |-> "none"]
    /\ content = [d \in Date |-> NoRun]

IsOpen(r) == outcome[r] \in {"open", "replaced"}

Request(r) ==
    /\ outcome[r] = "none"
    /\ \A s \in Run : ~IsOpen(s)
    /\ outcome' = [outcome EXCEPT ![r] = "open"]
    /\ UNCHANGED content

ReplaceRows(r) ==
    /\ r \in FullRun
    /\ outcome[r] = "open"
    /\ outcome' = [outcome EXCEPT ![r] = "replaced"]
    /\ content' = [content EXCEPT ![DateOf[r]] = r]

ReportSuccess(r) ==
    /\ outcome[r] = IF r \in FullRun THEN "replaced" ELSE "open"
    /\ outcome' = [outcome EXCEPT ![r] = "success"]
    /\ UNCHANGED content

ReportFailure(r) ==
    /\ outcome[r] = "open"
    /\ outcome' = [outcome EXCEPT ![r] = "failure"]
    /\ UNCHANGED content

Next == \E r \in Run : Request(r) \/ ReplaceRows(r) \/ ReportSuccess(r) \/ ReportFailure(r)

vars == <<outcome, content>>

Spec == Init /\ [][Next]_vars
=============================================================================
