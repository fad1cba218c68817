---------------------------- MODULE SourceMutex ----------------------------
(***************************************************************************)
(* Who reads from a source server, and when (snapshot/db.py: Source,       *)
(* check_target_isolation; snapshot/engine.py: Engine.target, execute,     *)
(* extract; app.py: the pages that connect).  Every connection to a source *)
(* takes the mutex of its server with GET_LOCK(name, 0); the server gives  *)
(* it back when the session ends, which is later than the client's close.  *)
(* Before anything is written to the target every source is visited.       *)
(***************************************************************************)
EXTENDS Naturals, FiniteSets

CONSTANTS Worker, Screen, Profile, Server, Socket, NoSession, NoServer, NoProfile,
          MaxReads    \* bounds the queries of one visit

Client == Worker \cup Screen
Session == Client \X Socket
Purpose == {"prepare", "load", "drop", "compare", "cleanup"}

ASSUME SourceMutexAssumption ==
    /\ NoSession \notin Session /\ NoServer \notin Server /\ NoProfile \notin Profile
    /\ MaxReads \in Nat

VARIABLES
    at,         \* the server behind a profile
    targetAt,   \* the server behind the target profile
    server,     \* where a session is, NoServer when there is none
    phase,      \* of a session: open, closing (the client is gone), lost (the server is gone)
    busy,       \* the server executes a query of the session
    holder,     \* who has the mutex of a server
    conn,       \* the Source of a client
    granted,    \* GET_LOCK returned 1
    reads,      \* queries of this Source
    pc,         \* idle, check, schema, extract, list, write
    purpose,    \* what the target connection is for
    unchecked,  \* check_target_isolation: profiles still to visit
    want        \* the profile that is visited

placeVars == <<at, targetAt>>
serverVars == <<server, phase, busy, holder>>
connVars == <<conn, granted, reads>>
taskVars == <<pc, purpose, unchecked, want>>
vars == <<placeVars, serverVars, connVars, taskVars>>

Init ==
    /\ at \in [Profile -> Server] /\ targetAt \in Server
    /\ server = [s \in Session |-> NoServer] /\ phase = [s \in Session |-> "open"]
    /\ busy = [s \in Session |-> FALSE] /\ holder = [m \in Server |-> NoSession]
    /\ conn = [c \in Client |-> NoSession] /\ granted = [c \in Client |-> FALSE]
    /\ reads = [c \in Client |-> 0]
    /\ pc = [c \in Client |-> "idle"] /\ purpose = [c \in Client |-> "drop"]
    /\ unchecked = [c \in Client |-> {}] /\ want = [c \in Client |-> NoProfile]

-----------------------------------------------------------------------------
(* One Source: __init__, queries, close. *)

\* A profile of a job, or the next one to be checked; reopened, the same again.
Choice(c) ==
    IF want[c] # NoProfile THEN {want[c]} ELSE IF pc[c] = "check" THEN unchecked[c] ELSE Profile

Connect(c) ==
    /\ pc[c] \in {"check", "schema", "extract", "list"} /\ conn[c] = NoSession
    /\ \E p \in Choice(c), s \in {c} \X Socket :
        /\ server[s] = NoServer
        /\ server' = [server EXCEPT ![s] = at[p]] /\ phase' = [phase EXCEPT ![s] = "open"]
        /\ conn' = [conn EXCEPT ![c] = s] /\ want' = [want EXCEPT ![c] = p]
    /\ UNCHANGED <<placeVars, busy, holder, granted, reads, pc, purpose, unchecked>>

HangUp(c) ==
    /\ conn' = [conn EXCEPT ![c] = NoSession] /\ granted' = [granted EXCEPT ![c] = FALSE]
    /\ reads' = [reads EXCEPT ![c] = 0]

\* The client's side of a connection is gone at once.
Disconnect(c) ==
    /\ HangUp(c)
    /\ server' = [s \in Session |-> IF s = conn[c] /\ phase[s] = "lost" THEN NoServer ELSE server[s]]
    /\ phase' = [s \in Session |-> IF s # conn[c] THEN phase[s]
                                   ELSE IF phase[s] = "lost" THEN "open" ELSE "closing"]

\* Mutant: the exception leaves the connection open.
Forget(c) == HangUp(c) /\ UNCHANGED <<server, phase>>

\* src.close() in every finally and except block.
Abandon(c) == Disconnect(c)

\* The worker goes to its finally block, which opens the target once more; a page ends.
Unwind(c) ==
    LET again == c \in Worker /\ purpose[c] # "drop" IN
        /\ pc' = [pc EXCEPT ![c] = IF again THEN "check" ELSE "idle"]
        /\ purpose' = [purpose EXCEPT ![c] = "drop"]
        /\ unchecked' = [unchecked EXCEPT ![c] = IF again THEN Profile ELSE {}]
        /\ want' = [want EXCEPT ![c] = NoProfile]

\* A query fails, EXPLAIN, an answer is late, Galera is on, the same server, a cancel ...
Raise(c) ==
    /\ pc[c] # "idle"
    /\ Abandon(c) /\ Unwind(c)
    /\ UNCHANGED <<placeVars, busy, holder>>

\* Mutant: the answer of GET_LOCK is not looked at.
AnyAnswer(c) == TRUE

LockAnswer(c) == holder[server[conn[c]]] = NoSession

\* GET_LOCK returned 1; a 0 is an exception (Raise) that nobody retries.
GetLock(c) ==
    /\ conn[c] # NoSession /\ ~granted[c] /\ phase[conn[c]] = "open" /\ LockAnswer(c)
    /\ granted' = [granted EXCEPT ![c] = TRUE]
    /\ holder' = [holder EXCEPT ![server[conn[c]]] = IF @ = NoSession THEN conn[c] ELSE @]
    /\ UNCHANGED <<placeVars, server, phase, busy, conn, reads, taskVars>>

Query(c) ==
    /\ granted[c] /\ phase[conn[c]] = "open" /\ ~busy[conn[c]] /\ reads[c] < MaxReads
    /\ busy' = [busy EXCEPT ![conn[c]] = TRUE] /\ reads' = [reads EXCEPT ![c] = @ + 1]
    /\ UNCHANGED <<placeVars, server, phase, holder, conn, granted, taskVars>>

Answered(c) == granted[c] /\ phase[conn[c]] = "open" /\ ~busy[conn[c]] /\ reads[c] > 0

\* extract: a connection that would idle too long is closed and opened again.
Reopen(c) ==
    /\ pc[c] = "extract" /\ Answered(c)
    /\ Disconnect(c)
    /\ UNCHANGED <<placeVars, busy, holder, taskVars>>

-----------------------------------------------------------------------------
(* The source server. *)

Answer(s) ==
    /\ busy[s]
    /\ busy' = [busy EXCEPT ![s] = FALSE]
    /\ UNCHANGED <<placeVars, server, phase, holder, connVars, taskVars>>

\* Mutant: a session whose client is gone gives the mutex back while its query runs.
AtOnce(s) == TRUE

Settled(s) == ~busy[s]

Release(s) == holder' = [m \in Server |-> IF holder[m] = s THEN NoSession ELSE holder[m]]

\* The server notices the end of a session between two queries.
EndSession(s) ==
    /\ server[s] # NoServer /\ phase[s] = "closing" /\ Settled(s)
    /\ server' = [server EXCEPT ![s] = NoServer] /\ phase' = [phase EXCEPT ![s] = "open"]
    /\ Release(s)
    /\ UNCHANGED <<placeVars, busy, connVars, taskVars>>

\* Mutant: the session keeps the wait_timeout of the server, eight hours.
Patient(s) == FALSE

Idle(s) == server[s] # NoServer /\ phase[s] = "open" /\ ~busy[s]

\* wait_timeout = 30: an idle session is ended by the server.
TimeOut(s) ==
    /\ Idle(s)
    /\ phase' = [phase EXCEPT ![s] = "lost"] /\ Release(s)
    /\ UNCHANGED <<placeVars, server, busy, connVars, taskVars>>

-----------------------------------------------------------------------------
(* What the visits are for. *)

\* Engine.target: a fresh target connection, every source to be visited.
OpenTarget(c, p) ==
    /\ pc' = [pc EXCEPT ![c] = "check"] /\ purpose' = [purpose EXCEPT ![c] = p]
    /\ unchecked' = [unchecked EXCEPT ![c] = Profile] /\ want' = [want EXCEPT ![c] = NoProfile]

Enter(c, label) ==
    /\ pc' = [pc EXCEPT ![c] = label] /\ want' = [want EXCEPT ![c] = NoProfile]
    /\ UNCHANGED unchecked

\* Engine.retry: a lost connection begins with the target again, or with the source of
\* the job; what extract, prepare and publish lose is not tried again.
Retry(c) ==
    /\ c \in Worker /\ Abandon(c)
    /\ \/ /\ pc[c] = "check" \/ (pc[c] = "write" /\ purpose[c] = "load")
          /\ purpose[c] # "drop" /\ OpenTarget(c, purpose[c])
       \/ pc[c] = "schema" /\ UNCHANGED taskVars
    /\ UNCHANGED <<placeVars, busy, holder>>

Running(w) == pc[w] # "idle" /\ purpose[w] # "drop"
NoneRunning == \A w \in Worker : ~Running(w)

StartRun(w) ==
    /\ pc[w] = "idle" /\ NoneRunning
    /\ OpenTarget(w, "prepare")
    /\ UNCHANGED <<placeVars, serverVars, connVars>>

\* The comparison connects whenever it is drawn, a cleanup only when no run is active.
OpenPage(c) ==
    /\ pc[c] = "idle"
    /\ OpenTarget(c, "compare") \/ (NoneRunning /\ OpenTarget(c, "cleanup"))
    /\ UNCHANGED <<placeVars, serverVars, connVars>>

\* The list of tables, or the test of a source connection.
ListTables(c) ==
    /\ pc[c] = "idle" /\ NoneRunning
    /\ Enter(c, "list") /\ UNCHANGED purpose
    /\ UNCHANGED <<placeVars, serverVars, connVars>>

\* Mutant: the server is not compared, only its address, which can be written in two ways.
SameName(c) == FALSE

SameServer(c) == at[want[c]] = targetAt

\* assert_distinct, then src.close().
Checked(c) ==
    /\ pc[c] = "check" /\ Answered(c) /\ ~SameServer(c)
    /\ unchecked' = [unchecked EXCEPT ![c] = @ \ {want[c]}]
    /\ want' = [want EXCEPT ![c] = NoProfile]
    /\ Disconnect(c)
    /\ UNCHANGED <<placeVars, busy, holder, pc, purpose>>

\* All sources are visited: select_db, and on to what the connection is for.
TargetReady(c) ==
    /\ pc[c] = "check" /\ unchecked[c] = {} /\ conn[c] = NoSession
    /\ Enter(c, CASE purpose[c] = "prepare" -> "schema"
                  [] purpose[c] = "compare" -> "idle"
                  [] OTHER -> "write")
    /\ purpose' = IF purpose[c] = "compare" THEN [purpose EXCEPT ![c] = "drop"] ELSE purpose
    /\ UNCHANGED <<placeVars, serverVars, connVars>>

\* The schema of a job is read, the next job follows or the tables are prepared.
LeaveSchema(c) ==
    /\ pc[c] = "schema" /\ Answered(c)
    /\ Disconnect(c)
    /\ Enter(c, "schema") \/ Enter(c, "write")
    /\ UNCHANGED <<placeVars, busy, holder, purpose>>

\* A table is extracted; load opens the target once more.
LeaveExtract(c) ==
    /\ pc[c] = "extract" /\ Answered(c)
    /\ Disconnect(c) /\ OpenTarget(c, "load")
    /\ UNCHANGED <<placeVars, busy, holder>>

LeaveList(c) ==
    /\ pc[c] = "list" /\ Answered(c)
    /\ Disconnect(c) /\ Enter(c, "idle")
    /\ UNCHANGED <<placeVars, busy, holder, purpose>>

\* prepare, load, publish, DROP: then the next table, which is extracted or loaded from
\* a completed file of an earlier run, the finally block, or the end.
Write(c) ==
    /\ pc[c] = "write"
    /\ \/ /\ c \in Worker /\ purpose[c] # "drop"
          /\ \/ Enter(c, "extract") /\ UNCHANGED purpose
             \/ OpenTarget(c, "load")
       \/ Unwind(c)
    /\ UNCHANGED <<placeVars, serverVars, connVars>>

\* The process is gone; its sockets are closed for it.
Kill(w) ==
    /\ pc[w] # "idle"
    /\ Disconnect(w)
    /\ pc' = [pc EXCEPT ![w] = "idle"] /\ purpose' = [purpose EXCEPT ![w] = "drop"]
    /\ unchecked' = [unchecked EXCEPT ![w] = {}] /\ want' = [want EXCEPT ![w] = NoProfile]
    /\ UNCHANGED <<placeVars, busy, holder>>

Step(c) ==
    \/ Connect(c) \/ GetLock(c) \/ Query(c) \/ Reopen(c) \/ Raise(c)
    \/ Retry(c) \/ Checked(c) \/ TargetReady(c)
    \/ LeaveSchema(c) \/ LeaveExtract(c) \/ LeaveList(c) \/ Write(c)

Next ==
    \/ \E c \in Client : Step(c)
    \/ \E w \in Worker : StartRun(w) \/ Kill(w)
    \/ \E u \in Screen : OpenPage(u) \/ ListTables(u)
    \/ \E s \in Session : Answer(s) \/ EndSession(s) \/ TimeOut(s)

\* Only the servers are fair: they answer within max_statement_time, notice ended
\* connections, and end idle ones.  Clients may hang.
Fairness ==
    \A s \in Session : WF_vars(Answer(s)) /\ WF_vars(EndSession(s)) /\ WF_vars(TimeOut(s))

Spec == Init /\ [][Next]_vars
FairSpec == Spec /\ Fairness

-----------------------------------------------------------------------------
TypeOK ==
    /\ at \in [Profile -> Server] /\ targetAt \in Server
    /\ server \in [Session -> Server \cup {NoServer}]
    /\ phase \in [Session -> {"open", "closing", "lost"}]
    /\ busy \in [Session -> BOOLEAN] /\ holder \in [Server -> Session \cup {NoSession}]
    /\ conn \in [Client -> Session \cup {NoSession}] /\ granted \in [Client -> BOOLEAN]
    /\ reads \in [Client -> 0..MaxReads]
    /\ pc \in [Client -> {"idle", "check", "schema", "extract", "list", "write"}]
    /\ purpose \in [Client -> Purpose] /\ unchecked \in [Client -> SUBSET Profile]
    /\ want \in [Client -> Profile \cup {NoProfile}]

\* README.md: a source server executes one query of the application at a time, also
\* when the client of the last one timed out, was killed or was taken for dead.
OneReader ==
    \A s, t \in Session : busy[s] /\ busy[t] /\ server[s] = server[t] => s = t

\* No exception and no early return leaves a mutex with a connection nobody closes.
NoOrphanedMutex ==
    \A m \in Server, s \in Session :
        holder[m] = s => phase[s] = "closing" \/ (phase[s] = "open" /\ conn[s[1]] = s)

\* Nothing is written to a server that one of the registered sources is on, though
\* every visit to a source may be refused, fail or lose its connection.
SourcesAreNotWritten ==
    \A c \in Client : pc[c] = "write" => \A p \in Profile : at[p] # targetAt

\* Whatever the clients do, the mutex comes back.
MutexIsReturned ==
    \A s \in Session : (\E m \in Server : holder[m] = s) ~> (\A m \in Server : holder[m] # s)

-----------------------------------------------------------------------------
(* The inductive invariant. *)

\* A query runs under the mutex of its server; a session that is over is nobody's.
SessionInv ==
    \A s \in Session :
        /\ busy[s] => server[s] # NoServer /\ phase[s] # "lost" /\ holder[server[s]] = s
        /\ server[s] = NoServer => phase[s] = "open" /\ conn[s[1]] # s

\* The mutex of a server is with one of its sessions that can still give it back.
HolderInv ==
    \A m \in Server, s \in Session :
        holder[m] = s =>
            server[s] = m /\ (phase[s] = "closing" \/ (phase[s] = "open" /\ conn[s[1]] = s))

\* A client that was granted the mutex has it, until the server ends the session.
ClientInv ==
    \A c \in Client :
        /\ granted[c] => /\ conn[c] # NoSession
                         /\ phase[conn[c]] = "open" => holder[server[conn[c]]] = conn[c]
        /\ conn[c] # NoSession => /\ conn[c][1] = c /\ want[c] # NoProfile
                                  /\ pc[c] \notin {"idle", "write"}
                                  /\ phase[conn[c]] \in {"open", "lost"}

\* Past the visits the target shares its server with no source.
CheckInv ==
    \A c \in Client, p \in Profile :
        \/ pc[c] = "check" /\ p \in unchecked[c]
        \/ pc[c] \in {"idle", "list"}
        \/ at[p] # targetAt

MInv == TypeOK /\ SessionInv /\ HolderInv /\ ClientInv /\ CheckInv
=============================================================================
