------------------------ MODULE SourceMutexTheorems ------------------------
(***************************************************************************)
(* MInv is inductive: closing a connection and moving on without one are   *)
(* lemmas; the connection's own steps and those of the server have one     *)
(* each.  Mutual exclusion and the isolation of the target follow.         *)
(***************************************************************************)
EXTENDS SourceMutex, TLAPS

\* A session is named by its client and a socket.
LEMMA Sessions == /\ \A s \in Session : s[1] \in Client /\ s # NoSession
                  /\ \A c \in Client, k \in Socket : <<c, k>> \in Session /\ <<c, k>>[1] = c
  BY SourceMutexAssumption DEF Session

-----------------------------------------------------------------------------
(* Typing. *)

\* What a client is doing is typed after each of the ways in which it moves on.
LEMMA TaskTyped ==
  ASSUME MInv, NEW c \in Client, NEW l \in {"idle", "check", "schema", "extract", "list", "write"},
         NEW p \in Purpose
  PROVE /\ OpenTarget(c, p) =>
             /\ pc' \in [Client -> {"idle", "check", "schema", "extract", "list", "write"}]
             /\ purpose' \in [Client -> Purpose] /\ unchecked' \in [Client -> SUBSET Profile]
             /\ want' \in [Client -> Profile \cup {NoProfile}]
        /\ Unwind(c) =>
             /\ pc' \in [Client -> {"idle", "check", "schema", "extract", "list", "write"}]
             /\ purpose' \in [Client -> Purpose] /\ unchecked' \in [Client -> SUBSET Profile]
             /\ want' \in [Client -> Profile \cup {NoProfile}]
        /\ Enter(c, l) =>
             /\ pc' \in [Client -> {"idle", "check", "schema", "extract", "list", "write"}]
             /\ unchecked' \in [Client -> SUBSET Profile]
             /\ want' \in [Client -> Profile \cup {NoProfile}]
<1>1. ASSUME OpenTarget(c, p)
      PROVE /\ pc' \in [Client -> {"idle", "check", "schema", "extract", "list", "write"}]
            /\ purpose' \in [Client -> Purpose] /\ unchecked' \in [Client -> SUBSET Profile]
            /\ want' \in [Client -> Profile \cup {NoProfile}]
  BY <1>1 DEF MInv, TypeOK, OpenTarget
<1>2. ASSUME Unwind(c)
      PROVE /\ pc' \in [Client -> {"idle", "check", "schema", "extract", "list", "write"}]
            /\ purpose' \in [Client -> Purpose] /\ unchecked' \in [Client -> SUBSET Profile]
            /\ want' \in [Client -> Profile \cup {NoProfile}]
  BY <1>2 DEF MInv, TypeOK, Unwind, Purpose
<1>3. ASSUME Enter(c, l)
      PROVE /\ pc' \in [Client -> {"idle", "check", "schema", "extract", "list", "write"}]
            /\ unchecked' \in [Client -> SUBSET Profile]
            /\ want' \in [Client -> Profile \cup {NoProfile}]
  BY <1>3 DEF MInv, TypeOK, Enter
<1>. QED
  BY <1>1, <1>2, <1>3

\* Whatever a client does next, it forgets no visit that is due and none of another client.
LEMMA TaskChecked ==
  ASSUME MInv, NEW c \in Client, NEW l \in {"idle", "check", "schema", "extract", "list", "write"},
         NEW p \in Purpose, UNCHANGED placeVars,
         \/ OpenTarget(c, p)
         \/ Unwind(c)
         \/ Enter(c, l) /\ (l \in {"idle", "list"} \/ pc[c] \in {"schema", "extract", "write"}
                              \/ (pc[c] = "check" /\ unchecked[c] = {}))
  PROVE CheckInv' /\ \A d \in Client \ {c} : want'[d] = want[d] /\ pc'[d] = pc[d]
<1>1. CASE OpenTarget(c, p)
  BY <1>1 DEF MInv, TypeOK, CheckInv, OpenTarget, placeVars
<1>2. CASE Unwind(c)
  BY <1>2 DEF MInv, TypeOK, CheckInv, Unwind, placeVars
<1>3. CASE Enter(c, l) /\ (l \in {"idle", "list"} \/ pc[c] \in {"schema", "extract", "write"}
                              \/ (pc[c] = "check" /\ unchecked[c] = {}))
  BY <1>3 DEF MInv, TypeOK, CheckInv, Enter, placeVars
<1>. QED
  BY <1>1, <1>2, <1>3

-----------------------------------------------------------------------------
(* Connections. *)

ConnTyped ==
  /\ server \in [Session -> Server \cup {NoServer}]
  /\ phase \in [Session -> {"open", "closing", "lost"}]
  /\ conn \in [Client -> Session \cup {NoSession}] /\ granted \in [Client -> BOOLEAN]
  /\ reads \in [Client -> 0..MaxReads]

\* The close of a connection leaves its session, and the mutex, to the server.
LEMMA DisconnectKeeps ==
  ASSUME MInv, NEW c \in Client, Disconnect(c), UNCHANGED <<busy, holder>>,
         \A d \in Client \ {c} : want'[d] = want[d] /\ pc'[d] = pc[d]
  PROVE ConnTyped' /\ SessionInv' /\ HolderInv' /\ ClientInv'
<1>. USE DEF MInv, TypeOK, Disconnect, HangUp
<1>1. ConnTyped'
  BY SourceMutexAssumption DEF ConnTyped
<1>2. \A d \in Client : d # c => conn'[d] = conn[d] /\ granted'[d] = granted[d]
  OBVIOUS
<1>3. conn'[c] = NoSession /\ granted'[c] = FALSE
  OBVIOUS
<1>4. \A s \in Session : s # conn[c] => server'[s] = server[s] /\ phase'[s] = phase[s]
  OBVIOUS
<1>5. ASSUME NEW s \in Session, s = conn[c]
      PROVE /\ s[1] = c
            /\ phase[s] = "open" => phase'[s] = "closing" /\ server'[s] = server[s]
            /\ phase[s] = "lost" => phase'[s] = "open" /\ server'[s] = NoServer
            /\ phase[s] \in {"open", "lost"}
  BY <1>5, Sessions DEF ClientInv
<1>. HIDE DEF Disconnect, HangUp
<1>6. SessionInv'
  BY <1>2, <1>3, <1>4, <1>5, Sessions DEF SessionInv
<1>7. HolderInv'
  BY <1>2, <1>3, <1>4, <1>5, Sessions DEF HolderInv
<1>8. ClientInv'
  <2>. SUFFICES ASSUME NEW d \in Client, d # c, conn[d] # NoSession
                PROVE /\ granted[d] /\ phase'[conn[d]] = "open" => holder[server'[conn[d]]] = conn[d]
                      /\ conn[d][1] = d /\ want[d] # NoProfile /\ pc[d] \notin {"idle", "write"}
                      /\ phase'[conn[d]] \in {"open", "lost"}
    BY <1>2, <1>3 DEF ClientInv
  <2>1. conn[d] \in Session /\ conn[d][1] = d
    BY DEF ClientInv
  <2>2. conn[d] # conn[c]
    BY <2>1 DEF ClientInv
  <2>. QED
    BY <2>1, <2>2, <1>4 DEF ClientInv
<1>. QED
  BY <1>1, <1>6, <1>7, <1>8

\* A client without a connection may do anything that needs none.
LEMMA QuietKeeps ==
  ASSUME MInv, NEW c \in Client, conn[c] = NoSession, UNCHANGED <<serverVars, connVars>>,
         \A d \in Client \ {c} : want'[d] = want[d] /\ pc'[d] = pc[d]
  PROVE ConnTyped' /\ SessionInv' /\ HolderInv' /\ ClientInv'
  BY DEF MInv, TypeOK, ConnTyped, SessionInv, HolderInv, ClientInv, serverVars, connVars

\* A client that is idle or writes has no connection to a source.
LEMMA NoConnection ==
  ASSUME MInv, NEW c \in Client, pc[c] \in {"idle", "write"} PROVE conn[c] = NoSession
  BY DEF MInv, ClientInv

-----------------------------------------------------------------------------
(* The steps of a client that close its connection, or need none. *)

TaskTyping ==
  /\ at \in [Profile -> Server] /\ targetAt \in Server
  /\ pc \in [Client -> {"idle", "check", "schema", "extract", "list", "write"}]
  /\ purpose \in [Client -> Purpose] /\ unchecked \in [Client -> SUBSET Profile]
  /\ want \in [Client -> Profile \cup {NoProfile}]

\* The invariant in two halves: connections and tasks.
LEMMA Halves ==
  ASSUME ConnTyped', SessionInv', HolderInv', ClientInv', TaskTyping', CheckInv',
         (busy \in [Session -> BOOLEAN] /\ holder \in [Server -> Session \cup {NoSession}])'
  PROVE MInv'
  BY DEF MInv, TypeOK, ConnTyped, TaskTyping

LEMMA ClosingSteps ==
  ASSUME MInv, NEW c \in Client,
         Raise(c) \/ Reopen(c) \/ Retry(c) \/ Checked(c) \/ LeaveSchema(c) \/ LeaveExtract(c) \/ LeaveList(c)
  PROVE MInv'
<1>. USE DEF placeVars
<1>1. Disconnect(c) /\ UNCHANGED <<placeVars, busy, holder>>
  BY DEF Raise, Reopen, Retry, Checked, LeaveSchema, LeaveExtract, LeaveList, Abandon
<1>2. TaskTyping' /\ CheckInv' /\ \A d \in Client \ {c} : want'[d] = want[d] /\ pc'[d] = pc[d]
  <2>1. CASE Raise(c)
    BY <2>1, TaskTyped, TaskChecked DEF Raise, TaskTyping, MInv, TypeOK, Purpose
  <2>2. CASE UNCHANGED taskVars
    BY <1>1, <2>2 DEF TaskTyping, MInv, TypeOK, taskVars, CheckInv
  <2>3. CASE \E p \in Purpose : OpenTarget(c, p)
    BY <1>1, <2>3, TaskTyped, TaskChecked DEF TaskTyping, MInv, TypeOK
  <2>4. CASE Checked(c)
    <3>1. want[c] \in Profile /\ at[want[c]] # targetAt
      BY <2>4 DEF Checked, Answered, SameServer, MInv, TypeOK, ClientInv
    <3>2. CheckInv'
      BY <2>4, <3>1 DEF Checked, MInv, TypeOK, CheckInv
    <3>3. TaskTyping' /\ \A d \in Client \ {c} : want'[d] = want[d] /\ pc'[d] = pc[d]
      BY <2>4 DEF Checked, MInv, TypeOK, TaskTyping
    <3>. QED
      BY <3>2, <3>3
  <2>5. CASE LeaveSchema(c)
    BY <2>5, TaskTyped, TaskChecked DEF LeaveSchema, TaskTyping, MInv, TypeOK, Purpose
  <2>6. CASE LeaveList(c)
    BY <2>6, TaskTyped, TaskChecked DEF LeaveList, TaskTyping, MInv, TypeOK, Purpose
  <2>7. Reopen(c) \/ Retry(c) => UNCHANGED taskVars \/ \E p \in Purpose : OpenTarget(c, p)
    BY DEF Reopen, Retry, MInv, TypeOK
  <2>8. LeaveExtract(c) => OpenTarget(c, "load") /\ "load" \in Purpose
    BY DEF LeaveExtract, Purpose
  <2>. QED
    BY <2>1, <2>2, <2>3, <2>4, <2>5, <2>6, <2>7, <2>8
<1>3. ConnTyped' /\ SessionInv' /\ HolderInv' /\ ClientInv'
  BY <1>1, <1>2, DisconnectKeeps
<1>. QED
  BY <1>1, <1>2, <1>3, Halves DEF MInv, TypeOK

\* A worker that is killed closes its connection as well.
LEMMA KillStep == ASSUME MInv, NEW w \in Worker, Kill(w) PROVE MInv'
<1>1. w \in Client /\ Disconnect(w) /\ UNCHANGED <<placeVars, busy, holder>>
  BY DEF Kill, Client
<1>2. TaskTyping'
  BY <1>1 DEF Kill, TaskTyping, MInv, TypeOK, Purpose, placeVars
<1>3. CheckInv' /\ \A d \in Client \ {w} : want'[d] = want[d] /\ pc'[d] = pc[d]
  BY <1>1 DEF Kill, MInv, TypeOK, CheckInv, placeVars
<1>4. ConnTyped' /\ SessionInv' /\ HolderInv' /\ ClientInv'
  BY <1>1, <1>3, DisconnectKeeps
<1>. QED
  BY <1>1, <1>2, <1>3, <1>4, Halves DEF MInv, TypeOK

\* Runs, pages and writes go on without a source.
LEMMA QuietSteps ==
  ASSUME MInv, NEW c \in Client,
         \/ TargetReady(c) \/ Write(c) \/ StartRun(c) \/ OpenPage(c) \/ ListTables(c)
  PROVE MInv'
<1>. USE DEF placeVars
<1>1. conn[c] = NoSession /\ UNCHANGED <<placeVars, serverVars, connVars>>
  BY NoConnection DEF TargetReady, Write, StartRun, OpenPage, ListTables
<1>2. TaskTyping' /\ CheckInv' /\ \A d \in Client \ {c} : want'[d] = want[d] /\ pc'[d] = pc[d]
  <2>1. CASE TargetReady(c)
    <3>1. PICK l \in {"schema", "idle", "write"} : Enter(c, l)
      BY <2>1 DEF TargetReady
    <3>2. pc[c] = "check" /\ unchecked[c] = {}
      BY <2>1 DEF TargetReady
    <3>3. purpose' \in [Client -> Purpose]
      BY <2>1 DEF TargetReady, MInv, TypeOK, Purpose
    <3>. QED
      BY <1>1, <3>1, <3>2, <3>3, TaskTyped, TaskChecked DEF TaskTyping, MInv, TypeOK, Purpose
  <2>2. CASE Write(c)
    BY <1>1, <2>2, TaskTyped, TaskChecked DEF Write, TaskTyping, MInv, TypeOK, Purpose
  <2>3. CASE \E p \in Purpose : OpenTarget(c, p)
    BY <1>1, <2>3, TaskTyped, TaskChecked DEF TaskTyping, MInv, TypeOK
  <2>4. CASE ListTables(c)
    BY <1>1, <2>4, TaskTyped, TaskChecked DEF ListTables, TaskTyping, MInv, TypeOK, Purpose
  <2>5. StartRun(c) \/ OpenPage(c) => \E p \in Purpose : OpenTarget(c, p)
    BY DEF StartRun, OpenPage, Purpose
  <2>. QED
    BY <2>1, <2>2, <2>3, <2>4, <2>5
<1>3. ConnTyped' /\ SessionInv' /\ HolderInv' /\ ClientInv'
  BY <1>1, <1>2, QuietKeeps
<1>. QED
  BY <1>1, <1>2, <1>3, Halves DEF MInv, TypeOK, serverVars

-----------------------------------------------------------------------------
(* The steps of a connection and of the server. *)

LEMMA ConnectStep == ASSUME MInv, NEW c \in Client, Connect(c) PROVE MInv'
<1>. USE DEF MInv, TypeOK, placeVars
<1>1. PICK p \in Choice(c), s \in {c} \X Socket :
          /\ server[s] = NoServer
          /\ server' = [server EXCEPT ![s] = at[p]] /\ phase' = [phase EXCEPT ![s] = "open"]
          /\ conn' = [conn EXCEPT ![c] = s] /\ want' = [want EXCEPT ![c] = p]
  BY DEF Connect
<1>2. p \in Profile /\ at[p] \in Server /\ p # NoProfile /\ at[p] # NoServer
  BY SourceMutexAssumption DEF Choice
<1>3. s \in Session /\ s[1] = c /\ s # NoSession
  BY Sessions DEF Session
<1>4. /\ pc[c] \in {"check", "schema", "extract", "list"} /\ conn[c] = NoSession
      /\ UNCHANGED <<placeVars, busy, holder, granted, reads, pc, purpose, unchecked>>
  BY DEF Connect
<1>5. ConnTyped' /\ TaskTyping' /\ CheckInv'
  BY <1>1, <1>2, <1>3, <1>4 DEF ConnTyped, TaskTyping, CheckInv
<1>6. phase[s] = "open" /\ ~busy[s] /\ ~granted[c] /\ \A m \in Server : holder[m] # s
  BY <1>1, <1>3, <1>4, SourceMutexAssumption DEF SessionInv, HolderInv, ClientInv
<1>7. phase' = phase
  BY <1>1, <1>3, <1>6
<1>8. \A d \in Client : d # c => conn'[d] = conn[d] /\ conn[d] # s /\ want'[d] = want[d]
  BY <1>1, <1>3, Sessions DEF ClientInv
<1>9. SessionInv'
  BY <1>1, <1>2, <1>3, <1>4, <1>6, <1>7, <1>8, Sessions DEF SessionInv
<1>10. HolderInv'
  BY <1>1, <1>2, <1>3, <1>4, <1>6, <1>7, <1>8, Sessions DEF HolderInv
<1>11. ClientInv'
  <2>1. conn'[c] = s /\ want'[c] = p
    BY <1>1
  <2>2. \A t \in Session : t # s => server'[t] = server[t]
    BY <1>1
  <2>3. ASSUME NEW d \in Client, d # c
        PROVE /\ granted[d] => /\ conn[d] # NoSession
                               /\ phase[conn[d]] = "open" => holder[server'[conn[d]]] = conn[d]
              /\ conn[d] # NoSession => /\ conn[d][1] = d /\ want[d] # NoProfile
                                        /\ pc[d] \notin {"idle", "write"}
                                        /\ phase[conn[d]] \in {"open", "lost"}
    BY <2>2, <2>3, <1>8 DEF ClientInv
  <2>. QED
    BY <1>2, <1>3, <1>4, <1>6, <1>7, <1>8, <2>1, <2>3 DEF ClientInv
<1>. QED
  BY <1>4, <1>5, <1>9, <1>10, <1>11, Halves

LEMMA GetLockStep == ASSUME MInv, NEW c \in Client, GetLock(c) PROVE MInv'
<1>. USE DEF MInv, TypeOK, placeVars, taskVars
<1>. DEFINE s == conn[c]  m == server[s]
<1>1. /\ s # NoSession /\ ~granted[c] /\ phase[s] = "open" /\ holder[m] = NoSession
      /\ granted' = [granted EXCEPT ![c] = TRUE]
      /\ UNCHANGED <<placeVars, server, phase, busy, conn, reads, taskVars>>
  BY DEF GetLock, LockAnswer
<1>2. s \in Session /\ s[1] = c /\ m \in Server
  BY <1>1, Sessions DEF ClientInv, SessionInv
<1>3. holder' = [holder EXCEPT ![m] = s]
  BY <1>1, <1>2 DEF GetLock, LockAnswer
<1>. HIDE DEF s, m
<1>4. ConnTyped' /\ TaskTyping' /\ CheckInv' /\ holder' \in [Server -> Session \cup {NoSession}]
  BY <1>1, <1>2, <1>3 DEF ConnTyped, TaskTyping, CheckInv
<1>5. \A t \in Session : busy[t] => server[t] # m
  BY <1>1, <1>2, Sessions DEF SessionInv
<1>6. SessionInv'
  BY <1>1, <1>2, <1>3, <1>5 DEF SessionInv
<1>7. HolderInv'
  BY <1>1, <1>2, <1>3, Sessions DEF HolderInv, s, m
<1>8. \A d \in Client : d # c /\ granted[d] /\ phase[conn[d]] = "open" => server[conn[d]] # m
  BY <1>1, <1>2, Sessions DEF ClientInv
<1>9. ClientInv'
  BY <1>1, <1>2, <1>3, <1>8 DEF ClientInv, s, m
<1>. QED
  BY <1>1, <1>4, <1>6, <1>7, <1>9, Halves

LEMMA QueryStep == ASSUME MInv, NEW c \in Client, Query(c) PROVE MInv'
<1>. USE DEF MInv, TypeOK, placeVars, taskVars
<1>1. conn[c] \in Session /\ holder[server[conn[c]]] = conn[c] /\ server[conn[c]] # NoServer
  BY Sessions DEF Query, ClientInv, SessionInv
<1>2. TypeOK'
  BY <1>1, SourceMutexAssumption DEF Query
<1>3. SessionInv'
  BY <1>1 DEF Query, SessionInv
<1>4. HolderInv' /\ ClientInv' /\ CheckInv'
  BY DEF Query, HolderInv, ClientInv, CheckInv
<1>. QED
  BY <1>2, <1>3, <1>4

LEMMA AnswerStep == ASSUME MInv, NEW s \in Session, Answer(s) PROVE MInv'
<1>. USE DEF MInv, TypeOK, placeVars, taskVars, connVars, Answer
<1>1. TypeOK'
  OBVIOUS
<1>2. SessionInv' /\ HolderInv' /\ ClientInv' /\ CheckInv'
  BY DEF SessionInv, HolderInv, ClientInv, CheckInv
<1>. QED
  BY <1>1, <1>2

\* The end of a session gives its mutex back, and nobody else's.
LEMMA ReleaseFrees ==
  ASSUME MInv, NEW s \in Session, Release(s)
  PROVE /\ holder' \in [Server -> Session \cup {NoSession}]
        /\ \A m \in Server : holder'[m] # s /\ (holder[m] # s => holder'[m] = holder[m])
        /\ \A m \in Server, t \in Session : holder'[m] = t => holder[m] = t /\ t # s
  BY Sessions DEF MInv, TypeOK, Release

LEMMA EndSessionStep == ASSUME MInv, NEW s \in Session, EndSession(s) PROVE MInv'
<1>. USE DEF MInv, TypeOK, placeVars, taskVars, connVars
<1>1. /\ server[s] # NoServer /\ phase[s] = "closing" /\ ~busy[s]
      /\ server' = [server EXCEPT ![s] = NoServer] /\ phase' = [phase EXCEPT ![s] = "open"]
      /\ UNCHANGED <<placeVars, busy, connVars, taskVars>> /\ Release(s)
  BY DEF EndSession, Settled
<1>2. /\ holder' \in [Server -> Session \cup {NoSession}]
      /\ \A m \in Server : holder'[m] # s /\ (holder[m] # s => holder'[m] = holder[m])
      /\ \A m \in Server, t \in Session : holder'[m] = t => holder[m] = t /\ t # s
  BY <1>1, ReleaseFrees
<1>3. \A d \in Client : conn[d] # s
  BY <1>1, Sessions DEF ClientInv
<1>4. ConnTyped' /\ TaskTyping' /\ CheckInv'
  BY <1>1 DEF ConnTyped, TaskTyping, CheckInv
<1>5. \A t \in Session : t # s => server'[t] = server[t] /\ phase'[t] = phase[t]
  BY <1>1
<1>6. SessionInv'
  BY <1>1, <1>2, <1>3, <1>5, Sessions DEF SessionInv
<1>7. HolderInv'
  BY <1>1, <1>2, <1>3, <1>5, Sessions DEF HolderInv
<1>8. ClientInv'
  <2>1. \A d \in Client : conn[d] # NoSession => conn[d] \in Session
    OBVIOUS
  <2>2. \A d \in Client : granted[d] /\ phase[conn[d]] = "open" => server[conn[d]] \in Server
    BY <2>1, Sessions DEF ClientInv, SessionInv
  <2>. QED
    BY <1>1, <1>2, <1>3, <1>5, <2>1, <2>2 DEF ClientInv
<1>. QED
  BY <1>1, <1>2, <1>4, <1>6, <1>7, <1>8, Halves

LEMMA TimeOutStep == ASSUME MInv, NEW s \in Session, TimeOut(s) PROVE MInv'
<1>. USE DEF MInv, TypeOK, placeVars, taskVars, connVars
<1>1. /\ server[s] # NoServer /\ phase[s] = "open" /\ ~busy[s] /\ phase' = [phase EXCEPT ![s] = "lost"]
      /\ UNCHANGED <<placeVars, server, busy, connVars, taskVars>> /\ Release(s)
  BY DEF TimeOut, Idle
<1>2. /\ holder' \in [Server -> Session \cup {NoSession}]
      /\ \A m \in Server : holder'[m] # s /\ (holder[m] # s => holder'[m] = holder[m])
      /\ \A m \in Server, t \in Session : holder'[m] = t => holder[m] = t /\ t # s
  BY <1>1, ReleaseFrees
<1>3. ConnTyped' /\ TaskTyping' /\ CheckInv'
  BY <1>1 DEF ConnTyped, TaskTyping, CheckInv
<1>4. \A t \in Session : t # s => phase'[t] = phase[t]
  BY <1>1
<1>5. SessionInv'
  BY <1>1, <1>2, <1>4 DEF SessionInv
<1>6. HolderInv'
  BY <1>1, <1>2, <1>4 DEF HolderInv
<1>7. ClientInv'
  <2>1. \A d \in Client : conn[d] # NoSession => conn[d] \in Session
    OBVIOUS
  <2>2. \A d \in Client : granted[d] /\ phase[conn[d]] = "open" => server[conn[d]] \in Server
    BY <2>1, Sessions DEF ClientInv, SessionInv
  <2>. QED
    BY <1>1, <1>2, <1>4, <2>1, <2>2 DEF ClientInv
<1>. QED
  BY <1>1, <1>2, <1>3, <1>5, <1>6, <1>7, Halves

-----------------------------------------------------------------------------
(* The theorems. *)

\* The invariant of mutex, sessions and visits holds initially and in each step.
THEOREM MutexInductive == Spec => []MInv
<1>1. Init => MInv
  BY SourceMutexAssumption, Sessions
     DEF Init, MInv, TypeOK, SessionInv, HolderInv, ClientInv, CheckInv, Purpose
<1>2. MInv /\ [Next]_vars => MInv'
  <2>. SUFFICES ASSUME MInv, [Next]_vars PROVE MInv'
    OBVIOUS
  <2>1. ASSUME NEW c \in Client, Step(c) PROVE MInv'
    BY <2>1, ClosingSteps, QuietSteps, ConnectStep, GetLockStep, QueryStep DEF Step
  <2>2. ASSUME NEW w \in Worker, StartRun(w) \/ Kill(w) PROVE MInv'
    BY <2>2, QuietSteps, KillStep DEF Client
  <2>3. ASSUME NEW u \in Screen, OpenPage(u) \/ ListTables(u) PROVE MInv'
    BY <2>3, QuietSteps DEF Client
  <2>4. ASSUME NEW s \in Session, Answer(s) \/ EndSession(s) \/ TimeOut(s) PROVE MInv'
    BY <2>4, AnswerStep, EndSessionStep, TimeOutStep
  <2>5. CASE UNCHANGED vars
    BY <2>5 DEF vars, placeVars, serverVars, connVars, taskVars, MInv, TypeOK, SessionInv, HolderInv,
                ClientInv, CheckInv
  <2>. QED
    BY <2>1, <2>2, <2>3, <2>4, <2>5 DEF Next
<1>. QED
  BY <1>1, <1>2, PTL DEF Spec

\* A source server executes one query of the application at a time (db.py, Source), though
\* clients are killed, time out or are replaced while their query still runs.
THEOREM ReadersAreExclusive == Spec => []OneReader
<1>1. MInv => OneReader
  BY DEF MInv, SessionInv, OneReader
<1>. QED
  BY <1>1, MutexInductive, PTL

\* A mutex is always with a session that somebody will close, or that is being closed.
THEOREM MutexIsNotOrphaned == Spec => []NoOrphanedMutex
<1>1. MInv => NoOrphanedMutex
  BY DEF MInv, HolderInv, NoOrphanedMutex
<1>. QED
  BY <1>1, MutexInductive, PTL

\* Whoever writes to the target has found no source on its server (check_target_isolation).
THEOREM SourcesAreSafe == Spec => []SourcesAreNotWritten
<1>1. MInv => SourcesAreNotWritten
  BY DEF MInv, CheckInv, SourcesAreNotWritten
<1>. QED
  BY <1>1, MutexInductive, PTL
=============================================================================
