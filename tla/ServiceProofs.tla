--------------------------- MODULE ServiceProofs ---------------------------
(***************************************************************************)
(* Theorems about the services that HostServices composes, each about the  *)
(* specification of its own: the sessions of the local document host       *)
(* (LocalSessions), the state backend (StateBackend), the MCP host         *)
(* (McpHost) and the review application (ReviewApplication).               *)
(***************************************************************************)
EXTENDS LocalSessions, StateBackend, McpHost, ReviewApplication, FiniteSetTheorems, TLAPS

----------------------------------------------------------------------------
(* Sessions: the invariant                                                 *)

Pending == {"scheduled"} \cup Running
JobType == [state : JobState, of : Session \cup {NoSession}, explicit : BOOLEAN,
            cancelled : BOOLEAN, late : BOOLEAN]
ClientType == [pc : {"idle", "taken", "closing", "fencing"}, doing : Doing \cup {"none"},
               of : Session \cup {NoSession}, awaits : Job \cup {NoJob}]

SessionTypes ==
  /\ session \in [Session -> {"open", "closed"}] /\ job \in [Job -> JobType]
  /\ autosave \in [Session -> Job \cup {NoJob}]
  /\ client \in [Client -> ClientType]

\* The map of the autosaves holds exactly those that are still to run or run.
Registered(j) ==
  job[j].state \in Pending /\ ~job[j].explicit =>
    job[j].of \in Session /\ autosave[job[j].of] = j
JobsInv ==
  /\ \A j \in Job : Registered(j)
  /\ \A s \in Session : autosave[s] # NoJob =>
       job[autosave[s]].of = s /\ job[autosave[s]].state \in Pending
  /\ \A j \in Job : /\ job[j].cancelled => job[j].state = "cancelled"
                    /\ job[j].state = "none" => job[j] = NewJob

\* The call that has the mutex waits for the only autosave of its session.
MutexInv ==
  \A c \in Client :
    /\ client[c].pc = "taken" =>
         /\ autosaveMu = c /\ client[c].of \in Session
         /\ autosave[client[c].of] \in {NoJob, client[c].awaits}
    /\ client[c].pc = "closing" => client[c].of \in Session

\* Nothing scheduled before the Close is left when the call lets the mutex go.
SessionQuiet(s) == \A j \in AutosavesOf(s) : job[j].late \/ job[j].state \in {"cancelled", "finished"}
CloseInv ==
  /\ \A c \in Client : client[c].pc = "closing" => SessionQuiet(client[c].of)
  /\ \A s \in Session : session[s] = "closed" => SessionQuiet(s)

SessionsInv == SessionTypes /\ JobsInv /\ MutexInv /\ CloseInv

LEMMA InitSessions == SessionInit => SessionsInv
<1> SUFFICES ASSUME SessionInit PROVE SessionsInv
  OBVIOUS
<1>1. SessionTypes
  BY DEF SessionInit, SessionTypes, NewJob, JobType, JobState, Resting, ClientType
<1>2. JobsInv /\ MutexInv /\ CloseInv
  BY SessionAssumption
  DEF SessionInit, JobsInv, Registered, Pending, Running, NewJob, MutexInv, CloseInv, Resting
<1> QED
  BY <1>1, <1>2 DEF SessionsInv

----------------------------------------------------------------------------
(* Sessions: saves                                                         *)

\* A save that goes on stays registered.
LEMMA MoveKeepsSessions ==
  ASSUME SessionsInv, NEW j \in Job, job[j].state \in Pending,
         NEW state \in Running, SetJob(j, state),
         UNCHANGED <<session, autosave, autosaveMu, client>>
  PROVE  SessionsInv'
<1> USE DEF SessionsInv
<1>1. SessionTypes'
  BY DEF SessionTypes, SetJob, JobType, JobState, Running
<1>2. /\ \A i \in Job : i # j => job'[i] = job[i]
      /\ job'[j].state = state /\ job'[j].of = job[j].of /\ job'[j].explicit = job[j].explicit
      /\ job'[j].late = job[j].late /\ job'[j].cancelled = job[j].cancelled
  BY DEF SessionTypes, SetJob, JobType
<1>3. ~job[j].cancelled /\ state \in Pending /\ state # "none"
  BY DEF JobsInv, Pending, Running
<1>4. JobsInv'
  BY <1>2, <1>3 DEF SessionTypes, JobsInv, Registered
<1>5. MutexInv'
  BY DEF MutexInv
<1>6. ASSUME NEW s, SessionQuiet(s) PROVE SessionQuiet(s)'
  BY <1>2, <1>6 DEF SessionQuiet, AutosavesOf, Pending, Running
<1>7. CloseInv'
  BY <1>6 DEF CloseInv
<1> QED
  BY <1>1, <1>4, <1>5, <1>7

\* A save that is over is unregistered.
LEMMA FinishKeepsSessions ==
  ASSUME SessionsInv, NEW j \in Job, job[j].state \in Running, Finished(j),
         UNCHANGED <<session, autosaveMu, client>>
  PROVE  SessionsInv'
<1> USE DEF SessionsInv
<1>1. SessionTypes'
  BY DEF SessionTypes, Finished, SetJob, JobType, JobState
<1>2. /\ \A i \in Job : i # j => job'[i] = job[i]
      /\ job'[j].state = "finished" /\ job'[j].of = job[j].of /\ job'[j].explicit = job[j].explicit
      /\ job'[j].late = job[j].late /\ job'[j].cancelled = job[j].cancelled
  BY DEF SessionTypes, Finished, SetJob, JobType
<1>3. ~job[j].cancelled /\ "finished" \notin Pending
  BY DEF JobsInv, Pending, Running
<1>4. \A s \in Session : /\ autosave[s] = j => autosave'[s] = NoJob
                         /\ autosave[s] # j => autosave'[s] = autosave[s]
  BY DEF Finished, SessionTypes
<1>5. JobsInv'
  <2>1. ASSUME NEW i \in Job PROVE Registered(i)'
    <3>1. CASE i = j
      BY <1>2, <1>3, <3>1 DEF Registered
    <3>2. CASE i # j
      BY <1>2, <1>4, <3>2 DEF JobsInv, Registered
    <3> QED
      BY <3>1, <3>2
  <2>2. ASSUME NEW s \in Session, autosave'[s] # NoJob
        PROVE  job'[autosave'[s]].of = s /\ job'[autosave'[s]].state \in Pending
    BY <1>2, <1>4, <2>2 DEF SessionTypes, JobsInv
  <2> QED
    BY <1>2, <1>3, <2>1, <2>2 DEF JobsInv
<1>6. MutexInv'
  BY <1>4 DEF MutexInv
<1>7. ASSUME NEW s, SessionQuiet(s) PROVE SessionQuiet(s)'
  BY <1>2, <1>7 DEF SessionQuiet, AutosavesOf
<1>8. CloseInv'
  BY <1>7 DEF CloseInv
<1> QED
  BY <1>1, <1>5, <1>6, <1>8

\* An explicit save is no autosave.
LEMMA StartKeepsSessions ==
  ASSUME SessionsInv, NEW j \in Job, NEW s \in Session, StartSave(j, s)
  PROVE  SessionsInv'
<1> USE DEF SessionsInv
<1> DEFINE new == [NewJob EXCEPT !.state = "saving", !.of = s, !.explicit = TRUE]
<1>1. /\ new \in JobType /\ new.state = "saving" /\ new.explicit = TRUE /\ new.cancelled = FALSE
      /\ new.of = s
  BY DEF NewJob, JobType, JobState, Running
<1>2. /\ job' = [job EXCEPT ![j] = new] /\ job[j].state = "none"
      /\ UNCHANGED <<session, autosave, autosaveMu, client>>
  BY DEF StartSave
<1> HIDE DEF new
<1>3. SessionTypes'
  BY <1>1, <1>2 DEF SessionTypes
<1>4. job'[j] = new /\ \A i \in Job : i # j => job'[i] = job[i]
  BY <1>2 DEF SessionTypes
<1>5. \A t \in Session : autosave[t] # j
  BY <1>2, SessionAssumption DEF JobsInv, Pending, Running
<1>6. JobsInv'
  BY <1>1, <1>2, <1>4, <1>5 DEF SessionTypes, JobsInv, Registered
<1>7. MutexInv'
  BY <1>2 DEF MutexInv
<1>8. CloseInv'
  BY <1>1, <1>2, <1>4 DEF CloseInv, SessionQuiet, AutosavesOf
<1> QED
  BY <1>3, <1>6, <1>7, <1>8

----------------------------------------------------------------------------
(* Sessions: calls                                                         *)

\* A call that begins leaves its session without an autosave, or waits for it.
LEMMA TakeKeepsSessions ==
  ASSUME SessionsInv, NEW c \in Client, NEW what \in Doing, NEW s \in Session,
         client[c].pc = "idle", TakeAutosave(c, what, s)
  PROVE  SessionsInv'
<1> USE DEF SessionsInv
<1> DEFINE j == autosave[s]
           taken == [pc |-> "taken", doing |-> what, of |-> s, awaits |-> ToAwait(s)]
<1>1. /\ autosaveMu = NoClient /\ autosaveMu' = c /\ client' = [client EXCEPT ![c] = taken]
      /\ UNCHANGED session
  BY DEF TakeAutosave
<1>2. taken \in ClientType /\ taken.pc = "taken" /\ taken.of = s /\ taken.awaits = ToAwait(s)
  BY DEF ToAwait, ClientType, SessionTypes
<1>3. \A d \in Client : d # c => client'[d] = client[d] /\ client[d].pc # "taken"
  BY <1>1, SessionAssumption DEF SessionTypes, MutexInv
<1>4. client'[c] = taken
  BY <1>1 DEF SessionTypes
<1> HIDE DEF taken
<1>5. CASE j # NoJob /\ job[j].state = "scheduled"
  <2>1. /\ j \in Job /\ autosave' = [autosave EXCEPT ![s] = NoJob]
        /\ job' = [job EXCEPT ![j].state = "cancelled", ![j].cancelled = TRUE]
    BY <1>5 DEF TakeAutosave, SessionTypes
  <2> HIDE DEF j
  <2>2. /\ \A i \in Job : i # j => job'[i] = job[i]
        /\ job'[j].state = "cancelled" /\ job'[j].cancelled = TRUE /\ job'[j].of = job[j].of
        /\ job'[j].explicit = job[j].explicit /\ job'[j].late = job[j].late
    BY <2>1 DEF SessionTypes, JobType
  <2>3. SessionTypes'
    <3>1. job' \in [Job -> JobType]
      BY <2>1 DEF SessionTypes, JobType, JobState
    <3> QED
      BY <1>1, <1>2, <2>1, <3>1 DEF SessionTypes
  <2>4. autosave'[s] = NoJob /\ \A t \in Session : t # s => autosave'[t] = autosave[t]
    BY <2>1 DEF SessionTypes
  <2>5. job[j].of = s /\ \A t \in Session : t # s => autosave[t] # j
    BY <1>5, <2>1, SessionAssumption DEF JobsInv, j
  <2>6. ASSUME NEW i \in Job PROVE Registered(i)'
    <3>1. CASE i = j
      BY <2>2, <3>1 DEF Registered, Pending, Running
    <3>2. CASE i # j
      <4>1. job[i].state \in Pending /\ ~job[i].explicit => job[i].of # s
        BY <3>2 DEF JobsInv, Registered, j
      <4> QED
        BY <2>2, <2>4, <3>2, <4>1 DEF JobsInv, Registered
    <3> QED
      BY <3>1, <3>2
  <2>7. JobsInv'
    BY <2>2, <2>4, <2>5, <2>6 DEF JobsInv, SessionTypes
  <2>8. MutexInv'
    BY <1>1, <1>2, <1>3, <1>4, <2>4 DEF MutexInv
  <2>9. ASSUME NEW t, SessionQuiet(t) PROVE SessionQuiet(t)'
    BY <2>2, <2>9 DEF SessionQuiet, AutosavesOf
  <2>10. CloseInv'
    BY <1>1, <1>2, <1>3, <1>4, <2>9 DEF CloseInv
  <2> QED
    BY <2>3, <2>7, <2>8, <2>10
<1>6. CASE ~(j # NoJob /\ job[j].state = "scheduled")
  <2>1. UNCHANGED <<job, autosave>>
    BY <1>6 DEF TakeAutosave
  <2>2. autosave[s] \in {NoJob, ToAwait(s)}
    BY <1>6 DEF ToAwait, JobsInv, Pending
  <2>3. SessionTypes' /\ JobsInv'
    BY <1>1, <1>2, <2>1 DEF SessionTypes, JobsInv, Registered
  <2>4. MutexInv'
    BY <1>1, <1>2, <1>3, <1>4, <2>1, <2>2 DEF MutexInv
  <2>5. CloseInv'
    BY <1>1, <1>2, <1>3, <1>4, <2>1 DEF CloseInv, SessionQuiet, AutosavesOf
  <2> QED
    BY <2>3, <2>4, <2>5
<1> QED
  BY <1>5, <1>6

\* When the wait is over, no autosave of the session is left.
LEMMA AwaitedIsOver ==
  ASSUME SessionsInv, NEW c \in Client, Awaited(c)
  PROVE  /\ client[c].of \in Session /\ autosave[client[c].of] = NoJob
         /\ \A j \in AutosavesOf(client[c].of) : job[j].state \notin Pending
<1>1. /\ client[c].of \in Session
      /\ autosave[client[c].of] \in {NoJob, client[c].awaits}
  BY DEF SessionsInv, MutexInv, Awaited
<1>2. autosave[client[c].of] = NoJob
  BY SMTT(30), <1>1 DEF SessionsInv, JobsInv, Awaited, Pending, Running
<1> QED
  BY <1>1, <1>2, SessionAssumption DEF SessionsInv, JobsInv, Registered, AutosavesOf

\* A new autosave takes the free place of its session.
LEMMA ScheduleKeepsSessions ==
  ASSUME SessionsInv, NEW c \in Client, ScheduleAutosave(c)
  PROVE  SessionsInv'
<1> USE DEF SessionsInv
<1> DEFINE s == client[c].of
           late == \E d \in Client : client[d].pc = "closing" /\ client[d].of = s
           new == [NewJob EXCEPT !.state = "scheduled", !.of = s, !.late = late]
<1>1. s \in Session /\ autosave[s] = NoJob /\ \A i \in AutosavesOf(s) : job[i].state \notin Pending
  BY AwaitedIsOver DEF ScheduleAutosave
<1>2. /\ autosaveMu' = NoClient /\ client' = [client EXCEPT ![c] = Resting]
      /\ UNCHANGED session /\ client[c].pc = "taken"
  BY DEF ScheduleAutosave, Unlock, Rest, Awaited
<1>3. Resting \in ClientType /\ Resting.pc = "idle"
  BY DEF Resting, ClientType
<1>4. client'[c].pc = "idle" /\ \A d \in Client : d # c => client'[d] = client[d] /\ client[d].pc # "taken"
  BY <1>2, <1>3, SessionAssumption DEF SessionTypes, MutexInv
<1>5. CASE UNCHANGED <<job, autosave>>
  <2>1. SessionTypes' /\ JobsInv'
    BY <1>2, <1>3, <1>5 DEF SessionTypes, JobsInv, Registered
  <2>2. MutexInv' /\ CloseInv'
    BY <1>2, <1>4, <1>5 DEF MutexInv, CloseInv, SessionQuiet, AutosavesOf
  <2> QED
    BY <2>1, <2>2
<1>6. ASSUME NEW j \in Job, job[j].state = "none", session[s] = "open",
             job' = [job EXCEPT ![j] = new], autosave' = [autosave EXCEPT ![s] = j]
      PROVE  SessionsInv'
  <2>1. /\ new \in JobType /\ new.state = "scheduled" /\ new.of = s /\ new.explicit = FALSE
        /\ new.cancelled = FALSE /\ new.late = late
    BY <1>1 DEF NewJob, JobType, JobState
  <2> HIDE DEF new, late
  <2>2. job'[j] = new /\ \A i \in Job : i # j => job'[i] = job[i]
    BY <1>6 DEF SessionTypes
  <2>3. autosave'[s] = j /\ \A t \in Session : t # s => autosave'[t] = autosave[t]
    BY <1>1, <1>6 DEF SessionTypes
  <2>4. SessionTypes'
    BY <1>1, <1>2, <1>3, <1>6, <2>1 DEF SessionTypes
  <2>5. \A t \in Session : autosave[t] # j
    BY <1>6, SessionAssumption DEF JobsInv, Pending, Running
  <2>6. ASSUME NEW i \in Job PROVE Registered(i)'
    <3>1. CASE i = j
      BY <1>1, <2>1, <2>2, <2>3, <3>1 DEF Registered
    <3>2. CASE i # j
      BY <1>1, <2>2, <2>3, <3>2 DEF JobsInv, Registered, AutosavesOf
    <3> QED
      BY <3>1, <3>2
  <2>7. ASSUME NEW t \in Session, autosave'[t] # NoJob
        PROVE  job'[autosave'[t]].of = t /\ job'[autosave'[t]].state \in Pending
    BY <2>1, <2>2, <2>3, <2>5, <2>7 DEF JobsInv, SessionTypes, Pending
  <2>8. JobsInv'
    BY <2>1, <2>2, <2>6, <2>7 DEF JobsInv
  <2>9. MutexInv'
    BY <1>4, <2>3 DEF MutexInv
  <2>10. ASSUME NEW t \in Session, SessionQuiet(t), t = s => late PROVE SessionQuiet(t)'
    BY <2>1, <2>2, <2>10 DEF SessionQuiet, AutosavesOf
  <2>11. CloseInv'
    <3>1. ASSUME NEW d \in Client, client'[d].pc = "closing" PROVE SessionQuiet(client[d].of)'
      <4>1. d # c /\ client'[d] = client[d] /\ client[d].of \in Session /\ SessionQuiet(client[d].of)
        BY <1>4, <3>1 DEF MutexInv, CloseInv
      <4>2. client[d].of = s => late
        BY <3>1, <4>1 DEF late
      <4> QED
        BY <2>10, <4>1, <4>2 DEF SessionQuiet, AutosavesOf
    <3>2. ASSUME NEW t \in Session, session'[t] = "closed" PROVE SessionQuiet(t)'
      BY <1>2, <1>6, <2>10, <3>2 DEF CloseInv
    <3> QED
      BY <3>1, <3>2 DEF CloseInv, SessionQuiet, AutosavesOf
  <2> QED
    BY <2>4, <2>8, <2>9, <2>11
<1> QED
  BY <1>5, <1>6 DEF ScheduleAutosave

\* Close: the session is quiet when the call lets the mutex go, and stays so.
LEMMA LeaveKeepsSessions ==
  ASSUME SessionsInv, NEW c \in Client, LeaveForClose(c)
  PROVE  SessionsInv'
<1> USE DEF SessionsInv
<1>1. /\ client' = [client EXCEPT ![c].pc = "closing", ![c].awaits = NoJob]
      /\ UNCHANGED <<session, job, autosave>> /\ client[c].pc = "taken"
  BY DEF LeaveForClose, Awaited
<1>2. /\ client'[c].pc = "closing" /\ client'[c].of = client[c].of
      /\ \A d \in Client : d # c => client'[d] = client[d] /\ client[d].pc # "taken"
  BY <1>1, SessionAssumption DEF SessionTypes, ClientType, MutexInv
<1>3. client[c].of \in Session /\ SessionQuiet(client[c].of)
  <2>1. client[c].of \in Session /\ \A j \in AutosavesOf(client[c].of) : job[j].state \notin Pending
    BY AwaitedIsOver DEF LeaveForClose
  <2>2. \A j \in AutosavesOf(client[c].of) : job[j].state # "none"
    BY <2>1, SessionAssumption DEF AutosavesOf, JobsInv, NewJob
  <2> QED
    BY <2>1, <2>2 DEF SessionQuiet, AutosavesOf, Pending, SessionTypes, JobType, JobState
<1>4. client' \in [Client -> ClientType]
  <2> DEFINE new == [client[c] EXCEPT !.pc = "closing", !.awaits = NoJob]
  <2>1. new \in ClientType
    BY DEF SessionTypes, ClientType
  <2>2. client' = [client EXCEPT ![c] = new]
    BY <1>1 DEF SessionTypes
  <2> HIDE DEF new
  <2> QED
    BY <2>1, <2>2 DEF SessionTypes
<1>5. SessionTypes' /\ JobsInv'
  BY <1>1, <1>4 DEF SessionTypes, JobsInv, Registered
<1>6. MutexInv'
  BY <1>1, <1>2, <1>3 DEF MutexInv
<1>7. CloseInv'
  <2>1. ASSUME NEW d \in Client, client'[d].pc = "closing" PROVE SessionQuiet(client[d].of)'
    <3>1. client'[d].of = client[d].of /\ SessionQuiet(client[d].of)
      BY <1>2, <1>3, <2>1 DEF CloseInv
    <3> QED
      BY <1>1, <3>1 DEF SessionQuiet, AutosavesOf
  <2>2. ASSUME NEW s \in Session, session'[s] = "closed" PROVE SessionQuiet(s)'
    BY <1>1, <2>2 DEF CloseInv, SessionQuiet, AutosavesOf
  <2> QED
    BY <2>1, <2>2 DEF CloseInv
<1> QED
  BY <1>5, <1>6, <1>7

LEMMA CloseKeepsSessions ==
  ASSUME SessionsInv, NEW c \in Client, Close(c)
  PROVE  SessionsInv'
<1> USE DEF SessionsInv
<1>1. /\ client' = [client EXCEPT ![c] = Resting] /\ UNCHANGED <<job, autosave, autosaveMu>>
      /\ client[c].pc = "closing" /\ client[c].of \in Session /\ SessionQuiet(client[c].of)
      /\ session' \in {session, [session EXCEPT ![client[c].of] = "closed"]}
  BY DEF Close, Rest, MutexInv, CloseInv
<1>2. Resting \in ClientType /\ Resting.pc = "idle"
  BY DEF Resting, ClientType
<1>3. client'[c].pc = "idle" /\ \A d \in Client : d # c => client'[d] = client[d]
  BY <1>1, <1>2 DEF SessionTypes
<1>4. SessionTypes' /\ JobsInv'
  BY <1>1, <1>2 DEF SessionTypes, JobsInv, Registered
<1>5. MutexInv'
  BY <1>1, <1>3 DEF MutexInv
<1>6. CloseInv'
  BY <1>1, <1>3 DEF CloseInv, SessionQuiet, AutosavesOf, SessionTypes
<1> QED
  BY <1>4, <1>5, <1>6

\* The steps of the other calls leave sessions and saves alone.
LEMMA OthersKeepSessions ==
  ASSUME SessionsInv, NEW c \in Client,
         BeginRevocation(c) \/ CancelAutosave(c) \/ LeaveForFence(c) \/ RevokeDelegation(c)
  PROVE  SessionsInv'
<1> USE DEF SessionsInv
<1>1. /\ UNCHANGED <<session, job, autosave>>
      /\ client[c].pc # "taken" => autosaveMu' = autosaveMu
      /\ client' \in [Client -> ClientType] /\ client'[c].pc \in {"idle", "fencing"}
      /\ \A d \in Client : d # c => client'[d] = client[d]
  <2>1. Resting \in ClientType /\ Resting.pc = "idle"
    BY DEF Resting, ClientType
  <2>2. CASE BeginRevocation(c)
    BY <2>1, <2>2 DEF BeginRevocation, SessionTypes, ClientType, Doing
  <2>3. CASE CancelAutosave(c)
    BY <2>1, <2>3 DEF CancelAutosave, Awaited, Rest, SessionTypes
  <2>4. CASE LeaveForFence(c)
    BY <2>1, <2>4 DEF LeaveForFence, Awaited, SessionTypes, ClientType
  <2>5. CASE RevokeDelegation(c)
    BY <2>1, <2>5 DEF RevokeDelegation, Rest, SessionTypes
  <2> QED
    BY <2>2, <2>3, <2>4, <2>5
<1>2. SessionTypes' /\ JobsInv'
  BY <1>1 DEF SessionTypes, JobsInv, Registered
<1>3. MutexInv' /\ CloseInv'
  BY <1>1, SessionAssumption DEF MutexInv, CloseInv, SessionQuiet, AutosavesOf
<1> QED
  BY <1>2, <1>3

\* Nothing runs when the process is started again.
LEMMA RestartKeepsSessions ==
  ASSUME SessionsInv, RestartSessions
  PROVE  SessionsInv'
<1> USE DEF SessionsInv
<1>1. /\ client' = [c \in Client |-> Resting] /\ autosave' = [s \in Session |-> NoJob]
      /\ job' = [j \in Job |-> IF job[j].state \in Pending
                               THEN [job[j] EXCEPT !.state = "finished"] ELSE job[j]]
      /\ session' \in [Session -> {"open", "closed"}]
  BY DEF RestartSessions, Pending
<1>2. Resting \in ClientType /\ Resting.pc = "idle"
  BY DEF Resting, ClientType
<1>3. ASSUME NEW j \in Job
      PROVE  /\ job'[j] \in JobType /\ job'[j].state \notin Pending
             /\ job'[j].state = "finished" \/ job'[j] = job[j]
             /\ job'[j].cancelled = job[j].cancelled
  BY SMTT(30), <1>1 DEF SessionTypes, JobType, JobState, Pending, Running
<1>4. SessionTypes'
  BY <1>1, <1>2, <1>3 DEF SessionTypes
<1>5. JobsInv'
  BY <1>1, <1>3 DEF JobsInv, Registered, Pending, Running
<1>6. MutexInv'
  BY <1>1, <1>2 DEF MutexInv
<1>7. ASSUME NEW s \in Session PROVE SessionQuiet(s)'
  BY <1>3, <1>5, SessionAssumption DEF SessionQuiet, AutosavesOf, JobsInv, NewJob, JobType, JobState, Pending
<1>8. CloseInv'
  BY <1>1, <1>2, <1>7 DEF CloseInv
<1> QED
  BY <1>4, <1>5, <1>6, <1>8

LEMMA NextSessions == SessionsInv /\ [SessionNext]_sessionVars => SessionsInv'
<1> SUFFICES ASSUME SessionsInv, [SessionNext]_sessionVars PROVE SessionsInv'
  OBVIOUS
<1>1. ASSUME NEW j \in Job, Fire(j) \/ RefuseSave(j) \/ SaveStep(j)
      PROVE  SessionsInv'
  <2>1. CASE Fire(j)
    BY <2>1, MoveKeepsSessions DEF Fire, Due, Pending, Running
  <2>2. CASE RefuseSave(j)
    BY <2>2, FinishKeepsSessions DEF RefuseSave, Running
  <2>3. CASE AcquirePublication(j)
    BY <2>3, MoveKeepsSessions, FinishKeepsSessions DEF AcquirePublication, MayAcquire, Pending, Running
  <2>4. CASE PublishSave(j)
    BY <2>4, MoveKeepsSessions DEF PublishSave, Pending, Running
  <2>5. CASE FinishSave(j)
    BY <2>5, FinishKeepsSessions DEF FinishSave, Running
  <2> QED
    BY <1>1, <2>1, <2>2, <2>3, <2>4, <2>5 DEF SaveStep
<1>2. ASSUME NEW c \in Client, BeginCall(c) \/ BeginRevocation(c) \/ CallStep(c)
      PROVE  SessionsInv'
  BY <1>2, TakeKeepsSessions, ScheduleKeepsSessions, LeaveKeepsSessions, CloseKeepsSessions,
     OthersKeepSessions
  DEF BeginCall, CallStep
<1>3. CASE UNCHANGED sessionVars
  BY <1>3 DEF SessionsInv, SessionTypes, JobsInv, Registered, MutexInv, CloseInv, SessionQuiet, AutosavesOf,
              sessionVars
<1> QED
  BY <1>1, <1>2, <1>3, StartKeepsSessions, RestartKeepsSessions DEF SessionNext, Progress

\* A session has at most one autosave under way, and a job that was reported as
\* cancelled never saves, also when its timer has fired meanwhile.
THEOREM AutosavesAreExclusive == SessionSpec => []AutosavesExclude
<1>1. SessionsInv => AutosavesExclude
  <2> SUFFICES ASSUME SessionsInv, NEW s \in Session
               PROVE  Cardinality({j \in AutosavesOf(s) : job[j].state \in Running}) <= 1
    BY DEF SessionsInv, JobsInv, AutosavesExclude
  <2> DEFINE S == {j \in AutosavesOf(s) : job[j].state \in Running}
  <2>1. S \subseteq {autosave[s]}
    BY DEF SessionsInv, JobsInv, Registered, AutosavesOf, Pending
  <2>2. IsFiniteSet({autosave[s]}) /\ Cardinality({autosave[s]}) = 1
    BY FS_Singleton
  <2>3. Cardinality(S) <= Cardinality({autosave[s]})
    BY <2>1, <2>2, FS_Subset
  <2> QED
    BY <2>2, <2>3
<1> QED
  BY <1>1, InitSessions, NextSessions, PTL DEF SessionSpec

\* When Close has returned, every autosave scheduled before it is over.
THEOREM CloseQuietens == SessionSpec => []ClosedIsQuiet
<1>1. SessionsInv => ClosedIsQuiet
  BY DEF SessionsInv, CloseInv, SessionQuiet, ClosedIsQuiet
<1> QED
  BY <1>1, InitSessions, NextSessions, PTL DEF SessionSpec

----------------------------------------------------------------------------
(* Sessions: the fence of the delegation                                   *)

\* A revocation that has returned is on the disk too, and no save holds the
\* fence: none did when the delegation was replaced, and none gets it any more.
RevokedInv ==
  revoked => delegation = [memory |-> "revoked", disk |-> "revoked"] /\ NoReaders

LEMMA InitRevoked == SessionInit => RevokedInv
BY DEF SessionInit, RevokedInv

LEMMA NextRevoked == SessionsInv /\ RevokedInv /\ [SessionNext]_sessionVars => RevokedInv'
<1> SUFFICES ASSUME SessionsInv, RevokedInv, [SessionNext]_sessionVars PROVE RevokedInv'
  OBVIOUS
<1>1. job \in [Job -> JobType]
  BY DEF SessionsInv, SessionTypes
<1>2. ASSUME UNCHANGED <<delegation, revoked>>,
             \A j \in Job : job'[j] # job[j] /\ job'[j].of \in Delegated =>
               job'[j].state \notin {"fenced", "published"}
      PROVE  RevokedInv'
  BY <1>2 DEF RevokedInv, NoReaders
<1>3. ASSUME NEW c \in Client, BeginCall(c) \/ BeginRevocation(c)
      PROVE  RevokedInv'
  <2>1. CASE BeginRevocation(c)
    BY <1>2, <2>1 DEF BeginRevocation
  <2>2. ASSUME NEW what \in Doing, NEW s \in Session, TakeAutosave(c, what, s)
        PROVE  RevokedInv'
    <3>1. UNCHANGED <<delegation, revoked>>
      BY <2>2 DEF TakeAutosave
    <3>2. \A j \in Job : job'[j] = job[j] \/ job'[j].state = "cancelled"
      BY <1>1, <2>2 DEF TakeAutosave, JobType
    <3> QED
      BY <1>2, <3>1, <3>2
  <2> QED
    BY <1>3, <2>1, <2>2 DEF BeginCall
<1>4. ASSUME NEW c \in Client, CallStep(c)
      PROVE  RevokedInv'
  <2>1. CASE ScheduleAutosave(c)
    <3>1. UNCHANGED <<delegation, revoked>>
      BY <2>1 DEF ScheduleAutosave
    <3>2. \A j \in Job : job'[j] = job[j] \/ job'[j].state = "scheduled"
      <4> DEFINE s == client[c].of
                 late == \E d \in Client : client[d].pc = "closing" /\ client[d].of = s
                 new == [NewJob EXCEPT !.state = "scheduled", !.of = s, !.late = late]
      <4>1. new.state = "scheduled"
        BY DEF NewJob
      <4>2. job' = job \/ \E i \in Job : job' = [job EXCEPT ![i] = new]
        BY <2>1 DEF ScheduleAutosave
      <4> HIDE DEF new
      <4> QED
        BY <1>1, <4>1, <4>2
    <3> QED
      BY <1>2, <3>1, <3>2
  <2>2. CASE CancelAutosave(c) \/ LeaveForClose(c) \/ Close(c) \/ LeaveForFence(c)
    BY <1>2, <2>2 DEF CancelAutosave, LeaveForClose, Close, LeaveForFence
  <2>3. CASE RevokeDelegation(c)
    <3>1. NoReaders /\ job' = job
      BY <2>3 DEF RevokeDelegation, MayFence
    <3>2. NoReaders'
      BY <3>1 DEF NoReaders
    <3>3. revoked' => delegation' = [memory |-> "revoked", disk |-> "revoked"]
      <4>1. CASE delegation' = [memory |-> "revoked", disk |-> "revoked"]
        BY <4>1
      <4>2. CASE /\ delegation' \in {delegation, [delegation EXCEPT !.disk = "revoked"]}
                 /\ UNCHANGED revoked
        <5>1. revoked => delegation = [memory |-> "revoked", disk |-> "revoked"]
          BY DEF RevokedInv
        <5>2. delegation = [memory |-> "revoked", disk |-> "revoked"]
                => [delegation EXCEPT !.disk = "revoked"] = delegation
          OBVIOUS
        <5> QED
          BY <4>2, <5>1, <5>2
      <4> QED
        BY <2>3, <4>1, <4>2 DEF RevokeDelegation
    <3> QED
      BY <3>2, <3>3 DEF RevokedInv
  <2> QED
    BY <1>4, <2>1, <2>2, <2>3 DEF CallStep
<1>5. ASSUME NEW j \in Job, Fire(j) \/ RefuseSave(j) \/ \E s \in Session : StartSave(j, s)
      PROVE  RevokedInv'
  <2>1. CASE Fire(j)
    BY <1>1, <1>2, <2>1 DEF Fire, SetJob, JobType
  <2>2. CASE RefuseSave(j)
    BY <1>1, <1>2, <2>2 DEF RefuseSave, SetJob, Finished, JobType
  <2>3. CASE \E s \in Session : StartSave(j, s)
    BY <1>1, <1>2, <2>3 DEF StartSave, JobType, NewJob
  <2> QED
    BY <1>5, <2>1, <2>2, <2>3
<1>6. ASSUME NEW j \in Job, SaveStep(j)
      PROVE  RevokedInv'
  <2>1. CASE AcquirePublication(j)
    <3>1. PICK state \in {"fenced", "finished"} : SetJob(j, state)
      BY <2>1 DEF AcquirePublication, Finished
    <3>2. /\ job'[j].of = job[j].of /\ job'[j].state = state
          /\ \A i \in Job : i # j => job'[i] = job[i]
      BY <1>1, <3>1 DEF SetJob, JobType
    <3>3. UNCHANGED <<delegation, revoked>>
      BY <2>1 DEF AcquirePublication
    <3>4. CASE state = "finished"
      BY <1>2, <3>2, <3>3, <3>4
    <3>5. CASE job[j].of \notin Delegated
      BY <1>2, <3>2, <3>3, <3>5
    <3>6. CASE state = "fenced" /\ job[j].of \in Delegated
      <4>1. delegation.memory # "revoked"
        BY <1>1, <2>1, <3>2, <3>6 DEF AcquirePublication, Finished, SetJob, JobType
      <4> QED
        BY <3>3, <4>1 DEF RevokedInv
    <3> QED
      BY <3>4, <3>5, <3>6
  <2>2. CASE PublishSave(j)
    <3>1. /\ job[j].state = "fenced" /\ job'[j].of = job[j].of /\ UNCHANGED <<delegation, revoked>>
          /\ \A i \in Job : i # j => job'[i] = job[i]
      BY <1>1, <2>2 DEF PublishSave, SetJob, JobType
    <3> QED
      BY <3>1 DEF RevokedInv, NoReaders
  <2>3. CASE FinishSave(j)
    BY <1>1, <1>2, <2>3 DEF FinishSave, SetJob, Finished, JobType
  <2> QED
    BY <1>6, <2>1, <2>2, <2>3 DEF SaveStep
<1>7. CASE RestartSessions
  <2>1. \A j \in Job : job'[j].state \notin {"fenced", "published"}
    BY <1>1, <1>7 DEF RestartSessions, JobType, JobState, Running
  <2>2. revoked => delegation' = [memory |-> "revoked", disk |-> "revoked"]
    BY <1>7 DEF RestartSessions, RevokedInv
  <2> QED
    BY <1>7, <2>1, <2>2 DEF RestartSessions, RevokedInv, NoReaders
<1>8. CASE UNCHANGED sessionVars
  BY <1>8 DEF RevokedInv, NoReaders, sessionVars
<1> QED
  BY <1>3, <1>4, <1>5, <1>6, <1>7, <1>8 DEF SessionNext, Progress

\* After RevokeDelegation has returned, no save under the delegation reaches the
\* document, in this process or in a later one.
THEOREM RevocationIsFinal == SessionSpec => RevokedNeverPublishes
<1> DEFINE Allowed ==
      \A j \in Job : job[j].of \in Delegated /\ job[j].state = "fenced"
                       /\ job'[j].state = "published" => ~revoked
<1>1. RevokedInv => Allowed
  BY DEF RevokedInv, NoReaders
<1>2. RevokedInv => [Allowed]_sessionVars
  BY <1>1
<1> QED
  BY <1>2, InitSessions, NextSessions, InitRevoked, NextRevoked, PTL
  DEF SessionSpec, RevokedNeverPublishes

----------------------------------------------------------------------------
(* Sessions: nobody waits for ever                                         *)

\* A call that has the mutex waits for a save that has begun, which only ends.
Begun == Running \cup {"finished"}
AwaitInv ==
  \A c \in Client : client[c].pc = "taken" /\ client[c].awaits # NoJob =>
    job[client[c].awaits].state \in Begun

LEMMA NextAwait == SessionsInv /\ AwaitInv /\ [SessionNext]_sessionVars => AwaitInv'
<1> SUFFICES ASSUME SessionsInv, AwaitInv, [SessionNext]_sessionVars PROVE AwaitInv'
  OBVIOUS
<1>1. job \in [Job -> JobType] /\ client \in [Client -> ClientType]
      /\ autosave \in [Session -> Job \cup {NoJob}]
  BY DEF SessionsInv, SessionTypes
<1>2. ASSUME \A j \in Job : job[j].state \in Begun => job'[j].state \in Begun,
             \A c \in Client : client'[c].pc = "taken" => client'[c] = client[c]
      PROVE  AwaitInv'
  BY <1>1, <1>2 DEF AwaitInv, ClientType
<1>3. ASSUME NEW c \in Client, BeginCall(c) \/ BeginRevocation(c)
      PROVE  AwaitInv'
  <2>1. CASE BeginRevocation(c)
    BY <1>1, <1>2, <2>1 DEF BeginRevocation, Resting, ClientType
  <2>2. ASSUME NEW what \in Doing, NEW s \in Session, TakeAutosave(c, what, s)
        PROVE  AwaitInv'
    <3>1. \A j \in Job : job[j].state \in Begun => job'[j] = job[j]
      BY <1>1, <2>2 DEF TakeAutosave, Begun, Running, JobType
    <3>2. ToAwait(s) # NoJob => ToAwait(s) \in Job /\ job[ToAwait(s)].state \in Begun
      BY <1>1 DEF ToAwait, Begun
    <3>3. /\ client'[c].awaits = ToAwait(s)
          /\ \A d \in Client : d # c => client'[d] = client[d]
      BY <1>1, <2>2 DEF TakeAutosave, ClientType
    <3> QED
      BY <1>1, <3>1, <3>2, <3>3 DEF AwaitInv, ClientType
  <2> QED
    BY <1>3, <2>1, <2>2 DEF BeginCall
<1>4. ASSUME NEW c \in Client, CallStep(c)
      PROVE  AwaitInv'
  <2>1. \A d \in Client : client'[d].pc = "taken" => client'[d] = client[d]
    <3>1. \/ client' = [client EXCEPT ![c] = Resting]
          \/ client' = [client EXCEPT ![c].pc = "closing", ![c].awaits = NoJob]
          \/ client' = [client EXCEPT ![c].pc = "fencing", ![c].awaits = NoJob]
      BY <1>4 DEF CallStep, ScheduleAutosave, CancelAutosave, LeaveForClose, Close, LeaveForFence,
                  RevokeDelegation, Rest
    <3>2. \A d \in Client : d # c => client'[d] = client[d]
      BY <1>1, <3>1 DEF ClientType
    <3>3. client'[c].pc # "taken"
      BY <1>1, <3>1 DEF ClientType, Resting
    <3> QED
      BY <3>2, <3>3
  <2>2. \A j \in Job : job[j].state \in Begun => job'[j].state \in Begun
    <3>1. CASE ScheduleAutosave(c)
      BY <1>1, <3>1 DEF ScheduleAutosave, Begun, Running, JobType
    <3>2. CASE UNCHANGED job
      BY <3>2
    <3> QED
      BY <1>4, <3>1, <3>2 DEF CallStep, CancelAutosave, LeaveForClose, Close, LeaveForFence,
                              RevokeDelegation
  <2> QED
    BY <1>2, <2>1, <2>2
<1>5. ASSUME NEW j \in Job,
             Fire(j) \/ RefuseSave(j) \/ SaveStep(j) \/ \E s \in Session : StartSave(j, s)
      PROVE  AwaitInv'
  <2>1. client' = client
    BY <1>5 DEF Fire, RefuseSave, StartSave, SaveStep, AcquirePublication, PublishSave, FinishSave
  <2>2. ASSUME NEW state \in Begun, SetJob(j, state)
        PROVE  \A i \in Job : job[i].state \in Begun => job'[i].state \in Begun
    BY <1>1, <2>2 DEF SetJob, JobType
  <2>3. CASE \E s \in Session : StartSave(j, s)
    BY <1>1, <1>2, <2>1, <2>3 DEF StartSave, Begun, Running, JobType
  <2>4. CASE Fire(j) \/ RefuseSave(j) \/ SaveStep(j)
    <3>1. PICK state \in Begun : SetJob(j, state)
      BY <2>4 DEF Fire, RefuseSave, SaveStep, AcquirePublication, PublishSave, FinishSave, Finished,
                  Begun, Running
    <3> QED
      BY <1>2, <2>1, <2>2, <3>1
  <2> QED
    BY <1>5, <2>3, <2>4
<1>6. CASE RestartSessions
  BY <1>6 DEF RestartSessions, AwaitInv, Resting
<1>7. CASE UNCHANGED sessionVars
  BY <1>7 DEF AwaitInv, sessionVars
<1> QED
  BY <1>3, <1>4, <1>5, <1>6, <1>7 DEF SessionNext, Progress

\* As long as a call or a save is under way, the guard of a next step of one of
\* them holds.  A call waits at most for a save; a save waits at most for a
\* revocation that waits for the fence; and such a revocation, which has given
\* the mutex up, waits at most for saves that hold the fence and need nothing.
THEOREM NobodyBlocks == SessionSpec => []NobodyWaitsForEver
<1>1. SessionInit => AwaitInv
  BY DEF SessionInit, AwaitInv, Resting
<1>2. SessionsInv /\ AwaitInv => NobodyWaitsForEver
  <2> SUFFICES ASSUME SessionsInv, AwaitInv,
                      (\E c \in Client : client[c].pc # "idle") \/ (\E j \in Job : job[j].state \in Running)
               PROVE  (\E c \in Client : MayGo(c)) \/ (\E j \in Job : MaySave(j))
    BY DEF NobodyWaitsForEver
  <2>1. job \in [Job -> JobType] /\ client \in [Client -> ClientType]
    BY DEF SessionsInv, SessionTypes
  <2>2. ASSUME NEW c \in Client, client[c].pc = "fencing"
        PROVE  MayGo(c) \/ \E j \in Job : MaySave(j)
    BY <2>2 DEF MayGo, MayFence, NoReaders, MaySave
  <2>3. ASSUME NEW j \in Job, job[j].state \in Running
        PROVE  (\E c \in Client : MayGo(c)) \/ (\E i \in Job : MaySave(i))
    BY <2>2, <2>3 DEF Running, MaySave, MayAcquire, WriterWaits
  <2>4. ASSUME NEW c \in Client, client[c].pc = "taken"
        PROVE  MayGo(c) \/ \E j \in Job : job[j].state \in Running
    <3>1. client[c].awaits \in Job \cup {NoJob}
      BY <2>1 DEF ClientType
    <3> QED
      BY <2>4, <3>1 DEF AwaitInv, Begun, MayGo, Awaited
  <2>5. ASSUME NEW c \in Client, client[c].pc = "closing"
        PROVE  MayGo(c)
    BY <2>5 DEF MayGo
  <2>6. \A c \in Client : client[c].pc \in {"idle", "taken", "closing", "fencing"}
    BY <2>1 DEF ClientType
  <2> QED
    BY <2>2, <2>3, <2>4, <2>5, <2>6
<1> QED
  BY <1>1, <1>2, InitSessions, NextSessions, NextAwait, PTL DEF SessionSpec

----------------------------------------------------------------------------
(* Sessions: the types                                                     *)

\* SessionTypes leaves the mutex, the delegation and its history variable out.
SharedTypes ==
  /\ autosaveMu \in Client \cup {NoClient}
  /\ delegation \in [memory : {"live", "revoked"}, disk : {"live", "revoked"}]
  /\ revoked \in BOOLEAN

LEMMA NextShared == SharedTypes /\ [SessionNext]_sessionVars => SharedTypes'
<1> SUFFICES ASSUME SharedTypes, [SessionNext]_sessionVars PROVE SharedTypes'
  OBVIOUS
<1> USE DEF SharedTypes
<1>1. ASSUME NEW c \in Client, BeginCall(c) \/ BeginRevocation(c) PROVE SharedTypes'
  BY <1>1 DEF BeginCall, TakeAutosave, BeginRevocation
<1>2. ASSUME NEW c \in Client, CallStep(c) PROVE SharedTypes'
  <2>1. CASE RevokeDelegation(c)
    <3>1. [delegation EXCEPT !.disk = "revoked"]
            \in [memory : {"live", "revoked"}, disk : {"live", "revoked"}]
      OBVIOUS
    <3>2. delegation' \in [memory : {"live", "revoked"}, disk : {"live", "revoked"}]
      BY <2>1, <3>1 DEF RevokeDelegation
    <3> QED
      BY <2>1, <3>2 DEF RevokeDelegation
  <2>2. CASE ScheduleAutosave(c) \/ CancelAutosave(c) \/ LeaveForClose(c) \/ Close(c) \/ LeaveForFence(c)
    BY <2>2 DEF ScheduleAutosave, CancelAutosave, LeaveForClose, Close, LeaveForFence, Unlock
  <2> QED
    BY <1>2, <2>1, <2>2 DEF CallStep
<1>3. ASSUME NEW j \in Job,
             Fire(j) \/ RefuseSave(j) \/ SaveStep(j) \/ \E s \in Session : StartSave(j, s)
      PROVE  SharedTypes'
  BY <1>3 DEF Fire, RefuseSave, StartSave, SaveStep, AcquirePublication, PublishSave, FinishSave
<1>4. CASE RestartSessions
  BY <1>4 DEF RestartSessions
<1>5. CASE UNCHANGED sessionVars
  BY <1>5 DEF sessionVars
<1> QED
  BY <1>1, <1>2, <1>3, <1>4, <1>5 DEF SessionNext, Progress

\* The types of the sessions, for any callers and saves.
LEMMA SessionTypesHold == SessionSpec => []SessionTypeOK
<1>1. SessionInit => SharedTypes
  <2> SUFFICES ASSUME SessionInit PROVE SharedTypes
    OBVIOUS
  <2>1. autosaveMu = NoClient /\ revoked = FALSE
        /\ delegation = [memory |-> "live", disk |-> "live"]
    BY DEF SessionInit
  <2> QED
    BY <2>1 DEF SharedTypes
<1>2. SessionsInv /\ SharedTypes => SessionTypeOK
  BY DEF SessionsInv, SessionTypes, SharedTypes, SessionTypeOK, JobType, ClientType
<1> QED
  BY <1>1, <1>2, InitSessions, NextSessions, NextShared, PTL DEF SessionSpec

----------------------------------------------------------------------------
(* State backend: the fencing tokens                                       *)

\* What a version holds, whatever the bounds.
AnyContent == [by : Writer, token : Nat, read : Nat, at : Nat]

AnyLease == [owner : Writer \cup {NoWriter}, token : Nat, expires : Nat]
AnyEvent == [version : Nat, id : EventId]

StoreTypes ==
  /\ clock \in Nat
  /\ current \in [version : Nat, lease : AnyLease, fencing : Nat, audits : SUBSET AnyEvent]
  /\ snapshots \in [1 .. MaxVersion -> AnyContent \cup {NoContent}]
  /\ holder \in [Writer -> [token : Nat, read : Nat]]
  /\ writing = Unlocked \/ writing.content \in AnyContent
  /\ written \in Seq(AnyContent)

\* A lease holds the newest token; a write under way has it and extends the
\* current version, and its content is the snapshot of the next one.
WriteUnderWay ==
  /\ current.lease # NoLease => current.lease.token = current.fencing
  /\ \A v \in 1 .. Len(written) : written[v].token <= current.fencing
  /\ ~NoWrite => /\ writing.content.token = current.fencing
                 /\ writing.content.read = current.version
                 /\ current.version + 1 \in 1 .. MaxVersion
                 /\ snapshots[current.version + 1] = writing.content

WritesInv == StoreTypes /\ WriteUnderWay /\ FencedWrites /\ ExportIsCommitted

LEMMA InitWrites == StateInit => WritesInv
<1> SUFFICES ASSUME StateInit PROVE WritesInv
  OBVIOUS
<1>1. StoreTypes
  BY DEF StateInit, StoreTypes, AnyLease, NoLease
<1>2. WriteUnderWay /\ FencedWrites /\ ExportIsCommitted
  BY DEF StateInit, WriteUnderWay, FencedWrites, ExportIsCommitted, NoWrite
<1> QED
  BY <1>1, <1>2 DEF WritesInv

\* Leases come and go while nobody is inside WriteState.
LEMMA LeasesKeepWrites ==
  ASSUME WritesInv, NEW w \in Writer, AcquireLease(w) \/ RenewLease(w) \/ ReleaseLease(w)
  PROVE  WritesInv'
<1> USE DEF WritesInv, NoWrite
<1>1. Expiry \in Nat
  BY StateAssumption DEF Expiry, StoreTypes
<1>2. CASE AcquireLease(w)
  <2> DEFINE token == current.fencing + 1
             lease == [owner |-> w, token |-> token, expires |-> Expiry]
  <2>1. token \in Nat /\ token > current.fencing /\ lease \in AnyLease /\ lease.token = token
    BY <1>1 DEF StoreTypes, AnyLease
  <2>2. /\ current' = [current EXCEPT !.fencing = token, !.lease = lease]
        /\ holder' = [holder EXCEPT ![w].token = token]
        /\ writing = Unlocked /\ UNCHANGED <<clock, snapshots, writing, written>>
    BY <1>2 DEF AcquireLease
  <2> HIDE DEF token, lease
  <2>3. StoreTypes'
    BY <2>1, <2>2 DEF StoreTypes
  <2>4. \A v \in 1 .. Len(written) : written[v].token <= token
    <3> SUFFICES ASSUME NEW v \in 1 .. Len(written) PROVE written[v].token <= token
      OBVIOUS
    <3>1. written[v] \in AnyContent /\ current.fencing \in Nat
      BY DEF StoreTypes
    <3>2. written[v].token \in Nat /\ written[v].token <= current.fencing
      BY <3>1 DEF AnyContent, WriteUnderWay
    <3> QED
      BY <2>1, <3>1, <3>2
  <2>5. current'.version = current.version /\ current'.lease.token = token /\ current'.fencing = token
    BY <2>1, <2>2 DEF StoreTypes
  <2>6. WriteUnderWay'
    BY <2>2, <2>4, <2>5 DEF WriteUnderWay
  <2>7. FencedWrites' /\ ExportIsCommitted'
    BY <2>2, <2>5 DEF FencedWrites, ExportIsCommitted
  <2> QED
    BY <2>3, <2>6, <2>7
<1>3. CASE RenewLease(w)
  BY <1>1, <1>3 DEF RenewLease, ValidLease, LeaseActive, StoreTypes, AnyLease, WriteUnderWay,
                    FencedWrites, ExportIsCommitted
<1>4. CASE ReleaseLease(w)
  <2>1. NoLease \in AnyLease
    BY DEF NoLease, AnyLease
  <2>2. current' = [current EXCEPT !.lease = NoLease]
        /\ UNCHANGED <<clock, snapshots, holder, writing, written>> /\ writing = Unlocked
    BY <1>4 DEF ReleaseLease
  <2> QED
    BY <2>1, <2>2 DEF StoreTypes, WriteUnderWay, FencedWrites, ExportIsCommitted
<1> QED
  BY <1>2, <1>3, <1>4

\* The snapshot of the next version is not one of a committed version.
LEMMA SnapshotKeepsWrites ==
  ASSUME WritesInv, NEW w \in Writer, WriteState(w)
  PROVE  WritesInv'
<1> USE DEF WritesInv
<1> DEFINE v == current.version + 1
           content == [by |-> w, token |-> holder[w].token, read |-> holder[w].read, at |-> clock]
<1>1. content \in AnyContent /\ v \in 1 .. MaxVersion
  BY StateAssumption DEF WriteState, StoreTypes, AnyContent
<1>2. /\ content.token = current.fencing /\ content.read = current.version
      /\ writing' = [by |-> w, content |-> content]
      /\ snapshots' = [snapshots EXCEPT ![v] = content]
      /\ UNCHANGED <<clock, current, holder, written>>
  BY DEF WriteState, WriteSnapshot, WriteUnderWay, ValidLease, LeaseActive
<1> HIDE DEF content
<1>3. StoreTypes'
  BY <1>1, <1>2 DEF StoreTypes
<1>4. WriteUnderWay'
  BY <1>1, <1>2 DEF StoreTypes, WriteUnderWay
<1>5. FencedWrites' /\ ExportIsCommitted'
  BY <1>1, <1>2 DEF StoreTypes, FencedWrites, ExportIsCommitted
<1> QED
  BY <1>3, <1>4, <1>5

\* The write of current.json commits the version that is under way.
LEMMA SaveKeepsWrites ==
  ASSUME WritesInv, SaveState
  PROVE  WritesInv'
<1> USE DEF WritesInv
<1> DEFINE v == current.version + 1
           content == writing.content
<1>1. /\ content \in AnyContent /\ content.token = current.fencing
      /\ content.read = current.version /\ snapshots[v] = content
  BY DEF SaveState, StoreTypes, WriteUnderWay, NoWrite
<1>2. /\ written' = Append(written, content) /\ current' = [current EXCEPT !.version = v]
      /\ writing' = Unlocked /\ UNCHANGED <<clock, snapshots, holder>>
  BY DEF SaveState
<1> HIDE DEF content
<1>3. /\ Len(written) = current.version /\ Len(written') = v
      /\ \A i \in 1 .. Len(written) : written'[i] = written[i]
      /\ written'[v] = content
  BY <1>1, <1>2 DEF StoreTypes, FencedWrites
<1>4. StoreTypes'
  <2>1. v \in Nat
    BY DEF StoreTypes
  <2>2. current' \in [version : Nat, lease : AnyLease, fencing : Nat, audits : SUBSET AnyEvent]
    BY <1>2, <2>1 DEF StoreTypes
  <2>3. written' \in Seq(AnyContent)
    BY <1>1, <1>2 DEF StoreTypes
  <2> QED
    BY <1>1, <1>2, <2>2, <2>3 DEF StoreTypes
<1>5. current'.fencing = current.fencing /\ current'.lease = current.lease /\ current'.version = v
  BY <1>2 DEF StoreTypes
<1>6. WriteUnderWay'
  BY <1>1, <1>2, <1>3, <1>5 DEF StoreTypes, WriteUnderWay, AnyContent, NoWrite
<1>7. FencedWrites'
  <2>1. \A i \in 1 .. v : written'[i].read = i - 1
    BY <1>1, <1>3 DEF StoreTypes, FencedWrites
  <2>2. \A i \in 1 .. v : i > 1 => written'[i - 1].token <= written'[i].token
    <3> SUFFICES ASSUME NEW i \in 1 .. v, i > 1
                 PROVE  written'[i - 1].token <= written'[i].token
      OBVIOUS
    <3>1. i - 1 \in 1 .. Len(written) /\ written'[i - 1] = written[i - 1]
      BY <1>3 DEF StoreTypes
    <3>2. CASE i = v
      BY <1>1, <1>3, <3>1, <3>2 DEF WriteUnderWay
    <3>3. CASE i # v
      <4>1. i \in 1 .. Len(written)
        BY <1>3, <3>3 DEF StoreTypes
      <4> QED
        BY <1>3, <3>1, <4>1 DEF FencedWrites
    <3> QED
      BY <3>2, <3>3
  <2> QED
    BY <1>3, <1>5, <2>1, <2>2 DEF FencedWrites
<1>8. ExportIsCommitted'
  BY <1>1, <1>2, <1>3, <1>5 DEF StoreTypes, ExportIsCommitted
<1> QED
  BY <1>4, <1>6, <1>7, <1>8

LEMMA OthersKeepWrites ==
  ASSUME WritesInv,
         \/ Tick \/ SaveFails \/ ListAuditEvents \/ UNCHANGED stateVars
         \/ \E w \in Writer : GetHead(w) \/ \E id \in EventId : AppendAuditEvent(w, id)
  PROVE  WritesInv'
<1> USE DEF WritesInv
<1>1. StoreTypes'
  <2>1. CASE Tick \/ SaveFails \/ ListAuditEvents \/ UNCHANGED stateVars
    BY <2>1 DEF StoreTypes, Tick, SaveFails, ListAuditEvents, stateVars
  <2>2. CASE \E w \in Writer : GetHead(w)
    BY <2>2 DEF StoreTypes, GetHead
  <2>3. ASSUME NEW w \in Writer, NEW id \in EventId, AppendAuditEvent(w, id)
        PROVE  StoreTypes'
    <3>1. [version |-> current.version, id |-> id] \in AnyEvent
      BY DEF StoreTypes, AnyEvent
    <3> QED
      BY <2>3, <3>1 DEF StoreTypes, AppendAuditEvent
  <2> QED
    BY <2>1, <2>2, <2>3
<1>2. /\ current'.version = current.version /\ current'.fencing = current.fencing
      /\ current'.lease = current.lease
      /\ UNCHANGED <<snapshots, written>> /\ (writing' = writing \/ writing' = Unlocked)
  BY DEF StoreTypes, Tick, SaveFails, ListAuditEvents, GetHead, AppendAuditEvent, stateVars
<1>3. WriteUnderWay' /\ FencedWrites' /\ ExportIsCommitted'
  BY <1>2 DEF WriteUnderWay, FencedWrites, ExportIsCommitted, NoWrite
<1> QED
  BY <1>1, <1>3

LEMMA NextWrites == WritesInv /\ [StateNext]_stateVars => WritesInv'
BY LeasesKeepWrites, SnapshotKeepsWrites, SaveKeepsWrites, OthersKeepWrites DEF StateNext

\* Every version extends the one its writer had read, and no version is written
\* with an older token than the version before it.
THEOREM WritesAreFenced == StateSpec => []FencedWrites
<1>1. WritesInv => FencedWrites
  BY DEF WritesInv
<1> QED
  BY <1>1, InitWrites, NextWrites, PTL DEF StateSpec

\* The snapshot file of a committed version is what was committed.
THEOREM SnapshotsAreCommitted == StateSpec => []ExportIsCommitted
<1>1. WritesInv => ExportIsCommitted
  BY DEF WritesInv
<1> QED
  BY <1>1, InitWrites, NextWrites, PTL DEF StateSpec

----------------------------------------------------------------------------
(* State backend: the order of the audit events                            *)

LEMMA BeforeIsAnOrder ==
  /\ \A a \in AnyEvent : ~Before(a, a)
  /\ \A a, b \in AnyEvent : a # b => Before(a, b) \/ Before(b, a)
  /\ \A a, b, c \in AnyEvent : Before(a, b) /\ Before(b, c) => Before(a, c)
<1>1. \A a \in AnyEvent : a.version \in Nat /\ a.id \in Nat
  BY StateAssumption DEF AnyEvent
<1>2. \A a, b \in AnyEvent : a.version = b.version /\ a.id = b.id => a = b
  BY DEF AnyEvent
<1> QED
  BY <1>1, <1>2 DEF Before

\* The place of an event in the file: how many come before it, and one.
Rank(S, a) == Cardinality({b \in S : Before(b, a)}) + 1

LEMMA RankFacts ==
  ASSUME NEW S \in SUBSET AnyEvent, IsFiniteSet(S)
  PROVE  /\ \A a \in S : Rank(S, a) \in 1 .. Cardinality(S)
         /\ \A a, b \in S : Before(a, b) => Rank(S, a) < Rank(S, b)
<1>0. Cardinality(S) \in Nat
  BY FS_CardinalityType
<1>1. ASSUME NEW a \in S PROVE Rank(S, a) \in 1 .. Cardinality(S)
  <2> DEFINE T == {b \in S : Before(b, a)}
  <2>1. T \subseteq S \ {a}
    BY BeforeIsAnOrder
  <2>2. IsFiniteSet(S \ {a}) /\ Cardinality(S \ {a}) = Cardinality(S) - 1
    BY FS_RemoveElement
  <2>3. IsFiniteSet(T) /\ Cardinality(T) <= Cardinality(S) - 1
    BY <2>1, <2>2, FS_Subset
  <2>4. Cardinality(T) \in Nat
    BY <2>3, FS_CardinalityType
  <2> QED
    BY <1>0, <2>3, <2>4 DEF Rank
<1>2. ASSUME NEW a \in S, NEW b \in S, Before(a, b) PROVE Rank(S, a) < Rank(S, b)
  <2> DEFINE T == {c \in S : Before(c, a)}
             U == {c \in S : Before(c, b)}
  <2>1. T \cup {a} \subseteq U /\ a \notin T
    BY <1>2, BeforeIsAnOrder
  <2>2. IsFiniteSet(T) /\ IsFiniteSet(U)
    BY FS_Subset
  <2>3. Cardinality(T \cup {a}) = Cardinality(T) + 1
    BY <2>1, <2>2, FS_AddElement
  <2>4. Cardinality(T \cup {a}) <= Cardinality(U)
    BY <2>1, <2>2, FS_Subset
  <2>5. Cardinality(T) \in Nat /\ Cardinality(U) \in Nat
    BY <2>2, FS_CardinalityType
  <2> QED
    BY <2>3, <2>4, <2>5 DEF Rank
<1> QED
  BY <1>1, <1>2

\* No function from a finite set into one of its proper parts is injective.
LEMMA EveryRankIsTaken ==
  ASSUME NEW S \in SUBSET AnyEvent, IsFiniteSet(S), NEW k \in 1 .. Cardinality(S)
  PROVE  \E a \in S : Rank(S, a) = k
<1> DEFINE n == Cardinality(S)
           f == [a \in S |-> Rank(S, a)]
<1>1. SUFFICES ASSUME \A a \in S : Rank(S, a) # k PROVE FALSE
  OBVIOUS
<1>2. n \in Nat /\ IsFiniteSet(1 .. n) /\ Cardinality(1 .. n) = n
  BY FS_CardinalityType, FS_Interval
<1>3. IsFiniteSet((1 .. n) \ {k}) /\ Cardinality((1 .. n) \ {k}) = n - 1
  BY <1>2, FS_RemoveElement
<1>4. f \in [S -> (1 .. n) \ {k}]
  BY <1>1, RankFacts
<1>5. Cardinality((1 .. n) \ {k}) < Cardinality(S)
  BY <1>2, <1>3
<1> HIDE DEF f
<1>6. PICK a, b \in S : a # b /\ f[a] = f[b]
  BY <1>3, <1>4, <1>5, FS_PigeonHole
<1>7. Rank(S, a) = Rank(S, b)
  BY <1>6 DEF f
<1>8. Rank(S, a) \in Nat /\ Rank(S, b) \in Nat
  BY RankFacts
<1> QED
  BY <1>6, <1>7, <1>8, RankFacts, BeforeIsAnOrder

\* A set of events can be listed in order, so Sorted is such a list, and it has
\* every event.
Increasing(s) == \A i, j \in DOMAIN s : i < j => Before(s[i], s[j])

LEMMA SortedExists ==
  ASSUME NEW S \in SUBSET AnyEvent, IsFiniteSet(S)
  PROVE  \E s \in [1 .. Cardinality(S) -> S] :
           \A i, j \in 1 .. Cardinality(S) : i < j => Before(s[i], s[j])
<1> DEFINE n == Cardinality(S)
           at(k) == CHOOSE a \in S : Rank(S, a) = k
           s == [k \in 1 .. n |-> at(k)]
<1>1. \A k \in 1 .. n : at(k) \in S /\ Rank(S, at(k)) = k
  BY EveryRankIsTaken
<1> HIDE DEF at
<1>2. s \in [1 .. n -> S]
  BY <1>1
<1>3. ASSUME NEW i \in 1 .. n, NEW j \in 1 .. n, i < j PROVE Before(s[i], s[j])
  <2>1. s[i] = at(i) /\ s[j] = at(j)
    OBVIOUS
  <2>2. at(i) # at(j) /\ ~Before(at(j), at(i))
    <3>1. Rank(S, at(i)) = i /\ Rank(S, at(j)) = j
      BY <1>1
    <3>2. Before(at(j), at(i)) => j < i
      BY <1>1, <3>1, RankFacts
    <3> QED
      BY <1>3, <3>1, <3>2
  <2> QED
    BY <1>1, <2>1, <2>2, BeforeIsAnOrder
<1> QED
  BY <1>2, <1>3

LEMMA SortedFacts ==
  ASSUME NEW S \in SUBSET AnyEvent, IsFiniteSet(S)
  PROVE  /\ Sorted(S) \in [1 .. Cardinality(S) -> S]
         /\ \A i, j \in 1 .. Cardinality(S) : i < j => Before(Sorted(S)[i], Sorted(S)[j])
         /\ \A a \in S : \E i \in 1 .. Cardinality(S) : Sorted(S)[i] = a
<1> DEFINE n == Cardinality(S)
<1>1. /\ Sorted(S) \in [1 .. n -> S]
      /\ \A i, j \in 1 .. n : i < j => Before(Sorted(S)[i], Sorted(S)[j])
  BY SortedExists DEF Sorted
<1>2. PICK s : s = Sorted(S)
  OBVIOUS
<1>3. ASSUME NEW a \in S, \A i \in 1 .. n : s[i] # a PROVE FALSE
  <2>1. n \in Nat /\ IsFiniteSet(1 .. n) /\ Cardinality(1 .. n) = n
    BY FS_CardinalityType, FS_Interval
  <2>2. IsFiniteSet(S \ {a}) /\ Cardinality(S \ {a}) < n
    <3>1. IsFiniteSet(S \ {a}) /\ Cardinality(S \ {a}) = Cardinality(S) - 1
      BY <1>3, FS_RemoveElement
    <3> QED
      BY <2>1, <3>1
  <2>3. s \in [1 .. n -> S \ {a}]
    BY <1>1, <1>2, <1>3
  <2>4. PICK i, j \in 1 .. n : i # j /\ s[i] = s[j]
    BY <2>1, <2>2, <2>3, FS_PigeonHole
  <2>5. Before(s[i], s[j]) \/ Before(s[j], s[i])
    BY <1>1, <1>2, <2>1, <2>4
  <2>6. s[i] \in AnyEvent
    BY <1>1, <1>2
  <2> QED
    BY <2>4, <2>5, <2>6, BeforeIsAnOrder
<1> QED
  BY <1>1, <1>2, <1>3

\* A set of places that goes on to the end is an interval.
LEMMA RestIsInterval ==
  ASSUME NEW n \in Nat, NEW R \in SUBSET (1 .. n), \A i \in R, j \in 1 .. n : i < j => j \in R
  PROVE  /\ Cardinality(R) \in 0 .. n
         /\ R = (n - Cardinality(R) + 1) .. n
<1> DEFINE m == n - Cardinality(R) + 1
<1>1. IsFiniteSet(1 .. n) /\ Cardinality(1 .. n) = n
  BY FS_Interval
<1>2. IsFiniteSet(R) /\ Cardinality(R) \in Nat /\ Cardinality(R) <= n
  BY <1>1, FS_Subset, FS_CardinalityType
<1>3. R \subseteq m .. n
  <2> SUFFICES ASSUME NEW k \in R PROVE k >= m
    BY <1>2
  <2>1. ASSUME NEW j \in k .. n PROVE j \in R
    <3>1. k \in 1 .. n /\ j \in 1 .. n /\ (j = k \/ k < j)
      OBVIOUS
    <3> QED
      BY <3>1
  <2>2. Cardinality(k .. n) = n - k + 1
    BY FS_Interval
  <2>3. Cardinality(k .. n) <= Cardinality(R)
    BY <1>2, <2>1, FS_Subset
  <2> QED
    BY <1>2, <2>2, <2>3
<1>4. IsFiniteSet(m .. n) /\ Cardinality(m .. n) = Cardinality(R)
  <2>1. PICK i \in Int : i = m
    BY <1>2
  <2>2. IsFiniteSet(i .. n) /\ Cardinality(i .. n) = IF i > n THEN 0 ELSE n - i + 1
    BY FS_Interval
  <2> QED
    BY <1>2, <2>1, <2>2
<1>5. m .. n = R
  BY <1>3, <1>4, FS_Subset
<1> QED
  BY <1>2, <1>5

\* What the cursor leaves is the end of the list: the events after the last one
\* that was returned.
LEMMA CursorFacts ==
  ASSUME NEW S \in SUBSET AnyEvent, IsFiniteSet(S), NEW got \in Seq(AnyEvent)
  PROVE  LET rest == AfterCursor(S, got)
             from == Cardinality(S) - Cardinality(rest) IN
         /\ Cardinality(rest) \in Nat /\ from \in Nat
         /\ \A i \in 1 .. Cardinality(rest) :
              /\ Sorted(S)[from + i] \in S
              /\ got # <<>> => Before(got[Len(got)], Sorted(S)[from + i])
         /\ \A i, j \in 1 .. Cardinality(rest) :
              i < j => Before(Sorted(S)[from + i], Sorted(S)[from + j])
         /\ \A a \in S : got = <<>> \/ Before(got[Len(got)], a) =>
              \E i \in 1 .. Cardinality(rest) : Sorted(S)[from + i] = a
<1> DEFINE n == Cardinality(S)
           rest == AfterCursor(S, got)
           from == n - Cardinality(rest)
<1>0. n \in Nat
  BY FS_CardinalityType
<1>1. PICK s : s = Sorted(S)
  OBVIOUS
<1>2. /\ s \in [1 .. n -> S] /\ \A i, j \in 1 .. n : i < j => Before(s[i], s[j])
      /\ \A a \in S : \E i \in 1 .. n : s[i] = a
  BY <1>1, SortedFacts
<1>3. rest = {i \in 1 .. n : got = <<>> \/ Before(got[Len(got)], s[i])}
  BY <1>1, <1>2 DEF AfterCursor
<1>4. got # <<>> => got[Len(got)] \in AnyEvent
  OBVIOUS
<1>5. ASSUME NEW i \in rest, NEW j \in 1 .. n, i < j PROVE j \in rest
  <2>1. i \in 1 .. n
    BY <1>3
  <2>2. s[i] \in AnyEvent /\ s[j] \in AnyEvent /\ Before(s[i], s[j])
    BY <1>2, <1>5, <2>1
  <2> QED
    BY <1>3, <1>4, <2>2, BeforeIsAnOrder
<1>6. rest \in SUBSET (1 .. n)
  BY <1>3
<1> HIDE DEF rest
<1>7. Cardinality(rest) \in 0 .. n /\ rest = (n - Cardinality(rest) + 1) .. n
  BY <1>0, <1>5, <1>6, RestIsInterval
<1>8. Cardinality(rest) \in Nat /\ from \in Nat /\ n = from + Cardinality(rest)
  BY <1>0, <1>7
<1>9. \A i \in 1 .. Cardinality(rest) : from + i \in rest /\ from + i \in 1 .. n
  BY <1>0, <1>7, <1>8
<1>10. \A i \in 1 .. Cardinality(rest) :
         s[from + i] \in S /\ (got # <<>> => Before(got[Len(got)], s[from + i]))
  BY <1>2, <1>3, <1>9
<1>11. \A i, j \in 1 .. Cardinality(rest) : i < j => Before(s[from + i], s[from + j])
  BY <1>2, <1>8, <1>9
<1>12. ASSUME NEW a \in S, got = <<>> \/ Before(got[Len(got)], a)
       PROVE  \E i \in 1 .. Cardinality(rest) : s[from + i] = a
  <2>1. PICK k \in 1 .. n : s[k] = a
    BY <1>2
  <2>2. k \in rest
    BY <1>3, <1>12, <2>1
  <2>3. k - from \in 1 .. Cardinality(rest) /\ from + (k - from) = k
    BY SMTT(30), <1>0, <1>7, <1>8, <2>2
  <2> QED
    BY <2>1, <2>3
<1> QED
  BY <1>1, <1>8, <1>10, <1>11, <1>12 DEF rest

----------------------------------------------------------------------------
(* State backend: a listing                                                *)

AnyListing == [on : BOOLEAN, start : SUBSET AnyEvent, got : Seq(AnyEvent), done : BOOLEAN]
Returned(a) == \E i \in 1 .. Len(listing.got) : listing.got[i] = a

\* The strengthening of AuditListingComplete: events are only added, and what
\* was there at the start is returned already or comes after the last event that
\* was returned.
ListInv ==
  /\ IsFiniteSet(current.audits) /\ listing \in AnyListing
  /\ listing.start \subseteq current.audits
  /\ ~listing.on => listing.got = <<>> /\ ~listing.done
  /\ \A i \in 2 .. Len(listing.got) : Before(listing.got[i - 1], listing.got[i])
  /\ \A a \in listing.start :
       \/ Returned(a)
       \/ ~listing.done /\ (listing.got = <<>> \/ Before(listing.got[Len(listing.got)], a))

LEMMA InitList == StateInit => ListInv
<1> SUFFICES ASSUME StateInit PROVE ListInv
  OBVIOUS
<1>1. IsFiniteSet(current.audits)
  BY FS_EmptySet DEF StateInit
<1>2. listing \in AnyListing /\ listing.got = <<>>
  BY DEF StateInit, NoListing, AnyListing
<1> QED
  BY <1>1, <1>2 DEF StateInit, ListInv, NoListing

\* The steps of the writers: an event is added at most.
LEMMA WritersKeepList ==
  ASSUME ListInv, WritesInv, UNCHANGED listing,
         UNCHANGED current.audits \/ \E e \in AnyEvent : current'.audits = current.audits \cup {e}
  PROVE  ListInv'
<1>1. IsFiniteSet(current'.audits) /\ current.audits \subseteq current'.audits
  BY FS_AddElement DEF ListInv
<1> QED
  BY <1>1 DEF ListInv, Returned

\* A page goes on after the last event that was returned, and reaches the end of
\* the file or is full.
LEMMA PageKeepsList ==
  ASSUME ListInv, WritesInv, ListAuditEvents
  PROVE  ListInv'
<1>0. PICK S : S = current.audits
  OBVIOUS
<1>1. PICK got : got = listing.got
  OBVIOUS
<1>2. S \in SUBSET AnyEvent /\ IsFiniteSet(S) /\ got \in Seq(AnyEvent)
  BY <1>0, <1>1 DEF ListInv, AnyListing, WritesInv, StoreTypes
<1>3. PICK from, r : from = Cardinality(S) - Cardinality(AfterCursor(S, got)) /\ r = Cardinality(AfterCursor(S, got))
  OBVIOUS
<1>4. PICK s : s = Sorted(S)
  OBVIOUS
<1>5. r \in Nat /\ from \in Nat
  BY <1>2, <1>3, CursorFacts
<1>6. \A i \in 1 .. r : s[from + i] \in S /\ (got # <<>> => Before(got[Len(got)], s[from + i]))
  BY <1>2, <1>3, <1>4, CursorFacts
<1>7. \A i, j \in 1 .. r : i < j => Before(s[from + i], s[from + j])
  BY <1>2, <1>3, <1>4, CursorFacts
<1>8. \A a \in S : got = <<>> \/ Before(got[Len(got)], a) => \E i \in 1 .. r : s[from + i] = a
  BY <1>2, <1>3, <1>4, CursorFacts
<1>9. PICK n : n = IF r < PageSize THEN r ELSE PageSize
  OBVIOUS
<1>10. n \in Nat /\ n <= r /\ (n < r => n >= 1)
  BY <1>5, <1>9, StateAssumption
<1>11. PICK page : page = [i \in 1 .. n |-> s[from + i]]
  OBVIOUS
<1>12. page \in Seq(AnyEvent) /\ Len(page) = n /\ \A i \in 1 .. n : page[i] = s[from + i]
  <2>1. ASSUME NEW i \in 1 .. n PROVE s[from + i] \in AnyEvent
    <3>1. i \in 1 .. r
      BY <1>5, <1>10
    <3>2. s[from + i] \in S
      BY <1>6, <3>1
    <3> QED
      BY <1>2, <3>2
  <2> QED
    BY <1>10, <1>11, <2>1
<1>13. PICK start : start = IF listing.on THEN listing.start ELSE S
  OBVIOUS
<1>14. /\ listing' = [on |-> TRUE, start |-> start, got |-> got \o page, done |-> (n = r)]
       /\ UNCHANGED current
  BY <1>0, <1>1, <1>3, <1>4, <1>9, <1>11, <1>13 DEF ListAuditEvents
<1>15. start \subseteq S /\ start \in SUBSET AnyEvent
  BY <1>0, <1>2, <1>13 DEF ListInv
<1>16. /\ got \o page \in Seq(AnyEvent) /\ Len(got \o page) = Len(got) + n
       /\ \A i \in 1 .. Len(got) : (got \o page)[i] = got[i]
       /\ \A i \in 1 .. n : (got \o page)[Len(got) + i] = page[i]
  BY <1>2, <1>12
<1>17. PICK all : all = got \o page
  OBVIOUS
<1>18. Len(got) \in Nat /\ (Len(got) = 0 <=> got = <<>>)
  BY <1>2
<1>19. \A i \in 2 .. Len(all) : Before(all[i - 1], all[i])
  <2> SUFFICES ASSUME NEW i \in 2 .. Len(got) + n PROVE Before(all[i - 1], all[i])
    BY <1>16, <1>17
  <2>1. CASE i <= Len(got)
    <3>1. i \in 2 .. Len(got) /\ i \in 1 .. Len(got) /\ i - 1 \in 1 .. Len(got)
      BY <1>18, <2>1
    <3> QED
      BY <1>1, <1>16, <1>17, <3>1 DEF ListInv
  <2>2. CASE i = Len(got) + 1
    <3>1. 1 \in 1 .. n /\ i - 1 = Len(got) /\ Len(got) \in 1 .. Len(got) /\ got # <<>>
      BY <1>10, <1>18, <2>2
    <3>2. 1 \in 1 .. r
      BY <1>5, <1>10, <3>1
    <3>3. all[i] = s[from + 1] /\ all[i - 1] = got[Len(got)]
      BY <1>12, <1>16, <1>17, <2>2, <3>1
    <3> QED
      BY <1>6, <3>1, <3>2, <3>3
  <2>3. CASE i > Len(got) + 1
    <3>1. PICK j \in 2 .. n : i = Len(got) + j
      <4>1. i - Len(got) \in 2 .. n /\ i = Len(got) + (i - Len(got))
        BY <1>10, <1>18, <2>3
      <4> QED
        BY <4>1
    <3>2. j \in 1 .. n /\ j - 1 \in 1 .. n /\ i - 1 = Len(got) + (j - 1)
      BY <1>10, <1>18, <3>1
    <3>3. all[i] = s[from + j] /\ all[i - 1] = s[from + (j - 1)]
      BY <1>12, <1>16, <1>17, <3>1, <3>2
    <3>4. j \in 1 .. r /\ j - 1 \in 1 .. r /\ j - 1 < j
      BY <1>5, <1>10, <3>2
    <3> QED
      BY <1>7, <3>3, <3>4
  <2> QED
    BY <1>18, <2>1, <2>2, <2>3
<1>20. ASSUME NEW a \in start
       PROVE  \/ \E i \in 1 .. Len(all) : all[i] = a
              \/ n # r /\ Before(all[Len(all)], a)
  <2>1. CASE \E i \in 1 .. Len(got) : got[i] = a
    <3>1. PICK i \in 1 .. Len(got) : got[i] = a
      BY <2>1
    <3>2. i \in 1 .. Len(all) /\ all[i] = a
      BY <1>10, <1>16, <1>17, <1>18, <3>1
    <3> QED
      BY <3>2
  <2>2. CASE got = <<>> \/ Before(got[Len(got)], a)
    <3>1. PICK k \in 1 .. r : s[from + k] = a
      BY <1>8, <1>15, <2>2
    <3>2. CASE k <= n
      <4>1. k \in 1 .. n
        BY <1>5, <1>10, <3>2
      <4>2. Len(got) + k \in 1 .. Len(all) /\ all[Len(got) + k] = a
        BY <1>10, <1>12, <1>16, <1>17, <1>18, <3>1, <4>1
      <4> QED
        BY <4>2
    <3>3. CASE n < k
      <4>1. n < r /\ n \in 1 .. n /\ n \in 1 .. r
        BY <1>5, <1>10, <3>3
      <4>2. all[Len(all)] = s[from + n]
        BY <1>12, <1>16, <1>17, <4>1
      <4>3. Before(s[from + n], s[from + k])
        BY <1>7, <3>3, <4>1
      <4> QED
        BY <1>5, <1>10, <3>1, <4>1, <4>2, <4>3
    <3> QED
      BY <1>5, <1>10, <3>2, <3>3
  <2>3. listing.on => start = listing.start
    BY <1>13
  <2>4. listing.on => (\E i \in 1 .. Len(got) : got[i] = a) \/ got = <<>> \/ Before(got[Len(got)], a)
    BY <1>1, <2>3 DEF ListInv, Returned
  <2>5. ~listing.on => got = <<>>
    BY <1>1 DEF ListInv
  <2> QED
    BY <2>1, <2>2, <2>4, <2>5
<1>21. /\ listing'.on = TRUE /\ listing'.start = start /\ listing'.got = all
       /\ listing'.done = (n = r)
  BY <1>14, <1>17
<1>22. listing' \in AnyListing
  BY <1>14, <1>15, <1>16 DEF AnyListing
<1>23. \A a \in start : Returned(a)' \/ (~listing'.done /\ Before(all[Len(all)], a))
  BY <1>20, <1>21 DEF Returned
<1> QED
  BY <1>0, <1>2, <1>14, <1>15, <1>19, <1>21, <1>22, <1>23 DEF ListInv

LEMMA NextList == ListInv /\ WritesInv /\ [StateNext]_stateVars => ListInv'
<1> SUFFICES ASSUME ListInv, WritesInv, [StateNext]_stateVars PROVE ListInv'
  OBVIOUS
<1>1. CASE ListAuditEvents
  BY <1>1, PageKeepsList
<1>2. ASSUME NEW w \in Writer, NEW id \in EventId, AppendAuditEvent(w, id) PROVE ListInv'
  <2>1. [version |-> current.version, id |-> id] \in AnyEvent
    BY DEF WritesInv, StoreTypes, AnyEvent
  <2>2. /\ current'.audits = current.audits \cup {[version |-> current.version, id |-> id]}
        /\ UNCHANGED listing
    BY <1>2 DEF AppendAuditEvent, WritesInv, StoreTypes
  <2> QED
    BY <2>1, <2>2, WritersKeepList
<1>3. CASE UNCHANGED listing /\ UNCHANGED current.audits
  BY <1>3, WritersKeepList
<1>4. CASE \/ Tick \/ SaveState \/ SaveFails \/ UNCHANGED stateVars
           \/ \E w \in Writer : \/ AcquireLease(w) \/ RenewLease(w) \/ ReleaseLease(w)
                                \/ GetHead(w) \/ WriteState(w)
  <2>1. UNCHANGED listing /\ UNCHANGED current.audits
    BY <1>4 DEF Tick, SaveState, SaveFails, AcquireLease, RenewLease, ReleaseLease, GetHead, WriteState,
      stateVars, WritesInv, StoreTypes
  <2> QED
    BY <1>3, <2>1
<1> QED
  BY <1>1, <1>2, <1>4 DEF StateNext

\* A complete listing has every event that was there when it began, each once
\* and in order, whatever is added between its pages (state.go,
\* ListAuditEvents and parseAuditCursor), for any number of events and any
\* size of a page.
THEOREM ListingsAreComplete == StateSpec => []AuditListingComplete
<1>1. ListInv => AuditListingComplete
  <2> SUFFICES ASSUME ListInv PROVE AuditListingComplete
    OBVIOUS
  <2>1. listing.got \in Seq(AnyEvent)
    BY DEF ListInv, AnyListing
  <2>2. DOMAIN listing.got = 1 .. Len(listing.got)
    BY <2>1
  <2> QED
    BY <2>2 DEF ListInv, Returned, AuditListingComplete
<1> QED
  BY <1>1, InitWrites, NextWrites, InitList, NextList, PTL DEF StateSpec

----------------------------------------------------------------------------
(* State backend: the types                                                *)

\* What StoreTypes leaves open is bounded.
LEMMA StateConstants ==
  /\ 0 \in Version /\ 0 \in Token /\ NoLease \in [owner : Writer \cup {NoWriter}, token : Token,
                                                  expires : 0 .. MaxClock + TTL]
  /\ \A t \in 0 .. MaxClock : t + TTL \in 0 .. MaxClock + TTL
  /\ \A n \in 0 .. MaxClock : n + 1 \in Token
BY StateAssumption DEF Version, Token, NoLease

\* A token is granted from the bounded counter only and a version is written
\* below the bound; a page has events of the file.
LEMMA NextStateTypes ==
  ASSUME WritesInv, ListInv, StateTypeOK, [StateNext]_stateVars
  PROVE  StateTypeOK'
<1> USE DEF StateTypeOK
<1>0. /\ current \in [version : Nat, lease : AnyLease, fencing : Nat, audits : SUBSET AnyEvent]
      /\ snapshots \in [1 .. MaxVersion -> AnyContent \cup {NoContent}]
      /\ listing \in AnyListing
  BY DEF WritesInv, StoreTypes, ListInv
<1>1. CASE Tick
  <2>1. clock' \in 0 .. MaxClock /\ UNCHANGED <<current, snapshots, holder, writing, written, listing>>
    BY <1>1, StateAssumption DEF Tick
  <2> QED
    BY <2>1
<1>2. ASSUME NEW w \in Writer, AcquireLease(w) PROVE StateTypeOK'
  <2> DEFINE token == current.fencing + 1
             lease == [owner |-> w, token |-> token, expires |-> Expiry]
  <2>1. token \in Token /\ Expiry \in 0 .. MaxClock + TTL
    BY <1>2, StateConstants DEF AcquireLease, Expiry
  <2>2. lease \in [owner : Writer \cup {NoWriter}, token : Token, expires : 0 .. MaxClock + TTL]
    BY <2>1
  <2>3. /\ current' = [current EXCEPT !.fencing = token, !.lease = lease]
        /\ holder' = [holder EXCEPT ![w].token = token]
        /\ UNCHANGED <<clock, snapshots, writing, written, listing>>
    BY <1>2 DEF AcquireLease
  <2> HIDE DEF token, lease
  <2> QED
    BY <1>0, <2>1, <2>2, <2>3
<1>3. ASSUME NEW w \in Writer, RenewLease(w) PROVE StateTypeOK'
  <2>1. Expiry \in 0 .. MaxClock + TTL
    BY StateConstants DEF Expiry
  <2>2. [current.lease EXCEPT !.expires = Expiry]
          \in [owner : Writer \cup {NoWriter}, token : Token, expires : 0 .. MaxClock + TTL]
    BY <2>1
  <2>3. /\ current' = [current EXCEPT !.lease = [current.lease EXCEPT !.expires = Expiry]]
        /\ UNCHANGED <<clock, snapshots, holder, writing, written, listing>>
    BY <1>0, <1>3 DEF RenewLease
  <2> QED
    BY <1>0, <2>2, <2>3
<1>4. ASSUME NEW w \in Writer, ReleaseLease(w) PROVE StateTypeOK'
  BY <1>0, <1>4, StateConstants DEF ReleaseLease
<1>5. ASSUME NEW w \in Writer, GetHead(w) PROVE StateTypeOK'
  BY <1>5 DEF GetHead
<1>6. ASSUME NEW w \in Writer, WriteState(w) PROVE StateTypeOK'
  <2> DEFINE v == current.version + 1
             content == [by |-> w, token |-> holder[w].token, read |-> holder[w].read, at |-> clock]
  <2>1. content \in Content
    BY DEF Content
  <2>2. /\ snapshots' = [snapshots EXCEPT ![v] = content]
        /\ writing' = [by |-> w, content |-> content]
        /\ UNCHANGED <<clock, current, holder, written, listing>>
    BY <1>6 DEF WriteState, WriteSnapshot
  <2> HIDE DEF content
  <2> QED
    BY <1>0, <2>1, <2>2
<1>7. CASE SaveState
  <2>1. writing.content \in Content /\ current.version + 1 \in Version
    BY <1>0, <1>7, StateAssumption DEF SaveState, NoWrite, WritesInv, WriteUnderWay, Version
  <2>2. /\ current' = [current EXCEPT !.version = current.version + 1]
        /\ written' = Append(written, writing.content) /\ writing' = Unlocked
        /\ UNCHANGED <<clock, snapshots, holder, listing>>
    BY <1>7 DEF SaveState
  <2>3. written' \in Seq(Content)
    BY <2>1, <2>2
  <2> QED
    BY <1>0, <2>1, <2>2, <2>3
<1>8. CASE SaveFails
  BY <1>8 DEF SaveFails
<1>9. ASSUME NEW w \in Writer, NEW id \in EventId, AppendAuditEvent(w, id) PROVE StateTypeOK'
  <2>1. [version |-> current.version, id |-> id] \in Event
    BY DEF Event
  <2> QED
    BY <1>0, <1>9, <2>1 DEF AppendAuditEvent
<1>10. CASE ListAuditEvents
  <2>1. PICK S, got : S = current.audits /\ got = listing.got
    OBVIOUS
  <2>2. PICK from, r, s : /\ r = Cardinality(AfterCursor(S, got))
                          /\ from = Cardinality(S) - r /\ s = Sorted(S)
    OBVIOUS
  <2>3. S \in SUBSET AnyEvent /\ IsFiniteSet(S) /\ got \in Seq(AnyEvent) /\ S \subseteq Event
    BY <1>0, <2>1 DEF AnyListing, ListInv
  <2>4. r \in Nat /\ \A i \in 1 .. r : s[from + i] \in S
    BY <2>2, <2>3, CursorFacts
  <2>5. PICK n : n = IF r < PageSize THEN r ELSE PageSize
    OBVIOUS
  <2>6. PICK page : page = [i \in 1 .. n |-> s[from + i]]
    OBVIOUS
  <2>7. n \in Nat /\ n <= r
    BY <2>4, <2>5, StateAssumption
  <2>8. page \in Seq(Event)
    <3>1. ASSUME NEW i \in 1 .. n PROVE s[from + i] \in Event
      <4>1. i \in 1 .. r
        BY <2>4, <2>7
      <4> QED
        BY <2>3, <2>4, <4>1
    <3> QED
      BY <2>6, <2>7, <3>1
  <2>9. /\ listing'.start = IF listing.on THEN listing.start ELSE S
        /\ listing'.got = got \o page
        /\ UNCHANGED <<clock, current, snapshots, holder, writing, written>>
    BY <1>10, <2>1, <2>2, <2>5, <2>6 DEF ListAuditEvents
  <2>10. listing'.start \subseteq Event
    BY <2>3, <2>9
  <2>11. listing'.got \in Seq(Event)
    BY <2>1, <2>8, <2>9
  <2> QED
    BY <2>9, <2>10, <2>11
<1>11. CASE UNCHANGED stateVars
  BY <1>11 DEF stateVars
<1> QED
  BY <1>1, <1>2, <1>3, <1>4, <1>5, <1>6, <1>7, <1>8, <1>9, <1>10, <1>11 DEF StateNext

\* The types of the state backend, for any bounds.
LEMMA StateTypesHold == StateSpec => []StateTypeOK
<1>1. StateInit => StateTypeOK
  <2>1. ASSUME StateInit PROVE StateTypeOK
    <3>1. /\ clock = 0 /\ current.version = 0 /\ current.fencing = 0 /\ current.lease = NoLease
          /\ current.audits = {} /\ snapshots = [v \in 1 .. MaxVersion |-> NoContent]
          /\ holder = [w \in Writer |-> [token |-> 0, read |-> 0]] /\ writing = Unlocked
          /\ written = <<>> /\ listing.start = {} /\ listing.got = <<>>
      BY <2>1 DEF StateInit, NoListing
    <3> QED
      BY <3>1, StateConstants, StateAssumption DEF StateTypeOK
  <2> QED
    BY <2>1
<1>2. WritesInv /\ ListInv /\ StateTypeOK /\ [StateNext]_stateVars => StateTypeOK'
  BY NextStateTypes
<1> QED
  BY <1>1, <1>2, InitWrites, NextWrites, InitList, NextList, PTL DEF StateSpec

----------------------------------------------------------------------------
(* MCP host: the generations                                               *)

\* A call past its first check.
Working(c) == request[c].pc \notin {"idle", "received", "begun"}

\* There is a current generation unless the host is stopped.  A roll-back has
\* cancelled it, and after its wait no call is past its first check, which no
\* call can pass any more.
Fence ==
  /\ mcp.state = "stopped" <=> mcp.current = NoGeneration
  /\ \A c \in ToolCall : Working(c) =>
       request[c].generation = mcp.current /\ mcp.current # NoGeneration
  /\ lifecycle \in {"probing", "transported"} => mcp.state = "starting"
  /\ lifecycle \in {"rollback", "waited"} => mcp.cancelled = TRUE
  /\ lifecycle = "waited" => \A c \in ToolCall : ~Working(c)

FencedInv == McpTypeOK /\ Fence

LEMMA GenerationType ==
  /\ NoGeneration \in HostGeneration
  /\ \A g \in HostGeneration : g < MaxStarts =>
       g + 1 \in HostGeneration /\ g + 1 # NoGeneration
BY McpAssumption DEF NoGeneration, HostGeneration

LEMMA InitFenced == McpInit => FencedInv
<1> SUFFICES ASSUME McpInit PROVE FencedInv
  OBVIOUS
<1>1. McpTypeOK
  BY GenerationType DEF McpInit, McpTypeOK, NoRequest, RequestPc, NoGeneration
<1>2. Fence
  BY DEF McpInit, Fence, Working, NoRequest
<1> QED
  BY <1>1, <1>2 DEF FencedInv

\* Start and Shutdown, and the time to live of the cursors.
LEMMA LifecycleFenced ==
  ASSUME FencedInv,
         \/ Start \/ StartTransport \/ FinishStart \/ RollbackWaited \/ RollbackDone
         \/ Shutdown \/ ShutdownDone \/ \E k \in Cursor : Expire(k)
  PROVE  FencedInv'
<1> USE GenerationType DEF FencedInv, McpTypeOK, Fence, Working
<1>1. CASE Start
  <2> DEFINE g == mcp.generation + 1
  <2>1. g \in HostGeneration /\ g # NoGeneration
    BY <1>1 DEF Start
  <2>2. /\ mcp' = [state |-> "starting", generation |-> g, current |-> g, cancelled |-> FALSE]
        /\ lifecycle' = "probing" /\ UNCHANGED <<transport, request, cursor>>
    BY <1>1 DEF Start
  <2>3. \A c \in ToolCall : ~Working(c)
    BY <1>1 DEF Start
  <2> HIDE DEF g
  <2>4. McpTypeOK'
    BY <2>1, <2>2
  <2>5. Fence'
    BY <2>1, <2>2, <2>3
  <2> QED
    BY <2>4, <2>5
<1>2. CASE StartTransport
  BY ZenonT(40), <1>2 DEF StartTransport, Cancelled
<1>3. CASE FinishStart
  BY ZenonT(40), <1>3 DEF FinishStart, Cancelled
<1>4. CASE RollbackWaited
  BY <1>4 DEF RollbackWaited, Quiescent, InFlight
<1>5. CASE RollbackDone
  BY <1>5 DEF RollbackDone, Stopped
<1>6. CASE Shutdown
  BY <1>6 DEF Shutdown, Cancelled
<1>7. CASE ShutdownDone
  BY <1>7 DEF ShutdownDone, Stopped, Quiescent, InFlight
<1>8. CASE \E k \in Cursor : Expire(k)
  BY <1>8 DEF Expire
<1> QED
  BY <1>1, <1>2, <1>3, <1>4, <1>5, <1>6, <1>7, <1>8

\* A call gets past its first check only in the current generation.
LEMMA RequestFenced ==
  ASSUME FencedInv, NEW c \in ToolCall,
         \/ Receive(c) \/ BeginRequest(c) \/ Probe(c) \/ TakeCursor(c) \/ Preview(c)
         \/ Invoke(c) \/ IssueCursor(c) \/ ReturnRequest(c)
  PROVE  FencedInv'
<1> USE GenerationType DEF FencedInv, McpTypeOK, Fence, Working, RequestPc, Go
<1>1. CASE Receive(c)
  BY <1>1 DEF Receive
<1>2. CASE BeginRequest(c)
  BY <1>2 DEF BeginRequest, NoRequest
<1>3. CASE Probe(c)
  BY <1>3 DEF Probe, Publishable, Serving
<1>4. CASE TakeCursor(c)
  <2>1. /\ UNCHANGED <<mcp, transport, lifecycle>>
        /\ cursor' = cursor \/ \E k \in Cursor : cursor' = [cursor EXCEPT ![k].state = "used"]
    BY <1>4 DEF TakeCursor
  <2>2. PICK pc \in {"previewing", "invoking"} : request' = [request EXCEPT ![c].pc = pc]
    BY <1>4 DEF TakeCursor
  <2>3. Working(c)
    BY <1>4 DEF TakeCursor
  <2>4. McpTypeOK'
    BY <2>1, <2>2
  <2>5. Fence'
    BY <2>1, <2>2, <2>3
  <2> QED
    BY <2>4, <2>5
<1>5. CASE Preview(c)
  BY <1>5 DEF Preview
<1>6. CASE Invoke(c)
  BY <1>6 DEF Invoke
<1>7. CASE IssueCursor(c)
  <2> DEFINE g == request[c].generation
  <2>1. UNCHANGED <<mcp, transport, lifecycle>> /\ request' = [request EXCEPT ![c].pc = "answering"]
    BY <1>7 DEF IssueCursor
  <2>2. \/ cursor' = cursor
        \/ \E k \in Cursor : cursor' = [cursor EXCEPT ![k] = [state |-> "live", generation |-> g]]
    BY <1>7 DEF IssueCursor
  <2>3. Working(c) /\ g \in HostGeneration
    BY <1>7 DEF IssueCursor
  <2> HIDE DEF g
  <2>4. cursor' \in [Cursor -> [state : {"unissued", "live", "used"}, generation : HostGeneration]]
    BY <2>2, <2>3
  <2>5. McpTypeOK' /\ Fence'
    BY <2>1, <2>3, <2>4
  <2> QED
    BY <2>5
<1>8. CASE ReturnRequest(c)
  BY <1>8 DEF ReturnRequest, NoRequest
<1> QED
  BY <1>1, <1>2, <1>3, <1>4, <1>5, <1>6, <1>7, <1>8

LEMMA NextFenced == FencedInv /\ [McpNext]_mcpVars => FencedInv'
<1> SUFFICES ASSUME FencedInv, [McpNext]_mcpVars PROVE FencedInv'
  OBVIOUS
<1>1. CASE UNCHANGED mcpVars
  BY <1>1 DEF FencedInv, McpTypeOK, Fence, Working, mcpVars
<1> QED
  BY <1>1, LifecycleFenced, RequestFenced DEF McpNext

\* No owner's operation runs and no answer goes out for a generation that
\* Shutdown or a failed Start has ended.
THEOREM McpFencing == McpSpec => []OldGenerationIsQuiet
<1>1. FencedInv => OldGenerationIsQuiet
  BY DEF FencedInv, Fence, OldGenerationIsQuiet, Working
<1> QED
  BY <1>1, InitFenced, NextFenced, PTL DEF McpSpec

\* The types of the MCP host.
LEMMA McpTypesHold == McpSpec => []McpTypeOK
<1>1. FencedInv => McpTypeOK
  BY DEF FencedInv
<1> QED
  BY <1>1, InitFenced, NextFenced, PTL DEF McpSpec

----------------------------------------------------------------------------
(* Reviews: the invariant                                                  *)

\* The types and the number of faults, the bound of which is ReviewTypeOK's.
ReviewTypes == ReviewTypeOK /\ writeFaults \in Nat /\ commitErrors \in Nat

\* A state of a proposal, in memory or in the file, that can be: an approved
\* one has an operation of its own, an applied one a revision of its own.
Sound(p, x) ==
  /\ x.status # "none" => x.generation >= 1
  /\ x.status = "approved" => x.pending \in Operation /\ x.pending[1] = p
  /\ x.status = "applied" => x.revision \in 1 .. tip /\ history[x.revision][1] = p
\* What is in memory is in the file, with the same base.
SavedInv ==
  \A p \in Proposal :
    /\ memory[p].status # "none" => disk[p].status # "none" /\ disk[p].base = memory[p].base
    /\ Sound(p, memory[p]) /\ Sound(p, disk[p])

\* A mutation extends the base of its proposal, the one place it can be at; a
\* committed result names it.
HistoryInv ==
  /\ \A i \in 1 .. tip : history[i] # NoOperation =>
       memory[history[i][1]].status # "none" /\ i = memory[history[i][1]].base + 1
  /\ \A o \in Operation : outcomes[o].result = "committed" =>
       outcomes[o].revision \in 1 .. tip /\ history[outcomes[o].revision] = o

HeldInv ==
  ~Free =>
    /\ approval.proposal \in Proposal
    /\ memory[approval.proposal].status = "approved"
    /\ memory[approval.proposal].generation < MaxGeneration
    /\ approval.result = "committed" =>
         /\ approval.revision \in 1 .. tip
         /\ history[approval.revision] = memory[approval.proposal].pending

\* While no commit ends in an error the journal decides every operation at
\* once, and a state that is not yet or no longer in the file is harmless.
OutcomesKnown ==
  /\ \A o \in Operation : outcomes[o].result \in {"none", "committed", "rejected"}
  /\ \A i \in 1 .. tip : history[i] # NoOperation => outcomes[history[i]].result = "committed"
HeldKnown ==
  ~Free =>
    /\ approval.result \in {"none", "committed", "rejected"}
    /\ approval.result = "rejected" =>
         outcomes[memory[approval.proposal].pending].result = "rejected"
\* x may stand for y in the file.
Stands(x, y) ==
  y.status = "approved" =>
    \/ x.status = "applied"
    \/ x.status = "approved" /\ x.pending = y.pending
    \/ outcomes[y.pending].result = "rejected"
Shows(x, i) == x.status = "applied" \/ (x.status = "approved" /\ x.pending = history[i])
ShownInv ==
  \A p \in Proposal :
    /\ Stands(disk[p], memory[p])
    /\ \A i \in 1 .. tip : history[i][1] = p => Shows(memory[p], i) /\ Shows(disk[p], i)
Faultless == commitErrors = 0 => OutcomesKnown /\ HeldKnown /\ ShownInv

ReviewInv == ReviewTypes /\ SavedInv /\ HistoryInv /\ HeldInv /\ Faultless

LEMMA OperationFacts ==
  /\ NoOperation \notin Operation /\ NoOperation[1] = NoProposal
  /\ \A o \in Operation : o[1] \in Proposal
BY ReviewAssumption DEF NoOperation, Operation

\* The entries of the history.
LEMMA HistoryFacts ==
  ASSUME ReviewTypes
  PROVE  /\ tip \in Nat
         /\ \A i \in 1 .. tip : history[i] \in Operation \cup {NoOperation}
         /\ \A i \in 1 .. tip, p \in Proposal : history[i][1] = p => history[i] \in Operation
BY OperationFacts, ReviewAssumption DEF ReviewTypes, ReviewTypeOK, tip

LEMMA AppendFacts ==
  ASSUME ReviewTypes, NEW o \in Operation \cup {NoOperation}, history' = Append(history, o),
         tip < MaxHead
  PROVE  /\ tip' = tip + 1 /\ tip \in Nat /\ tip' <= MaxHead
         /\ \A i \in 1 .. tip : history'[i] = history[i]
         /\ history'[tip + 1] = o
         /\ history' \in Seq(Operation \cup {NoOperation})
BY ReviewAssumption DEF ReviewTypes, ReviewTypeOK, tip

----------------------------------------------------------------------------
(* Reviews: the writes of the snapshot                                     *)

\* The state x may replace that of p: it is sound, keeps the base, and hides
\* neither an approval nor a mutation.
Replaces(p, x) ==
  /\ x \in ProposalState /\ x.status # "none" /\ Sound(p, x)
  /\ memory[p].status # "none" => x.base = memory[p].base
  /\ commitErrors = 0 =>
       /\ Stands(x, memory[p])
       /\ \A i \in 1 .. tip : history[i][1] = p => Shows(x, i)

Writes(p, x) ==
  LET next == [memory EXCEPT ![p] = x] IN
  /\ \/ memory' = next /\ disk' = next
     \/ memory' = memory /\ disk' \in {disk, next}
  /\ UNCHANGED <<history, outcomes, commitErrors>>

LEMMA WritesKeep ==
  ASSUME ReviewInv, NEW p \in Proposal, NEW x, Replaces(p, x), Writes(p, x)
  PROVE  /\ memory' \in [Proposal -> ProposalState] /\ disk' \in [Proposal -> ProposalState]
         /\ SavedInv' /\ HistoryInv'
         /\ commitErrors = 0 => OutcomesKnown' /\ ShownInv'
<1> DEFINE next == [memory EXCEPT ![p] = x]
<1> USE DEF ReviewInv
<1>1. /\ next \in [Proposal -> ProposalState] /\ next[p] = x
      /\ \A q \in Proposal \ {p} : next[q] = memory[q]
  BY DEF ReviewTypes, ReviewTypeOK, Replaces
<1>2. /\ \/ memory' = next /\ disk' = next
         \/ memory' = memory /\ disk' \in {disk, next}
      /\ history' = history /\ outcomes' = outcomes /\ commitErrors' = commitErrors
  BY DEF Writes
<1> HIDE DEF next
<1>3. memory' \in [Proposal -> ProposalState] /\ disk' \in [Proposal -> ProposalState]
  BY <1>1, <1>2 DEF ReviewTypes, ReviewTypeOK
<1>4. \A q \in Proposal : /\ memory'[q] \in {memory[q], next[q]}
                          /\ disk'[q] \in {disk[q], next[q]}
                          /\ memory'[q] # memory[q] => disk'[q] = memory'[q]
  BY <1>2
<1>5. \A q \in Proposal : next[q] = memory[q] \/ (q = p /\ next[q] = x)
  BY <1>1
<1>6. \A q \in Proposal : Sound(q, next[q]) /\ Sound(q, memory[q]) /\ Sound(q, disk[q])
  BY <1>5 DEF SavedInv, Replaces
<1>7. \A q, y : Sound(q, y) => Sound(q, y)'
  <2> SUFFICES ASSUME NEW q, NEW y, Sound(q, y)
               PROVE  (y.status # "none" => y.generation >= 1)
                      /\ (y.status = "approved" => y.pending \in Operation /\ y.pending[1] = q)
                      /\ (y.status = "applied" => y.revision \in 1 .. tip'
                                                 /\ history'[y.revision][1] = q)
    BY DEF Sound
  <2> QED
    BY <1>2 DEF Sound, tip
<1>8. \A q \in Proposal : Sound(q, memory[q])' /\ Sound(q, disk[q])'
  <2> SUFFICES ASSUME NEW q \in Proposal
               PROVE  Sound(q, memory[q])' /\ Sound(q, disk[q])'
    OBVIOUS
  <2>1. PICK m : m = memory'[q]
    OBVIOUS
  <2>2. PICK d : d = disk'[q]
    OBVIOUS
  <2>3. Sound(q, m) /\ Sound(q, d)
    BY <1>4, <1>6, <2>1, <2>2
  <2>4. Sound(q, m)' /\ Sound(q, d)'
    BY <1>7, <2>3
  <2> QED
    BY <2>1, <2>2, <2>4 DEF Sound
<1>9. \A q \in Proposal : memory[q].status # "none" =>
        next[q].status # "none" /\ next[q].base = memory[q].base
  BY <1>5 DEF Replaces
<1>10. \A q \in Proposal : memory'[q].status # "none" =>
         disk'[q].status # "none" /\ disk'[q].base = memory'[q].base
  BY <1>4, <1>9 DEF SavedInv
<1>11. SavedInv'
  BY <1>8, <1>10 DEF SavedInv
<1>12. HistoryInv'
  <2>1. tip' = tip
    BY <1>2 DEF tip
  <2>2. ASSUME NEW i \in 1 .. tip, history[i] # NoOperation
        PROVE  memory'[history[i][1]].status # "none" /\ i = memory'[history[i][1]].base + 1
    <3>1. history[i][1] \in Proposal
      BY <2>2, HistoryFacts, OperationFacts
    <3>2. memory[history[i][1]].status # "none" /\ i = memory[history[i][1]].base + 1
      BY <2>2 DEF HistoryInv
    <3> QED
      BY <3>1, <3>2, <1>4, <1>9
  <2> QED
    BY <1>2, <2>1, <2>2 DEF HistoryInv
<1>13. ASSUME commitErrors = 0
       PROVE  OutcomesKnown' /\ ShownInv'
  <2>1. tip' = tip
    BY <1>2 DEF tip
  <2>2. OutcomesKnown /\ ShownInv
    BY <1>13 DEF Faultless
  <2>3. OutcomesKnown'
    BY <2>1, <2>2, <1>2 DEF OutcomesKnown
  <2>4. \A q \in Proposal : Stands(next[q], memory[q]) /\ Stands(disk[q], memory[q])
                            /\ Stands(next[q], next[q])
    BY <1>5, <1>13, <2>2 DEF ShownInv, Replaces, Stands
  <2>5. \A q \in Proposal : Stands(disk'[q], memory'[q])
    BY <1>2, <2>4
  <2>6. \A q \in Proposal, i \in 1 .. tip : history[i][1] = q =>
           Shows(memory[q], i) /\ Shows(disk[q], i) /\ Shows(next[q], i)
    BY <1>5, <1>13, <2>2 DEF ShownInv, Replaces
  <2>7. \A q \in Proposal, i \in 1 .. tip : history[i][1] = q =>
           Shows(memory'[q], i) /\ Shows(disk'[q], i)
    BY <1>4, <2>6
  <2>8. \A q \in Proposal : Stands(disk[q], memory[q])'
    BY <1>2, <2>5 DEF Stands
  <2>9. \A q \in Proposal, i \in 1 .. tip : history'[i][1] = q =>
           Shows(memory[q], i)' /\ Shows(disk[q], i)'
    BY <1>2, <2>7 DEF Shows
  <2> QED
    BY <2>1, <2>3, <2>8, <2>9 DEF ShownInv
<1> QED
  BY <1>3, <1>11, <1>12, <1>13

\* A Save of a state that may replace that of its proposal.
LEMMA SaveKeeps ==
  ASSUME ReviewInv, NEW p \in Proposal, NEW x, Replaces(p, x),
         Save([memory EXCEPT ![p] = x]), approval' = approval \/ approval' = Quiet,
         Free \/ approval' = Quiet,
         UNCHANGED <<history, seen, outcomes, commitErrors>>
  PROVE  ReviewInv'
<1> DEFINE next == [memory EXCEPT ![p] = x]
<1>1. /\ \/ memory' = next /\ disk' = next
         \/ memory' = memory /\ disk' \in {disk, next}
      /\ writeFaults' = writeFaults \/ (writeFaults' = writeFaults + 1 /\ Faults < MaxReviewFault)
  BY DEF Save
<1>2. Writes(p, x)
  BY <1>1 DEF Writes
<1>3. /\ memory' \in [Proposal -> ProposalState] /\ disk' \in [Proposal -> ProposalState]
      /\ SavedInv' /\ HistoryInv'
      /\ commitErrors = 0 => OutcomesKnown' /\ ShownInv'
  BY <1>2, WritesKeep
<1>4. approval' = Quiet
  BY DEF Free
<1>5. Quiet \in [proposal : Proposal \cup {NoProposal}, revision : 0 .. MaxHead,
                 result : {"none", "committed", "rejected", "needs_review", "error"}]
  BY ReviewAssumption DEF Quiet
<1>6. ReviewTypes'
  <2>1. writeFaults' \in Nat /\ commitErrors' \in Nat
        /\ writeFaults' + commitErrors' <= MaxReviewFault
    BY <1>1, ReviewAssumption DEF ReviewInv, ReviewTypes, ReviewTypeOK, Faults
  <2> QED
    BY <1>3, <1>4, <1>5, <2>1 DEF ReviewInv, ReviewTypes, ReviewTypeOK, tip
<1>7. HeldInv' /\ HeldKnown'
  BY <1>4 DEF HeldInv, HeldKnown, Free
<1>8. Faultless'
  BY <1>3, <1>7 DEF Faultless
<1> QED
  BY <1>3, <1>6, <1>7, <1>8 DEF ReviewInv

\* The shape of a transition that drops the pending commit.
LEMMA ChangedShape ==
  ASSUME ReviewTypes, NEW p \in Proposal, NEW status \in Status,
         memory[p].generation < MaxGeneration
  PROVE  \E x \in ProposalState :
           /\ Changed(p, status) = [memory EXCEPT ![p] = x]
           /\ x.status = status /\ x.generation = memory[p].generation + 1
           /\ x.base = memory[p].base /\ x.revision = memory[p].revision
<1> DEFINE next == Changed(p, status)
           step1 == [memory EXCEPT ![p].status = status]
           step2 == [step1 EXCEPT ![p].pending = NoOperation]
<1>1. memory \in [Proposal -> ProposalState] /\ memory[p] \in ProposalState
  BY DEF ReviewTypes, ReviewTypeOK
<1>2. /\ step1 \in [Proposal -> ProposalState] /\ \A q \in Proposal \ {p} : step1[q] = memory[q]
      /\ step1[p].status = status /\ step1[p].generation = memory[p].generation
      /\ step1[p].base = memory[p].base /\ step1[p].revision = memory[p].revision
  BY <1>1 DEF ProposalState
<1>3. next = [step2 EXCEPT ![p].generation = @ + 1]
  BY DEF Changed
<1> HIDE DEF step1
<1>4. /\ step2 \in [Proposal -> ProposalState] /\ \A q \in Proposal \ {p} : step2[q] = memory[q]
      /\ step2[p].status = status /\ step2[p].generation = memory[p].generation
      /\ step2[p].base = memory[p].base /\ step2[p].revision = memory[p].revision
  BY <1>2 DEF ProposalState
<1> HIDE DEF step2, next
<1>5. memory[p].generation + 1 \in 0 .. MaxGeneration
  BY <1>1, ReviewAssumption DEF ProposalState
<1>6. /\ next \in [Proposal -> ProposalState] /\ \A q \in Proposal \ {p} : next[q] = memory[q]
      /\ next[p].status = status /\ next[p].generation = memory[p].generation + 1
      /\ next[p].base = memory[p].base /\ next[p].revision = memory[p].revision
  BY <1>3, <1>4, <1>5 DEF ProposalState
<1>7. next = [memory EXCEPT ![p] = next[p]] /\ next[p] \in ProposalState
  BY <1>1, <1>6
<1> QED
  BY <1>6, <1>7 DEF next

\* A proposal that is neither approved nor applied has no mutation in the
\* document, so it may take any status but these.
LEMMA OpenMayChange ==
  ASSUME ReviewInv, NEW p \in Proposal, memory[p].status \notin {"none", "approved", "applied"},
         NEW x \in ProposalState, x.status \notin {"none", "approved", "applied"},
         x.generation = memory[p].generation + 1, x.base = memory[p].base
  PROVE  Replaces(p, x)
<1>1. Sound(p, x)
  BY DEF Sound, ReviewInv, ReviewTypes, ReviewTypeOK, ProposalState
<1>2. commitErrors = 0 => \A i \in 1 .. tip : history[i][1] # p
  BY DEF ReviewInv, Faultless, ShownInv, Shows
<1> QED
  BY <1>1, <1>2 DEF Replaces, Stands

LEMMA StepCreate ==
  ASSUME ReviewInv, NEW p \in Proposal, Create(p)
  PROVE  ReviewInv'
<1> DEFINE x == [Unapproved EXCEPT !.status = "proposed", !.generation = 1, !.base = seen]
<1>1. Unapproved \in ProposalState /\ seen \in 0 .. MaxHead
  BY ReviewAssumption
  DEF ReviewInv, ReviewTypes, ReviewTypeOK, ProposalState, Status, Unapproved
<1>2. /\ x = [Unapproved EXCEPT !.status = "proposed", !.generation = 1, !.base = seen]
      /\ "proposed" \in Status /\ 1 \in 0 .. MaxGeneration
  BY ReviewAssumption DEF Status
<1> HIDE DEF x
<1>3. x \in ProposalState /\ x.status = "proposed" /\ x.generation = 1
  BY <1>1, <1>2 DEF ProposalState
<1>4. commitErrors = 0 => \A i \in 1 .. tip : history[i][1] # p
  BY DEF Create, ReviewInv, Faultless, ShownInv, Shows
<1>5. Replaces(p, x)
  BY <1>3, <1>4 DEF Create, Replaces, Sound, Stands
<1>6. Save([memory EXCEPT ![p] = x]) /\ Free /\ approval' = approval
      /\ UNCHANGED <<history, seen, outcomes, commitErrors>>
  BY DEF Create, x
<1> QED
  BY <1>5, <1>6, SaveKeeps

LEMMA StepComment ==
  ASSUME ReviewInv, NEW p \in Proposal, Comment(p)
  PROVE  ReviewInv'
<1> DEFINE x == [memory[p] EXCEPT !.generation = @ + 1]
<1>1. memory \in [Proposal -> ProposalState] /\ memory[p] \in ProposalState
      /\ memory[p].generation < MaxGeneration /\ memory[p].status # "none"
      /\ memory[p].status # "applied"
  BY DEF ReviewInv, ReviewTypes, ReviewTypeOK, Comment, MayChange, Terminal
<1>2. /\ x \in ProposalState /\ x.generation = memory[p].generation + 1
      /\ x.status = memory[p].status /\ x.base = memory[p].base
      /\ x.pending = memory[p].pending /\ x.revision = memory[p].revision
  BY <1>1, ReviewAssumption DEF ProposalState
<1>3. Save([memory EXCEPT ![p] = x]) /\ Free /\ approval' = approval
      /\ UNCHANGED <<history, seen, outcomes, commitErrors>>
  BY <1>1 DEF Comment
<1> HIDE DEF x
<1>4. Sound(p, x)
  BY <1>1, <1>2 DEF ReviewInv, SavedInv, Sound, ProposalState
<1>5. commitErrors = 0 =>
        /\ Stands(x, memory[p])
        /\ \A i \in 1 .. tip : history[i][1] = p => Shows(x, i)
  BY <1>2 DEF ReviewInv, Faultless, ShownInv, Shows, Stands
<1>6. Replaces(p, x)
  BY <1>1, <1>2, <1>4, <1>5 DEF Replaces
<1> QED
  BY <1>3, <1>6, SaveKeeps

\* Withdraw, Supersede and a failed approval of a proposal that is not approved.
LEMMA StepRefuse ==
  ASSUME ReviewInv, NEW p \in Proposal, Withdraw(p) \/ Supersede(p) \/ FailApproval(p)
  PROVE  ReviewInv'
<1>1. PICK status \in Status \ {"none", "approved", "applied"} : Save(Changed(p, status))
  BY DEF Withdraw, Supersede, FailApproval, Status
<1>2. /\ Free /\ approval' = approval /\ UNCHANGED <<history, seen, outcomes, commitErrors>>
      /\ memory[p].generation < MaxGeneration
      /\ memory[p].status \notin {"none", "approved", "applied"}
  BY DEF Withdraw, Supersede, FailApproval, MayChange, Terminal
<1>3. PICK x \in ProposalState :
        /\ Changed(p, status) = [memory EXCEPT ![p] = x]
        /\ x.status = status /\ x.generation = memory[p].generation + 1
        /\ x.base = memory[p].base
  BY <1>1, <1>2, ChangedShape DEF ReviewInv
<1>4. Replaces(p, x)
  BY <1>1, <1>2, <1>3, OpenMayChange
<1>5. Save([memory EXCEPT ![p] = x])
  BY <1>1, <1>3
<1> QED
  BY <1>2, <1>4, <1>5, SaveKeeps

LEMMA StepApprove ==
  ASSUME ReviewInv, NEW p \in Proposal, Approve(p)
  PROVE  ReviewInv'
<1> DEFINE next == WithPending(p)
           o == <<p, memory[p].generation>>
           step1 == [memory EXCEPT ![p].status = "approved"]
<1>1. /\ memory \in [Proposal -> ProposalState] /\ memory[p] \in ProposalState
      /\ memory[p].status \notin {"none", "approved", "applied"}
      /\ memory[p].generation < MaxGeneration /\ Free
      /\ UNCHANGED <<history, seen, outcomes, commitErrors>>
  BY DEF Approve, MayChange, ReviewInv, ReviewTypes, ReviewTypeOK
<1>2. o \in Operation /\ o[1] = p
  BY <1>1, ReviewAssumption
  DEF ReviewInv, SavedInv, Sound, Operation, Generation, ProposalState
<1>3. next = [step1 EXCEPT ![p].pending = o]
  BY DEF WithPending
<1> HIDE DEF o
<1>4. /\ step1 \in [Proposal -> ProposalState] /\ \A q \in Proposal \ {p} : step1[q] = memory[q]
      /\ step1[p].status = "approved" /\ step1[p].generation = memory[p].generation
      /\ step1[p].base = memory[p].base
  BY <1>1 DEF ProposalState, Status
<1> HIDE DEF next, step1
<1>5. /\ next \in [Proposal -> ProposalState] /\ \A q \in Proposal \ {p} : next[q] = memory[q]
      /\ next[p].status = "approved" /\ next[p].generation = memory[p].generation
      /\ next[p].base = memory[p].base /\ next[p].pending = o
  BY <1>2, <1>3, <1>4 DEF ProposalState
<1> DEFINE x == next[p]
<1>6. next = [memory EXCEPT ![p] = x] /\ x \in ProposalState
  BY <1>1, <1>5
<1>7. Sound(p, x)
  BY <1>1, <1>2, <1>5 DEF ReviewInv, SavedInv, Sound
<1>8. commitErrors = 0 => \A i \in 1 .. tip : history[i][1] # p
  BY <1>1 DEF ReviewInv, Faultless, ShownInv, Shows
<1>9. Replaces(p, x)
  BY <1>1, <1>5, <1>6, <1>7, <1>8 DEF Replaces, Stands
<1>10. CASE Saved(next) /\ approval' = Held(p)
  <2>1. Writes(p, x)
    BY <1>1, <1>6, <1>10 DEF Writes, Saved
  <2>2. /\ memory' \in [Proposal -> ProposalState] /\ disk' \in [Proposal -> ProposalState]
        /\ SavedInv' /\ HistoryInv'
        /\ commitErrors = 0 => OutcomesKnown' /\ ShownInv'
    BY <1>9, <2>1, WritesKeep
  <2>3. Held(p) = [proposal |-> p, result |-> "none", revision |-> 0] /\ memory' = next
        /\ writeFaults' = writeFaults
    BY <1>10 DEF Held, Saved
  <2>4. ReviewTypes'
    BY <1>1, <1>10, <2>2, <2>3, ReviewAssumption DEF ReviewInv, ReviewTypes, ReviewTypeOK, tip
  <2>5. HeldInv' /\ HeldKnown'
    BY <1>1, <1>5, <1>10, <2>3 DEF HeldInv, HeldKnown
  <2> QED
    BY <1>1, <2>2, <2>4, <2>5 DEF ReviewInv, Faultless
<1>11. CASE /\ Faults < MaxReviewFault /\ writeFaults' = writeFaults + 1
            /\ UNCHANGED <<memory, approval>> /\ disk' \in {disk, next}
  <2>1. Save([memory EXCEPT ![p] = x]) /\ approval' = approval
    BY <1>6, <1>11 DEF Save
  <2> QED
    BY <1>1, <1>9, <2>1, SaveKeeps
<1> QED
  BY <1>10, <1>11 DEF Approve, ApproveSaved, next

LEMMA StepResume ==
  ASSUME ReviewInv, NEW p \in Proposal, Resume(p)
  PROVE  ReviewInv'
<1>1. /\ memory[p].status = "approved" /\ memory[p].generation < MaxGeneration
      /\ approval' = Held(p)
      /\ UNCHANGED <<memory, disk, history, seen, outcomes, writeFaults, commitErrors>>
  BY DEF Resume, MayChange
<1>2. Held(p) = [proposal |-> p, result |-> "none", revision |-> 0]
  BY DEF Held
<1>3. ReviewTypes'
  BY <1>1, <1>2, ReviewAssumption DEF ReviewInv, ReviewTypes, ReviewTypeOK, tip
<1>4. SavedInv' /\ HistoryInv'
  BY <1>1 DEF ReviewInv, SavedInv, Sound, HistoryInv, tip
<1>5. HeldInv' /\ HeldKnown'
  BY <1>1, <1>2 DEF HeldInv, HeldKnown
<1>6. OutcomesKnown /\ ShownInv => OutcomesKnown' /\ ShownInv'
  BY <1>1 DEF OutcomesKnown, ShownInv, Stands, Shows, tip
<1> QED
  BY <1>1, <1>3, <1>4, <1>5, <1>6 DEF ReviewInv, Faultless

\* The result is what the journal says, so that the status tells the document.
LEMMA StepRecordResult ==
  ASSUME ReviewInv, NEW p \in Proposal, RecordResult(p)
  PROVE  ReviewInv'
<1> DEFINE next == Resolved(p)
<1>0. PICK status : status = StatusOf[approval.result]
  OBVIOUS
<1>1. /\ ~Free /\ approval' = Quiet /\ Save(next) /\ approval.proposal = p
      /\ UNCHANGED <<history, seen, outcomes, commitErrors>>
      /\ approval.result \in {"committed", "rejected", "needs_review", "error"}
      /\ approval.revision \in 0 .. MaxHead
  BY ReviewAssumption
  DEF RecordResult, Free, Quiet, ReviewInv, ReviewTypes, ReviewTypeOK
<1>2. /\ memory[p].status = "approved" /\ memory[p].generation < MaxGeneration
      /\ memory[p].pending \in Operation
      /\ memory[p].generation \in Nat
  BY <1>1, ReviewAssumption
  DEF ReviewInv, HeldInv, SavedInv, Sound, ReviewTypes, ReviewTypeOK, ProposalState
<1>3. status \in {"applied", "denied", "needs_review"}
      /\ (status = "applied" <=> approval.result = "committed")
      /\ (status = "denied" <=> approval.result = "rejected")
  BY <1>0, <1>1 DEF StatusOf
<1>4. PICK y \in ProposalState :
        /\ Changed(p, status) = [memory EXCEPT ![p] = y]
        /\ y.status = status /\ y.generation = memory[p].generation + 1
        /\ y.base = memory[p].base
  <2>1. status \in Status
    BY <1>3 DEF Status
  <2> QED
    BY <1>2, <2>1, ChangedShape DEF ReviewInv
<1> DEFINE x == [y EXCEPT !.revision = approval.revision]
<1>5. next = [memory EXCEPT ![p] = x]
  <2>1. next = [Changed(p, status) EXCEPT ![p].revision = approval.revision]
    BY <1>0 DEF Resolved
  <2> HIDE DEF next
  <2>2. next = [[memory EXCEPT ![p] = y] EXCEPT ![p].revision = approval.revision]
    BY <1>4, <2>1
  <2>3. memory = [q \in Proposal |-> memory[q]]
    BY DEF ReviewInv, ReviewTypes, ReviewTypeOK
  <2> HIDE DEF x
  <2>4. next = [memory EXCEPT ![p] = [y EXCEPT !.revision = approval.revision]]
    BY <2>2, <2>3
  <2> QED
    BY <2>4 DEF x
<1>6. /\ x \in ProposalState /\ x.status = status /\ x.generation = memory[p].generation + 1
      /\ x.base = memory[p].base /\ x.revision = approval.revision
  BY <1>1, <1>4 DEF ProposalState
<1> HIDE DEF x, next
<1>7. status = "applied" =>
        x.revision \in 1 .. tip /\ history[x.revision] = memory[p].pending
  BY <1>1, <1>3, <1>6 DEF ReviewInv, HeldInv
<1>8. Sound(p, x)
  BY <1>2, <1>3, <1>6, <1>7 DEF ReviewInv, SavedInv, Sound
<1>9. ASSUME commitErrors = 0
      PROVE  /\ Stands(x, memory[p])
             /\ \A i \in 1 .. tip : history[i][1] = p => Shows(x, i)
  <2>1. CASE status = "applied"
    BY <1>6, <2>1 DEF Stands, Shows
  <2>2. CASE status # "applied"
    <3>1. outcomes[memory[p].pending].result = "rejected"
      BY <1>1, <1>3, <1>9, <2>2 DEF ReviewInv, Faultless, HeldKnown
    <3>2. Stands(x, memory[p])
      BY <3>1 DEF Stands
    <3>3. ASSUME NEW i \in 1 .. tip, history[i][1] = p
          PROVE  FALSE
      <4>1. history[i] = memory[p].pending
        BY <1>2, <1>9, <3>3 DEF ReviewInv, Faultless, ShownInv, Shows
      <4>2. outcomes[history[i]].result = "committed"
        BY <1>2, <1>9, <4>1, OperationFacts DEF ReviewInv, Faultless, OutcomesKnown
      <4> QED
        BY <3>1, <4>1, <4>2
    <3> QED
      BY <3>2, <3>3
  <2> QED
    BY <2>1, <2>2
<1>10. Replaces(p, x)
  BY <1>2, <1>3, <1>6, <1>8, <1>9 DEF Replaces
<1> QED
  BY <1>1, <1>5, <1>10, SaveKeeps

----------------------------------------------------------------------------
(* Reviews: the commit, other commits and the restart                      *)

\* The head takes the operation o, NoOperation for a commit from outside.
LEMMA AppendKeeps ==
  ASSUME ReviewInv, NEW o \in Operation \cup {NoOperation}, tip \in Nat, tip' = tip + 1,
         history'[tip + 1] = o, \A i \in 1 .. tip : history'[i] = history[i],
         UNCHANGED <<memory, disk>>,
         o # NoOperation =>
           memory[o[1]].status # "none" /\ tip = memory[o[1]].base,
         \A b \in Operation : outcomes'[b].result = "committed" =>
           \/ outcomes[b].result = "committed" /\ outcomes'[b].revision = outcomes[b].revision
           \/ b = o /\ outcomes'[b].revision = tip + 1
  PROVE  SavedInv' /\ HistoryInv'
<1>1. \A q, y : Sound(q, y) => Sound(q, y)'
  <2> SUFFICES ASSUME NEW q, NEW y, Sound(q, y)
               PROVE  y.status = "applied" => y.revision \in 1 .. tip'
                                              /\ history'[y.revision][1] = q
    BY DEF Sound
  <2> QED
    BY DEF Sound
<1>2. memory' = memory /\ disk' = disk
  OBVIOUS
<1>3. SavedInv'
  <2>1. \A p \in Proposal : Sound(p, memory[p])' /\ Sound(p, disk[p])'
    BY <1>1, <1>2 DEF ReviewInv, SavedInv, Sound
  <2> QED
    BY <1>2, <2>1 DEF ReviewInv, SavedInv
<1>4. HistoryInv'
  <2>1. ASSUME NEW i \in 1 .. tip', history'[i] # NoOperation
        PROVE  memory[history'[i][1]].status # "none" /\ i = memory[history'[i][1]].base + 1
    BY <2>1 DEF ReviewInv, HistoryInv
  <2>2. ASSUME NEW b \in Operation, outcomes'[b].result = "committed"
        PROVE  outcomes'[b].revision \in 1 .. tip' /\ history'[outcomes'[b].revision] = b
    BY <2>2 DEF ReviewInv, HistoryInv
  <2> QED
    BY <1>2, <2>1, <2>2 DEF HistoryInv
<1> QED
  BY <1>3, <1>4

LEMMA StepOtherCommit ==
  ASSUME ReviewInv, OtherCommit
  PROVE  ReviewInv'
<1>1. /\ UNCHANGED <<memory, disk, outcomes, approval, writeFaults, commitErrors>>
      /\ seen' = seen \/ seen' = tip + 1
  BY DEF OtherCommit
<1>2. /\ tip' = tip + 1 /\ tip \in Nat /\ tip' <= MaxHead /\ history'[tip + 1] = NoOperation
      /\ \A i \in 1 .. tip : history'[i] = history[i]
      /\ history' \in Seq(Operation \cup {NoOperation})
  BY AppendFacts DEF ReviewInv, OtherCommit
<1>3. SavedInv' /\ HistoryInv'
  BY <1>1, <1>2, AppendKeeps
<1>4. ReviewTypes'
  BY <1>1, <1>2, ReviewAssumption DEF ReviewInv, ReviewTypes, ReviewTypeOK
<1>5. HeldInv'
  BY <1>1, <1>2 DEF ReviewInv, HeldInv, Free
<1>6. (HeldKnown => HeldKnown') /\ (OutcomesKnown => OutcomesKnown')
  <2>1. HeldKnown => HeldKnown'
    BY <1>1 DEF HeldKnown, Free
  <2>2. ASSUME OutcomesKnown, NEW i \in 1 .. tip', history'[i] # NoOperation
        PROVE  outcomes[history'[i]].result = "committed"
    BY <1>2, <2>2 DEF OutcomesKnown
  <2> QED
    BY <1>1, <2>1, <2>2 DEF OutcomesKnown
<1>7. ShownInv => ShownInv'
  <2> SUFFICES ASSUME ShownInv PROVE ShownInv'
    OBVIOUS
  <2>1. ASSUME NEW p \in Proposal, NEW i \in 1 .. tip', history'[i][1] = p
        PROVE  Shows(memory[p], i)' /\ Shows(disk[p], i)'
    <3>1. i \in 1 .. tip /\ history'[i] = history[i]
      BY <1>2, <2>1, OperationFacts, ReviewAssumption
    <3>2. Shows(memory[p], i) /\ Shows(disk[p], i)
      BY <2>1, <3>1 DEF ShownInv
    <3> QED
      BY <1>1, <3>1, <3>2 DEF Shows
  <2>2. \A p \in Proposal : Stands(disk[p], memory[p])'
    BY <1>1 DEF ShownInv, Stands
  <2> QED
    BY <2>1, <2>2 DEF ShownInv
<1> QED
  BY <1>1, <1>3, <1>4, <1>5, <1>6, <1>7 DEF ReviewInv, Faultless

\* An open operation is settled by what the history says.
LEMMA StepRestart ==
  ASSUME ReviewInv, RestartReview
  PROVE  ReviewInv'
<1> DEFINE Outcome == [result : {"none", "open", "committed", "rejected", "needs_review"},
                       revision : 0 .. MaxHead]
<1>1. /\ memory' = disk /\ disk' = disk /\ approval' = Quiet /\ seen' = tip
      /\ history' = history /\ writeFaults' = writeFaults /\ commitErrors' = commitErrors
  BY DEF RestartReview
<1>2. tip' = tip /\ tip \in 0 .. MaxHead
  BY <1>1, ReviewAssumption DEF ReviewInv, ReviewTypes, ReviewTypeOK, tip
<1>3. ASSUME NEW o \in Operation
      PROVE  \/ outcomes[o].result # "open" /\ outcomes'[o] = outcomes[o]
             \/ /\ outcomes[o].result = "open" /\ outcomes'[o].result = "committed"
                /\ outcomes'[o].revision \in 1 .. tip /\ history[outcomes'[o].revision] = o
                /\ outcomes'[o] \in Outcome
             \/ /\ outcomes[o].result = "open" /\ outcomes'[o].result = "rejected"
                /\ outcomes'[o] \in Outcome
  <2>1. outcomes'[o] =
          IF outcomes[o].result # "open" THEN outcomes[o]
          ELSE IF \E i \in 1 .. tip : history[i] = o
               THEN [result |-> "committed", revision |-> CHOOSE i \in 1 .. tip : history[i] = o]
               ELSE [result |-> "rejected", revision |-> 0]
    BY DEF RestartReview
  <2> DEFINE r == CHOOSE i \in 1 .. tip : history[i] = o
  <2>2. (\E i \in 1 .. tip : history[i] = o) => r \in 1 .. tip /\ history[r] = o
    OBVIOUS
  <2>3. CASE outcomes[o].result = "open" /\ \E i \in 1 .. tip : history[i] = o
    <3>1. outcomes'[o] = [result |-> "committed", revision |-> r]
      BY <2>1, <2>3
    <3> HIDE DEF r
    <3>2. outcomes'[o].result = "committed" /\ outcomes'[o].revision = r
      BY <3>1
    <3>3. outcomes'[o] \in Outcome
      BY <1>2, <2>2, <2>3, <3>1, ReviewAssumption
    <3> QED
      BY <2>2, <2>3, <3>2, <3>3
  <2>4. CASE outcomes[o].result = "open" /\ ~\E i \in 1 .. tip : history[i] = o
    BY <2>1, <2>4, ReviewAssumption
  <2>5. CASE outcomes[o].result # "open"
    BY <2>1, <2>5
  <2> QED
    BY <2>3, <2>4, <2>5
<1>4. outcomes' \in [Operation -> Outcome]
  <2>1. outcomes \in [Operation -> Outcome]
    BY DEF ReviewInv, ReviewTypes, ReviewTypeOK
  <2> HIDE DEF Outcome
  <2>2. ASSUME NEW o \in Operation
        PROVE  outcomes'[o] \in Outcome
    BY <1>3, <2>1
  <2>3. outcomes' = [o \in Operation |-> outcomes'[o]]
    BY DEF RestartReview
  <2> QED
    BY <2>2, <2>3
<1>5. ReviewTypes'
  <2>1. Quiet \in [proposal : Proposal \cup {NoProposal}, revision : 0 .. MaxHead,
                   result : {"none", "committed", "rejected", "needs_review", "error"}]
    BY ReviewAssumption DEF Quiet
  <2> QED
    BY <1>1, <1>2, <1>4, <2>1 DEF ReviewInv, ReviewTypes, ReviewTypeOK
<1>6. HeldInv' /\ HeldKnown'
  BY <1>1 DEF HeldInv, HeldKnown, Free
<1>7. SavedInv'
  BY <1>1, <1>2 DEF ReviewInv, SavedInv, Sound
<1>8. HistoryInv'
  <2>1. ASSUME NEW i \in 1 .. tip, history[i] # NoOperation
        PROVE  disk[history[i][1]].status # "none" /\ i = disk[history[i][1]].base + 1
    <3>1. history[i][1] \in Proposal
      BY <2>1, HistoryFacts, OperationFacts DEF ReviewInv
    <3> QED
      BY <2>1, <3>1 DEF ReviewInv, HistoryInv, SavedInv
  <2>2. \A o \in Operation : outcomes'[o].result = "committed" =>
          outcomes'[o].revision \in 1 .. tip /\ history[outcomes'[o].revision] = o
    <3> SUFFICES ASSUME NEW o \in Operation, outcomes'[o].result = "committed"
                 PROVE  outcomes'[o].revision \in 1 .. tip /\ history[outcomes'[o].revision] = o
      OBVIOUS
    <3>1. CASE outcomes'[o] = outcomes[o]
      BY <3>1 DEF ReviewInv, HistoryInv
    <3> HIDE DEF Outcome
    <3>2. CASE outcomes'[o] # outcomes[o]
      BY <1>3, <3>2
    <3> QED
      BY <3>1, <3>2
  <2> QED
    BY <1>1, <1>2, <2>1, <2>2 DEF HistoryInv
<1>9. OutcomesKnown /\ ShownInv => OutcomesKnown' /\ ShownInv'
  <2> SUFFICES ASSUME OutcomesKnown, ShownInv PROVE OutcomesKnown' /\ ShownInv'
    OBVIOUS
  <2>1. \A o \in Operation : outcomes'[o] = outcomes[o]
    BY <1>3 DEF OutcomesKnown
  <2>2. \A i \in 1 .. tip : history[i] # NoOperation => history[i] \in Operation
    BY HistoryFacts DEF ReviewInv
  <2>3. OutcomesKnown'
    BY <1>1, <1>2, <2>1, <2>2 DEF OutcomesKnown
  <2>4. ShownInv'
    BY <1>1, <1>2 DEF ShownInv, Stands, Shows
  <2> QED
    BY <2>3, <2>4
<1> QED
  BY <1>1, <1>5, <1>6, <1>7, <1>8, <1>9 DEF ReviewInv, Faultless

\* What the commit of a held approval leaves alone.
LEMMA CommitFrame ==
  ASSUME ReviewInv, NEW p \in Proposal, CommitPending(p)
  PROVE  /\ memory' = memory /\ disk' = disk /\ writeFaults' = writeFaults
         /\ approval = Held(p) /\ ~Free /\ approval.proposal = p /\ approval.result = "none"
         /\ memory[p].status = "approved" /\ memory[p].generation < MaxGeneration
         /\ memory[p].pending \in Operation /\ memory[p].pending[1] = p
<1>1. approval = [proposal |-> p, result |-> "none", revision |-> 0]
  BY DEF CommitPending, Held
<1>2. approval.proposal = p /\ approval.result = "none" /\ ~Free
  BY <1>1, ReviewAssumption DEF Free, Quiet
<1>3. memory' = memory /\ disk' = disk /\ writeFaults' = writeFaults /\ approval = Held(p)
  BY DEF CommitPending
<1> QED
  BY <1>2, <1>3 DEF ReviewInv, HeldInv, SavedInv, Sound

\* The journal answers again what it has decided.
LEMMA CommitAgain ==
  ASSUME ReviewInv, NEW p \in Proposal, CommitPending(p), NEW o, o = memory[p].pending,
         Decided(o), approval' = [Held(p) EXCEPT !.result = outcomes[o].result,
                                                 !.revision = outcomes[o].revision],
         seen' = IF outcomes[o].result = "committed" THEN outcomes[o].revision ELSE seen,
         UNCHANGED <<history, outcomes, commitErrors>>
  PROVE  ReviewInv'
<1>1. /\ memory' = memory /\ disk' = disk /\ writeFaults' = writeFaults /\ o \in Operation
      /\ memory[p].status = "approved" /\ memory[p].generation < MaxGeneration
  BY CommitFrame
<1>2. /\ approval'.proposal = p /\ approval'.result = outcomes[o].result
      /\ approval'.revision = outcomes[o].revision
      /\ approval' = [proposal |-> p, result |-> outcomes[o].result,
                      revision |-> outcomes[o].revision]
  BY DEF Held
<1>3. ReviewTypes'
  BY <1>1, <1>2 DEF ReviewInv, ReviewTypes, ReviewTypeOK, tip, Decided
<1>4. SavedInv' /\ HistoryInv'
  BY <1>1 DEF ReviewInv, SavedInv, Sound, HistoryInv, tip
<1>5. HeldInv'
  BY <1>1, <1>2 DEF ReviewInv, HeldInv, HistoryInv, tip
<1>6. OutcomesKnown /\ ShownInv => OutcomesKnown' /\ ShownInv' /\ HeldKnown'
  BY <1>1, <1>2 DEF OutcomesKnown, ShownInv, Stands, Shows, HeldKnown, tip
<1> QED
  BY <1>3, <1>4, <1>5, <1>6 DEF ReviewInv, Faultless

\* The journal decides a new result of o, which the head may have taken; the
\* answer of the commit may be an error instead.
Decides(p, o, result, revision, answer, held, published) ==
  /\ result \in {"open", "committed", "rejected", "needs_review"}
  /\ answer \in {"error", "committed", "rejected", "needs_review"}
  /\ answer \in {"committed", "rejected"} \/ result \in {"committed", "rejected"} =>
       answer = result
  /\ revision \in 0 .. MaxHead /\ held \in 0 .. MaxHead /\ seen' \in 0 .. MaxHead
  /\ outcomes' = [outcomes EXCEPT ![o] = [result |-> result, revision |-> revision]]
  /\ approval' = [proposal |-> p, revision |-> held, result |-> answer]
  /\ commitErrors' \in Nat /\ writeFaults + commitErrors' <= MaxReviewFault
  /\ commitErrors' = 0 => commitErrors = 0 /\ result \in {"committed", "rejected"}
  /\ published => tip = memory[p].base /\ tip < MaxHead /\ history' = Append(history, o)
  /\ ~published => history' = history
  /\ result = "committed" => published /\ revision = tip + 1 /\ held = tip + 1
  /\ result = "rejected" => ~published

LEMMA CommitDecides ==
  ASSUME ReviewInv, NEW p \in Proposal, CommitPending(p), NEW o, o = memory[p].pending,
         ~Decided(o), NEW result, NEW revision, NEW answer, NEW held, NEW published \in BOOLEAN,
         Decides(p, o, result, revision, answer, held, published)
  PROVE  ReviewInv'
<1>0. /\ result \in {"open", "committed", "rejected", "needs_review"}
      /\ answer \in {"error", "committed", "rejected", "needs_review"}
      /\ (answer \in {"committed", "rejected"} \/ result \in {"committed", "rejected"} =>
            answer = result)
      /\ revision \in 0 .. MaxHead /\ held \in 0 .. MaxHead /\ seen' \in 0 .. MaxHead
      /\ outcomes' = [outcomes EXCEPT ![o] = [result |-> result, revision |-> revision]]
      /\ approval' = [proposal |-> p, revision |-> held, result |-> answer]
      /\ commitErrors' \in Nat /\ writeFaults + commitErrors' <= MaxReviewFault
      /\ (commitErrors' = 0 => commitErrors = 0 /\ result \in {"committed", "rejected"})
      /\ (published => tip = memory[p].base /\ tip < MaxHead)
      /\ (~published => history' = history)
      /\ (result = "committed" => published /\ revision = tip + 1 /\ held = tip + 1)
      /\ (result = "rejected" => ~published)
  BY DEF Decides
<1>1. /\ memory' = memory /\ disk' = disk /\ writeFaults' = writeFaults /\ o \in Operation
      /\ memory[p].status = "approved" /\ memory[p].generation < MaxGeneration
      /\ o[1] = p
  BY CommitFrame
<1>2. /\ outcomes'[o] = [result |-> result, revision |-> revision]
      /\ outcomes'[o].result = result /\ outcomes'[o].revision = revision
      /\ \A b \in Operation \ {o} : outcomes'[b] = outcomes[b]
  BY <1>0, <1>1 DEF ReviewInv, ReviewTypes, ReviewTypeOK
<1>3. /\ tip \in Nat /\ history' \in Seq(Operation \cup {NoOperation}) /\ tip' <= MaxHead
      /\ \A i \in 1 .. tip : history'[i] = history[i]
      /\ published => tip' = tip + 1 /\ history'[tip + 1] = o
      /\ ~published => tip' = tip
  <2>1. CASE published
    BY <1>0, <1>1, <2>1, AppendFacts DEF ReviewInv, Decides
  <2>2. CASE ~published
    BY <1>0, <2>2, HistoryFacts DEF ReviewInv, ReviewTypes, ReviewTypeOK, tip
  <2> QED
    BY <2>1, <2>2
<1> DEFINE Outcome == [result : {"none", "open", "committed", "rejected", "needs_review"},
                       revision : 0 .. MaxHead]
<1>4. outcomes \in [Operation -> Outcome] /\ [result |-> result, revision |-> revision] \in Outcome
  BY <1>0 DEF ReviewInv, ReviewTypes, ReviewTypeOK
<1>5. ReviewTypes'
  <2>1. outcomes' \in [Operation -> Outcome]
    <3> HIDE DEF Outcome
    <3> QED
      BY <1>0, <1>1, <1>4
  <2>2. approval' \in [proposal : Proposal \cup {NoProposal}, revision : 0 .. MaxHead,
                       result : {"none", "committed", "rejected", "needs_review", "error"}]
    BY <1>0
  <2>3. /\ memory' \in [Proposal -> ProposalState] /\ disk' \in [Proposal -> ProposalState]
        /\ writeFaults' \in Nat /\ writeFaults' + commitErrors' <= MaxReviewFault
    BY <1>0, <1>1 DEF ReviewInv, ReviewTypes, ReviewTypeOK
  <2> HIDE DEF Outcome
  <2> QED
    BY <1>0, <1>3, <2>1, <2>2, <2>3 DEF ReviewTypes, ReviewTypeOK, Outcome
<1>6. SavedInv' /\ HistoryInv'
  <2>1. ASSUME published PROVE SavedInv' /\ HistoryInv'
    <3>1. \A b \in Operation : outcomes'[b].result = "committed" =>
            \/ outcomes[b].result = "committed" /\ outcomes'[b].revision = outcomes[b].revision
            \/ b = o /\ outcomes'[b].revision = tip + 1
      BY <1>0, <1>2
    <3>2. /\ tip' = tip + 1 /\ tip \in Nat /\ history'[tip + 1] = o
          /\ \A i \in 1 .. tip : history'[i] = history[i]
          /\ memory[o[1]].status # "none" /\ tip = memory[o[1]].base
      BY <1>0, <1>1, <1>3, <2>1
    <3> QED
      BY <1>1, <3>1, <3>2, AppendKeeps
  <2>2. ASSUME ~published PROVE SavedInv' /\ HistoryInv'
    <3>1. \A b \in Operation : outcomes'[b].result = "committed" => outcomes'[b] = outcomes[b]
      BY <1>0, <1>2, <2>2
    <3>2. history' = history /\ tip' = tip
      BY <1>0, <1>3, <2>2
    <3> QED
      BY <1>1, <3>1, <3>2 DEF ReviewInv, SavedInv, Sound, HistoryInv
  <2> QED
    BY <2>1, <2>2
<1>7. HeldInv'
  <2>1. approval'.proposal = p /\ approval'.revision = held
        /\ (approval'.result = "committed" => result = "committed")
    BY <1>0
  <2> QED
    BY <1>0, <1>1, <1>3, <2>1 DEF HeldInv
<1>8. Faultless'
  <2> SUFFICES ASSUME commitErrors' = 0
               PROVE  OutcomesKnown' /\ HeldKnown' /\ ShownInv'
    BY DEF Faultless
  <2>1. /\ OutcomesKnown /\ ShownInv /\ result \in {"committed", "rejected"}
        /\ (result = "committed" <=> published)
        /\ commitErrors = 0
    BY <1>0 DEF ReviewInv, Faultless
  <2>2. outcomes[o].result = "none"
    BY <1>1, <2>1 DEF OutcomesKnown, Decided
  <2>3. \A i \in 1 .. tip : history[i] # o
    BY <1>1, <2>1, <2>2, OperationFacts DEF OutcomesKnown
  <2>4. \A i \in 1 .. tip' : \/ i \in 1 .. tip /\ history'[i] = history[i]
                             \/ published /\ history'[i] = o
    BY <1>3
  <2>5. OutcomesKnown'
    <3>1. \A b \in Operation : outcomes'[b].result \in {"none", "committed", "rejected"}
      BY <1>2, <2>1 DEF OutcomesKnown
    <3>2. ASSUME NEW i \in 1 .. tip', history'[i] # NoOperation
          PROVE  outcomes'[history'[i]].result = "committed"
      <4>1. CASE i \in 1 .. tip /\ history'[i] = history[i]
        <5>1. history[i] \in Operation \ {o}
          BY <2>3, <3>2, <4>1, HistoryFacts DEF ReviewInv
        <5> QED
          BY <1>2, <2>1, <3>2, <4>1, <5>1 DEF OutcomesKnown
      <4>2. CASE published /\ history'[i] = o
        BY <1>2, <2>1, <4>2
      <4> QED
        BY <2>4, <4>1, <4>2
    <3> QED
      BY <3>1, <3>2 DEF OutcomesKnown
  <2>6. HeldKnown'
    <3>1. /\ approval'.proposal = p /\ approval'.result = result
      BY <1>0, <2>1
    <3> QED
      BY <1>1, <1>2, <2>1, <3>1 DEF HeldKnown
  <2>7. ASSUME NEW q \in Proposal, NEW d, d = disk[q], NEW m, m = memory[q]
        PROVE  /\ Stands(d, m)'
               /\ \A i \in 1 .. tip' : history'[i][1] = q => Shows(m, i)' /\ Shows(d, i)'
    <3>1. Stands(d, m)
      BY <2>1, <2>7 DEF ShownInv
    <3>2. Stands(d, m)'
      <4>1. outcomes[m.pending].result = "rejected" /\ m.status = "approved" =>
              outcomes'[m.pending].result = "rejected"
        <5> SUFFICES ASSUME outcomes[m.pending].result = "rejected", m.status = "approved"
                     PROVE  outcomes'[m.pending].result = "rejected"
          OBVIOUS
        <5>1. m.pending \in Operation \ {o}
          BY <2>2, <2>7 DEF ReviewInv, SavedInv, Sound
        <5> QED
          BY <1>2, <5>1
      <4> QED
        BY <3>1, <4>1 DEF Stands
    <3>3. ASSUME NEW i \in 1 .. tip', history'[i][1] = q
          PROVE  Shows(m, i)' /\ Shows(d, i)'
      <4>1. CASE i \in 1 .. tip /\ history'[i] = history[i]
        BY <2>1, <2>7, <3>3, <4>1 DEF ShownInv, Shows
      <4>2. CASE history'[i] = o
        <5>1. q = p /\ m.pending = o /\ m.status = "approved"
          BY <1>1, <2>7, <3>3, <4>2
        <5>2. d.status = "applied" \/ (d.status = "approved" /\ d.pending = o)
          BY <2>2, <3>1, <5>1 DEF Stands
        <5> QED
          BY <4>2, <5>1, <5>2 DEF Shows
      <4> QED
        BY <2>4, <4>1, <4>2
    <3> QED
      BY <3>2, <3>3
  <2>8. ShownInv'
    BY <1>1, <2>7 DEF ShownInv, Stands, Shows
  <2> QED
    BY <2>5, <2>6, <2>8
<1> QED
  BY <1>5, <1>6, <1>7, <1>8 DEF ReviewInv

LEMMA StepCommitPending ==
  ASSUME ReviewInv, NEW p \in Proposal, CommitPending(p)
  PROVE  ReviewInv'
<1>1. PICK o : o = memory[p].pending
  OBVIOUS
<1>2. PICK was : was = outcomes[o]
  OBVIOUS
<1>3. /\ o \in Operation /\ was = [result |-> was.result, revision |-> was.revision]
      /\ was.revision \in 0 .. MaxHead /\ seen \in 0 .. MaxHead
      /\ commitErrors \in Nat /\ writeFaults \in Nat
      /\ writeFaults + commitErrors <= MaxReviewFault /\ MaxReviewFault \in Nat
      /\ tip \in Nat /\ approval = [proposal |-> p, result |-> "none", revision |-> 0]
      /\ MaxHead \in Nat
      /\ outcomes \in [Operation ->
           [result : {"none", "open", "committed", "rejected", "needs_review"},
            revision : 0 .. MaxHead]]
  BY <1>1, <1>2, CommitFrame, HistoryFacts, ReviewAssumption
  DEF ReviewInv, ReviewTypes, ReviewTypeOK, Held
<1>4. CASE /\ Decided(o)
           /\ approval' = [Held(p) EXCEPT !.result = was.result, !.revision = was.revision]
           /\ seen' = IF was.result = "committed" THEN was.revision ELSE seen
           /\ UNCHANGED <<history, outcomes, commitErrors>>
  BY <1>1, <1>2, <1>4, CommitAgain
<1>5. CASE /\ ~Decided(o) /\ tip = memory[p].base /\ tip < MaxHead
           /\ history' = Append(history, o) /\ Decide(o, "committed", tip + 1)
           /\ seen' = tip + 1 /\ UNCHANGED commitErrors
  <2>1. PICK revision : revision = tip + 1
    OBVIOUS
  <2>2. /\ outcomes' = [outcomes EXCEPT ![o] = [result |-> "committed", revision |-> revision]]
        /\ approval' = [proposal |-> p, revision |-> revision, result |-> "committed"]
        /\ seen' \in 0 .. MaxHead /\ revision \in 0 .. MaxHead
    <3>1. Decide(o, "committed", revision)
      BY <1>5, <2>1
    <3>2. seen' \in 0 .. MaxHead /\ revision \in 0 .. MaxHead
      BY SMTT(30), <1>3, <1>5, <2>1
    <3> QED
      BY <1>3, <3>1, <3>2 DEF Decide
  <2>3. Decides(p, o, "committed", revision, "committed", revision, TRUE)
    BY <1>3, <1>5, <2>1, <2>2 DEF Decides
  <2> QED
    BY <1>1, <1>5, <2>3, CommitDecides
<1>6. CASE /\ ~Decided(o) /\ tip # memory[p].base /\ Decide(o, "rejected", 0)
           /\ UNCHANGED <<history, seen, commitErrors>>
  <2>1. /\ outcomes' = [outcomes EXCEPT ![o] = [result |-> "rejected", revision |-> 0]]
        /\ approval' = [proposal |-> p, revision |-> 0, result |-> "rejected"]
    BY <1>3, <1>6 DEF Decide
  <2>2. Decides(p, o, "rejected", 0, "rejected", 0, FALSE)
    BY <1>3, <1>6, <2>1 DEF Decides
  <2> QED
    BY <1>1, <1>6, <2>2, CommitDecides
<1>7. CASE /\ ~Decided(o) /\ Faults < MaxReviewFault /\ commitErrors' = commitErrors + 1
           /\ \/ UNCHANGED history
              \/ tip = memory[p].base /\ tip < MaxHead /\ history' = Append(history, o)
           /\ \/ Decide(o, "needs_review", 0)
              \/ /\ approval' = [Held(p) EXCEPT !.result = "error"]
                 /\ outcomes' = [outcomes EXCEPT ![o].result = "open"]
           /\ UNCHANGED seen
  <2>1. PICK published \in BOOLEAN :
          /\ published => tip = memory[p].base /\ tip < MaxHead /\ history' = Append(history, o)
          /\ ~published => history' = history
    <3>1. CASE UNCHANGED history
      BY <3>1
    <3>2. CASE tip = memory[p].base /\ tip < MaxHead /\ history' = Append(history, o)
      BY <3>2
    <3> QED
      BY <1>7, <3>1, <3>2
  <2>2. /\ commitErrors' \in Nat /\ writeFaults + commitErrors' <= MaxReviewFault
        /\ commitErrors' # 0
    BY <1>3, <1>7 DEF Faults
  <2>3. CASE Decide(o, "needs_review", 0)
    <3>1. /\ outcomes' = [outcomes EXCEPT ![o] = [result |-> "needs_review", revision |-> 0]]
          /\ approval' = [proposal |-> p, revision |-> 0, result |-> "needs_review"]
      BY <1>3, <2>3 DEF Decide
    <3>2. Decides(p, o, "needs_review", 0, "needs_review", 0, published)
      BY <1>3, <1>7, <2>1, <2>2, <3>1 DEF Decides
    <3> QED
      BY <1>1, <1>7, <3>2, CommitDecides
  <2>4. CASE /\ approval' = [Held(p) EXCEPT !.result = "error"]
             /\ outcomes' = [outcomes EXCEPT ![o].result = "open"]
    <3>1. PICK revision : revision = was.revision
      OBVIOUS
    <3>2. /\ outcomes' = [outcomes EXCEPT ![o] = [result |-> "open", revision |-> revision]]
          /\ approval' = [proposal |-> p, revision |-> 0, result |-> "error"]
      <4>1. [was EXCEPT !.result = "open"] = [result |-> "open", revision |-> revision]
        BY <1>3, <3>1
      <4>2. outcomes' = [outcomes EXCEPT ![o] = [was EXCEPT !.result = "open"]]
        BY <1>2, <2>4
      <4>3. approval' = [proposal |-> p, revision |-> 0, result |-> "error"]
        BY <2>4 DEF Held
      <4> QED
        BY <4>1, <4>2, <4>3
    <3>3. Decides(p, o, "open", revision, "error", 0, published)
      BY <1>3, <1>7, <2>1, <2>2, <3>1, <3>2 DEF Decides
    <3> QED
      BY <1>1, <1>7, <3>3, CommitDecides
  <2> QED
    BY <1>7, <2>3, <2>4
<1> QED
  BY <1>1, <1>2, <1>4, <1>5, <1>6, <1>7 DEF CommitPending

----------------------------------------------------------------------------
(* Reviews: the theorems                                                   *)

LEMMA InitReview == ReviewInit => ReviewInv
<1> SUFFICES ASSUME ReviewInit PROVE ReviewInv
  OBVIOUS
<1>1. tip = 0 /\ Unapproved \in ProposalState /\ Unapproved.status = "none"
  BY ReviewAssumption DEF ReviewInit, tip, Unapproved, ProposalState, Status
<1>2. ReviewTypes
  BY <1>1, ReviewAssumption DEF ReviewInit, ReviewTypes, ReviewTypeOK, Quiet
<1>3. SavedInv /\ HistoryInv /\ HeldInv
  BY <1>1 DEF ReviewInit, SavedInv, Sound, HistoryInv, HeldInv, Free
<1>4. Faultless
  BY <1>1 DEF ReviewInit, Faultless, OutcomesKnown, HeldKnown, ShownInv, Stands, Shows, Free
<1> QED
  BY <1>2, <1>3, <1>4 DEF ReviewInv

LEMMA ReviewStep == ReviewInv /\ [ReviewNext]_reviewVars => ReviewInv'
<1> SUFFICES ASSUME ReviewInv, [ReviewNext]_reviewVars PROVE ReviewInv'
  OBVIOUS
<1>1. CASE UNCHANGED reviewVars
  BY <1>1 DEF reviewVars, ReviewInv, ReviewTypes, ReviewTypeOK, SavedInv, Sound, HistoryInv,
              HeldInv, Faultless, OutcomesKnown, HeldKnown, ShownInv, Stands, Shows, Free, tip
<1>2. ASSUME NEW p \in Proposal,
             \/ Create(p) \/ Comment(p) \/ Withdraw(p) \/ Supersede(p)
             \/ FailApproval(p) \/ Approve(p) \/ Resume(p)
             \/ CommitPending(p) \/ RecordResult(p)
      PROVE  ReviewInv'
  BY <1>2, StepCreate, StepComment, StepRefuse, StepApprove, StepResume, StepCommitPending,
     StepRecordResult
<1>3. CASE OtherCommit \/ RestartReview
  BY <1>3, StepOtherCommit, StepRestart
<1> QED
  BY <1>1, <1>2, <1>3 DEF ReviewNext

LEMMA ReviewHolds == ReviewSpec => []ReviewInv
BY InitReview, ReviewStep, PTL DEF ReviewSpec

\* The types of the review, the bound on the faults included.
LEMMA ReviewTypesHold == ReviewSpec => []ReviewTypeOK
<1>1. ReviewInv => ReviewTypeOK
  BY DEF ReviewInv, ReviewTypes
<1> QED
  BY <1>1, ReviewHolds, PTL

\* A proposal that is shown as applied names the one revision that its
\* approval published, on the base that was reviewed, however often it is
\* retried, whatever writes and commits fail and whenever the process ends.
THEOREM ApprovalsPublishOnce == ReviewSpec => []AppliedIsPublished
<1>1. ReviewInv => AppliedIsPublished
  <2> SUFFICES ASSUME ReviewInv, NEW p \in Proposal
               PROVE  /\ PublishedAt(p) \subseteq {memory[p].base + 1, disk[p].base + 1}
                      /\ memory[p].status = "applied" =>
                           /\ PublishedAt(p) = {memory[p].revision}
                           /\ memory[p].revision = memory[p].base + 1
    BY DEF AppliedIsPublished
  <2>1. \A i \in PublishedAt(p) : i = memory[p].base + 1
    BY OperationFacts, ReviewAssumption DEF PublishedAt, ReviewInv, HistoryInv
  <2>2. memory[p].status = "applied" => memory[p].revision \in PublishedAt(p)
    BY DEF PublishedAt, ReviewInv, SavedInv, Sound
  <2> QED
    BY <2>1, <2>2
<1> QED
  BY <1>1, ReviewHolds, PTL

\* types.go:118: as long as no commit ends in an error, a proposal the mutation
\* of which is in the document is approved or applied, in memory and in the file.
THEOREM ApprovalsAreRecorded == ReviewSpec => []PublishedIsRecorded
<1>1. ReviewInv => PublishedIsRecorded
  <2> SUFFICES ASSUME ReviewInv, commitErrors = 0, NEW p \in Proposal, PublishedAt(p) # {}
               PROVE  /\ memory[p].status \in {"approved", "applied"}
                      /\ disk[p].status \in {"approved", "applied"}
    BY DEF PublishedIsRecorded
  <2>1. PICK i \in 1 .. tip : history[i][1] = p
    BY DEF PublishedAt
  <2> QED
    BY <2>1 DEF ReviewInv, Faultless, ShownInv, Shows
<1> QED
  BY <1>1, ReviewHolds, PTL
=============================================================================
