--------------------------- MODULE LocalSessions ---------------------------
(***************************************************************************)
(* The sessions of the local document host as its callers share them       *)
(* (internal/localdocument/lifecycle.go, delegated_access.go,              *)
(* authority.go): autosave jobs that a timer starts, calls that schedule,  *)
(* cancel and close, and the revocation of a delegation, which has to be   *)
(* ordered with the publications under it.  autosaveMu is one mutex for    *)
(* all sessions and is held while a call waits for a save that runs.       *)
(***************************************************************************)
EXTENDS Naturals, FiniteSets

CONSTANTS
  Session, 
  Delegated,   \* the session opened under the delegation; the others are the owner's
  Client,      \* callers of the host
  Job,         \* saves: autosave jobs and explicit saves, each used once
  NoSession, NoClient, NoJob

ASSUME SessionAssumption ==
  Delegated \subseteq Session /\ Cardinality(Delegated) <= 1 /\ NoSession \notin Session
  /\ NoClient \notin Client /\ NoJob \notin Job

VARIABLES
  session,     \* open or closed
  job,         \* the saves
  autosave,    \* Host.autosaves: the job of each session
  autosaveMu,  \* the client that holds the mutex
  client,      \* what each client is doing
  delegation,  \* the delegation: in memory, on disk
  revoked      \* history variable: RevokeDelegation has returned

sessionVars == <<session, job, autosave, autosaveMu, client, delegation, revoked>>

\* saving: before the fence; fenced: it holds the publication fence; published:
\* the head has moved and the fence is held until the commit returns.
Running == {"saving", "fenced", "published"}
JobState == {"none", "scheduled", "cancelled", "finished"} \cup Running
\* late: scheduled after a Close of its session had cancelled what there was.
NewJob == [state |-> "none", of |-> NoSession, explicit |-> FALSE, cancelled |-> FALSE, late |-> FALSE]
Resting == [pc |-> "idle", doing |-> "none", of |-> NoSession, awaits |-> NoJob]
Doing == {"schedule", "cancel", "close", "revoke"}

SessionInit ==
  /\ session = [s \in Session |-> "open"]
  /\ job = [j \in Job |-> NewJob] /\ autosave = [s \in Session |-> NoJob]
  /\ autosaveMu = NoClient /\ client = [c \in Client |-> Resting]
  /\ delegation = [memory |-> "live", disk |-> "live"] /\ revoked = FALSE

----------------------------------------------------------------------------
(* cancelAutosaveJob, the beginning of every call                          *)

Revoking == \E c \in Client : client[c].doing = "revoke"

\* Mutant: a call does not wait for a save that has started.
NothingToAwait(s) == NoJob
\* The job that has to finish before the call goes on.
ToAwait(s) ==
  IF autosave[s] # NoJob /\ job[autosave[s]].state \in Running THEN autosave[s] ELSE NoJob

\* The call takes the mutex and cancels a job whose timer has not fired.
\* RevokeDelegation holds delegationMu throughout.
TakeAutosave(c, what, s) ==
  LET j == autosave[s] IN
  /\ autosaveMu = NoClient /\ autosaveMu' = c
  /\ client' = [client EXCEPT ![c] = [pc |-> "taken", doing |-> what, of |-> s, awaits |-> ToAwait(s)]]
  /\ IF j # NoJob /\ job[j].state = "scheduled"
     THEN /\ job' = [job EXCEPT ![j].state = "cancelled", ![j].cancelled = TRUE]
          /\ autosave' = [autosave EXCEPT ![s] = NoJob]
     ELSE UNCHANGED <<job, autosave>>
  /\ UNCHANGED <<session, delegation, revoked>>

BeginCall(c) ==
  /\ client[c].pc = "idle"
  /\ \E what \in Doing, s \in Session :
       /\ what # "close" => session[s] = "open"
       /\ what = "revoke" => ~Revoking /\ s \in Delegated
       /\ TakeAutosave(c, what, s)

\* The save it waits for has finished; the mutex is held until here.
Awaited(c) == client[c].pc = "taken" /\
  (client[c].awaits # NoJob => job[client[c].awaits].state = "finished")
Unlock == autosaveMu' = NoClient
Rest(c) == client' = [client EXCEPT ![c] = Resting]

\* Mutant: the timer of a cancelled job is not stopped and its callback saves.
AnyTimer(j) == job[j].state \in {"scheduled", "cancelled"}
\* The callback leaves at once unless its job is the job of the session still.
Due(j) == job[j].state = "scheduled" /\ autosave[job[j].of] = j

ScheduleAutosave(c) ==
  LET s == client[c].of IN
  /\ Awaited(c) /\ client[c].doing = "schedule"
  /\ \/ session[s] = "closed" /\ UNCHANGED <<job, autosave>>
     \/ /\ session[s] = "open"
        /\ \E j \in Job :
             /\ job[j].state = "none"
             /\ job' = [job EXCEPT ![j] =
                  [NewJob EXCEPT !.state = "scheduled", !.of = s,
                     !.late = \E d \in Client : client[d].pc = "closing" /\ client[d].of = s]]
             /\ autosave' = [autosave EXCEPT ![s] = j]
     \* bound: no job is left, and the call is refused
     \/ (\A j \in Job : job[j].state # "none") /\ UNCHANGED <<job, autosave>>
  /\ Unlock /\ Rest(c)
  /\ UNCHANGED <<session, delegation, revoked>>

CancelAutosave(c) ==
  /\ Awaited(c) /\ client[c].doing = "cancel"
  /\ Unlock /\ Rest(c)
  /\ UNCHANGED <<session, job, autosave, delegation, revoked>>

----------------------------------------------------------------------------
(* Close                                                                   *)

LeaveForClose(c) ==
  /\ Awaited(c) /\ client[c].doing = "close"
  /\ Unlock /\ client' = [client EXCEPT ![c].pc = "closing", ![c].awaits = NoJob]
  /\ UNCHANGED <<session, job, autosave, delegation, revoked>>

\* The runtime may refuse to close the document, which leaves the session open.
Close(c) ==
  /\ client[c].pc = "closing"
  /\ session' \in {session, [session EXCEPT ![client[c].of] = "closed"]}
  /\ Rest(c)
  /\ UNCHANGED <<job, autosave, autosaveMu, delegation, revoked>>

----------------------------------------------------------------------------
(* RevokeDelegation                                                        *)

\* No session is open under the delegation: there is no autosave to cancel.
BeginRevocation(c) ==
  /\ client[c].pc = "idle" /\ ~Revoking
  /\ \A s \in Delegated : session[s] = "closed"
  /\ client' = [client EXCEPT ![c] = [Resting EXCEPT !.pc = "fencing", !.doing = "revoke"]]
  /\ UNCHANGED <<session, job, autosave, autosaveMu, delegation, revoked>>

LeaveForFence(c) ==
  /\ Awaited(c) /\ client[c].doing = "revoke"
  /\ Unlock /\ client' = [client EXCEPT ![c].pc = "fencing", ![c].awaits = NoJob]
  /\ UNCHANGED <<session, job, autosave, delegation, revoked>>

\* Mutant: the fence is taken before the autosaves are cancelled.
WriterFromTheStart == Revoking
\* A writer that waits for the fence keeps new readers out.
WriterWaits == \E c \in Client : client[c].pc = "fencing"
\* Mutant: the delegation is replaced without the fence.
IgnoreReaders == TRUE
NoReaders == \A j \in Job : job[j].of \in Delegated => job[j].state \notin {"fenced", "published"}

MayFence(c) == client[c].pc = "fencing" /\ NoReaders

\* The write of the delegations may fail, with or without effect on the disk.
RevokeDelegation(c) ==
  /\ MayFence(c)
  /\ \/ delegation' = [memory |-> "revoked", disk |-> "revoked"] /\ revoked' = TRUE
     \/ /\ delegation' \in {delegation, [delegation EXCEPT !.disk = "revoked"]}
        /\ UNCHANGED revoked
  /\ Rest(c)
  /\ UNCHANGED <<session, job, autosave, autosaveMu>>

----------------------------------------------------------------------------
(* A save                                                                  *)

SetJob(j, state) == job' = [job EXCEPT ![j].state = state]

\* The timer fires; Save refuses a session that is closed.
Fire(j) ==
  /\ Due(j)
  /\ SetJob(j, "saving")
  /\ UNCHANGED <<session, autosave, autosaveMu, client, delegation, revoked>>

\* An explicit save of an open session: it is no job that a call waits for.
StartSave(j, s) ==
  /\ job[j].state = "none" /\ session[s] = "open"
  /\ job' = [job EXCEPT ![j] = [NewJob EXCEPT !.state = "saving", !.of = s, !.explicit = TRUE]]
  /\ UNCHANGED <<session, autosave, autosaveMu, client, delegation, revoked>>

Finished(j) ==
  /\ SetJob(j, "finished")
  /\ autosave' = [s \in Session |-> IF autosave[s] = j THEN NoJob ELSE autosave[s]]

\* Save is refused before it reaches the fence: the session is closed or out of
\* date, the source has changed, the batch or its authorization fails.
RefuseSave(j) ==
  /\ job[j].state = "saving" /\ Finished(j)
  /\ UNCHANGED <<session, autosaveMu, client, delegation, revoked>>

MayAcquire(j) == job[j].state = "saving" /\ (job[j].of \in Delegated => ~WriterWaits)

\* AcquireAuthoringPublication: the delegation is resolved under the fence.
AcquirePublication(j) ==
  /\ MayAcquire(j)
  /\ IF job[j].of \in Delegated /\ delegation.memory = "revoked"
     THEN Finished(j) ELSE SetJob(j, "fenced") /\ UNCHANGED autosave
  /\ UNCHANGED <<session, autosaveMu, client, delegation, revoked>>

PublishSave(j) ==
  /\ job[j].state = "fenced" /\ SetJob(j, "published")
  /\ UNCHANGED <<session, autosave, autosaveMu, client, delegation, revoked>>

\* The commit returns, published or refused, and the callback removes its job.
FinishSave(j) ==
  /\ job[j].state \in {"fenced", "published"} /\ Finished(j)
  /\ UNCHANGED <<session, autosaveMu, client, delegation, revoked>>

\* The process ends and is started again; a delegated session is opened only
\* if its delegation is on the disk.
RestartSessions ==
  /\ delegation.memory # delegation.disk \/ (\E c \in Client : client[c].pc # "idle")
     \/ (\E j \in Job : job[j].state \in Running)
  /\ delegation' = [delegation EXCEPT !.memory = delegation.disk]
  /\ session' = [s \in Session |->
       IF s \in Delegated /\ delegation.disk = "revoked" THEN "closed" ELSE "open"]
  /\ job' = [j \in Job |-> IF job[j].state \in Running \cup {"scheduled"}
                           THEN [job[j] EXCEPT !.state = "finished"] ELSE job[j]]
  /\ autosave' = [s \in Session |-> NoJob]
  /\ autosaveMu' = NoClient /\ client' = [c \in Client |-> Resting]
  /\ UNCHANGED revoked

\* What goes on by itself once calls and saves have begun.
CallStep(c) ==
  ScheduleAutosave(c) \/ CancelAutosave(c) \/ LeaveForClose(c) \/ Close(c)
  \/ LeaveForFence(c) \/ RevokeDelegation(c)
SaveStep(j) == AcquirePublication(j) \/ PublishSave(j) \/ FinishSave(j)
Progress == (\E c \in Client : CallStep(c)) \/ (\E j \in Job : SaveStep(j))

SessionNext ==
  \/ \E c \in Client : BeginCall(c) \/ BeginRevocation(c)
  \/ Progress
  \/ \E j \in Job : Fire(j) \/ RefuseSave(j) \/ \E s \in Session : StartSave(j, s)
  \/ RestartSessions

SessionSpec == SessionInit /\ [][SessionNext]_sessionVars

----------------------------------------------------------------------------
(* Properties                                                              *)

SessionTypeOK ==
  /\ session \in [Session -> {"open", "closed"}]
  /\ job \in [Job -> [state : JobState, of : Session \cup {NoSession}, explicit : BOOLEAN,
                      cancelled : BOOLEAN, late : BOOLEAN]]
  /\ autosave \in [Session -> Job \cup {NoJob}] /\ autosaveMu \in Client \cup {NoClient}
  /\ client \in [Client -> [pc : {"idle", "taken", "closing", "fencing"},
                            doing : Doing \cup {"none"}, of : Session \cup {NoSession},
                            awaits : Job \cup {NoJob}]]
  /\ delegation \in [memory : {"live", "revoked"}, disk : {"live", "revoked"}]
  /\ revoked \in BOOLEAN

AutosavesOf(s) == {j \in Job : job[j].of = s /\ ~job[j].explicit}

\* A session has at most one autosave that runs, and a job whose completion was
\* told that it was cancelled never saves, whenever its timer fires.
AutosavesExclude ==
  /\ \A s \in Session : Cardinality({j \in AutosavesOf(s) : job[j].state \in Running}) <= 1
  /\ \A j \in Job : job[j].cancelled => job[j].state = "cancelled"

\* When Close has returned, no autosave that was scheduled before it began is
\* running or still to run.
ClosedIsQuiet ==
  \A s \in Session : session[s] = "closed" =>
    \A j \in AutosavesOf(s) : job[j].late \/ job[j].state \in {"cancelled", "finished"}

\* authority.go:39: delegated publication is linearized against revocation:
\* nothing is published under a delegation after RevokeDelegation returned,
\* also when the process is restarted.
RevokedNeverPublishes ==
  [][\A j \in Job : job[j].of \in Delegated /\ job[j].state = "fenced"
       /\ job'[j].state = "published" => ~revoked]_sessionVars

\* The guards of CallStep and of SaveStep.
MayGo(c) == Awaited(c) \/ client[c].pc = "closing" \/ MayFence(c)
MaySave(j) == MayAcquire(j) \/ job[j].state \in {"fenced", "published"}

\* Calls that hold autosaveMu while they wait for a save, saves that wait for
\* the fence and a revocation that waits for both never block one another: as
\* long as a call or a save is under way, one of them may take its next step.
NobodyWaitsForEver ==
  (\E c \in Client : client[c].pc # "idle") \/ (\E j \in Job : job[j].state \in Running)
    => (\E c \in Client : MayGo(c)) \/ (\E j \in Job : MaySave(j))
=============================================================================
